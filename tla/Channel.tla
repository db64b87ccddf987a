------------------------------- MODULE Channel -------------------------------
(***************************************************************************)
(* What a connection promises in one direction: the receiver is given the  *)
(* messages that were sent, whole, once and in order, and never anything   *)
(* else.  The rest of them may never come.                                 *)
(***************************************************************************)
EXTENDS SequencesExt

VARIABLES sent, received

Init == sent = <<>> /\ received = <<>>

Send ==
    /\ IsStrictPrefix(sent, sent')
    /\ UNCHANGED received

Deliver ==
    /\ Len(received) < Len(sent)
    /\ received' = Append(received, sent[Len(received) + 1])
    /\ UNCHANGED sent

Spec == Init /\ [][Send \/ Deliver]_<<sent, received>>
=============================================================================
