-------------------------- MODULE PresentationLog ---------------------------
(***************************************************************************)
(* What the presentation history of a session promises its callers,        *)
(* without rings and slots: the most recent transmitted presentations, at  *)
(* most Capacity of them, oldest first, under distinct sequences, and a    *)
(* counter that is past every one of them until the log is cleared.        *)
(***************************************************************************)
EXTENDS Integers, Sequences

CONSTANTS Capacity, MaxSequence, Presentations

VARIABLES recent, next

logVars == <<recent, next>>

LatestOf(s) == SubSeq(s, IF Len(s) > Capacity THEN Len(s) - Capacity + 1 ELSE 1, Len(s))

Init == recent = <<>> /\ next = 1

\* Reserve one or more sequences.
Reserve ==
    /\ next' \in next + 1 .. MaxSequence
    /\ UNCHANGED recent

\* Transmit a presentation, possibly one reserved in the same step.
Keep(p) ==
    /\ p.sequence \in 1 .. MaxSequence - 1
    /\ \A i \in DOMAIN recent : recent[i].sequence # p.sequence
    /\ recent' = LatestOf(Append(recent, p))
    /\ next' \in next .. MaxSequence
    /\ next' > p.sequence

\* The connection is gone.
Clear == recent' = <<>> /\ next' = 1

Next == Reserve \/ Clear \/ \E p \in Presentations : Keep(p)

Spec == Init /\ [][Next]_logVars
=============================================================================
