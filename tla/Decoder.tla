------------------------------- MODULE Decoder -------------------------------
(***************************************************************************)
(* CwDecoder of common/protocol.c: messages out of a stream of bytes that  *)
(* may be cut anywhere.  It gathers the bytes of one header, learns from   *)
(* it how long the message is, gathers the rest and starts again.          *)
(***************************************************************************)
EXTENDS Codec

\* data and length; the header, once header_ready; error, which is never cleared.
NewDecoder == [data |-> <<>>, header |-> {}, error |-> "ok"]

HeaderReady(d) == d.header # {}
Required(d) == HeaderSize + (IF HeaderReady(d) THEN (CHOOSE h \in d.header : TRUE).length ELSE 0)

\* decoder_append of the bytes that are still required, or of all there are.
Taken(d, bytes) ==
    LET missing == Required(d) - Len(d.data)
    IN  IF missing < Len(bytes) THEN missing ELSE Len(bytes)
Gathered(d, bytes) ==
    [decoder |-> [d EXCEPT !.data = @ \o SubSeq(bytes, 1, Taken(d, bytes))],
     rest    |-> SubSeq(bytes, Taken(d, bytes) + 1, Len(bytes))]

HeaderRead(data, h) ==
    IF HeaderError(h) = "ok" THEN [data |-> data, header |-> {h}, error |-> "ok"]
    ELSE [data |-> data, header |-> {}, error |-> HeaderError(h)]

\* One pass of the loop of cw_decoder_feed, up to where a message may be
\* complete: what is left of the header, and then of the payload.  (Sets of
\* one result.)
HeaderPass(d, bytes) ==
    IF HeaderReady(d) THEN {[decoder |-> d, rest |-> bytes]}
    ELSE {IF Len(g.decoder.data) < HeaderSize THEN g
          ELSE [g EXCEPT !.decoder = HeaderRead(g.decoder.data, HeaderOf(g.decoder.data))]
             : g \in {Gathered(d, bytes)}}
Pass(d, bytes) ==
    {IF HeaderReady(g.decoder) THEN Gathered(g.decoder, g.rest) ELSE g
        : g \in HeaderPass(d, bytes)}
IsComplete(d) == HeaderReady(d) /\ Len(d.data) = Required(d)
Complete(d)   == {[header |-> h, payload |-> SubSeq(d.data, HeaderSize + 1, Len(d.data))]
                     : h \in {x \in d.header : IsComplete(d)}}

\* What becomes of a complete message for which the callback returns accepted.
KeepHeader(d) == [d EXCEPT !.data = <<>>]    \* mutant
ReadyForNext(d) == [data |-> <<>>, header |-> {}, error |-> d.error]
Failed(d, error) == [d EXCEPT !.error = error]

\* cw_decoder_finish, at the end of the stream.
Finished(d) == IF d.error = "ok" /\ d.data # <<>> THEN Failed(d, "truncated") ELSE d
=============================================================================
