--------------------------- MODULE TransportCheck ---------------------------
(***************************************************************************)
(* What the messages of a connection may rely on.                          *)
(***************************************************************************)
EXTENDS Transport

ToServer == INSTANCE Channel WITH sent <- sent["agent"],  received <- received["server"]
ToAgent  == INSTANCE Channel WITH sent <- sent["server"], received <- received["agent"]

\* However the stream is cut, each direction is a channel of messages: an end
\* handles what the other sent, field by field, in order, and nothing else -
\* never half a message of an end that went away while it was sending.
StreamsAreChannels == ToServer!Spec /\ ToAgent!Spec

\* An end refuses exactly the first message it has no use for, for the reason
\* that message gives and no other, and misses the end of the stream only
\* behind a whole message.
Opinion(e, n) ==
    LET m == Encoded(sent[Peer(e)][n].message)
    IN  IF HeaderError(m.header) # "ok" THEN HeaderError(m.header) ELSE Verdict(e, n, m)
ErrorsAreEarned ==
    \A e \in Ends :
       /\ \A i \in DOMAIN received[e] : Opinion(e, i) = "ok"
       /\ decoder[e].error = "truncated" => socket[Peer(e)] = "closed"
       /\ decoder[e].error \notin {"ok", "truncated"} =>
             \/ /\ Len(received[e]) < Len(sent[Peer(e)])
                /\ decoder[e].error = Opinion(e, Len(received[e]) + 1)
             \/ decoder[e].error = "rejected" /\ socket[Peer(e)] # "open"

\* What is said arrives, unless an end goes or refuses something, and then
\* both end: with both directions full somebody still reads.
Arrived == \A e \in Ends : received[Peer(e)] = sent[e]
EverythingArrivesOrBothEnd ==
    []<>((IsUp /\ Arrived) \/ \A e \in Ends : socket[e] # "open")
=============================================================================
