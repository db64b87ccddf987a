------------------------------ MODULE Transport ------------------------------
(***************************************************************************)
(* One TCP connection below the messages: windows-agent/protocol.cpp       *)
(* (AgentProtocol) at one end and the socket loop of fake-server/main.c at *)
(* the other.  The agent's socket does not block: what a send does not     *)
(* take waits in the transmit queue until the socket is writable, and a    *)
(* readable socket is drained.  The server blocks: it sends all of a       *)
(* message before it goes on, and reads only when it has nothing to send.  *)
(*                                                                         *)
(* What is said is given: the agent says its messages by itself, when the  *)
(* user or a timer of Win32 has it do so; the server answers each message  *)
(* in its handler.  Every loop - recv and feed, send - may be interrupted  *)
(* by the other end between any two calls.                                 *)
(***************************************************************************)
EXTENDS Decoder

CONSTANTS
    Conversations,  \* bound, what may be said: agent, the messages the agent
                    \* says; server[n], what the server's handler of the n-th
                    \* of them sends; mortal, the ends that may go at any time
    Rooms,          \* bytes that a direction of the connection may hold
    ReceiveSizes    \* bytes that one recv may take, 8192

\* The header and the payload of a message.  A foreign message is one of a peer
\* of another version, which has a header of its own.
Encoded(m) ==
    IF m.type = "FOREIGN" THEN m
    ELSE [header |-> Header(MessageTypes[m.type], Len(Payload(m)), 0), payload |-> Payload(m)]
\* cw_message_encode refuses what a receiver would.
CanEncode(m) ==
    \/ m.type = "FOREIGN"
    \/ HeaderError(Encoded(m).header) = "ok" /\ IsValid(Encoded(m).header.type, Encoded(m).payload)

\* Numbers that fit in their fields, and as many bytes as the header says: also
\* a foreign message is one, if its header gives the receiver no other reason.
\* It is none that this version would read.
IsMessage(m) ==
    LET e == Encoded(m)
    IN  /\ IF m.type = "FOREIGN"
           THEN HeaderError(e.header) = "ok" /\ IsKnown(e.header.type)
                   => ~IsValid(e.header.type, e.payload)
           ELSE m.type \in DOMAIN MessageTypes /\ m \in MessagesOf(m.type)
        /\ e.header \in [magic : U32, version : U16, type : U16, flags : U32,
                         length : U32, sequence : {0}]
        /\ e.payload \in Seq(Byte)
        /\ HeaderError(e.header) = "ok" => e.header.length = Len(e.payload)
Said(m) == CanEncode(m) /\ IsMessage(m)

ASSUME TransportAssumption ==
    /\ Rooms \subseteq Nat \ {0} /\ ReceiveSizes \subseteq Nat \ {0}
    /\ \A c \in Conversations :
          /\ c.agent \in Seq({c.agent[n] : n \in DOMAIN c.agent})
          /\ \A n \in DOMAIN c.agent : Said(c.agent[n])
          /\ \A n \in DOMAIN c.server :
                /\ c.server[n] \in Seq({c.server[n][k] : k \in DOMAIN c.server[n]})
                /\ \A k \in DOMAIN c.server[n] : Said(c.server[n][k])

VARIABLES
    conversation, room, receiveSize,    \* what was chosen, constant
    socket,         \* of each end: "open", "closed" or, unread bytes lost, "reset"
    sent,           \* by each end: the messages it sent, a history
    unsent,         \* agent: transmit_queue_ from transmit_offset_ on;
                    \* server: what send_all has yet to send
    writeWanted,    \* the agent's last send got WSAEWOULDBLOCK: FD_WRITE will come
    pipe,           \* from each end: bytes the other has not received
    chunk,          \* at each end: bytes received and not yet fed
    decoder,        \* of each end
    received        \* at each end: the messages handled, a history

chosen == <<conversation, room, receiveSize>>
vars == <<chosen, socket, sent, unsent, writeWanted, pipe, chunk, decoder, received>>

Ends == {"agent", "server"}
Peer(e) == IF e = "agent" THEN "server" ELSE "agent"
At(f, e, value) == [f EXCEPT ![e] = value]

Init ==
    /\ conversation \in Conversations /\ room \in Rooms /\ receiveSize \in ReceiveSizes
    /\ socket   = [e \in Ends |-> "open"]
    /\ sent     = [e \in Ends |-> <<>>]
    /\ unsent   = [e \in Ends |-> <<>>]
    /\ writeWanted = FALSE
    /\ pipe     = [e \in Ends |-> <<>>]
    /\ chunk    = [e \in Ends |-> <<>>]
    /\ decoder  = [e \in Ends |-> NewDecoder]
    /\ received = [e \in Ends |-> <<>>]

IsUp == \A e \in Ends : socket[e] = "open"
-----------------------------------------------------------------------------
(* Sending.                                                                *)

\* next_wire_sequence_, an uint64, when the n-th message is sent.  It goes into
\* the header.
WireSequence(n) == n % (U32Limit * U32Limit)
Bytes(m, sequence) ==
    HeaderBytes([Encoded(m).header EXCEPT !.sequence = sequence]) \o Encoded(m).payload
Numbered(m, sequence) == [sequence |-> sequence, message |-> m]

\* send: as much as there is room for.
SentNow(e, bytes) ==
    LET space == room - Len(pipe[e])
    IN  IF Len(bytes) < space THEN Len(bytes) ELSE space
Remaining(e, bytes) == SubSeq(bytes, SentNow(e, bytes) + 1, Len(bytes))
Send(e, bytes) ==
    /\ pipe' = At(pipe, e, pipe[e] \o SubSeq(bytes, 1, SentNow(e, bytes)))
    /\ unsent' = At(unsent, e, Remaining(e, bytes))

\* flush_transmit_queue
Flush(queue) ==
    /\ Send("agent", queue)
    /\ writeWanted' = (unsent'["agent"] # <<>>)

\* queue_message, also from within a handler.  (Once the server has gone the
\* agent's messages are lost whether its sends still succeed or not.)
Queued(bytes) == unsent["agent"] \o bytes
AgentSays ==
    LET n == Len(sent["agent"]) + 1
        m == conversation.agent[n]
    IN  /\ IsUp
        /\ n <= Len(conversation.agent)
        /\ sent' = At(sent, "agent", Append(sent["agent"], Numbered(m, WireSequence(n))))
        /\ Flush(Queued(Bytes(m, WireSequence(n))))
        /\ UNCHANGED <<chosen, socket, chunk, decoder, received>>

\* FD_WRITE
AgentIsWritable ==
    /\ IsUp
    /\ writeWanted /\ Len(pipe["agent"]) < room
    /\ Flush(unsent["agent"])
    /\ UNCHANGED <<chosen, socket, sent, chunk, decoder, received>>

\* send_all blocks until there is room.  What it sends to a peer that has gone
\* nobody reads.
ServerSends ==
    /\ socket["server"] = "open" /\ unsent["server"] # <<>>
    /\ \/ /\ IsUp /\ Len(pipe["server"]) < room
          /\ Send("server", unsent["server"])
       \/ /\ ~IsUp
          /\ unsent' = At(unsent, "server", <<>>)
          /\ UNCHANGED pipe
    /\ UNCHANGED <<chosen, socket, sent, writeWanted, chunk, decoder, received>>
-----------------------------------------------------------------------------
(* Receiving.                                                              *)

\* The agent reads whenever there is something, also with a full queue.
SendFirst(e) == unsent[e] = <<>>    \* mutant
MayRead(e) == e = "agent" \/ unsent[e] = <<>>

\* recv
Receive(e) ==
    LET n == IF receiveSize < Len(pipe[Peer(e)]) THEN receiveSize ELSE Len(pipe[Peer(e)])
    IN  /\ socket[e] = "open" /\ MayRead(e)
        /\ chunk[e] = <<>> /\ pipe[Peer(e)] # <<>>
        /\ chunk' = At(chunk, e, SubSeq(pipe[Peer(e)], 1, n))
        /\ pipe' = At(pipe, Peer(e), SubSeq(pipe[Peer(e)], n + 1, Len(pipe[Peer(e)])))
        /\ UNCHANGED <<chosen, socket, sent, unsent, writeWanted, decoder, received>>

\* The end closes its socket, and what it had to send, had received or could
\* have received is gone.  Closed with bytes unread the connection is reset,
\* and what the peer has not received may go with it.
Close(e) ==
    /\ IF pipe[Peer(e)] = <<>> /\ chunk[e] = <<>>
       THEN socket' = At(socket, e, "closed") /\ pipe' = pipe
       ELSE /\ socket' = At(socket, e, "reset")
            /\ \E kept \in {pipe[e], <<>>} :
                  pipe' = [pipe EXCEPT ![e] = kept, ![Peer(e)] = <<>>]
    /\ unsent' = At(unsent, e, <<>>)
    /\ writeWanted' = (writeWanted /\ e # "agent")
    /\ chunk' = At(chunk, e, <<>>)

\* The types handle_protocol_message and on_message have a handler for.  The
\* server's first message has to be a HELLO that offers its version and format,
\* and no other may be.
Handles ==
    [agent  |-> {"HELLO_ACK", "OUTPUT_CONFIG", "WINDOW_CREATE", "WINDOW_FRAME", "WINDOW_DAMAGE",
                 "WINDOW_RESIZE", "WINDOW_PRESENT", "WINDOW_ACTIVATE", "WINDOW_DESTROY"},
     server |-> {"WINDOW_PRESENT_ACK", "POINTER_ENTER", "POINTER_LEAVE",
                 "POINTER_MOTION", "POINTER_BUTTON", "POINTER_WHEEL", "POINTER_CAPTURE_LOST"}]
Offers(hello) == Version \in hello.min .. hello.max /\ hello.formats % 2 = 1
HasHandler(e, n, m) ==
    /\ IsKnown(m.header.type)
    /\ LET name == TypeName(m.header.type)
       IN  IF e = "server" /\ n = 1 THEN name = "HELLO" /\ Offers(Fields(name, m.payload))
           ELSE name \in Handles[e]

\* What becomes of a complete message, the n-th of its stream.
Verdict(e, n, m) ==
    IF ~IsValid(m.header.type, m.payload) THEN "invalid payload"
    ELSE IF ~HasHandler(e, n, m) THEN "rejected"
    ELSE "ok"
ThisVerdict(e, m) == Verdict(e, Len(received[e]) + 1, m)

\* The server's handler encodes its answers and sends them one after the other.
Answers(n) == IF n \in DOMAIN conversation.server THEN conversation.server[n] ELSE <<>>
BytesOfAnswers(n) ==
    LET first == Len(sent["server"])
        upTo[k \in 0 .. Len(Answers(n))] ==
            IF k = 0 THEN <<>> ELSE upTo[k - 1] \o Bytes(Answers(n)[k], WireSequence(first + k))
    IN  upTo[Len(Answers(n))]
Answer(e) ==
    IF e = "agent" THEN UNCHANGED <<sent, unsent>>
    ELSE LET n == Len(received'[e])
         IN  /\ sent' = At(sent, e, sent[e] \o [k \in DOMAIN Answers(n) |->
                                      Numbered(Answers(n)[k], WireSequence(Len(sent[e]) + k))])
             /\ unsent' = At(unsent, e, BytesOfAnswers(n))

\* cw_decoder_feed, one pass: more bytes are wanted, a message is handled, or
\* the stream is refused and the end closes.
Feed(e) ==
    /\ socket[e] = "open" /\ chunk[e] # <<>>
    /\ e = "server" => unsent[e] = <<>>
    /\ \E fed \in Pass(decoder[e], chunk[e]) :
          \/ /\ fed.decoder.error = "ok" /\ ~IsComplete(fed.decoder)
             /\ decoder' = At(decoder, e, fed.decoder)
             /\ chunk' = At(chunk, e, fed.rest)
             /\ UNCHANGED <<socket, sent, unsent, writeWanted, pipe, received>>
          \/ \E m \in Complete(fed.decoder) :
                /\ ThisVerdict(e, m) = "ok"
                /\ decoder' = At(decoder, e, ReadyForNext(fed.decoder))
                /\ chunk' = At(chunk, e, fed.rest)
                /\ received' = At(received, e, Append(received[e], Numbered(
                                     Fields(TypeName(m.header.type), m.payload), m.header.sequence)))
                /\ Answer(e)
                /\ UNCHANGED <<socket, writeWanted, pipe>>
          \/ \E m \in Complete(fed.decoder) :
                /\ ThisVerdict(e, m) # "ok"
                /\ decoder' = At(decoder, e, Failed(fed.decoder, ThisVerdict(e, m)))
                /\ Close(e)
                /\ UNCHANGED <<sent, received>>
          \/ /\ fed.decoder.error # "ok"
             /\ decoder' = At(decoder, e, fed.decoder)
             /\ Close(e)
             /\ UNCHANGED <<sent, received>>
    /\ UNCHANGED chosen
-----------------------------------------------------------------------------
(* The end of the connection.                                              *)

\* recv returns 0, for the agent also behind FD_CLOSE: everything that came
\* before was fed.  A reset is an error and leaves the decoder as it is.
PeerEnded(e) ==
    /\ socket[e] = "open" /\ socket[Peer(e)] # "open" /\ MayRead(e)
    /\ chunk[e] = <<>> /\ pipe[Peer(e)] = <<>>
    /\ decoder' = IF socket[Peer(e)] = "closed"
                  THEN At(decoder, e, Finished(decoder[e])) ELSE decoder
    /\ Close(e)
    /\ UNCHANGED <<chosen, sent, received>>

\* send fails when the peer is gone: the handler that sent fails with it.
SendFails ==
    /\ socket["server"] = "open" /\ socket["agent"] # "open"
    /\ unsent["server"] # <<>>
    /\ decoder' = At(decoder, "server", Failed(decoder["server"], "rejected"))
    /\ Close("server")
    /\ UNCHANGED <<chosen, sent, received>>

\* An end goes by itself: the agent quits with its last window, or a process
\* is killed.
Goes(e) ==
    /\ e \in conversation.mortal
    /\ socket[e] = "open"
    /\ Close(e)
    /\ UNCHANGED <<chosen, sent, decoder, received>>

EndStep(e) == Receive(e) \/ Feed(e) \/ PeerEnded(e)
AgentStep  == EndStep("agent") \/ AgentIsWritable
ServerStep == EndStep("server") \/ ServerSends \/ SendFails
Next == AgentStep \/ ServerStep \/ AgentSays \/ \E e \in Ends : Goes(e)

Spec == Init /\ [][Next]_vars
\* Both are loops that serve their sockets; nobody has to say anything.
FairSpec == Spec /\ WF_vars(AgentStep) /\ WF_vars(ServerStep)
=============================================================================
