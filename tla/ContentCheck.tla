---------------------------- MODULE ContentCheck ----------------------------
(***************************************************************************)
(* The pixels of one window: an exporter, which is not in the repository,  *)
(* tells the agent of contents by frames and by damage, resizes the        *)
(* window, presents it and answers requests for a whole frame.  What it    *)
(* sends follows crosswin/README.md, and several messages may be on their  *)
(* way.  A content is what a client committed; its version numbers it.     *)
(***************************************************************************)
EXTENDS Agent

CONSTANTS
    Widths,         \* widths of the window's contents; their height is one
    Images,         \* contents: sets of the surface points that are not blank
    Damages,        \* the damage it may announce: sequences of rectangles
    Padding,        \* bytes of padding behind each row of its frames
    ResizeWaits,    \* whether it resizes only once every PRESENT is acknowledged
    MaxVersions,    \* bound: contents committed
    MaxPresents,    \* bound: presentations sent
    MaxInFlight     \* bound: messages on their way to the agent

ASSUME ContentAssumption ==
    /\ MaxPixels \in 1 .. MaxInt /\ Widths \subseteq 1 .. MaxPixels
    /\ Damages \subseteq Seq(Rect) /\ Padding \in Nat /\ ResizeWaits \in BOOLEAN
    /\ MaxVersions \in Nat /\ MaxPresents \in Nat /\ MaxInFlight \in Nat

VARIABLES
    history,        \* the contents committed so far: [width, image]
    announced,      \* the version of the last frame or damage sent, 0 for none
    presented,      \* the sequence of the last PRESENT sent
    unacked         \* sequences presented and not acknowledged

exporterVars == <<history, announced, presented, unacked>>
vars == <<wireVars, agentVars, exporterVars>>

Content == 1    \* the window's id
Version == Len(history)
Columns(width) == {[x |-> x, y |-> 0] : x \in 0 .. width - 1}
Surface(x, width) == [x |-> x, y |-> 0, w |-> width, h |-> 1]
UnitScale == [numerator |-> 1, denominator |-> 1]

FullFrame(contents) ==
    LET v == Len(contents)
        width == contents[v].width
    IN  WindowFrame(Content, v, width, 1, Stride(width) + Padding, contents[v].image)

Init ==
    /\ AgentInit
    /\ announced \in {0, 1}
    /\ \E width \in Widths :
          /\ history = <<[width |-> width, image |-> {}]>>
          /\ toAgent = <<HelloAck, OutputConfig(UnitScale), WindowCreate(Content, 0, width, 1)>>
                       \o (IF announced = 0 THEN <<>> ELSE <<FullFrame(history)>>)
    /\ toServer = <<>> /\ serverSocket = "open" /\ agentSocket = "open"
    /\ presented = 0 /\ unacked = {}
-----------------------------------------------------------------------------
Tell(messages) ==
    /\ serverSocket = "open"
    /\ Len(toAgent) + Len(messages) <= MaxInFlight
    /\ toAgent' = IF agentSocket = "open" THEN toAgent \o messages ELSE toAgent
    /\ UNCHANGED <<toServer, serverSocket, agentSocket, agentVars>>

Committed(width, image) == history' = Append(history, [width |-> width, image |-> image])

\* A client commits: the exporter sends the whole, or what is damaged since the
\* version before, or nothing.
Commit ==
    /\ Version < MaxVersions
    /\ \E image \in Images :
          LET width == history[Version].width
              old   == history[Version].image
          IN  /\ image \subseteq Columns(width) /\ Committed(width, image)
              /\ \/ /\ Tell(<<FullFrame(history')>>)
                    /\ announced' = Version + 1
                 \/ /\ \E rects \in Damages :
                          /\ \A p \in (old \ image) \cup (image \ old) :
                                \E r \in ToSet(rects) : RectContainsPoint(r, p)
                          /\ Tell(<<WindowDamage(Content, Version, Version + 1,
                                 [i \in DOMAIN rects |->
                                    [rect |-> rects[i],
                                     pixels |-> {p \in image : RectContainsPoint(rects[i], p)}]])>>)
                    /\ announced' = Version + 1
                 \/ /\ Tell(<<>>)
                    /\ UNCHANGED announced
    /\ UNCHANGED <<presented, unacked>>

\* A client commits a content of another size: RESIZE, the whole frame, and
\* the presentation that shows it.
Present(visible) ==
    LET width == history'[Len(history')].width
        region == IF visible THEN Surface(0, width) ELSE EmptyRect
    IN  WindowPresent(Content, [sequence |-> presented + 1, source |-> region,
                                destination |-> region, visible |-> visible])
Presented ==
    /\ presented < MaxPresents
    /\ presented' = presented + 1
    /\ unacked' = unacked \cup {presented + 1}
Resize ==
    /\ Version < MaxVersions
    /\ ResizeWaits => unacked = {}
    /\ \E width \in Widths \ {history[Version].width}, image \in Images :
          /\ image \subseteq Columns(width)
          /\ Committed(width, image)
          /\ Tell(<<WindowResize(Content, width, 1), FullFrame(history'), Present(TRUE)>>)
    /\ announced' = Version + 1
    /\ Presented

\* The window is moved, shown or hidden.
Move ==
    /\ UNCHANGED <<history, announced>>
    /\ \E visible \in BOOLEAN : Tell(<<Present(visible)>>)
    /\ Presented

Reads ==
    /\ serverSocket = "open" /\ toServer # <<>>
    /\ toServer' = Tail(toServer)
    /\ LET m == Head(toServer)
       IN  \/ /\ m.type = "WINDOW_PRESENT_ACK"
              /\ unacked' = unacked \ {m.sequence}
              /\ UNCHANGED <<toAgent, announced>>
           \/ /\ m.type = "WINDOW_FRAME_REQUEST"
              /\ Len(toAgent) < MaxInFlight
              /\ toAgent' = IF agentSocket = "open" THEN Append(toAgent, FullFrame(history))
                            ELSE toAgent
              /\ announced' = Version
              /\ UNCHANGED unacked
           \/ /\ m.type \notin {"WINDOW_PRESENT_ACK", "WINDOW_FRAME_REQUEST"}
              /\ UNCHANGED <<toAgent, announced, unacked>>
    /\ UNCHANGED <<serverSocket, agentSocket, history, presented, agentVars>>

ThreadStep == AgentStep /\ UNCHANGED exporterVars

Next == Commit \/ Resize \/ Move \/ Reads \/ ThreadStep
Spec == Init /\ [][Next]_vars
FairSpec == Spec /\ WF_vars(Reads) /\ WF_vars(ThreadStep)
-----------------------------------------------------------------------------
(* Properties.                                                             *)

Window == proxies[Content]

\* Through frames, damage that fits or does not, resizes and requests, the
\* framebuffer is at any time one whole content, and never goes back.
View == {[width |-> p.width, shown |-> p.frameSequence, image |-> p.framebuffer] :
            p \in {proxies[id] : id \in DOMAIN proxies}}
Pixels == INSTANCE Mirror WITH history <- history, view <- View
FramebufferIsOneContent == Pixels!MirrorSpec

\* When nothing is queued or on its way, the proxy has the content announced
\* last and presents no pixel outside of it.
Settled == toAgent = <<>> /\ toServer = <<>> /\ DOMAIN pending = {} /\ DOMAIN proxies # {}
SettledShowsTheContent ==
    Settled =>
       /\ Window.frameSequence = announced
       /\ announced # 0 => /\ Window.width = history[announced].width
                           /\ Window.framebuffer = history[announced].image
       /\ RectRight(Window.presentation.source) <= Window.width

\* The proxy catches up with the exporter: asking for a whole frame ends.
ContentCatchesUp ==
    []<>(agentSocket = "closed" \/ \E id \in DOMAIN proxies :
                                     proxies[id].frameSequence = announced)

\* The agent does not end a connection over a stream that follows the protocol,
\* if its frames have no padding: others pass the codec and are always refused
\* (apply_frame, proved as PaddedFramesAreNeverDrawn).  MCAgentContent.cfg has
\* Padding = 0.
LegalStreamIsAccepted == serverSocket = "open" => agentSocket = "open"
=============================================================================
