------------------------------ MODULE CrossWin ------------------------------
(***************************************************************************)
(* The fake server and the Windows agent on one connection, with a user at *)
(* the mouse and the keyboard.  Server, agent and user take turns in any   *)
(* order; the streams between them keep order and lose nothing until an    *)
(* end closes.                                                             *)
(***************************************************************************)
EXTENDS FakeServer, Agent

\* The server's mask has a bit for each button the agent reports, and the
\* window it makes is a surface the agent accepts.
ASSUME EndsAssumption ==
    /\ PointerButtons \subseteq Buttons
    /\ MaxPixels \in Nat /\ InitialWindow.w * InitialWindow.h <= MaxPixels

VARIABLES
    events,         \* events so far
    reported        \* the cursor at the last motion or start of a left press
                    \* that the agent reported

linuxVars == <<sessionVars, mode, serverVars>>
vars == <<linuxVars, wireVars, agentVars, events, reported>>

\* initialize: HELLO is sent once the connection is there.
Init ==
    /\ ServerInit /\ AgentInit
    /\ toAgent = <<>> /\ toServer = <<Hello>>
    /\ serverSocket = "open" /\ agentSocket = "open"
    /\ events = 0 /\ reported = {}

ServerStep == ServerNext /\ UNCHANGED <<agentVars, events, reported>>

ThreadStep == AgentStep /\ UNCHANGED <<linuxVars, events, reported>>

\* Every event the user causes counts against the bound.
LeftDown == {id \in DOMAIN proxies : "left" \in proxies[id].buttons}
Motions(channel) == Cardinality(MessagesOf(channel, "POINTER_MOTION"))
UserStep ==
    /\ events < mode.events
    /\ events' = events + 1
    /\ PointerStep \/ FocusStep
    /\ reported' = IF Motions(toServer') > Motions(toServer) \/ LeftDown' \ LeftDown # {}
                   THEN {cursor'} ELSE reported
    /\ UNCHANGED linuxVars

KillStep ==
    /\ mode.mortal
    /\ Kill
    /\ UNCHANGED <<linuxVars, events, reported>>

Next == ServerStep \/ ThreadStep \/ UserStep \/ KillStep

\* Both programs are event loops that never stop serving their sources; the
\* user and the killing of the process are under no obligation.
Spec == Init /\ [][Next]_vars
FairSpec == Spec /\ WF_vars(ServerStep) /\ WF_vars(ThreadStep)
-----------------------------------------------------------------------------
(* Safety.                                                                 *)

ProxyType ==
    [owners : {<<>>}, alive : {TRUE}, width : 1 .. MaxInt, height : 1 .. MaxInt, framebuffer : SUBSET Point,
     frameSequence : 0 .. MaxSequence, presentation : Presentation, physical : Rect,
     buttons : SUBSET PointerButtons, tracking : BOOLEAN, focused : BOOLEAN,
     keys : SUBSET Keys]
TypeOK ==
    /\ SessionTypeOK
    /\ DOMAIN proxies \subseteq {FakeWindow} /\ \A id \in DOMAIN proxies : proxies[id] \in ProxyType
    /\ DOMAIN pending \subseteq {FakeWindow} /\ \A id \in DOMAIN pending : pending[id] \in Presentation
    /\ agent \in {"running", "quitting", "exited"} /\ exitCode \in {"success", "failure"}
    /\ dispatches \in 0 .. 1 /\ dispatchPosted \in BOOLEAN
    /\ helloReceived \in BOOLEAN /\ scriptStep \in 0 .. Len(Script)
    /\ awaiting \subseteq 1 .. MaxSequence /\ deferred \subseteq Presentation
    /\ Cardinality(awaiting) <= 1 /\ Cardinality(deferred) <= 1
    /\ \A s \in {capture, focus} : s \subseteq DOMAIN proxies /\ Cardinality(s) <= 1
    /\ held \subseteq PointerButtons /\ cursor \in CursorPoints

EveryMessageIsRead == ~mode.script /\ mode.keyboard /\ ~mode.mortal
Up == serverSocket = "open" /\ agentSocket = "open"
Settled == Up /\ toAgent = <<>> /\ toServer = <<>> /\ dispatches = 0
Proxy == proxies[FakeWindow]
Shown == {[source |-> p.presentation.source, destination |-> p.presentation.destination] :
             p \in {proxies[id] : id \in {i \in DOMAIN proxies : proxies[i].presentation.visible}}}

\* A location is made of the presentation the agent applied last.  By the time
\* the server reads it, further presentations may have been recorded, yet the
\* one it names is still in the history and no input is ever dropped as stale.
InputIsNeverStale ==
    \A i \in DOMAIN toServer :
       serverSocket = "open" /\ toServer[i].type \in PointerTypes
          => Lookup(toServer[i].location.sequence) # {}

\* What the server waits for is exactly one of: a PRESENT on its way, a
\* presentation the agent has queued, an ACK on its way back.
PresentsInFlight == MessagesOf(toAgent, "WINDOW_PRESENT")
AcksInFlight     == MessagesOf(toServer, "WINDOW_PRESENT_ACK")
InFlight ==
    {toAgent[i].presentation.sequence : i \in PresentsInFlight}
    \cup {pending[id].sequence : id \in DOMAIN pending}
    \cup {toServer[i].sequence : i \in AcksInFlight}
OnePresentInFlight ==
    Up => /\ InFlight = awaiting
          /\ Cardinality(PresentsInFlight) + Cardinality(DOMAIN pending)
                + Cardinality(AcksInFlight) <= 1
          /\ deferred # {} => awaiting # {}

\* When nothing is under way the proxy shows the window where Linux has it,
\* whatever motions were folded into one deferred presentation on the way.
SettledShowsTheWindow ==
    Settled /\ helloReceived /\ ~mode.script
       => Shown = WindowRegionOnOutput(window, RemoteOutput)

\* A drag does not drift: each motion is measured against the presentation the
\* agent had then, late as it may be, and yet the window ends displaced by
\* exactly what the cursor moved since the grab.
DragFollowsTheCursor ==
    Settled /\ grab.active
       => \A c \in reported :
             /\ window.x - grab.window.x = RemoteOutput.x + c.x - grab.pointer.x
             /\ window.y - grab.window.y = RemoteOutput.y + c.y - grab.pointer.y

\* When nothing is under way both ends agree on the buttons, and the agent has
\* the mouse captured as long as one is down: a release it could not report
\* can still be made good by the loss of that capture.
ButtonsAgree ==
    Settled /\ FakeWindow \in DOMAIN proxies
       => pressed = Proxy.buttons /\ (capture = {} <=> pressed = {})

\* When nothing is under way the proxy has every crosshair that was drawn.
FramebufferIsCurrent ==
    Settled /\ FakeWindow \in DOMAIN proxies => Proxy.framebuffer = crosshairs

\* In an interactive session with a server that reads every message neither
\* program ends the connection over a message of the other.
ServerKeepsTheConnection ==
    EveryMessageIsRead => serverSocket = "open" /\ agentSocket = "open"

\* Only a script played to its end makes the agent exit with success.
SuccessMeansTheScriptEnded ==
    agent = "exited" /\ exitCode = "success" => mode.script /\ scriptStep = Len(Script)

\* In a session the proxy never goes back to an older presentation.  (A script
\* does, when a drag takes sequences ahead of its next step.)
PresentationsAdvance ==
    [][\A id \in DOMAIN proxies \cap DOMAIN proxies' :
          ~mode.script /\ proxies'[id].presentation # proxies[id].presentation
             => proxies'[id].presentation.sequence > proxies[id].presentation.sequence]_vars
-----------------------------------------------------------------------------
(* Liveness.                                                               *)

\* Once the user pauses, the proxy comes to show the window.
WindowIsShown == []<>(Shown = WindowRegionOnOutput(window, RemoteOutput) \/ ~Up)

\* A script is played to its end and both programs end, the agent with success,
\* unless the agent is killed or the user does more than hover: a drag takes a
\* sequence of the script, a message of the keyboard may be refused.
Hovers == held = {} /\ focus = {}
ScriptCompletes ==
    mode.script /\ ~mode.mortal
       => <>((agent = "exited" /\ exitCode = "success" /\ serverSocket = "closed") \/ ~Hovers)

\* When one program has gone the other goes too.
NobodyIsLeftBehind ==
    (agent = "exited" \/ serverSocket = "closed")
       ~> (agent = "exited" /\ serverSocket = "closed")

\* A click on the shown window is drawn in the window's surface.  As the README
\* has it; with the server as it is the keyboard's messages end the session.
IsClicked == \E id \in DOMAIN proxies : proxies[id].buttons # {}
ClickDrawsTheCrosshair == IsClicked ~> crosshairs # {}
=============================================================================
