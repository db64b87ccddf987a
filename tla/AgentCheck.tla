----------------------------- MODULE AgentCheck -----------------------------
(***************************************************************************)
(* The agent against an exporter that is not in the repository and sends   *)
(* any decodable message it may have cause for, also one the agent has to  *)
(* refuse.  The exporter keeps what a reader of the agent's messages knows *)
(* of the input state; the properties are about that knowledge.            *)
(***************************************************************************)
EXTENDS Agent

CONSTANTS
    Ids,            \* window ids the exporter uses
    Parents,        \* window id -> the parents it may be created with, 0 for none
    Width, Height,  \* the size of their surfaces
    Regions,        \* source, destination and visible of what it presents
    Scales,         \* the output scales it may start with
    Rescales,       \* the output scales it may change to
    Kinds,          \* what it sends: "create", "destroy", "activate"
    ActivateWaits,  \* whether it activates only once every PRESENT is acknowledged
    MaxSent,        \* bound: messages the exporter sends after the first ones
    MaxEvents       \* bound: the user's events

ASSUME ExporterAssumption ==
    /\ Ids \subseteq Nat \ {0} /\ IsFiniteSet(Ids)
    /\ Regions \subseteq [source : Rect, destination : Rect, visible : BOOLEAN]
    /\ Scales \subseteq Scale /\ Rescales \subseteq Scale
    /\ \A s \in Scales \cup Rescales : ScaleIsValid(s)
    /\ Parents \in [Ids -> SUBSET (Ids \cup {0})] /\ \A id \in Ids : id \notin Parents[id]
    /\ Kinds \subseteq {"create", "destroy", "activate"} /\ ActivateWaits \in BOOLEAN
    /\ MaxSent \in Nat /\ MaxEvents \in Nat
ASSUME ScreenAssumption == CursorPoints \subseteq Point    \* a POINT of two LONGs

VARIABLES
    sent,           \* counts what is sent; also numbers presentations
    newest,         \* window id -> sequence and visible of its newest PRESENT
    unacked,        \* window id -> sequences presented and not acknowledged
    known,          \* window id -> what the agent's messages say of its input
    front,          \* the window activated last, unless another was shown since
    events          \* the user's events so far

exporterVars == <<sent, newest, unacked, known, front>>
vars == <<wireVars, agentVars, exporterVars, events>>

NoPresent == [sequence |-> 0, visible |-> FALSE]
Untouched == [shown |-> 0, entered |-> FALSE, buttons |-> {}, focused |-> FALSE, keys |-> {}]

\* The connection starts as every one does, with a window for every id and a
\* parent created before its popups; perhaps each is presented at once.
Orders(parents) ==
    {order \in SetToSeqs(Ids) : \A i, j \in DOMAIN order : parents[order[j]] = order[i] => i < j}
Creates(order, parents) ==
    [i \in DOMAIN order |-> WindowCreate(order[i], parents[order[i]], Width, Height)]
Presentation(r, sequence) ==
    [sequence |-> sequence, source |-> r.source, destination |-> r.destination,
     visible |-> r.visible]
Presents(order, r) ==
    [i \in DOMAIN order |-> WindowPresent(order[i], Presentation(r, i))]
FirstPresents(order, r) ==
    [id \in Ids |-> [sequence |-> CHOOSE i \in DOMAIN order : order[i] = id,
                     visible |-> r.visible]]
Init ==
    /\ AgentInit
    /\ \E s \in Scales, parents \in [Ids -> Ids \cup {0}] :
          /\ \A id \in Ids : parents[id] \in Parents[id]
          /\ \E order \in Orders(parents) :
                \/ /\ toAgent = <<HelloAck, OutputConfig(s)>> \o Creates(order, parents)
                   /\ newest = [id \in Ids |-> NoPresent]
                \/ \E r \in Regions :
                   /\ toAgent = <<HelloAck, OutputConfig(s)>> \o Creates(order, parents)
                                                            \o Presents(order, r)
                   /\ newest = FirstPresents(order, r)
    /\ toServer = <<>>
    /\ serverSocket = "open" /\ agentSocket = "open"
    /\ sent = Cardinality(Ids) /\ events = 0
    /\ unacked = [id \in Ids |-> {newest[id].sequence} \ {0}]
    /\ known = [id \in Ids |-> Untouched]
    /\ front = {}
-----------------------------------------------------------------------------
(* The exporter.  It sends its next message when the agent has read the    *)
(* last: what it sends does not depend on the agent, and the agent acts on *)
(* nothing it has not read.                                                *)

ExporterSends(message) ==
    /\ serverSocket = "open" /\ agentSocket = "open"
    /\ toAgent = <<>> /\ sent < Cardinality(Ids) + MaxSent
    /\ sent' = sent + 1
    /\ toAgent' = <<message>>
    /\ UNCHANGED <<toServer, serverSocket, agentSocket, known, agentVars, events>>

SendConfig ==
    /\ \E s \in Rescales : ExporterSends(OutputConfig(s))
    /\ UNCHANGED <<newest, unacked, front>>
SendCreate(id) ==
    /\ "create" \in Kinds
    /\ \E parent \in Parents[id] : ExporterSends(WindowCreate(id, parent, Width, Height))
    /\ newest' = [newest EXCEPT ![id] = NoPresent]
    /\ front' = {}
    /\ UNCHANGED unacked
SendPresent(id) ==
    /\ \E r \in Regions :
          /\ ExporterSends(WindowPresent(id, Presentation(r, sent + 1)))
          /\ newest' = [newest EXCEPT ![id] = [sequence |-> sent + 1, visible |-> r.visible]]
          /\ front' = IF r.visible = newest[id].visible THEN front ELSE {}
    /\ unacked' = [unacked EXCEPT ![id] = @ \cup {sent + 1}]
SendActivate(id) ==
    /\ "activate" \in Kinds
    /\ ActivateWaits => \A i \in Ids : unacked[i] = {}
    /\ ExporterSends(WindowActivate(id))
    /\ front' = {id}
    /\ UNCHANGED <<newest, unacked>>
SendDestroy(id) ==
    /\ "destroy" \in Kinds
    /\ ExporterSends(WindowDestroy(id))
    /\ front' = {}
    /\ UNCHANGED <<newest, unacked>>

ExporterCloses ==
    /\ serverSocket = "open"
    /\ serverSocket' = "closed" /\ toServer' = <<>>
    /\ UNCHANGED <<toAgent, agentSocket, agentVars, exporterVars, events>>

\* What reading m adds to what is known of its window's input.
After(k, m) ==
    CASE m.type = "WINDOW_PRESENT_ACK"   -> [k EXCEPT !.shown = m.sequence]
      [] m.type = "POINTER_ENTER"        -> [k EXCEPT !.entered = TRUE]
      [] m.type = "POINTER_LEAVE"        -> [k EXCEPT !.entered = FALSE]
      [] m.type = "POINTER_BUTTON"       -> [k EXCEPT !.buttons = IF m.down THEN @ \cup {m.button}
                                                                  ELSE @ \ {m.button}]
      [] m.type = "POINTER_CAPTURE_LOST" -> [k EXCEPT !.buttons = {}]
      [] m.type = "KEYBOARD_FOCUS"       -> [k EXCEPT !.focused = m.focused]
      [] m.type = "KEYBOARD_KEY"         -> [k EXCEPT !.keys = IF m.down THEN @ \cup {m.key}
                                                               ELSE @ \ {m.key}]
      [] OTHER                           -> k
ExporterReads ==
    /\ toServer # <<>>
    /\ toServer' = Tail(toServer)
    /\ LET m == Head(toServer)
       IN  /\ known' = [known EXCEPT ![m.id] = After(@, m)]
           /\ unacked' = IF m.type = "WINDOW_PRESENT_ACK"
                         THEN [unacked EXCEPT ![m.id] = @ \ {m.sequence}] ELSE unacked
    /\ UNCHANGED <<toAgent, serverSocket, agentSocket, sent, newest, front, agentVars, events>>

\* The agent never looks at what it has sent, so nothing is lost when the rest
\* waits for the exporter to read.
ExporterStep ==
    \/ SendConfig
    \/ \E id \in Ids : SendCreate(id)
    \/ \E id \in Ids : SendPresent(id)
    \/ \E id \in Ids : SendActivate(id)
    \/ \E id \in Ids : SendDestroy(id)
    \/ ExporterCloses
ThreadStep == AgentStep /\ UNCHANGED <<exporterVars, events>>
UserStep ==
    /\ events < MaxEvents
    /\ events' = events + 1
    /\ PointerStep \/ FocusStep
    /\ front' = IF focus' = focus THEN front ELSE {}
    /\ UNCHANGED <<sent, newest, unacked, known>>

Next ==
    \/ ExporterReads
    \/ toServer = <<>> /\ ExporterStep
    \/ toServer = <<>> /\ ThreadStep
    \/ toServer = <<>> /\ UserStep

Spec == Init /\ [][Next]_vars
FairSpec == Spec /\ WF_vars(ExporterReads) /\ WF_vars(toServer = <<>> /\ ThreadStep)
-----------------------------------------------------------------------------
(* Properties.                                                             *)

TypeOK ==
    /\ agent \in {"running", "quitting", "exited"} /\ exitCode \in {"success", "failure"}
    /\ outputScale \in SUBSET Scale /\ Cardinality(outputScale) <= 1
    /\ DOMAIN proxies \subseteq Ids /\ DOMAIN pending \subseteq Ids
    /\ \A id \in DOMAIN proxies :
          /\ proxies[id].physical \in Rect
          /\ proxies[id].buttons \subseteq PointerButtons /\ proxies[id].keys \subseteq Keys
          /\ proxies[id].tracking \in BOOLEAN /\ proxies[id].focused \in BOOLEAN
    /\ dispatchPosted \in BOOLEAN /\ dispatches \in 0 .. 1
    /\ cursor \in CursorPoints /\ held \subseteq PointerButtons
    /\ \A s \in {capture, focus} : s \subseteq DOMAIN proxies /\ Cardinality(s) <= 1
    /\ IsInjective(stack) /\ ToSet(stack) = {id \in DOMAIN proxies : ~IsPopup(id)}

Drained == agentSocket = "open" /\ serverSocket = "open" /\ toServer = <<>>

\* Each message makes sense to a reader of those before it: an ACK answers one
\* PRESENT and answers it once, input names the presentation acknowledged
\* last, the pointer enters before it moves or leaves, a capture is lost only
\* with a button down, focus only changes, and keys belong to the focused
\* window, are released only if pressed, and all before the focus goes.
MessagesMakeSense ==
    toServer # <<>> =>
       LET m == Head(toServer)
           k == known[m.id]
       IN  CASE m.type = "WINDOW_PRESENT_ACK"   -> m.sequence \in unacked[m.id]
             [] m.type \in PointerTypes         ->
                   /\ m.location.sequence = k.shown
                   /\ m.type \in {"POINTER_MOTION", "POINTER_LEAVE"} => k.entered
             [] m.type = "POINTER_CAPTURE_LOST" -> k.buttons # {}
             [] m.type = "KEYBOARD_FOCUS"       -> m.focused # k.focused /\ k.keys = {}
             [] m.type = "KEYBOARD_KEY"         -> k.focused /\ (m.down \/ m.key \in k.keys)

\* A reader of every message knows the input state of each window, and of a
\* window that is gone that it holds no button, no key and no focus.
ReaderKnowsTheInput ==
    Drained => \A id \in Ids :
       IF id \in DOMAIN proxies
       THEN /\ known[id].buttons = proxies[id].buttons
            /\ known[id].keys = proxies[id].keys
            /\ known[id].focused = proxies[id].focused
       ELSE known[id].buttons = {} /\ known[id].keys = {} /\ ~known[id].focused

\* A window shows the newest presentation sent to it once none is queued or on
\* its way, however many of them were skipped.
NewestIsShown ==
    Drained /\ toAgent = <<>> /\ DOMAIN pending = {}
       => \A id \in DOMAIN proxies : proxies[id].presentation.sequence = newest[id].sequence

\* The window the exporter put in front last is in front once nothing is queued
\* or on its way: a window that is only moved does not come before it.
ActivatedIsInFront ==
    Drained /\ toAgent = <<>> /\ DOMAIN pending = {}
       => \A id \in front \cap DOMAIN proxies :
             IsShown(id) /\ ~IsPopup(id) => Last(stack) = id

\* A press on a popup leaves text input with the top-level window it belongs to.
TextInputStaysWithTheTopLevel ==
    [][\A id \in DOMAIN proxies \cap DOMAIN proxies' :
          IsPopup(id) /\ proxies'[id].buttons \ proxies[id].buttons # {}
             => proxies'[TopLevel(id)].focused]_vars

\* Wherever the cursor can be on the shown window, the pointer is reported,
\* and inside the presented fragment.
ShownPixelsAreReachable ==
    \A id \in DOMAIN proxies : \A point \in CursorPoints :
       Covers(id, point) =>
          \E l \in LocationAt(id, point) :
             /\ l.client.x \in 0 .. proxies[id].presentation.source.w - 1
             /\ l.client.y \in 0 .. proxies[id].presentation.source.h - 1

\* A shown proxy covers the physical pixels of its destination under the
\* configured scale.
ProxyIsDrawnToScale ==
    \A id \in DOMAIN proxies :
       proxies[id].presentation.visible
          => PhysicalDestination(proxies[id].presentation) = {proxies[id].physical}

\* The newest presentation of a window is acknowledged, unless the window or
\* the connection goes first.
NewestIsAnswered ==
    \A id \in Ids :
       (id \in DOMAIN proxies /\ newest[id].sequence \in unacked[id])
          ~> (newest[id].sequence \notin unacked[id] \/ id \notin DOMAIN proxies \/ agentSocket = "closed")
=============================================================================
