--------------------------- MODULE CrossWinProofs ---------------------------
(***************************************************************************)
(* The properties of the composed system, whatever the user does and for   *)
(* every window, output, script and number of events.                      *)
(*                                                                         *)
(* First the facts they rest on: the types of what is on the wire and in   *)
(* both programs, what a user's action may do, and the message flow        *)
(* between the two ends; then the invariants of the session.               *)
(***************************************************************************)
EXTENDS CrossWin, SessionLemmas, FiniteSetTheorems, SequenceTheorems

(* What the two programs say to each other. *)
ToAgentMessage ==
    {HelloAck, OutputConfig(OneToOne),
     WindowCreate(FakeWindow, 0, InitialWindow.w, InitialWindow.h),
     WindowDestroy(FakeWindow)}
    \cup {Frame(pixels) : pixels \in SUBSET Point}
    \cup {WindowPresent(FakeWindow, p) : p \in Presentation}

MotionTypes == LocationOnlyTypes \cup {"POINTER_MOTION"}
KeyboardInput ==
    {KeyboardFocus(FakeWindow, focused) : focused \in BOOLEAN}
    \cup {KeyboardKey(FakeWindow, key, down) : key \in Keys, down \in BOOLEAN}
InputOf(locations) ==
    {PointerLocation(type, FakeWindow, l) : type \in MotionTypes, l \in locations}
    \cup {PointerButton(FakeWindow, l, button, down) :
             l \in locations, button \in PointerButtons, down \in BOOLEAN}
    \cup {CaptureLostMessage(FakeWindow)}
    \cup KeyboardInput
ToServerMessage ==
    {Hello} \cup {PresentAck(FakeWindow, s) : s \in 0 .. MaxSequence} \cup InputOf(Location)

AgentTypeOK ==
    /\ outputScale \subseteq {OneToOne}
    /\ DOMAIN proxies \subseteq {FakeWindow} /\ \A id \in DOMAIN proxies : proxies[id] \in ProxyType
    /\ DOMAIN pending \subseteq {FakeWindow} /\ \A id \in DOMAIN pending : pending[id] \in Presentation
    /\ agent \in {"running", "quitting", "exited"} /\ exitCode \in {"success", "failure"}
    /\ dispatchPosted \in BOOLEAN /\ dispatches = IF dispatchPosted THEN 1 ELSE 0
    /\ capture \subseteq DOMAIN proxies /\ focus \subseteq DOMAIN proxies
    /\ held \subseteq PointerButtons /\ cursor \in CursorPoints

ServerTypeOK ==
    /\ mode \in Modes /\ helloReceived \in BOOLEAN
    /\ scriptStep \in Nat /\ crosshairs \subseteq Point
    /\ awaiting = {} \/ \E s \in 1 .. MaxSequence : awaiting = {s}
    /\ deferred = {} \/ \E p \in Presentation : deferred = {p}
    /\ ~helloReceived => nextSequence = 1

WireTypeOK ==
    /\ toAgent \in Seq(ToAgentMessage) /\ toServer \in Seq(ToServerMessage)
    /\ serverSocket \in {"open", "closed"} /\ agentSocket \in {"open", "closed"}

TypeInv == SessionInv /\ ServerTypeOK /\ WireTypeOK /\ AgentTypeOK
-----------------------------------------------------------------------------
(* The flow of presentations.                                              *)

Newest == history[(insertions - 1) % Capacity]
Older  == history[(insertions - 2) % Capacity]

Creates  == MessagesOf(toAgent, "WINDOW_CREATE")
Destroys == MessagesOf(toAgent, "WINDOW_DESTROY")
Configs  == MessagesOf(toAgent, "OUTPUT_CONFIG")
Frames   == MessagesOf(toAgent, "WINDOW_FRAME")
ProxyExists == DOMAIN proxies # {}
Queued      == DOMAIN pending # {}

\* A presentation on its way is in one place.
OnePlace ==
    /\ \A i, j \in PresentsInFlight : i = j
    /\ \A i, j \in AcksInFlight : i = j
    /\ PresentsInFlight # {} => ~Queued /\ AcksInFlight = {}
    /\ Queued => AcksInFlight = {}

\* It is the one the server recorded last and waits for; nothing is deferred
\* while nothing is waited for.
InFlightIsNewest ==
    serverSocket = "open" =>
        /\ \A i \in PresentsInFlight : toAgent[i].presentation = Newest
        /\ \A id \in DOMAIN pending : pending[id] = Newest
        /\ \A i \in AcksInFlight : toServer[i].sequence = Newest.sequence
        /\ PresentsInFlight # {} \/ Queued \/ AcksInFlight # {} => awaiting = {Newest.sequence}
        /\ awaiting # {} => insertions > 0
        /\ (agentSocket = "open" /\ awaiting # {}) =>
               PresentsInFlight # {} \/ Queued \/ AcksInFlight # {}
        /\ deferred # {} => awaiting # {}

\* Before the handshake there is nothing; the window is made once, before any
\* presentation of it arrives, and a program that is ending has none left.
Lifecycle ==
    /\ ~helloReceived =>
          /\ toAgent = <<>> /\ ~ProxyExists /\ AcksInFlight = {}
          /\ awaiting = {} /\ deferred = {} /\ insertions = 0 /\ scriptStep = 0
    /\ \A i, j \in Creates : i = j
    /\ Creates # {} => ~ProxyExists /\ AcksInFlight = {}
    /\ Queued => ProxyExists
    /\ Destroys # {} => Creates = {}
    /\ agentSocket = "closed" => agent # "running"
    /\ exitCode = "failure" => agentSocket = "closed"
    /\ agent # "running" => ~ProxyExists /\ (agentSocket = "open" => Creates = {})

\* The window is destroyed at the end of a script, when nothing is in flight;
\* a presentation that a drag still causes arrives after that.
AtTheEnd == mode.script /\ scriptStep = Len(Script)
ScriptProgress ==
    /\ scriptStep <= Len(Script) /\ (~mode.script => scriptStep = 0)
    /\ Destroys # {} => AtTheEnd
    /\ agent # "running" /\ exitCode = "success" => AtTheEnd
    /\ serverSocket = "open" /\ AtTheEnd =>
          /\ AcksInFlight = {} /\ ~Queued
          /\ agentSocket = "open" =>
                /\ Creates = {}
                /\ ProxyExists => \E d \in Destroys : \A i \in PresentsInFlight : d < i

FlowInv == OnePlace /\ InFlightIsNewest /\ Lifecycle /\ ScriptProgress
-----------------------------------------------------------------------------
(* Sequences, sets of at most one element, messages.                       *)

LEMMA ATail ==
    ASSUME NEW S, NEW s \in Seq(S), s # <<>>
    PROVE  /\ Head(s) = s[1] /\ Head(s) \in S /\ 1 \in DOMAIN s
           /\ Tail(s) \in Seq(S)
           /\ DOMAIN Tail(s) \subseteq Nat \ {0}
           /\ \A i \in DOMAIN Tail(s) : i + 1 \in DOMAIN s /\ Tail(s)[i] = s[i + 1]
           /\ \A i \in DOMAIN s : i \in Nat /\ i >= 1 /\ (i > 1 => i - 1 \in DOMAIN Tail(s))
  <1>1. /\ Len(s) \in Nat /\ DOMAIN s = 1 .. Len(s) /\ Len(s) > 0
        /\ DOMAIN Tail(s) = 1 .. Len(Tail(s)) /\ Len(Tail(s)) = Len(s) - 1
        /\ Tail(s) \in Seq(S) /\ Head(s) \in S
        /\ \A i \in 1 .. Len(Tail(s)) : Tail(s)[i] = s[i + 1]
    BY HeadTailProperties, LenProperties, EmptySeq
  <1>2. Head(s) = s[1]
    OBVIOUS
  <1>. QED
    BY <1>1, <1>2

LEMMA AConcat ==
    ASSUME NEW S, NEW s \in Seq(S), NEW t \in Seq(S)
    PROVE  /\ s \o t \in Seq(S)
           /\ Len(s) \in Nat /\ Len(t) \in Nat /\ DOMAIN s = 1 .. Len(s) /\ DOMAIN t = 1 .. Len(t)
           /\ DOMAIN (s \o t) = 1 .. Len(s) + Len(t)
           /\ \A i \in 1 .. Len(s) : (s \o t)[i] = s[i]
           /\ \A i \in 1 .. Len(t) : (s \o t)[Len(s) + i] = t[i]
           /\ \A i \in DOMAIN (s \o t) : i \in DOMAIN s \/ i - Len(s) \in DOMAIN t
  <1>1. /\ Len(s) \in Nat /\ DOMAIN s = 1 .. Len(s)
        /\ Len(t) \in Nat /\ DOMAIN t = 1 .. Len(t)
    BY LenProperties
  <1>2. /\ s \o t \in Seq(S) /\ Len(s \o t) = Len(s) + Len(t)
        /\ \A i \in 1 .. Len(s) + Len(t) :
              (s \o t)[i] = IF i <= Len(s) THEN s[i] ELSE t[i - Len(s)]
    BY ConcatProperties
  <1>3. DOMAIN (s \o t) = 1 .. Len(s) + Len(t)
    BY <1>2, LenProperties
  <1>. QED
    BY <1>1, <1>2, <1>3

LEMMA ShortSequences ==
    ASSUME NEW S
    PROVE  /\ <<>> \in Seq(S)
           /\ \A x \in S : <<x>> \in Seq(S)
           /\ \A x, y \in S : <<x>> \o <<y>> \in Seq(S)
  <1>1. <<>> \in Seq(S) /\ \A x \in S : <<x>> \in Seq(S)
    OBVIOUS
  <1>. QED
    BY <1>1, ConcatProperties

LEMMA SequenceOfMore ==
    ASSUME NEW S, NEW T, S \subseteq T, NEW s \in Seq(S)
    PROVE  s \in Seq(T)
  <1>1. s \in [1 .. Len(s) -> T] /\ Len(s) \in Nat
    BY LenProperties, ElementOfSeq
  <1>. QED
    BY <1>1, SeqDef

LEMMA FunctionIsSequence ==
    ASSUME NEW S, NEW n \in Nat, NEW f \in [1 .. n -> S]
    PROVE  f \in Seq(S)
  BY SeqDef

\* SetToSeq and SetToSeqs list the elements of a finite set.
LEMMA Listing ==
    ASSUME NEW S, IsFiniteSet(S)
    PROVE  SetToSeq(S) \in Seq(S) /\ DOMAIN SetToSeq(S) = 1 .. Len(SetToSeq(S))
  <1>1. Cardinality(S) \in Nat /\ ExistsBijection(1 .. Cardinality(S), S)
    BY FS_CardinalityType
  <1>2. \E f \in [1 .. Cardinality(S) -> S] : IsInjective(f)
    BY <1>1 DEF ExistsBijection, Bijection, Injection
  <1>3. SetToSeq(S) \in [1 .. Cardinality(S) -> S]
    BY <1>2 DEF SetToSeq
  <1>4. SetToSeq(S) \in Seq(S)
    BY <1>1, <1>3, SeqDef
  <1>. QED
    BY <1>4, LenProperties

LEMMA ListingsOfAtMostOne ==
    /\ \A order \in SetToSeqs({}) : order = <<>>
    /\ \A x : \A order \in SetToSeqs({x}) : order = <<x>>
  <1>1. ASSUME NEW order \in SetToSeqs({}) PROVE order = <<>>
    <2>1. Cardinality({}) = 0
      BY FS_EmptySet
    <2>2. order \in [1 .. 0 -> {}]
      BY <2>1 DEF SetToSeqs
    <2>3. order \in Seq({}) /\ Len(order) = 0
      BY <2>2, SeqDef
    <2>. QED
      BY <2>3, EmptySeq
  <1>2. ASSUME NEW x, NEW order \in SetToSeqs({x}) PROVE order = <<x>>
    <2>1. Cardinality({x}) = 1
      BY FS_Singleton
    <2>2. order \in [1 .. 1 -> {x}]
      BY <2>1 DEF SetToSeqs
    <2>. QED
      BY <2>2
  <1>. QED
    BY <1>1, <1>2

\* What a message is, by its type.
LEMMA ToAgentKinds ==
    ASSUME NEW m \in ToAgentMessage
    PROVE  /\ m.type = "OUTPUT_CONFIG" => m = OutputConfig(OneToOne)
           /\ m.type = "WINDOW_CREATE" =>
                 m = WindowCreate(FakeWindow, 0, InitialWindow.w, InitialWindow.h)
           /\ m.type = "WINDOW_DESTROY" => m = WindowDestroy(FakeWindow)
           /\ m.type = "WINDOW_FRAME" => \E pixels \in SUBSET Point : m = Frame(pixels)
           /\ m.type = "WINDOW_PRESENT" => \E p \in Presentation : m = WindowPresent(FakeWindow, p)
           /\ m.type \in {"HELLO_ACK", "OUTPUT_CONFIG", "WINDOW_CREATE", "WINDOW_DESTROY",
                          "WINDOW_FRAME", "WINDOW_PRESENT"}
  BY DEF ToAgentMessage, HelloAck, OutputConfig, WindowCreate, WindowDestroy, Frame,
         WindowFrame, WindowPresent
-----------------------------------------------------------------------------
(* What the user and Win32 can do through the agent.                       *)

\* The locations input can have at this moment.
LocationsNow ==
    {l \in Location : \E id \in DOMAIN proxies :
        proxies[id].presentation.visible /\ l.sequence = proxies[id].presentation.sequence}

LEMMA LocationsAreOfNow ==
    ASSUME AgentTypeOK, NEW id \in DOMAIN proxies, NEW point
    PROVE  LocationAt(id, point) \subseteq LocationsNow
  <1>. SUFFICES ASSUME NEW l \in LocationAt(id, point) PROVE l \in LocationsNow
    OBVIOUS
  <1>. DEFINE p == proxies[id].presentation
              client == [x |-> point.x - proxies[id].physical.x,
                         y |-> point.y - proxies[id].physical.y]
              inverse == UNION {PhysicalFragmentLocalToLogical(p.destination, s, client)
                                   : s \in outputScale}
  <1>1. /\ p.visible /\ l.output \in Point
        /\ \E c \in inverse :
              l = [sequence |-> p.sequence, client |-> c,
                   output |-> [x |-> p.destination.x + c.x, y |-> p.destination.y + c.y]]
    BY Zenon DEF LocationAt
  <1>2. inverse \subseteq Point
    <2>1. \A s : PhysicalFragmentLocalToLogical(p.destination, s, client) \subseteq Point
      BY DEF PhysicalFragmentLocalToLogical
    <2>. QED
      BY <2>1
  <1>3. p.sequence \in 0 .. MaxSequence
    BY DEF AgentTypeOK, ProxyType, Presentation
  <1>. HIDE DEF inverse
  <1>4. l \in Location /\ l.sequence = p.sequence
    BY <1>1, <1>2, <1>3 DEF Location
  <1>. QED
    BY <1>1, <1>4 DEF LocationsNow

LEMMA InputKinds ==
    ASSUME NEW locations
    PROVE  /\ \A l \in locations :
                 /\ \A type \in MotionTypes :
                       PointerLocation(type, FakeWindow, l) \in InputOf(locations)
                 /\ \A button \in PointerButtons, down \in BOOLEAN :
                       PointerButton(FakeWindow, l, button, down) \in InputOf(locations)
           /\ CaptureLostMessage(FakeWindow) \in InputOf(locations)
           /\ \A focused \in BOOLEAN : KeyboardFocus(FakeWindow, focused) \in InputOf(locations)
           /\ \A key \in Keys, down \in BOOLEAN :
                 KeyboardKey(FakeWindow, key, down) \in InputOf(locations)
  BY DEF InputOf, KeyboardInput

\* What an action of the user leaves of a proxy.
SameButForInput(a, b) ==
    /\ a.width = b.width /\ a.height = b.height
    /\ a.framebuffer = b.framebuffer /\ a.frameSequence = b.frameSequence
    /\ a.presentation = b.presentation /\ a.physical = b.physical

\* What a change of focus says is the keyboard's alone.
LEMMA FocusIsKeyboard ==
    ASSUME AgentTypeOK, NEW id \in DOMAIN proxies
    PROVE  LoseFocus(id) \in Seq(KeyboardInput) /\ FocusMessages(id) \in Seq(KeyboardInput)
  <1>1. id = FakeWindow /\ DOMAIN proxies = {FakeWindow} /\ proxies[id] \in ProxyType
    BY DEF AgentTypeOK
  <1>k. /\ \A focused \in BOOLEAN : KeyboardFocus(id, focused) \in KeyboardInput
        /\ \A key \in Keys, down \in BOOLEAN : KeyboardKey(id, key, down) \in KeyboardInput
    BY <1>1 DEF KeyboardInput
  <1>2. ReleaseKeys(id) \in Seq(KeyboardInput)
    <2>. DEFINE keys == SetToSeq(proxies[id].keys)
    <2>1. proxies[id].keys \subseteq Keys
      BY <1>1 DEF ProxyType
    <2>2. IsFiniteSet(proxies[id].keys)
      BY <2>1, KeysAssumption, FS_Subset
    <2>3. keys \in Seq(proxies[id].keys) /\ DOMAIN keys = 1 .. Len(keys) /\ Len(keys) \in Nat
      BY <2>2, Listing, LenProperties
    <2>4. \A i \in DOMAIN keys : keys[i] \in Keys
      BY <2>1, <2>3, ElementOfSeq
    <2>. HIDE DEF keys
    <2>5. [i \in DOMAIN keys |-> KeyboardKey(id, keys[i], FALSE)]
             \in [1 .. Len(keys) -> KeyboardInput]
      BY <1>k, <2>3, <2>4
    <2>6. [i \in DOMAIN keys |-> KeyboardKey(id, keys[i], FALSE)] \in Seq(KeyboardInput)
      BY <2>3, <2>5, FunctionIsSequence, Zenon
    <2>. QED
      BY <2>6 DEF ReleaseKeys, keys
  <1>3. /\ <<KeyboardFocus(id, FALSE)>> \in Seq(KeyboardInput)
        /\ <<KeyboardFocus(id, TRUE)>> \in Seq(KeyboardInput)
        /\ <<>> \in Seq(KeyboardInput)
    BY <1>k, ShortSequences
  <1>4. LoseFocus(id) \in Seq(KeyboardInput)
    BY <1>2, <1>3, ConcatProperties DEF LoseFocus
  <1>5. focus \in {{}, {id}}
    BY <1>1 DEF AgentTypeOK
  <1>6. GainFocus(id) \in Seq(KeyboardInput)
    BY <1>3 DEF GainFocus
  <1>7. FocusMessages(id) \in Seq(KeyboardInput)
    BY <1>3, <1>5, <1>6, ConcatProperties DEF FocusMessages
  <1>. QED
    BY <1>4, <1>7

LEMMA FocusSpeaks ==
    ASSUME AgentTypeOK, NEW locations, NEW id \in DOMAIN proxies
    PROVE  /\ LoseFocus(id) \in Seq(InputOf(locations))
           /\ LoseCapture(id) \in Seq(InputOf(locations))
           /\ FocusMessages(id) \in Seq(InputOf(locations))
  <1>1. KeyboardInput \subseteq InputOf(locations)
    BY DEF InputOf
  <1>2. LoseFocus(id) \in Seq(InputOf(locations)) /\ FocusMessages(id) \in Seq(InputOf(locations))
    BY <1>1, FocusIsKeyboard, SequenceOfMore
  <1>3. LoseCapture(id) \in Seq(InputOf(locations))
    <2>1. id = FakeWindow
      BY DEF AgentTypeOK
    <2>2. <<>> \in Seq(InputOf(locations)) /\ <<CaptureLostMessage(id)>> \in Seq(InputOf(locations))
      BY <2>1, InputKinds, ShortSequences
    <2>. QED
      BY <2>2 DEF LoseCapture
  <1>. QED
    BY <1>2, <1>3

\* An action of the user says messages of input, at locations there are under
\* the cursor, and changes no more of a proxy than its input state.
LEMMA UserSays ==
    ASSUME TypeInv, UserStep, NEW locations,
           \A id \in DOMAIN proxies, point \in CursorPoints : LocationAt(id, point) \subseteq locations
    PROVE  /\ \E messages \in Seq(InputOf(locations)) : toServer' = Sent(messages)
           /\ UNCHANGED <<linuxVars, toAgent, serverSocket, agentSocket, applicationVars>>
           /\ DOMAIN proxies' = DOMAIN proxies
           /\ \A id \in DOMAIN proxies :
                 proxies'[id] \in ProxyType /\ SameButForInput(proxies'[id], proxies[id])
           /\ capture' \subseteq DOMAIN proxies /\ focus' \subseteq DOMAIN proxies
           /\ held' \subseteq PointerButtons /\ cursor' \in CursorPoints
           /\ agent = "running"
  <1>. DEFINE Spoke == \E messages \in Seq(InputOf(locations)) : Send(messages)
              Typed == /\ DOMAIN proxies' = DOMAIN proxies
                       /\ \A id \in DOMAIN proxies :
                             /\ proxies'[id] \in ProxyType
                             /\ SameButForInput(proxies'[id], proxies[id])
              Desk == /\ capture' \subseteq DOMAIN proxies /\ focus' \subseteq DOMAIN proxies
                      /\ held' \subseteq PointerButtons /\ cursor' \in CursorPoints
  <1>1. /\ AgentTypeOK
        /\ DOMAIN proxies \subseteq {FakeWindow}
        /\ \A id \in DOMAIN proxies : proxies[id] \in ProxyType
        /\ capture \subseteq DOMAIN proxies /\ focus \subseteq DOMAIN proxies
        /\ held \subseteq PointerButtons /\ cursor \in CursorPoints
    BY DEF TypeInv, AgentTypeOK
  <1>2. \A x \in Seq(InputOf(locations)) : Send(x) => Spoke
    OBVIOUS
  <1>. HIDE DEF Spoke
  <1>3. \A point \in CursorPoints : \A id \in DOMAIN proxies : LocationAt(id, point) \subseteq locations
    OBVIOUS
  <1>4. \A point : Target(point) \subseteq DOMAIN proxies
    BY <1>1 DEF Target
  <1>i. \A id \in DOMAIN proxies : \A l \in LocationAt(id, cursor) : l \in locations
    BY <1>1, <1>3
  <1>5. \A id \in DOMAIN proxies : id = FakeWindow
    BY <1>1
  <1>6. \A id \in DOMAIN proxies, new \in ProxyType :
           SameButForInput(new, proxies[id]) /\ proxies' = [proxies EXCEPT ![id] = new] => Typed
    BY <1>1
  <1>7. UNCHANGED proxies => Typed
    BY <1>1 DEF SameButForInput
  <1>8. ASSUME NEW id \in DOMAIN proxies
        PROVE  /\ \A t \in BOOLEAN :
                     LET new == [proxies[id] EXCEPT !.tracking = t]
                     IN  new \in ProxyType /\ SameButForInput(new, proxies[id])
               /\ \A t \in SUBSET PointerButtons :
                     LET new == [proxies[id] EXCEPT !.buttons = t]
                     IN  new \in ProxyType /\ SameButForInput(new, proxies[id])
               /\ \A t \in SUBSET Keys :
                     LET new == [proxies[id] EXCEPT !.keys = t]
                     IN  new \in ProxyType /\ SameButForInput(new, proxies[id])
               /\ \A t \in BOOLEAN :
                     LET new == [proxies[id] EXCEPT !.focused = t]
                     IN  new \in ProxyType /\ SameButForInput(new, proxies[id])
               /\ LET new == Unfocused(id)
                  IN  new \in ProxyType /\ SameButForInput(new, proxies[id])
               /\ proxies[id].buttons \subseteq PointerButtons /\ proxies[id].keys \subseteq Keys
    <2>1. PICK p \in ProxyType : p = proxies[id]
      BY <1>1
    <2>2. ASSUME NEW t \in BOOLEAN, NEW new, new = [p EXCEPT !.tracking = t]
          PROVE  new \in ProxyType /\ SameButForInput(new, p)
      BY <2>2 DEF ProxyType, SameButForInput
    <2>3. ASSUME NEW t \in SUBSET PointerButtons, NEW new, new = [p EXCEPT !.buttons = t]
          PROVE  new \in ProxyType /\ SameButForInput(new, p)
      BY <2>3 DEF ProxyType, SameButForInput
    <2>4. ASSUME NEW t \in SUBSET Keys, NEW new, new = [p EXCEPT !.keys = t]
          PROVE  new \in ProxyType /\ SameButForInput(new, p)
      BY <2>4 DEF ProxyType, SameButForInput
    <2>5. ASSUME NEW t \in BOOLEAN, NEW new, new = [p EXCEPT !.focused = t]
          PROVE  new \in ProxyType /\ SameButForInput(new, p)
      BY <2>5 DEF ProxyType, SameButForInput
    <2>6. ASSUME NEW new, new = [p EXCEPT !.focused = FALSE, !.keys = {}]
          PROVE  new \in ProxyType /\ SameButForInput(new, p)
      BY <2>6 DEF ProxyType, SameButForInput
    <2>7. p.buttons \subseteq PointerButtons /\ p.keys \subseteq Keys
      BY DEF ProxyType
    <2>. QED
      BY <2>1, <2>2, <2>3, <2>4, <2>5, <2>6, <2>7 DEF Unfocused
  <1>o. ASSUME NEW id \in DOMAIN proxies
        PROVE  FocusedOn(id) = [proxies EXCEPT ![id] = [proxies[id] EXCEPT !.focused = TRUE]]
    <2>1. DOMAIN proxies = {id} /\ IsPopup(id) = FALSE
      BY <1>1 DEF IsPopup, ProxyType
    <2>. QED
      BY <1>1, <2>1 DEF FocusedOn
  <1>. DEFINE Goal == /\ Spoke \/ UNCHANGED wireVars
                      /\ UNCHANGED applicationVars
                      /\ Typed /\ Desk /\ agent = "running"
  <1>m. ASSUME NEW point \in CursorPoints, MouseMove(point) PROVE Goal
    <2>1. /\ agent = "running" /\ cursor' = point
          /\ UNCHANGED <<applicationVars, held, capture, focus, stack>>
      BY <1>m DEF MouseMove
    <2>2. CASE UNCHANGED <<wireVars, proxies>>
      BY <1>1, <1>7, <2>1, <2>2
    <2>3. CASE \E id \in Target(point) : \E l \in LocationAt(id, point) :
                 /\ Send((IF proxies[id].tracking
                          THEN <<>> ELSE <<PointerLocation("POINTER_ENTER", id, l)>>)
                         \o <<PointerLocation("POINTER_MOTION", id, l)>>)
                 /\ proxies' = [proxies EXCEPT ![id].tracking = TRUE]
      <3>1. PICK id \in DOMAIN proxies, l \in locations :
               /\ Send((IF proxies[id].tracking
                        THEN <<>> ELSE <<PointerLocation("POINTER_ENTER", id, l)>>)
                       \o <<PointerLocation("POINTER_MOTION", id, l)>>)
               /\ proxies' = [proxies EXCEPT ![id].tracking = TRUE]
        BY <1>3, <1>4, <2>3, Zenon
      <3>2. Typed
        BY <1>6, <1>8, <3>1
      <3>3. /\ PointerLocation("POINTER_ENTER", id, l) \in InputOf(locations)
            /\ PointerLocation("POINTER_MOTION", id, l) \in InputOf(locations)
        BY <1>5, InputKinds DEF MotionTypes, LocationOnlyTypes
      <3>4. (IF proxies[id].tracking
               THEN <<>> ELSE <<PointerLocation("POINTER_ENTER", id, l)>>)
             \o <<PointerLocation("POINTER_MOTION", id, l)>> \in Seq(InputOf(locations))
        BY <3>3, ShortSequences, ConcatProperties
      <3>5. Spoke
        BY <1>2, <3>1, <3>4, Zenon
      <3>. QED
        BY <1>1, <2>1, <3>2, <3>5
    <2>. QED
      BY <1>m, <2>2, <2>3, Zenon DEF MouseMove
  <1>l. ASSUME NEW id \in DOMAIN proxies, MouseLeave(id) PROVE Goal
    <2>1. /\ agent = "running" /\ UNCHANGED <<applicationVars, desktopVars>>
          /\ proxies' = [proxies EXCEPT ![id].tracking = FALSE]
          /\ \/ \E l \in LocationAt(id, cursor) :
                   Send(<<PointerLocation("POINTER_LEAVE", id, l)>>)
             \/ UNCHANGED wireVars
      BY <1>l DEF MouseLeave
    <2>2. Typed
      BY <1>6, <1>8, <2>1
    <2>3. \A l \in LocationAt(id, cursor) :
             <<PointerLocation("POINTER_LEAVE", id, l)>> \in Seq(InputOf(locations))
      BY <1>i, <1>5, InputKinds, ShortSequences DEF MotionTypes, LocationOnlyTypes
    <2>4. Spoke \/ UNCHANGED wireVars
      BY <1>2, <2>1, <2>3, Zenon
    <2>. QED
      BY <1>1, <2>1, <2>2, <2>4 DEF desktopVars
  <1>w. ASSUME MouseWheel PROVE Goal
    <2>1. PICK id \in DOMAIN proxies, l \in locations :
             Send(<<PointerLocation("POINTER_WHEEL", id, l)>>)
      BY <1>i, <1>4, <1>w DEF MouseWheel
    <2>2. <<PointerLocation("POINTER_WHEEL", id, l)>> \in Seq(InputOf(locations))
      BY <1>5, InputKinds, ShortSequences DEF MotionTypes, LocationOnlyTypes
    <2>3. Spoke
      BY <1>2, <2>1, <2>2
    <2>. QED
      BY <1>1, <1>7, <1>w, <2>3 DEF MouseWheel, agentVars, desktopVars
  <1>d. ASSUME NEW button \in PointerButtons, ButtonDown(button) PROVE Goal
    <2>1. /\ agent = "running" /\ held' = held \cup {button}
          /\ UNCHANGED <<applicationVars, cursor>>
      BY <1>d DEF ButtonDown
    <2>2. ASSUME NEW id \in DOMAIN proxies, NEW f \in DOMAIN proxies
          PROVE  /\ Typed \/ proxies' # [FocusedOn(f) EXCEPT ![id].buttons = @ \cup {button}]
                 /\ Typed \/ proxies' # FocusedOn(f)
      <3>. DEFINE seen == [proxies[id] EXCEPT !.focused = TRUE]
                  down == [seen EXCEPT !.buttons = @ \cup {button}]
      <3>1. id = f /\ proxies[id] \in ProxyType
        BY <1>1
      <3>2. /\ seen \in ProxyType /\ SameButForInput(seen, proxies[id])
            /\ down \in ProxyType /\ SameButForInput(down, proxies[id])
        BY <3>1 DEF ProxyType, SameButForInput
      <3>3. /\ FocusedOn(f) = [proxies EXCEPT ![id] = seen]
            /\ [FocusedOn(f) EXCEPT ![id].buttons = @ \cup {button}] = [proxies EXCEPT ![id] = down]
        BY <1>1, <1>o, <3>1
      <3>. HIDE DEF seen, down
      <3>. QED
        BY <1>6, <3>2, <3>3
    <2>3. CASE UNCHANGED <<wireVars, proxies, capture, focus, stack>>
      BY <1>1, <1>7, <2>1, <2>3
    <2>4. ASSUME NEW id \in Target(cursor), NEW f, f = FocusOf(id),
                 focus' = {f},
                 \/ \E l \in LocationAt(id, cursor) :
                      /\ proxies' = [FocusedOn(f) EXCEPT ![id].buttons = @ \cup {button}]
                      /\ capture' = {id}
                      /\ Send(FocusMessages(f) \o <<PointerButton(id, l, button, TRUE)>>)
                 \/ /\ proxies' = FocusedOn(f)
                    /\ Send(FocusMessages(f))
                    /\ UNCHANGED capture
          PROVE  Goal
      <3>1. id \in DOMAIN proxies
        BY <1>4
      <3>2. f = id
        BY <1>1, <2>4, <3>1 DEF FocusOf, IsPopup, ProxyType
      <3>3. FocusMessages(f) \in Seq(InputOf(locations))
        BY <1>1, <3>1, <3>2, FocusSpeaks
      <3>4. \A l \in LocationAt(id, cursor) :
               FocusMessages(f) \o <<PointerButton(id, l, button, TRUE)>>
                  \in Seq(InputOf(locations))
        <4>1. \A l \in LocationAt(id, cursor) :
                 <<PointerButton(id, l, button, TRUE)>> \in Seq(InputOf(locations))
          BY <1>i, <1>5, <3>1, InputKinds, ShortSequences
        <4>. QED
          BY <3>3, <4>1, ConcatProperties
      <3>5. Spoke
        BY <1>2, <2>4, <3>3, <3>4, Zenon
      <3>6. Typed
        BY <2>2, <2>4, <3>1, <3>2, Zenon
      <3>7. capture' \subseteq DOMAIN proxies /\ focus' \subseteq DOMAIN proxies
        BY <1>1, <2>4, <3>1, <3>2
      <3>. QED
        BY <1>1, <2>1, <3>5, <3>6, <3>7
    <2>. QED
      BY <1>d, <2>3, <2>4, Zenon DEF ButtonDown
  <1>u. ASSUME NEW button \in PointerButtons, ButtonUp(button) PROVE Goal
    <2>1. /\ agent = "running" /\ held' = held \ {button}
          /\ UNCHANGED <<applicationVars, cursor, focus, stack>>
      BY <1>u DEF ButtonUp
    <2>2. CASE UNCHANGED <<wireVars, proxies, capture>>
      BY <1>1, <1>7, <2>1, <2>2
    <2>3. CASE \E id \in Target(cursor) : \E l \in LocationAt(id, cursor) :
                 /\ proxies' = [proxies EXCEPT ![id].buttons = @ \ {button}]
                 /\ capture' = IF proxies'[id].buttons = {} THEN capture \ {id} ELSE capture
                 /\ Send(<<PointerButton(id, l, button, FALSE)>>)
      <3>1. PICK id \in DOMAIN proxies, l \in locations :
               /\ proxies' = [proxies EXCEPT ![id].buttons = @ \ {button}]
               /\ capture' = IF proxies'[id].buttons = {} THEN capture \ {id} ELSE capture
               /\ Send(<<PointerButton(id, l, button, FALSE)>>)
        BY <1>i, <1>4, <2>3, Zenon
      <3>2. Typed
        BY <1>6, <1>8, <3>1
      <3>3. <<PointerButton(id, l, button, FALSE)>> \in Seq(InputOf(locations))
        BY <1>5, InputKinds, ShortSequences
      <3>4. Spoke
        BY <1>2, <3>1, <3>3
      <3>. QED
        BY <1>1, <2>1, <3>1, <3>2, <3>4
    <2>. QED
      BY <1>u, <2>2, <2>3, Zenon DEF ButtonUp
  <1>c. ASSUME CaptureTaken PROVE Goal
    <2>1. PICK id \in DOMAIN proxies :
             proxies' = [proxies EXCEPT ![id].buttons = {}] /\ Send(LoseCapture(id))
      BY <1>1, <1>c DEF CaptureTaken
    <2>2. Typed
      BY <1>6, <1>8, <2>1
    <2>3. Spoke
      BY <1>1, <1>2, <2>1, FocusSpeaks
    <2>. QED
      BY <1>1, <1>c, <2>2, <2>3 DEF CaptureTaken
  <1>f. ASSUME FocusLeaves PROVE Goal
    <2>1. PICK id \in DOMAIN proxies :
             proxies' = [proxies EXCEPT ![id] = Unfocused(id)] /\ Send(LoseFocus(id))
      BY <1>1, <1>f DEF FocusLeaves
    <2>2. Typed
      BY <1>6, <1>8, <2>1
    <2>3. Spoke
      BY <1>1, <1>2, <2>1, FocusSpeaks
    <2>. QED
      BY <1>1, <1>f, <2>2, <2>3 DEF FocusLeaves
  <1>g. ASSUME NEW id \in DOMAIN proxies, FocusComes(id) PROVE Goal
    <2>1. /\ agent = "running" /\ focus' = {id} /\ proxies' = FocusedOn(id)
          /\ Send(FocusMessages(id))
          /\ UNCHANGED <<applicationVars, cursor, held, capture>>
      BY <1>g DEF FocusComes
    <2>4. Typed
      BY <1>6, <1>8, <1>o, <2>1
    <2>5. Spoke
      BY <1>1, <1>2, <2>1, FocusSpeaks
    <2>. QED
      BY <1>1, <2>1, <2>4, <2>5
  <1>k. ASSUME NEW key \in Keys, NEW down \in BOOLEAN, Key(key, down) PROVE Goal
    <2>1. PICK id \in DOMAIN proxies :
             /\ proxies' = [proxies EXCEPT ![id].keys = IF down THEN @ \cup {key} ELSE @ \ {key}]
             /\ Send(<<KeyboardKey(id, key, down)>>)
      BY <1>1, <1>k DEF Key
    <2>2. Typed
      <3>1. (IF down THEN proxies[id].keys \cup {key} ELSE proxies[id].keys \ {key})
               \in SUBSET Keys
        BY <1>8
      <3>. QED
        BY <1>6, <1>8, <2>1, <3>1
    <2>3. <<KeyboardKey(id, key, down)>> \in Seq(InputOf(locations))
      BY <1>5, InputKinds, ShortSequences
    <2>4. Spoke
      BY <1>2, <2>1, <2>3
    <2>. QED
      BY <1>1, <1>k, <2>2, <2>4 DEF Key, desktopVars
  <1>9. Goal
    <2>1. PointerStep \/ FocusStep
      BY DEF UserStep
    <2>. QED
      BY <2>1, <1>m, <1>l, <1>w, <1>d, <1>u, <1>c, <1>f, <1>g, <1>k, Zenon
         DEF PointerStep, FocusStep
  <1>10. \E messages \in Seq(InputOf(locations)) : toServer' = Sent(messages)
    <2>1. CASE Spoke
      BY <2>1 DEF Spoke, Send
    <2>2. CASE UNCHANGED wireVars
      <3>1. toServer' = Sent(<<>>)
        BY <2>2, ConcatProperties DEF Sent, wireVars, TypeInv, WireTypeOK
      <3>. QED
        BY <3>1, ShortSequences
    <2>. QED
      BY <1>9, <2>1, <2>2
  <1>11. UNCHANGED <<toAgent, serverSocket, agentSocket>>
    BY <1>9 DEF Spoke, Send, wireVars
  <1>12. UNCHANGED linuxVars
    BY DEF UserStep
  <1>. QED
    BY <1>9, <1>10, <1>11, <1>12

LEMMA UserEffect ==
    ASSUME TypeInv, UserStep
    PROVE  /\ \E messages \in Seq(InputOf(LocationsNow)) : toServer' = Sent(messages)
           /\ UNCHANGED <<linuxVars, toAgent, serverSocket, agentSocket, applicationVars>>
           /\ DOMAIN proxies' = DOMAIN proxies
           /\ \A id \in DOMAIN proxies :
                 proxies'[id] \in ProxyType /\ SameButForInput(proxies'[id], proxies[id])
           /\ capture' \subseteq DOMAIN proxies /\ focus' \subseteq DOMAIN proxies
           /\ held' \subseteq PointerButtons /\ cursor' \in CursorPoints
           /\ agent = "running"
  <1>1. \A id \in DOMAIN proxies, point \in CursorPoints : LocationAt(id, point) \subseteq LocationsNow
    BY LocationsAreOfNow DEF TypeInv
  <1>. QED
    BY <1>1, UserSays
-----------------------------------------------------------------------------
(* Every step keeps the types.                                             *)

\* Nothing of the session changes.
LEMMA SessionUntouched ==
    ASSUME SessionInv, UNCHANGED sessionVars
    PROVE  SessionInv'
  BY DEF sessionVars, SessionInv, SessionTypeOK, HistoryIsKeyed, GrabIsTheLeftButton,
         WindowKeepsItsSize, Available

LEMMA Started == ServerInit => SessionInv
  <1>. SUFFICES ASSUME ServerInit PROVE SessionInv
    OBVIOUS
  <1>. USE InitialWindowFacts DEF ServerInit, SessionInit
  <1>1. grab \in Grab
    BY MaxIntAssumption DEF Grab, Point, I32
  <1>2. SessionTypeOK
    BY <1>1, MaxSequenceAssumption DEF SessionTypeOK
  <1>3. Available = 0
    BY CapacityAssumption DEF Available, Smaller
  <1>4. HistoryIsKeyed
    BY <1>3 DEF HistoryIsKeyed
  <1>. QED
    BY <1>2, <1>4 DEF SessionInv, GrabIsTheLeftButton, WindowKeepsItsSize

LEMMA SendPresentTypes ==
    ASSUME SessionInv, toAgent \in Seq(ToAgentMessage),
           NEW sent \in Seq(ToAgentMessage), NEW p \in Presentation,
           NEW next \in nextSequence .. MaxSequence, SendPresent(sent, p, next),
           window' \in Rect, window'.w = InitialWindow.w, window'.h = InitialWindow.h,
           UNCHANGED <<pressed, grab>>
    PROVE  /\ SessionInv'
           /\ toAgent' \in Seq(ToAgentMessage)
           /\ \E s \in 1 .. MaxSequence : awaiting' = {s}
  <1>1. /\ history' \in [Slots -> Presentation] /\ insertions' \in Nat
        /\ nextSequence' \in 1 .. MaxSequence /\ HistoryIsKeyed'
    BY RecordKeepsTheHistory DEF SendPresent
  <1>2. SessionInv'
    BY <1>1 DEF SessionInv, SessionTypeOK, GrabIsTheLeftButton, WindowKeepsItsSize
  <1>3. WindowPresent(FakeWindow, p) \in ToAgentMessage
    BY DEF ToAgentMessage
  <1>4. toAgent' \in Seq(ToAgentMessage)
    BY <1>3, ShortSequences, ConcatProperties DEF SendPresent
  <1>5. p.sequence \in 1 .. MaxSequence /\ awaiting' = {p.sequence}
    BY MaxSequenceAssumption DEF SendPresent, CanRecord, PresentationIsValid, Presentation
  <1>. QED
    BY <1>2, <1>4, <1>5

LEMMA ServerCloses ==
    ASSUME TypeInv, CloseConnection, UNCHANGED <<mode, agentVars>>,
           window' \in Rect, window'.w = InitialWindow.w, window'.h = InitialWindow.h
    PROVE  TypeInv'
  <1>1. HandleDisconnect /\ SessionInv
    BY DEF CloseConnection, TypeInv
  <1>2. pressed' = {} /\ grab' \in Grab /\ ~grab'.active
    BY <1>1, CaptureLostKeepsTheGrab DEF HandleDisconnect
  <1>3. Available' = 0
    BY <1>1, CapacityAssumption DEF HandleDisconnect, Available, Smaller
  <1>4. HistoryIsKeyed'
    BY <1>3 DEF HistoryIsKeyed
  <1>5. SessionInv'
    BY <1>1, <1>2, <1>4, MaxSequenceAssumption
       DEF HandleDisconnect, SessionInv, SessionTypeOK, GrabIsTheLeftButton, WindowKeepsItsSize
  <1>6. ServerTypeOK' /\ AgentTypeOK'
    BY <1>1 DEF CloseConnection, HandleDisconnect, TypeInv, ServerTypeOK, AgentTypeOK,
                serverVars, agentVars, applicationVars, desktopVars
  <1>7. WireTypeOK'
    BY ShortSequences DEF CloseConnection, TypeInv, WireTypeOK
  <1>. QED
    BY <1>5, <1>6, <1>7 DEF TypeInv

LEMMA GreetingTypes == Greeting \in Seq(ToAgentMessage)
  <1>. DEFINE a == HelloAck  b == OutputConfig(OneToOne)
              c == WindowCreate(FakeWindow, 0, InitialWindow.w, InitialWindow.h)
              d == Frame({})
  <1>1. a \in ToAgentMessage /\ b \in ToAgentMessage /\ c \in ToAgentMessage /\ d \in ToAgentMessage
    BY DEF ToAgentMessage
  <1>2. Greeting = <<a, b, c, d>>
    BY DEF Greeting
  <1>. HIDE DEF a, b, c, d
  <1>. QED
    BY <1>1, <1>2

LEMMA FirstPresentation ==
    ASSUME SessionInv, nextSequence = 1
    PROVE  /\ [RecomputedFor(window) EXCEPT !.sequence = FirstSequence] \in Presentation
           /\ FirstSequence + 1 \in nextSequence .. MaxSequence
           /\ nextSequence \in nextSequence .. MaxSequence
           /\ Script \in Seq(Presentation) /\ Len(Script) > 0 /\ Script[1] \in Presentation
           /\ FirstSequence \in 1 .. MaxSequence - 1
  <1>1. /\ window \in Rect /\ window.w = InitialWindow.w /\ window.h = InitialWindow.h
        /\ FirstSequence \in 1 .. MaxSequence - 1 /\ MaxSequence \in Nat
        /\ nextSequence \in 1 .. MaxSequence - 1
    BY ScriptAssumption, MaxSequenceAssumption DEF SessionInv, SessionTypeOK, WindowKeepsItsSize
  <1>2. RecomputedFor(window) \in Presentation
    BY <1>1, RecomputedIsValid
  <1>3. [RecomputedFor(window) EXCEPT !.sequence = FirstSequence] \in Presentation
    BY <1>1, <1>2 DEF Presentation
  <1>4. Script \in Seq(Presentation) /\ Len(Script) > 0 /\ Script[1] \in Presentation
    BY ScriptAssumption, ElementOfSeq, LenProperties
  <1>. QED
    BY <1>1, <1>3, <1>4

\* The message a handler takes is typed, and so is the rest of the stream.
LEMMA ServerReads ==
    ASSUME TypeInv, NEW types, Arrived(types)
    PROVE  /\ toServer # <<>> /\ serverSocket = "open"
           /\ Arrival = toServer[1] /\ Arrival \in ToServerMessage /\ Arrival.type \in types
           /\ Tail(toServer) \in Seq(ToServerMessage)
  BY ATail DEF TypeInv, WireTypeOK, Arrived, Arrival

LEMMA ToServerKinds ==
    ASSUME NEW m \in ToServerMessage
    PROVE  /\ m.type \in {"HELLO", "WINDOW_PRESENT_ACK", "POINTER_CAPTURE_LOST"}
                 \cup PointerTypes \cup KeyboardTypes
           /\ m.type = "HELLO" => m = Hello
           /\ m.type = "WINDOW_PRESENT_ACK" => m.sequence \in 0 .. MaxSequence
           /\ m.type \in PointerTypes => m.location \in Location
           /\ m.type = "POINTER_BUTTON" => m.button \in PointerButtons /\ m.down \in BOOLEAN
  BY DEF ToServerMessage, Hello, PresentAck, InputOf, KeyboardInput, PointerLocation, PointerButton,
         CaptureLostMessage, KeyboardFocus, KeyboardKey, PointerTypes, KeyboardTypes,
         MotionTypes, LocationOnlyTypes

\* An ACK arrives only while the script has a step to take.
LEMMA AckFindsTheScript ==
    ASSUME TypeInv, FlowInv, Arrived({"WINDOW_PRESENT_ACK"}), mode.script
    PROVE  /\ scriptStep \in Nat /\ scriptStep < Len(Script) /\ Len(Script) \in Nat
           /\ scriptStep + 1 # Len(Script) => Script[scriptStep + 2] \in Presentation
  <1>1. 1 \in DOMAIN toServer /\ toServer[1].type = "WINDOW_PRESENT_ACK"
    BY ServerReads, ATail DEF TypeInv, WireTypeOK
  <1>2. 1 \in AcksInFlight
    BY <1>1 DEF AcksInFlight, MessagesOf
  <1>3. scriptStep \in Nat /\ Script \in Seq(Presentation) /\ Len(Script) \in Nat
    BY ScriptAssumption, LenProperties DEF TypeInv, ServerTypeOK
  <1>4. scriptStep < Len(Script)
    BY <1>2, <1>3 DEF FlowInv, ScriptProgress, AtTheEnd, Arrived
  <1>5. \A i \in 1 .. Len(Script) : Script[i] \in Presentation
    BY <1>3, ElementOfSeq
  <1>. QED
    BY <1>3, <1>4, <1>5

LEMMA ServerKeepsTypes ==
    ASSUME TypeInv, FlowInv, ServerStep
    PROVE  TypeInv'
  <1>1. /\ SessionInv /\ ServerTypeOK /\ WireTypeOK /\ AgentTypeOK
        /\ ServerHandles /\ UNCHANGED <<mode, agentVars>>
    BY DEF TypeInv, ServerStep, ServerNext
  <1>2. AgentTypeOK'
    BY <1>1 DEF AgentTypeOK, agentVars, applicationVars, desktopVars
  <1>3. window \in Rect /\ window.w = InitialWindow.w /\ window.h = InitialWindow.h
    BY <1>1 DEF SessionInv, SessionTypeOK, WindowKeepsItsSize
  <1>4. /\ nextSequence \in 1 .. MaxSequence /\ MaxSequence \in Nat
        /\ nextSequence \in nextSequence .. MaxSequence
    BY <1>1, MaxSequenceAssumption DEF SessionInv, SessionTypeOK
  <1>5. \A types : Arrived(types) /\ Consume /\ toAgent' \in Seq(ToAgentMessage) => WireTypeOK'
    BY <1>1, ServerReads DEF Consume, WireTypeOK
  <1>6. toAgent \in Seq(ToAgentMessage)
    BY <1>1 DEF WireTypeOK
  <1>7. \A types : Arrived(types) => Arrival \in ToServerMessage /\ Arrival.type \in types
    BY ServerReads
  <1>h. ASSUME ServerHello PROVE TypeInv'
    <2>1. /\ Arrived({"HELLO"}) /\ ~helloReceived /\ helloReceived' = TRUE /\ Consume
          /\ UNCHANGED <<window, pressed, grab, deferred, scriptStep, crosshairs>>
      BY <1>h DEF ServerHello
    <2>2. nextSequence = 1
      BY <1>1, <2>1 DEF ServerTypeOK
    <2>3. \E p \in Presentation, next \in nextSequence .. MaxSequence :
             SendPresent(Greeting, p, next)
      BY <1>1, <1>h, <2>2, FirstPresentation, Zenon DEF ServerHello
    <2>4. /\ SessionInv' /\ toAgent' \in Seq(ToAgentMessage)
          /\ \E s \in 1 .. MaxSequence : awaiting' = {s}
      BY <1>1, <1>3, <1>6, <2>1, <2>3, SendPresentTypes, GreetingTypes
    <2>5. ServerTypeOK'
      BY <1>1, <2>1, <2>4 DEF ServerTypeOK
    <2>. QED
      BY <1>2, <1>5, <2>1, <2>4, <2>5 DEF TypeInv
  <1>a. ASSUME ServerPresentAck PROVE TypeInv'
    <2>1. /\ Arrived({"WINDOW_PRESENT_ACK"}) /\ helloReceived /\ deferred' = {} /\ Consume
          /\ UNCHANGED <<window, pressed, grab, helloReceived, crosshairs>>
      BY <1>a DEF ServerPresentAck
    <2>2. CASE UNCHANGED <<history, insertions, nextSequence>> /\ awaiting' = {}
               /\ scriptStep' \in Nat /\ toAgent' \in Seq(ToAgentMessage)
      <3>1. SessionInv'
        BY <1>1, <2>1, <2>2, SessionUntouched DEF sessionVars
      <3>2. ServerTypeOK'
        BY <1>1, <2>1, <2>2 DEF ServerTypeOK
      <3>. QED
        BY <1>2, <1>5, <2>1, <2>2, <3>1, <3>2 DEF TypeInv
    <2>3. ASSUME NEW p \in Presentation, SendPresent(<<>>, p, nextSequence), scriptStep' \in Nat
          PROVE  TypeInv'
      <3>1. /\ SessionInv' /\ toAgent' \in Seq(ToAgentMessage)
            /\ \E s \in 1 .. MaxSequence : awaiting' = {s}
        BY <1>1, <1>3, <1>4, <1>6, <2>1, <2>3, SendPresentTypes, ShortSequences
      <3>2. ServerTypeOK'
        BY <1>1, <2>1, <2>3, <3>1 DEF ServerTypeOK
      <3>. QED
        BY <1>2, <1>5, <2>1, <3>1, <3>2 DEF TypeInv
    <2>4. scriptStep \in Nat /\ scriptStep + 1 \in Nat
      BY <1>1 DEF ServerTypeOK
    <2>5. Append(toAgent, WindowDestroy(FakeWindow)) \in Seq(ToAgentMessage)
      BY <1>6 DEF ToAgentMessage
    <2>6. CASE deferred = {} /\ ~mode.script
      BY <1>6, <1>a, <2>2, <2>4, <2>6 DEF ServerPresentAck
    <2>7. CASE deferred # {}
      <3>1. \A p \in deferred : p \in Presentation
        BY <1>1 DEF ServerTypeOK
      <3>. QED
        BY <1>a, <2>3, <2>4, <2>7, <3>1, Zenon DEF ServerPresentAck
    <2>8. CASE deferred = {} /\ mode.script
      <3>1. /\ scriptStep' = scriptStep + 1
            /\ \/ /\ awaiting' = {}
                  /\ toAgent' = Append(toAgent, WindowDestroy(FakeWindow))
                  /\ UNCHANGED <<history, insertions, nextSequence>>
               \/ /\ ~ScriptIsOver(scriptStep')
                  /\ SendPresent(<<>>, Script[scriptStep' + 1], nextSequence)
        BY <1>a, <2>8 DEF ServerPresentAck
      <3>2. ~ScriptIsOver(scriptStep') => Script[scriptStep' + 1] \in Presentation
        BY <2>1, <2>4, <2>8, <3>1, AckFindsTheScript DEF ScriptIsOver
      <3>. QED
        BY <2>2, <2>3, <2>4, <2>5, <3>1, <3>2
    <2>. QED
      BY <2>6, <2>7, <2>8
  \* A handler that leaves the history alone.
  <1>q. ASSUME NEW types, Arrived(types), helloReceived, Consume, SessionInv',
               toAgent' \in Seq(ToAgentMessage), crosshairs' \subseteq Point,
               deferred' = {} \/ \E p \in Presentation : deferred' = {p},
               UNCHANGED <<helloReceived, awaiting, scriptStep>>
        PROVE  TypeInv'
    <2>1. ServerTypeOK'
      BY <1>1, <1>q DEF ServerTypeOK
    <2>. QED
      BY <1>2, <1>5, <1>q, <2>1, Zenon DEF TypeInv
  <1>8. crosshairs \subseteq Point /\ (deferred = {} \/ \E p \in Presentation : deferred = {p})
    BY <1>1 DEF ServerTypeOK
  <1>l. ASSUME ServerPointerLocation \/ ServerKeyboard PROVE TypeInv'
    <2>1. SessionInv'
      BY <1>1, <1>l, SessionUntouched DEF ServerPointerLocation, ServerKeyboard
    <2>. QED
      BY <1>6, <1>8, <1>l, <1>q, <2>1 DEF ServerPointerLocation, ServerKeyboard, serverVars
  <1>m. ASSUME ServerPointerMotion PROVE TypeInv'
    <2>. DEFINE l == Arrival.location
    <2>1. /\ Arrived({"POINTER_MOTION"}) /\ helloReceived /\ Consume
          /\ UNCHANGED <<helloReceived, scriptStep, crosshairs>>
      BY <1>m DEF ServerPointerMotion
    <2>2. l \in Location
      BY <1>7, <2>1, ToServerKinds DEF PointerTypes
    <2>. HIDE DEF l
    <2>3. /\ \A w \in Moves(l) : w \in Rect /\ w.w = InitialWindow.w /\ w.h = InitialWindow.h
          /\ \A p \in Generated(l) : /\ p \in Presentation
                                     /\ nextSequence < MaxSequence
      BY <1>1, <2>2, MovesAndGenerated
    <2>4. HandleMotion(l) /\ UNCHANGED <<history, insertions>> => SessionInv'
      BY <1>1, <2>2, MotionKeepsTheWindow, WindowStateSuffices
    <2>5. ASSUME \/ /\ Generated(l) = {}
                    /\ HandleMotion(l)
                    /\ UNCHANGED <<history, insertions, awaiting, deferred, toAgent>>
                 \/ /\ Generated(l) # {} /\ Waits
                    /\ HandleMotion(l)
                    /\ deferred' = Deferred(l)
                    /\ UNCHANGED <<history, insertions, awaiting, toAgent>>
          PROVE  TypeInv'
      <3>1. deferred' = {} \/ \E p \in Presentation : deferred' = {p}
        <4>1. \A w1, w2 \in Moves(l) : w1 = w2
          BY DEF Moves, GlobalPoint, OutputLocalPointToGlobal
        <4>2. \A p1, p2 \in Generated(l) : p1 = p2
          BY <4>1 DEF Generated
        <4>. QED
          BY <1>8, <2>3, <2>5, <4>2 DEF Deferred
      <3>2. SessionInv' /\ UNCHANGED <<awaiting, toAgent>>
        BY <2>4, <2>5
      <3>. QED
        BY <1>6, <1>8, <1>q, <2>1, <3>1, <3>2
    <2>6. ASSUME NEW p \in Generated(l), SendPresent(<<>>, p, nextSequence + 1),
                 window' \in Moves(l), UNCHANGED <<pressed, grab, deferred>>
          PROVE  TypeInv'
      <3>1. nextSequence + 1 \in nextSequence .. MaxSequence
        BY <1>4, <2>3, <2>6
      <3>2. /\ SessionInv' /\ toAgent' \in Seq(ToAgentMessage)
            /\ \E s \in 1 .. MaxSequence : awaiting' = {s}
        BY <1>1, <1>6, <2>3, <2>6, <3>1, SendPresentTypes, ShortSequences
      <3>3. ServerTypeOK'
        BY <1>1, <2>1, <2>6, <3>2 DEF ServerTypeOK
      <3>. QED
        BY <1>2, <1>5, <2>1, <3>2, <3>3 DEF TypeInv
    <2>. QED
      BY <1>m, <2>5, <2>6, Zenon DEF ServerPointerMotion, l
  <1>b. ASSUME ServerPointerButton PROVE TypeInv'
    <2>. DEFINE l == Arrival.location
    <2>1. /\ Arrived({"POINTER_BUTTON"}) /\ helloReceived /\ Consume
          /\ HandleButton(l, Arrival.button, Arrival.down)
          /\ UNCHANGED <<window, history, insertions, nextSequence,
                         helloReceived, awaiting, deferred, scriptStep>>
          /\ \/ crosshairs' = crosshairs \cup SurfacePoint(l) /\ toAgent' = Append(toAgent, Frame(crosshairs'))
             \/ UNCHANGED <<crosshairs, toAgent>>
      BY <1>b DEF ServerPointerButton
    <2>2. l \in Location /\ Arrival.button \in Buttons /\ Arrival.down \in BOOLEAN
      BY <1>7, <2>1, ToServerKinds, EndsAssumption DEF PointerTypes
    <2>. HIDE DEF l
    <2>3. SessionInv'
      BY <1>1, <2>1, <2>2, ButtonKeepsTheGrab, PointerStateSuffices
    <2>4. SurfacePoint(l) \subseteq Point
      <3>1. \A s, c : PresentedFragmentToSurfaceLocal(s, c) \subseteq Point
        BY DEF PresentedFragmentToSurfaceLocal, Point, FitsI32
      <3>. QED
        BY <3>1 DEF SurfacePoint
    <2>5. crosshairs' \subseteq Point /\ toAgent' \in Seq(ToAgentMessage)
      <3>1. \A pixels \in SUBSET Point : Append(toAgent, Frame(pixels)) \in Seq(ToAgentMessage)
        BY <1>6 DEF ToAgentMessage
      <3>. QED
        BY <1>6, <1>8, <2>1, <2>4, <3>1
    <2>. QED
      BY <1>8, <1>q, <2>1, <2>3, <2>5
  <1>c. ASSUME ServerCaptureLost PROVE TypeInv'
    <2>1. SessionInv'
      BY <1>1, <1>c, CaptureLostKeepsTheGrab, PointerStateSuffices DEF ServerCaptureLost
    <2>. QED
      BY <1>6, <1>8, <1>c, <1>q, <2>1 DEF ServerCaptureLost, serverVars
  <1>x. ASSUME CloseConnection, UNCHANGED window \/ \E l \in Location : window' \in Moves(l)
        PROVE  TypeInv'
    <2>1. window' \in Rect /\ window'.w = InitialWindow.w /\ window'.h = InitialWindow.h
      BY <1>1, <1>3, <1>x, MovesAndGenerated
    <2>. QED
      BY <1>1, <1>x, <2>1, ServerCloses
  <1>r. ASSUME ServerRejectsMotion PROVE TypeInv'
    <2>1. Arrival.location \in Location
      BY <1>7, <1>r, ToServerKinds DEF ServerRejectsMotion, PointerTypes
    <2>. QED
      BY <1>r, <1>x, <2>1 DEF ServerRejectsMotion
  <1>9. ServerRejectsAck \/ ServerRejectsMessage \/ ServerPeerGone => TypeInv'
    BY <1>x DEF ServerRejectsAck, ServerRejectsMessage, ServerPeerGone
  <1>. QED
    BY <1>1, <1>h, <1>a, <1>l, <1>m, <1>b, <1>c, <1>r, <1>9 DEF ServerHandles

\* The message the agent takes is typed, and so is the rest of the stream.
LEMMA AgentReads ==
    ASSUME TypeInv, NEW type, AgentArrived(type)
    PROVE  /\ toAgent # <<>> /\ agentSocket = "open" /\ agent # "exited"
           /\ AgentArrival = toAgent[1] /\ AgentArrival \in ToAgentMessage
           /\ AgentArrival.type = type
           /\ Tail(toAgent) \in Seq(ToAgentMessage)
  BY ATail DEF TypeInv, WireTypeOK, AgentArrived, AgentArrival

LEMMA SentTypes ==
    ASSUME TypeInv, NEW messages \in Seq(ToServerMessage)
    PROVE  Sent(messages) \in Seq(ToServerMessage)
  BY ConcatProperties DEF TypeInv, WireTypeOK, Sent

\* Input the user can make now is input the server's stream can carry.
LEMMA InputIsSent ==
    ASSUME NEW messages \in Seq(InputOf(LocationsNow))
    PROVE  messages \in Seq(ToServerMessage)
  <1>1. InputOf(LocationsNow) \subseteq ToServerMessage
    BY DEF InputOf, LocationsNow, ToServerMessage
  <1>. QED
    BY <1>1, SequenceOfMore

LEMMA UserKeepsTypes ==
    ASSUME TypeInv, UserStep
    PROVE  TypeInv'
  <1>1. PICK messages \in Seq(InputOf(LocationsNow)) : toServer' = Sent(messages)
    BY UserEffect
  <1>2. toServer' \in Seq(ToServerMessage)
    BY <1>1, InputIsSent, SentTypes
  <1>3. WireTypeOK'
    BY <1>2, UserEffect DEF TypeInv, WireTypeOK
  <1>4. AgentTypeOK'
    BY UserEffect DEF TypeInv, AgentTypeOK, applicationVars
  <1>5. UNCHANGED linuxVars
    BY UserEffect
  <1>6. SessionInv' /\ ServerTypeOK'
    BY <1>5, SessionUntouched DEF TypeInv, ServerTypeOK, linuxVars, serverVars, sessionVars
  <1>. QED
    BY <1>3, <1>4, <1>6 DEF TypeInv

\* The connection fails under the agent's feet, or the agent is killed.
LEMMA FailureTypes ==
    ASSUME TypeInv, NEW lastWords \in Seq(ToServerMessage), FailConnection(lastWords),
           dispatchPosted' \in BOOLEAN, dispatches' = IF dispatchPosted' THEN 1 ELSE 0
    PROVE  WireTypeOK' /\ AgentTypeOK'
  <1>1. WireTypeOK'
    BY SentTypes, ShortSequences DEF FailConnection, TypeInv, WireTypeOK
  <1>2. DOMAIN proxies' = {} /\ DOMAIN pending' = {}
    BY DEF FailConnection, Empty
  <1>3. AgentTypeOK'
    BY <1>2 DEF FailConnection, TypeInv, AgentTypeOK
  <1>. QED
    BY <1>1, <1>3

LEMMA DispatchSpeaks ==
    ASSUME TypeInv
    PROVE  /\ Ready \in {{}, {FakeWindow}}
           /\ \A order \in SetToSeqs({}) : Acks(order) = <<>>
           /\ FakeWindow \in Ready => \A order \in SetToSeqs({FakeWindow}) :
                 /\ Acks(order) = <<PresentAck(FakeWindow, pending[FakeWindow].sequence)>>
                 /\ PresentAck(FakeWindow, pending[FakeWindow].sequence) \in ToServerMessage
  <1>1. Ready \in {{}, {FakeWindow}}
    BY DEF TypeInv, AgentTypeOK, Ready
  <1>2. \A order \in SetToSeqs({}) : Acks(order) = <<>>
    BY ListingsOfAtMostOne DEF Acks
  <1>3. ASSUME NEW order \in SetToSeqs({FakeWindow})
        PROVE  Acks(order) = <<PresentAck(FakeWindow, pending[FakeWindow].sequence)>>
    <2>1. order = <<FakeWindow>>
      BY ListingsOfAtMostOne
    <2>2. DOMAIN order = 1 .. 1 /\ order[1] = FakeWindow
      BY <2>1
    <2>3. Acks(order) = [i \in 1 .. 1 |-> PresentAck(FakeWindow, pending[FakeWindow].sequence)]
      BY <2>2 DEF Acks
    <2>. QED
      BY <2>3
  <1>4. FakeWindow \in Ready =>
           PresentAck(FakeWindow, pending[FakeWindow].sequence) \in ToServerMessage
    BY DEF TypeInv, AgentTypeOK, Ready, Presentation, ToServerMessage
  <1>. QED
    BY <1>1, <1>2, <1>3, <1>4

\* With one window, a dispatch that fails acknowledges nothing.
LEMMA DispatchFailsSilently ==
    ASSUME TypeInv, DispatchFails
    PROVE  FailConnection(<<>>)
  <1>. DEFINE able == {id \in Ready : Presentable(id, pending[id])}
  <1>1. PICK order \in SetToSeqs(able) :
           /\ Len(order) < Cardinality(Ready)
           /\ \E done \in 0 .. Len(order) : FailConnection(Acks(SubSeq(order, 1, done)))
    BY DEF DispatchFails
  <1>2. able \in {{}, {FakeWindow}} /\ (able = {FakeWindow} => Ready = {FakeWindow})
    BY DispatchSpeaks
  <1>3. able # {FakeWindow}
    <2>. SUFFICES ASSUME able = {FakeWindow} PROVE FALSE
      OBVIOUS
    <2>1. Cardinality(Ready) = 1
      BY <1>2, FS_Singleton
    <2>2. order = <<FakeWindow>>
      BY <1>1, ListingsOfAtMostOne
    <2>. QED
      BY <1>1, <2>1, <2>2
  <1>4. order = <<>>
    BY <1>1, <1>2, <1>3, ListingsOfAtMostOne
  <1>5. PICK done \in 0 .. 0 : FailConnection(Acks(SubSeq(<<>>, 1, done)))
    BY <1>1, <1>4
  <1>6. Acks(SubSeq(<<>>, 1, done)) = <<>>
    BY <1>5 DEF Acks
  <1>. QED
    BY <1>5, <1>6

LEMMA AgentKeepsTypes ==
    ASSUME TypeInv, ThreadStep
    PROVE  TypeInv'
  <1>1. AgentStep /\ UNCHANGED linuxVars
    BY DEF ThreadStep
  <1>2. SessionInv' /\ ServerTypeOK'
    BY <1>1, SessionUntouched DEF TypeInv, ServerTypeOK, linuxVars, serverVars, sessionVars
  <1>3. /\ AgentTypeOK /\ WireTypeOK
        /\ DOMAIN proxies \subseteq {FakeWindow} /\ DOMAIN pending \subseteq {FakeWindow}
        /\ \A id \in DOMAIN proxies : proxies[id] \in ProxyType
        /\ \A id \in DOMAIN pending : pending[id] \in Presentation
        /\ capture \subseteq DOMAIN proxies /\ focus \subseteq DOMAIN proxies
    BY DEF TypeInv, AgentTypeOK
  <1>4. \A messages : toAgent # <<>> /\ Answer(messages) /\ messages \in Seq(ToServerMessage)
           => WireTypeOK'
    BY <1>3, SentTypes, ATail DEF Answer, WireTypeOK
  <1>5. \A messages \in Seq(InputOf(LocationsNow)) : messages \in Seq(ToServerMessage)
    BY InputIsSent
  <1>6. <<>> \in Seq(ToServerMessage)
    BY ShortSequences
  <1>7. \A type : AgentArrived(type)
           => AgentArrival \in ToAgentMessage /\ AgentArrival.type = type /\ toAgent # <<>>
    BY AgentReads
  <1>h. ASSUME ReceiveHelloAck PROVE WireTypeOK' /\ AgentTypeOK'
    <2>1. Answer(<<>>) /\ UNCHANGED agentVars /\ toAgent # <<>>
      BY <1>7, <1>h DEF ReceiveHelloAck
    <2>2. AgentTypeOK'
      BY <1>3, <2>1 DEF AgentTypeOK, agentVars, applicationVars, desktopVars
    <2>. QED
      BY <1>4, <1>6, <2>1, <2>2
  <1>o. ASSUME ReceiveOutputConfig PROVE WireTypeOK' /\ AgentTypeOK'
    <2>1. AgentArrival.scale = OneToOne /\ toAgent # <<>>
      BY <1>7, <1>o, ToAgentKinds DEF ReceiveOutputConfig, OutputConfig
    <2>2. /\ Answer(<<>>) /\ outputScale' = {AgentArrival.scale}
          /\ UNCHANGED <<agent, exitCode, pending, dispatchPosted, dispatches, proxies, desktopVars>>
      BY <1>o DEF ReceiveOutputConfig
    <2>3. AgentTypeOK'
      BY <1>3, <2>1, <2>2 DEF AgentTypeOK, desktopVars
    <2>. QED
      BY <1>4, <1>6, <2>1, <2>2, <2>3
  <1>c. ASSUME ReceiveCreate PROVE WireTypeOK' /\ AgentTypeOK'
    <2>. DEFINE m == AgentArrival
    <2>1. m = WindowCreate(FakeWindow, 0, InitialWindow.w, InitialWindow.h) /\ toAgent # <<>>
      BY <1>7, <1>c, ToAgentKinds DEF ReceiveCreate
    <2>2. NewProxy(m) \in ProxyType
      <3>1. InitialWindow.w \in 1 .. MaxInt /\ InitialWindow.h \in 1 .. MaxInt
        BY InitialWindowFacts, MaxIntAssumption DEF Rect, I32
      <3>2. Hidden \in Presentation
        BY InitialWindowFacts DEF Hidden, NoPresentation, Invisible
      <3>. QED
        BY <2>1, <3>1, <3>2, InitialWindowFacts, MaxSequenceAssumption
           DEF NewProxy, OwnersOf, WindowCreate, ProxyType
    <2>3. /\ m.id = FakeWindow /\ Answer(<<>>)
          /\ proxies' = [id \in DOMAIN proxies \cup {m.id} |->
                            IF id = m.id THEN NewProxy(m) ELSE proxies[id]]
          /\ UNCHANGED <<applicationVars, cursor, held, capture, focus>>
      BY <1>c, <2>1 DEF ReceiveCreate, WindowCreate
    <2>. QED
      BY <1>3, <1>4, <1>6, <2>1, <2>2, <2>3 DEF AgentTypeOK, applicationVars
  <1>f. ASSUME ReceiveFrame PROVE WireTypeOK' /\ AgentTypeOK'
    <2>. DEFINE m == AgentArrival
    <2>1. PICK pixels \in SUBSET Point : m = Frame(pixels)
      BY <1>7, <1>f, ToAgentKinds DEF ReceiveFrame
    <2>2. m.id = FakeWindow /\ m.pixels = pixels /\ m.sequence = 1 /\ toAgent # <<>>
      BY <1>7, <1>f, <2>1 DEF Frame, WindowFrame, ReceiveFrame
    <2>3. /\ UNCHANGED <<applicationVars, desktopVars>> /\ Answer(<<>>)
          /\ \/ UNCHANGED proxies
             \/ proxies' = [proxies EXCEPT ![m.id].framebuffer = m.pixels,
                                           ![m.id].frameSequence = m.sequence]
      BY <1>f DEF ReceiveFrame
    <2>4. /\ DOMAIN proxies' = DOMAIN proxies
          /\ \A id \in DOMAIN proxies' : proxies'[id] \in ProxyType
      <3>1. CASE UNCHANGED proxies
        BY <1>3, <3>1
      <3>2. CASE proxies' = [proxies EXCEPT ![m.id].framebuffer = m.pixels,
                                            ![m.id].frameSequence = m.sequence]
        <4>. DEFINE new == [proxies[FakeWindow] EXCEPT !.framebuffer = pixels, !.frameSequence = 1]
        <4>1. proxies' = [proxies EXCEPT ![FakeWindow] = new]
          BY <1>3, <2>2, <3>2
        <4>2. FakeWindow \in DOMAIN proxies => new \in ProxyType
          <5>1. \A q \in ProxyType : [q EXCEPT !.framebuffer = pixels] \in ProxyType
            BY DEF ProxyType
          <5>2. 1 \in 0 .. MaxSequence
            BY MaxSequenceAssumption
          <5>3. \A q \in ProxyType, s \in 0 .. MaxSequence : [q EXCEPT !.frameSequence = s] \in ProxyType
            BY DEF ProxyType
          <5>. QED
            BY <1>3, <5>1, <5>2, <5>3
        <4>. HIDE DEF new
        <4>. QED
          BY <1>3, <4>1, <4>2
      <3>. QED
        BY <2>3, <3>1, <3>2
    <2>. QED
      BY <1>3, <1>4, <1>6, <2>2, <2>3, <2>4 DEF AgentTypeOK, applicationVars, desktopVars
  <1>p. ASSUME ReceivePresent PROVE WireTypeOK' /\ AgentTypeOK'
    <2>1. PICK p \in Presentation : AgentArrival = WindowPresent(FakeWindow, p)
      BY <1>7, <1>p, ToAgentKinds DEF ReceivePresent
    <2>2. /\ AgentArrival.id = FakeWindow /\ AgentArrival.presentation = p /\ toAgent # <<>>
      BY <1>7, <1>p, <2>1 DEF WindowPresent, ReceivePresent
    <2>3. DOMAIN pending' = {FakeWindow} /\ pending'[FakeWindow] = p
      BY <1>3, <1>p, <2>2 DEF ReceivePresent, KeepNewest
    <2>4. dispatches' = IF dispatchPosted' THEN 1 ELSE 0
      BY <1>3, <1>p DEF ReceivePresent, PostOnce, AgentTypeOK
    <2>5. /\ dispatchPosted' = TRUE /\ Answer(<<>>)
          /\ UNCHANGED <<agent, exitCode, outputScale, proxies, desktopVars>>
      BY <1>p DEF ReceivePresent
    <2>. QED
      BY <1>3, <1>4, <1>6, <2>1, <2>2, <2>3, <2>4, <2>5 DEF AgentTypeOK, desktopVars
  <1>d. ASSUME ReceiveDestroy PROVE WireTypeOK' /\ AgentTypeOK'
    <2>. DEFINE id == AgentArrival.id
    <2>1. id = FakeWindow /\ DOMAIN proxies = {FakeWindow} /\ toAgent # <<>>
      BY <1>3, <1>7, <1>d DEF ReceiveDestroy
    <2>2. OwnedBy(id) = {}
      BY <1>3, <2>1 DEF OwnedBy, ProxyType, ToSet
    <2>3. /\ Answer(CaptureLostBy({id}) \o LoseFocus(id) \o CaptureLostBy({}))
          /\ capture' = capture \ {id} /\ focus' = focus \ {id}
          /\ pending' = Without(pending, id) /\ proxies' = WithoutWindow(id)
          /\ agent' = IF DOMAIN proxies = {id} THEN "quitting" ELSE agent
          /\ UNCHANGED <<exitCode, outputScale, dispatchPosted, dispatches, cursor, held>>
      BY <1>d, <2>2 DEF ReceiveDestroy
    <2>4. CaptureLostBy({id}) \o LoseFocus(id) \o CaptureLostBy({}) \in Seq(InputOf(LocationsNow))
      <3>1. CaptureLostBy({}) \in Seq(InputOf(LocationsNow))
        BY ShortSequences DEF CaptureLostBy
      <3>2. CaptureLostBy({id}) \in Seq(InputOf(LocationsNow))
        BY <1>3, <2>1, ShortSequences, FocusSpeaks DEF CaptureLostBy
      <3>3. LoseFocus(id) \in Seq(InputOf(LocationsNow))
        BY <1>3, <2>1, FocusSpeaks
      <3>. QED
        BY <3>1, <3>2, <3>3, ConcatProperties
    <2>5. WireTypeOK'
      BY <1>4, <1>5, <2>1, <2>3, <2>4
    <2>6. DOMAIN proxies' = {} /\ DOMAIN pending' = {} /\ capture' = {} /\ focus' = {}
      BY <1>3, <2>1, <2>3 DEF WithoutWindow, Without
    <2>. QED
      BY <1>3, <2>3, <2>5, <2>6 DEF AgentTypeOK
  <1>x. ASSUME SocketFails PROVE WireTypeOK' /\ AgentTypeOK'
    <2>1. FailConnection(<<>>) /\ UNCHANGED <<dispatchPosted, dispatches>>
      BY <1>x DEF SocketFails
    <2>2. dispatchPosted' \in BOOLEAN /\ dispatches' = IF dispatchPosted' THEN 1 ELSE 0
      BY <1>3, <2>1 DEF AgentTypeOK
    <2>. QED
      BY <1>6, <2>1, <2>2, FailureTypes
  <1>8. ASSUME TakeDispatch
        PROVE  dispatchPosted' = FALSE /\ dispatches' = 0
    <2>1. dispatches \in {0, 1}
      BY <1>3 DEF AgentTypeOK
    <2>. QED
      BY <1>8, <2>1 DEF TakeDispatch
  <1>a. ASSUME DispatchPresents PROVE WireTypeOK' /\ AgentTypeOK'
    <2>1. PICK order \in SetToSeqs(Ready) : Send(Acks(order))
      BY <1>a DEF DispatchPresents
    <2>2. Acks(order) \in Seq(ToServerMessage)
      <3>1. CASE Ready = {}
        BY <1>6, <2>1, <3>1, DispatchSpeaks
      <3>2. CASE Ready = {FakeWindow}
        <4>1. /\ Acks(order) = <<PresentAck(FakeWindow, pending[FakeWindow].sequence)>>
              /\ PresentAck(FakeWindow, pending[FakeWindow].sequence) \in ToServerMessage
          BY <2>1, <3>2, DispatchSpeaks
        <4>. QED
          BY <4>1, ShortSequences
      <3>. QED
        BY <3>1, <3>2, DispatchSpeaks
    <2>3. WireTypeOK'
      BY <1>3, <2>1, <2>2, SentTypes DEF Send, WireTypeOK
    <2>4. ASSUME NEW id \in Ready
          PROVE  Applied(id, pending[id]) \in ProxyType
      <3>. DEFINE p == pending[id]
                  physical == IF p.visible THEN CHOOSE r \in PhysicalDestination(p) : TRUE
                                           ELSE EmptyRect
      <3>1. Presentable(id, p) /\ p \in Presentation /\ proxies[id] \in ProxyType
        BY <1>3, <1>a, <2>4 DEF DispatchPresents, Ready
      <3>2. PhysicalDestination(p) \subseteq Rect
        <4>1. \A s : LogicalRectToPhysical(p.destination, s) \subseteq Rect
          BY DEF LogicalRectToPhysical
        <4>. QED
          BY <4>1 DEF PhysicalDestination
      <3>3. physical \in Rect
        <4>1. CASE p.visible
          <5>1. PhysicalDestination(p) # {}
            BY <3>1, <4>1 DEF Presentable
          <5>. QED
            BY <3>2, <4>1, <5>1
        <4>. QED
          BY <4>1, InitialWindowFacts
      <3>4. Applied(id, p) = [proxies[id] EXCEPT !.presentation = p, !.physical = physical]
        BY DEF Applied
      <3>. HIDE DEF physical, p
      <3>. QED
        BY <3>1, <3>3, <3>4 DEF p, ProxyType
    <2>5. DOMAIN proxies' = DOMAIN proxies /\ \A id \in DOMAIN proxies' : proxies'[id] \in ProxyType
      BY <1>3, <1>a, <2>4 DEF DispatchPresents
    <2>6. DOMAIN pending' = {} /\ UNCHANGED <<agent, exitCode, outputScale, cursor, held, capture, focus>>
      BY <1>a DEF DispatchPresents, Empty
    <2>7. AgentTypeOK'
      BY <1>3, <1>8, <1>a, <2>5, <2>6 DEF DispatchPresents, AgentTypeOK
    <2>. QED
      BY <2>3, <2>7
  <1>b. ASSUME DispatchFails PROVE WireTypeOK' /\ AgentTypeOK'
    <2>1. FailConnection(<<>>)
      BY <1>b, DispatchFailsSilently
    <2>2. dispatchPosted' = FALSE /\ dispatches' = 0
      BY <1>8, <1>b DEF DispatchFails
    <2>. QED
      BY <1>6, <2>1, <2>2, FailureTypes
  <1>e. Exit => WireTypeOK' /\ AgentTypeOK'
    BY <1>3, ShortSequences DEF Exit, AgentTypeOK, WireTypeOK, desktopVars
  <1>9. ~ReceiveResize /\ ~ReceiveDamage /\ ~ReceiveActivate
    BY <1>7, ToAgentKinds DEF ReceiveResize, ReceiveDamage, ReceiveActivate
  <1>. QED
    BY <1>1, <1>2, <1>h, <1>o, <1>c, <1>f, <1>p, <1>d, <1>x, <1>a, <1>b, <1>e, <1>9
       DEF AgentStep, TypeInv

LEMMA KillKeepsTypes ==
    ASSUME TypeInv, KillStep
    PROVE  TypeInv'
  <1>1. UNCHANGED linuxVars /\ Kill
    BY DEF KillStep
  <1>2. SessionInv' /\ ServerTypeOK'
    BY <1>1, SessionUntouched DEF TypeInv, ServerTypeOK, linuxVars, serverVars, sessionVars
  <1>3. WireTypeOK' /\ AgentTypeOK'
    BY <1>1, ShortSequences DEF Kill, Empty, TypeInv, WireTypeOK, AgentTypeOK
  <1>. QED
    BY <1>2, <1>3 DEF TypeInv
-----------------------------------------------------------------------------
(* Where messages are after one was taken or some were added.              *)

LEMMA Took ==
    ASSUME NEW S, NEW s \in Seq(S), s # <<>>, NEW type
    PROVE  /\ \A i \in MessagesOf(Tail(s), type) :
                 i \in Nat \ {0} /\ i + 1 \in MessagesOf(s, type) /\ Tail(s)[i] = s[i + 1]
           /\ \A i \in MessagesOf(s, type) :
                 i \in Nat \ {0} /\ (i = 1 \/ i - 1 \in MessagesOf(Tail(s), type))
           /\ s[1].type = type => 1 \in MessagesOf(s, type)
           /\ s[1].type # type => 1 \notin MessagesOf(s, type)
           /\ Head(s) = s[1]
  <1>1. /\ Head(s) = s[1] /\ 1 \in DOMAIN s
        /\ DOMAIN Tail(s) \subseteq Nat \ {0}
        /\ \A i \in DOMAIN Tail(s) : i + 1 \in DOMAIN s /\ Tail(s)[i] = s[i + 1]
        /\ \A i \in DOMAIN s : i \in Nat /\ i >= 1 /\ (i > 1 => i - 1 \in DOMAIN Tail(s))
    BY ATail
  <1>2. \A i \in DOMAIN s : i # 1 => i - 1 \in DOMAIN Tail(s) /\ Tail(s)[i - 1] = s[i]
    BY <1>1
  <1>. QED
    BY <1>1, <1>2 DEF MessagesOf

LEMMA Added ==
    ASSUME NEW S, NEW s \in Seq(S), NEW u \in Seq(S), NEW type
    PROVE  /\ Len(s) \in Nat
           /\ \A i \in MessagesOf(s, type) :
                 /\ i \in Nat \ {0} /\ i <= Len(s)
                 /\ i \in MessagesOf(s \o u, type) /\ (s \o u)[i] = s[i]
           /\ \A i \in MessagesOf(u, type) :
                 /\ i \in Nat \ {0}
                 /\ Len(s) + i \in MessagesOf(s \o u, type) /\ (s \o u)[Len(s) + i] = u[i]
           /\ \A i \in MessagesOf(s \o u, type) :
                 \/ i \in MessagesOf(s, type)
                 \/ i - Len(s) \in MessagesOf(u, type) /\ i = Len(s) + (i - Len(s))
  <1>1. /\ Len(s) \in Nat /\ Len(u) \in Nat /\ DOMAIN s = 1 .. Len(s) /\ DOMAIN u = 1 .. Len(u)
        /\ DOMAIN (s \o u) = 1 .. Len(s) + Len(u)
        /\ \A i \in 1 .. Len(s) : (s \o u)[i] = s[i]
        /\ \A i \in 1 .. Len(u) : (s \o u)[Len(s) + i] = u[i]
        /\ \A i \in DOMAIN (s \o u) : i \in DOMAIN s \/ i - Len(s) \in DOMAIN u
    BY AConcat
  <1>2. ASSUME NEW i \in MessagesOf(s \o u, type)
        PROVE  \/ i \in MessagesOf(s, type)
               \/ i - Len(s) \in MessagesOf(u, type) /\ i = Len(s) + (i - Len(s))
    <2>1. i \in 1 .. Len(s) + Len(u) /\ (s \o u)[i].type = type
      BY <1>1 DEF MessagesOf
    <2>2. CASE i <= Len(s)
      BY <1>1, <2>1, <2>2 DEF MessagesOf
    <2>3. CASE i > Len(s)
      <3>1. i - Len(s) \in 1 .. Len(u) /\ i = Len(s) + (i - Len(s))
        BY <1>1, <2>1, <2>3
      <3>2. (s \o u)[i] = u[i - Len(s)]
        BY <1>1, <3>1
      <3>. QED
        BY <1>1, <2>1, <3>1, <3>2 DEF MessagesOf
    <2>. QED
      BY <1>1, <2>1, <2>2, <2>3
  <1>. QED
    BY <1>1, <1>2 DEF MessagesOf

\* The messages of a type are the same, k places nearer.
Carries(new, old, type, k) ==
    /\ \A i \in MessagesOf(new, type) : i \in Int /\ i + k \in MessagesOf(old, type) /\ new[i] = old[i + k]
    /\ \A i \in MessagesOf(old, type) : i \in Int /\ i - k \in MessagesOf(new, type)

LEMMA CarriedByTail ==
    ASSUME NEW S, NEW s \in Seq(S), s # <<>>, NEW type, s[1].type # type
    PROVE  Carries(Tail(s), s, type, 1)
  <1>1. /\ \A i \in MessagesOf(Tail(s), type) :
              i \in Nat \ {0} /\ i + 1 \in MessagesOf(s, type) /\ Tail(s)[i] = s[i + 1]
        /\ \A i \in MessagesOf(s, type) : i \in Nat \ {0} /\ i - 1 \in MessagesOf(Tail(s), type)
    <2>1. 1 \notin MessagesOf(s, type)
      BY Took
    <2>. QED
      BY <2>1, Took
  <1>2. Nat \ {0} \subseteq Int
    OBVIOUS
  <1>. QED
    BY <1>1, <1>2, Zenon DEF Carries

LEMMA CarriedByConcat ==
    ASSUME NEW S, NEW s \in Seq(S), NEW u \in Seq(S), NEW type, MessagesOf(u, type) = {}
    PROVE  Carries(s \o u, s, type, 0)
  BY Added DEF Carries

LEMMA CarriedBySame ==
    ASSUME NEW S, NEW s \in Seq(S), NEW type
    PROVE  Carries(s, s, type, 0)
  <1>1. DOMAIN s \subseteq Nat
    BY LenProperties
  <1>. QED
    BY <1>1 DEF Carries, MessagesOf
-----------------------------------------------------------------------------
(* The flow of presentations is kept by every step.                        *)

FlowTypes == {"WINDOW_PRESENT", "WINDOW_CREATE", "WINDOW_DESTROY"}

\* A step that neither makes nor takes a message of the flow.
LEMMA QuietStep ==
    ASSUME FlowInv, NEW k \in {0, 1}, NEW n \in {0, 1},
           \A type \in FlowTypes : Carries(toAgent', toAgent, type, k),
           Carries(toServer', toServer, "WINDOW_PRESENT_ACK", n),
           UNCHANGED <<history, insertions, awaiting, scriptStep, mode, helloReceived,
                       serverSocket, agentSocket, agent, exitCode>>,
           DOMAIN proxies' = DOMAIN proxies, DOMAIN pending' = DOMAIN pending,
           \A id \in DOMAIN pending : pending'[id] = pending[id],
           deferred' # {} => deferred # {} \/ awaiting # {},
           ~helloReceived => UNCHANGED toAgent /\ deferred' = {}
    PROVE  FlowInv'
  <1>1. /\ Carries(toAgent', toAgent, "WINDOW_PRESENT", k)
        /\ Carries(toAgent', toAgent, "WINDOW_CREATE", k)
        /\ Carries(toAgent', toAgent, "WINDOW_DESTROY", k)
    BY DEF FlowTypes
  <1>. DEFINE P == PresentsInFlight  Q == PresentsInFlight'
              C == Creates  D == Creates'
              E == Destroys  F == Destroys'
              A == AcksInFlight  B == AcksInFlight'
  <1>2. /\ \A i \in Q : i \in Int /\ i + k \in P /\ toAgent'[i] = toAgent[i + k]
        /\ \A i \in P : i \in Int /\ i - k \in Q
        /\ \A i \in D : i \in Int /\ i + k \in C
        /\ \A i \in C : i \in Int /\ i - k \in D
        /\ \A i \in F : i \in Int /\ i + k \in E
        /\ \A i \in E : i \in Int /\ i - k \in F
    BY <1>1 DEF Carries, PresentsInFlight, Creates, Destroys
  <1>3. /\ \A i \in B : i \in Int /\ i + n \in A /\ toServer'[i] = toServer[i + n]
        /\ \A i \in A : i \in Int /\ i - n \in B
    BY DEF Carries, AcksInFlight
  <1>4. (Q = {} <=> P = {}) /\ (D = {} <=> C = {}) /\ (F = {} <=> E = {}) /\ (B = {} <=> A = {})
    BY <1>2, <1>3
  <1>5. Newest' = Newest /\ Queued' = Queued /\ ProxyExists' = ProxyExists /\ AtTheEnd' = AtTheEnd
    BY DEF Newest, Queued, ProxyExists, AtTheEnd
  <1>6. OnePlace'
    BY <1>2, <1>3, <1>4, <1>5 DEF FlowInv, OnePlace
  <1>7. InFlightIsNewest'
    BY <1>2, <1>3, <1>4, <1>5 DEF FlowInv, InFlightIsNewest
  <1>8. Lifecycle'
    <2>1. \A i, j \in D : i = j
      BY <1>2 DEF FlowInv, Lifecycle
    <2>. QED
      BY <1>4, <1>5, <2>1 DEF FlowInv, Lifecycle
  <1>9. ScriptProgress'
    <2>1. ASSUME serverSocket' = "open", AtTheEnd', agentSocket' = "open", ProxyExists'
          PROVE  \E d \in F : \A i \in Q : d < i
      <3>1. PICK d \in E : \A i \in P : d < i
        BY <1>5, <2>1 DEF FlowInv, ScriptProgress
      <3>2. d - k \in F /\ \A i \in Q : d - k < i
        BY <1>2, <3>1
      <3>. QED
        BY <3>2
    <2>. QED
      BY <1>4, <1>5, <2>1 DEF FlowInv, ScriptProgress
  <1>. QED
    BY <1>6, <1>7, <1>8, <1>9 DEF FlowInv

\* Answers and input are not of the flow, nor are the messages of InputOf.
LEMMA InputIsNoAck ==
    ASSUME NEW locations, NEW messages \in Seq(InputOf(locations))
    PROVE  MessagesOf(messages, "WINDOW_PRESENT_ACK") = {}
  <1>1. \A i \in DOMAIN messages : messages[i] \in InputOf(locations)
    BY ElementOfSeq, LenProperties
  <1>2. \A m \in InputOf(locations) : m.type # "WINDOW_PRESENT_ACK"
    BY DEF InputOf, KeyboardInput, PointerLocation, PointerButton, CaptureLostMessage, KeyboardFocus,
           KeyboardKey, MotionTypes, LocationOnlyTypes
  <1>. QED
    BY <1>1, <1>2 DEF MessagesOf

\* What the agent sends, carried to the other end or lost with the connection.
LEMMA SentCarries ==
    ASSUME TypeInv, NEW messages \in Seq(ToServerMessage), NEW type,
           MessagesOf(messages, type) = {}, toServer' = Sent(messages)
    PROVE  Carries(toServer', toServer, type, 0)
  <1>1. toServer \in Seq(ToServerMessage)
    BY DEF TypeInv, WireTypeOK
  <1>. QED
    BY <1>1, CarriedByConcat, CarriedBySame DEF Sent

LEMMA UserKeepsFlow ==
    ASSUME TypeInv, FlowInv, UserStep
    PROVE  FlowInv'
  <1>1. PICK messages \in Seq(InputOf(LocationsNow)) : toServer' = Sent(messages)
    BY UserEffect
  <1>2. Carries(toServer', toServer, "WINDOW_PRESENT_ACK", 0)
    BY <1>1, InputIsNoAck, InputIsSent, SentCarries
  <1>3. \A type \in FlowTypes : Carries(toAgent', toAgent, type, 0)
    <2>1. toAgent' = toAgent /\ toAgent \in Seq(ToAgentMessage)
      BY UserEffect DEF TypeInv, WireTypeOK
    <2>. QED
      BY <2>1, CarriedBySame
  <1>4. /\ UNCHANGED <<pending, history, insertions, awaiting, deferred, scriptStep, mode,
                       helloReceived, toAgent, serverSocket, agentSocket, agent, exitCode>>
        /\ DOMAIN proxies' = DOMAIN proxies
    BY UserEffect DEF linuxVars, sessionVars, serverVars, applicationVars
  <1>5. ~helloReceived => UNCHANGED toAgent /\ deferred' = {}
    BY <1>4 DEF FlowInv, Lifecycle
  <1>. QED
    BY <1>2, <1>3, <1>4, <1>5, QuietStep

\* The server closed, or the agent did: what is left says nothing any more.
LEMMA EndKeepsFlow ==
    ASSUME TypeInv, FlowInv, UNCHANGED <<mode, scriptStep, helloReceived, awaiting, deferred>>,
           toAgent' = <<>>, toServer' = toServer \/ toServer' = <<>>,
           DOMAIN pending' = {} \/ (pending' = pending /\ DOMAIN pending = {}),
           DOMAIN proxies' = {}, agent' # "running",
           exitCode' = "success" => AtTheEnd,
           agentSocket' = "closed", UNCHANGED <<serverSocket, history, insertions>>
    PROVE  FlowInv'
  <1>1. PresentsInFlight' = {} /\ Creates' = {} /\ Destroys' = {}
    BY DEF PresentsInFlight, Creates, Destroys, MessagesOf
  <1>2. ~Queued' /\ ~ProxyExists' /\ DOMAIN pending' = {}
    BY DEF Queued, ProxyExists
  <1>3. AcksInFlight' \subseteq AcksInFlight
    BY DEF AcksInFlight, MessagesOf
  <1>4. \A i \in AcksInFlight' : toServer'[i] = toServer[i]
    BY DEF AcksInFlight, MessagesOf
  <1>5. Newest' = Newest /\ AtTheEnd' = AtTheEnd
    BY DEF Newest, AtTheEnd
  <1>6. OnePlace'
    BY <1>1, <1>2, <1>3 DEF FlowInv, OnePlace
  <1>7. InFlightIsNewest'
    BY <1>1, <1>2, <1>3, <1>4, <1>5 DEF FlowInv, InFlightIsNewest
  <1>8. Lifecycle'
    BY <1>1, <1>2, <1>3, <1>5 DEF FlowInv, Lifecycle
  <1>9. ScriptProgress'
    BY <1>1, <1>2, <1>3, <1>5 DEF FlowInv, ScriptProgress
  <1>. QED
    BY <1>6, <1>7, <1>8, <1>9 DEF FlowInv

LEMMA OneMessage ==
    ASSUME NEW m, NEW type
    PROVE  /\ m.type = type => MessagesOf(<<m>>, type) = {1}
           /\ m.type # type => MessagesOf(<<m>>, type) = {}
  BY DEF MessagesOf

LEMMA ServerQuietKeepsFlow ==
    ASSUME TypeInv, FlowInv, NEW types, Arrived(types), "WINDOW_PRESENT_ACK" \notin types,
           helloReceived, Consume,
           toAgent' = toAgent \/ \E pixels \in SUBSET Point : toAgent' = Append(toAgent, Frame(pixels)),
           UNCHANGED <<agentVars, mode, history, insertions, awaiting, scriptStep, helloReceived>>,
           deferred' # {} => deferred # {} \/ awaiting # {}
    PROVE  FlowInv'
  <1>1. /\ toAgent \in Seq(ToAgentMessage) /\ toServer \in Seq(ToServerMessage)
    BY DEF TypeInv, WireTypeOK
  <1>2. Carries(toServer', toServer, "WINDOW_PRESENT_ACK", 1)
    <2>1. toServer # <<>> /\ toServer[1].type # "WINDOW_PRESENT_ACK"
      BY ServerReads
    <2>. QED
      BY <1>1, <2>1, CarriedByTail DEF Consume
  <1>3. ASSUME NEW type \in FlowTypes PROVE Carries(toAgent', toAgent, type, 0)
    <2>1. CASE toAgent' = toAgent
      BY <1>1, <2>1, CarriedBySame
    <2>2. CASE \E pixels \in SUBSET Point : toAgent' = Append(toAgent, Frame(pixels))
      <3>1. PICK pixels \in SUBSET Point : toAgent' = Append(toAgent, Frame(pixels))
        BY <2>2
      <3>2. Frame(pixels) \in ToAgentMessage /\ Frame(pixels).type # type
        BY DEF ToAgentMessage, Frame, WindowFrame, FlowTypes
      <3>3. toAgent' = toAgent \o <<Frame(pixels)>> /\ <<Frame(pixels)>> \in Seq(ToAgentMessage)
        BY <1>1, <3>1, <3>2, AppendIsConcat, ShortSequences
      <3>4. MessagesOf(<<Frame(pixels)>>, type) = {}
        BY <3>2, OneMessage
      <3>. QED
        BY <1>1, <3>3, <3>4, CarriedByConcat
    <2>. QED
      BY <2>1, <2>2
  <1>. QED
    BY <1>2, <1>3, QuietStep DEF Consume, agentVars, applicationVars

\* Nothing is in flight, and the server sends the next presentation.
LEMMA PresentSent ==
    ASSUME TypeInv, TypeInv', FlowInv, NEW p \in Presentation,
           serverSocket = "open", helloReceived',
           PresentsInFlight = {}, ~Queued, AcksInFlight' = {},
           toAgent' = toAgent \o <<WindowPresent(FakeWindow, p)>>,
           Newest' = p, insertions' = insertions + 1, awaiting' = {p.sequence},
           UNCHANGED <<agentVars, mode, serverSocket, agentSocket>>,
           helloReceived,
           \/ scriptStep' = scriptStep
           \/ ~AtTheEnd /\ scriptStep' # Len(Script) /\ scriptStep' <= Len(Script) /\ mode.script
    PROVE  FlowInv'
  <1>1. /\ toAgent \in Seq(ToAgentMessage)
        /\ insertions \in Nat
    BY DEF TypeInv, WireTypeOK, SessionInv, SessionTypeOK
  <1>. DEFINE m == WindowPresent(FakeWindow, p)  n == Len(toAgent)
  <1>2. <<m>> \in Seq(ToAgentMessage) /\ m.presentation = p /\ m.type = "WINDOW_PRESENT"
    BY ShortSequences DEF ToAgentMessage, WindowPresent
  <1>3. MessagesOf(<<m>>, "WINDOW_PRESENT") = {1} /\ <<m>>[1] = m
    BY <1>2, OneMessage
  <1>4. MessagesOf(<<m>>, "WINDOW_CREATE") = {} /\ MessagesOf(<<m>>, "WINDOW_DESTROY") = {}
    BY <1>2, OneMessage
  <1>5. n \in Nat /\ PresentsInFlight' = {n + 1} /\ toAgent'[n + 1] = m
    <2>. DEFINE u == <<m>>
    <2>1. /\ toAgent' = toAgent \o u /\ u \in Seq(ToAgentMessage)
          /\ MessagesOf(u, "WINDOW_PRESENT") = {1} /\ u[1] = m
      BY <1>2, <1>3
    <2>2. MessagesOf(toAgent, "WINDOW_PRESENT") = {}
      BY DEF PresentsInFlight
    <2>. HIDE DEF m, n, u
    <2>3. /\ n \in Nat
          /\ \A i \in MessagesOf(u, "WINDOW_PRESENT") :
                n + i \in MessagesOf(toAgent \o u, "WINDOW_PRESENT") /\ (toAgent \o u)[n + i] = u[i]
          /\ \A i \in MessagesOf(toAgent \o u, "WINDOW_PRESENT") :
                \/ i \in MessagesOf(toAgent, "WINDOW_PRESENT")
                \/ i - n \in MessagesOf(u, "WINDOW_PRESENT") /\ i = n + (i - n)
      BY <1>1, <2>1, Added DEF n
    <2>4. /\ n + 1 \in MessagesOf(toAgent', "WINDOW_PRESENT") /\ toAgent'[n + 1] = m
          /\ \A i \in MessagesOf(toAgent', "WINDOW_PRESENT") : i - n = 1 /\ i = n + (i - n)
      BY <2>1, <2>2, <2>3, Zenon
    <2>5. MessagesOf(toAgent', "WINDOW_PRESENT") = {n + 1}
      BY <2>4
    <2>. QED
      BY <2>3, <2>4, <2>5 DEF PresentsInFlight
  <1>6. Carries(toAgent', toAgent, "WINDOW_CREATE", 0) /\ Carries(toAgent', toAgent, "WINDOW_DESTROY", 0)
    BY <1>1, <1>2, <1>4, CarriedByConcat
  <1>7. Creates' = Creates /\ Destroys' = Destroys
    <2>1. \A i : \A type \in {"WINDOW_CREATE", "WINDOW_DESTROY"} :
             i \in MessagesOf(toAgent', type) <=> i \in MessagesOf(toAgent, type)
      BY <1>6 DEF Carries
    <2>2. \A type \in {"WINDOW_CREATE", "WINDOW_DESTROY"} :
             MessagesOf(toAgent', type) = MessagesOf(toAgent, type)
      BY <2>1
    <2>. QED
      BY <2>2 DEF Creates, Destroys
  <1>8. /\ Queued' = Queued /\ ProxyExists' = ProxyExists /\ DOMAIN pending' = DOMAIN pending
        /\ agent' = agent /\ exitCode' = exitCode /\ DOMAIN pending = {}
    BY DEF Queued, ProxyExists, agentVars, applicationVars
  <1>. HIDE DEF m, n
  <1>9. OnePlace'
    BY <1>5, <1>8 DEF OnePlace
  <1>10. InFlightIsNewest'
    <2>1. \A i \in PresentsInFlight' : toAgent'[i].presentation = Newest'
      BY <1>2, <1>5
    <2>2. awaiting' = {Newest'.sequence} /\ insertions' > 0 /\ PresentsInFlight' # {}
      BY <1>1, <1>5
    <2>. QED
      BY <1>8, <2>1, <2>2 DEF InFlightIsNewest
  <1>11. Lifecycle'
    BY <1>7, <1>8 DEF FlowInv, Lifecycle
  <1>12. ScriptProgress'
    <2>1. \A d \in Destroys : d < n + 1
      BY <1>1, <1>5 DEF Destroys, MessagesOf, n
    <2>2. CASE scriptStep' = scriptStep
      <3>1. AtTheEnd' = AtTheEnd
        BY <2>2 DEF AtTheEnd
      <3>. QED
        BY <1>5, <1>7, <1>8, <2>1, <2>2, <3>1 DEF FlowInv, ScriptProgress
    <2>3. CASE ~AtTheEnd /\ scriptStep' # Len(Script) /\ scriptStep' <= Len(Script) /\ mode.script
      <3>1. ~AtTheEnd'
        BY <2>3 DEF AtTheEnd
      <3>. QED
        BY <1>7, <1>8, <2>3, <3>1 DEF FlowInv, ScriptProgress
    <2>. QED
      BY <2>2, <2>3
  <1>. QED
    BY <1>9, <1>10, <1>11, <1>12 DEF FlowInv

\* What the newest presentation is once one more is recorded.
LEMMA RecordedIsNewest ==
    ASSUME SessionInv, NEW p, RecordInHistory(p)
    PROVE  Newest' = p /\ insertions' = insertions + 1 /\ insertions + 1 > 0
  <1>1. insertions \in Nat /\ history \in [Slots -> Presentation] /\ Capacity \in Nat \ {0}
    BY CapacityAssumption DEF SessionInv, SessionTypeOK
  <1>2. insertions % Capacity \in Slots
    BY <1>1 DEF Slots
  <1>3. insertions' - 1 = insertions
    BY <1>1 DEF RecordInHistory
  <1>. QED
    BY <1>1, <1>2, <1>3 DEF RecordInHistory, Newest

\* An ACK that arrives is all that is in flight.
LEMMA AckTaken ==
    ASSUME TypeInv, FlowInv, Arrived({"WINDOW_PRESENT_ACK"}), Consume
    PROVE  /\ PresentsInFlight = {} /\ ~Queued /\ AcksInFlight = {1} /\ AcksInFlight' = {}
           /\ Creates = {}
           /\ Arrival.sequence = Newest.sequence /\ awaiting = {Newest.sequence}
           /\ helloReceived
  <1>1. /\ serverSocket = "open" /\ toServer # <<>> /\ toServer \in Seq(ToServerMessage)
        /\ Arrival = toServer[1] /\ toServer[1].type = "WINDOW_PRESENT_ACK"
        /\ toServer' = Tail(toServer)
    BY ServerReads DEF TypeInv, WireTypeOK, Consume
  <1>2. /\ \A i \in MessagesOf(toServer', "WINDOW_PRESENT_ACK") :
              i \in Nat \ {0} /\ i + 1 \in MessagesOf(toServer, "WINDOW_PRESENT_ACK")
        /\ 1 \in MessagesOf(toServer, "WINDOW_PRESENT_ACK")
    BY <1>1, Took
  <1>3. 1 \in AcksInFlight /\ \A i \in AcksInFlight' : i \in Nat \ {0} /\ i + 1 \in AcksInFlight
    BY <1>2 DEF AcksInFlight
  <1>4. AcksInFlight = {1} /\ AcksInFlight' = {}
    BY <1>3 DEF FlowInv, OnePlace
  <1>. QED
    BY <1>1, <1>4 DEF FlowInv, OnePlace, InFlightIsNewest, Lifecycle

LEMMA ServerAckKeepsFlow ==
    ASSUME TypeInv, TypeInv', FlowInv, ServerPresentAck, UNCHANGED <<mode, agentVars>>
    PROVE  FlowInv'
  <1>1. /\ Arrived({"WINDOW_PRESENT_ACK"}) /\ helloReceived /\ deferred' = {} /\ Consume
        /\ UNCHANGED helloReceived
    BY DEF ServerPresentAck
  <1>2. /\ PresentsInFlight = {} /\ ~Queued /\ AcksInFlight' = {} /\ AcksInFlight # {}
        /\ Creates = {} /\ serverSocket = "open" /\ UNCHANGED <<serverSocket, agentSocket>>
    BY <1>1, AckTaken DEF Consume, Arrived
  <1>3. /\ ~AtTheEnd /\ scriptStep \in Nat /\ SessionInv
        /\ toAgent \in Seq(ToAgentMessage)
    BY <1>2 DEF FlowInv, ScriptProgress, TypeInv, ServerTypeOK, WireTypeOK
  <1>4. Len(Script) \in Nat
    BY ScriptAssumption, LenProperties
  <1>5. /\ UNCHANGED <<agent, exitCode, pending, proxies>>
        /\ ProxyExists' = ProxyExists /\ Queued' = Queued
    BY DEF ProxyExists, Queued, agentVars, applicationVars
  <1>6. ASSUME NEW p \in Presentation, SendPresent(<<>>, p, nextSequence),
               \/ scriptStep' = scriptStep
               \/ scriptStep' # Len(Script) /\ scriptStep' <= Len(Script) /\ mode.script
        PROVE  FlowInv'
    <2>1. Newest' = p /\ insertions' = insertions + 1
      BY <1>3, <1>6, RecordedIsNewest DEF SendPresent
    <2>2. toAgent' = toAgent \o <<WindowPresent(FakeWindow, p)>> /\ awaiting' = {p.sequence}
      BY <1>3, <1>6, ConcatProperties DEF SendPresent
    <2>. QED
      BY <1>1, <1>2, <1>3, <1>6, <2>1, <2>2, PresentSent
  <1>7. CASE deferred = {} /\ ~mode.script
    <2>1. awaiting' = {} /\ UNCHANGED <<history, insertions, scriptStep, toAgent>>
      BY <1>7 DEF ServerPresentAck
    <2>2. /\ PresentsInFlight' = {} /\ Creates' = Creates /\ Destroys' = Destroys
          /\ AtTheEnd' = AtTheEnd
      BY <1>2, <2>1 DEF PresentsInFlight, Creates, Destroys, AtTheEnd
    <2>3. OnePlace'
      BY <1>2, <1>5, <2>2 DEF OnePlace
    <2>4. InFlightIsNewest'
      BY <1>1, <1>2, <1>5, <2>1, <2>2 DEF InFlightIsNewest, Queued
    <2>5. Lifecycle'
      BY <1>1, <1>2, <1>5, <2>2 DEF FlowInv, Lifecycle
    <2>6. ScriptProgress'
      BY <1>2, <1>3, <1>5, <2>1, <2>2 DEF FlowInv, ScriptProgress
    <2>. QED
      BY <2>3, <2>4, <2>5, <2>6 DEF FlowInv
  <1>8. CASE deferred # {}
    <2>1. \A p \in deferred : p \in Presentation
      BY DEF TypeInv, ServerTypeOK
    <2>2. PICK p \in deferred : SendPresent(<<>>, p, nextSequence) /\ scriptStep' = scriptStep
      BY <1>8 DEF ServerPresentAck
    <2>. QED
      BY <1>6, <2>1, <2>2
  <1>9. CASE deferred = {} /\ mode.script
    <2>1. scriptStep' = scriptStep + 1 /\ scriptStep < Len(Script)
      BY <1>1, <1>9, AckFindsTheScript DEF ServerPresentAck
    <2>2. CASE ScriptIsOver(scriptStep')
      <3>1. /\ awaiting' = {} /\ toAgent' = Append(toAgent, WindowDestroy(FakeWindow))
            /\ UNCHANGED <<history, insertions, nextSequence>> /\ scriptStep' = Len(Script)
        BY <1>9, <2>1, <2>2 DEF ServerPresentAck, ScriptIsOver, SendPresent
      <3>. DEFINE m == WindowDestroy(FakeWindow)
      <3>2. m \in ToAgentMessage /\ m.type = "WINDOW_DESTROY"
        BY DEF ToAgentMessage, WindowDestroy
      <3>3. toAgent' = toAgent \o <<m>> /\ <<m>> \in Seq(ToAgentMessage)
        BY <1>3, <3>1, <3>2, AppendIsConcat, ShortSequences
      <3>. HIDE DEF m
      <3>4. /\ MessagesOf(<<m>>, "WINDOW_PRESENT") = {} /\ MessagesOf(<<m>>, "WINDOW_CREATE") = {}
            /\ 1 \in MessagesOf(<<m>>, "WINDOW_DESTROY")
        BY <3>2, OneMessage
      <3>5. /\ Carries(toAgent', toAgent, "WINDOW_PRESENT", 0)
            /\ Carries(toAgent', toAgent, "WINDOW_CREATE", 0)
        BY <1>3, <3>3, <3>4, CarriedByConcat
      <3>6. PresentsInFlight' = {} /\ Creates' = {}
        BY <1>2, <3>5 DEF Carries, PresentsInFlight, Creates
      <3>7. Len(toAgent) + 1 \in Destroys'
        BY <1>3, <3>3, <3>4, Added DEF Destroys
      <3>8. AtTheEnd'
        BY <1>9, <3>1 DEF AtTheEnd
      <3>9. OnePlace'
        BY <1>2, <1>5, <3>6 DEF OnePlace
      <3>10. InFlightIsNewest'
        BY <1>1, <1>2, <1>5, <3>1, <3>6 DEF InFlightIsNewest, Queued
      <3>11. Lifecycle'
        BY <1>1, <1>2, <1>5, <3>6 DEF FlowInv, Lifecycle
      <3>12. ScriptProgress'
        BY <1>2, <1>4, <1>5, <1>9, <3>1, <3>6, <3>7, <3>8 DEF ScriptProgress
      <3>. QED
        BY <3>9, <3>10, <3>11, <3>12 DEF FlowInv
    <2>3. CASE ~ScriptIsOver(scriptStep')
      <3>1. SendPresent(<<>>, Script[scriptStep' + 1], nextSequence)
        BY <1>9, <2>3 DEF ServerPresentAck
      <3>2. Script[scriptStep' + 1] \in Presentation
        BY <1>1, <1>3, <1>9, <2>1, <2>3, AckFindsTheScript DEF ScriptIsOver
      <3>3. scriptStep' # Len(Script) /\ scriptStep' <= Len(Script)
        BY <1>3, <1>4, <2>1, <2>3 DEF ScriptIsOver
      <3>. QED
        BY <1>6, <1>9, <3>1, <3>2, <3>3
    <2>. QED
      BY <2>2, <2>3
  <1>. QED
    BY <1>7, <1>8, <1>9

LEMMA CloseKeepsFlow ==
    ASSUME TypeInv, FlowInv, CloseConnection, UNCHANGED <<mode, agentVars>>
    PROVE  FlowInv'
  <1>1. /\ serverSocket' = "closed" /\ toServer' = <<>> /\ insertions' = 0
        /\ UNCHANGED <<toAgent, agentSocket, serverVars, agentVars>>
    BY DEF CloseConnection, HandleDisconnect
  <1>2. AcksInFlight' = {}
    BY <1>1 DEF AcksInFlight, MessagesOf
  <1>3. /\ PresentsInFlight' = PresentsInFlight /\ Creates' = Creates /\ Destroys' = Destroys
        /\ Queued' = Queued /\ ProxyExists' = ProxyExists /\ AtTheEnd' = AtTheEnd
        /\ UNCHANGED <<agent, exitCode, scriptStep, helloReceived, awaiting, deferred>>
    BY <1>1 DEF PresentsInFlight, Creates, Destroys, Queued, ProxyExists, AtTheEnd, serverVars,
                agentVars, applicationVars
  <1>4. OnePlace'
    BY <1>2, <1>3 DEF FlowInv, OnePlace
  <1>5. InFlightIsNewest'
    BY <1>1 DEF InFlightIsNewest
  <1>6. Lifecycle'
    BY <1>1, <1>2, <1>3 DEF FlowInv, Lifecycle
  <1>7. ScriptProgress'
    BY <1>1, <1>3 DEF FlowInv, ScriptProgress
  <1>. QED
    BY <1>4, <1>5, <1>6, <1>7 DEF FlowInv

\* The greeting is all there is in the stream to the agent.
LEMMA GreetingSent ==
    ASSUME TypeInv, FlowInv, ServerHello
    PROVE  /\ toAgent = <<>> /\ ~ProxyExists /\ ~Queued /\ AcksInFlight = {} /\ DOMAIN pending = {}
           /\ deferred = {} /\ scriptStep = 0 /\ insertions = 0
           /\ \E p \in Presentation :
                 /\ Newest' = p /\ insertions' = 1 /\ awaiting' = {p.sequence}
                 /\ toAgent'[5] = WindowPresent(FakeWindow, p)
           /\ PresentsInFlight' = {5} /\ Creates' = {3} /\ Destroys' = {}
           /\ Configs' = {2} /\ Frames' = {4} /\ toAgent'[4] = Frame({})
  <1>1. /\ Arrived({"HELLO"}) /\ ~helloReceived /\ helloReceived' = TRUE /\ Consume
    BY DEF ServerHello
  <1>2. /\ SessionInv /\ ServerTypeOK /\ nextSequence = 1 /\ insertions \in Nat
    BY <1>1 DEF TypeInv, ServerTypeOK, SessionInv, SessionTypeOK
  <1>3. /\ toAgent = <<>> /\ ~ProxyExists /\ ~Queued /\ AcksInFlight = {} /\ DOMAIN pending = {}
        /\ deferred = {} /\ scriptStep = 0 /\ insertions = 0
    BY <1>1 DEF FlowInv, Lifecycle, Queued
  <1>4. \E p \in Presentation : \E next \in Nat : SendPresent(Greeting, p, next)
    <2>1. FirstSequence + 1 \in Nat /\ nextSequence \in Nat
      BY <1>2, FirstPresentation, ScriptAssumption, MaxSequenceAssumption
    <2>. QED
      BY <1>2, <2>1, FirstPresentation, Zenon DEF ServerHello
  <1>5. PICK p \in Presentation, next \in Nat : SendPresent(Greeting, p, next)
    BY <1>4
  <1>6. Newest' = p /\ insertions' = 1 /\ awaiting' = {p.sequence}
    BY <1>2, <1>3, <1>5, RecordedIsNewest DEF SendPresent
  <1>. DEFINE a == HelloAck  b == OutputConfig(OneToOne)
              c == WindowCreate(FakeWindow, 0, InitialWindow.w, InitialWindow.h)
              d == Frame({})  e == WindowPresent(FakeWindow, p)
  <1>7. /\ DOMAIN toAgent' = 1 .. 5
        /\ toAgent'[1] = a /\ toAgent'[2] = b /\ toAgent'[3] = c /\ toAgent'[4] = d
        /\ toAgent'[5] = e
    <2>. DEFINE g == Greeting  u == <<e>>
    <2>1. toAgent' = g \o u
      <3>1. toAgent' = <<>> \o g \o u
        BY <1>3, <1>5 DEF SendPresent
      <3>2. <<>> \o g = g
        BY GreetingTypes, ConcatProperties
      <3>. QED
        BY <3>1, <3>2
    <2>2. g = <<a, b, c, d>>
      BY DEF Greeting
    <2>3. e \in ToAgentMessage
      BY DEF ToAgentMessage
    <2>. HIDE DEF a, b, c, d, e
    <2>4. /\ Len(g) = 4 /\ g[1] = a /\ g[2] = b /\ g[3] = c /\ g[4] = d
          /\ Len(u) = 1 /\ u[1] = e
      BY <2>2
    <2>5. g \in Seq(ToAgentMessage) /\ u \in Seq(ToAgentMessage)
      BY <2>3, GreetingTypes, ShortSequences
    <2>. HIDE DEF g, u
    <2>6. /\ DOMAIN (g \o u) = 1 .. 5
          /\ \A i \in 1 .. 4 : (g \o u)[i] = g[i]
          /\ (g \o u)[4 + 1] = u[1]
      <3>1. /\ DOMAIN (g \o u) = 1 .. Len(g) + Len(u)
            /\ \A i \in 1 .. Len(g) : (g \o u)[i] = g[i]
            /\ \A i \in 1 .. Len(u) : (g \o u)[Len(g) + i] = u[i]
        BY <2>5, AConcat
      <3>. QED
        BY <2>4, <3>1
    <2>. QED
      BY <2>1, <2>4, <2>6
  <1>8. /\ a.type = "HELLO_ACK" /\ b.type = "OUTPUT_CONFIG" /\ c.type = "WINDOW_CREATE"
        /\ d.type = "WINDOW_FRAME" /\ e.type = "WINDOW_PRESENT" /\ e.presentation = p
    BY DEF HelloAck, OutputConfig, WindowCreate, Frame, WindowFrame, WindowPresent
  <1>. HIDE DEF a, b, c, d, e
  <1>9. /\ PresentsInFlight' = {5} /\ Creates' = {3} /\ Destroys' = {}
        /\ Configs' = {2} /\ Frames' = {4}
    BY <1>7, <1>8 DEF PresentsInFlight, Creates, Destroys, Configs, Frames, MessagesOf
  <1>. QED
    BY <1>3, <1>6, <1>7, <1>9 DEF d, e

LEMMA ServerHelloKeepsFlow ==
    ASSUME TypeInv, TypeInv', FlowInv, ServerHello, UNCHANGED <<mode, agentVars>>
    PROVE  FlowInv'
  <1>1. /\ Arrived({"HELLO"}) /\ ~helloReceived /\ helloReceived' = TRUE /\ Consume
        /\ UNCHANGED <<deferred, scriptStep>>
    BY DEF ServerHello
  <1>2. toServer \in Seq(ToServerMessage)
    BY DEF TypeInv, WireTypeOK
  <1>3. /\ toAgent = <<>> /\ ~ProxyExists /\ ~Queued /\ AcksInFlight = {} /\ DOMAIN pending = {}
        /\ deferred = {} /\ scriptStep = 0 /\ insertions = 0
    BY GreetingSent
  <1>4. /\ insertions' > 0 /\ awaiting' = {Newest'.sequence} /\ toAgent'[5].presentation = Newest'
    <2>1. PICK p \in Presentation : /\ Newest' = p /\ insertions' = 1 /\ awaiting' = {p.sequence}
                                    /\ toAgent'[5] = WindowPresent(FakeWindow, p)
      BY GreetingSent
    <2>. QED
      BY <2>1 DEF WindowPresent
  <1>5. /\ PresentsInFlight' = {5} /\ Creates' = {3} /\ Destroys' = {}
    BY GreetingSent
  <1>6. AcksInFlight' = {}
    <2>1. Carries(toServer', toServer, "WINDOW_PRESENT_ACK", 1)
      <3>1. toServer # <<>> /\ toServer[1].type # "WINDOW_PRESENT_ACK"
        BY <1>1, ServerReads
      <3>. QED
        BY <1>1, <1>2, <3>1, CarriedByTail DEF Consume
    <2>. QED
      BY <1>3, <2>1 DEF Carries, AcksInFlight
  <1>7. /\ UNCHANGED <<agent, exitCode, pending, proxies, serverSocket, agentSocket>>
         /\ ProxyExists' = ProxyExists /\ Queued' = Queued
    BY <1>1 DEF ProxyExists, Queued, agentVars, applicationVars, Consume
  <1>8. ~AtTheEnd /\ ~AtTheEnd' /\ Len(Script) > 0
    <2>1. Len(Script) > 0
      BY ScriptAssumption
    <2>. QED
      BY <1>1, <1>3, <2>1 DEF AtTheEnd
  <1>9. OnePlace'
    BY <1>3, <1>5, <1>6, <1>7 DEF OnePlace
  <1>10. InFlightIsNewest'
    BY <1>1, <1>3, <1>4, <1>5, <1>6, <1>7 DEF InFlightIsNewest
  <1>11. Lifecycle'
    <2>1. agent # "running" => agentSocket = "closed"
      BY <1>8 DEF FlowInv, Lifecycle, ScriptProgress, TypeInv, AgentTypeOK
    <2>. QED
      BY <1>1, <1>3, <1>5, <1>6, <1>7, <2>1 DEF FlowInv, Lifecycle
  <1>12. ScriptProgress'
    BY <1>1, <1>5, <1>7, <1>8 DEF FlowInv, ScriptProgress
  <1>. QED
    BY <1>9, <1>10, <1>11, <1>12 DEF FlowInv

LEMMA ServerMotionSendsKeepsFlow ==
    ASSUME TypeInv, TypeInv', FlowInv, Arrived({"POINTER_MOTION"}), helloReceived, Consume,
           ~Waits, NEW p \in Presentation, NEW next, SendPresent(<<>>, p, next),
           UNCHANGED <<mode, agentVars, helloReceived, scriptStep, deferred>>
    PROVE  FlowInv'
  <1>1. serverSocket = "open" /\ toServer # <<>> /\ toServer[1].type # "WINDOW_PRESENT_ACK"
    BY ServerReads
  <1>2. toServer \in Seq(ToServerMessage) /\ toAgent \in Seq(ToAgentMessage) /\ SessionInv
    BY DEF TypeInv, WireTypeOK
  <1>3. PresentsInFlight = {} /\ ~Queued /\ AcksInFlight = {}
    BY <1>1 DEF FlowInv, InFlightIsNewest, Waits
  <1>4. AcksInFlight' = {}
    <2>1. Carries(toServer', toServer, "WINDOW_PRESENT_ACK", 1)
      BY <1>1, <1>2, CarriedByTail DEF Consume
    <2>. QED
      BY <1>3, <2>1 DEF Carries, AcksInFlight
  <1>5. Newest' = p /\ insertions' = insertions + 1
    BY <1>2, RecordedIsNewest DEF SendPresent
  <1>6. toAgent' = toAgent \o <<WindowPresent(FakeWindow, p)>> /\ awaiting' = {p.sequence}
    BY <1>2, ConcatProperties DEF SendPresent
  <1>. QED
    BY <1>1, <1>3, <1>4, <1>5, <1>6, PresentSent DEF Consume

LEMMA ServerKeepsFlow ==
    ASSUME TypeInv, TypeInv', FlowInv, ServerStep
    PROVE  FlowInv'
  <1>1. ServerHandles /\ UNCHANGED <<mode, agentVars>>
    BY DEF ServerStep, ServerNext
  <1>l. ASSUME ServerPointerLocation \/ ServerKeyboard \/ ServerCaptureLost PROVE FlowInv'
    <2>1. /\ \E types : Arrived(types) /\ "WINDOW_PRESENT_ACK" \notin types
          /\ helloReceived /\ Consume
          /\ UNCHANGED <<toAgent, history, insertions, awaiting, scriptStep, helloReceived, deferred>>
      BY <1>l DEF ServerPointerLocation, ServerKeyboard, ServerCaptureLost, sessionVars, serverVars,
                  LocationOnlyTypes, KeyboardTypes
    <2>. QED
      BY <1>1, <2>1, ServerQuietKeepsFlow
  <1>b. ASSUME ServerPointerButton PROVE FlowInv'
    <2>1. /\ Arrived({"POINTER_BUTTON"}) /\ helloReceived /\ Consume
          /\ UNCHANGED <<history, insertions, awaiting, scriptStep, helloReceived, deferred>>
          /\ toAgent' = toAgent \/ toAgent' = Append(toAgent, Frame(crosshairs'))
      BY <1>b DEF ServerPointerButton
    <2>2. crosshairs' \in SUBSET Point
      BY DEF TypeInv, ServerTypeOK
    <2>. QED
      BY <1>1, <2>1, <2>2, ServerQuietKeepsFlow
  <1>m. ASSUME ServerPointerMotion PROVE FlowInv'
    <2>. DEFINE l == Arrival.location
    <2>1. /\ Arrived({"POINTER_MOTION"}) /\ helloReceived /\ Consume
          /\ UNCHANGED <<helloReceived, scriptStep>>
      BY <1>m DEF ServerPointerMotion
    <2>2. l \in Location
      BY <2>1, ServerReads, ToServerKinds DEF PointerTypes
    <2>. HIDE DEF l
    <2>3. \A p \in Generated(l) : p \in Presentation
      BY <2>2, MovesAndGenerated DEF TypeInv
    <2>4. ASSUME UNCHANGED <<history, insertions, awaiting, toAgent>>,
                 deferred' # {} => deferred # {} \/ awaiting # {}
          PROVE  FlowInv'
      BY <1>1, <2>1, <2>4, ServerQuietKeepsFlow
    <2>5. ASSUME NEW p \in Generated(l), ~Waits, SendPresent(<<>>, p, nextSequence + 1),
                 UNCHANGED deferred
          PROVE  FlowInv'
      BY <1>1, <2>1, <2>3, <2>5, ServerMotionSendsKeepsFlow
    <2>6. \/ UNCHANGED <<history, insertions, awaiting, toAgent>> /\ (deferred' # {} => deferred # {} \/ awaiting # {})
          \/ \E p \in Generated(l) : ~Waits /\ SendPresent(<<>>, p, nextSequence + 1) /\ UNCHANGED deferred
      BY <1>m DEF ServerPointerMotion, Waits, l
    <2>. QED
      BY <2>4, <2>5, <2>6
  <1>x. CloseConnection => FlowInv'
    BY <1>1, CloseKeepsFlow
  <1>. QED
    BY <1>1, <1>l, <1>b, <1>m, <1>x, ServerHelloKeepsFlow, ServerAckKeepsFlow
       DEF ServerHandles, ServerRejectsAck, ServerRejectsMotion, ServerRejectsMessage, ServerPeerGone

\* The agent takes a message and says nothing of the flow.
LEMMA AgentTakes ==
    ASSUME TypeInv, FlowInv, NEW type, AgentArrived(type),
           NEW messages \in Seq(ToServerMessage), Answer(messages),
           MessagesOf(messages, "WINDOW_PRESENT_ACK") = {}
    PROVE  /\ Carries(toServer', toServer, "WINDOW_PRESENT_ACK", 0)
           /\ \A t \in FlowTypes : t # type => Carries(toAgent', toAgent, t, 1)
           /\ AcksInFlight' = {} <=> AcksInFlight = {}
           /\ 1 \in MessagesOf(toAgent, type)
           /\ \A i \in MessagesOf(toAgent', type) :
                 i \in Nat \ {0} /\ i + 1 \in MessagesOf(toAgent, type)
           /\ helloReceived /\ agentSocket = "open" /\ UNCHANGED <<serverSocket, agentSocket>>
  <1>1. /\ toAgent # <<>> /\ toAgent \in Seq(ToAgentMessage) /\ toAgent[1].type = type
        /\ toAgent' = Tail(toAgent) /\ toServer' = Sent(messages)
        /\ agentSocket = "open" /\ UNCHANGED <<serverSocket, agentSocket>>
    BY AgentReads DEF TypeInv, WireTypeOK, Answer
  <1>2. Carries(toServer', toServer, "WINDOW_PRESENT_ACK", 0)
    BY <1>1, SentCarries
  <1>3. \A t \in FlowTypes : t # type => Carries(toAgent', toAgent, t, 1)
    BY <1>1, CarriedByTail
  <1>4. AcksInFlight' = {} <=> AcksInFlight = {}
    BY <1>2 DEF Carries, AcksInFlight
  <1>5. /\ 1 \in MessagesOf(toAgent, type)
        /\ \A i \in MessagesOf(toAgent', type) :
              i \in Nat \ {0} /\ i + 1 \in MessagesOf(toAgent, type)
    BY <1>1, Took
  <1>6. helloReceived
    BY <1>1 DEF FlowInv, Lifecycle
  <1>. QED
    BY <1>1, <1>2, <1>3, <1>4, <1>5, <1>6

LEMMA SilenceIsNoAck ==
    MessagesOf(<<>>, "WINDOW_PRESENT_ACK") = {} /\ <<>> \in Seq(ToServerMessage)
  BY ShortSequences DEF MessagesOf

LEMMA AgentQuietKeepsFlow ==
    ASSUME TypeInv, FlowInv, UNCHANGED linuxVars,
           ReceiveHelloAck \/ ReceiveOutputConfig \/ ReceiveFrame
    PROVE  FlowInv'
  <1>1. PICK type \in {"HELLO_ACK", "OUTPUT_CONFIG", "WINDOW_FRAME"} :
           AgentArrived(type) /\ Answer(<<>>)
    BY DEF ReceiveHelloAck, ReceiveOutputConfig, ReceiveFrame
  <1>2. \A t \in FlowTypes : t # type
    BY DEF FlowTypes
  <1>3. /\ Carries(toServer', toServer, "WINDOW_PRESENT_ACK", 0)
        /\ \A t \in FlowTypes : Carries(toAgent', toAgent, t, 1)
        /\ helloReceived /\ UNCHANGED <<serverSocket, agentSocket>>
    BY <1>1, <1>2, AgentTakes, SilenceIsNoAck
  <1>4. /\ UNCHANGED <<pending, agent, exitCode>>
        /\ DOMAIN proxies' = DOMAIN proxies
    <2>1. AgentTypeOK
      BY DEF TypeInv
    <2>. QED
      BY <2>1 DEF ReceiveHelloAck, ReceiveOutputConfig, ReceiveFrame, agentVars, applicationVars
  <1>. QED
    BY <1>3, <1>4, QuietStep DEF linuxVars, sessionVars, serverVars

\* What the session and the server's own state say of the flow is not the
\* agent's to change.
LEMMA LinuxUntouched ==
    ASSUME UNCHANGED linuxVars
    PROVE  /\ Newest' = Newest /\ AtTheEnd' = AtTheEnd
           /\ UNCHANGED <<mode, insertions, history, awaiting, deferred, scriptStep, helloReceived>>
  BY DEF linuxVars, sessionVars, serverVars, Newest, AtTheEnd

LEMMA CreateKeepsFlow ==
    ASSUME TypeInv, FlowInv, UNCHANGED linuxVars, ReceiveCreate
    PROVE  FlowInv'
  <1>1. AgentArrived("WINDOW_CREATE") /\ Answer(<<>>) /\ UNCHANGED applicationVars
    BY DEF ReceiveCreate
  <1>2. /\ Carries(toServer', toServer, "WINDOW_PRESENT_ACK", 0)
        /\ Carries(toAgent', toAgent, "WINDOW_PRESENT", 1)
        /\ Carries(toAgent', toAgent, "WINDOW_DESTROY", 1)
        /\ 1 \in Creates /\ \A i \in Creates' : i \in Nat \ {0} /\ i + 1 \in Creates
        /\ helloReceived /\ agentSocket = "open" /\ UNCHANGED <<serverSocket, agentSocket>>
    BY <1>1, AgentTakes, SilenceIsNoAck DEF FlowTypes, Creates
  <1>3. Creates' = {}
    BY <1>2 DEF FlowInv, Lifecycle
  <1>4. /\ \A i \in PresentsInFlight' : i + 1 \in PresentsInFlight /\ toAgent'[i] = toAgent[i + 1]
                                        /\ i \in Int
        /\ \A i \in PresentsInFlight : i - 1 \in PresentsInFlight'
        /\ Destroys' = {}
        /\ AcksInFlight = {} /\ AcksInFlight' = {}
    BY <1>2 DEF FlowInv, Lifecycle, Carries, PresentsInFlight, Destroys, AcksInFlight
  <1>5. /\ Queued' = Queued /\ ~Queued /\ ~ProxyExists /\ agent' = agent /\ exitCode' = exitCode
        /\ pending' = pending /\ agent = "running" /\ exitCode # "failure"
    BY <1>1, <1>2 DEF FlowInv, Lifecycle, Queued, applicationVars
  <1>6. OnePlace'
    BY <1>4, <1>5 DEF FlowInv, OnePlace
  <1>7. InFlightIsNewest'
    BY <1>2, <1>4, <1>5, LinuxUntouched DEF FlowInv, InFlightIsNewest, Queued
  <1>8. Lifecycle'
    BY <1>2, <1>3, <1>4, <1>5, LinuxUntouched DEF FlowInv, Lifecycle
  <1>9. ScriptProgress'
    BY <1>2, <1>4, <1>5, LinuxUntouched DEF FlowInv, ScriptProgress
  <1>. QED
    BY <1>6, <1>7, <1>8, <1>9 DEF FlowInv

LEMMA PresentKeepsFlow ==
    ASSUME TypeInv, FlowInv, UNCHANGED linuxVars, ReceivePresent
    PROVE  FlowInv'
  <1>1. /\ AgentArrived("WINDOW_PRESENT") /\ Answer(<<>>)
        /\ AgentArrival.id \in DOMAIN proxies
        /\ pending' = KeepNewest(AgentArrival.id, AgentArrival.presentation)
        /\ UNCHANGED <<agent, exitCode, proxies>>
    BY DEF ReceivePresent
  <1>2. /\ Carries(toServer', toServer, "WINDOW_PRESENT_ACK", 0)
        /\ Carries(toAgent', toAgent, "WINDOW_CREATE", 1)
        /\ Carries(toAgent', toAgent, "WINDOW_DESTROY", 1)
        /\ AcksInFlight' = {} <=> AcksInFlight = {}
        /\ 1 \in PresentsInFlight
        /\ \A i \in PresentsInFlight' : i \in Nat \ {0} /\ i + 1 \in PresentsInFlight
        /\ helloReceived /\ agentSocket = "open" /\ UNCHANGED <<serverSocket, agentSocket>>
    BY <1>1, AgentTakes, SilenceIsNoAck DEF FlowTypes, PresentsInFlight
  <1>3. PresentsInFlight' = {}
    BY <1>2 DEF FlowInv, OnePlace
  <1>4. /\ ProxyExists /\ ProxyExists' = ProxyExists /\ ~Queued /\ AcksInFlight = {} /\ AcksInFlight' = {}
        /\ Creates' = {} /\ (Destroys' # {} => Destroys # {})
        /\ agent = "running"
    BY <1>1, <1>2 DEF FlowInv, OnePlace, Lifecycle, ProxyExists, Carries, Creates, Destroys
  <1>5. /\ DOMAIN pending' = {AgentArrival.id} /\ Queued'
        /\ pending'[AgentArrival.id] = toAgent[1].presentation
    BY <1>1, <1>4, AgentReads DEF KeepNewest, Queued
  <1>6. ~(serverSocket = "open" /\ AtTheEnd)
    <2>1. \A d \in Destroys : d \in Nat \ {0}
      BY LenProperties DEF Destroys, MessagesOf, TypeInv, WireTypeOK
    <2>. QED
      BY <1>2, <1>4, <2>1 DEF FlowInv, ScriptProgress
  <1>7. OnePlace'
    BY <1>3, <1>4 DEF OnePlace
  <1>8. InFlightIsNewest'
    BY <1>2, <1>3, <1>4, <1>5, LinuxUntouched DEF FlowInv, InFlightIsNewest
  <1>9. Lifecycle'
    BY <1>1, <1>2, <1>4, LinuxUntouched DEF FlowInv, Lifecycle
  <1>10. ScriptProgress'
    BY <1>1, <1>2, <1>4, <1>6, LinuxUntouched DEF FlowInv, ScriptProgress
  <1>. QED
    BY <1>7, <1>8, <1>9, <1>10 DEF FlowInv

\* What the agent says when its window is destroyed.
LEMMA DestroySpeaks ==
    ASSUME TypeInv, ReceiveDestroy, NEW locations
    PROVE  /\ \E messages \in Seq(InputOf(locations)) : Answer(messages)
           /\ DOMAIN proxies = {AgentArrival.id} /\ DOMAIN proxies' = {} /\ DOMAIN pending' = {}
  <1>. DEFINE id == AgentArrival.id
  <1>1. id \in DOMAIN proxies /\ capture \subseteq {id} /\ DOMAIN proxies \subseteq {id}
    BY DEF ReceiveDestroy, TypeInv, AgentTypeOK
  <1>2. AgentTypeOK
    BY DEF TypeInv
  <1>3. \A ids : CaptureLostBy(ids) \in Seq(InputOf(locations))
    <2>1. \A ids : capture \cap ids # {} => (CHOOSE i \in capture : TRUE) = id
      BY <1>1
    <2>2. LoseCapture(id) \in Seq(InputOf(locations)) /\ <<>> \in Seq(InputOf(locations))
      BY <1>1, <1>2, FocusSpeaks, ShortSequences
    <2>. QED
      BY <2>1, <2>2 DEF CaptureLostBy
  <1>4. LoseFocus(id) \in Seq(InputOf(locations))
    BY <1>1, <1>2, FocusSpeaks
  <1>5. CaptureLostBy({id}) \o LoseFocus(id) \o CaptureLostBy(OwnedBy(id)) \in Seq(InputOf(locations))
    BY <1>3, <1>4, ConcatProperties
  <1>6. Answer(CaptureLostBy({id}) \o LoseFocus(id) \o CaptureLostBy(OwnedBy(id)))
    BY DEF ReceiveDestroy
  <1>7. proxies' = WithoutWindow(id) /\ DOMAIN WithoutWindow(id) = DOMAIN proxies \ {id}
    <2>1. proxies' = WithoutWindow(id)
      BY DEF ReceiveDestroy
    <2>2. DOMAIN WithoutWindow(id) = DOMAIN proxies \ {id}
      BY DEF WithoutWindow
    <2>. QED
      BY <2>1, <2>2
  <1>8. pending' = Without(pending, id) /\ DOMAIN pending \subseteq {id}
    BY DEF ReceiveDestroy, TypeInv, AgentTypeOK
  <1>9. DOMAIN Without(pending, id) = DOMAIN pending \ {id}
    BY DEF Without
  <1>. QED
    BY <1>1, <1>5, <1>6, <1>7, <1>8, <1>9

LEMMA DestroyKeepsFlow ==
    ASSUME TypeInv, TypeInv', FlowInv, UNCHANGED linuxVars, ReceiveDestroy
    PROVE  FlowInv'
  <1>. DEFINE id == AgentArrival.id
  <1>1. /\ AgentArrived("WINDOW_DESTROY") /\ id \in DOMAIN proxies
        /\ DOMAIN proxies' = DOMAIN proxies \ {id} /\ DOMAIN pending' = DOMAIN pending \ {id}
        /\ agent' = IF DOMAIN proxies = {id} THEN "quitting" ELSE agent
        /\ UNCHANGED exitCode
        /\ \E messages \in Seq(InputOf(LocationsNow)) : Answer(messages)
    <2>1. /\ AgentArrived("WINDOW_DESTROY") /\ id \in DOMAIN proxies
          /\ proxies' = WithoutWindow(id) /\ pending' = Without(pending, id)
          /\ agent' = IF DOMAIN proxies = {id} THEN "quitting" ELSE agent
          /\ UNCHANGED exitCode
      BY DEF ReceiveDestroy
    <2>2. /\ DOMAIN WithoutWindow(id) = DOMAIN proxies \ {id}
          /\ DOMAIN Without(pending, id) = DOMAIN pending \ {id}
      BY DEF WithoutWindow, Without
    <2>. QED
      BY <2>1, <2>2, DestroySpeaks
  <1>2. PICK messages \in Seq(InputOf(LocationsNow)) : Answer(messages)
    BY <1>1
  <1>3. messages \in Seq(ToServerMessage) /\ MessagesOf(messages, "WINDOW_PRESENT_ACK") = {}
    BY InputIsSent, InputIsNoAck
  <1>4. /\ Carries(toServer', toServer, "WINDOW_PRESENT_ACK", 0)
        /\ Carries(toAgent', toAgent, "WINDOW_PRESENT", 1)
        /\ Carries(toAgent', toAgent, "WINDOW_CREATE", 1)
        /\ 1 \in Destroys
        /\ helloReceived /\ agentSocket = "open" /\ UNCHANGED <<serverSocket, agentSocket>>
    BY <1>1, <1>2, <1>3, AgentTakes DEF FlowTypes, Destroys
  <1>5. /\ ~ProxyExists' /\ DOMAIN pending' = {} /\ ~Queued' /\ agent' = "quitting"
    BY <1>1 DEF TypeInv, AgentTypeOK, ProxyExists, Queued
  <1>6. AtTheEnd /\ Creates = {} /\ exitCode # "failure"
    BY <1>4 DEF FlowInv, ScriptProgress, Lifecycle
  <1>7. /\ \A i \in PresentsInFlight' : i + 1 \in PresentsInFlight /\ toAgent'[i] = toAgent[i + 1]
                                        /\ i \in Int
        /\ \A i \in PresentsInFlight : i - 1 \in PresentsInFlight'
        /\ Creates' = {}
        /\ \A i \in AcksInFlight' : i + 0 \in AcksInFlight /\ i \in Int /\ toServer'[i] = toServer[i + 0]
    BY <1>4, <1>6 DEF Carries, PresentsInFlight, AcksInFlight, Creates
  <1>8. OnePlace'
    BY <1>5, <1>7 DEF FlowInv, OnePlace
  <1>9. InFlightIsNewest'
    <2>. SUFFICES ASSUME serverSocket = "open" PROVE InFlightIsNewest'
      BY <1>4 DEF InFlightIsNewest
    <2>1. AcksInFlight = {} /\ ~Queued
      BY <1>6 DEF FlowInv, ScriptProgress
    <2>2. AcksInFlight' = {}
      BY <1>7, <2>1
    <2>. QED
      BY <1>4, <1>5, <1>7, <2>1, <2>2, LinuxUntouched DEF FlowInv, InFlightIsNewest
  <1>10. Lifecycle'
    BY <1>1, <1>4, <1>5, <1>6, <1>7, LinuxUntouched DEF FlowInv, Lifecycle
  <1>11. ScriptProgress'
    BY <1>1, <1>4, <1>5, <1>6, <1>7, LinuxUntouched DEF FlowInv, ScriptProgress
  <1>. QED
    BY <1>8, <1>9, <1>10, <1>11 DEF FlowInv

LEMMA DispatchKeepsFlow ==
    ASSUME TypeInv, FlowInv, UNCHANGED linuxVars, DispatchPresents
    PROVE  FlowInv'
  <1>1. /\ AgentTypeOK /\ WireTypeOK /\ toServer \in Seq(ToServerMessage)
        /\ DOMAIN pending \subseteq {FakeWindow} /\ DOMAIN proxies \subseteq {FakeWindow}
    BY DEF TypeInv, AgentTypeOK, WireTypeOK
  <1>2. /\ DOMAIN proxies' = DOMAIN proxies /\ DOMAIN pending' = {}
        /\ UNCHANGED <<agent, exitCode, toAgent, serverSocket, agentSocket>>
        /\ \E order \in SetToSeqs(Ready) : toServer' = Sent(Acks(order))
    BY DEF DispatchPresents, Empty, Send
  <1>3. /\ PresentsInFlight' = PresentsInFlight /\ Creates' = Creates /\ Destroys' = Destroys
        /\ ~Queued' /\ ProxyExists' = ProxyExists
    BY <1>2 DEF PresentsInFlight, Creates, Destroys, Queued, ProxyExists
  <1>4. CASE ~Queued
    <2>1. Ready = {} /\ DOMAIN pending = {}
      BY <1>4 DEF Ready, Queued
    <2>2. Carries(toServer', toServer, "WINDOW_PRESENT_ACK", 0)
      BY <1>2, <2>1, DispatchSpeaks, SilenceIsNoAck, SentCarries
    <2>3. \A type \in FlowTypes : Carries(toAgent', toAgent, type, 0)
      BY <1>1, <1>2, CarriedBySame DEF WireTypeOK
    <2>4. ~helloReceived => deferred' = {}
      BY LinuxUntouched DEF FlowInv, Lifecycle
    <2>. QED
      BY <1>2, <2>1, <2>2, <2>3, <2>4, LinuxUntouched, QuietStep
  <1>5. CASE Queued
    <2>1. /\ ProxyExists /\ DOMAIN pending = {FakeWindow} /\ Ready = {FakeWindow}
          /\ PresentsInFlight = {} /\ AcksInFlight = {} /\ Creates = {} /\ helloReceived
          /\ agent = "running" /\ agentSocket = "open"
          /\ ~(serverSocket = "open" /\ AtTheEnd)
      BY <1>1, <1>5 DEF FlowInv, OnePlace, Lifecycle, ScriptProgress, ProxyExists, Queued, Ready,
                        WireTypeOK
    <2>. DEFINE ack == PresentAck(FakeWindow, pending[FakeWindow].sequence)  u == <<ack>>
    <2>2. toServer' = Sent(u) /\ ack \in ToServerMessage
      BY <1>2, <2>1, DispatchSpeaks
    <2>3. /\ u \in Seq(ToServerMessage) /\ u[1] = ack /\ ack.type = "WINDOW_PRESENT_ACK"
          /\ ack.sequence = pending[FakeWindow].sequence
      BY <2>2, ShortSequences DEF PresentAck
    <2>4. MessagesOf(u, "WINDOW_PRESENT_ACK") = {1}
      BY <2>3, OneMessage
    <2>5. MessagesOf(toServer, "WINDOW_PRESENT_ACK") = {}
      BY <2>1 DEF AcksInFlight
    <2>. HIDE DEF ack, u
    <2>6. CASE serverSocket = "open"
      <3>1. toServer' = toServer \o u
        BY <2>1, <2>2, <2>6 DEF Sent
      <3>. DEFINE n == Len(toServer)
      <3>2. /\ n \in Nat
            /\ \A i \in MessagesOf(u, "WINDOW_PRESENT_ACK") :
                  /\ n + i \in MessagesOf(toServer \o u, "WINDOW_PRESENT_ACK")
                  /\ (toServer \o u)[n + i] = u[i]
            /\ \A i \in MessagesOf(toServer \o u, "WINDOW_PRESENT_ACK") :
                  \/ i \in MessagesOf(toServer, "WINDOW_PRESENT_ACK")
                  \/ i - n \in MessagesOf(u, "WINDOW_PRESENT_ACK") /\ i = n + (i - n)
        BY <1>1, <2>3, Added
      <3>. HIDE DEF n
      <3>3. /\ n + 1 \in AcksInFlight' /\ toServer'[n + 1] = ack
            /\ \A i \in AcksInFlight' : i - n = 1 /\ i = n + (i - n)
        BY <2>3, <2>4, <2>5, <3>1, <3>2, Zenon DEF AcksInFlight
      <3>4. AcksInFlight' = {n + 1}
        BY <3>2, <3>3
      <3>5. OnePlace'
        BY <1>3, <2>1, <3>4 DEF OnePlace
      <3>6. InFlightIsNewest'
        BY <1>2, <1>3, <2>1, <2>3, <2>6, <3>3, <3>4, <1>5, LinuxUntouched DEF FlowInv, InFlightIsNewest
      <3>7. Lifecycle'
        BY <1>2, <1>3, <2>1, LinuxUntouched DEF FlowInv, Lifecycle
      <3>8. ScriptProgress'
        BY <1>2, <1>3, <2>1, <2>6, LinuxUntouched DEF FlowInv, ScriptProgress
      <3>. QED
        BY <3>5, <3>6, <3>7, <3>8 DEF FlowInv
    <2>7. CASE serverSocket # "open"
      <3>1. toServer' = toServer
        BY <2>2, <2>7 DEF Sent
      <3>2. AcksInFlight' = {}
        BY <2>1, <3>1 DEF AcksInFlight
      <3>3. OnePlace' /\ InFlightIsNewest'
        BY <1>2, <1>3, <2>1, <2>7, <3>2 DEF OnePlace, InFlightIsNewest
      <3>4. Lifecycle'
        BY <1>2, <1>3, <2>1, LinuxUntouched DEF FlowInv, Lifecycle
      <3>5. ScriptProgress'
        BY <1>2, <1>3, <2>7, LinuxUntouched DEF FlowInv, ScriptProgress
      <3>. QED
        BY <3>3, <3>4, <3>5 DEF FlowInv
    <2>. QED
      BY <2>6, <2>7
  <1>. QED
    BY <1>4, <1>5

LEMMA AgentKeepsFlow ==
    ASSUME TypeInv, TypeInv', FlowInv, ThreadStep
    PROVE  FlowInv'
  <1>1. AgentStep /\ UNCHANGED linuxVars
    BY DEF ThreadStep
  <1>2. AgentTypeOK /\ WireTypeOK
    BY DEF TypeInv
  <1>f. ASSUME FailConnection(<<>>) PROVE FlowInv'
    <2>1. toServer' = toServer
      BY <1>2, <1>f, ConcatProperties DEF FailConnection, Sent, WireTypeOK
    <2>. QED
      BY <1>1, <1>f, <2>1, EndKeepsFlow, LinuxUntouched DEF FailConnection, Empty
  <1>b. DispatchFails => FailConnection(<<>>)
    BY DispatchFailsSilently
  <1>e. ASSUME Exit PROVE FlowInv'
    <2>1. ~ProxyExists /\ ~Queued /\ (exitCode' = "success" => AtTheEnd)
      BY <1>e DEF Exit, FlowInv, Lifecycle, ScriptProgress
    <2>. QED
      BY <1>1, <1>e, <2>1, EndKeepsFlow, LinuxUntouched DEF Exit, ProxyExists, Queued
  <1>9. ~ReceiveResize /\ ~ReceiveDamage /\ ~ReceiveActivate
    BY AgentReads, ToAgentKinds DEF ReceiveResize, ReceiveDamage, ReceiveActivate
  <1>. QED
    BY <1>1, <1>f, <1>b, <1>e, <1>9, AgentQuietKeepsFlow, CreateKeepsFlow, PresentKeepsFlow,
       DestroyKeepsFlow, DispatchKeepsFlow DEF AgentStep, SocketFails

LEMMA KillKeepsFlow ==
    ASSUME TypeInv, FlowInv, KillStep
    PROVE  FlowInv'
  <1>. QED
    BY EndKeepsFlow, LinuxUntouched DEF KillStep, Kill, Empty
-----------------------------------------------------------------------------
(* The inductive invariant.                                                *)

Inv == TypeInv /\ FlowInv

LEMMA InitEstablishesInv == Init => Inv
  <1>. SUFFICES ASSUME Init PROVE Inv
    OBVIOUS
  <1>1. ServerInit /\ AgentInit /\ SessionInit
    BY DEF Init, ServerInit
  <1>2. SessionInv
    BY <1>1, Started
  <1>3. ServerTypeOK
    BY <1>1 DEF ServerInit, SessionInit, ServerTypeOK
  <1>4. /\ toAgent = <<>> /\ toServer = <<Hello>> /\ <<Hello>> \in Seq(ToServerMessage)
        /\ serverSocket = "open" /\ agentSocket = "open"
    BY ShortSequences DEF Init, ToServerMessage
  <1>5. WireTypeOK
    BY <1>4, ShortSequences DEF WireTypeOK
  <1>6. DOMAIN proxies = {} /\ DOMAIN pending = {} /\ agent = "running" /\ exitCode = "success"
    BY <1>1 DEF AgentInit, Empty
  <1>7. AgentTypeOK
    BY <1>1, <1>6 DEF AgentInit, AgentTypeOK
  <1>8. /\ PresentsInFlight = {} /\ AcksInFlight = {} /\ Creates = {} /\ Destroys = {}
        /\ ~Queued /\ ~ProxyExists
    <2>1. Hello.type # "WINDOW_PRESENT_ACK"
      BY DEF Hello
    <2>2. AcksInFlight = {}
      BY <1>4, <2>1, OneMessage DEF AcksInFlight
    <2>. QED
      BY <1>4, <1>6, <2>2 DEF PresentsInFlight, Creates, Destroys, MessagesOf, Queued, ProxyExists
  <1>9. /\ mode \in Modes /\ helloReceived = FALSE /\ awaiting = {} /\ deferred = {}
        /\ insertions = 0 /\ scriptStep = 0 /\ Len(Script) > 0 /\ Len(Script) \in Nat
    BY <1>1, ScriptAssumption, LenProperties DEF ServerInit, SessionInit
  <1>10. OnePlace /\ InFlightIsNewest
    BY <1>4, <1>6, <1>8, <1>9 DEF OnePlace, InFlightIsNewest
  <1>11. Lifecycle
    BY <1>4, <1>6, <1>8, <1>9 DEF Lifecycle
  <1>12. ScriptProgress
    BY <1>4, <1>6, <1>8, <1>9 DEF ScriptProgress, AtTheEnd
  <1>. QED
    BY <1>2, <1>3, <1>5, <1>7, <1>10, <1>11, <1>12 DEF Inv, TypeInv, FlowInv

LEMMA NextKeepsInv == Inv /\ [Next]_vars => Inv'
  <1>. SUFFICES ASSUME Inv, [Next]_vars PROVE Inv'
    OBVIOUS
  <1>0. TypeInv /\ FlowInv
    BY DEF Inv
  <1>1. CASE ServerStep
    BY <1>0, <1>1, ServerKeepsTypes, ServerKeepsFlow DEF Inv
  <1>2. CASE ThreadStep
    BY <1>0, <1>2, AgentKeepsTypes, AgentKeepsFlow DEF Inv
  <1>3. CASE UserStep
    BY <1>0, <1>3, UserKeepsTypes, UserKeepsFlow DEF Inv
  <1>4. CASE KillStep
    BY <1>0, <1>4, KillKeepsTypes, KillKeepsFlow DEF Inv
  <1>5. CASE UNCHANGED vars
    <2>1. TypeInv'
      BY <1>0, <1>5, SessionUntouched
         DEF vars, linuxVars, sessionVars, serverVars, wireVars, agentVars, applicationVars, desktopVars,
             TypeInv, ServerTypeOK, WireTypeOK, AgentTypeOK
    <2>2. FlowInv'
      BY <1>0, <1>5
         DEF vars, linuxVars, sessionVars, serverVars, wireVars, agentVars, applicationVars,
             FlowInv, OnePlace, InFlightIsNewest, Lifecycle, ScriptProgress, PresentsInFlight,
             AcksInFlight, Creates, Destroys, Queued, ProxyExists, AtTheEnd, Newest
    <2>. QED
      BY <2>1, <2>2 DEF Inv
  <1>. QED
    BY <1>1, <1>2, <1>3, <1>4, <1>5 DEF Next

LEMMA Invariant == Spec => []Inv
  BY InitEstablishesInv, NextKeepsInv, PTL DEF Spec
-----------------------------------------------------------------------------
(* What the invariant gives.                                               *)

LEMMA AtMostOne ==
    ASSUME NEW S, \A a, b \in S : a = b
    PROVE  IsFiniteSet(S) /\ (S = {} \/ \E a \in S : S = {a}) /\ Cardinality(S) \in {0, 1}
           /\ (S = {} => Cardinality(S) = 0) /\ (S # {} => Cardinality(S) = 1)
  <1>1. S = {} \/ \E a \in S : S = {a}
    OBVIOUS
  <1>2. CASE S = {}
    BY <1>2, FS_EmptySet
  <1>3. CASE S # {}
    <2>1. PICK a \in S : S = {a}
      BY <1>1, <1>3
    <2>. QED
      BY <1>3, <2>1, FS_Singleton
  <1>. QED
    BY <1>2, <1>3

\* Types: every variable of the two programs and of the connection keeps its
\* type, the single-element fields of session.h and the agent included.
THEOREM TypesStayCorrect == Spec => []TypeOK
  <1>1. Inv => TypeOK
    <2>. SUFFICES ASSUME Inv PROVE TypeOK
      OBVIOUS
    <2>1. SessionInv /\ ServerTypeOK /\ AgentTypeOK /\ ScriptProgress
      BY DEF Inv, TypeInv, FlowInv
    <2>2. \A a, b \in awaiting : a = b
      BY <2>1 DEF ServerTypeOK
    <2>3. \A a, b \in deferred : a = b
      BY <2>1 DEF ServerTypeOK
    <2>4. /\ \A a, b \in capture : a = b
          /\ \A a, b \in focus : a = b
      BY <2>1 DEF AgentTypeOK
    <2>5. /\ Cardinality(awaiting) <= 1 /\ Cardinality(deferred) <= 1
          /\ Cardinality(capture) <= 1 /\ Cardinality(focus) <= 1
      BY <2>2, <2>3, <2>4, AtMostOne
    <2>6. SessionTypeOK
      BY <2>1 DEF SessionInv
    <2>7. scriptStep \in 0 .. Len(Script)
      BY <2>1, ScriptAssumption, LenProperties DEF ServerTypeOK, ScriptProgress
    <2>8. awaiting \subseteq 1 .. MaxSequence /\ deferred \subseteq Presentation
      BY <2>1 DEF ServerTypeOK
    <2>9. dispatches \in 0 .. 1
      BY <2>1 DEF AgentTypeOK
    <2>. QED
      BY <2>1, <2>5, <2>6, <2>7, <2>8, <2>9 DEF TypeOK, ServerTypeOK, AgentTypeOK
  <1>. QED
    BY <1>1, Invariant, PTL

\* Flow control: while both ends are up, what the server awaits is exactly the
\* one PRESENT on its way, or the one the agent has queued, or the one ACK on
\* its way back; nothing is deferred when nothing is awaited.
THEOREM OnePresentInFlightAlways == Spec => []OnePresentInFlight
  <1>1. Inv => OnePresentInFlight
    <2>. SUFFICES ASSUME Inv, Up PROVE OnePresentInFlight
      BY DEF OnePresentInFlight
    <2>1. /\ OnePlace /\ InFlightIsNewest /\ serverSocket = "open" /\ agentSocket = "open"
          /\ DOMAIN pending \subseteq {FakeWindow}
      BY DEF Inv, FlowInv, Up, TypeInv, AgentTypeOK
    <2>2. /\ \A a, b \in PresentsInFlight : a = b
          /\ \A a, b \in DOMAIN pending : a = b
          /\ \A a, b \in AcksInFlight : a = b
      BY <2>1 DEF OnePlace
    <2>3. /\ Cardinality(PresentsInFlight) \in 0 .. 1 /\ Cardinality(DOMAIN pending) \in 0 .. 1
          /\ Cardinality(AcksInFlight) \in 0 .. 1
          /\ PresentsInFlight = {} => Cardinality(PresentsInFlight) = 0
          /\ DOMAIN pending = {} => Cardinality(DOMAIN pending) = 0
          /\ AcksInFlight = {} => Cardinality(AcksInFlight) = 0
      BY <2>2, AtMostOne
    <2>4. Cardinality(PresentsInFlight) + Cardinality(DOMAIN pending) + Cardinality(AcksInFlight) <= 1
      <3>1. CASE PresentsInFlight # {}
        BY <2>1, <2>3, <3>1 DEF OnePlace, Queued
      <3>2. CASE PresentsInFlight = {} /\ Queued
        BY <2>1, <2>3, <3>2 DEF OnePlace
      <3>3. CASE PresentsInFlight = {} /\ ~Queued
        <4>1. /\ Cardinality(PresentsInFlight) = 0 /\ Cardinality(DOMAIN pending) = 0
              /\ Cardinality(AcksInFlight) \in 0 .. 1
          BY <2>3, <3>3, Zenon DEF Queued
        <4>. QED
          BY <4>1
      <3>. QED
        BY <3>1, <3>2, <3>3
    <2>5. /\ \A i \in PresentsInFlight : toAgent[i].presentation.sequence = Newest.sequence
          /\ \A id \in DOMAIN pending : pending[id].sequence = Newest.sequence
          /\ \A i \in AcksInFlight : toServer[i].sequence = Newest.sequence
      BY <2>1 DEF InFlightIsNewest
    <2>6. InFlight = awaiting
      <3>1. CASE PresentsInFlight # {} \/ Queued \/ AcksInFlight # {}
        <4>1. awaiting = {Newest.sequence}
          BY <2>1, <3>1 DEF InFlightIsNewest
        <4>2. InFlight = {Newest.sequence}
          BY <2>5, <3>1 DEF InFlight, Queued
        <4>. QED
          BY <4>1, <4>2
      <3>2. CASE PresentsInFlight = {} /\ ~Queued /\ AcksInFlight = {}
        <4>1. awaiting = {}
          BY <2>1, <3>2 DEF InFlightIsNewest
        <4>2. InFlight = {}
          BY <3>2 DEF InFlight, Queued
        <4>. QED
          BY <4>1, <4>2
      <3>. QED
        BY <3>1, <3>2
    <2>7. deferred # {} => awaiting # {}
      BY <2>1 DEF InFlightIsNewest
    <2>. QED
      BY <2>4, <2>6, <2>7 DEF OnePresentInFlight
  <1>. QED
    BY <1>1, Invariant, PTL

\* Exit code: the agent exits with success only when a script was played to its
\* end (main.cpp: the failure code is set whenever the transport ends first).
THEOREM SuccessMeansTheScriptEndedAlways == Spec => []SuccessMeansTheScriptEnded
  <1>1. Inv => SuccessMeansTheScriptEnded
    BY DEF Inv, FlowInv, ScriptProgress, AtTheEnd, SuccessMeansTheScriptEnded
  <1>. QED
    BY <1>1, Invariant, PTL
-----------------------------------------------------------------------------
(* What the proxy shows and what input names.                              *)

\* The input on its way that names a presentation.
Pointers == {i \in DOMAIN toServer : toServer[i].type \in PointerTypes}
Named(i) == toServer[i].location.sequence

\* The agent has applied the newest presentation, and says so.
Acknowledged == awaiting = {} \/ AcksInFlight # {}
LastShown    == IF insertions > 1 THEN Older ELSE Hidden

\* The proxy shows the newest presentation once it is acknowledged, and the
\* one before it until then.
ProxyIsCurrent ==
    serverSocket = "open" =>
       /\ helloReceived => insertions > 0
       /\ Creates # {} => insertions = 1 /\ ~Acknowledged
       /\ \A id \in DOMAIN proxies :
             proxies[id].presentation = IF Acknowledged THEN Newest ELSE LastShown

\* Input names one of these two, and the newest when it was made after the ACK.
InputIsCurrent ==
    serverSocket = "open" => \A i \in Pointers :
       /\ insertions > 0
       /\ \/ Named(i) = Newest.sequence
          \/ insertions > 1 /\ Named(i) = Older.sequence /\ awaiting # {}
       /\ (\E a \in AcksInFlight : a < i) => Named(i) = Newest.sequence

Currency == ProxyIsCurrent /\ InputIsCurrent

\* The two entries of the ring that were written last are in use.
LEMMA SlotIsAvailable ==
    ASSUME insertions \in Nat, insertions > 0
    PROVE  /\ (insertions - 1) % Capacity \in 0 .. Available - 1
           /\ insertions > 1 => (insertions - 2) % Capacity \in 0 .. Available - 1
  <1>1. Capacity \in Nat \ {0}
    BY CapacityAssumption
  <1>2. ASSUME NEW n \in Nat, n < insertions PROVE n % Capacity \in 0 .. Available - 1
    <2>1. CASE insertions <= Capacity
      <3>1. n < Capacity /\ Available = insertions
        BY <1>1, <1>2, <2>1 DEF Available, Smaller
      <3>2. n % Capacity = n
        BY <1>1, <1>2, <3>1
      <3>. QED
        BY <1>2, <3>1, <3>2
    <2>2. CASE insertions > Capacity
      <3>1. Available = Capacity
        BY <1>1, <2>2 DEF Available, Smaller
      <3>2. n % Capacity \in 0 .. Capacity - 1
        BY <1>1, <1>2
      <3>. QED
        BY <3>1, <3>2
    <2>. QED
      BY <1>1, <2>1, <2>2
  <1>3. insertions - 1 \in Nat /\ (insertions > 1 => insertions - 2 \in Nat)
    OBVIOUS
  <1>. QED
    BY <1>2, <1>3

\* The newest becomes the one before it, in a ring of two or more.
LEMMA NewestBecomesOlder ==
    ASSUME Capacity > 1, SessionInv, NEW p, RecordInHistory(p), insertions > 0
    PROVE  Older' = Newest /\ insertions' > 1
  <1>1. insertions \in Nat /\ history \in [Slots -> Presentation] /\ Capacity \in Nat
    BY CapacityAssumption DEF SessionInv, SessionTypeOK
  <1>. DEFINE n == insertions - 1  k == insertions % Capacity
  <1>2. n \in Nat /\ 1 \in 1 .. Capacity - 1 /\ n + 1 = insertions /\ insertions + 1 = n + 2
    BY <1>1
  <1>3. k # n % Capacity
    <2>1. (n + 1) % Capacity # n % Capacity
      BY <1>1, <1>2, SlotsDiffer
    <2>. QED
      BY <1>2, <2>1
  <1>4. k \in Slots /\ n % Capacity \in Slots
    BY <1>1, <1>2 DEF Slots
  <1>5. history' = [history EXCEPT ![k] = p] /\ insertions' = n + 2
    BY <1>2 DEF RecordInHistory
  <1>6. Older' = history'[n % Capacity]
    BY <1>2, <1>5 DEF Older
  <1>7. Newest = history[n % Capacity]
    BY DEF Newest
  <1>. HIDE DEF n, k
  <1>. QED
    BY <1>1, <1>2, <1>3, <1>4, <1>5, <1>6, <1>7

\* The server took the first message.
LEMMA InputIsNearer ==
    ASSUME TypeInv, toServer # <<>>, Consume
    PROVE  /\ \A i \in Pointers' : i \in Nat \ {0} /\ i + 1 \in Pointers /\ Named(i)' = Named(i + 1)
           /\ \A a \in AcksInFlight' : a \in Nat \ {0} /\ a + 1 \in AcksInFlight
           /\ toServer[1].type # "WINDOW_PRESENT_ACK" =>
                 (AcksInFlight # {} => AcksInFlight' # {})
  <1>1. toServer \in Seq(ToServerMessage) /\ toServer' = Tail(toServer)
    BY DEF TypeInv, WireTypeOK, Consume
  <1>2. /\ DOMAIN Tail(toServer) \subseteq Nat \ {0}
        /\ \A i \in DOMAIN Tail(toServer) :
              i + 1 \in DOMAIN toServer /\ Tail(toServer)[i] = toServer[i + 1]
    BY <1>1, ATail
  <1>3. DOMAIN toServer' \subseteq Nat \ {0}
        /\ \A i \in DOMAIN toServer' : i + 1 \in DOMAIN toServer /\ toServer'[i] = toServer[i + 1]
    BY <1>1, <1>2, Zenon
  <1>4. ASSUME toServer[1].type # "WINDOW_PRESENT_ACK", AcksInFlight # {}
        PROVE  AcksInFlight' # {}
    BY <1>1, <1>4, CarriedByTail DEF Carries, AcksInFlight
  <1>5. \A i \in Pointers' : i \in Nat \ {0} /\ i + 1 \in Pointers /\ Named(i)' = Named(i + 1)
    BY <1>3 DEF Pointers, Named
  <1>6. \A a \in AcksInFlight' : a \in Nat \ {0} /\ a + 1 \in AcksInFlight
    BY <1>3 DEF AcksInFlight, MessagesOf
  <1>. QED
    BY <1>4, <1>5, <1>6

\* The agent sent input, or nothing arrived.
LEMMA InputIsAdded ==
    ASSUME TypeInv, NEW messages \in Seq(ToServerMessage), toServer' = Sent(messages)
    PROVE  /\ \A i \in Pointers' :
                 \/ i \in Pointers /\ Named(i)' = Named(i)
                 \/ /\ \A a \in AcksInFlight : a < i
                    /\ \E j \in DOMAIN messages :
                          /\ toServer'[i] = messages[j] /\ messages[j].type \in PointerTypes
                          /\ Named(i)' = messages[j].location.sequence
           /\ MessagesOf(messages, "WINDOW_PRESENT_ACK") = {} => AcksInFlight' = AcksInFlight
  <1>1. toServer \in Seq(ToServerMessage) /\ DOMAIN toServer \subseteq Nat
    BY LenProperties DEF TypeInv, WireTypeOK
  <1>2. CASE toServer' = toServer
    BY <1>2 DEF Pointers, Named, AcksInFlight
  <1>3. CASE toServer' = toServer \o messages
    <2>. DEFINE s == toServer  u == messages  n == Len(toServer)
    <2>1. /\ n \in Nat /\ Len(u) \in Nat /\ DOMAIN s = 1 .. n /\ DOMAIN u = 1 .. Len(u)
          /\ DOMAIN (s \o u) = 1 .. n + Len(u)
          /\ \A i \in 1 .. n : (s \o u)[i] = s[i]
          /\ \A i \in 1 .. Len(u) : (s \o u)[n + i] = u[i]
      BY <1>1, AConcat
    <2>2. ASSUME NEW i \in Pointers'
          PROVE  \/ i \in Pointers /\ Named(i)' = Named(i)
                 \/ /\ \A a \in AcksInFlight : a < i
                    /\ \E j \in DOMAIN messages :
                          /\ toServer'[i] = messages[j] /\ messages[j].type \in PointerTypes
                          /\ Named(i)' = messages[j].location.sequence
      <3>1. i \in 1 .. n + Len(u) /\ toServer'[i].type \in PointerTypes
        BY <1>3, <2>1 DEF Pointers
      <3>2. CASE i <= n
        BY <1>3, <2>1, <3>1, <3>2 DEF Pointers, Named
      <3>3. CASE i > n
        <4>. DEFINE j == i - n
        <4>1. j \in 1 .. Len(u) /\ i = n + j
          BY <2>1, <3>1, <3>3
        <4>2. toServer'[i] = u[j]
          BY <1>3, <2>1, <4>1
        <4>3. \A a \in AcksInFlight : a < i
          BY <2>1, <3>1, <3>3 DEF AcksInFlight, MessagesOf
        <4>. QED
          BY <2>1, <3>1, <4>1, <4>2, <4>3 DEF Named
      <3>. QED
        BY <2>1, <3>1, <3>2, <3>3
    <2>3. ASSUME MessagesOf(messages, "WINDOW_PRESENT_ACK") = {}
          PROVE  AcksInFlight' = AcksInFlight
      <3>1. Carries(toServer', toServer, "WINDOW_PRESENT_ACK", 0)
        BY <1>1, <1>3, <2>3, CarriedByConcat
      <3>2. \A i : i \in AcksInFlight' <=> i \in AcksInFlight
        BY <3>1 DEF Carries, AcksInFlight
      <3>. QED
        BY <3>2
    <2>. QED
      BY <2>2, <2>3
  <1>. QED
    BY <1>2, <1>3 DEF Sent

\* The agent says what the proxy shows, or nothing.
LEMMA InputSaysWhatIsShown ==
    ASSUME Inv, Currency, UNCHANGED linuxVars, UNCHANGED serverSocket,
           NEW messages \in Seq(InputOf(LocationsNow)), toServer' = Sent(messages)
    PROVE  InputIsCurrent' /\ AcksInFlight' = AcksInFlight
  <1>1. TypeInv /\ FlowInv
    BY DEF Inv
  <1>2. /\ messages \in Seq(ToServerMessage)
        /\ MessagesOf(messages, "WINDOW_PRESENT_ACK") = {}
    BY InputIsSent, InputIsNoAck
  <1>3. /\ AcksInFlight' = AcksInFlight
        /\ \A i \in Pointers' :
              \/ i \in Pointers /\ Named(i)' = Named(i)
              \/ /\ \A a \in AcksInFlight : a < i
                 /\ \E j \in DOMAIN messages :
                       messages[j].type \in PointerTypes
                       /\ Named(i)' = messages[j].location.sequence
    BY <1>1, <1>2, InputIsAdded
  <1>4. ASSUME NEW j \in DOMAIN messages, messages[j].type \in PointerTypes, serverSocket = "open"
        PROVE  LET s == messages[j].location.sequence
               IN  /\ insertions > 0
                   /\ \/ s = Newest.sequence
                      \/ insertions > 1 /\ s = Older.sequence /\ awaiting # {}
                   /\ AcksInFlight # {} => s = Newest.sequence
    <2>1. messages[j] \in InputOf(LocationsNow)
      BY ElementOfSeq, LenProperties
    <2>2. messages[j].location \in LocationsNow
      BY <1>4, <2>1 DEF InputOf, KeyboardInput, PointerLocation, PointerButton, CaptureLostMessage, KeyboardFocus,
                        KeyboardKey, PointerTypes
    <2>3. PICK id \in DOMAIN proxies : /\ proxies[id].presentation.visible
                                       /\ messages[j].location.sequence = proxies[id].presentation.sequence
      BY <2>2 DEF LocationsNow
    <2>4. helloReceived
      BY <1>1, <2>3 DEF FlowInv, Lifecycle, ProxyExists
    <2>5. /\ insertions > 0
          /\ proxies[id].presentation = IF Acknowledged THEN Newest ELSE LastShown
      BY <1>4, <2>4 DEF Currency, ProxyIsCurrent
    <2>6. Hidden.visible = FALSE
      BY DEF Hidden
    <2>7. ~Acknowledged => insertions > 1 /\ proxies[id].presentation = Older
      BY <2>3, <2>5, <2>6 DEF LastShown
    <2>. QED
      BY <2>3, <2>5, <2>7 DEF Acknowledged
  <1>5. Newest' = Newest /\ Older' = Older /\ UNCHANGED <<insertions, awaiting>>
    BY DEF linuxVars, sessionVars, serverVars, Newest, Older
  <1>6. ASSUME serverSocket = "open", NEW i \in Pointers'
        PROVE  /\ insertions > 0
               /\ \/ Named(i)' = Newest.sequence
                  \/ insertions > 1 /\ Named(i)' = Older.sequence /\ awaiting # {}
               /\ (\E a \in AcksInFlight : a < i) => Named(i)' = Newest.sequence
    <2>1. CASE i \in Pointers /\ Named(i)' = Named(i)
      BY <1>6, <2>1 DEF Currency, InputIsCurrent
    <2>2. CASE \E j \in DOMAIN messages : /\ messages[j].type \in PointerTypes
                                          /\ Named(i)' = messages[j].location.sequence
      BY <1>4, <1>6, <2>2
    <2>. QED
      BY <1>3, <1>6, <2>1, <2>2
  <1>. QED
    BY <1>3, <1>5, <1>6 DEF InputIsCurrent

LEMMA ProxyStaysCurrent ==
    ASSUME Inv, Currency, UNCHANGED linuxVars, UNCHANGED serverSocket,
           AcksInFlight' = AcksInFlight, Creates' # {} => Creates # {},
           \A id \in DOMAIN proxies' :
              id \in DOMAIN proxies /\ proxies'[id].presentation = proxies[id].presentation
    PROVE  ProxyIsCurrent'
  <1>1. /\ Newest' = Newest /\ Older' = Older /\ LastShown' = LastShown
        /\ Acknowledged' = Acknowledged /\ UNCHANGED <<insertions, helloReceived>>
    BY DEF linuxVars, sessionVars, serverVars, Newest, Older, LastShown, Acknowledged
  <1>. QED
    BY <1>1 DEF Currency, ProxyIsCurrent

\* A handler of the server that sends no presentation.
LEMMA ServerQuietKeepsCurrency ==
    ASSUME Inv, Currency, NEW types, Arrived(types), Consume,
           "WINDOW_PRESENT_ACK" \notin types, Creates' # {} => Creates # {},
           UNCHANGED <<agentVars, history, insertions, awaiting, helloReceived>>
    PROVE  Currency'
  <1>1. TypeInv /\ toServer # <<>> /\ toServer[1].type # "WINDOW_PRESENT_ACK" /\ serverSocket = "open"
        /\ serverSocket' = serverSocket
    BY ServerReads DEF Inv, Consume
  <1>2. /\ \A i \in Pointers' : i \in Nat \ {0} /\ i + 1 \in Pointers /\ Named(i)' = Named(i + 1)
        /\ \A a \in AcksInFlight' : a \in Nat \ {0} /\ a + 1 \in AcksInFlight
        /\ AcksInFlight # {} => AcksInFlight' # {}
    BY <1>1, InputIsNearer
  <1>3. /\ Newest' = Newest /\ Older' = Older /\ LastShown' = LastShown
        /\ Acknowledged' = Acknowledged /\ UNCHANGED proxies
    BY <1>2 DEF agentVars, Newest, Older, LastShown, Acknowledged
  <1>4. ProxyIsCurrent'
    BY <1>1, <1>3 DEF Currency, ProxyIsCurrent
  <1>5. InputIsCurrent'
    <2>. SUFFICES ASSUME NEW i \in Pointers'
                  PROVE  /\ insertions > 0
                         /\ \/ Named(i)' = Newest.sequence
                            \/ insertions > 1 /\ Named(i)' = Older.sequence /\ awaiting # {}
                         /\ (\E a \in AcksInFlight' : a < i) => Named(i)' = Newest.sequence
      BY <1>3 DEF InputIsCurrent
    <2>1. i \in Nat /\ i + 1 \in Pointers /\ Named(i)' = Named(i + 1)
      BY <1>2
    <2>2. (\E a \in AcksInFlight' : a < i) => \E a \in AcksInFlight : a < i + 1
      <3>. SUFFICES ASSUME NEW a \in AcksInFlight', a < i PROVE \E b \in AcksInFlight : b < i + 1
        OBVIOUS
      <3>1. a + 1 \in AcksInFlight /\ a + 1 < i + 1
        BY <1>2, <2>1
      <3>. QED
        BY <3>1
    <2>. QED
      BY <1>1, <2>1, <2>2 DEF Currency, InputIsCurrent
  <1>. QED
    BY <1>4, <1>5 DEF Currency

\* A handler of the server that sends the next presentation: everything on its
\* way named the newest, which is now the one before it.
LEMMA PresentKeepsCurrency ==
    ASSUME Capacity > 1, Inv, Inv', Currency, NEW types, Arrived(types), Consume,
           UNCHANGED <<agentVars, helloReceived>>,
           NEW sent, NEW p, NEW next, SendPresent(sent, p, next), Creates' = {},
           helloReceived, toServer[1].type = "WINDOW_PRESENT_ACK" \/ awaiting = {}
    PROVE  Currency'
  <1>1. /\ TypeInv /\ FlowInv /\ toServer # <<>> /\ serverSocket = "open" /\ serverSocket' = "open"
        /\ toServer \in Seq(ToServerMessage) /\ SessionInv
    BY ServerReads DEF Inv, TypeInv, WireTypeOK, Consume
  <1>2. insertions > 0
    BY <1>1 DEF Currency, ProxyIsCurrent
  <1>3. Older' = Newest /\ insertions' > 1 /\ insertions' > 0 /\ awaiting' # {}
    <2>1. insertions' \in Nat
      BY DEF Inv, TypeInv, SessionInv, SessionTypeOK
    <2>. QED
      BY <1>1, <1>2, <2>1, NewestBecomesOlder DEF SendPresent
  <1>4. \A i \in Pointers' : i \in Nat \ {0} /\ i + 1 \in Pointers /\ Named(i)' = Named(i + 1)
    BY <1>1, InputIsNearer
  <1>5. 1 \in DOMAIN toServer
    BY <1>1, ATail
  <1>6. AcksInFlight' = {}
    <2>1. CASE toServer[1].type = "WINDOW_PRESENT_ACK"
      <3>1. Arrived({"WINDOW_PRESENT_ACK"})
        BY <1>1, <2>1 DEF Arrived
      <3>. QED
        BY <1>1, <3>1, AckTaken
    <2>2. CASE awaiting = {}
      <3>1. AcksInFlight = {}
        BY <1>1, <2>2 DEF FlowInv, InFlightIsNewest
      <3>. QED
        BY <1>1, <3>1, InputIsNearer
    <2>. QED
      BY <2>1, <2>2
  <1>7. Acknowledged /\ ~Acknowledged'
    <2>1. toServer[1].type = "WINDOW_PRESENT_ACK" => 1 \in AcksInFlight
      BY <1>5 DEF AcksInFlight, MessagesOf
    <2>. QED
      BY <1>3, <1>6, <2>1 DEF Acknowledged
  <1>8. \A i \in Pointers' : Named(i)' = Newest.sequence
    <2>. SUFFICES ASSUME NEW i \in Pointers' PROVE Named(i + 1) = Newest.sequence
      BY <1>4
    <2>1. i + 1 \in Pointers /\ 1 < i + 1
      BY <1>4
    <2>2. CASE toServer[1].type = "WINDOW_PRESENT_ACK"
      <3>1. 1 \in AcksInFlight
        BY <1>5, <2>2 DEF AcksInFlight, MessagesOf
      <3>. QED
        BY <1>1, <2>1, <3>1 DEF Currency, InputIsCurrent
    <2>3. CASE awaiting = {}
      BY <1>1, <2>1, <2>3 DEF Currency, InputIsCurrent
    <2>. QED
      BY <2>2, <2>3
  <1>9. InputIsCurrent'
    BY <1>2, <1>3, <1>6, <1>8 DEF InputIsCurrent
  <1>10. ProxyIsCurrent'
    <2>1. UNCHANGED proxies
      BY DEF agentVars
    <2>2. LastShown' = Newest
      BY <1>3 DEF LastShown
    <2>. QED
      BY <1>1, <1>3, <1>7, <2>1, <2>2 DEF Currency, ProxyIsCurrent
  <1>. QED
    BY <1>9, <1>10 DEF Currency

LEMMA ServerKeepsCurrency ==
    ASSUME Capacity > 1, Inv, Inv', Currency, ServerStep
    PROVE  Currency'
  <1>1. ServerHandles /\ UNCHANGED <<mode, agentVars>> /\ TypeInv /\ FlowInv
    BY DEF ServerStep, ServerNext, Inv
  <1>2. ASSUME NEW pixels, toAgent' = Append(toAgent, Frame(pixels)) PROVE Creates' # {} => Creates # {}
    <2>1. toAgent \in Seq(ToAgentMessage) /\ toAgent' \in Seq(ToAgentMessage)
      BY DEF Inv, TypeInv, WireTypeOK
    <2>2. /\ DOMAIN toAgent = 1 .. Len(toAgent) /\ Len(toAgent) \in Nat
          /\ \A i \in DOMAIN toAgent' : i \in DOMAIN toAgent \/ i = Len(toAgent) + 1
          /\ \A i \in DOMAIN toAgent : toAgent'[i] = toAgent[i]
          /\ toAgent'[Len(toAgent) + 1] = Frame(pixels)
      BY <1>2, <2>1
    <2>3. Frame(pixels).type # "WINDOW_CREATE"
      BY DEF Frame, WindowFrame
    <2>. QED
      BY <2>2, <2>3 DEF Creates, MessagesOf
  <1>3. UNCHANGED toAgent => Creates' = Creates
    BY DEF Creates
  <1>h. ASSUME ServerHello PROVE Currency'
    <2>1. /\ Arrived({"HELLO"}) /\ ~helloReceived /\ helloReceived' /\ Consume
      BY <1>h DEF ServerHello
    <2>2. /\ insertions = 0 /\ ~ProxyExists /\ AcksInFlight = {} /\ toServer # <<>>
          /\ serverSocket = "open"
      BY <1>1, <2>1, ServerReads DEF FlowInv, Lifecycle
    <2>3. Pointers' = {} /\ AcksInFlight' = {}
      <3>1. Pointers = {}
        BY <2>2 DEF Currency, InputIsCurrent
      <3>. QED
        BY <1>1, <2>1, <2>2, <3>1, InputIsNearer
    <2>4. insertions' = 1 /\ awaiting' # {}
      <3>1. \E p, next : SendPresent(Greeting, p, next)
        BY <1>h DEF ServerHello
      <3>2. PICK p, next : SendPresent(Greeting, p, next)
        BY <3>1
      <3>. QED
        BY <2>2, <3>2 DEF SendPresent, RecordInHistory
    <2>5. UNCHANGED proxies /\ DOMAIN proxies = {}
      BY <1>1, <2>2 DEF agentVars, ProxyExists
    <2>. QED
      BY <2>3, <2>4, <2>5 DEF Currency, ProxyIsCurrent, InputIsCurrent, Acknowledged
  <1>a. ASSUME ServerPresentAck PROVE Currency'
    <2>1. /\ Arrived({"WINDOW_PRESENT_ACK"}) /\ helloReceived /\ Consume /\ UNCHANGED helloReceived
      BY <1>a DEF ServerPresentAck
    <2>2. /\ toServer # <<>> /\ serverSocket = "open" /\ toServer[1].type = "WINDOW_PRESENT_ACK"
          /\ toServer \in Seq(ToServerMessage) /\ serverSocket' = serverSocket
      BY <1>1, <2>1, ServerReads DEF TypeInv, WireTypeOK, Consume
    <2>3. 1 \in AcksInFlight /\ AcksInFlight' = {} /\ Creates = {}
      BY <1>1, <2>1, AckTaken
    <2>4. Creates' = {}
      <3>1. AcksInFlight' = {} /\ (Creates' # {} => ProxyExists' = ProxyExists)
        BY <1>1, <2>3 DEF ProxyExists, agentVars
      <3>2. CASE UNCHANGED toAgent
        BY <1>3, <2>3, <3>2
      <3>3. ASSUME NEW m, toAgent' = toAgent \o <<m>>, m.type # "WINDOW_CREATE",
                   m \in ToAgentMessage
            PROVE  Creates' = {}
        <4>1. toAgent \in Seq(ToAgentMessage) /\ <<m>> \in Seq(ToAgentMessage)
          BY <1>1, <3>3, ShortSequences DEF TypeInv, WireTypeOK
        <4>2. Carries(toAgent', toAgent, "WINDOW_CREATE", 0)
          BY <3>3, <4>1, OneMessage, CarriedByConcat
        <4>. QED
          BY <2>3, <4>2 DEF Carries, Creates
      <3>4. CASE \E p, next : SendPresent(<<>>, p, next)
        <4>1. PICK p, next : SendPresent(<<>>, p, next)
          BY <3>4
        <4>2. toAgent' = toAgent \o <<WindowPresent(FakeWindow, p)>>
          BY <1>1, <4>1, ConcatProperties DEF SendPresent, TypeInv, WireTypeOK
        <4>3. toAgent \in Seq(ToAgentMessage) /\ toAgent' \in Seq(ToAgentMessage)
          BY DEF Inv, TypeInv, WireTypeOK
        <4>4. /\ Len(toAgent) + 1 \in DOMAIN toAgent'
              /\ toAgent'[Len(toAgent) + 1] = WindowPresent(FakeWindow, p)
          BY <4>2, <4>3
        <4>5. WindowPresent(FakeWindow, p) \in ToAgentMessage
          BY <4>3, <4>4, ElementOfSeq, LenProperties
        <4>. QED
          BY <3>3, <4>2, <4>5 DEF WindowPresent
      <3>5. CASE toAgent' = Append(toAgent, WindowDestroy(FakeWindow))
        <4>1. WindowDestroy(FakeWindow) \in ToAgentMessage
          BY DEF ToAgentMessage
        <4>2. toAgent' = toAgent \o <<WindowDestroy(FakeWindow)>>
          BY <1>1, <3>5, <4>1, AppendIsConcat DEF TypeInv, WireTypeOK
        <4>. QED
          BY <3>3, <4>1, <4>2 DEF WindowDestroy
      <3>. QED
        BY <1>a, <3>2, <3>4, <3>5 DEF ServerPresentAck
    <2>5. ASSUME awaiting' = {}, UNCHANGED <<history, insertions>> PROVE Currency'
      <3>1. Newest' = Newest /\ Acknowledged /\ Acknowledged' /\ UNCHANGED proxies
        BY <1>1, <2>3, <2>5 DEF Newest, Acknowledged, agentVars
      <3>2. ProxyIsCurrent'
        BY <2>1, <2>2, <2>4, <2>5, <3>1 DEF Currency, ProxyIsCurrent
      <3>3. ASSUME NEW i \in Pointers' PROVE insertions > 0 /\ Named(i)' = Newest.sequence
        <4>1. i \in Nat \ {0} /\ i + 1 \in Pointers /\ Named(i)' = Named(i + 1) /\ 1 < i + 1
          BY <1>1, <2>1, <2>2, <3>3, InputIsNearer
        <4>. QED
          BY <2>2, <2>3, <4>1 DEF Currency, InputIsCurrent
      <3>4. InputIsCurrent'
        BY <2>3, <2>5, <3>1, <3>3 DEF InputIsCurrent
      <3>. QED
        BY <3>2, <3>4 DEF Currency
    <2>6. ASSUME NEW p, NEW next, SendPresent(<<>>, p, next) PROVE Currency'
      BY <1>1, <2>1, <2>2, <2>4, <2>6, PresentKeepsCurrency
    <2>. QED
      BY <1>a, <2>5, <2>6 DEF ServerPresentAck
  <1>q. ASSUME \/ ServerPointerLocation \/ ServerKeyboard \/ ServerCaptureLost \/ ServerPointerButton
        PROVE  Currency'
    <2>1. /\ \E types : Arrived(types) /\ "WINDOW_PRESENT_ACK" \notin types
          /\ Consume
          /\ UNCHANGED <<history, insertions, awaiting, helloReceived>>
          /\ toAgent' = toAgent \/ \E pixels : toAgent' = Append(toAgent, Frame(pixels))
      BY <1>q DEF ServerPointerLocation, ServerKeyboard, ServerCaptureLost, ServerPointerButton,
                  sessionVars, serverVars, LocationOnlyTypes, KeyboardTypes
    <2>. QED
      BY <1>1, <1>2, <1>3, <2>1, ServerQuietKeepsCurrency
  <1>m. ASSUME ServerPointerMotion PROVE Currency'
    <2>1. /\ Arrived({"POINTER_MOTION"}) /\ helloReceived /\ Consume /\ UNCHANGED helloReceived
          /\ \/ UNCHANGED <<history, insertions, awaiting, toAgent>>
             \/ ~Waits /\ \E p : SendPresent(<<>>, p, nextSequence + 1)
      BY <1>m DEF ServerPointerMotion
    <2>2. CASE UNCHANGED <<history, insertions, awaiting, toAgent>>
      BY <1>1, <1>3, <2>1, <2>2, ServerQuietKeepsCurrency
    <2>3. CASE ~Waits /\ \E p : SendPresent(<<>>, p, nextSequence + 1)
      <3>1. PICK p : SendPresent(<<>>, p, nextSequence + 1)
        BY <2>3
      <3>2. awaiting = {} /\ Creates = {}
        <4>1. serverSocket = "open" /\ awaiting = {}
          BY <2>1, <2>3 DEF Arrived, Waits
        <4>. QED
          BY <4>1 DEF Currency, ProxyIsCurrent, Acknowledged
      <3>3. Creates' = {}
        <4>1. toAgent' = toAgent \o <<WindowPresent(FakeWindow, p)>>
          BY <1>1, <3>1, ConcatProperties DEF SendPresent, TypeInv, WireTypeOK
        <4>2. toAgent \in Seq(ToAgentMessage) /\ toAgent' \in Seq(ToAgentMessage)
          BY DEF Inv, TypeInv, WireTypeOK
        <4>3. /\ DOMAIN toAgent = 1 .. Len(toAgent) /\ Len(toAgent) \in Nat
              /\ \A i \in DOMAIN toAgent' : i \in DOMAIN toAgent \/ i = Len(toAgent) + 1
              /\ \A i \in DOMAIN toAgent : toAgent'[i] = toAgent[i]
              /\ toAgent'[Len(toAgent) + 1] = WindowPresent(FakeWindow, p)
          BY <4>1, <4>2
        <4>4. WindowPresent(FakeWindow, p).type # "WINDOW_CREATE"
          BY DEF WindowPresent
        <4>. QED
          BY <3>2, <4>3, <4>4 DEF Creates, MessagesOf
      <3>. QED
        BY <1>1, <2>1, <3>1, <3>2, <3>3, PresentKeepsCurrency
    <2>. QED
      BY <2>1, <2>2, <2>3
  <1>x. CloseConnection => Currency'
    BY DEF CloseConnection, Currency, ProxyIsCurrent, InputIsCurrent
  <1>. QED
    BY <1>1, <1>h, <1>a, <1>q, <1>m, <1>x
       DEF ServerHandles, ServerRejectsAck, ServerRejectsMotion, ServerRejectsMessage, ServerPeerGone

LEMMA UserKeepsCurrency ==
    ASSUME Inv, Currency, UserStep
    PROVE  Currency'
  <1>1. PICK messages \in Seq(InputOf(LocationsNow)) : toServer' = Sent(messages)
    BY UserEffect DEF Inv
  <1>2. /\ UNCHANGED <<linuxVars, toAgent, serverSocket>> /\ DOMAIN proxies' = DOMAIN proxies
        /\ \A id \in DOMAIN proxies : proxies'[id].presentation = proxies[id].presentation
    BY UserEffect DEF Inv, SameButForInput
  <1>3. InputIsCurrent' /\ AcksInFlight' = AcksInFlight
    BY <1>1, <1>2, InputSaysWhatIsShown
  <1>4. ProxyIsCurrent'
    BY <1>2, <1>3, ProxyStaysCurrent DEF Creates
  <1>. QED
    BY <1>3, <1>4 DEF Currency

\* A step of the agent that says nothing and applies nothing.
LEMMA SilenceKeepsCurrency ==
    ASSUME Inv, Currency, UNCHANGED linuxVars, UNCHANGED serverSocket, toServer' = Sent(<<>>),
           Creates' # {} => Creates # {},
           \A id \in DOMAIN proxies' :
              id \in DOMAIN proxies /\ proxies'[id].presentation = proxies[id].presentation
    PROVE  Currency'
  <1>1. <<>> \in Seq(InputOf(LocationsNow))
    BY ShortSequences
  <1>2. InputIsCurrent' /\ AcksInFlight' = AcksInFlight
    BY <1>1, InputSaysWhatIsShown
  <1>3. ProxyIsCurrent'
    BY <1>2, ProxyStaysCurrent
  <1>. QED
    BY <1>2, <1>3 DEF Currency

LEMMA EndKeepsCurrency ==
    ASSUME Inv, Currency, UNCHANGED linuxVars, UNCHANGED <<serverSocket, toServer>>,
           toAgent' = <<>>, DOMAIN proxies' = {}
    PROVE  Currency'
  <1>1. toServer' = Sent(<<>>)
    BY ConcatProperties DEF Inv, TypeInv, WireTypeOK, Sent
  <1>2. Creates' = {}
    BY DEF Creates, MessagesOf
  <1>. QED
    BY <1>1, <1>2, SilenceKeepsCurrency

LEMMA CreateKeepsCurrency ==
    ASSUME Inv, Currency, UNCHANGED linuxVars, ReceiveCreate
    PROVE  Currency'
  <1>1. /\ TypeInv /\ FlowInv /\ AgentArrived("WINDOW_CREATE") /\ Answer(<<>>)
        /\ toServer' = Sent(<<>>) /\ UNCHANGED serverSocket
    BY DEF Inv, ReceiveCreate, Answer
  <1>2. 1 \in Creates /\ \A i \in Creates' : i \in Nat \ {0} /\ i + 1 \in Creates
    BY <1>1, AgentTakes, SilenceIsNoAck DEF Creates
  <1>3. Creates' = {} /\ ~ProxyExists
    BY <1>2 DEF Inv, FlowInv, Lifecycle
  <1>4. InputIsCurrent' /\ AcksInFlight' = AcksInFlight
    BY <1>1, ShortSequences, InputSaysWhatIsShown
  <1>5. \A id \in DOMAIN proxies' : proxies'[id].presentation = Hidden
    <2>1. \A id \in DOMAIN proxies' : proxies'[id] = NewProxy(AgentArrival)
      BY <1>3 DEF ReceiveCreate, ProxyExists
    <2>. QED
      BY <2>1 DEF NewProxy
  <1>6. serverSocket = "open" => insertions = 1 /\ ~Acknowledged
    BY <1>2 DEF Currency, ProxyIsCurrent
  <1>7. ProxyIsCurrent'
    <2>1. /\ UNCHANGED <<insertions, awaiting, helloReceived>> /\ Acknowledged' = Acknowledged
          /\ serverSocket' = serverSocket
      BY <1>1, <1>4, LinuxUntouched DEF Acknowledged
    <2>2. serverSocket = "open" => LastShown' = Hidden
      BY <1>6, <2>1 DEF LastShown
    <2>. QED
      BY <1>3, <1>5, <1>6, <2>1, <2>2 DEF Currency, ProxyIsCurrent
  <1>. QED
    BY <1>4, <1>7 DEF Currency

\* The presentation that waited is shown and acknowledged; all input on its
\* way was made before.
LEMMA DispatchKeepsCurrency ==
    ASSUME Inv, Currency, UNCHANGED linuxVars, DispatchPresents
    PROVE  Currency'
  <1>1. /\ TypeInv /\ FlowInv /\ toServer \in Seq(ToServerMessage)
        /\ DOMAIN pending \subseteq {FakeWindow} /\ DOMAIN proxies \subseteq {FakeWindow}
        /\ UNCHANGED <<toAgent, serverSocket, agentSocket>>
    BY DEF Inv, TypeInv, AgentTypeOK, WireTypeOK, DispatchPresents, Send
  <1>2. /\ proxies' = [id \in DOMAIN proxies |->
                         IF id \in Ready THEN Applied(id, pending[id]) ELSE proxies[id]]
        /\ \E order \in SetToSeqs(Ready) : toServer' = Sent(Acks(order))
    BY DEF DispatchPresents, Send
  <1>3. Creates' = Creates
    BY <1>1 DEF Creates
  <1>4. CASE ~Queued
    <2>1. Ready = {}
      BY <1>4 DEF Ready, Queued
    <2>2. toServer' = Sent(<<>>)
      BY <1>1, <1>2, <2>1, DispatchSpeaks
    <2>3. proxies' = [id \in DOMAIN proxies |-> proxies[id]]
      BY <1>2, <2>1
    <2>. QED
      BY <1>1, <1>3, <2>2, <2>3, SilenceKeepsCurrency
  <1>5. CASE Queued /\ serverSocket = "open"
    <2>0. /\ TypeInv /\ OnePlace /\ Lifecycle /\ InFlightIsNewest
      BY <1>1 DEF FlowInv
    <2>1. /\ DOMAIN proxies = {FakeWindow} /\ Ready = {FakeWindow}
          /\ AcksInFlight = {} /\ Creates = {} /\ agentSocket = "open"
          /\ pending[FakeWindow] = Newest /\ awaiting = {Newest.sequence}
      <3>1. ProxyExists /\ DOMAIN proxies = {FakeWindow}
        BY <1>1, <1>5, <2>0 DEF Lifecycle, ProxyExists
      <3>2. DOMAIN pending = {FakeWindow} /\ Ready = {FakeWindow}
        BY <1>1, <1>5, <3>1 DEF Queued, Ready
      <3>3. AcksInFlight = {} /\ Creates = {}
        BY <1>5, <2>0, <3>1 DEF OnePlace, Lifecycle
      <3>4. pending[FakeWindow] = Newest /\ awaiting = {Newest.sequence}
        BY <1>5, <2>0, <3>2 DEF InFlightIsNewest
      <3>5. agentSocket = "open"
        BY <1>5, <2>0, <3>1 DEF Lifecycle, TypeInv, WireTypeOK
      <3>. QED
        BY <3>1, <3>2, <3>3, <3>4, <3>5
    <2>. DEFINE ack == PresentAck(FakeWindow, pending[FakeWindow].sequence)  u == <<ack>>
                n == Len(toServer)
    <2>2. toServer' = Sent(u) /\ u \in Seq(ToServerMessage)
      BY <1>1, <1>2, <2>1, DispatchSpeaks, ShortSequences
    <2>3. ack.type = "WINDOW_PRESENT_ACK" /\ DOMAIN u = {1} /\ u[1] = ack
      BY DEF PresentAck
    <2>4. MessagesOf(u, "WINDOW_PRESENT_ACK") = {1}
      BY <2>3, OneMessage
    <2>. HIDE DEF ack, u
    <2>5. toServer' = toServer \o u
      BY <1>5, <2>1, <2>2 DEF Sent
    <2>6. /\ n \in Nat /\ DOMAIN toServer = 1 .. n
          /\ n + 1 \in MessagesOf(toServer \o u, "WINDOW_PRESENT_ACK")
          /\ \A i \in MessagesOf(toServer \o u, "WINDOW_PRESENT_ACK") :
                 i \in MessagesOf(toServer, "WINDOW_PRESENT_ACK")
                 \/ (i - n \in MessagesOf(u, "WINDOW_PRESENT_ACK") /\ i = n + (i - n))
      BY <1>1, <2>2, <2>4, Added, LenProperties
    <2>7. n + 1 \in AcksInFlight' /\ \A a \in AcksInFlight' : a = n + 1
      <3>1. MessagesOf(toServer, "WINDOW_PRESENT_ACK") = {}
        BY <2>1 DEF AcksInFlight
      <3>2. /\ n + 1 \in AcksInFlight'
            /\ \A i \in AcksInFlight' : i - n = 1 /\ i = n + (i - n)
        BY <2>4, <2>5, <2>6, <3>1, Zenon DEF AcksInFlight
      <3>. QED
        BY <2>6, <3>2
    <2>8. \A i \in Pointers' : i \in Pointers /\ Named(i)' = Named(i) /\ i \in 1 .. n
      <3>1. "WINDOW_PRESENT_ACK" \notin PointerTypes
        BY DEF PointerTypes
      <3>2. \A i \in Pointers' : i \in Pointers /\ Named(i)' = Named(i)
        BY <1>1, <2>2, <2>3, <3>1, InputIsAdded
      <3>. QED
        BY <2>6, <3>2 DEF Pointers
    <2>9. /\ Newest' = Newest /\ Older' = Older
          /\ UNCHANGED <<insertions, awaiting, helloReceived, serverSocket>>
      BY <1>1, LinuxUntouched DEF Older, linuxVars, sessionVars
    <2>10. InputIsCurrent'
      <3>. SUFFICES ASSUME NEW i \in Pointers'
                    PROVE  /\ insertions > 0
                           /\ \/ Named(i)' = Newest.sequence
                              \/ insertions > 1 /\ Named(i)' = Older.sequence /\ awaiting # {}
                           /\ (\E a \in AcksInFlight' : a < i) => Named(i)' = Newest.sequence
        BY <2>9 DEF InputIsCurrent
      <3>1. ~ \E a \in AcksInFlight' : a < i
        BY <2>6, <2>7, <2>8
      <3>. QED
        BY <1>5, <2>8, <3>1 DEF Currency, InputIsCurrent
    <2>11. \A id \in DOMAIN proxies' : proxies'[id].presentation = Newest
      <3>1. AgentTypeOK /\ FakeWindow \in DOMAIN proxies
        BY <1>1, <2>1 DEF TypeInv
      <3>2. "presentation" \in DOMAIN proxies[FakeWindow]
        BY <3>1 DEF AgentTypeOK, ProxyType
      <3>3. DOMAIN proxies' = {FakeWindow} /\ proxies'[FakeWindow] = Applied(FakeWindow, Newest)
        BY <1>2, <2>1
      <3>. QED
        BY <3>1, <3>3 DEF Applied, AgentTypeOK, ProxyType
    <2>12. ProxyIsCurrent'
      BY <1>3, <1>5, <2>1, <2>7, <2>9, <2>11 DEF Currency, ProxyIsCurrent, Acknowledged
    <2>. QED
      BY <2>10, <2>12 DEF Currency
  <1>6. CASE serverSocket # "open"
    BY <1>1, <1>6 DEF Currency, ProxyIsCurrent, InputIsCurrent
  <1>. QED
    BY <1>4, <1>5, <1>6

SameButForPixels(a, b) ==
    /\ a.presentation = b.presentation /\ a.physical = b.physical
    /\ a.width = b.width /\ a.height = b.height /\ a.buttons = b.buttons

\* Taking one of these messages changes no more of a proxy than its pixels.
LEMMA QuietHandlersShowNothing ==
    ASSUME AgentTypeOK, ReceiveHelloAck \/ ReceiveOutputConfig \/ ReceiveFrame
    PROVE  /\ DOMAIN proxies' = DOMAIN proxies /\ UNCHANGED <<pending, dispatches, agent, capture>>
           /\ \A id \in DOMAIN proxies :
                 /\ SameButForPixels(proxies'[id], proxies[id])
                 /\ proxies'[id].presentation = proxies[id].presentation
  <1>1. CASE ~ReceiveFrame
    BY <1>1 DEF ReceiveHelloAck, ReceiveOutputConfig, agentVars, applicationVars, desktopVars,
                SameButForPixels
  <1>2. CASE ReceiveFrame
    <2>. DEFINE m == AgentArrival  old == proxies[m.id]
                drawn == [old EXCEPT !.framebuffer = m.pixels]
                new == [drawn EXCEPT !.frameSequence = m.sequence]
    <2>1. /\ \A id \in DOMAIN proxies : proxies[id] \in ProxyType
          /\ m.id \in DOMAIN proxies /\ UNCHANGED <<pending, dispatches, agent, capture>>
          /\ proxies' = proxies \/ proxies' = [proxies EXCEPT ![m.id] = new]
      BY <1>2 DEF ReceiveFrame, CanApplyFrame, FitsProxy, AgentTypeOK, applicationVars, desktopVars
    <2>2. old \in ProxyType
      BY <2>1
    <2>. HIDE DEF old, m
    <2>3. DOMAIN drawn = DOMAIN old /\ SameButForPixels(drawn, old)
      BY <2>2 DEF ProxyType, SameButForPixels
    <2>4. DOMAIN old = DOMAIN drawn
             /\ {"presentation", "physical", "width", "height", "buttons"} \subseteq DOMAIN drawn
      BY <2>2, <2>3 DEF ProxyType
    <2>. HIDE DEF drawn
    <2>5. SameButForPixels(new, old)
      BY <2>3, <2>4 DEF SameButForPixels
    <2>. HIDE DEF new
    <2>. QED
      BY <2>1, <2>5 DEF SameButForPixels, old
  <1>. QED
    BY <1>1, <1>2

LEMMA AgentKeepsCurrency ==
    ASSUME Inv, Currency, ThreadStep
    PROVE  Currency'
  <1>1. AgentStep /\ UNCHANGED linuxVars /\ TypeInv /\ FlowInv /\ AgentTypeOK
    BY DEF ThreadStep, Inv, TypeInv
  <1>q. ASSUME ReceiveHelloAck \/ ReceiveOutputConfig \/ ReceiveFrame \/ ReceivePresent
        PROVE  Currency'
    <2>1. PICK type \in {"HELLO_ACK", "OUTPUT_CONFIG", "WINDOW_FRAME", "WINDOW_PRESENT"} :
             AgentArrived(type) /\ Answer(<<>>)
      BY <1>q DEF ReceiveHelloAck, ReceiveOutputConfig, ReceiveFrame, ReceivePresent
    <2>2. Carries(toAgent', toAgent, "WINDOW_CREATE", 1)
      BY <1>1, <2>1, AgentTakes, SilenceIsNoAck DEF FlowTypes
    <2>3. Creates' # {} => Creates # {}
      BY <2>2 DEF Carries, Creates
    <2>4. \A id \in DOMAIN proxies' :
             id \in DOMAIN proxies /\ proxies'[id].presentation = proxies[id].presentation
      <3>1. ReceivePresent => UNCHANGED proxies
        BY DEF ReceivePresent
      <3>. QED
        BY <1>1, <1>q, <3>1, QuietHandlersShowNothing
    <2>. QED
      BY <1>1, <2>1, <2>3, <2>4, SilenceKeepsCurrency DEF Answer
  <1>d. ASSUME ReceiveDestroy PROVE Currency'
    <2>1. PICK messages \in Seq(InputOf(LocationsNow)) : Answer(messages)
      BY <1>1, <1>d, DestroySpeaks
    <2>2. InputIsCurrent' /\ AcksInFlight' = AcksInFlight
      BY <1>1, <2>1, InputSaysWhatIsShown DEF Answer
    <2>3. Carries(toAgent', toAgent, "WINDOW_CREATE", 1)
      BY <1>1, <1>d, <2>1, InputIsNoAck, InputIsSent, AgentTakes DEF ReceiveDestroy, FlowTypes
    <2>4. ProxyIsCurrent'
      BY <1>1, <1>d, <2>1, <2>2, <2>3, DestroySpeaks, ProxyStaysCurrent DEF Carries, Creates, Answer
    <2>. QED
      BY <2>2, <2>4 DEF Currency
  <1>f. FailConnection(<<>>) => Currency'
    <2>. SUFFICES ASSUME FailConnection(<<>>) PROVE Currency'
      OBVIOUS
    <2>1. toServer' = toServer /\ toAgent' = <<>> /\ DOMAIN proxies' = {} /\ UNCHANGED serverSocket
      BY <1>1, ConcatProperties DEF FailConnection, Sent, TypeInv, WireTypeOK, Empty
    <2>. QED
      BY <1>1, <2>1, EndKeepsCurrency
  <1>e. ASSUME Exit PROVE Currency'
    <2>1. ~ProxyExists
      BY <1>1, <1>e DEF Exit, FlowInv, Lifecycle
    <2>. QED
      BY <1>1, <1>e, <2>1, EndKeepsCurrency DEF Exit, ProxyExists
  <1>9. ~ReceiveResize /\ ~ReceiveDamage /\ ~ReceiveActivate
    BY <1>1, AgentReads, ToAgentKinds DEF ReceiveResize, ReceiveDamage, ReceiveActivate
  <1>. QED
    BY <1>1, <1>q, <1>d, <1>f, <1>e, <1>9, CreateKeepsCurrency, DispatchKeepsCurrency,
       DispatchFailsSilently DEF AgentStep, SocketFails

LEMMA CurrencyInvariant ==
    ASSUME Capacity > 1
    PROVE  Spec => [](Inv /\ Currency)
  <1>1. Init => Inv /\ Currency
    <2>. SUFFICES ASSUME Init PROVE Currency
      BY InitEstablishesInv
    <2>1. /\ helloReceived = FALSE /\ toAgent = <<>> /\ toServer = <<Hello>> /\ DOMAIN proxies = {}
      BY DEF Init, ServerInit, AgentInit, Empty
    <2>2. Creates = {} /\ Pointers = {}
      BY <2>1 DEF Creates, MessagesOf, Pointers, Hello, PointerTypes
    <2>. QED
      BY <2>1, <2>2 DEF Currency, ProxyIsCurrent, InputIsCurrent
  <1>2. Inv /\ Currency /\ [Next]_vars => Inv' /\ Currency'
    <2>. SUFFICES ASSUME Inv, Currency, [Next]_vars PROVE Currency'
      BY NextKeepsInv
    <2>1. Inv'
      BY NextKeepsInv
    <2>2. CASE ServerStep
      BY <2>1, <2>2, ServerKeepsCurrency
    <2>3. CASE ThreadStep
      BY <2>3, AgentKeepsCurrency
    <2>4. CASE UserStep
      BY <2>4, UserKeepsCurrency
    <2>5. CASE KillStep
      BY <2>5, EndKeepsCurrency DEF KillStep, Kill, Empty
    <2>6. CASE UNCHANGED vars
      BY <2>6 DEF vars, linuxVars, sessionVars, serverVars, wireVars, agentVars, Currency,
                  ProxyIsCurrent, InputIsCurrent, Pointers, Named, Acknowledged, AcksInFlight,
                  Creates, LastShown, Newest, Older
    <2>. QED
      BY <2>2, <2>3, <2>4, <2>5, <2>6 DEF Next
  <1>. QED
    BY <1>1, <1>2, PTL DEF Spec

\* No input is ever dropped as stale (session.c: the history lookup of
\* cw_fake_server_map_pointer): the presentation a message names is one of the
\* two the server recorded last.  A history of one would not do - the server
\* has recorded the next presentation while input that names the one before
\* is still on its way.
THEOREM InputIsNeverStaleAlways ==
    ASSUME Capacity > 1
    PROVE  Spec => []InputIsNeverStale
  <1>1. Inv /\ Currency => InputIsNeverStale
    <2>. SUFFICES ASSUME Inv, Currency, serverSocket = "open", NEW i \in Pointers
                  PROVE  Lookup(Named(i)) # {}
      BY DEF InputIsNeverStale, Pointers, Named
    <2>1. /\ insertions \in Nat /\ insertions > 0 /\ Capacity \in Nat \ {0}
          /\ history \in [Slots -> Presentation]
      BY CapacityAssumption DEF Inv, TypeInv, SessionInv, SessionTypeOK, Currency, InputIsCurrent
    <2>2. /\ (insertions - 1) % Capacity \in 0 .. Available - 1
          /\ insertions > 1 => (insertions - 2) % Capacity \in 0 .. Available - 1
      BY <2>1, SlotIsAvailable
    <2>3. \A k \in 0 .. Available - 1 : history[k] \in Recorded /\ history[k].sequence # 0
      BY DEF Recorded, Inv, TypeInv, SessionInv, HistoryIsKeyed, PresentationIsValid
    <2>4. Newest \in Recorded /\ Newest.sequence # 0
          /\ (insertions > 1 => Older \in Recorded /\ Older.sequence # 0)
      BY <2>2, <2>3 DEF Newest, Older
    <2>. QED
      BY <2>4 DEF Currency, InputIsCurrent, Lookup
  <1>. QED
    BY <1>1, CurrencyInvariant, PTL
-----------------------------------------------------------------------------
(* The order of the presentations.                                         *)

\* Every presentation that is not yet shown is valid.  Outside a script, what is
\* on its way to the proxy is newer than what the proxy shows, also when the
\* server has gone; and what is deferred is newer than all that was recorded.
Ahead ==
    /\ \A i \in PresentsInFlight : PresentationIsValid(toAgent[i].presentation)
    /\ \A j \in DOMAIN pending : PresentationIsValid(pending[j])
    /\ \A p \in deferred : PresentationIsValid(p) /\ p.sequence # MaxSequence
    /\ ~mode.script => \A id \in DOMAIN proxies :
          /\ \A i \in PresentsInFlight :
                proxies[id].presentation.sequence < toAgent[i].presentation.sequence
          /\ \A j \in DOMAIN pending :
                proxies[id].presentation.sequence < pending[j].sequence
    /\ serverSocket = "open" /\ ~mode.script =>
          \A p \in deferred, q \in Recorded : q.sequence < p.sequence

LEMMA OtherMessageAdded ==
    ASSUME NEW S, NEW s \in Seq(S), NEW m \in S, NEW type, m.type # type
    PROVE  Carries(Append(s, m), s, type, 0)
  <1>. DEFINE u == <<m>>
  <1>1. Append(s, m) = s \o u /\ u \in Seq(S) /\ MessagesOf(u, type) = {}
    BY AppendIsConcat, ShortSequences, OneMessage
  <1>. HIDE DEF u
  <1>2. Carries(s \o u, s, type, 0)
    BY <1>1, CarriedByConcat
  <1>. QED
    BY <1>1, <1>2

LEMMA NewestIsRecorded ==
    ASSUME SessionInv, insertions > 0
    PROVE  Newest \in Recorded /\ Newest.sequence \in Nat \ {0} /\ Newest.sequence < nextSequence
  <1>1. insertions \in Nat
    BY DEF SessionInv, SessionTypeOK
  <1>2. (insertions - 1) % Capacity \in 0 .. Available - 1
    BY <1>1, SlotIsAvailable
  <1>3. (insertions - 1) % Capacity \in Slots
    BY <1>1, CapacityAssumption DEF Slots
  <1>4. Newest \in Presentation
    BY <1>3 DEF Newest, SessionInv, SessionTypeOK
  <1>5. Newest.sequence \in Nat
    BY <1>4, MaxSequenceAssumption DEF Presentation
  <1>. QED
    BY <1>2, <1>5 DEF Newest, Recorded, SessionInv, HistoryIsKeyed, PresentationIsValid

\* The server sends a presentation newer than what the proxy shows.
LEMMA SendKeepsAhead ==
    ASSUME Inv, Inv', Ahead, UNCHANGED <<mode, agentVars, serverSocket>>, serverSocket = "open",
           NEW sent, NEW p \in Presentation, NEW next, SendPresent(sent, p, next), deferred' = {},
           ~mode.script => \A id \in DOMAIN proxies : proxies[id].presentation.sequence < p.sequence
    PROVE  Ahead'
  <1>1. Newest' = p
    BY RecordedIsNewest DEF Inv, TypeInv, SendPresent
  <1>2. \A i \in PresentsInFlight' : toAgent'[i].presentation = p
    BY <1>1 DEF Inv, FlowInv, InFlightIsNewest
  <1>3. PresentationIsValid(p)
    BY DEF SendPresent, CanRecord
  <1>4. UNCHANGED <<mode, proxies, pending>>
    BY DEF agentVars, applicationVars
  <1>. QED
    BY <1>2, <1>3, <1>4 DEF Ahead

\* A step that records nothing and sends the agent no presentation.
LEMMA OthersKeepAhead ==
    ASSUME Inv, Ahead,
           UNCHANGED <<mode, pending, history, insertions>> \/ serverSocket' # "open",
           UNCHANGED <<mode, pending>>, DOMAIN proxies' = DOMAIN proxies,
           \A id \in DOMAIN proxies : proxies'[id].presentation = proxies[id].presentation,
           NEW k, Carries(toAgent', toAgent, "WINDOW_PRESENT", k),
           serverSocket' = "open" => serverSocket = "open", deferred' = deferred
    PROVE  Ahead'
  <1>1. \A i \in PresentsInFlight' : i + k \in PresentsInFlight /\ toAgent'[i] = toAgent[i + k]
    BY DEF Carries, PresentsInFlight
  <1>2. serverSocket' = "open" => Recorded' = Recorded
    BY DEF Recorded, Available
  <1>. QED
    BY <1>1, <1>2 DEF Ahead

LEMMA ServerKeepsAhead ==
    ASSUME Inv, Inv', Currency, Ahead, ServerStep
    PROVE  Ahead'
  <1>1. ServerHandles /\ UNCHANGED <<mode, agentVars>> /\ TypeInv /\ FlowInv /\ SessionInv
        /\ UNCHANGED <<mode, pending, proxies>> /\ toAgent \in Seq(ToAgentMessage)
    BY DEF ServerStep, ServerNext, Inv, TypeInv, WireTypeOK, agentVars, applicationVars
  <1>2. \A types : Arrived(types) /\ Consume => serverSocket = "open" /\ serverSocket' = "open"
    BY DEF Arrived, Consume
  <1>3. Carries(toAgent, toAgent, "WINDOW_PRESENT", 0)
    BY <1>1, CarriedBySame
  <1>4. ASSUME NEW m \in ToAgentMessage, m.type # "WINDOW_PRESENT", toAgent' = Append(toAgent, m)
        PROVE  Carries(toAgent', toAgent, "WINDOW_PRESENT", 0)
    BY <1>1, <1>4, OtherMessageAdded
  <1>5. ASSUME Acknowledged, serverSocket = "open", helloReceived
        PROVE  insertions > 0 /\ \A id \in DOMAIN proxies : proxies[id].presentation = Newest
    BY <1>5 DEF Currency, ProxyIsCurrent
  <1>h. ASSUME ServerHello PROVE Ahead'
    <2>1. /\ Arrived({"HELLO"}) /\ ~helloReceived /\ Consume /\ UNCHANGED deferred
      BY <1>h DEF ServerHello
    <2>2. /\ ~ProxyExists /\ deferred = {} /\ nextSequence = 1
      BY <1>1, <2>1 DEF FlowInv, Lifecycle, TypeInv, ServerTypeOK
    <2>3. \E p \in Presentation : \E next : SendPresent(Greeting, p, next)
      BY <1>1, <1>h, <2>2, FirstPresentation, Zenon DEF ServerHello
    <2>4. PICK p \in Presentation : \E next : SendPresent(Greeting, p, next)
      BY <2>3
    <2>5. PICK next : SendPresent(Greeting, p, next)
      BY <2>4
    <2>. QED
      BY <1>1, <1>2, <2>1, <2>2, <2>5, SendKeepsAhead DEF ProxyExists
  <1>a. ASSUME ServerPresentAck PROVE Ahead'
    <2>1. /\ Arrived({"WINDOW_PRESENT_ACK"}) /\ helloReceived /\ Consume /\ deferred' = {}
      BY <1>a DEF ServerPresentAck
    <2>2. /\ serverSocket = "open" /\ serverSocket' = "open" /\ AcksInFlight # {}
      BY <1>1, <1>2, <2>1, AckTaken
    <2>3. insertions > 0 /\ \A id \in DOMAIN proxies : proxies[id].presentation = Newest
      BY <1>5, <2>1, <2>2 DEF Acknowledged
    <2>4. CASE deferred = {} /\ ~mode.script
      <3>1. UNCHANGED <<history, insertions, toAgent>>
        BY <1>a, <2>4 DEF ServerPresentAck
      <3>. QED
        BY <1>1, <1>3, <2>1, <2>2, <2>4, <3>1, OthersKeepAhead
    <2>5. CASE deferred # {}
      <3>1. PICK p \in deferred : SendPresent(<<>>, p, nextSequence)
        BY <1>a, <2>5 DEF ServerPresentAck
      <3>2. p \in Presentation
        BY <1>1 DEF TypeInv, ServerTypeOK
      <3>3. ~mode.script => Newest.sequence < p.sequence
        BY <1>1, <2>2, <2>3, NewestIsRecorded DEF Ahead
      <3>. QED
        BY <1>1, <2>1, <2>2, <2>3, <3>1, <3>2, <3>3, SendKeepsAhead
    <2>6. CASE deferred = {} /\ mode.script
      <3>1. scriptStep' = scriptStep + 1
        BY <1>a, <2>6 DEF ServerPresentAck
      <3>2. CASE ScriptIsOver(scriptStep')
        <4>1. toAgent' = Append(toAgent, WindowDestroy(FakeWindow)) /\ UNCHANGED <<history, insertions>>
          BY <1>a, <2>6, <3>2 DEF ServerPresentAck
        <4>2. WindowDestroy(FakeWindow) \in ToAgentMessage
              /\ WindowDestroy(FakeWindow).type # "WINDOW_PRESENT"
          BY DEF ToAgentMessage, WindowDestroy
        <4>3. Carries(toAgent', toAgent, "WINDOW_PRESENT", 0)
          BY <1>4, <4>1, <4>2
        <4>. QED
          BY <1>1, <2>1, <2>2, <2>6, <4>1, <4>3, OthersKeepAhead
      <3>3. CASE ~ScriptIsOver(scriptStep')
        <4>1. SendPresent(<<>>, Script[scriptStep' + 1], nextSequence)
          BY <1>a, <2>6, <3>3 DEF ServerPresentAck
        <4>2. scriptStep < Len(Script) /\ scriptStep \in Nat /\ Len(Script) \in Nat
              /\ Script \in Seq(Presentation)
          BY <1>1, <2>1, <2>6, AckFindsTheScript, ScriptAssumption, LenProperties
             DEF TypeInv, ServerTypeOK
        <4>3. Script[scriptStep' + 1] \in Presentation
          BY <3>1, <3>3, <4>2, ElementOfSeq DEF ScriptIsOver
        <4>. QED
          BY <1>1, <2>1, <2>2, <2>6, <4>1, <4>3, SendKeepsAhead
      <3>. QED
        BY <3>2, <3>3
    <2>. QED
      BY <2>4, <2>5, <2>6
  <1>m. ASSUME ServerPointerMotion PROVE Ahead'
    <2>. DEFINE l == Arrival.location
    <2>1. /\ Arrived({"POINTER_MOTION"}) /\ helloReceived /\ Consume
      BY <1>m DEF ServerPointerMotion
    <2>2. serverSocket = "open" /\ serverSocket' = "open" /\ l \in Location
      BY <1>1, <1>2, <2>1, ServerReads, ToServerKinds DEF PointerTypes
    <2>. HIDE DEF l
    <2>3. \A p \in Generated(l) :
             /\ p \in Presentation /\ p.sequence = nextSequence
             /\ PresentationIsValid(p) /\ p.sequence # MaxSequence
      <3>1. nextSequence \in Nat
        BY <1>1, MaxSequenceAssumption DEF SessionInv, SessionTypeOK
      <3>. QED
        BY <1>1, <2>2, <3>1, MaxSequenceAssumption, MovesAndGenerated
    <2>4. CASE UNCHANGED <<history, insertions, awaiting, deferred, toAgent>>
      BY <1>1, <1>3, <2>2, <2>4, OthersKeepAhead
    <2>5. CASE Waits /\ deferred' = Generated(l) /\ UNCHANGED <<history, insertions, toAgent>>
      <3>1. \A q \in Recorded : q.sequence < nextSequence
        BY <1>1 DEF SessionInv, HistoryIsKeyed, Recorded
      <3>2. UNCHANGED PresentsInFlight /\ Recorded' = Recorded
        BY <2>5 DEF PresentsInFlight, Recorded, Available
      <3>. QED
        BY <1>1, <2>3, <2>5, <3>1, <3>2 DEF Ahead
    <2>6. CASE ~Waits /\ deferred' = deferred
               /\ \E p \in Generated(l) : SendPresent(<<>>, p, nextSequence + 1)
      <3>1. PICK p \in Generated(l) : SendPresent(<<>>, p, nextSequence + 1)
        BY <2>6
      <3>2. awaiting = {} /\ deferred' = {}
        BY <1>1, <2>2, <2>6 DEF Waits, FlowInv, InFlightIsNewest
      <3>3. insertions > 0 /\ \A id \in DOMAIN proxies : proxies[id].presentation = Newest
        BY <1>5, <2>1, <2>2, <3>2 DEF Acknowledged
      <3>4. Newest.sequence < p.sequence
        BY <1>1, <2>3, <3>3, NewestIsRecorded
      <3>. QED
        BY <1>1, <2>2, <2>3, <3>1, <3>2, <3>3, <3>4, SendKeepsAhead
    <2>. QED
      BY <1>m, <2>4, <2>5, <2>6 DEF ServerPointerMotion, Deferred, l
  <1>q. ASSUME ServerPointerLocation \/ ServerKeyboard \/ ServerCaptureLost PROVE Ahead'
    <2>1. /\ UNCHANGED <<history, insertions, deferred, toAgent>>
          /\ serverSocket' = "open" => serverSocket = "open"
      BY <1>q DEF ServerPointerLocation, ServerKeyboard, ServerCaptureLost, Consume,
                  sessionVars, serverVars
    <2>. QED
      BY <1>1, <1>3, <2>1, OthersKeepAhead
  <1>b. ASSUME ServerPointerButton PROVE Ahead'
    <2>1. /\ UNCHANGED <<history, insertions, deferred>>
          /\ serverSocket' = "open" => serverSocket = "open"
          /\ toAgent' = toAgent \/ toAgent' = Append(toAgent, Frame(crosshairs'))
      BY <1>b DEF ServerPointerButton, Consume
    <2>2. Frame(crosshairs') \in ToAgentMessage /\ Frame(crosshairs').type # "WINDOW_PRESENT"
      <3>1. crosshairs' \in SUBSET Point
        BY DEF Inv, TypeInv, ServerTypeOK
      <3>. QED
        BY <3>1 DEF ToAgentMessage, Frame, WindowFrame
    <2>3. Carries(toAgent', toAgent, "WINDOW_PRESENT", 0)
      BY <1>3, <1>4, <2>1, <2>2
    <2>. QED
      BY <1>1, <2>1, <2>3, OthersKeepAhead
  <1>x. ASSUME CloseConnection PROVE Ahead'
    <2>1. serverSocket' # "open" /\ UNCHANGED <<toAgent, deferred>>
      BY <1>x DEF CloseConnection, serverVars
    <2>. QED
      BY <1>1, <1>3, <2>1, OthersKeepAhead
  <1>. QED
    BY <1>1, <1>h, <1>a, <1>m, <1>q, <1>b, <1>x
       DEF ServerHandles, ServerRejectsAck, ServerRejectsMotion, ServerRejectsMessage, ServerPeerGone

\* What becomes of the proxies' presentations in a step of the agent.
LEMMA AgentKeepsAhead ==
    ASSUME Inv, Ahead, ThreadStep
    PROVE  Ahead'
  <1>1. AgentStep /\ TypeInv /\ FlowInv /\ AgentTypeOK /\ toAgent \in Seq(ToAgentMessage)
        /\ UNCHANGED <<mode, history, insertions, deferred>> /\ Recorded' = Recorded
    BY LinuxUntouched DEF ThreadStep, Inv, TypeInv, WireTypeOK, Recorded, Available
  <1>2. \A i \in PresentsInFlight : toAgent[i].presentation.sequence \in Nat \ {0}
    <2>. SUFFICES ASSUME NEW i \in PresentsInFlight
                  PROVE  toAgent[i].presentation.sequence \in Nat \ {0}
      OBVIOUS
    <2>1. toAgent[i] \in ToAgentMessage /\ toAgent[i].type = "WINDOW_PRESENT"
      BY <1>1, ElementOfSeq, LenProperties DEF PresentsInFlight, MessagesOf
    <2>2. toAgent[i].presentation \in Presentation
      BY <2>1, ToAgentKinds DEF WindowPresent
    <2>3. toAgent[i].presentation.sequence # 0
      BY DEF Ahead, PresentationIsValid
    <2>. QED
      BY <2>2, <2>3, MaxSequenceAssumption DEF Presentation
  <1>q. ASSUME ReceiveHelloAck \/ ReceiveOutputConfig \/ ReceiveFrame PROVE Ahead'
    <2>1. PICK type \in {"HELLO_ACK", "OUTPUT_CONFIG", "WINDOW_FRAME"} :
             AgentArrived(type) /\ Answer(<<>>)
      BY <1>q DEF ReceiveHelloAck, ReceiveOutputConfig, ReceiveFrame
    <2>2. Carries(toAgent', toAgent, "WINDOW_PRESENT", 1) /\ UNCHANGED serverSocket
      BY <1>1, <2>1, AgentTakes, SilenceIsNoAck DEF FlowTypes
    <2>3. /\ DOMAIN proxies' = DOMAIN proxies /\ UNCHANGED pending
          /\ \A id \in DOMAIN proxies : proxies'[id].presentation = proxies[id].presentation
      BY <1>1, <1>q, QuietHandlersShowNothing
    <2>. QED
      BY <1>1, <2>2, <2>3, OthersKeepAhead
  <1>c. ASSUME ReceiveCreate PROVE Ahead'
    <2>1. /\ AgentArrived("WINDOW_CREATE") /\ Answer(<<>>) /\ UNCHANGED pending
      BY <1>c DEF ReceiveCreate, applicationVars
    <2>2. /\ Carries(toAgent', toAgent, "WINDOW_PRESENT", 1) /\ UNCHANGED serverSocket
          /\ Creates # {}
      BY <1>1, <2>1, AgentTakes, SilenceIsNoAck DEF FlowTypes, Creates
    <2>3. \A i \in PresentsInFlight' : i + 1 \in PresentsInFlight /\ toAgent'[i] = toAgent[i + 1]
      BY <2>2 DEF Carries, PresentsInFlight
    <2>4. ~ProxyExists /\ ~Queued
      BY <1>1, <2>2 DEF FlowInv, Lifecycle
    <2>5. \A id \in DOMAIN proxies' : proxies'[id] = NewProxy(AgentArrival)
      BY <1>c, <2>4 DEF ReceiveCreate, ProxyExists
    <2>6. \A id \in DOMAIN proxies' : proxies'[id].presentation.sequence = 0
      BY <2>5 DEF NewProxy, Hidden
    <2>. QED
      BY <1>1, <1>2, <2>1, <2>2, <2>3, <2>4, <2>6 DEF Ahead, Queued
  <1>p. ASSUME ReceivePresent PROVE Ahead'
    <2>1. /\ AgentArrived("WINDOW_PRESENT") /\ Answer(<<>>) /\ UNCHANGED proxies
          /\ pending' = KeepNewest(AgentArrival.id, AgentArrival.presentation)
      BY <1>p DEF ReceivePresent
    <2>2. /\ 1 \in PresentsInFlight /\ UNCHANGED serverSocket
          /\ \A i \in PresentsInFlight' : i \in Nat \ {0} /\ i + 1 \in PresentsInFlight
      BY <1>1, <2>1, AgentTakes, SilenceIsNoAck DEF PresentsInFlight
    <2>3. PresentsInFlight' = {} /\ ~Queued
      BY <1>1, <2>2 DEF FlowInv, OnePlace
    <2>4. \A j \in DOMAIN pending' : pending'[j] = toAgent[1].presentation
      BY <1>1, <2>1, <2>3, AgentReads DEF KeepNewest, Queued
    <2>. QED
      BY <1>1, <2>1, <2>2, <2>3, <2>4 DEF Ahead
  <1>d. ASSUME ReceiveDestroy PROVE Ahead'
    <2>1. PICK messages \in Seq(InputOf(LocationsNow)) : Answer(messages)
      BY <1>1, <1>d, DestroySpeaks
    <2>2. Carries(toAgent', toAgent, "WINDOW_PRESENT", 1) /\ UNCHANGED serverSocket
      BY <1>1, <1>d, <2>1, InputIsNoAck, InputIsSent, AgentTakes DEF ReceiveDestroy, FlowTypes
    <2>3. DOMAIN proxies' = {} /\ DOMAIN pending' = {}
      BY <1>1, <1>d, DestroySpeaks
    <2>. QED
      BY <1>1, <2>2, <2>3 DEF Ahead, Carries, PresentsInFlight
  <1>a. ASSUME DispatchPresents PROVE Ahead'
    <2>1. /\ DOMAIN proxies' = DOMAIN proxies /\ DOMAIN pending' = {}
          /\ UNCHANGED <<toAgent, serverSocket>>
          /\ \A id \in DOMAIN proxies : proxies'[id] =
                IF id \in Ready THEN Applied(id, pending[id]) ELSE proxies[id]
      BY <1>a DEF DispatchPresents, Empty, Send
    <2>2. PresentsInFlight' = PresentsInFlight
      BY <2>1 DEF PresentsInFlight
    <2>3. CASE Queued
      <3>1. PresentsInFlight = {}
        BY <1>1, <2>3 DEF FlowInv, OnePlace
      <3>. QED
        BY <1>1, <2>1, <2>2, <3>1 DEF Ahead
    <2>4. CASE ~Queued
      <3>1. Ready = {}
        BY <2>4 DEF Ready, Queued
      <3>. QED
        BY <1>1, <2>1, <2>2, <3>1 DEF Ahead
    <2>. QED
      BY <2>3, <2>4
  <1>f. ASSUME FailConnection(<<>>) \/ Exit PROVE Ahead'
    <2>1. /\ toAgent' = <<>> /\ UNCHANGED serverSocket
          /\ DOMAIN proxies' = {} /\ DOMAIN pending' = {}
      BY <1>1, <1>f DEF FailConnection, Empty, Exit, FlowInv, Lifecycle, ProxyExists, Queued
    <2>2. PresentsInFlight' = {}
      BY <2>1 DEF PresentsInFlight, MessagesOf
    <2>. QED
      BY <1>1, <2>1, <2>2 DEF Ahead
  <1>9. ~ReceiveResize /\ ~ReceiveDamage /\ ~ReceiveActivate
    BY <1>1, AgentReads, ToAgentKinds DEF ReceiveResize, ReceiveDamage, ReceiveActivate
  <1>. QED
    BY <1>1, <1>q, <1>c, <1>p, <1>d, <1>a, <1>f, <1>9, DispatchFailsSilently DEF AgentStep, SocketFails

LEMMA AheadInvariant ==
    ASSUME Capacity > 1
    PROVE  Spec => [](Inv /\ Currency /\ Ahead)
  <1>1. Init => Ahead
    BY DEF Init, ServerInit, AgentInit, Empty, Ahead, PresentsInFlight, MessagesOf
  <1>2. Inv /\ Inv' /\ Currency /\ Ahead /\ [Next]_vars => Ahead'
    <2>. SUFFICES ASSUME Inv, Inv', Currency, Ahead, [Next]_vars PROVE Ahead'
      OBVIOUS
    <2>1. CASE ServerStep
      BY <2>1, ServerKeepsAhead
    <2>2. CASE ThreadStep
      BY <2>2, AgentKeepsAhead
    <2>3. CASE UserStep
      <3>1. /\ UNCHANGED <<linuxVars, toAgent, serverSocket, pending>> /\ DOMAIN proxies' = DOMAIN proxies
            /\ \A id \in DOMAIN proxies : proxies'[id].presentation = proxies[id].presentation
        BY <2>3, UserEffect DEF Inv, SameButForInput, applicationVars
      <3>2. UNCHANGED <<mode, deferred>> /\ Recorded' = Recorded /\ PresentsInFlight' = PresentsInFlight
        BY <3>1, LinuxUntouched DEF PresentsInFlight, Recorded, Available
      <3>. QED
        BY <3>1, <3>2 DEF Ahead
    <2>4. CASE KillStep
      <3>1. /\ UNCHANGED <<linuxVars, serverSocket>> /\ PresentsInFlight' = {}
            /\ DOMAIN proxies' = {} /\ DOMAIN pending' = {}
        BY <2>4 DEF KillStep, Kill, Empty, PresentsInFlight, MessagesOf
      <3>. QED
        BY <3>1, LinuxUntouched DEF Ahead, Recorded, Available
    <2>5. CASE UNCHANGED vars
      <3>1. /\ UNCHANGED <<linuxVars, toAgent, serverSocket, pending, proxies>>
            /\ PresentsInFlight' = PresentsInFlight
        BY <2>5 DEF vars, wireVars, agentVars, applicationVars, PresentsInFlight
      <3>. QED
        BY <3>1, LinuxUntouched DEF Ahead, Recorded, Available
    <2>. QED
      BY <2>1, <2>2, <2>3, <2>4, <2>5 DEF Next
  <1>. QED
    BY <1>1, <1>2, CurrencyInvariant, PTL DEF Spec

\* Outside a script the proxy never goes back to an older presentation
\* (ProxyWindow::apply_present takes what comes; that it comes in order is the
\* server's doing, which numbers and holds back its presentations).
THEOREM PresentationsAdvanceAlways ==
    ASSUME Capacity > 1
    PROVE  Spec => PresentationsAdvance
  <1>1. Inv /\ Ahead /\ [Next]_vars
           => [\A id \in DOMAIN proxies \cap DOMAIN proxies' :
                 ~mode.script /\ proxies'[id].presentation # proxies[id].presentation
                    => proxies'[id].presentation.sequence > proxies[id].presentation.sequence]_vars
    <2>. SUFFICES ASSUME Inv, Ahead, [Next]_vars,
                         NEW id \in DOMAIN proxies \cap DOMAIN proxies', ~mode.script,
                         proxies'[id].presentation # proxies[id].presentation
                  PROVE  proxies'[id].presentation.sequence > proxies[id].presentation.sequence
      BY Zenon
    <2>1. /\ id \in DOMAIN proxies /\ id \in DOMAIN proxies' /\ TypeInv /\ FlowInv /\ AgentTypeOK
      BY DEF Inv, TypeInv
    <2>2. /\ proxies[id].presentation.sequence \in Nat
          /\ \A j \in DOMAIN pending : pending[j].sequence \in Nat
      <3>1. /\ proxies[id].presentation \in Presentation
            /\ \A j \in DOMAIN pending : pending[j] \in Presentation
        BY <2>1 DEF AgentTypeOK, ProxyType
      <3>2. \A p \in Presentation : p.sequence \in Nat
        BY MaxSequenceAssumption DEF Presentation
      <3>. QED
        BY <3>1, <3>2
    <2>3. ~ServerStep /\ ~UNCHANGED vars
      BY <2>1 DEF ServerStep, vars, agentVars
    <2>4. ~UserStep
      BY <2>1, UserEffect DEF SameButForInput
    <2>5. ~KillStep
      BY <2>1 DEF KillStep, Kill, Empty
    <2>6. ThreadStep /\ AgentStep
      BY <2>3, <2>4, <2>5 DEF Next, ThreadStep
    <2>7. ~(ReceiveHelloAck \/ ReceiveOutputConfig \/ ReceiveFrame) /\ ~ReceivePresent
      BY <2>1, QuietHandlersShowNothing DEF ReceivePresent
    <2>8. ~ReceiveDestroy
      BY <2>1, DestroySpeaks
    <2>9. ~FailConnection(<<>>) /\ ~Exit
      BY <2>1 DEF FailConnection, Empty, Exit
    <2>10. ~ReceiveCreate
      <3>. SUFFICES ASSUME ReceiveCreate PROVE FALSE
        OBVIOUS
      <3>1. AgentArrived("WINDOW_CREATE") /\ Answer(<<>>)
        BY DEF ReceiveCreate
      <3>2. Creates # {}
        BY <2>1, <3>1, AgentTakes, SilenceIsNoAck DEF Creates
      <3>. QED
        BY <2>1, <3>2 DEF FlowInv, Lifecycle, ProxyExists
    <2>11. ~ReceiveResize /\ ~ReceiveDamage /\ ~ReceiveActivate
      BY <2>1, AgentReads, ToAgentKinds DEF ReceiveResize, ReceiveDamage, ReceiveActivate
    <2>12. DispatchPresents
      BY <2>1, <2>6, <2>7, <2>8, <2>9, <2>10, <2>11, DispatchFailsSilently DEF AgentStep, SocketFails
    <2>13. id \in Ready /\ proxies'[id] = Applied(id, pending[id])
      BY <2>1, <2>12 DEF DispatchPresents
    <2>14. proxies'[id].presentation = pending[id] /\ id \in DOMAIN pending
      BY <2>1, <2>13 DEF Applied, Ready, AgentTypeOK, ProxyType
    <2>. QED
      BY <2>1, <2>2, <2>14 DEF Ahead
  <1>. QED
    BY <1>1, AheadInvariant, PTL DEF Spec, PresentationsAdvance
-----------------------------------------------------------------------------
(* The window and its pixels on the way to the agent.                      *)

LEMMA Appended ==
    ASSUME NEW S, NEW s \in Seq(S), NEW m \in S, NEW type
    PROVE  /\ Len(s) \in Nat /\ Append(s, m)[Len(s) + 1] = m
           /\ \A i \in MessagesOf(s, type) :
                 i \in 1 .. Len(s) /\ i \in MessagesOf(Append(s, m), type) /\ Append(s, m)[i] = s[i]
           /\ \A i \in MessagesOf(Append(s, m), type) :
                 i \in MessagesOf(s, type) \/ (i = Len(s) + 1 /\ m.type = type)
           /\ m.type = type => Len(s) + 1 \in MessagesOf(Append(s, m), type)
  <1>1. /\ Len(s) \in Nat /\ DOMAIN s = 1 .. Len(s) /\ Append(s, m)[Len(s) + 1] = m
        /\ DOMAIN Append(s, m) = 1 .. Len(s) + 1
        /\ \A i \in 1 .. Len(s) : Append(s, m)[i] = s[i]
    OBVIOUS
  <1>. QED
    BY <1>1 DEF MessagesOf

\* What a handler of the server can say.
LEMMA ServerSays ==
    ASSUME Inv, Inv', ServerStep
    PROVE  /\ UNCHANGED <<mode, agentVars, agentSocket>>
           /\ \/ ServerHello /\ helloReceived' /\ UNCHANGED crosshairs
              \/ UNCHANGED <<helloReceived, toAgent, crosshairs>>
              \/ /\ helloReceived /\ helloReceived'
                 /\ toAgent' = Append(toAgent, Frame(crosshairs'))
                 /\ Frame(crosshairs') \in ToAgentMessage
              \/ /\ helloReceived /\ helloReceived' /\ UNCHANGED crosshairs
                 /\ \E m \in ToAgentMessage :
                       /\ toAgent' = Append(toAgent, m)
                       /\ m.type = "WINDOW_PRESENT" \/ (m.type = "WINDOW_DESTROY" /\ mode.script)
  <1>1. /\ ServerHandles /\ UNCHANGED <<mode, agentVars>> /\ toAgent \in Seq(ToAgentMessage)
        /\ toAgent' \in Seq(ToAgentMessage) /\ crosshairs' \in SUBSET Point
    BY DEF ServerStep, ServerNext, Inv, TypeInv, WireTypeOK, ServerTypeOK
  <1>2. UNCHANGED agentSocket
    BY <1>1 DEF ServerHandles, ServerHello, ServerPresentAck, ServerRejectsAck, ServerPointerLocation,
                ServerPointerMotion, ServerRejectsMotion, ServerPointerButton, ServerCaptureLost,
                ServerKeyboard, ServerRejectsMessage, ServerPeerGone, CloseConnection, Consume
  <1>3. ASSUME NEW p, NEW next, SendPresent(<<>>, p, next)
        PROVE  \E m \in ToAgentMessage : toAgent' = Append(toAgent, m) /\ m.type = "WINDOW_PRESENT"
    <2>. DEFINE m == WindowPresent(FakeWindow, p)
    <2>1. toAgent' = Append(toAgent, m)
      BY <1>1, <1>3, ConcatProperties DEF SendPresent
    <2>2. m.type = "WINDOW_PRESENT"
      BY DEF WindowPresent
    <2>. HIDE DEF m
    <2>3. Len(toAgent) + 1 \in DOMAIN toAgent' /\ toAgent'[Len(toAgent) + 1] = m
      BY <1>1, <2>1
    <2>4. m \in ToAgentMessage
      BY <1>1, <2>3, ElementOfSeq, LenProperties
    <2>. QED
      BY <2>1, <2>2, <2>4
  <1>h. ServerHello => helloReceived' /\ UNCHANGED crosshairs
    BY DEF ServerHello
  <1>a. ASSUME ServerPresentAck
        PROVE  /\ helloReceived /\ helloReceived' /\ UNCHANGED crosshairs
               /\ \/ UNCHANGED <<helloReceived, toAgent>>
                  \/ \E m \in ToAgentMessage :
                        /\ toAgent' = Append(toAgent, m)
                        /\ m.type = "WINDOW_PRESENT" \/ (m.type = "WINDOW_DESTROY" /\ mode.script)
    <2>1. helloReceived /\ helloReceived' /\ UNCHANGED <<crosshairs, helloReceived>>
      BY <1>a DEF ServerPresentAck
    <2>2. \/ UNCHANGED toAgent
          \/ \E p, next : SendPresent(<<>>, p, next)
          \/ mode.script /\ toAgent' = Append(toAgent, WindowDestroy(FakeWindow))
      BY <1>a DEF ServerPresentAck
    <2>3. WindowDestroy(FakeWindow) \in ToAgentMessage /\ WindowDestroy(FakeWindow).type = "WINDOW_DESTROY"
      BY DEF ToAgentMessage, WindowDestroy
    <2>. QED
      BY <1>3, <2>1, <2>2, <2>3
  <1>m. ASSUME ServerPointerMotion
        PROVE  /\ helloReceived /\ helloReceived' /\ UNCHANGED <<helloReceived, crosshairs>>
               /\ UNCHANGED toAgent \/ \E p, next : SendPresent(<<>>, p, next)
    BY <1>m DEF ServerPointerMotion
  <1>b. ASSUME ServerPointerButton
        PROVE  /\ helloReceived /\ helloReceived' /\ UNCHANGED helloReceived
               /\ UNCHANGED <<toAgent, crosshairs>> \/ toAgent' = Append(toAgent, Frame(crosshairs'))
    BY <1>b DEF ServerPointerButton
  <1>q. ServerPointerLocation \/ ServerKeyboard \/ ServerCaptureLost \/ CloseConnection
           => UNCHANGED <<helloReceived, toAgent, crosshairs>>
    BY DEF ServerPointerLocation, ServerKeyboard, ServerCaptureLost, CloseConnection, serverVars
  <1>4. Frame(crosshairs') \in ToAgentMessage
    BY <1>1 DEF ToAgentMessage
  <1>. QED
    BY <1>1, <1>2, <1>3, <1>4, <1>h, <1>a, <1>m, <1>b, <1>q
       DEF ServerHandles, ServerRejectsAck, ServerRejectsMotion, ServerRejectsMessage, ServerPeerGone

\* The agent has the output's scale before it has the window, and the window
\* before anything else of it arrives.
WindowInv ==
    /\ ProxyExists => outputScale # {}
    /\ \A id \in DOMAIN proxies :
          proxies[id].width = InitialWindow.w /\ proxies[id].height = InitialWindow.h
    /\ agentSocket = "open" =>
          /\ \A c \in Creates : outputScale # {} \/ \E j \in Configs : j < c
          /\ ~mode.script =>
                /\ helloReceived => ProxyExists \/ Creates # {}
                /\ \A i \in Frames \cup PresentsInFlight :
                      ProxyExists \/ \E c \in Creates : c < i

\* The last frame on its way, or the proxy when there is none, has every
\* crosshair; a frame follows the creation of the window.
PixelInv ==
    /\ ~helloReceived => crosshairs = {}
    /\ \A id \in DOMAIN proxies : proxies[id].frameSequence \in {0, 1}
    /\ agentSocket = "open" =>
          /\ \A c \in Creates : \E f \in Frames : c < f
          /\ \A f \in Frames : (\A g \in Frames : g <= f) => toAgent[f].pixels = crosshairs
          /\ Frames = {} => \A id \in DOMAIN proxies : proxies[id].framebuffer = crosshairs

LEMMA ServerKeepsWindow ==
    ASSUME Inv, Inv', WindowInv, PixelInv, ServerStep
    PROVE  WindowInv' /\ PixelInv'
  <1>1. /\ UNCHANGED <<mode, agentVars, agentSocket, proxies, outputScale>>
        /\ toAgent \in Seq(ToAgentMessage) /\ ProxyExists' = ProxyExists /\ TypeInv /\ FlowInv
    BY ServerSays DEF agentVars, applicationVars, ProxyExists, Inv, TypeInv, WireTypeOK
  <1>2. CASE ServerHello /\ helloReceived' /\ UNCHANGED crosshairs
    <2>1. /\ PresentsInFlight' = {5} /\ Creates' = {3} /\ Configs' = {2} /\ Frames' = {4}
          /\ toAgent'[4] = Frame({}) /\ ~ProxyExists
      BY <1>1, <1>2, GreetingSent
    <2>2. crosshairs' = {}
      BY <1>2 DEF ServerHello, PixelInv
    <2>3. toAgent'[4].pixels = {}
      BY <2>1 DEF Frame, WindowFrame
    <2>4. WindowInv'
      BY <1>1, <2>1 DEF WindowInv
    <2>5. PixelInv'
      BY <1>1, <1>2, <2>1, <2>2, <2>3 DEF PixelInv, ProxyExists
    <2>. QED
      BY <2>4, <2>5
  <1>3. CASE UNCHANGED <<helloReceived, toAgent, crosshairs>>
    BY <1>1, <1>3 DEF WindowInv, PixelInv, Creates, Configs, Frames, PresentsInFlight
  <1>4. ASSUME helloReceived, helloReceived', NEW m \in ToAgentMessage, toAgent' = Append(toAgent, m),
               \/ m = Frame(crosshairs')
               \/ UNCHANGED crosshairs /\ m.type = "WINDOW_PRESENT"
               \/ UNCHANGED crosshairs /\ m.type = "WINDOW_DESTROY" /\ mode.script
        PROVE  WindowInv' /\ PixelInv'
    <2>. DEFINE n == Len(toAgent)
    <2>1. /\ n \in Nat /\ toAgent'[n + 1] = m
          /\ \A type :
                /\ \A i \in MessagesOf(toAgent, type) :
                      i \in 1 .. n /\ i \in MessagesOf(toAgent', type) /\ toAgent'[i] = toAgent[i]
                /\ \A i \in MessagesOf(toAgent', type) :
                      i \in MessagesOf(toAgent, type) \/ (i = n + 1 /\ m.type = type)
                /\ m.type = type => n + 1 \in MessagesOf(toAgent', type)
      BY <1>1, <1>4, Appended
    <2>2. \A pixels : Frame(pixels).type = "WINDOW_FRAME" /\ Frame(pixels).pixels = pixels
      BY DEF Frame, WindowFrame
    <2>. HIDE DEF n
    <2>3. /\ \A i \in Frames : i \in 1 .. n /\ i \in Frames' /\ toAgent'[i] = toAgent[i]
          /\ \A i \in Frames' : i \in Frames \/ (i = n + 1 /\ m.type = "WINDOW_FRAME")
          /\ m.type = "WINDOW_FRAME" => n + 1 \in Frames'
          /\ \A c \in Creates : c \in 1 .. n
          /\ \A i \in PresentsInFlight' : i \in PresentsInFlight \/ (i = n + 1 /\ m.type = "WINDOW_PRESENT")
          /\ Creates' = Creates /\ Configs' = Configs
      <3>1. m.type \notin {"WINDOW_CREATE", "OUTPUT_CONFIG"}
        BY <1>4, <2>2
      <3>2. \A i : (i \in Creates' <=> i \in Creates) /\ (i \in Configs' <=> i \in Configs)
        BY <2>1, <3>1 DEF Creates, Configs
      <3>. QED
        BY <2>1, <3>2 DEF Creates, Configs, Frames, PresentsInFlight
    <2>4. WindowInv'
      <3>1. agentSocket = "open" /\ ~mode.script =>
               (ProxyExists \/ \E c \in Creates : c < n + 1)
        BY <1>4, <2>1, <2>3 DEF WindowInv
      <3>. QED
        BY <1>1, <1>4, <2>3, <3>1 DEF WindowInv
    <2>5. PixelInv'
      <3>1. CASE m = Frame(crosshairs')
        <4>1. n + 1 \in Frames' /\ toAgent'[n + 1].pixels = crosshairs'
          BY <2>1, <2>2, <2>3, <3>1
        <4>2. \A f \in Frames' : (\A g \in Frames' : g <= f) => f = n + 1
          BY <2>1, <2>3, <4>1
        <4>3. \A c \in Creates' : c < n + 1
          BY <2>1, <2>3
        <4>4. Frames' # {} /\ (\A f \in Frames' : (\A g \in Frames' : g <= f)
                                                  => toAgent'[f].pixels = crosshairs')
          BY <4>1, <4>2
        <4>. QED
          BY <1>1, <1>4, <4>1, <4>3, <4>4 DEF PixelInv
      <3>2. CASE UNCHANGED crosshairs /\ m.type # "WINDOW_FRAME"
        <4>1. Frames' = Frames /\ \A f \in Frames : toAgent'[f] = toAgent[f]
          BY <2>3, <3>2
        <4>. QED
          BY <1>1, <1>4, <2>3, <3>2, <4>1 DEF PixelInv
      <3>. QED
        BY <1>4, <3>1, <3>2
    <2>. QED
      BY <2>4, <2>5
  <1>. QED
    BY <1>2, <1>3, <1>4, ServerSays
\* The agent took the first message.
LEMMA AgentTook ==
    ASSUME TypeInv, toAgent # <<>>, toAgent' = Tail(toAgent), NEW type
    PROVE  /\ \A i \in MessagesOf(toAgent', type) :
                 /\ i \in Nat \ {0} /\ i + 1 \in MessagesOf(toAgent, type)
                 /\ toAgent'[i] = toAgent[i + 1]
           /\ \A i \in MessagesOf(toAgent, type) :
                 i \in Nat \ {0} /\ (i = 1 \/ i - 1 \in MessagesOf(toAgent', type))
           /\ 1 \in MessagesOf(toAgent, type) => AgentArrival.type = type
           /\ AgentArrival = toAgent[1]
  <1>1. toAgent \in Seq(ToAgentMessage)
    BY DEF TypeInv, WireTypeOK
  <1>2. /\ \A i \in MessagesOf(Tail(toAgent), type) :
              /\ i \in Nat \ {0} /\ i + 1 \in MessagesOf(toAgent, type)
              /\ Tail(toAgent)[i] = toAgent[i + 1]
        /\ \A i \in MessagesOf(toAgent, type) :
              i \in Nat \ {0} /\ (i = 1 \/ i - 1 \in MessagesOf(Tail(toAgent), type))
        /\ 1 \in MessagesOf(toAgent, type) => toAgent[1].type = type
        /\ Head(toAgent) = toAgent[1]
    BY <1>1, Took DEF MessagesOf
  <1>. QED
    BY <1>2, Zenon DEF AgentArrival

LEMMA TakingKeepsWindow ==
    ASSUME TypeInv, WindowInv, UNCHANGED <<mode, helloReceived>>,
           toAgent # <<>>, toAgent' = Tail(toAgent), agentSocket = "open",
           outputScale # {} \/ AgentArrival.type = "OUTPUT_CONFIG" => outputScale' # {},
           ~mode.script /\ (ProxyExists \/ AgentArrival.type = "WINDOW_CREATE") => ProxyExists',
           ProxyExists' => outputScale' # {},
           \A id \in DOMAIN proxies' :
              proxies'[id].width = InitialWindow.w /\ proxies'[id].height = InitialWindow.h
    PROVE  WindowInv'
  <1>1. /\ \A c \in Creates' : c \in Nat \ {0} /\ c + 1 \in Creates
        /\ \A c \in Creates : c \in Nat \ {0} /\ (c = 1 \/ c - 1 \in Creates')
        /\ 1 \in Creates => AgentArrival.type = "WINDOW_CREATE"
    BY AgentTook DEF Creates
  <1>2. /\ \A c \in Configs : c \in Nat \ {0} /\ (c = 1 \/ c - 1 \in Configs')
        /\ 1 \in Configs => AgentArrival.type = "OUTPUT_CONFIG"
    BY AgentTook DEF Configs
  <1>3. \A i \in (Frames \cup PresentsInFlight)' :
           i \in Nat \ {0} /\ i + 1 \in Frames \cup PresentsInFlight
    BY AgentTook DEF Frames, PresentsInFlight
  <1>4. ASSUME NEW c \in Creates', outputScale' = {} PROVE \E j \in Configs' : j < c
    <2>1. PICK j \in Configs : j < c + 1
      BY <1>1, <1>4 DEF WindowInv
    <2>2. j - 1 \in Configs' /\ j \in Nat
      BY <1>2, <1>4, <2>1
    <2>. QED
      BY <1>1, <2>1, <2>2
  <1>5. ASSUME ~mode.script, helloReceived, ~ProxyExists' PROVE Creates' # {}
    BY <1>1, <1>5 DEF WindowInv
  <1>6. ASSUME ~mode.script, ~ProxyExists', NEW i \in (Frames \cup PresentsInFlight)'
        PROVE  \E c \in Creates' : c < i
    <2>1. PICK c \in Creates : c < i + 1
      BY <1>3, <1>6 DEF WindowInv
    <2>2. c - 1 \in Creates' /\ c \in Nat
      BY <1>1, <1>6, <2>1
    <2>. QED
      BY <1>3, <1>6, <2>1, <2>2
  <1>. QED
    BY <1>4, <1>5, <1>6 DEF WindowInv

LEMMA TakingKeepsPixels ==
    ASSUME TypeInv, PixelInv, UNCHANGED <<helloReceived, crosshairs>>,
           toAgent # <<>>, toAgent' = Tail(toAgent), agentSocket = "open",
           \A id \in DOMAIN proxies' :
              /\ proxies'[id].frameSequence \in {0, 1}
              /\ Frames' = {} => proxies'[id].framebuffer = crosshairs
    PROVE  PixelInv'
  <1>1. /\ \A c \in Creates' : c \in Nat \ {0} /\ c + 1 \in Creates
        /\ \A f \in Frames' : f \in Nat \ {0} /\ f + 1 \in Frames /\ toAgent'[f] = toAgent[f + 1]
        /\ \A f \in Frames : f \in Nat \ {0} /\ (f = 1 \/ f - 1 \in Frames')
    BY AgentTook DEF Creates, Frames
  <1>2. ASSUME NEW c \in Creates' PROVE \E f \in Frames' : c < f
    <2>1. PICK f \in Frames : c + 1 < f
      BY <1>1 DEF PixelInv
    <2>2. f - 1 \in Frames' /\ f \in Nat
      BY <1>1, <2>1
    <2>. QED
      BY <1>1, <2>1, <2>2
  <1>3. ASSUME NEW f \in Frames', \A g \in Frames' : g <= f PROVE toAgent'[f].pixels = crosshairs
    <2>1. ASSUME NEW g \in Frames PROVE g <= f + 1
      BY <1>1, <1>3
    <2>. QED
      BY <1>1, <2>1 DEF PixelInv
  <1>. QED
    BY <1>2, <1>3 DEF PixelInv
LEMMA FrameIsDrawn ==
    ASSUME Inv, PixelInv, ReceiveFrame
    PROVE  \A id \in DOMAIN proxies' :
              proxies'[id].frameSequence = 1 /\ proxies'[id].framebuffer = AgentArrival.pixels
  <1>1. /\ AgentTypeOK /\ TypeInv /\ AgentArrived("WINDOW_FRAME") /\ AgentArrival.id \in DOMAIN proxies
        /\ \A id \in DOMAIN proxies : proxies[id] \in ProxyType
        /\ DOMAIN proxies \subseteq {FakeWindow}
    BY DEF Inv, TypeInv, AgentTypeOK, ReceiveFrame, CanApplyFrame, FitsProxy
  <1>2. PICK pixels \in SUBSET Point : AgentArrival = Frame(pixels)
    BY <1>1, AgentReads, ToAgentKinds
  <1>3. AgentArrival.id = FakeWindow /\ AgentArrival.pixels = pixels /\ AgentArrival.sequence = 1
    BY <1>2 DEF Frame, WindowFrame
  <1>4. ~IsOldFrame(AgentArrival)
    BY <1>1, <1>3 DEF IsOldFrame, PixelInv
  <1>. DEFINE old == proxies[FakeWindow]
              drawn == [old EXCEPT !.framebuffer = pixels]
              new == [drawn EXCEPT !.frameSequence = 1]
  <1>5. proxies' = [proxies EXCEPT ![FakeWindow] = new]
    BY <1>1, <1>3, <1>4 DEF ReceiveFrame
  <1>6. old \in ProxyType
    BY <1>1, <1>3
  <1>. HIDE DEF old
  <1>7. drawn.framebuffer = pixels /\ "frameSequence" \in DOMAIN drawn
    BY <1>6 DEF ProxyType
  <1>. HIDE DEF drawn
  <1>8. new.framebuffer = pixels /\ new.frameSequence = 1
    BY <1>7
  <1>. HIDE DEF new
  <1>. QED
    BY <1>1, <1>3, <1>5, <1>8

LEMMA DispatchShowsOnly ==
    ASSUME AgentTypeOK, DispatchPresents
    PROVE  /\ DOMAIN proxies' = DOMAIN proxies /\ UNCHANGED <<toAgent, agentSocket, outputScale>>
           /\ \A id \in DOMAIN proxies :
                 /\ proxies'[id].width = proxies[id].width /\ proxies'[id].height = proxies[id].height
                 /\ proxies'[id].framebuffer = proxies[id].framebuffer
                 /\ proxies'[id].frameSequence = proxies[id].frameSequence
                 /\ proxies'[id].buttons = proxies[id].buttons
  <1>1. /\ DOMAIN proxies' = DOMAIN proxies /\ UNCHANGED <<toAgent, agentSocket, outputScale>>
        /\ \A id \in DOMAIN proxies : proxies'[id] =
              IF id \in Ready THEN Applied(id, pending[id]) ELSE proxies[id]
    BY DEF DispatchPresents, Send
  <1>2. ASSUME NEW id \in DOMAIN proxies, NEW p
        PROVE  /\ Applied(id, p).width = proxies[id].width /\ Applied(id, p).height = proxies[id].height
               /\ Applied(id, p).framebuffer = proxies[id].framebuffer
               /\ Applied(id, p).frameSequence = proxies[id].frameSequence
               /\ Applied(id, p).buttons = proxies[id].buttons
    <2>. DEFINE old == proxies[id]
                physical == IF p.visible THEN CHOOSE r \in PhysicalDestination(p) : TRUE ELSE EmptyRect
                shown == [old EXCEPT !.presentation = p]
    <2>1. Applied(id, p) = [shown EXCEPT !.physical = physical]
      BY DEF Applied
    <2>2. old \in ProxyType
      BY <1>2 DEF AgentTypeOK
    <2>. HIDE DEF old, physical
    <2>. QED
      BY <2>1, <2>2 DEF ProxyType, old
  <1>. QED
    BY <1>1, <1>2

LEMMA AgentKeepsWindow ==
    ASSUME Inv, WindowInv, PixelInv, ThreadStep
    PROVE  WindowInv' /\ PixelInv'
  <1>1. AgentStep /\ TypeInv /\ FlowInv /\ AgentTypeOK
        /\ UNCHANGED <<mode, helloReceived, crosshairs>>
    BY DEF ThreadStep, Inv, TypeInv, linuxVars, serverVars
  <1>2. ASSUME NEW type, AgentArrived(type), NEW messages, Answer(messages)
        PROVE  /\ toAgent # <<>> /\ toAgent' = Tail(toAgent) /\ agentSocket = "open"
               /\ AgentArrival.type = type /\ AgentArrival \in ToAgentMessage
               /\ type # "WINDOW_FRAME" /\ Frames' = {} => Frames = {}
    <2>1. /\ toAgent # <<>> /\ toAgent' = Tail(toAgent) /\ agentSocket = "open"
          /\ AgentArrival.type = type /\ AgentArrival \in ToAgentMessage
      BY <1>1, <1>2, AgentReads DEF Answer
    <2>2. /\ \A f \in Frames : f \in Nat \ {0} /\ (f = 1 \/ f - 1 \in Frames')
          /\ 1 \in Frames => AgentArrival.type = "WINDOW_FRAME"
      BY <1>1, <2>1, AgentTook DEF Frames
    <2>. QED
      BY <2>1, <2>2
  <1>q. ASSUME ReceiveHelloAck \/ ReceiveOutputConfig \/ ReceiveFrame \/ ReceivePresent
        PROVE  WindowInv' /\ PixelInv'
    <2>1. PICK type \in {"HELLO_ACK", "OUTPUT_CONFIG", "WINDOW_FRAME", "WINDOW_PRESENT"} :
             /\ AgentArrived(type) /\ Answer(<<>>)
             /\ type = "WINDOW_FRAME" => ReceiveFrame
      BY <1>q DEF ReceiveHelloAck, ReceiveOutputConfig, ReceiveFrame, ReceivePresent
    <2>2. /\ DOMAIN proxies' = DOMAIN proxies
          /\ \A id \in DOMAIN proxies :
                proxies'[id].width = proxies[id].width /\ proxies'[id].height = proxies[id].height
      BY <1>1, <1>q, QuietHandlersShowNothing DEF ReceivePresent, SameButForPixels
    <2>3. /\ outputScale # {} \/ AgentArrival.type = "OUTPUT_CONFIG" => outputScale' # {}
          /\ ReceiveFrame \/ UNCHANGED proxies
      BY <1>1, <1>2, <1>q, <2>1 DEF ReceiveHelloAck, ReceiveOutputConfig, ReceiveFrame, ReceivePresent,
         AgentArrived, AgentArrival, agentVars, applicationVars
    <2>4. WindowInv'
      BY <1>1, <1>2, <2>1, <2>2, <2>3, TakingKeepsWindow DEF WindowInv, ProxyExists
    <2>5. \A id \in DOMAIN proxies' :
             /\ proxies'[id].frameSequence \in {0, 1}
             /\ Frames' = {} => proxies'[id].framebuffer = crosshairs
      <3>1. CASE ReceiveFrame
        <4>1. AgentArrived("WINDOW_FRAME") /\ Answer(<<>>)
          BY <3>1 DEF ReceiveFrame
        <4>2. /\ toAgent # <<>> /\ toAgent' = Tail(toAgent) /\ agentSocket = "open"
              /\ AgentArrival = toAgent[1] /\ 1 \in Frames
              /\ \A f \in Frames : f \in Nat \ {0} /\ (f = 1 \/ f - 1 \in Frames')
          BY <1>1, <1>2, <4>1, AgentTook, ATail DEF Frames, MessagesOf, TypeInv, WireTypeOK
        <4>3. Frames' = {} => AgentArrival.pixels = crosshairs
          BY <4>2 DEF PixelInv
        <4>. QED
          BY <3>1, <4>3, FrameIsDrawn
      <3>2. CASE ~ReceiveFrame
        BY <1>2, <2>1, <2>3, <3>2 DEF PixelInv
      <3>. QED
        BY <3>1, <3>2
    <2>6. PixelInv'
      BY <1>1, <1>2, <2>1, <2>5, TakingKeepsPixels
    <2>. QED
      BY <2>4, <2>6
  <1>c. ASSUME ReceiveCreate PROVE WindowInv' /\ PixelInv'
    <2>1. /\ AgentArrived("WINDOW_CREATE") /\ Answer(<<>>) /\ outputScale # {} /\ UNCHANGED outputScale
      BY <1>c DEF ReceiveCreate, CanCreate, applicationVars
    <2>2. 1 \in Creates
      BY <1>1, <2>1, AgentTakes, SilenceIsNoAck DEF Creates
    <2>3. ~ProxyExists
      BY <1>1, <2>2 DEF FlowInv, Lifecycle
    <2>4. /\ \A id \in DOMAIN proxies' : proxies'[id] = NewProxy(AgentArrival)
          /\ ProxyExists'
      BY <1>c, <2>3 DEF ReceiveCreate, ProxyExists
    <2>5. AgentArrival = WindowCreate(FakeWindow, 0, InitialWindow.w, InitialWindow.h)
      BY <1>2, <2>1, ToAgentKinds
    <2>6. /\ NewProxy(AgentArrival).width = InitialWindow.w
          /\ NewProxy(AgentArrival).height = InitialWindow.h
          /\ NewProxy(AgentArrival).frameSequence = 0
      BY <2>5 DEF NewProxy, WindowCreate
    <2>7. WindowInv'
      BY <1>1, <1>2, <2>1, <2>4, <2>6, TakingKeepsWindow
    <2>8. Frames' # {}
      <3>1. \A f \in Frames : f \in Nat \ {0} /\ (f = 1 \/ f - 1 \in Frames')
        BY <1>1, <1>2, <2>1, AgentTook DEF Frames
      <3>2. \E f \in Frames : 1 < f
        BY <1>2, <2>1, <2>2 DEF PixelInv
      <3>. QED
        BY <3>1, <3>2
    <2>9. PixelInv'
      BY <1>1, <1>2, <2>1, <2>4, <2>6, <2>8, TakingKeepsPixels
    <2>. QED
      BY <2>7, <2>9
  <1>d. ASSUME ReceiveDestroy PROVE WindowInv' /\ PixelInv'
    <2>1. PICK messages \in Seq(InputOf(LocationsNow)) : Answer(messages)
      BY <1>1, <1>d, DestroySpeaks
    <2>2. AgentArrived("WINDOW_DESTROY") /\ UNCHANGED outputScale /\ DOMAIN proxies' = {}
      BY <1>1, <1>d, DestroySpeaks DEF ReceiveDestroy
    <2>3. 1 \in Destroys
      BY <1>1, <2>1, <2>2, InputIsNoAck, InputIsSent, AgentTakes DEF Destroys
    <2>4. mode.script
      BY <1>1, <2>3 DEF FlowInv, ScriptProgress, AtTheEnd
    <2>5. WindowInv'
      BY <1>1, <1>2, <2>1, <2>2, <2>4, TakingKeepsWindow DEF ProxyExists
    <2>6. PixelInv'
      BY <1>1, <1>2, <2>1, <2>2, TakingKeepsPixels
    <2>. QED
      BY <2>5, <2>6
  <1>a. ASSUME DispatchPresents PROVE WindowInv' /\ PixelInv'
    BY <1>1, <1>a, DispatchShowsOnly
       DEF WindowInv, PixelInv, ProxyExists, Creates, Configs, Frames, PresentsInFlight
  <1>f. ASSUME FailConnection(<<>>) \/ Exit PROVE WindowInv' /\ PixelInv'
    <2>1. agentSocket' = "closed" /\ DOMAIN proxies' = {}
      BY <1>1, <1>f DEF FailConnection, Empty, Exit, FlowInv, Lifecycle, ProxyExists
    <2>. QED
      BY <1>1, <2>1 DEF WindowInv, PixelInv, ProxyExists
  <1>9. ~ReceiveResize /\ ~ReceiveDamage /\ ~ReceiveActivate
    BY <1>1, AgentReads, ToAgentKinds DEF ReceiveResize, ReceiveDamage, ReceiveActivate
  <1>. QED
    BY <1>1, <1>q, <1>c, <1>d, <1>a, <1>f, <1>9, DispatchFailsSilently DEF AgentStep, SocketFails

LEMMA WindowInvariant == Spec => [](Inv /\ WindowInv /\ PixelInv)
  <1>1. Init => WindowInv /\ PixelInv
    BY DEF Init, ServerInit, AgentInit, Empty, WindowInv, PixelInv, ProxyExists, Creates, Configs,
           Frames, PresentsInFlight, MessagesOf
  <1>2. Inv /\ Inv' /\ WindowInv /\ PixelInv /\ [Next]_vars => WindowInv' /\ PixelInv'
    <2>. SUFFICES ASSUME Inv, Inv', WindowInv, PixelInv, [Next]_vars PROVE WindowInv' /\ PixelInv'
      OBVIOUS
    <2>1. CASE UserStep
      <3>1. /\ UNCHANGED <<linuxVars, toAgent, agentSocket, outputScale>> /\ DOMAIN proxies' = DOMAIN proxies
            /\ \A id \in DOMAIN proxies : SameButForInput(proxies'[id], proxies[id])
        BY <2>1, UserEffect DEF Inv, applicationVars
      <3>2. UNCHANGED <<mode, helloReceived, crosshairs>>
        BY <3>1 DEF linuxVars, serverVars
      <3>. QED
        BY <3>1, <3>2 DEF WindowInv, PixelInv, ProxyExists, Creates, Configs, Frames,
                          PresentsInFlight, SameButForInput
    <2>2. CASE KillStep
      <3>1. /\ UNCHANGED linuxVars /\ agentSocket' = "closed" /\ DOMAIN proxies' = {}
        BY <2>2 DEF KillStep, Kill, Empty
      <3>2. UNCHANGED <<mode, helloReceived, crosshairs>>
        BY <3>1 DEF linuxVars, serverVars
      <3>. QED
        BY <3>1, <3>2 DEF WindowInv, PixelInv, ProxyExists
    <2>3. CASE UNCHANGED vars
      BY <2>3 DEF vars, linuxVars, serverVars, wireVars, agentVars, applicationVars, WindowInv,
                  PixelInv, ProxyExists, Creates, Configs, Frames, PresentsInFlight
    <2>. QED
      BY <2>1, <2>2, <2>3, ServerKeepsWindow, AgentKeepsWindow DEF Next
  <1>. QED
    BY <1>1, <1>2, InitEstablishesInv, NextKeepsInv, PTL DEF Spec

\* When nothing is under way the proxy has every crosshair that was drawn: a
\* frame is sent whenever one is (draw_crosshair and send_frame in the button's
\* handler), it cannot overtake the creation of the window, and apply_frame
\* drops none of them as old, since all have one sequence.
THEOREM FramebufferIsCurrentAlways == Spec => []FramebufferIsCurrent
  <1>1. PixelInv => FramebufferIsCurrent
    <2>. SUFFICES ASSUME PixelInv, Settled, FakeWindow \in DOMAIN proxies
                  PROVE  Proxy.framebuffer = crosshairs
      BY DEF FramebufferIsCurrent
    <2>1. Frames = {} /\ agentSocket = "open"
      BY DEF Settled, Up, Frames, MessagesOf
    <2>. QED
      BY <2>1 DEF PixelInv, Proxy
  <1>. QED
    BY <1>1, WindowInvariant, PTL
-----------------------------------------------------------------------------
(* Neither program ends the connection.                                    *)

\* Whatever the server records can be presented by a proxy of the window.
LEMMA ValidIsPresentable ==
    ASSUME AgentTypeOK, WindowInv, NEW id \in DOMAIN proxies,
           NEW p \in Presentation, PresentationIsValid(p)
    PROVE  Presentable(id, p)
  <1>1. /\ proxies[id].width = InitialWindow.w /\ proxies[id].height = InitialWindow.h
        /\ proxies[id].alive /\ outputScale = {OneToOne}
    BY DEF AgentTypeOK, WindowInv, ProxyExists, ProxyType
  <1>2. p.destination \in Rect /\ RectIsValid(p.destination)
    BY DEF Presentation, PresentationIsValid
  <1>3. PhysicalDestination(p) = {p.destination}
    BY <1>1, <1>2, ScaleOneChangesNothing DEF OneToOne, PhysicalDestination
  <1>. QED
    BY <1>1, <1>3 DEF Presentable, PresentationIsValid, SurfaceBounds, RectIsValid

\* HELLO is the first message and the only one of its kind.
Hellos == MessagesOf(toServer, "HELLO")
HelloFirst == serverSocket = "open" => Hellos = IF helloReceived THEN {} ELSE {1}

LEMMA SayingKeepsHello ==
    ASSUME TypeInv, HelloFirst, UNCHANGED <<serverSocket, helloReceived>>,
           NEW messages \in Seq(ToServerMessage), MessagesOf(messages, "HELLO") = {},
           toServer' = Sent(messages)
    PROVE  HelloFirst'
  <1>1. Carries(toServer', toServer, "HELLO", 0)
    BY SentCarries
  <1>2. \A i : i \in Hellos' <=> i \in Hellos
    BY <1>1 DEF Carries, Hellos
  <1>. QED
    BY <1>2 DEF HelloFirst

LEMMA InputIsNoHello ==
    ASSUME NEW locations, NEW messages \in Seq(InputOf(locations))
    PROVE  MessagesOf(messages, "HELLO") = {}
  <1>1. \A i \in DOMAIN messages : messages[i] \in InputOf(locations)
    BY ElementOfSeq, LenProperties
  <1>2. \A m \in InputOf(locations) : m.type # "HELLO"
    BY DEF InputOf, KeyboardInput, PointerLocation, PointerButton, CaptureLostMessage, KeyboardFocus,
           KeyboardKey, MotionTypes, LocationOnlyTypes
  <1>. QED
    BY <1>1, <1>2 DEF MessagesOf

LEMMA ServerKeepsHello ==
    ASSUME Inv, HelloFirst, ServerStep
    PROVE  HelloFirst'
  <1>1. ServerHandles /\ toServer \in Seq(ToServerMessage) /\ TypeInv
    BY DEF ServerStep, ServerNext, Inv, TypeInv, WireTypeOK
  <1>2. ASSUME Consume, NEW types, Arrived(types), helloReceived \/ types = {"HELLO"}, helloReceived'
        PROVE  HelloFirst'
    <2>1. toServer # <<>> /\ serverSocket = "open" /\ toServer' = Tail(toServer)
      BY <1>1, <1>2, ServerReads DEF Consume
    <2>2. \A i \in MessagesOf(Tail(toServer), "HELLO") : i \in Nat \ {0} /\ i + 1 \in Hellos
      BY <1>1, <2>1, Took DEF Hellos
    <2>3. \A i \in MessagesOf(Tail(toServer), "HELLO") : FALSE
      BY <2>1, <2>2 DEF HelloFirst
    <2>4. Hellos' = {}
      BY <2>1, <2>3, Zenon DEF Hellos
    <2>. QED
      BY <1>2, <2>4 DEF HelloFirst
  <1>3. CloseConnection => HelloFirst'
    BY DEF CloseConnection, HelloFirst
  <1>4. ServerHello => Consume /\ Arrived({"HELLO"}) /\ helloReceived'
    BY DEF ServerHello
  <1>5. ServerPresentAck \/ ServerPointerLocation \/ ServerPointerMotion \/ ServerPointerButton
           \/ ServerCaptureLost \/ ServerKeyboard
           => Consume /\ (\E types : Arrived(types)) /\ helloReceived /\ helloReceived'
    BY DEF ServerPresentAck, ServerPointerLocation, ServerPointerMotion, ServerPointerButton,
           ServerCaptureLost, ServerKeyboard, serverVars
  <1>. QED
    BY <1>1, <1>2, <1>3, <1>4, <1>5
       DEF ServerHandles, ServerRejectsAck, ServerRejectsMotion, ServerRejectsMessage, ServerPeerGone

LEMMA AgentKeepsHello ==
    ASSUME Inv, HelloFirst, ThreadStep
    PROVE  HelloFirst'
  <1>1. AgentStep /\ TypeInv /\ AgentTypeOK /\ UNCHANGED helloReceived
    BY LinuxUntouched DEF ThreadStep, Inv, TypeInv
  <1>2. \E messages \in Seq(ToServerMessage) :
           /\ MessagesOf(messages, "HELLO") = {} /\ toServer' = Sent(messages)
           /\ UNCHANGED serverSocket
    <2>1. <<>> \in Seq(ToServerMessage) /\ MessagesOf(<<>>, "HELLO") = {}
      BY ShortSequences DEF MessagesOf
    <2>2. CASE ReceiveDestroy
      BY <1>1, <2>2, DestroySpeaks, InputIsSent, InputIsNoHello DEF Answer
    <2>3. CASE DispatchPresents
      <3>. DEFINE ack == PresentAck(FakeWindow, pending[FakeWindow].sequence)
      <3>1. PICK order \in SetToSeqs(Ready) : toServer' = Sent(Acks(order)) /\ UNCHANGED serverSocket
        BY <2>3 DEF DispatchPresents, Send
      <3>2. CASE Ready = {}
        BY <1>1, <2>1, <3>1, <3>2, DispatchSpeaks
      <3>3. CASE Ready = {FakeWindow}
        <4>1. Acks(order) = <<ack>> /\ ack \in ToServerMessage
          BY <1>1, <3>1, <3>3, DispatchSpeaks
        <4>2. ack.type # "HELLO"
          BY DEF PresentAck
        <4>. HIDE DEF ack
        <4>3. <<ack>> \in Seq(ToServerMessage) /\ MessagesOf(<<ack>>, "HELLO") = {}
          BY <4>1, <4>2, ShortSequences, OneMessage
        <4>. QED
          BY <3>1, <4>1, <4>3
      <3>. QED
        BY <1>1, <3>2, <3>3, DispatchSpeaks
    <2>4. CASE FailConnection(<<>>)
      BY <2>1, <2>4 DEF FailConnection
    <2>5. CASE Exit
      <3>1. toServer' = Sent(<<>>)
        BY <1>1, <2>5, ConcatProperties DEF Exit, Sent, TypeInv, WireTypeOK
      <3>. QED
        BY <2>1, <2>5, <3>1 DEF Exit
    <2>6. CASE \E type : AgentArrived(type) /\ Answer(<<>>)
      BY <2>1, <2>6 DEF Answer
    <2>7. ~ReceiveResize /\ ~ReceiveDamage /\ ~ReceiveActivate
      BY <1>1, AgentReads, ToAgentKinds DEF ReceiveResize, ReceiveDamage, ReceiveActivate
    <2>. QED
      BY <1>1, <2>2, <2>3, <2>4, <2>5, <2>6, <2>7, DispatchFailsSilently
         DEF AgentStep, SocketFails, ReceiveHelloAck, ReceiveOutputConfig, ReceiveCreate,
             ReceiveFrame, ReceivePresent
  <1>. QED
    BY <1>1, <1>2, SayingKeepsHello
LEMMA ServerStaysConnected ==
    ASSUME Inv, Ahead, HelloFirst, ServerKeepsTheConnection, EveryMessageIsRead, ServerStep
    PROVE  serverSocket' = "open" /\ agentSocket' = "open"
  <1>1. /\ ServerHandles /\ TypeInv /\ FlowInv /\ SessionInv /\ toServer \in Seq(ToServerMessage)
        /\ ~mode.script /\ mode.keyboard /\ serverSocket = "open" /\ agentSocket = "open"
    BY DEF ServerStep, ServerNext, Inv, TypeInv, WireTypeOK, EveryMessageIsRead, ServerKeepsTheConnection
  <1>2. ASSUME NEW p \in Presentation, PresentationIsValid(p), p.sequence # MaxSequence,
               \A q \in Recorded : q.sequence < p.sequence
        PROVE  CanRecord(p)
    <2>1. p.sequence \in Nat
      BY MaxSequenceAssumption DEF Presentation
    <2>2. \A q \in Recorded : q.sequence # p.sequence
      BY <1>2, <2>1
    <2>. QED
      BY <1>2, <2>2 DEF CanRecord, Lookup
  <1>3. ~ServerRejectsAck
    <2>. SUFFICES ASSUME ServerRejectsAck PROVE FALSE
      OBVIOUS
    <2>1. Arrived({"WINDOW_PRESENT_ACK"})
      BY DEF ServerRejectsAck
    <2>2. /\ toServer # <<>> /\ Arrival = toServer[1] /\ toServer[1].type = "WINDOW_PRESENT_ACK"
      BY <1>1, <2>1, ServerReads
    <2>3. 1 \in AcksInFlight
      BY <1>1, <2>2, Took DEF AcksInFlight
    <2>4. Arrival.sequence \in awaiting
      BY <1>1, <2>2, <2>3 DEF FlowInv, InFlightIsNewest
    <2>5. \A p \in deferred : CanRecord(p)
      BY <1>1, <1>2 DEF Ahead, TypeInv, ServerTypeOK
    <2>. QED
      BY <1>1, <2>4, <2>5 DEF ServerRejectsAck
  <1>4. ~ServerRejectsMotion
    <2>. SUFFICES ASSUME ServerRejectsMotion PROVE FALSE
      OBVIOUS
    <2>1. Arrived({"POINTER_MOTION"}) /\ \E p \in Generated(Arrival.location) : ~CanRecord(p)
      BY DEF ServerRejectsMotion
    <2>2. Arrival \in ToServerMessage /\ Arrival.type = "POINTER_MOTION"
      BY <1>1, <2>1, ServerReads
    <2>3. Arrival.location \in Location
      BY <2>2, ToServerKinds DEF PointerTypes
    <2>4. nextSequence \in Nat /\ MaxSequence \in Nat
      BY <1>1, MaxSequenceAssumption DEF SessionInv, SessionTypeOK
    <2>5. \A q \in Recorded : q.sequence < nextSequence
      BY <1>1 DEF SessionInv, HistoryIsKeyed, Recorded
    <2>6. \A p \in Generated(Arrival.location) :
             /\ p \in Presentation /\ PresentationIsValid(p)
             /\ p.sequence = nextSequence /\ nextSequence < MaxSequence
      BY <1>1, <2>3, MovesAndGenerated
    <2>7. \A p \in Generated(Arrival.location) :
             p.sequence # MaxSequence /\ \A q \in Recorded : q.sequence < p.sequence
      BY <2>4, <2>5, <2>6
    <2>. QED
      BY <1>2, <2>1, <2>6, <2>7
  <1>5. ~ServerRejectsMessage
    <2>. SUFFICES ASSUME ServerRejectsMessage PROVE FALSE
      OBVIOUS
    <2>1. CASE ~helloReceived /\ toServer # <<>> /\ ~Arrived({"HELLO"})
      <3>1. 1 \in Hellos
        BY <1>1, <2>1 DEF HelloFirst
      <3>2. Head(toServer).type = "HELLO"
        BY <1>1, <2>1, <3>1, ATail DEF Hellos, MessagesOf
      <3>. QED
        BY <1>1, <2>1, <3>2 DEF Arrived
    <2>2. CASE helloReceived /\ Arrived({"HELLO", "WINDOW_FRAME_REQUEST"})
      <3>1. /\ toServer # <<>> /\ Arrival = toServer[1] /\ Arrival \in ToServerMessage
            /\ Arrival.type \in {"HELLO", "WINDOW_FRAME_REQUEST"}
        BY <1>1, <2>2, ServerReads
      <3>2. Arrival.type # "HELLO"
        <4>1. toServer[1].type = "HELLO" => 1 \in Hellos
          BY <1>1, <3>1, Took DEF Hellos
        <4>. QED
          BY <1>1, <2>2, <3>1, <4>1 DEF HelloFirst
      <3>. QED
        BY <3>1, <3>2, ToServerKinds DEF PointerTypes, KeyboardTypes
    <2>. QED
      BY <1>1, <2>1, <2>2 DEF ServerRejectsMessage
  <1>6. ~ServerPeerGone
    BY <1>1 DEF ServerPeerGone
  <1>7. Consume => UNCHANGED <<serverSocket, agentSocket>>
    BY DEF Consume
  <1>8. ServerHello \/ ServerPresentAck \/ ServerPointerLocation \/ ServerPointerMotion
           \/ ServerPointerButton \/ ServerCaptureLost \/ ServerKeyboard => Consume
    BY DEF ServerHello, ServerPresentAck, ServerPointerLocation, ServerPointerMotion,
           ServerPointerButton, ServerCaptureLost, ServerKeyboard
  <1>. QED
    BY <1>1, <1>3, <1>4, <1>5, <1>6, <1>7, <1>8 DEF ServerHandles

\* No handler of the agent refuses what the server sends.
LEMMA AgentRefusesNothing ==
    ASSUME Inv, WindowInv, PixelInv, EveryMessageIsRead, toAgent # <<>>, agentSocket = "open"
    PROVE  ~Refused(AgentArrival)
  <1>. DEFINE m == AgentArrival
  <1>1. /\ TypeInv /\ FlowInv /\ AgentTypeOK /\ toAgent \in Seq(ToAgentMessage) /\ ~mode.script
        /\ m = toAgent[1] /\ m \in ToAgentMessage
        /\ \A id \in DOMAIN proxies : id = FakeWindow /\ proxies[id].alive
    BY ATail DEF Inv, TypeInv, WireTypeOK, EveryMessageIsRead, AgentTypeOK, ProxyType, AgentArrival
  <1>2. /\ m.type = "WINDOW_CREATE" => 1 \in Creates
        /\ m.type = "WINDOW_DESTROY" => 1 \in Destroys
        /\ m.type = "WINDOW_FRAME" => 1 \in Frames
        /\ m.type = "WINDOW_PRESENT" => 1 \in PresentsInFlight
        /\ \A c \in Creates \cup Configs : c \in Nat \ {0}
    BY <1>1, Took DEF Creates, Destroys, Frames, PresentsInFlight, Configs
  <1>3. \A id \in DOMAIN proxies : ~DrawFails(id)
    BY <1>1 DEF DrawFails
  <1>4. m.type = "WINDOW_FRAME" \/ m.type = "WINDOW_PRESENT" => FakeWindow \in DOMAIN proxies
    BY <1>1, <1>2 DEF WindowInv, ProxyExists
  <1>5. ASSUME m.type = "OUTPUT_CONFIG" PROVE CanConfigure(m)
    <2>1. m.scale = OneToOne
      BY <1>1, <1>5, ToAgentKinds DEF OutputConfig
    <2>. QED
      BY <1>3, <2>1 DEF CanConfigure, OneToOne, ScaleIsValid
  <1>6. ASSUME m.type = "WINDOW_CREATE" PROVE CanCreate(m)
    <2>1. /\ m.id = FakeWindow /\ m.parent = 0
          /\ m.width = InitialWindow.w /\ m.height = InitialWindow.h
      BY <1>1, <1>6, ToAgentKinds DEF WindowCreate
    <2>2. outputScale # {}
      BY <1>2, <1>6 DEF WindowInv
    <2>3. ~ProxyExists
      BY <1>1, <1>2, <1>6 DEF FlowInv, Lifecycle
    <2>4. IsSurface(m)
      BY <2>1, EndsAssumption, InitialWindowFacts DEF IsSurface
    <2>. QED
      BY <2>1, <2>2, <2>3, <2>4 DEF CanCreate, FakeWindow, ProxyExists
  <1>7. ASSUME m.type = "WINDOW_FRAME" PROVE CanApplyFrame(m)
    <2>1. /\ m.id = FakeWindow /\ m.sequence = 1
          /\ m.width = InitialWindow.w /\ m.height = InitialWindow.h
          /\ m.stride = Stride(InitialWindow.w)
      BY <1>1, <1>7, ToAgentKinds DEF Frame, WindowFrame
    <2>. QED
      BY <1>3, <1>4, <1>7, <2>1 DEF CanApplyFrame, FitsProxy, WindowInv
  <1>8. ASSUME m.type = "WINDOW_PRESENT" PROVE m.id \in DOMAIN proxies
    BY <1>1, <1>4, <1>8, ToAgentKinds DEF WindowPresent
  <1>9. m.type # "WINDOW_DESTROY"
    BY <1>1, <1>2 DEF FlowInv, ScriptProgress, AtTheEnd
  <1>10. m.type \in {"HELLO_ACK", "OUTPUT_CONFIG", "WINDOW_CREATE", "WINDOW_DESTROY",
                     "WINDOW_FRAME", "WINDOW_PRESENT"}
    BY <1>1, ToAgentKinds
  <1>. HIDE DEF m
  <1>11. ~Refused(m)
    BY <1>5, <1>6, <1>7, <1>8, <1>9, <1>10 DEF Refused
  <1>. QED
    BY <1>11 DEF m

LEMMA DispatchNeverFails ==
    ASSUME Inv, Ahead, WindowInv
    PROVE  ~DispatchFails
  <1>. SUFFICES ASSUME DispatchFails PROVE FALSE
    OBVIOUS
  <1>1. TypeInv /\ AgentTypeOK
    BY DEF Inv, TypeInv
  <1>2. \A id \in Ready : Presentable(id, pending[id])
    BY <1>1, ValidIsPresentable DEF Ready, AgentTypeOK, Ahead
  <1>3. {id \in Ready : Presentable(id, pending[id])} = Ready
    BY <1>2
  <1>4. PICK order \in SetToSeqs(Ready) : Len(order) < Cardinality(Ready)
    BY <1>3 DEF DispatchFails
  <1>5. CASE Ready = {}
    BY <1>4, <1>5, ListingsOfAtMostOne, FS_EmptySet
  <1>6. CASE Ready = {FakeWindow}
    <2>1. order = <<FakeWindow>> /\ Cardinality(Ready) = 1
      BY <1>4, <1>6, ListingsOfAtMostOne, FS_Singleton
    <2>. QED
      BY <1>4, <2>1
  <1>. QED
    BY <1>1, <1>5, <1>6, DispatchSpeaks

LEMMA AgentStaysConnected ==
    ASSUME Inv, Ahead, WindowInv, PixelInv, ServerKeepsTheConnection, EveryMessageIsRead, ThreadStep
    PROVE  serverSocket' = "open" /\ agentSocket' = "open"
  <1>1. AgentStep /\ FlowInv /\ ~mode.script /\ serverSocket = "open" /\ agentSocket = "open"
    BY DEF ThreadStep, Inv, ServerKeepsTheConnection, EveryMessageIsRead
  <1>2. ~SocketFails
    BY <1>1, AgentRefusesNothing DEF SocketFails, PeerGone
  <1>3. ~Exit
    <2>1. agent = "quitting" => exitCode = "success" /\ AtTheEnd
      <3>1. exitCode \in {"success", "failure"}
        BY DEF Inv, TypeInv, AgentTypeOK
      <3>. QED
        BY <1>1, <3>1 DEF FlowInv, Lifecycle, ScriptProgress
    <2>. QED
      BY <1>1, <2>1 DEF Exit, AtTheEnd
  <1>4. (\E messages : Answer(messages) \/ Send(messages)) => UNCHANGED <<serverSocket, agentSocket>>
    BY DEF Answer, Send
  <1>5. AgentStep => SocketFails \/ DispatchFails \/ Exit \/ (\E messages : Answer(messages) \/ Send(messages))
    BY Zenon DEF AgentStep, ReceiveHelloAck, ReceiveOutputConfig, ReceiveCreate, ReceiveResize, ReceiveFrame,
           ReceiveDamage, ReceivePresent, ReceiveActivate, ReceiveDestroy, DispatchPresents
  <1>. QED
    BY <1>1, <1>2, <1>3, <1>4, <1>5, DispatchNeverFails
\* In an interactive session neither program ends the connection over a
\* message of the other: the server refuses no ACK, records every presentation
\* it generates and gets HELLO first and once (cw_fake_server_record, the
\* order checks of on_message); the agent refuses no message and can draw every
\* presentation it is sent (handle_protocol_message, apply_present).
THEOREM ServerKeepsTheConnectionAlways ==
    ASSUME Capacity > 1
    PROVE  Spec => []ServerKeepsTheConnection
  <1>. DEFINE Known == Inv /\ Ahead /\ WindowInv /\ PixelInv
              Kept == HelloFirst /\ ServerKeepsTheConnection
  <1>1. Spec => []Known
    BY AheadInvariant, WindowInvariant, PTL
  <1>2. Init => Kept
    <2>. SUFFICES ASSUME Init PROVE Kept
      OBVIOUS
    <2>1. /\ toServer = <<Hello>> /\ helloReceived = FALSE
          /\ serverSocket = "open" /\ agentSocket = "open"
      BY DEF Init, ServerInit
    <2>2. Hellos = {1}
      BY <2>1 DEF Hellos, MessagesOf, Hello
    <2>. QED
      BY <2>1, <2>2 DEF HelloFirst, ServerKeepsTheConnection
  <1>3. Known /\ Kept /\ [Next]_vars => Kept'
    <2>. SUFFICES ASSUME Known, Kept, [Next]_vars PROVE Kept'
      OBVIOUS
    <2>. USE DEF ServerKeepsTheConnection
    <2>1. CASE ServerStep
      <3>1. UNCHANGED mode
        BY <2>1 DEF ServerStep, ServerNext
      <3>. QED
        BY <2>1, <3>1, ServerKeepsHello, ServerStaysConnected DEF EveryMessageIsRead
    <2>2. CASE ThreadStep
      <3>1. UNCHANGED mode
        BY <2>2, LinuxUntouched DEF ThreadStep
      <3>. QED
        BY <2>2, <3>1, AgentKeepsHello, AgentStaysConnected DEF EveryMessageIsRead
    <2>3. CASE UserStep
      <3>1. PICK messages \in Seq(InputOf(LocationsNow)) : toServer' = Sent(messages)
        BY <2>3, UserEffect DEF Inv
      <3>2. UNCHANGED <<mode, helloReceived, serverSocket, agentSocket>>
        BY <2>3, UserEffect, LinuxUntouched DEF Inv
      <3>3. HelloFirst'
        BY <3>1, <3>2, InputIsSent, InputIsNoHello, SayingKeepsHello DEF Inv
      <3>. QED
        BY <3>2, <3>3 DEF EveryMessageIsRead
    <2>4. CASE KillStep
      <3>1. /\ UNCHANGED <<mode, helloReceived, serverSocket, toServer>> /\ mode.mortal
        BY <2>4, LinuxUntouched DEF KillStep, Kill
      <3>. QED
        BY <3>1 DEF EveryMessageIsRead, HelloFirst, Hellos
    <2>5. CASE UNCHANGED vars
      BY <2>5 DEF vars, linuxVars, serverVars, wireVars, EveryMessageIsRead, HelloFirst, Hellos
    <2>. QED
      BY <2>1, <2>2, <2>3, <2>4, <2>5 DEF Next
  <1>4. Kept => ServerKeepsTheConnection
    OBVIOUS
  <1>. HIDE DEF Known, Kept
  <1>. QED
    BY <1>1, <1>2, <1>3, <1>4, PTL DEF Spec
-----------------------------------------------------------------------------
(* The proxy comes to show the window.                                     *)

Region(p) == IF p.visible THEN {[source |-> p.source, destination |-> p.destination]} ELSE {}

\* Outside a script, the last presentation the server made - deferred, or else
\* recorded - has the window where it is, unless the sequences are exhausted.
Latest == IF deferred # {} THEN deferred ELSE {Newest}
LatestIsWindow ==
    serverSocket = "open" /\ helloReceived /\ ~mode.script /\ CanRecompute =>
       \A p \in Latest : Region(p) = WindowRegionOnOutput(window, RemoteOutput)
QueuedIsPosted == Queued => dispatchPosted

LEMMA RecomputedShowsTheWindow ==
    ASSUME NEW w
    PROVE  /\ Region(RecomputedFor(w)) = WindowRegionOnOutput(w, RemoteOutput)
           /\ \A s : Region([RecomputedFor(w) EXCEPT !.sequence = s])
                        = WindowRegionOnOutput(w, RemoteOutput)
  <1>. DEFINE region == WindowRegionOnOutput(w, RemoteOutput)
  <1>1. region = {} \/ \E a, b : region = {[source |-> a, destination |-> b]}
    <2>1. CASE RectIntersect(w, RemoteOutput) = {}
      BY <2>1 DEF WindowRegionOnOutput
    <2>2. ASSUME NEW i, RectIntersect(w, RemoteOutput) = {i}
          PROVE  \E a, b : region = {[source |-> a, destination |-> b]}
      <3>1. region = {[source |-> [x |-> i.x - w.x, y |-> i.y - w.y, w |-> i.w, h |-> i.h],
                       destination |-> [x |-> i.x - RemoteOutput.x, y |-> i.y - RemoteOutput.y,
                                        w |-> i.w, h |-> i.h]]}
        BY <2>2 DEF WindowRegionOnOutput
      <3>. QED
        BY <3>1
    <2>3. RectIntersect(w, RemoteOutput) = {} \/ \E i : RectIntersect(w, RemoteOutput) = {i}
      BY Zenon DEF RectIntersect
    <2>. QED
      BY <2>1, <2>2, <2>3
  <1>. HIDE DEF region
  <1>2. CASE region = {}
    <2>. DEFINE p == [sequence |-> nextSequence, source |-> EmptyRect, destination |-> EmptyRect,
                      visible |-> FALSE]
    <2>1. RecomputedFor(w) = p
      BY <1>2 DEF RecomputedFor, Invisible, region
    <2>2. Region(p) = {} /\ \A s : Region([p EXCEPT !.sequence = s]) = {}
      BY DEF Region
    <2>. HIDE DEF p
    <2>. QED
      BY <1>2, <2>1, <2>2 DEF region
  <1>3. CASE \E a, b : region = {[source |-> a, destination |-> b]}
    <2>1. PICK a, b : region = {[source |-> a, destination |-> b]}
      BY <1>3
    <2>. DEFINE r == [source |-> a, destination |-> b]
                p == [sequence |-> nextSequence, source |-> a, destination |-> b, visible |-> TRUE]
    <2>2. r.source = a /\ r.destination = b
      OBVIOUS
    <2>3. region = {r} /\ region # {} /\ (CHOOSE q \in region : TRUE) = r
      BY <2>1
    <2>. HIDE DEF r
    <2>4. RecomputedFor(w) = p
      BY <2>2, <2>3 DEF RecomputedFor, region
    <2>5. Region(p) = region /\ \A s : Region([p EXCEPT !.sequence = s]) = region
      BY <2>1 DEF Region
    <2>. HIDE DEF p
    <2>. QED
      BY <2>4, <2>5 DEF region
  <1>. QED
    BY <1>1, <1>2, <1>3

LEMMA MovesIsAtMostOne ==
    ASSUME NEW l, NEW v \in Moves(l), NEW w \in Moves(l)
    PROVE  v = w
  BY DEF Moves, GlobalPoint, OutputLocalPointToGlobal

LEMMA ServerKeepsLatest ==
    ASSUME Inv, Inv', LatestIsWindow, ServerStep
    PROVE  LatestIsWindow'
  <1>1. /\ ServerHandles /\ UNCHANGED mode /\ TypeInv /\ SessionInv /\ FlowInv
        /\ nextSequence \in Nat /\ nextSequence' \in Nat /\ MaxSequence \in Nat
        /\ nextSequence # 0 /\ nextSequence' # 0 /\ nextSequence <= MaxSequence
        /\ nextSequence' <= MaxSequence
    BY MaxSequenceAssumption DEF ServerStep, ServerNext, Inv, TypeInv, SessionInv, SessionTypeOK
  <1>2. ASSUME NEW sent, NEW p \in Presentation, NEW next, SendPresent(sent, p, next), deferred' = {},
               Region(p) = WindowRegionOnOutput(window', RemoteOutput)
        PROVE  LatestIsWindow'
    <2>1. Newest' = p
      BY <1>1, <1>2, RecordedIsNewest DEF SendPresent
    <2>. QED
      BY <1>2, <2>1 DEF LatestIsWindow, Latest
  <1>3. ASSUME UNCHANGED <<window, history, insertions, deferred, helloReceived, serverSocket>>,
               nextSequence' = nextSequence
        PROVE  LatestIsWindow'
    BY <1>1, <1>3 DEF LatestIsWindow, Latest, Newest, CanRecompute
  <1>h. ASSUME ServerHello PROVE LatestIsWindow'
    <2>1. CASE mode.script
      BY <1>1, <2>1 DEF LatestIsWindow
    <2>2. CASE ~mode.script
      <3>. DEFINE p == [RecomputedFor(window) EXCEPT !.sequence = FirstSequence]
      <3>1. /\ SendPresent(Greeting, p, FirstSequence + 1) /\ UNCHANGED <<window, deferred>>
            /\ ~helloReceived
        BY <1>h, <2>2 DEF ServerHello
      <3>2. p \in Presentation
        <4>1. nextSequence = 1
          BY <1>1, <3>1 DEF TypeInv, ServerTypeOK
        <4>. QED
          BY <1>1, <4>1, FirstPresentation
      <3>3. Region(p) = WindowRegionOnOutput(window', RemoteOutput)
        BY <3>1, RecomputedShowsTheWindow
      <3>4. deferred' = {}
        BY <1>1, <3>1 DEF FlowInv, Lifecycle
      <3>. HIDE DEF p
      <3>. QED
        BY <1>2, <3>1, <3>2, <3>3, <3>4
    <2>. QED
      BY <2>1, <2>2
  <1>a. ASSUME ServerPresentAck, ~mode.script PROVE LatestIsWindow'
    <2>0. deferred' = {} /\ UNCHANGED <<window, helloReceived>> /\ helloReceived /\ serverSocket = "open"
      BY <1>a DEF ServerPresentAck, Arrived
    <2>1. CASE deferred = {} /\ UNCHANGED <<history, insertions, nextSequence>>
      BY <1>1, <1>a, <2>0, <2>1 DEF LatestIsWindow, Latest, Newest, CanRecompute
    <2>2. ASSUME NEW p \in deferred, SendPresent(<<>>, p, nextSequence) PROVE LatestIsWindow'
      <3>1. p \in Presentation
        BY <1>1, <2>2 DEF TypeInv, ServerTypeOK
      <3>2. CanRecompute' => CanRecompute
        <4>1. nextSequence' = SequenceAfterRecord(nextSequence, p)
          BY <2>2 DEF SendPresent
        <4>2. p.sequence \in Nat
          BY <3>1, MaxSequenceAssumption DEF Presentation
        <4>3. nextSequence' >= nextSequence
          BY <1>1, <4>1, <4>2 DEF SequenceAfterRecord
        <4>. QED
          BY <1>1, <4>3 DEF CanRecompute
      <3>3. CASE CanRecompute
        <4>1. Region(p) = WindowRegionOnOutput(window', RemoteOutput)
          BY <1>a, <2>0, <2>2, <3>3 DEF LatestIsWindow, Latest
        <4>. QED
          BY <1>2, <2>0, <2>2, <3>1, <4>1
      <3>4. CASE ~CanRecompute
        BY <3>2, <3>4 DEF LatestIsWindow
      <3>. QED
        BY <3>3, <3>4
    <2>3. \/ deferred = {} /\ UNCHANGED <<history, insertions, nextSequence>>
          \/ \E p \in deferred : SendPresent(<<>>, p, nextSequence)
      BY <1>a DEF ServerPresentAck
    <2>. QED
      BY <2>1, <2>2, <2>3
  <1>m. ASSUME ServerPointerMotion PROVE LatestIsWindow'
    <2>. DEFINE l == Arrival.location
    <2>1. /\ UNCHANGED <<helloReceived, serverSocket>> /\ Arrived({"POINTER_MOTION"})
          /\ \/ /\ Generated(l) = {} /\ HandleMotion(l)
                /\ UNCHANGED <<history, insertions, deferred>>
             \/ Generated(l) # {} /\ HandleMotion(l) /\ deferred' = Generated(l)
             \/ /\ ~Waits /\ window' \in Moves(l) /\ UNCHANGED deferred
                /\ \E p \in Generated(l) : SendPresent(<<>>, p, nextSequence + 1)
      BY <1>m DEF ServerPointerMotion, Deferred, Consume
    <2>2. Arrival \in ToServerMessage /\ Arrival.type = "POINTER_MOTION"
      BY <1>1, <2>1, ServerReads
    <2>3. l \in Location
      BY <2>2, ToServerKinds DEF PointerTypes
    <2>4. ASSUME NEW p \in Generated(l), window' \in Moves(l)
          PROVE  p \in Presentation /\ Region(p) = WindowRegionOnOutput(window', RemoteOutput)
      <3>1. PICK w \in Moves(l) : p = RecomputedFor(w)
        BY DEF Generated
      <3>2. w = window'
        BY <2>4, MovesIsAtMostOne
      <3>. QED
        BY <1>1, <2>3, <3>1, <3>2, MovesAndGenerated, RecomputedShowsTheWindow
    <2>. HIDE DEF l
    <2>5. CASE Generated(l) = {} /\ HandleMotion(l) /\ UNCHANGED <<history, insertions, deferred>>
      <3>1. nextSequence' = nextSequence
        BY <2>5 DEF HandleMotion
      <3>2. CASE CanRecompute
        <4>1. Moves(l) = {}
          BY <2>5, <3>2 DEF Generated
        <4>2. window' = window
          BY <2>5, <4>1 DEF HandleMotion
        <4>. QED
          BY <1>3, <2>1, <2>5, <3>1, <4>2
      <3>3. CASE ~CanRecompute
        BY <3>1, <3>3 DEF LatestIsWindow, CanRecompute
      <3>. QED
        BY <3>2, <3>3
    <2>6. CASE Generated(l) # {} /\ HandleMotion(l) /\ deferred' = Generated(l)
      <3>1. window' \in Moves(l)
        BY <2>6 DEF HandleMotion, Generated
      <3>. QED
        BY <2>4, <2>6, <3>1 DEF LatestIsWindow, Latest
    <2>7. ASSUME ~Waits, window' \in Moves(l), UNCHANGED deferred, NEW p \in Generated(l),
                 SendPresent(<<>>, p, nextSequence + 1)
          PROVE  LatestIsWindow'
      <3>1. serverSocket = "open"
        BY <2>1 DEF Arrived
      <3>2. deferred' = {}
        BY <1>1, <2>7, <3>1 DEF Waits, FlowInv, InFlightIsNewest
      <3>. QED
        BY <1>2, <2>4, <2>7, <3>2
    <2>. QED
      BY <2>1, <2>5, <2>6, <2>7
  <1>q. ASSUME ServerPointerLocation \/ ServerKeyboard \/ ServerCaptureLost \/ ServerPointerButton
        PROVE  LatestIsWindow'
    <2>1. /\ UNCHANGED <<window, history, insertions, nextSequence>>
          /\ UNCHANGED <<deferred, helloReceived, serverSocket>>
      BY <1>q DEF ServerPointerLocation, ServerKeyboard, ServerCaptureLost, ServerPointerButton,
                  sessionVars, serverVars, Consume
    <2>. QED
      BY <1>3, <2>1
  <1>x. CloseConnection => LatestIsWindow'
    BY DEF CloseConnection, LatestIsWindow
  <1>s. mode.script => LatestIsWindow'
    BY <1>1 DEF LatestIsWindow
  <1>. QED
    BY <1>1, <1>h, <1>a, <1>m, <1>q, <1>x, <1>s
       DEF ServerHandles, ServerRejectsAck, ServerRejectsMotion, ServerRejectsMessage, ServerPeerGone

LEMMA OthersKeepLatest ==
    ASSUME LatestIsWindow, UNCHANGED <<linuxVars, serverSocket>>
    PROVE  LatestIsWindow'
  BY DEF linuxVars, sessionVars, serverVars, LatestIsWindow, Latest, Newest, CanRecompute

LEMMA AgentKeepsPosted ==
    ASSUME Inv, QueuedIsPosted, ThreadStep
    PROVE  QueuedIsPosted'
  <1>1. AgentStep /\ TypeInv /\ AgentTypeOK
    BY DEF ThreadStep, Inv, TypeInv
  <1>2. ReceiveHelloAck \/ ReceiveOutputConfig \/ ReceiveCreate \/ ReceiveFrame \/ Exit
           => UNCHANGED <<pending, dispatchPosted>>
    BY DEF ReceiveHelloAck, ReceiveOutputConfig, ReceiveCreate, ReceiveFrame, Exit, agentVars,
           applicationVars
  <1>3. ReceivePresent => dispatchPosted'
    BY DEF ReceivePresent
  <1>4. ReceiveDestroy \/ DispatchPresents \/ FailConnection(<<>>) => DOMAIN pending' = {}
    BY <1>1, DestroySpeaks DEF DispatchPresents, FailConnection, Empty
  <1>5. ~ReceiveResize /\ ~ReceiveDamage /\ ~ReceiveActivate
    BY <1>1, AgentReads, ToAgentKinds DEF ReceiveResize, ReceiveDamage, ReceiveActivate
  <1>. QED
    BY <1>1, <1>2, <1>3, <1>4, <1>5, DispatchFailsSilently DEF AgentStep, SocketFails, QueuedIsPosted, Queued

\* When nothing is under way the proxy shows the window where Linux has it
\* (send_or_defer_present keeps the newest state, handle_present_ack sends it,
\* apply_pending_presents shows it), as long as there is a sequence left for
\* a presentation: once the counter is at its end the window moves unseen.
THEOREM SettledShowsTheWindowAlways ==
    ASSUME Capacity > 1
    PROVE  Spec => [](CanRecompute => SettledShowsTheWindow)
  <1>. DEFINE Known == Inv /\ Currency /\ WindowInv
              Kept == LatestIsWindow /\ QueuedIsPosted
  <1>1. Spec => []Known
    BY CurrencyInvariant, WindowInvariant, PTL
  <1>2. Init => Kept
    BY DEF Init, ServerInit, AgentInit, Empty, LatestIsWindow, QueuedIsPosted, Queued
  <1>3. Known /\ Known' /\ Kept /\ [Next]_vars => Kept'
    <2>. SUFFICES ASSUME Known, Known', Kept, [Next]_vars PROVE Kept'
      OBVIOUS
    <2>1. CASE ServerStep
      <3>1. UNCHANGED <<pending, dispatchPosted>>
        BY <2>1 DEF ServerStep, agentVars, applicationVars
      <3>. QED
        BY <2>1, <3>1, ServerKeepsLatest DEF QueuedIsPosted, Queued
    <2>2. CASE ThreadStep
      <3>1. UNCHANGED <<linuxVars, serverSocket>>
        <4>1. AgentStep /\ UNCHANGED linuxVars /\ TypeInv
          BY <2>2 DEF ThreadStep, Inv, TypeInv
        <4>2. (\E messages : Answer(messages) \/ Send(messages) \/ FailConnection(messages)) \/ Exit
                 => UNCHANGED serverSocket
          BY DEF Answer, Send, FailConnection, Exit
        <4>3. AgentStep => Exit \/ \E messages : Answer(messages) \/ Send(messages) \/ FailConnection(messages)
          BY Zenon DEF AgentStep, ReceiveHelloAck, ReceiveOutputConfig, ReceiveCreate, ReceiveResize,
             ReceiveFrame, ReceiveDamage, ReceivePresent, ReceiveActivate, ReceiveDestroy,
             DispatchPresents, DispatchFails, SocketFails
        <4>. QED
          BY <4>1, <4>2, <4>3
      <3>. QED
        BY <2>2, <3>1, AgentKeepsPosted, OthersKeepLatest
    <2>3. CASE UserStep
      BY <2>3, UserEffect, OthersKeepLatest DEF Inv, QueuedIsPosted, Queued, applicationVars
    <2>4. CASE KillStep
      BY <2>4, OthersKeepLatest DEF KillStep, Kill, Empty, QueuedIsPosted, Queued
    <2>5. CASE UNCHANGED vars
      BY <2>5, OthersKeepLatest DEF vars, wireVars, agentVars, applicationVars, QueuedIsPosted, Queued
    <2>. QED
      BY <2>1, <2>2, <2>3, <2>4, <2>5 DEF Next
  <1>4. Known /\ Kept => (CanRecompute => SettledShowsTheWindow)
    <2>. SUFFICES ASSUME Known, Kept, CanRecompute, Settled, helloReceived, ~mode.script
                  PROVE  Shown = WindowRegionOnOutput(window, RemoteOutput)
      BY DEF SettledShowsTheWindow
    <2>1. /\ PresentsInFlight = {} /\ AcksInFlight = {} /\ Creates = {}
          /\ serverSocket = "open" /\ agentSocket = "open" /\ dispatches = 0
      BY DEF Settled, Up, PresentsInFlight, AcksInFlight, Creates, MessagesOf
    <2>2. ~Queued
      BY <2>1 DEF QueuedIsPosted, Inv, TypeInv, AgentTypeOK
    <2>3. awaiting = {} /\ deferred = {}
      BY <2>1, <2>2 DEF Inv, FlowInv, InFlightIsNewest
    <2>4. DOMAIN proxies = {FakeWindow}
      BY <2>1 DEF WindowInv, ProxyExists, Inv, TypeInv, AgentTypeOK
    <2>5. proxies[FakeWindow].presentation = Newest
      BY <2>1, <2>3, <2>4 DEF Currency, ProxyIsCurrent, Acknowledged
    <2>6. Shown = Region(Newest)
      BY <2>4, <2>5 DEF Shown, Region
    <2>. QED
      BY <2>1, <2>3, <2>6 DEF LatestIsWindow, Latest
  <1>. HIDE DEF Known, Kept
  <1>. QED
    BY <1>1, <1>2, <1>3, <1>4, PTL DEF Spec
-----------------------------------------------------------------------------
(* Both ends come to agree on the buttons.                                 *)

\* The messages that say something of button b, and what each of them says.
Words(s, b) ==
    {i \in DOMAIN s : \/ s[i].type = "POINTER_CAPTURE_LOST"
                      \/ s[i].type = "POINTER_BUTTON" /\ s[i].button = b}
Presses(m) == m.type = "POINTER_BUTTON" /\ m.down

\* A reader of s who has before pressed ends with after: the last word on a
\* button decides, and a button of which nothing is said stays as it was.
LeadsTo(s, before, after) ==
    \A b \in Buttons :
       /\ Words(s, b) = {} => (b \in after <=> b \in before)
       /\ \A i \in Words(s, b) : (\A j \in Words(s, b) : j <= i) => (b \in after <=> Presses(s[i]))

LEMMA QuietReads ==
    ASSUME NEW s, NEW before, \A b \in Buttons : Words(s, b) = {}
    PROVE  LeadsTo(s, before, before)
  BY DEF LeadsTo

\* A stream is read to its end by reading one part after the other.
LEMMA ReadingBoth ==
    ASSUME NEW S, NEW s \in Seq(S), NEW t \in Seq(S), NEW before, NEW between, NEW after,
           LeadsTo(s, before, between), LeadsTo(t, between, after)
    PROVE  LeadsTo(s \o t, before, after)
  <1>. DEFINE n == Len(s)
  <1>1. /\ n \in Nat /\ Len(t) \in Nat /\ DOMAIN s = 1 .. n /\ DOMAIN t = 1 .. Len(t)
        /\ DOMAIN (s \o t) = 1 .. n + Len(t)
        /\ \A i \in 1 .. n : (s \o t)[i] = s[i]
        /\ \A i \in 1 .. Len(t) : (s \o t)[n + i] = t[i]
    BY AConcat
  <1>. HIDE DEF n
  <1>. SUFFICES ASSUME NEW b \in Buttons
                PROVE  /\ Words(s \o t, b) = {} => (b \in after <=> b \in before)
                       /\ \A i \in Words(s \o t, b) : (\A j \in Words(s \o t, b) : j <= i)
                              => (b \in after <=> Presses((s \o t)[i]))
    BY DEF LeadsTo
  <1>2. \A i \in Words(s, b) : i \in 1 .. n /\ i \in Words(s \o t, b) /\ (s \o t)[i] = s[i]
    BY <1>1 DEF Words
  <1>3. \A i \in Words(t, b) :
           i \in 1 .. Len(t) /\ n + i \in Words(s \o t, b) /\ (s \o t)[n + i] = t[i]
    <2>. SUFFICES ASSUME NEW i \in Words(t, b)
                  PROVE  i \in 1 .. Len(t) /\ n + i \in Words(s \o t, b) /\ (s \o t)[n + i] = t[i]
      OBVIOUS
    <2>1. i \in 1 .. Len(t) /\ n + i \in 1 .. n + Len(t) /\ (s \o t)[n + i] = t[i]
      BY <1>1 DEF Words
    <2>. QED
      BY <1>1, <2>1 DEF Words
  <1>4. ASSUME NEW i \in Words(s \o t, b)
        PROVE  i \in Words(s, b) \/ (i > n /\ i - n \in Words(t, b) /\ i = n + (i - n))
    <2>1. i \in 1 .. n + Len(t)
      BY <1>1, <1>4 DEF Words
    <2>2. CASE i <= n
      BY <1>1, <1>4, <2>1, <2>2 DEF Words
    <2>3. CASE i > n
      <3>1. i - n \in 1 .. Len(t) /\ i = n + (i - n)
        BY <1>1, <2>1, <2>3
      <3>2. (s \o t)[i] = t[i - n]
        BY <1>1, <3>1
      <3>. QED
        BY <1>1, <1>4, <2>3, <3>1, <3>2 DEF Words
    <2>. QED
      BY <1>1, <2>1, <2>2, <2>3
  <1>5. CASE Words(t, b) = {}
    <2>1. b \in after <=> b \in between
      BY <1>5 DEF LeadsTo
    <2>2. Words(s, b) = {} => (b \in between <=> b \in before)
      BY DEF LeadsTo
    <2>3. \A i \in Words(s, b) : (\A j \in Words(s, b) : j <= i) => (b \in between <=> Presses(s[i]))
      BY DEF LeadsTo
    <2>. QED
      BY <1>2, <1>4, <1>5, <2>1, <2>2, <2>3
  <1>6. CASE Words(t, b) # {}
    <2>1. Words(s \o t, b) # {}
      BY <1>3, <1>6
    <2>2. ASSUME NEW i \in Words(s \o t, b), \A j \in Words(s \o t, b) : j <= i
          PROVE  b \in after <=> Presses((s \o t)[i])
      <3>1. PICK k \in Words(t, b) : k \in 1 .. Len(t) /\ n + k <= i
        BY <1>3, <1>6, <2>2
      <3>2. i \notin 1 .. n
        BY <1>1, <3>1
      <3>3. i - n \in Words(t, b) /\ i = n + (i - n) /\ i - n \in 1 .. Len(t)
        BY <1>2, <1>3, <1>4, <2>2, <3>2
      <3>4. \A j \in Words(t, b) : j <= i - n
        BY <1>1, <1>3, <2>2, <3>3
      <3>5. b \in after <=> Presses(t[i - n])
        BY <3>3, <3>4 DEF LeadsTo
      <3>6. (s \o t)[i] = t[i - n]
        BY <1>3, <3>3
      <3>. QED
        BY <3>5, <3>6
    <2>. QED
      BY <2>1, <2>2
  <1>. QED
    BY <1>5, <1>6

\* The rest is read from where its first message leads.
LEMMA ReadingTheRest ==
    ASSUME NEW S, NEW s \in Seq(S), s # <<>>, NEW before, NEW between, NEW after,
           LeadsTo(s, before, after),
           \A b \in Buttons : IF 1 \in Words(s, b) THEN b \in between <=> Presses(s[1])
                                                   ELSE b \in between <=> b \in before
    PROVE  LeadsTo(Tail(s), between, after)
  <1>. DEFINE t == Tail(s)
  <1>1. /\ 1 \in DOMAIN s /\ DOMAIN t \subseteq Nat \ {0}
        /\ \A i \in DOMAIN t : i + 1 \in DOMAIN s /\ t[i] = s[i + 1]
        /\ \A i \in DOMAIN s : i \in Nat /\ i >= 1 /\ (i > 1 => i - 1 \in DOMAIN t)
    BY ATail
  <1>. HIDE DEF t
  <1>. SUFFICES ASSUME NEW b \in Buttons
                PROVE  /\ Words(t, b) = {} => (b \in after <=> b \in between)
                       /\ \A i \in Words(t, b) : (\A j \in Words(t, b) : j <= i)
                              => (b \in after <=> Presses(t[i]))
    BY DEF LeadsTo, t
  <1>2. \A i \in Words(t, b) : i \in Nat \ {0} /\ i + 1 \in Words(s, b) /\ t[i] = s[i + 1]
    BY <1>1 DEF Words
  <1>3. ASSUME NEW i \in Words(s, b)
        PROVE  i = 1 \/ (i \in Nat /\ i > 1 /\ i - 1 \in Words(t, b))
    <2>1. i \in DOMAIN s /\ i \in Nat /\ i >= 1
      BY <1>1, <1>3 DEF Words
    <2>2. CASE i > 1
      <3>1. i - 1 \in DOMAIN t /\ (i - 1) + 1 = i
        BY <1>1, <2>1, <2>2
      <3>2. t[i - 1] = s[i]
        BY <1>1, <3>1
      <3>. QED
        BY <1>3, <2>1, <2>2, <3>1, <3>2 DEF Words
    <2>. QED
      BY <2>1, <2>2
  <1>4. /\ Words(s, b) = {} => (b \in after <=> b \in before)
        /\ \A i \in Words(s, b) : (\A j \in Words(s, b) : j <= i) => (b \in after <=> Presses(s[i]))
    BY DEF LeadsTo
  <1>5. ASSUME Words(t, b) = {} PROVE b \in after <=> b \in between
    <2>1. \A i \in Words(s, b) : i = 1
      BY <1>3, <1>5
    <2>2. CASE 1 \in Words(s, b)
      <3>1. \A j \in Words(s, b) : j <= 1
        BY <2>1
      <3>. QED
        BY <1>4, <2>2, <3>1
    <2>3. CASE 1 \notin Words(s, b)
      <3>1. Words(s, b) = {}
        BY <2>1, <2>3
      <3>. QED
        BY <1>4, <2>3, <3>1
    <2>. QED
      BY <2>2, <2>3
  <1>6. ASSUME NEW i \in Words(t, b), \A j \in Words(t, b) : j <= i
        PROVE  b \in after <=> Presses(t[i])
    <2>1. i + 1 \in Words(s, b) /\ t[i] = s[i + 1] /\ i \in Nat
      BY <1>2
    <2>2. ASSUME NEW j \in Words(s, b) PROVE j <= i + 1
      BY <1>3, <1>6, <2>1
    <2>3. b \in after <=> Presses(s[i + 1])
      BY <1>4, <2>1, <2>2
    <2>. QED
      BY <2>1, <2>3
  <1>. QED
    BY <1>5, <1>6

\* What one message says.
LEMMA OneWord ==
    ASSUME NEW m, NEW before, NEW after,
           \A b \in Buttons :
              IF \/ m.type = "POINTER_CAPTURE_LOST"
                 \/ m.type = "POINTER_BUTTON" /\ m.button = b
              THEN b \in after <=> Presses(m)
              ELSE b \in after <=> b \in before
    PROVE  LeadsTo(<<m>>, before, after)
  <1>. DEFINE s == <<m>>
  <1>1. DOMAIN s = {1} /\ s[1] = m
    OBVIOUS
  <1>. HIDE DEF s
  <1>2. \A b \in Buttons : \A i \in Words(s, b) : i = 1
    BY <1>1 DEF Words
  <1>3. \A b \in Buttons : 1 \in Words(s, b) <=>
           (m.type = "POINTER_CAPTURE_LOST" \/ (m.type = "POINTER_BUTTON" /\ m.button = b))
    BY <1>1 DEF Words
  <1>4. LeadsTo(s, before, after)
    BY <1>1, <1>2, <1>3 DEF LeadsTo
  <1>. QED
    BY <1>4 DEF s

\* The buttons that the agent reported down and not yet up.
AgentButtons == UNION {proxies[id].buttons : id \in DOMAIN proxies}
CaptureIsButtons == capture = {} <=> AgentButtons = {}

\* The button messages that are on their way take the server's mask to the agent's.
ButtonsFollow == Up => LeadsTo(toServer, pressed, AgentButtons)

LEMMA KeyboardSaysNoButton ==
    ASSUME NEW s \in Seq(KeyboardInput), NEW b
    PROVE  Words(s, b) = {}
  <1>1. \A i \in DOMAIN s : s[i] \in KeyboardInput
    BY ElementOfSeq, LenProperties
  <1>2. \A m \in KeyboardInput : m.type \notin {"POINTER_CAPTURE_LOST", "POINTER_BUTTON"}
    BY DEF KeyboardInput, KeyboardFocus, KeyboardKey
  <1>. QED
    BY <1>1, <1>2 DEF Words

LEMMA SilenceLeadsNowhere ==
    ASSUME NEW buttons
    PROVE  LeadsTo(<<>>, buttons, buttons)
  <1>1. \A b : Words(<<>>, b) = {}
    BY DEF Words
  <1>. QED
    BY <1>1, QuietReads

LEMMA MotionLeadsNowhere ==
    ASSUME NEW type \in MotionTypes, NEW id, NEW l, NEW buttons
    PROVE  LeadsTo(<<PointerLocation(type, id, l)>>, buttons, buttons)
  <1>. DEFINE m == PointerLocation(type, id, l)
  <1>1. m.type \notin {"POINTER_CAPTURE_LOST", "POINTER_BUTTON"}
    BY DEF PointerLocation, MotionTypes, LocationOnlyTypes
  <1>. HIDE DEF m
  <1>2. LeadsTo(<<m>>, buttons, buttons)
    BY <1>1, OneWord
  <1>. QED
    BY <1>2 DEF m

LEMMA ButtonLeads ==
    ASSUME NEW id, NEW l, NEW button, NEW down \in BOOLEAN, NEW buttons
    PROVE  LeadsTo(<<PointerButton(id, l, button, down)>>, buttons,
                   IF down THEN buttons \cup {button} ELSE buttons \ {button})
  <1>. DEFINE m == PointerButton(id, l, button, down)
              after == IF down THEN buttons \cup {button} ELSE buttons \ {button}
  <1>1. m.type = "POINTER_BUTTON" /\ m.button = button /\ (Presses(m) <=> down)
    BY DEF PointerButton, Presses
  <1>2. \A b : IF b = button THEN b \in after <=> down ELSE b \in after <=> b \in buttons
    OBVIOUS
  <1>. HIDE DEF m, after
  <1>3. LeadsTo(<<m>>, buttons, after)
    BY <1>1, <1>2, OneWord
  <1>. QED
    BY <1>3 DEF m, after

LEMMA CaptureLostLeads ==
    ASSUME NEW id, NEW buttons
    PROVE  LeadsTo(<<CaptureLostMessage(id)>>, buttons, {})
  <1>. DEFINE m == CaptureLostMessage(id)
  <1>1. m.type = "POINTER_CAPTURE_LOST" /\ Presses(m) = FALSE
    BY DEF CaptureLostMessage, Presses
  <1>. HIDE DEF m
  <1>2. LeadsTo(<<m>>, buttons, {})
    BY <1>1, OneWord
  <1>. QED
    BY <1>2 DEF m

LEMMA ButtonsOfOne ==
    ASSUME AgentTypeOK, NEW id \in DOMAIN proxies
    PROVE  /\ AgentButtons = proxies[id].buttons /\ id = FakeWindow /\ DOMAIN proxies = {id}
           /\ LeadsTo(LoseCapture(id), AgentButtons, {})
           /\ LoseCapture(id) \in Seq(ToServerMessage) /\ LoseFocus(id) \in Seq(ToServerMessage)
           /\ FocusMessages(id) \in Seq(ToServerMessage)
           /\ \A buttons : /\ LeadsTo(LoseFocus(id), buttons, buttons)
                           /\ LeadsTo(FocusMessages(id), buttons, buttons)
  <1>1. DOMAIN proxies = {id} /\ id = FakeWindow
    BY DEF AgentTypeOK
  <1>2. AgentButtons = proxies[id].buttons
    BY <1>1 DEF AgentButtons
  <1>3. LeadsTo(LoseCapture(id), AgentButtons, {})
    BY <1>2, CaptureLostLeads, SilenceLeadsNowhere DEF LoseCapture
  <1>4. InputOf(Location) \subseteq ToServerMessage
    BY DEF ToServerMessage
  <1>5. /\ LoseCapture(id) \in Seq(ToServerMessage) /\ LoseFocus(id) \in Seq(ToServerMessage)
        /\ FocusMessages(id) \in Seq(ToServerMessage)
    BY <1>4, FocusSpeaks, SequenceOfMore
  <1>6. \A b : Words(LoseFocus(id), b) = {} /\ Words(FocusMessages(id), b) = {}
    BY FocusIsKeyboard, KeyboardSaysNoButton
  <1>7. \A buttons : /\ LeadsTo(LoseFocus(id), buttons, buttons)
                     /\ LeadsTo(FocusMessages(id), buttons, buttons)
    BY <1>6, QuietReads
  <1>. QED
    BY <1>1, <1>2, <1>3, <1>5, <1>7

\* What the user does with the buttons is said of them, and the mouse is
\* captured as long as one is down.
LEMMA UserButtons ==
    ASSUME TypeInv, UserStep, CaptureIsButtons
    PROVE  /\ CaptureIsButtons'
           /\ \E messages \in Seq(ToServerMessage) :
                 toServer' = Sent(messages) /\ LeadsTo(messages, AgentButtons, AgentButtons')
  <1>. DEFINE Said == \E messages \in Seq(ToServerMessage) :
                         toServer' = Sent(messages) /\ LeadsTo(messages, AgentButtons, AgentButtons')
  <1>1. /\ AgentTypeOK /\ DOMAIN proxies' = DOMAIN proxies /\ AgentTypeOK'
        /\ \A id \in DOMAIN proxies : proxies[id] \in ProxyType /\ "buttons" \in DOMAIN proxies[id]
        /\ toServer \in Seq(ToServerMessage)
        /\ capture \subseteq DOMAIN proxies
    BY UserEffect, UserKeepsTypes DEF TypeInv, AgentTypeOK, WireTypeOK, ProxyType
  <1>2. \A messages \in Seq(ToServerMessage) :
           Send(messages) /\ LeadsTo(messages, AgentButtons, AgentButtons') => Said
    BY DEF Send
  <1>3. ASSUME UNCHANGED wireVars, AgentButtons' = AgentButtons PROVE Said
    <2>1. toServer' = Sent(<<>>) /\ <<>> \in Seq(ToServerMessage)
      BY <1>1, <1>3, ConcatProperties, ShortSequences DEF wireVars, Sent
    <2>. QED
      BY <1>3, <2>1, SilenceLeadsNowhere
  <1>. HIDE DEF Said
  <1>4. \A id \in DOMAIN proxies :
           /\ AgentButtons = proxies[id].buttons /\ AgentButtons' = proxies'[id].buttons
           /\ id = FakeWindow /\ DOMAIN proxies = {id}
           /\ capture \in {{}, {id}}
    <2>1. \A id \in DOMAIN proxies : AgentButtons = proxies[id].buttons /\ id = FakeWindow /\ DOMAIN proxies = {id}
      BY <1>1, ButtonsOfOne
    <2>2. \A id \in DOMAIN proxies : AgentButtons' = proxies'[id].buttons
      <3>1. AgentButtons' = UNION {proxies'[i].buttons : i \in DOMAIN proxies}
        BY <1>1 DEF AgentButtons
      <3>. QED
        BY <2>1, <3>1
    <2>. QED
      BY <1>1, <2>1, <2>2
  <1>5. UNCHANGED proxies => AgentButtons' = AgentButtons
    BY DEF AgentButtons
  <1>6. AgentButtons' = AgentButtons /\ UNCHANGED capture => CaptureIsButtons'
    BY DEF CaptureIsButtons
  <1>7. \A point : Target(point) \subseteq DOMAIN proxies /\ (capture # {} => Target(point) = capture)
    BY <1>1 DEF Target
  <1>8. \A point \in CursorPoints \cup {cursor} : \A id \in DOMAIN proxies : \A l \in LocationAt(id, point) :
           /\ \A type \in MotionTypes : PointerLocation(type, id, l) \in ToServerMessage
           /\ \A button \in PointerButtons, down \in BOOLEAN :
                 PointerButton(id, l, button, down) \in ToServerMessage
    <2>1. \A point : \A id \in DOMAIN proxies : \A l \in LocationAt(id, point) : l \in Location
      BY <1>1, LocationsAreOfNow DEF LocationsNow
    <2>. QED
      BY <1>4, <2>1, InputKinds DEF ToServerMessage
  <1>10. \A id \in DOMAIN proxies : \A value :
            [proxies[id] EXCEPT !.focused = value].buttons = proxies[id].buttons
    BY <1>1 DEF ProxyType
  <1>11. ASSUME NEW id \in DOMAIN proxies, NEW value, proxies'[id] = [proxies[id] EXCEPT !.focused = value]
         PROVE  AgentButtons' = AgentButtons
    <2>1. proxies'[id].buttons = proxies[id].buttons
      BY <1>10, <1>11
    <2>. QED
      BY <1>4, <2>1
  <1>. DEFINE Goal == CaptureIsButtons' /\ Said
  <1>m. ASSUME NEW point \in CursorPoints, MouseMove(point) PROVE Goal
    <2>1. UNCHANGED capture
      BY <1>m DEF MouseMove
    <2>2. CASE UNCHANGED <<wireVars, proxies>>
      BY <1>3, <1>5, <1>6, <2>1, <2>2
    <2>3. CASE \E id \in Target(point) : \E l \in LocationAt(id, point) :
                 /\ Send((IF proxies[id].tracking
                          THEN <<>> ELSE <<PointerLocation("POINTER_ENTER", id, l)>>)
                         \o <<PointerLocation("POINTER_MOTION", id, l)>>)
                 /\ proxies' = [proxies EXCEPT ![id].tracking = TRUE]
      <3>. PICK id \in DOMAIN proxies : \E l \in LocationAt(id, point) :
               /\ Send((IF proxies[id].tracking
                        THEN <<>> ELSE <<PointerLocation("POINTER_ENTER", id, l)>>)
                       \o <<PointerLocation("POINTER_MOTION", id, l)>>)
               /\ proxies' = [proxies EXCEPT ![id].tracking = TRUE]
        BY <1>7, <2>3, Zenon
      <3>1. PICK l \in LocationAt(id, point) :
               /\ Send((IF proxies[id].tracking
                        THEN <<>> ELSE <<PointerLocation("POINTER_ENTER", id, l)>>)
                       \o <<PointerLocation("POINTER_MOTION", id, l)>>)
               /\ proxies' = [proxies EXCEPT ![id].tracking = TRUE]
        OBVIOUS
      <3>2. proxies'[id].buttons = proxies[id].buttons
        BY <1>1, <3>1 DEF ProxyType
      <3>3. AgentButtons' = AgentButtons
        BY <1>4, <3>2
      <3>. DEFINE enter == IF proxies[id].tracking
                           THEN <<>> ELSE <<PointerLocation("POINTER_ENTER", id, l)>>
                  motion == <<PointerLocation("POINTER_MOTION", id, l)>>
      <3>4. "POINTER_ENTER" \in MotionTypes /\ "POINTER_MOTION" \in MotionTypes
        BY DEF MotionTypes, LocationOnlyTypes
      <3>5. enter \in Seq(ToServerMessage) /\ motion \in Seq(ToServerMessage)
        BY <1>8, <3>4, ShortSequences
      <3>6. LeadsTo(enter, AgentButtons, AgentButtons) /\ LeadsTo(motion, AgentButtons, AgentButtons)
        BY <3>4, MotionLeadsNowhere, SilenceLeadsNowhere
      <3>7. Send(enter \o motion)
        BY <3>1
      <3>. HIDE DEF enter, motion
      <3>8. LeadsTo(enter \o motion, AgentButtons, AgentButtons) /\ enter \o motion \in Seq(ToServerMessage)
        BY <3>5, <3>6, ReadingBoth, ConcatProperties
      <3>. QED
        BY <1>2, <1>6, <2>1, <3>3, <3>7, <3>8
    <2>. QED
      BY <1>m, <2>2, <2>3, Zenon DEF MouseMove
  <1>l. ASSUME NEW id \in DOMAIN proxies, MouseLeave(id) PROVE Goal
    <2>1. /\ UNCHANGED capture /\ proxies' = [proxies EXCEPT ![id].tracking = FALSE]
          /\ \/ \E l \in LocationAt(id, cursor) :
                   Send(<<PointerLocation("POINTER_LEAVE", id, l)>>)
             \/ UNCHANGED wireVars
      BY <1>l DEF MouseLeave, desktopVars
    <2>2. proxies'[id].buttons = proxies[id].buttons
      BY <1>1, <2>1 DEF ProxyType
    <2>3. AgentButtons' = AgentButtons
      BY <1>4, <2>2
    <2>4. "POINTER_LEAVE" \in MotionTypes
      BY DEF MotionTypes, LocationOnlyTypes
    <2>5. \A l \in LocationAt(id, cursor) :
             <<PointerLocation("POINTER_LEAVE", id, l)>> \in Seq(ToServerMessage)
      BY <1>8, <2>4, ShortSequences
    <2>6. \A l : LeadsTo(<<PointerLocation("POINTER_LEAVE", id, l)>>, AgentButtons, AgentButtons)
      BY <2>4, MotionLeadsNowhere
    <2>7. Said
      BY <1>2, <1>3, <2>1, <2>3, <2>5, <2>6, Zenon
    <2>. QED
      BY <1>6, <2>1, <2>3, <2>7
  <1>w. ASSUME MouseWheel PROVE Goal
    <2>. PICK id \in DOMAIN proxies : \E l \in LocationAt(id, cursor) :
             Send(<<PointerLocation("POINTER_WHEEL", id, l)>>)
      BY <1>7, <1>w DEF MouseWheel
    <2>1. PICK l \in LocationAt(id, cursor) : Send(<<PointerLocation("POINTER_WHEEL", id, l)>>)
      OBVIOUS
    <2>2. UNCHANGED <<proxies, capture>>
      BY <1>w DEF MouseWheel, agentVars, desktopVars
    <2>3. "POINTER_WHEEL" \in MotionTypes
      BY DEF MotionTypes, LocationOnlyTypes
    <2>4. <<PointerLocation("POINTER_WHEEL", id, l)>> \in Seq(ToServerMessage)
      BY <1>8, <2>3, ShortSequences
    <2>5. LeadsTo(<<PointerLocation("POINTER_WHEEL", id, l)>>, AgentButtons, AgentButtons')
      BY <1>5, <2>2, <2>3, MotionLeadsNowhere
    <2>. QED
      BY <1>2, <1>5, <1>6, <2>1, <2>2, <2>4, <2>5
  <1>d. ASSUME NEW button \in PointerButtons, ButtonDown(button) PROVE Goal
    <2>1. CASE UNCHANGED <<wireVars, proxies, capture, focus, stack>>
      BY <1>3, <1>5, <1>6, <2>1
    <2>2. ASSUME NEW id \in Target(cursor), NEW f, f = FocusOf(id), NEW l \in LocationAt(id, cursor),
                 proxies' = [FocusedOn(f) EXCEPT ![id].buttons = @ \cup {button}],
                 capture' = {id},
                 Send(FocusMessages(f) \o <<PointerButton(id, l, button, TRUE)>>)
          PROVE  Goal
      <3>1. id \in DOMAIN proxies /\ f = id
        BY <1>1, <1>7, <2>2 DEF FocusOf, IsPopup, ProxyType
      <3>. DEFINE new == AgentButtons \cup {button}
                  said == <<PointerButton(id, l, button, TRUE)>>
      <3>2. AgentButtons' = new
        <4>1. DOMAIN FocusedOn(id) = {id}
          BY <1>4, <3>1 DEF FocusedOn
        <4>2. FocusedOn(id)[id].buttons = AgentButtons /\ "buttons" \in DOMAIN FocusedOn(id)[id]
          <5>1. FocusedOn(id)[id] = [proxies[id] EXCEPT !.focused = ~IsPopup(id)]
            BY <3>1 DEF FocusedOn
          <5>. QED
            BY <1>1, <1>4, <3>1, <5>1 DEF ProxyType
        <4>3. proxies'[id].buttons = FocusedOn(id)[id].buttons \cup {button}
          BY <2>2, <3>1, <4>1, <4>2
        <4>. QED
          BY <1>4, <3>1, <4>2, <4>3
      <3>3. said \in Seq(ToServerMessage) /\ FocusMessages(f) \in Seq(ToServerMessage)
        BY <1>1, <1>8, <3>1, ButtonsOfOne, ShortSequences
      <3>4. LeadsTo(FocusMessages(f), AgentButtons, AgentButtons) /\ LeadsTo(said, AgentButtons, new)
        BY <1>1, <3>1, ButtonsOfOne, ButtonLeads
      <3>5. Send(FocusMessages(f) \o said)
        BY <2>2
      <3>. HIDE DEF said
      <3>6. LeadsTo(FocusMessages(f) \o said, AgentButtons, new)
            /\ FocusMessages(f) \o said \in Seq(ToServerMessage)
        BY <3>3, <3>4, ReadingBoth, ConcatProperties
      <3>7. Said
        BY <1>2, <3>2, <3>5, <3>6, Zenon
      <3>8. CaptureIsButtons'
        BY <2>2, <3>2 DEF CaptureIsButtons
      <3>. QED
        BY <3>7, <3>8
    <2>3. ASSUME NEW id \in Target(cursor), NEW f, f = FocusOf(id),
                 proxies' = FocusedOn(f), Send(FocusMessages(f)), UNCHANGED capture
          PROVE  Goal
      <3>1. id \in DOMAIN proxies /\ f = id
        BY <1>1, <1>7, <2>3 DEF FocusOf, IsPopup, ProxyType
      <3>2. proxies'[id] = [proxies[id] EXCEPT !.focused = ~IsPopup(id)]
        BY <2>3, <3>1 DEF FocusedOn
      <3>3. AgentButtons' = AgentButtons
        BY <1>11, <3>1, <3>2
      <3>4. /\ FocusMessages(f) \in Seq(ToServerMessage)
            /\ LeadsTo(FocusMessages(f), AgentButtons, AgentButtons)
        BY <1>1, <3>1, ButtonsOfOne
      <3>. QED
        BY <1>2, <1>6, <2>3, <3>3, <3>4
    <2>. QED
      BY <1>d, <2>1, <2>2, <2>3, Zenon DEF ButtonDown
  <1>u. ASSUME NEW button \in PointerButtons, ButtonUp(button) PROVE Goal
    <2>1. CASE UNCHANGED <<wireVars, proxies, capture>>
      BY <1>3, <1>5, <1>6, <2>1
    <2>2. CASE \E id \in Target(cursor) : \E l \in LocationAt(id, cursor) :
                 /\ proxies' = [proxies EXCEPT ![id].buttons = @ \ {button}]
                 /\ capture' = IF proxies'[id].buttons = {} THEN capture \ {id} ELSE capture
                 /\ Send(<<PointerButton(id, l, button, FALSE)>>)
      <3>. PICK id \in DOMAIN proxies : \E l \in LocationAt(id, cursor) :
               /\ proxies' = [proxies EXCEPT ![id].buttons = @ \ {button}]
               /\ capture' = IF proxies'[id].buttons = {} THEN capture \ {id} ELSE capture
               /\ Send(<<PointerButton(id, l, button, FALSE)>>)
        BY <1>7, <2>2, Zenon
      <3>1. PICK l \in LocationAt(id, cursor) :
               /\ proxies' = [proxies EXCEPT ![id].buttons = @ \ {button}]
               /\ capture' = IF proxies'[id].buttons = {} THEN capture \ {id} ELSE capture
               /\ Send(<<PointerButton(id, l, button, FALSE)>>)
        OBVIOUS
      <3>2. proxies'[id].buttons = proxies[id].buttons \ {button}
        BY <1>1, <3>1
      <3>3. AgentButtons' = AgentButtons \ {button}
        BY <1>4, <3>2
      <3>4. CaptureIsButtons'
        BY <1>4, <3>1, <3>3 DEF CaptureIsButtons
      <3>5. /\ <<PointerButton(id, l, button, FALSE)>> \in Seq(ToServerMessage)
            /\ LeadsTo(<<PointerButton(id, l, button, FALSE)>>, AgentButtons, AgentButtons \ {button})
        BY <1>8, ShortSequences, ButtonLeads
      <3>. QED
        BY <1>2, <3>1, <3>3, <3>4, <3>5, Zenon
    <2>. QED
      BY <1>u, <2>1, <2>2, Zenon DEF ButtonUp
  <1>c. ASSUME CaptureTaken PROVE Goal
    <2>1. PICK id \in DOMAIN proxies :
             proxies' = [proxies EXCEPT ![id].buttons = {}] /\ Send(LoseCapture(id)) /\ capture' = {}
      BY <1>1, <1>c DEF CaptureTaken
    <2>2. AgentButtons' = {}
      BY <1>1, <1>4, <2>1
    <2>3. LoseCapture(id) \in Seq(ToServerMessage) /\ LeadsTo(LoseCapture(id), AgentButtons, {})
      BY <1>1, ButtonsOfOne
    <2>. QED
      BY <1>2, <2>1, <2>2, <2>3 DEF CaptureIsButtons
  <1>f. ASSUME FocusLeaves PROVE Goal
    <2>1. PICK id \in DOMAIN proxies :
             proxies' = [proxies EXCEPT ![id] = Unfocused(id)] /\ Send(LoseFocus(id)) /\ UNCHANGED capture
      BY <1>1, <1>f DEF FocusLeaves, AgentTypeOK
    <2>2. AgentButtons' = AgentButtons
      BY <1>1, <1>4, <2>1 DEF Unfocused, ProxyType
    <2>3. LoseFocus(id) \in Seq(ToServerMessage) /\ LeadsTo(LoseFocus(id), AgentButtons, AgentButtons)
      BY <1>1, ButtonsOfOne
    <2>. QED
      BY <1>2, <1>6, <2>1, <2>2, <2>3
  <1>g. ASSUME NEW id \in DOMAIN proxies, FocusComes(id) PROVE Goal
    <2>1. proxies' = FocusedOn(id) /\ Send(FocusMessages(id)) /\ UNCHANGED capture
      BY <1>g DEF FocusComes
    <2>2. proxies'[id] = [proxies[id] EXCEPT !.focused = ~IsPopup(id)]
      BY <2>1 DEF FocusedOn
    <2>3. AgentButtons' = AgentButtons
      BY <1>11, <1>g, <2>2
    <2>4. /\ FocusMessages(id) \in Seq(ToServerMessage)
          /\ LeadsTo(FocusMessages(id), AgentButtons, AgentButtons)
      BY <1>1, ButtonsOfOne
    <2>. QED
      BY <1>2, <1>6, <2>1, <2>3, <2>4
  <1>k. ASSUME NEW key \in Keys, NEW down \in BOOLEAN, Key(key, down) PROVE Goal
    <2>1. PICK id \in DOMAIN proxies :
             /\ proxies' = [proxies EXCEPT ![id].keys = IF down THEN @ \cup {key} ELSE @ \ {key}]
             /\ Send(<<KeyboardKey(id, key, down)>>)
      BY <1>1, <1>k DEF Key, AgentTypeOK
    <2>2. UNCHANGED capture
      BY <1>k DEF Key, desktopVars
    <2>3. AgentButtons' = AgentButtons
      BY <1>1, <1>4, <2>1 DEF ProxyType
    <2>4. <<KeyboardKey(id, key, down)>> \in Seq(KeyboardInput)
      <3>1. KeyboardKey(id, key, down) \in KeyboardInput
        <4>1. id = FakeWindow
          BY <1>4
        <4>. QED
          BY <1>k, <4>1 DEF KeyboardInput
      <3>. QED
        BY <3>1, ShortSequences
    <2>5. LeadsTo(<<KeyboardKey(id, key, down)>>, AgentButtons, AgentButtons)
      BY <2>4, KeyboardSaysNoButton, QuietReads
    <2>6. <<KeyboardKey(id, key, down)>> \in Seq(ToServerMessage)
      <3>1. KeyboardInput \subseteq ToServerMessage
        BY DEF ToServerMessage, InputOf
      <3>. QED
        BY <2>4, <3>1, SequenceOfMore
    <2>. QED
      BY <1>2, <1>6, <2>1, <2>2, <2>3, <2>5, <2>6
  <1>9. Goal
    <2>1. PointerStep \/ FocusStep
      BY DEF UserStep
    <2>. HIDE DEF Goal
    <2>. QED
      BY <2>1, <1>m, <1>l, <1>w, <1>d, <1>u, <1>c, <1>f, <1>g, <1>k, Zenon
         DEF PointerStep, FocusStep
  <1>. QED
    BY <1>9 DEF Said

\* Where the cursor can be is a place on the output that the server can map.
ScreenIsMapped ==
    \A c \in CursorPoints : c \in Point /\ OutputLocalPointToGlobal(RemoteOutput, c) # {}

\* At the scale 1/1 a proxy is where its presentation says, pixel for pixel.
PhysicalIsLogical ==
    \A id \in DOMAIN proxies : proxies[id].presentation.visible =>
       /\ proxies[id].physical = proxies[id].presentation.destination
       /\ RectIsValid(proxies[id].physical) /\ ~RectIsEmpty(proxies[id].physical)

\* So every location that input carries can be mapped.
MappedLocations == {l \in Location : GlobalPoint(l) # {}}
MappedMessage ==
    {Hello} \cup {PresentAck(FakeWindow, s) : s \in 0 .. MaxSequence} \cup InputOf(MappedLocations)
InputIsMapped == toServer \in Seq(MappedMessage)

LEMMA LocationsAreMapped ==
    ASSUME AgentTypeOK, WindowInv, PhysicalIsLogical, ScreenIsMapped,
           NEW id \in DOMAIN proxies, NEW point \in CursorPoints
    PROVE  LocationAt(id, point) \subseteq MappedLocations
  <1>. SUFFICES ASSUME NEW l \in LocationAt(id, point) PROVE l \in MappedLocations
    OBVIOUS
  <1>. DEFINE p == proxies[id].presentation  d == p.destination
              client == [x |-> point.x - proxies[id].physical.x,
                         y |-> point.y - proxies[id].physical.y]
  <1>1. l \in Location
    BY LocationsAreOfNow DEF LocationsNow
  <1>2. outputScale = {OneToOne} /\ p \in Presentation /\ proxies[id] \in ProxyType
    BY DEF AgentTypeOK, WindowInv, ProxyExists, ProxyType
  <1>3. /\ p.visible
        /\ \E c \in UNION {PhysicalFragmentLocalToLogical(d, s, client) : s \in outputScale} :
              l = [sequence |-> p.sequence, client |-> c,
                   output |-> [x |-> d.x + c.x, y |-> d.y + c.y]]
    BY Zenon DEF LocationAt
  <1>4. /\ proxies[id].physical = d /\ RectIsValid(d) /\ ~RectIsEmpty(d) /\ d \in Rect
    BY <1>2, <1>3 DEF PhysicalIsLogical, Presentation
  <1>5. PICK c \in PhysicalFragmentLocalToLogical(d, OneToOne, client) :
           l.output = [x |-> d.x + c.x, y |-> d.y + c.y]
    BY <1>2, <1>3
  <1>6. LogicalRectToPhysical(d, OneToOne) = {d}
    BY <1>4, ScaleOneChangesNothing DEF OneToOne
  <1>7. /\ d.x \in Int /\ d.y \in Int /\ d.w \in Int /\ d.w > 0 /\ d.h \in Int /\ d.h > 0
        /\ point \in Point /\ point.x \in Int /\ point.y \in Int
    BY <1>4, MaxIntAssumption DEF Rect, I32, RectIsValid, RectIsEmpty, ScreenIsMapped, Point
  <1>8. client.x = point.x - d.x /\ client.y = point.y - d.y
    BY <1>4
  <1>9. c = [x |-> (client.x * d.w) \div d.w, y |-> (client.y * d.h) \div d.h]
    BY <1>4, <1>5, <1>6 DEF PhysicalFragmentLocalToLogical
  <1>10. ASSUME NEW a \in Int, NEW n \in Int, n > 0 PROVE (a * n) \div n = a
    <2>1. a * n \in Int /\ a * n < a * n + n
      BY <1>10
    <2>. QED
      BY <1>10, <2>1, FloorIsUnique
  <1>. HIDE DEF client, d, p
  <1>11. client.x \in Int /\ client.y \in Int
    BY <1>7, <1>8
  <1>12. c.x = client.x /\ c.y = client.y
    BY <1>7, <1>9, <1>10, <1>11
  <1>13. l.output = point
    <2>1. d.x + c.x = point.x /\ d.y + c.y = point.y
      BY <1>7, <1>8, <1>12
    <2>2. point = [x |-> point.x, y |-> point.y]
      BY <1>7 DEF Point
    <2>. QED
      BY <1>5, <2>1, <2>2
  <1>. QED
    BY <1>1, <1>13 DEF MappedLocations, GlobalPoint, ScreenIsMapped

LEMMA MappedInputIsSent ==
    ASSUME InputIsMapped, NEW messages \in Seq(InputOf(MappedLocations)), toServer' = Sent(messages)
    PROVE  InputIsMapped'
  <1>1. InputOf(MappedLocations) \subseteq MappedMessage
    BY DEF MappedMessage
  <1>2. messages \in Seq(MappedMessage)
    BY <1>1, SequenceOfMore
  <1>. QED
    BY <1>2, ConcatProperties DEF InputIsMapped, Sent

\* What both ends keep of the buttons.
ButtonInv == PhysicalIsLogical /\ InputIsMapped /\ CaptureIsButtons /\ ButtonsFollow

LEMMA ButtonsStay ==
    ASSUME DOMAIN proxies' = DOMAIN proxies,
           \A id \in DOMAIN proxies : proxies'[id].buttons = proxies[id].buttons
    PROVE  AgentButtons' = AgentButtons
  <1>1. {proxies'[id].buttons : id \in DOMAIN proxies'} = {proxies[id].buttons : id \in DOMAIN proxies}
    OBVIOUS
  <1>. QED
    BY <1>1 DEF AgentButtons

\* The agent says what it does with its buttons.
LEMMA SayingLeads ==
    ASSUME TypeInv, ButtonsFollow, NEW messages \in Seq(ToServerMessage), toServer' = Sent(messages),
           UNCHANGED <<serverSocket, agentSocket, pressed>>,
           LeadsTo(messages, AgentButtons, AgentButtons')
    PROVE  ButtonsFollow'
  <1>. SUFFICES ASSUME Up' PROVE LeadsTo(toServer', pressed', AgentButtons')
    BY DEF ButtonsFollow
  <1>1. Up /\ toServer' = toServer \o messages /\ toServer \in Seq(ToServerMessage)
    BY DEF Up, Sent, TypeInv, WireTypeOK
  <1>2. LeadsTo(toServer, pressed, AgentButtons)
    BY <1>1 DEF ButtonsFollow
  <1>3. LeadsTo(toServer \o messages, pressed, AgentButtons')
    BY <1>1, <1>2, ReadingBoth
  <1>. QED
    BY <1>1, <1>3

\* The server takes a message and does with its buttons what it says.
LEMMA ServerReadsOn ==
    ASSUME Inv, ButtonsFollow, NEW types, Arrived(types), Consume, UNCHANGED agentVars,
           \A b \in Buttons :
              IF \/ Arrival.type = "POINTER_CAPTURE_LOST"
                 \/ Arrival.type = "POINTER_BUTTON" /\ Arrival.button = b
              THEN b \in pressed' <=> Presses(Arrival)
              ELSE b \in pressed' <=> b \in pressed
    PROVE  ButtonsFollow'
  <1>. SUFFICES ASSUME Up' PROVE LeadsTo(toServer', pressed', AgentButtons')
    BY DEF ButtonsFollow
  <1>1. /\ toServer \in Seq(ToServerMessage) /\ toServer # <<>> /\ 1 \in DOMAIN toServer
        /\ Arrival = toServer[1] /\ toServer' = Tail(toServer) /\ Up
    BY ServerReads, ATail DEF Inv, TypeInv, WireTypeOK, Consume, Up
  <1>2. LeadsTo(toServer, pressed, AgentButtons)
    BY <1>1 DEF ButtonsFollow
  <1>3. AgentButtons' = AgentButtons
    BY DEF agentVars, AgentButtons
  <1>4. \A b \in Buttons : 1 \in Words(toServer, b) <=>
           (Arrival.type = "POINTER_CAPTURE_LOST"
            \/ (Arrival.type = "POINTER_BUTTON" /\ Arrival.button = b))
    BY <1>1 DEF Words
  <1>5. \A b \in Buttons : IF 1 \in Words(toServer, b) THEN b \in pressed' <=> Presses(toServer[1])
                                                      ELSE b \in pressed' <=> b \in pressed
    BY <1>1, <1>4
  <1>6. LeadsTo(Tail(toServer), pressed', AgentButtons)
    BY <1>1, <1>2, <1>5, ReadingTheRest
  <1>. QED
    BY <1>1, <1>3, <1>6

LEMMA ServerKeepsButtons ==
    ASSUME Inv, InputIsNeverStale, ButtonInv, ServerStep
    PROVE  ButtonInv'
  <1>1. /\ ServerHandles /\ UNCHANGED agentVars /\ TypeInv /\ toServer \in Seq(ToServerMessage)
        /\ InputIsMapped /\ ButtonsFollow
    BY DEF ServerStep, ServerNext, Inv, TypeInv, WireTypeOK, ButtonInv
  <1>2. PhysicalIsLogical' /\ CaptureIsButtons'
    BY <1>1 DEF ButtonInv, PhysicalIsLogical, CaptureIsButtons, AgentButtons, agentVars, desktopVars
  <1>3. ASSUME NEW types, Arrived(types), Consume PROVE InputIsMapped'
    BY <1>1, <1>3, ATail, ServerReads DEF InputIsMapped, Consume
  <1>h. ASSUME NEW types, Arrived(types), Consume, UNCHANGED pressed,
               types \cap {"POINTER_CAPTURE_LOST", "POINTER_BUTTON"} = {}
        PROVE  ButtonsFollow'
    <2>1. Arrival.type \notin {"POINTER_CAPTURE_LOST", "POINTER_BUTTON"}
      BY <1>1, <1>h, ServerReads
    <2>. QED
      BY <1>1, <1>h, <2>1, ServerReadsOn
  <1>q. ASSUME \/ ServerHello \/ ServerPresentAck \/ ServerPointerLocation \/ ServerPointerMotion
               \/ ServerKeyboard
        PROVE  InputIsMapped' /\ ButtonsFollow'
    <2>1. PICK types \in {{"HELLO"}, {"WINDOW_PRESENT_ACK"}, LocationOnlyTypes, {"POINTER_MOTION"},
                          KeyboardTypes} :
             Arrived(types) /\ Consume /\ UNCHANGED pressed
      BY <1>q DEF ServerHello, ServerPresentAck, ServerPointerLocation, ServerPointerMotion,
                  ServerKeyboard, HandleMotion, sessionVars
    <2>2. types \cap {"POINTER_CAPTURE_LOST", "POINTER_BUTTON"} = {}
      BY DEF LocationOnlyTypes, KeyboardTypes
    <2>. QED
      BY <1>3, <1>h, <2>1, <2>2
  <1>c. ASSUME ServerCaptureLost PROVE InputIsMapped' /\ ButtonsFollow'
    <2>1. Arrived({"POINTER_CAPTURE_LOST"}) /\ Consume /\ pressed' = {}
      BY <1>c DEF ServerCaptureLost, HandleCaptureLost
    <2>2. Arrival.type = "POINTER_CAPTURE_LOST"
      BY <1>1, <2>1, ServerReads
    <2>3. Presses(Arrival) = FALSE
      BY <2>2 DEF Presses
    <2>. QED
      BY <1>1, <1>3, <2>1, <2>2, <2>3, ServerReadsOn
  <1>b. ASSUME ServerPointerButton PROVE InputIsMapped' /\ ButtonsFollow'
    <2>. DEFINE l == Arrival.location  button == Arrival.button  down == Arrival.down
    <2>1. /\ Arrived({"POINTER_BUTTON"}) /\ Consume /\ HandleButton(l, button, down)
      BY <1>b DEF ServerPointerButton
    <2>2. /\ Arrival = toServer[1] /\ 1 \in DOMAIN toServer /\ serverSocket = "open"
          /\ Arrival.type = "POINTER_BUTTON" /\ down \in BOOLEAN
      BY <1>1, <2>1, ServerReads, ToServerKinds, ATail
    <2>3. Lookup(l.sequence) # {}
      BY <2>2 DEF InputIsNeverStale, PointerTypes
    <2>4. GlobalPoint(l) # {}
      <3>1. Arrival \in MappedMessage
        BY <1>1, <2>1, ServerReads, ElementOfSeq, LenProperties, ATail DEF InputIsMapped
      <3>2. l \in MappedLocations
        BY <2>2, <3>1 DEF MappedMessage, Hello, PresentAck, InputOf, KeyboardInput, PointerLocation,
           PointerButton, CaptureLostMessage, KeyboardFocus, KeyboardKey, MotionTypes,
           LocationOnlyTypes
      <3>. QED
        BY <3>2 DEF MappedLocations
    <2>5. Accepted(l)
      BY <2>3, <2>4 DEF Accepted, MapPointer
    <2>6. Presses(Arrival) <=> down
      BY <2>2 DEF Presses
    <2>. HIDE DEF l, button, down
    <2>7. \A b : IF b = button THEN b \in pressed' <=> down ELSE b \in pressed' <=> b \in pressed
      <3>1. CASE OrderError(button, down) /\ UNCHANGED pressed
        BY <3>1 DEF OrderError
      <3>2. CASE down /\ PressButton(l, button)
        BY <3>2 DEF PressButton
      <3>3. CASE ~down /\ ReleaseButton(button)
        BY <3>3 DEF ReleaseButton
      <3>. QED
        BY <2>1, <2>5, <3>1, <3>2, <3>3 DEF HandleButton
    <2>8. \A b \in Buttons :
             IF \/ Arrival.type = "POINTER_CAPTURE_LOST"
                \/ Arrival.type = "POINTER_BUTTON" /\ Arrival.button = b
             THEN b \in pressed' <=> Presses(Arrival)
             ELSE b \in pressed' <=> b \in pressed
      BY <2>2, <2>6, <2>7 DEF button
    <2>. QED
      BY <1>1, <1>3, <2>1, <2>8, ServerReadsOn
  <1>x. ASSUME CloseConnection PROVE InputIsMapped' /\ ButtonsFollow'
    BY <1>x, ShortSequences DEF CloseConnection, InputIsMapped, ButtonsFollow, Up
  <1>9. InputIsMapped' /\ ButtonsFollow'
    BY <1>1, <1>q, <1>c, <1>b, <1>x
       DEF ServerHandles, ServerRejectsAck, ServerRejectsMotion, ServerRejectsMessage, ServerPeerGone
  <1>. QED
    BY <1>2, <1>9 DEF ButtonInv

LEMMA UserKeepsButtons ==
    ASSUME ScreenIsMapped, Inv, WindowInv, ButtonInv, UserStep
    PROVE  ButtonInv'
  <1>1. TypeInv /\ AgentTypeOK /\ PhysicalIsLogical /\ CaptureIsButtons
    BY DEF Inv, TypeInv, ButtonInv
  <1>2. \A id \in DOMAIN proxies, point \in CursorPoints : LocationAt(id, point) \subseteq MappedLocations
    BY <1>1, LocationsAreMapped
  <1>3. /\ \E messages \in Seq(InputOf(MappedLocations)) : toServer' = Sent(messages)
        /\ UNCHANGED <<linuxVars, toAgent, serverSocket, agentSocket, applicationVars>>
        /\ DOMAIN proxies' = DOMAIN proxies
        /\ \A id \in DOMAIN proxies :
              proxies'[id] \in ProxyType /\ SameButForInput(proxies'[id], proxies[id])
    BY <1>1, <1>2, UserSays
  <1>4. InputIsMapped'
    BY <1>3, MappedInputIsSent DEF ButtonInv
  <1>5. PhysicalIsLogical'
    BY <1>1, <1>3 DEF PhysicalIsLogical, SameButForInput
  <1>6. /\ CaptureIsButtons'
        /\ \E messages \in Seq(ToServerMessage) :
              toServer' = Sent(messages) /\ LeadsTo(messages, AgentButtons, AgentButtons')
    BY <1>1, UserButtons
  <1>7. UNCHANGED <<serverSocket, agentSocket, pressed>>
    BY <1>3 DEF linuxVars, sessionVars
  <1>8. ButtonsFollow'
    BY <1>1, <1>6, <1>7, SayingLeads DEF ButtonInv
  <1>. QED
    BY <1>4, <1>5, <1>6, <1>8 DEF ButtonInv

\* The window goes: what the agent had captured is lost, and said to be.
LEMMA DestroyLeads ==
    ASSUME TypeInv, CaptureIsButtons, ReceiveDestroy
    PROVE  /\ AgentButtons' = {} /\ capture' = {}
           /\ \E messages \in Seq(ToServerMessage) :
                 Answer(messages) /\ LeadsTo(messages, AgentButtons, {})
  <1>. DEFINE id == AgentArrival.id  lost == CaptureLostBy({id})
              focusLost == LoseFocus(id)  owned == CaptureLostBy(OwnedBy(id))
  <1>1. /\ AgentTypeOK /\ id \in DOMAIN proxies /\ DOMAIN proxies = {id}
        /\ capture \subseteq {id} /\ DOMAIN proxies' = {}
    <2>1. AgentTypeOK /\ id \in DOMAIN proxies
      BY DEF TypeInv, ReceiveDestroy
    <2>. QED
      BY <2>1, DestroySpeaks DEF AgentTypeOK
  <1>2. AgentButtons' = {} /\ capture' = {}
    BY <1>1 DEF AgentButtons, ReceiveDestroy
  <1>3. Answer(lost \o focusLost \o owned)
    BY DEF ReceiveDestroy
  <1>4. OwnedBy(id) = {}
    <2>1. proxies[id].owners = <<>>
      BY <1>1 DEF AgentTypeOK, ProxyType
    <2>2. ToSet(<<>>) = {}
      BY DEF ToSet
    <2>. QED
      BY <1>1, <2>1, <2>2 DEF OwnedBy
  <1>5. owned = <<>>
    BY <1>4 DEF CaptureLostBy
  <1>6. lost = LoseCapture(id)
    <2>1. CASE capture = {}
      <3>1. proxies[id].buttons = {}
        BY <1>1, <2>1, ButtonsOfOne DEF CaptureIsButtons
      <3>. QED
        BY <2>1, <3>1 DEF CaptureLostBy, LoseCapture
    <2>2. CASE capture = {id}
      <3>1. (CHOOSE i \in capture : TRUE) = id
        BY <2>2
      <3>. QED
        BY <2>2, <3>1 DEF CaptureLostBy
    <2>. QED
      BY <1>1, <2>1, <2>2
  <1>7. /\ lost \in Seq(ToServerMessage) /\ focusLost \in Seq(ToServerMessage)
        /\ LeadsTo(lost, AgentButtons, {}) /\ LeadsTo(focusLost, {}, {})
    BY <1>1, <1>6, ButtonsOfOne
  <1>8. owned \in Seq(ToServerMessage) /\ LeadsTo(owned, {}, {})
    BY <1>5, ShortSequences, SilenceLeadsNowhere
  <1>. HIDE DEF lost, focusLost, owned
  <1>9. LeadsTo(lost \o focusLost, AgentButtons, {}) /\ lost \o focusLost \in Seq(ToServerMessage)
    BY <1>7, ReadingBoth, ConcatProperties
  <1>10. /\ LeadsTo((lost \o focusLost) \o owned, AgentButtons, {})
         /\ (lost \o focusLost) \o owned \in Seq(ToServerMessage)
    BY <1>8, <1>9, ReadingBoth, ConcatProperties
  <1>. QED
    BY <1>2, <1>3, <1>10

\* An ACK says nothing of the buttons.
LEMMA AcksAreMapped ==
    ASSUME TypeInv, NEW order \in SetToSeqs(Ready)
    PROVE  /\ Acks(order) \in Seq(ToServerMessage) /\ Acks(order) \in Seq(MappedMessage)
           /\ \A b : Words(Acks(order), b) = {}
  <1>1. CASE Ready = {}
    <2>1. Acks(order) = <<>>
      BY <1>1, DispatchSpeaks
    <2>2. \A b : Words(<<>>, b) = {}
      BY DEF Words
    <2>. QED
      BY <2>1, <2>2, ShortSequences
  <1>2. CASE Ready = {FakeWindow}
    <2>. DEFINE ack == PresentAck(FakeWindow, pending[FakeWindow].sequence)
    <2>1. Acks(order) = <<ack>> /\ ack \in ToServerMessage
      BY <1>2, DispatchSpeaks
    <2>2. ack \in MappedMessage
      BY <1>2 DEF TypeInv, AgentTypeOK, Ready, Presentation, MappedMessage
    <2>3. ack.type = "WINDOW_PRESENT_ACK"
      BY DEF PresentAck
    <2>. HIDE DEF ack
    <2>4. \A b : Words(<<ack>>, b) = {}
      BY <2>3 DEF Words
    <2>. QED
      BY <2>1, <2>2, <2>4, ShortSequences
  <1>. QED
    BY <1>1, <1>2, DispatchSpeaks

LEMMA AppliedIsLogical ==
    ASSUME Inv, Ahead, WindowInv, PhysicalIsLogical, DispatchPresents
    PROVE  PhysicalIsLogical'
  <1>1. /\ AgentTypeOK
        /\ DOMAIN proxies' = DOMAIN proxies
        /\ \A id \in DOMAIN proxies : proxies'[id] =
              IF id \in Ready THEN Applied(id, pending[id]) ELSE proxies[id]
    BY DEF Inv, TypeInv, DispatchPresents
  <1>2. ASSUME NEW id \in Ready, pending[id].visible
        PROVE  /\ Applied(id, pending[id]).physical = pending[id].destination
               /\ RectIsValid(pending[id].destination) /\ ~RectIsEmpty(pending[id].destination)
    <2>. DEFINE p == pending[id]
    <2>1. /\ p \in Presentation /\ PresentationIsValid(p) /\ proxies[id] \in ProxyType
          /\ outputScale = {OneToOne}
      BY <1>1 DEF Ready, Ahead, AgentTypeOK, WindowInv, ProxyExists
    <2>2. /\ p.destination \in Rect /\ RectIsValid(p.destination) /\ ~RectIsEmpty(p.destination)
      BY <1>2, <2>1 DEF Presentation, PresentationIsValid
    <2>3. PhysicalDestination(p) = {p.destination}
      BY <2>1, <2>2, ScaleOneChangesNothing DEF OneToOne, PhysicalDestination
    <2>4. (CHOOSE r \in PhysicalDestination(p) : TRUE) = p.destination
      BY <2>3
    <2>5. Applied(id, p).physical = p.destination
      BY <1>2, <2>1, <2>4 DEF Applied, ProxyType
    <2>. QED
      BY <2>2, <2>5
  <1>3. \A id \in Ready : Applied(id, pending[id]).presentation = pending[id]
    BY <1>1 DEF Ready, AgentTypeOK, Applied, ProxyType
  <1>4. ASSUME NEW id \in DOMAIN proxies', proxies'[id].presentation.visible
        PROVE  /\ proxies'[id].physical = proxies'[id].presentation.destination
               /\ RectIsValid(proxies'[id].physical) /\ ~RectIsEmpty(proxies'[id].physical)
    <2>1. CASE id \in Ready
      BY <1>1, <1>2, <1>3, <1>4, <2>1
    <2>2. CASE id \notin Ready
      BY <1>1, <1>4, <2>2 DEF PhysicalIsLogical
    <2>. QED
      BY <2>1, <2>2
  <1>. QED
    BY <1>4 DEF PhysicalIsLogical

LEMMA AgentKeepsButtons ==
    ASSUME Inv, Ahead, WindowInv, ButtonInv, ThreadStep
    PROVE  ButtonInv'
  <1>1. /\ AgentStep /\ TypeInv /\ FlowInv /\ AgentTypeOK /\ UNCHANGED pressed
        /\ PhysicalIsLogical /\ InputIsMapped /\ CaptureIsButtons /\ ButtonsFollow
    BY DEF ThreadStep, Inv, TypeInv, linuxVars, sessionVars, ButtonInv
  <1>2. \A messages : Answer(messages) \/ Send(messages) =>
           toServer' = Sent(messages) /\ UNCHANGED <<serverSocket, agentSocket>>
    BY DEF Answer, Send
  <1>3. ASSUME Answer(<<>>), AgentButtons' = AgentButtons
        PROVE  InputIsMapped' /\ ButtonsFollow'
    <2>1. toServer' = Sent(<<>>) /\ UNCHANGED <<serverSocket, agentSocket>>
      BY <1>2, <1>3
    <2>2. LeadsTo(<<>>, AgentButtons, AgentButtons')
      BY <1>3, SilenceLeadsNowhere
    <2>. QED
      BY <1>1, <2>1, <2>2, ShortSequences, MappedInputIsSent, SayingLeads
  <1>4. AgentButtons' = AgentButtons /\ UNCHANGED capture => CaptureIsButtons'
    BY <1>1 DEF CaptureIsButtons
  <1>5. DOMAIN proxies' = {} => PhysicalIsLogical' /\ AgentButtons' = {}
    BY DEF PhysicalIsLogical, AgentButtons
  <1>q. ASSUME ReceiveHelloAck \/ ReceiveOutputConfig \/ ReceiveFrame \/ ReceivePresent
        PROVE  ButtonInv'
    <2>1. Answer(<<>>)
      BY <1>q DEF ReceiveHelloAck, ReceiveOutputConfig, ReceiveFrame, ReceivePresent
    <2>2. /\ DOMAIN proxies' = DOMAIN proxies /\ UNCHANGED capture
          /\ \A id \in DOMAIN proxies : SameButForPixels(proxies'[id], proxies[id])
      BY <1>1, <1>q, QuietHandlersShowNothing DEF ReceivePresent, SameButForPixels, desktopVars
    <2>3. AgentButtons' = AgentButtons
      BY <2>2, ButtonsStay DEF SameButForPixels
    <2>4. PhysicalIsLogical'
      BY <1>1, <2>2 DEF PhysicalIsLogical, SameButForPixels
    <2>. QED
      BY <1>3, <1>4, <2>1, <2>2, <2>3, <2>4 DEF ButtonInv
  <1>c. ASSUME ReceiveCreate PROVE ButtonInv'
    <2>1. AgentArrived("WINDOW_CREATE") /\ Answer(<<>>) /\ UNCHANGED capture
      BY <1>c DEF ReceiveCreate
    <2>2. DOMAIN proxies = {}
      BY <1>1, <2>1, AgentTakes, SilenceIsNoAck DEF Creates, FlowInv, Lifecycle, ProxyExists
    <2>3. \A id \in DOMAIN proxies' : proxies'[id] = NewProxy(AgentArrival)
      BY <1>c, <2>2 DEF ReceiveCreate
    <2>4. NewProxy(AgentArrival).buttons = {} /\ NewProxy(AgentArrival).presentation.visible = FALSE
      BY DEF NewProxy, Hidden
    <2>5. PhysicalIsLogical' /\ AgentButtons' = AgentButtons
      BY <2>2, <2>3, <2>4 DEF PhysicalIsLogical, AgentButtons
    <2>. QED
      BY <1>3, <1>4, <2>1, <2>5 DEF ButtonInv
  <1>d. ASSUME ReceiveDestroy PROVE ButtonInv'
    <2>1. AgentButtons' = {} /\ capture' = {} /\ DOMAIN proxies' = {}
      BY <1>1, <1>d, DestroyLeads, DestroySpeaks
    <2>2. PICK messages \in Seq(ToServerMessage) :
             Answer(messages) /\ LeadsTo(messages, AgentButtons, AgentButtons')
      BY <1>1, <1>d, <2>1, DestroyLeads
    <2>3. ButtonsFollow'
      BY <1>1, <1>2, <2>2, SayingLeads
    <2>4. PICK said \in Seq(InputOf(MappedLocations)) : Answer(said)
      BY <1>1, <1>d, DestroySpeaks
    <2>5. InputIsMapped'
      BY <1>1, <1>2, <2>4, MappedInputIsSent
    <2>. QED
      BY <1>5, <2>1, <2>3, <2>5 DEF ButtonInv, CaptureIsButtons
  <1>a. ASSUME DispatchPresents PROVE ButtonInv'
    <2>1. PICK order \in SetToSeqs(Ready) : Send(Acks(order))
      BY <1>a DEF DispatchPresents
    <2>2. /\ Acks(order) \in Seq(ToServerMessage) /\ Acks(order) \in Seq(MappedMessage)
          /\ \A b : Words(Acks(order), b) = {}
      BY <1>1, <2>1, AcksAreMapped
    <2>3. AgentButtons' = AgentButtons /\ UNCHANGED capture
      BY <1>1, <1>a, DispatchShowsOnly, ButtonsStay DEF DispatchPresents
    <2>4. LeadsTo(Acks(order), AgentButtons, AgentButtons')
      BY <2>2, <2>3, QuietReads
    <2>5. ButtonsFollow'
      BY <1>1, <1>2, <2>1, <2>2, <2>4, SayingLeads
    <2>6. InputIsMapped'
      BY <1>1, <1>2, <2>1, <2>2, ConcatProperties DEF InputIsMapped, Sent
    <2>. QED
      BY <1>1, <1>4, <1>a, <2>3, <2>5, <2>6, AppliedIsLogical DEF ButtonInv
  <1>f. FailConnection(<<>>) => ButtonInv'
    <2>. SUFFICES ASSUME FailConnection(<<>>) PROVE ButtonInv'
      OBVIOUS
    <2>1. /\ DOMAIN proxies' = {} /\ capture' = {} /\ agentSocket' = "closed" /\ toServer' = Sent(<<>>)
      BY DEF FailConnection, Empty
    <2>2. InputIsMapped'
      BY <1>1, <2>1, ShortSequences, MappedInputIsSent
    <2>. QED
      BY <1>5, <2>1, <2>2 DEF ButtonInv, CaptureIsButtons, ButtonsFollow, Up
  <1>e. ASSUME Exit PROVE ButtonInv'
    <2>1. agentSocket' = "closed" /\ UNCHANGED <<proxies, capture, toServer>>
      BY <1>e DEF Exit, desktopVars
    <2>. QED
      BY <1>1, <2>1 DEF ButtonInv, PhysicalIsLogical, InputIsMapped, CaptureIsButtons, AgentButtons,
                        ButtonsFollow, Up
  <1>9. ~ReceiveResize /\ ~ReceiveDamage /\ ~ReceiveActivate
    BY <1>1, AgentReads, ToAgentKinds DEF ReceiveResize, ReceiveDamage, ReceiveActivate
  <1>. QED
    BY <1>1, <1>q, <1>c, <1>d, <1>a, <1>f, <1>e, <1>9, DispatchFailsSilently DEF AgentStep, SocketFails

\* When nothing is under way both ends agree on the buttons, and the agent has
\* the mouse captured as long as one is down (send_button and WM_CAPTURECHANGED
\* of proxy_window.cpp against cw_fake_server_handle_button and
\* cw_fake_server_handle_capture_lost): the last word on a button is always
\* heard, and a second press that is refused as an order error says nothing
\* new.  It takes a screen whose points the server can map - a press at any
\* other point is refused, and the agent not told.
THEOREM ButtonsAgreeAlways ==
    ASSUME Capacity > 1, ScreenIsMapped
    PROVE  Spec => []ButtonsAgree
  <1>. DEFINE Known == Inv /\ Ahead /\ WindowInv /\ InputIsNeverStale
  <1>1. Spec => []Known
    BY AheadInvariant, WindowInvariant, InputIsNeverStaleAlways, PTL
  <1>2. Init => ButtonInv
    <2>. SUFFICES ASSUME Init PROVE ButtonInv
      OBVIOUS
    <2>1. /\ toServer = <<Hello>> /\ pressed = {} /\ capture = {} /\ DOMAIN proxies = {}
      BY DEF Init, ServerInit, SessionInit, AgentInit, Empty
    <2>2. AgentButtons = {} /\ PhysicalIsLogical
      BY <2>1 DEF AgentButtons, PhysicalIsLogical
    <2>3. InputIsMapped
      BY <2>1, ShortSequences DEF InputIsMapped, MappedMessage
    <2>4. \A b : Words(<<Hello>>, b) = {}
      BY DEF Words, Hello
    <2>5. LeadsTo(toServer, pressed, AgentButtons)
      BY <2>1, <2>2, <2>4, QuietReads
    <2>. QED
      BY <2>1, <2>2, <2>3, <2>5 DEF ButtonInv, CaptureIsButtons, ButtonsFollow
  <1>3. Known /\ ButtonInv /\ [Next]_vars => ButtonInv'
    <2>. SUFFICES ASSUME Known, ButtonInv, [Next]_vars PROVE ButtonInv'
      OBVIOUS
    <2>1. CASE KillStep
      <3>1. /\ DOMAIN proxies' = {} /\ capture' = {} /\ agentSocket' = "closed" /\ UNCHANGED toServer
        BY <2>1 DEF KillStep, Kill, Empty
      <3>. QED
        BY <3>1 DEF ButtonInv, PhysicalIsLogical, InputIsMapped, CaptureIsButtons, AgentButtons,
                    ButtonsFollow, Up
    <2>2. CASE UNCHANGED vars
      BY <2>2 DEF vars, linuxVars, sessionVars, wireVars, agentVars, desktopVars, ButtonInv,
                  PhysicalIsLogical, InputIsMapped, CaptureIsButtons, AgentButtons, ButtonsFollow, Up
    <2>. QED
      BY <2>1, <2>2, ServerKeepsButtons, AgentKeepsButtons, UserKeepsButtons DEF Next
  <1>4. Known /\ ButtonInv => ButtonsAgree
    <2>. SUFFICES ASSUME Known, ButtonInv, Settled, FakeWindow \in DOMAIN proxies
                  PROVE  pressed = Proxy.buttons /\ (capture = {} <=> pressed = {})
      BY DEF ButtonsAgree
    <2>1. AgentTypeOK /\ pressed \subseteq Buttons
      BY DEF Inv, TypeInv, SessionInv, SessionTypeOK
    <2>2. AgentButtons = Proxy.buttons /\ Proxy.buttons \subseteq Buttons
      BY <2>1, ButtonsOfOne, EndsAssumption DEF Proxy, AgentTypeOK, ProxyType
    <2>3. LeadsTo(<<>>, pressed, AgentButtons)
      BY DEF Settled, ButtonInv, ButtonsFollow
    <2>4. \A b \in Buttons : b \in AgentButtons <=> b \in pressed
      BY <2>3 DEF LeadsTo, Words
    <2>5. pressed = AgentButtons
      BY <2>1, <2>2, <2>4
    <2>. QED
      BY <2>2, <2>5 DEF ButtonInv, CaptureIsButtons
  <1>. HIDE DEF Known
  <1>. QED
    BY <1>1, <1>2, <1>3, <1>4, PTL DEF Spec
=============================================================================
