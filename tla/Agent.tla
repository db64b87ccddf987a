------------------------------- MODULE Agent --------------------------------
(***************************************************************************)
(* The Windows agent: main.cpp (AgentApplication) and proxy_window.cpp     *)
(* (ProxyWindow) on one GUI thread.  The thread takes one thing at a time  *)
(* from its queue - a readable socket, the posted present dispatch, a      *)
(* mouse or keyboard message - and handles it to the end, so each of these *)
(* is one action.                                                          *)
(*                                                                         *)
(* Win32 is outside: which window a mouse message goes to, capture, focus, *)
(* owners and the stacking order are modelled from how the handlers use    *)
(* them, and a drawing call fails only when its HWND is gone.              *)
(***************************************************************************)
EXTENDS Geometry, Wire, SequencesExt

CONSTANTS
    PointerButtons,   \* the buttons of the mouse
    CursorPoints,     \* where on the screen the cursor can be
    Keys,             \* the keys of the keyboard
    MaxPixels         \* pixels of the largest surface, (CW_MAX_PAYLOAD - 32) / 4

ASSUME KeysAssumption == IsFiniteSet(Keys)

VARIABLES
    agent,            \* the GUI thread: "running", "quitting" (WM_QUIT posted), "exited"
    exitCode,         \* exit_code_
    outputScale,      \* output_config_ received: {} or {its scale}
    proxies,          \* windows_: window id -> ProxyWindow
    pending,          \* pending_presents_: window id -> presentation
    dispatchPosted,   \* present_dispatch_posted_
    dispatches,       \* CW_WM_APPLY_PENDING_PRESENTS messages in the thread's queue
    cursor,           \* Win32: the cursor on the screen
    held,             \* Win32: the buttons held down
    capture,          \* Win32: the window that captured the mouse, if any
    focus,            \* Win32: the window with the keyboard focus, if any
    stack             \* Win32: the top-level proxies, topmost last; a popup
                      \* is above the one it belongs to

applicationVars == <<agent, exitCode, outputScale, pending, dispatchPosted, dispatches>>
desktopVars     == <<cursor, held, capture, focus, stack>>
agentVars       == <<applicationVars, proxies, desktopVars>>

Empty == [id \in {} |-> {}]
Without(f, id) == [i \in DOMAIN f \ {id} |-> f[i]]
\* What is left of a sequence when the elements of a set go.  A recursive
\* function, where SelectSeq would do, because the proofs are about it.
Removed(s, gone) ==
    LET kept[n \in 0 .. Len(s)] ==
            IF n = 0 THEN <<>>
            ELSE IF s[n] \in gone THEN kept[n - 1] ELSE Append(kept[n - 1], s[n])
    IN  kept[Len(s)]

AgentInit ==
    /\ agent = "running" /\ exitCode = "success"
    /\ outputScale = {}
    /\ proxies = Empty /\ pending = Empty
    /\ dispatchPosted = FALSE /\ dispatches = 0
    /\ cursor \in CursorPoints
    /\ held = {} /\ capture = {} /\ focus = {} /\ stack = <<>>

\* queue_message: once the connection is gone a send fails, which every caller
\* but those of the handshake, an ACK and a frame request ignores.
Sent(messages) ==
    IF agentSocket = "open" /\ serverSocket = "open" THEN toServer \o messages ELSE toServer
Send(messages) ==
    /\ toServer' = Sent(messages)
    /\ UNCHANGED <<toAgent, serverSocket, agentSocket>>

AgentArrived(type) ==
    /\ agent # "exited" /\ agentSocket = "open"
    /\ toAgent # <<>>
    /\ Head(toAgent).type = type
AgentArrival == Head(toAgent)
\* The message is taken off the stream and the answers are sent.
Answer(messages) ==
    /\ toAgent' = Tail(toAgent)
    /\ toServer' = Sent(messages)
    /\ UNCHANGED <<serverSocket, agentSocket>>

\* fail_connection: everything goes, the windows with their capture and focus,
\* and the thread quits with a failure.
FailConnection(lastWords) ==
    /\ toServer' = Sent(lastWords)
    /\ agentSocket' = "closed" /\ toAgent' = <<>>
    /\ pending' = Empty /\ proxies' = Empty
    /\ exitCode' = "failure" /\ agent' = "quitting"
    /\ capture' = {} /\ focus' = {} /\ stack' = <<>>
    /\ UNCHANGED <<serverSocket, outputScale, cursor, held>>
-----------------------------------------------------------------------------
(* Owners: CREATE gives a popup the HWND of its parent as owner.  owners is  *)
(* that chain, the top-level proxy first.  Win32 destroys an owned HWND     *)
(* with its owner; the ProxyWindow stays in windows_ and its hwnd_ names    *)
(* nothing (alive = FALSE).                                                *)

IsPopup(id)  == proxies[id].owners # <<>>
TopLevel(id) == IF IsPopup(id) THEN Head(proxies[id].owners) ELSE id
OwnedBy(id)  == {i \in DOMAIN proxies :
                    proxies[i].alive /\ id \in ToSet(proxies[i].owners)}
Raised(id)   == Append(Removed(stack, {TopLevel(id)}), TopLevel(id))
IsShown(id)   == proxies[id].presentation.visible /\ proxies[id].alive
DrawFails(id) == proxies[id].presentation.visible /\ ~proxies[id].alive
-----------------------------------------------------------------------------
(* Messages from the server (handle_protocol_message).                     *)

ReceiveHelloAck ==
    /\ AgentArrived("HELLO_ACK")
    /\ Answer(<<>>)
    /\ UNCHANGED agentVars

\* set_output_config redraws what is shown, at the physical rectangle it had.
CanConfigure(m) ==
    /\ ScaleIsValid(m.scale)
    /\ \A id \in DOMAIN proxies : ~DrawFails(id)
ReceiveOutputConfig ==
    /\ AgentArrived("OUTPUT_CONFIG") /\ CanConfigure(AgentArrival)
    /\ outputScale' = {AgentArrival.scale}
    /\ Answer(<<>>)
    /\ UNCHANGED <<agent, exitCode, pending, dispatchPosted, dispatches, proxies, desktopVars>>

Hidden == [sequence |-> 0, source |-> EmptyRect, destination |-> EmptyRect, visible |-> FALSE]
OwnersOf(parent) ==
    IF parent = 0 THEN <<>> ELSE Append(proxies[parent].owners, parent)
NewProxy(m) ==
    [owners |-> OwnersOf(m.parent), alive |-> TRUE, width |-> m.width, height |-> m.height,
     framebuffer |-> {}, frameSequence |-> 0, presentation |-> Hidden,
     physical |-> EmptyRect, buttons |-> {}, tracking |-> FALSE, focused |-> FALSE,
     keys |-> {}]
IsSurface(m) == m.width # 0 /\ m.height # 0 /\ m.width * m.height <= MaxPixels
CanCreate(m) ==
    /\ outputScale # {}
    /\ m.id # 0 /\ m.id \notin DOMAIN proxies
    /\ m.parent # 0 => m.parent \in DOMAIN proxies /\ proxies[m.parent].alive
    /\ IsSurface(m)
ReceiveCreate ==
    /\ AgentArrived("WINDOW_CREATE") /\ CanCreate(AgentArrival)
    /\ proxies' = [id \in DOMAIN proxies \cup {AgentArrival.id} |->
                      IF id = AgentArrival.id THEN NewProxy(AgentArrival) ELSE proxies[id]]
    /\ stack' = IF AgentArrival.parent = 0 THEN Append(stack, AgentArrival.id) ELSE stack
    /\ Answer(<<>>)
    /\ UNCHANGED <<applicationVars, cursor, held, capture, focus>>

\* apply_resize: a blank framebuffer of the new size that no frame has reached
\* yet.  The presentation, also one that is queued, keeps its source, and
\* nothing is drawn.
CanResize(m) == m.id \in DOMAIN proxies /\ IsSurface(m)
ResizeKeepingFrame(m) ==    \* mutant
    [proxies[m.id] EXCEPT !.width = m.width, !.height = m.height, !.framebuffer = {}]
Resized(m) ==
    [proxies[m.id] EXCEPT !.width = m.width, !.height = m.height,
                          !.framebuffer = {}, !.frameSequence = 0]
ReceiveResize ==
    /\ AgentArrived("WINDOW_RESIZE") /\ CanResize(AgentArrival)
    /\ proxies' = [proxies EXCEPT ![AgentArrival.id] = Resized(AgentArrival)]
    /\ Answer(<<>>)
    /\ UNCHANGED <<applicationVars, desktopVars>>

\* apply_frame: an older frame is dropped, a frame of the same sequence is not.
\* The rows have to be the framebuffer's, without padding, although the codec
\* lets padded ones through; the format and the number of bytes it has checked.
FitsProxy(m) ==
    /\ m.id \in DOMAIN proxies
    /\ m.width = proxies[m.id].width /\ m.height = proxies[m.id].height
    /\ m.stride = Stride(proxies[m.id].width)
    /\ m.sequence # 0
IsOldOrSameFrame(m) == m.sequence <= proxies[m.id].frameSequence   \* mutant
IsOldFrame(m) == m.sequence < proxies[m.id].frameSequence
CanApplyFrame(m) == FitsProxy(m) /\ (IsOldFrame(m) \/ ~DrawFails(m.id))
ReceiveFrame ==
    /\ AgentArrived("WINDOW_FRAME") /\ CanApplyFrame(AgentArrival)
    /\ LET m == AgentArrival
       IN  \/ /\ IsOldFrame(m)
              /\ UNCHANGED proxies
           \/ /\ ~IsOldFrame(m)
              /\ proxies' = [proxies EXCEPT ![m.id].framebuffer = m.pixels,
                                            ![m.id].frameSequence = m.sequence]
    /\ Answer(<<>>)
    /\ UNCHANGED <<applicationVars, desktopVars>>

\* apply_damage: all rectangles or none, and only on top of the frame the
\* damage was made against; otherwise the proxy asks for a whole frame and says
\* which one it has.
AnyBase(m) == proxies[m.id].frameSequence # 0 /\ m.sequence > m.base    \* mutant
HasTheBase(m) ==
    /\ proxies[m.id].frameSequence # 0
    /\ m.base = proxies[m.id].frameSequence
    /\ m.sequence > m.base
InsideSurface(r, id) ==
    /\ r.x >= 0 /\ r.y >= 0
    /\ RectRight(r) <= proxies[id].width /\ RectBottom(r) <= proxies[id].height
CanPatch(m) == HasTheBase(m) /\ \A i \in DOMAIN m.rects : InsideSurface(m.rects[i].rect, m.id)
\* One rectangle after the other; recursive as Removed is.
Patched(framebuffer, rects) ==
    LET patched[n \in 0 .. Len(rects)] ==
            IF n = 0 THEN framebuffer
            ELSE {p \in patched[n - 1] : ~RectContainsPoint(rects[n].rect, p)} \cup rects[n].pixels
    IN  patched[Len(rects)]
AskNothing(m) == <<>>    \* mutant
Resync(m) == <<FrameRequest(m.id, proxies[m.id].frameSequence)>>
OnlyMatchingDamage(m) == m.id \in DOMAIN proxies /\ CanPatch(m)    \* mutant
CanApplyDamage(m) ==
    /\ m.id \in DOMAIN proxies
    /\ CanPatch(m) /\ m.rects # <<>> => ~DrawFails(m.id)
ReceiveDamage ==
    /\ AgentArrived("WINDOW_DAMAGE") /\ CanApplyDamage(AgentArrival)
    /\ LET m == AgentArrival
       IN  \/ /\ CanPatch(m)
              /\ proxies' = [proxies EXCEPT ![m.id].framebuffer = Patched(@, m.rects),
                                            ![m.id].frameSequence = m.sequence]
              /\ Answer(<<>>)
           \/ /\ ~CanPatch(m)
              /\ Answer(Resync(m))
              /\ UNCHANGED proxies
    /\ UNCHANGED <<applicationVars, desktopVars>>

\* bring_to_front, at once: a window that is hidden has no place in the stack,
\* also when the presentation that shows it waits for its dispatch.
ReceiveActivate ==
    /\ AgentArrived("WINDOW_ACTIVATE") /\ AgentArrival.id \in DOMAIN proxies
    /\ stack' = IF IsShown(AgentArrival.id) THEN Raised(AgentArrival.id) ELSE stack
    /\ Answer(<<>>)
    /\ UNCHANGED <<applicationVars, proxies, cursor, held, capture, focus>>

\* queue_present: only the newest presentation of a window waits, and one
\* dispatch message is in the queue for all of them.
KeepOldest(id, p) ==    \* mutant
    IF id \in DOMAIN pending THEN pending
    ELSE [i \in DOMAIN pending \cup {id} |-> IF i = id THEN p ELSE pending[i]]
KeepNewest(id, p) == [i \in DOMAIN pending \cup {id} |-> IF i = id THEN p ELSE pending[i]]
PostAlways == dispatches + 1    \* mutant
PostOnce   == IF dispatchPosted THEN dispatches ELSE dispatches + 1
ReceivePresent ==
    /\ AgentArrived("WINDOW_PRESENT") /\ AgentArrival.id \in DOMAIN proxies
    /\ pending' = KeepNewest(AgentArrival.id, AgentArrival.presentation)
    /\ dispatchPosted' = TRUE
    /\ dispatches' = PostOnce
    /\ Answer(<<>>)
    /\ UNCHANGED <<agent, exitCode, outputScale, proxies, desktopVars>>

ReleaseKeys(id) ==
    LET keys == SetToSeq(proxies[id].keys)
    IN  [i \in DOMAIN keys |-> KeyboardKey(id, keys[i], FALSE)]
FocusBeforeKeys(id) ==    \* mutant
    (IF proxies[id].focused THEN <<KeyboardFocus(id, FALSE)>> ELSE <<>>) \o ReleaseKeys(id)
LoseFocus(id) ==
    ReleaseKeys(id) \o (IF proxies[id].focused THEN <<KeyboardFocus(id, FALSE)>> ELSE <<>>)
LoseSilently(id) == <<>>    \* mutant
LoseCapture(id) ==
    IF proxies[id].buttons # {} THEN <<CaptureLostMessage(id)>> ELSE <<>>

\* apply_destroy gives back capture, keys and focus in the window's name
\* before the window goes, and the popups that belong to it lose their HWNDs
\* with it; the last window's end is the agent's.
ForgetOwned(id) ==    \* mutant
    [i \in DOMAIN proxies \ {id} |->
        IF i \in OwnedBy(id) THEN [proxies[i] EXCEPT !.alive = FALSE] ELSE proxies[i]]
WithoutWindow(id) ==
    [i \in DOMAIN proxies \ {id} |->
        IF i \in OwnedBy(id)
        THEN [proxies[i] EXCEPT !.alive = FALSE,
                                !.buttons = IF i \in capture THEN {} ELSE @]
        ELSE proxies[i]]
CaptureLostBy(ids) ==
    IF capture \cap ids = {} THEN <<>> ELSE LoseCapture(CHOOSE id \in capture : TRUE)
ReceiveDestroy ==
    /\ AgentArrived("WINDOW_DESTROY") /\ AgentArrival.id \in DOMAIN proxies
    /\ LET id == AgentArrival.id
           gone == {id} \cup OwnedBy(id)
       IN  /\ Answer(CaptureLostBy({id}) \o LoseFocus(id) \o CaptureLostBy(OwnedBy(id)))
           /\ capture' = capture \ gone /\ focus' = focus \ gone
           /\ stack' = Removed(stack, {id})
           /\ pending' = Without(pending, id)
           /\ proxies' = WithoutWindow(id)
           /\ agent' = IF DOMAIN proxies = {id} THEN "quitting" ELSE agent
    /\ UNCHANGED <<exitCode, outputScale, dispatchPosted, dispatches, cursor, held>>

\* A message its handler refuses, or the server's end of the connection.
Refused(m) ==
    CASE m.type = "OUTPUT_CONFIG"  -> ~CanConfigure(m)
      [] m.type = "WINDOW_CREATE"  -> ~CanCreate(m)
      [] m.type = "WINDOW_RESIZE"  -> ~CanResize(m)
      [] m.type = "WINDOW_FRAME"   -> ~CanApplyFrame(m)
      [] m.type = "WINDOW_DAMAGE"  -> ~CanApplyDamage(m)
      [] m.type \in {"WINDOW_PRESENT", "WINDOW_ACTIVATE", "WINDOW_DESTROY"}
                                   -> m.id \notin DOMAIN proxies
      [] OTHER                     -> FALSE
NeverGone == FALSE    \* mutant
PeerGone  == serverSocket = "closed"
SocketFails ==
    /\ agent # "exited" /\ agentSocket = "open"
    /\ \/ PeerGone
       \/ toAgent # <<>> /\ Refused(AgentArrival)
    /\ FailConnection(<<>>)
    /\ UNCHANGED <<dispatchPosted, dispatches>>
-----------------------------------------------------------------------------
(* The posted dispatch (apply_pending_presents, ProxyWindow::apply_present) *)

PhysicalDestination(p) ==
    UNION {LogicalRectToPhysical(p.destination, s) : s \in outputScale}
Presentable(id, p) ==
    /\ p.source.x >= 0 /\ p.source.y >= 0 /\ p.source.w >= 0 /\ p.source.h >= 0
    /\ p.destination.w = p.source.w /\ p.destination.h = p.source.h
    /\ RectRight(p.source) <= proxies[id].width /\ RectBottom(p.source) <= proxies[id].height
    /\ p.visible => /\ proxies[id].alive
                    /\ \E r \in PhysicalDestination(p) : ~RectIsEmpty(r)
AppliedForgetful(id, p) ==    \* mutant
    [proxies[id] EXCEPT !.presentation = IF p.visible THEN p ELSE Hidden,
                        !.physical = IF p.visible
                                     THEN CHOOSE r \in PhysicalDestination(p) : TRUE
                                     ELSE EmptyRect]
Applied(id, p) ==
    [proxies[id] EXCEPT !.presentation = p,
                        !.physical = IF p.visible
                                     THEN CHOOSE r \in PhysicalDestination(p) : TRUE
                                     ELSE EmptyRect]

TakeAndForget ==    \* mutant
    /\ agent # "exited" /\ dispatches > 0
    /\ dispatches' = dispatches - 1
    /\ UNCHANGED dispatchPosted
\* present_dispatch_posted_ is cleared before anything is applied.
TakeDispatch ==
    /\ agent # "exited" /\ dispatches > 0
    /\ dispatches' = dispatches - 1
    /\ dispatchPosted' = FALSE
Ready == DOMAIN pending \cap DOMAIN proxies
NoAcks(order) == <<>>    \* mutant
AcksOfTheReplaced(order) ==    \* mutant
    [i \in DOMAIN order |-> PresentAck(order[i], proxies[order[i]].presentation.sequence)]
Acks(order) == [i \in DOMAIN order |-> PresentAck(order[i], pending[order[i]].sequence)]

\* update_layered_window puts a window on top when it was hidden, not when it
\* is only drawn again.
OnTop(shows) == Removed(stack, ToSet(shows)) \o shows
StackedByAll(order) ==    \* mutant
    OnTop(Removed(order, {id \in Ready : ~pending[id].visible \/ IsPopup(id)}))
StackedBy(order) ==
    OnTop(Removed(order, {id \in Ready : ~pending[id].visible \/ IsShown(id) \/ IsPopup(id)}))

\* Every presentation that waits is applied and then acknowledged, in the
\* order of a hash table; one whose window was destroyed meanwhile is dropped
\* without an ACK.
DispatchPresents ==
    /\ TakeDispatch
    /\ \A id \in Ready : Presentable(id, pending[id])
    /\ proxies' = [id \in DOMAIN proxies |->
                      IF id \in Ready THEN Applied(id, pending[id]) ELSE proxies[id]]
    /\ pending' = Empty
    /\ \E order \in SetToSeqs(Ready) : Send(Acks(order)) /\ stack' = StackedBy(order)
    /\ UNCHANGED <<agent, exitCode, outputScale, cursor, held, capture, focus>>

\* The first presentation that cannot be applied takes the connection with it.
DispatchFails ==
    /\ TakeDispatch
    /\ \E order \in SetToSeqs({id \in Ready : Presentable(id, pending[id])}) :
          /\ Len(order) < Cardinality(Ready)
          /\ \E done \in 0 .. Len(order) : FailConnection(Acks(SubSeq(order, 1, done)))
-----------------------------------------------------------------------------
(* Input (ProxyWindow::handle_message).  Once WM_QUIT is posted no input    *)
(* message is taken from the queue.                                        *)

\* make_pointer_location: none while the proxy is hidden, whose capture may
\* still bring it messages.
LocationAt(id, point) ==
    LET p == proxies[id].presentation
        client == [x |-> point.x - proxies[id].physical.x, y |-> point.y - proxies[id].physical.y]
    IN  IF ~p.visible THEN {}
        ELSE {l \in {[sequence |-> p.sequence, client |-> c,
                      output |-> [x |-> p.destination.x + c.x, y |-> p.destination.y + c.y]] :
                         c \in UNION {PhysicalFragmentLocalToLogical(p.destination, s, client)
                                         : s \in outputScale}}
                : l.output \in Point}

\* Win32: the captured window gets every mouse message, otherwise one that is
\* shown under the cursor does - not always the topmost, for where a layered
\* window is transparent the mouse reaches the one below.
Covers(id, point) == IsShown(id) /\ RectContainsPoint(proxies[id].physical, point)
Target(point) ==
    IF capture # {} THEN capture ELSE {id \in DOMAIN proxies : Covers(id, point)}

Unreported(point) == \E id \in Target(point) : LocationAt(id, point) = {}

\* WM_MOUSEMOVE: the first one since the pointer left says ENTER before it.
MouseMove(point) ==
    /\ agent = "running"
    /\ cursor' = point
    /\ \/ \E id \in Target(point) : \E l \in LocationAt(id, point) :
             /\ Send((IF proxies[id].tracking
                      THEN <<>> ELSE <<PointerLocation("POINTER_ENTER", id, l)>>)
                     \o <<PointerLocation("POINTER_MOTION", id, l)>>)
             /\ proxies' = [proxies EXCEPT ![id].tracking = TRUE]
       \/ /\ Target(point) = {} \/ Unreported(point)
          /\ UNCHANGED <<wireVars, proxies>>
    /\ UNCHANGED <<applicationVars, held, capture, focus, stack>>

\* WM_MOUSELEAVE, posted once for each time the pointer was tracked.
MouseLeave(id) ==
    /\ agent = "running"
    /\ proxies[id].alive /\ proxies[id].tracking
    /\ ~Covers(id, cursor) /\ id \notin capture
    /\ proxies' = [proxies EXCEPT ![id].tracking = FALSE]
    /\ \/ \E l \in LocationAt(id, cursor) : Send(<<PointerLocation("POINTER_LEAVE", id, l)>>)
       \/ LocationAt(id, cursor) = {} /\ UNCHANGED wireVars
    /\ UNCHANGED <<applicationVars, desktopVars>>

\* send_wheel
MouseWheel ==
    /\ agent = "running"
    /\ \E id \in Target(cursor) : \E l \in LocationAt(id, cursor) :
          Send(<<PointerLocation("POINTER_WHEEL", id, l)>>)
    /\ UNCHANGED agentVars

\* What SetFocus does before it returns: WM_KILLFOCUS to the one window,
\* WM_SETFOCUS to the other (release_pressed_keys, send_keyboard_focus), and
\* its activation brings it to the top.  A popup that gets the focus says
\* nothing of it.
Unfocused(id) == [proxies[id] EXCEPT !.focused = FALSE, !.keys = {}]
FocusedOn(id) ==
    [i \in DOMAIN proxies |->
        IF i = id THEN [proxies[i] EXCEPT !.focused = ~IsPopup(i)]
        ELSE IF i \in focus THEN Unfocused(i) ELSE proxies[i]]
GainFocus(id) ==
    IF proxies[id].focused \/ IsPopup(id) THEN <<>> ELSE <<KeyboardFocus(id, TRUE)>>
FocusMessages(id) ==
    (IF focus \in {{}, {id}} THEN <<>> ELSE LoseFocus(CHOOSE i \in focus : TRUE))
    \o GainFocus(id)
Activated(id) == IF focus = {id} THEN stack ELSE Raised(id)
PressedWindow(id) == id    \* mutant
\* GW_OWNER is the window a popup was created for, itself maybe a popup.
FocusOf(id) == IF IsPopup(id) THEN Last(proxies[id].owners) ELSE id

\* A button goes down: the focus first, then send_button - which returns
\* early, with neither mask nor capture changed, when there is no location.
ButtonDown(button) ==
    /\ agent = "running"
    /\ button \notin held
    /\ held' = held \cup {button}
    /\ \/ \E id \in Target(cursor) : LET f == FocusOf(id) IN
             /\ focus' = {f}
             /\ stack' = Activated(f)
             /\ \/ \E l \in LocationAt(id, cursor) :
                      /\ proxies' = [FocusedOn(f) EXCEPT ![id].buttons = @ \cup {button}]
                      /\ capture' = {id}
                      /\ Send(FocusMessages(f) \o <<PointerButton(id, l, button, TRUE)>>)
                \/ /\ LocationAt(id, cursor) = {}
                   /\ proxies' = FocusedOn(f)
                   /\ Send(FocusMessages(f))
                   /\ UNCHANGED capture
       \/ /\ Target(cursor) = {}
          /\ UNCHANGED <<wireVars, proxies, capture, focus, stack>>
    /\ UNCHANGED <<applicationVars, cursor>>

\* A button goes up: the mask is cleared before the capture is given back, so
\* that WM_CAPTURECHANGED finds nothing to report.
ButtonUp(button) ==
    /\ agent = "running"
    /\ button \in held
    /\ held' = held \ {button}
    /\ \/ \E id \in Target(cursor) : \E l \in LocationAt(id, cursor) :
             /\ proxies' = [proxies EXCEPT ![id].buttons = @ \ {button}]
             /\ capture' = IF proxies'[id].buttons = {} THEN capture \ {id} ELSE capture
             /\ Send(<<PointerButton(id, l, button, FALSE)>>)
       \/ /\ Target(cursor) = {} \/ Unreported(cursor)
          /\ UNCHANGED <<wireVars, proxies, capture>>
    /\ UNCHANGED <<applicationVars, cursor, focus, stack>>

\* WM_CAPTURECHANGED: Win32 gives the mouse to something else.
CaptureTaken ==
    /\ agent = "running"
    /\ \E id \in capture :
          /\ proxies' = [proxies EXCEPT ![id].buttons = {}]
          /\ Send(LoseCapture(id))
    /\ capture' = {}
    /\ UNCHANGED <<applicationVars, cursor, held, focus, stack>>

\* WM_KILLFOCUS and WM_SETFOCUS when the user turns to another application
\* and back.
FocusLeaves ==
    /\ agent = "running"
    /\ \E id \in focus :
          /\ proxies' = [proxies EXCEPT ![id] = Unfocused(id)]
          /\ Send(LoseFocus(id))
    /\ focus' = {}
    /\ UNCHANGED <<applicationVars, cursor, held, capture, stack>>
FocusComes(id) ==
    /\ agent = "running"
    /\ proxies[id].alive /\ ~IsPopup(id)
    /\ focus = {}
    /\ focus' = {id}
    /\ stack' = Raised(id)
    /\ proxies' = FocusedOn(id)
    /\ Send(FocusMessages(id))
    /\ UNCHANGED <<applicationVars, cursor, held, capture>>

\* send_key: a release is sent only of a key whose press was.
Key(key, down) ==
    /\ agent = "running"
    /\ \E id \in focus :
          /\ proxies[id].focused
          /\ down \/ key \in proxies[id].keys
          /\ proxies' = [proxies EXCEPT ![id].keys = IF down THEN @ \cup {key} ELSE @ \ {key}]
          /\ Send(<<KeyboardKey(id, key, down)>>)
    /\ UNCHANGED <<applicationVars, desktopVars>>
-----------------------------------------------------------------------------
\* GetMessageW returns WM_QUIT when nothing else is posted: run returns
\* exit_code_ and the process ends.
Exit ==
    /\ agent = "quitting" /\ dispatches = 0
    /\ agent' = "exited"
    /\ agentSocket' = "closed" /\ toAgent' = <<>>
    /\ UNCHANGED <<toServer, serverSocket, exitCode, outputScale, pending, dispatchPosted,
                   dispatches, proxies, desktopVars>>

\* The process is killed.
Kill ==
    /\ agent # "exited"
    /\ agent' = "exited" /\ exitCode' = "failure"
    /\ agentSocket' = "closed" /\ toAgent' = <<>>
    /\ proxies' = Empty /\ pending' = Empty
    /\ dispatchPosted' = FALSE /\ dispatches' = 0
    /\ capture' = {} /\ focus' = {} /\ stack' = <<>>
    /\ UNCHANGED <<toServer, serverSocket, outputScale, cursor, held>>

\* What the thread does by itself, and what the user and Win32 bring it.
AgentStep ==
    \/ ReceiveHelloAck \/ ReceiveOutputConfig
    \/ ReceiveCreate \/ ReceiveResize \/ ReceiveFrame \/ ReceiveDamage
    \/ ReceivePresent \/ ReceiveActivate \/ ReceiveDestroy
    \/ SocketFails
    \/ DispatchPresents \/ DispatchFails
    \/ Exit
PointerStep ==
    \/ \E point \in CursorPoints : MouseMove(point)
    \/ \E id \in DOMAIN proxies : MouseLeave(id)
    \/ MouseWheel
    \/ \E button \in PointerButtons : ButtonDown(button)
    \/ \E button \in PointerButtons : ButtonUp(button)
    \/ CaptureTaken
FocusStep ==
    \/ FocusLeaves
    \/ \E id \in DOMAIN proxies : FocusComes(id)
    \/ \E key \in Keys, down \in BOOLEAN : Key(key, down)
=============================================================================
