----------------------------- MODULE FakeServer -----------------------------
(***************************************************************************)
(* crosswin/fake-server/main.c: a single-threaded server of one window on  *)
(* one connection.  It reads a message, runs the handler to its end and    *)
(* reads the next; a handler that returns false ends the connection.       *)
(***************************************************************************)
EXTENDS Session, Wire

CONSTANTS
    Modes,          \* how the programs may be started: the server's --interactive
                    \* or its script (script_stage2), and two variants.
                    \* keyboard is FALSE in the code, main.c has no keyboard
                    \* handler; TRUE stands for a server that reads the
                    \* keyboard's messages as the Weston exporter does, and is
                    \* otherwise main.c.  mortal: the agent may be killed.
                    \* events: bound, the mouse, keyboard and focus events.
    Script,         \* scripted_presentations
    FirstSequence   \* the sequence an interactive session starts at, 42

ASSUME ScriptAssumption ==
    /\ Modes \subseteq [script : BOOLEAN, keyboard : BOOLEAN, mortal : BOOLEAN, events : Nat]
    /\ Script \in Seq(Presentation) /\ Len(Script) > 0
    /\ FirstSequence \in 1 .. MaxSequence - 1

VARIABLES
    mode,           \* how the programs were started
    helloReceived,  \* hello_received
    awaiting,       \* the sequence of the PRESENT in flight, if any
    deferred,       \* deferred_presentation, if pending
    scriptStep,     \* script_step
    crosshairs      \* what clicks drew in the framebuffer: their surface points

serverVars == <<helloReceived, awaiting, deferred, scriptStep, crosshairs>>

FakeWindow == 1
OneToOne == [numerator |-> 1, denominator |-> 1]
Frame(pixels) ==
    WindowFrame(FakeWindow, 1, InitialWindow.w, InitialWindow.h, Stride(InitialWindow.w), pixels)

ServerInit ==
    /\ SessionInit
    /\ mode \in Modes
    /\ helloReceived = FALSE
    /\ awaiting = {} /\ deferred = {}
    /\ scriptStep = 0
    /\ crosshairs = {}
-----------------------------------------------------------------------------
\* The message loop hands the next message of the stream to on_message.
Arrived(types) ==
    /\ serverSocket = "open"
    /\ toServer # <<>>
    /\ Head(toServer).type \in types
Arrival == Head(toServer)
Consume == toServer' = Tail(toServer) /\ UNCHANGED <<serverSocket, agentSocket>>

\* on_message returned false, or recv failed: the session is cleared, the
\* socket closed and the process ends with what was still unread.
CloseConnection ==
    /\ HandleDisconnect
    /\ serverSocket' = "closed"
    /\ toServer' = <<>>
    /\ UNCHANGED <<toAgent, agentSocket, serverVars>>

\* send_present: the presentation enters the history before it is sent, and
\* then it is the one in flight.  sent is what goes out in the same handler
\* before it, next the sequence counter at that point.
SendPresent(sent, p, next) ==
    /\ CanRecord(p)
    /\ RecordInHistory(p)
    /\ nextSequence' = SequenceAfterRecord(next, p)
    /\ toAgent' = toAgent \o sent \o <<WindowPresent(FakeWindow, p)>>
    /\ awaiting' = {p.sequence}

\* start_after_hello
Greeting ==
    <<HelloAck, OutputConfig(OneToOne),
      WindowCreate(FakeWindow, 0, InitialWindow.w, InitialWindow.h), Frame({})>>
ServerHello ==
    /\ Arrived({"HELLO"}) /\ ~helloReceived
    /\ helloReceived' = TRUE
    /\ \/ mode.script /\ SendPresent(Greeting, Script[1], nextSequence)
       \/ /\ ~mode.script
          /\ SendPresent(Greeting, [RecomputedFor(window) EXCEPT !.sequence = FirstSequence],
                         FirstSequence + 1)
    /\ Consume
    /\ UNCHANGED <<window, pressed, grab, deferred, scriptStep, crosshairs>>

OneStepEarly(step) == step >= Len(Script) - 1    \* mutant
ScriptIsOver(step) == step = Len(Script)
\* handle_present_ack: the state that was deferred while waiting goes first;
\* otherwise the script takes its next step and ends with the window.
ServerPresentAck ==
    /\ Arrived({"WINDOW_PRESENT_ACK"}) /\ helloReceived
    /\ Arrival.sequence \in awaiting
    /\ \/ /\ deferred = {} /\ ~mode.script
          /\ awaiting' = {}
          /\ UNCHANGED <<history, insertions, nextSequence, scriptStep, toAgent>>
       \/ /\ \E p \in deferred : SendPresent(<<>>, p, nextSequence)
          /\ UNCHANGED scriptStep
       \/ /\ deferred = {} /\ mode.script
          /\ scriptStep' = scriptStep + 1
          /\ \/ /\ ScriptIsOver(scriptStep')
                /\ awaiting' = {}
                /\ toAgent' = Append(toAgent, WindowDestroy(FakeWindow))
                /\ UNCHANGED <<history, insertions, nextSequence>>
             \/ /\ ~ScriptIsOver(scriptStep')
                /\ SendPresent(<<>>, Script[scriptStep' + 1], nextSequence)
    /\ deferred' = {}
    /\ Consume
    /\ UNCHANGED <<window, pressed, grab, helloReceived, crosshairs>>

\* An ACK of anything but the PRESENT in flight, and an ACK whose handler
\* cannot record the presentation it was to send.
ServerRejectsAck ==
    /\ Arrived({"WINDOW_PRESENT_ACK"}) /\ helloReceived
    /\ \/ Arrival.sequence \notin awaiting
       \/ \E p \in deferred : ~CanRecord(p)
       \/ /\ deferred = {} /\ mode.script
          /\ ~ScriptIsOver(scriptStep + 1) /\ ~CanRecord(Script[scriptStep + 2])
    /\ CloseConnection
    /\ UNCHANGED window

\* POINTER_ENTER, POINTER_LEAVE and POINTER_WHEEL are mapped and traced only.
ServerPointerLocation ==
    /\ Arrived(LocationOnlyTypes) /\ helloReceived
    /\ Consume
    /\ UNCHANGED <<sessionVars, serverVars, toAgent>>

\* handle_pointer_motion with send_or_defer_present: while a PRESENT is in
\* flight only the newest state is kept, and it is not recorded.
NeverWaits == FALSE    \* mutant
Waits == awaiting # {}
DeferFirst(l) == IF deferred # {} THEN deferred ELSE Generated(l)    \* mutant
DeferAll(l)   == deferred \cup Generated(l)    \* mutant
DeferNone(l)  == {}    \* mutant
Deferred(l)   == Generated(l)
ServerPointerMotion ==
    /\ Arrived({"POINTER_MOTION"}) /\ helloReceived
    /\ LET l == Arrival.location
       IN  \/ /\ Generated(l) = {}
              /\ HandleMotion(l)
              /\ UNCHANGED <<history, insertions, awaiting, deferred, toAgent>>
           \/ /\ Generated(l) # {} /\ Waits
              /\ HandleMotion(l)
              /\ deferred' = Deferred(l)
              /\ UNCHANGED <<history, insertions, awaiting, toAgent>>
           \/ /\ ~Waits
              /\ window' \in Moves(l)
              /\ \E p \in Generated(l) : SendPresent(<<>>, p, nextSequence + 1)
              /\ UNCHANGED <<pressed, grab, deferred>>
    /\ Consume
    /\ UNCHANGED <<helloReceived, scriptStep, crosshairs>>

\* The generated presentation is refused by the history: the window has moved,
\* and the connection ends.  No run takes this step - outside of an ACK's
\* handler the counter is past every recorded sequence (HistoryIsKeyed).
ServerRejectsMotion ==
    /\ Arrived({"POINTER_MOTION"}) /\ helloReceived
    /\ ~Waits
    /\ \E p \in Generated(Arrival.location) : ~CanRecord(p)
    /\ window' \in Moves(Arrival.location)
    /\ CloseConnection

\* handle_pointer_button: a press that maps to the surface is drawn and the
\* whole frame sent again - also a press that is an order error, because the
\* mapping is done before the order is looked at.
ServerPointerButton ==
    /\ Arrived({"POINTER_BUTTON"}) /\ helloReceived
    /\ LET l == Arrival.location
       IN  /\ HandleButton(l, Arrival.button, Arrival.down)
           /\ \/ /\ Arrival.down /\ MapPointer(l) = "ok"
                 /\ crosshairs' = crosshairs \cup SurfacePoint(l)
                 /\ toAgent' = Append(toAgent, Frame(crosshairs'))
              \/ /\ ~(Arrival.down /\ MapPointer(l) = "ok")
                 /\ UNCHANGED <<crosshairs, toAgent>>
    /\ Consume
    /\ UNCHANGED <<window, history, insertions, nextSequence,
                   helloReceived, awaiting, deferred, scriptStep>>

ServerCaptureLost ==
    /\ Arrived({"POINTER_CAPTURE_LOST"}) /\ helloReceived
    /\ HandleCaptureLost
    /\ Consume
    /\ UNCHANGED <<window, history, insertions, nextSequence, serverVars, toAgent>>

KeyboardTypes == {"KEYBOARD_FOCUS", "KEYBOARD_KEY"}
ServerKeyboard ==
    /\ mode.keyboard
    /\ Arrived(KeyboardTypes) /\ helloReceived
    /\ Consume
    /\ UNCHANGED <<sessionVars, serverVars, toAgent>>

\* Before HELLO nothing else is accepted; after it the default branch of the
\* switch refuses every message the server has no handler for, the keyboard's
\* among them.
ServerRejectsMessage ==
    /\ \/ ~helloReceived /\ serverSocket = "open" /\ toServer # <<>> /\ ~Arrived({"HELLO"})
       \/ /\ helloReceived
          /\ Arrived({"HELLO", "WINDOW_FRAME_REQUEST"}
                        \cup (IF mode.keyboard THEN {} ELSE KeyboardTypes))
    /\ CloseConnection
    /\ UNCHANGED window

\* recv returns 0 after the last message of a peer that closed, or an error
\* before it.
ServerPeerGone ==
    /\ serverSocket = "open" /\ agentSocket = "closed"
    /\ CloseConnection
    /\ UNCHANGED window

ServerHandles ==
    \/ ServerHello
    \/ ServerPresentAck \/ ServerRejectsAck
    \/ ServerPointerLocation
    \/ ServerPointerMotion \/ ServerRejectsMotion
    \/ ServerPointerButton
    \/ ServerCaptureLost
    \/ ServerKeyboard
    \/ ServerRejectsMessage
    \/ ServerPeerGone
ServerNext == ServerHandles /\ UNCHANGED mode
=============================================================================
