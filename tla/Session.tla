------------------------------ MODULE Session -------------------------------
(***************************************************************************)
(* The fake server's session (crosswin/fake-server/session.c): one         *)
(* Linux-owned window on one remote output, the ring of the presentations  *)
(* that were transmitted, and the pointer state - pressed buttons and the  *)
(* move grab - driven by the input that names those presentations.         *)
(*                                                                         *)
(* Each function of session.c is an operator over the variables below: a   *)
(* guard or a value where it only reads, an action on the variables it     *)
(* writes.  FakeServer combines them into message handlers.                *)
(***************************************************************************)
EXTENDS Geometry

CONSTANTS
    Buttons,        \* the buttons of the pressed mask
    Capacity,       \* CW_PRESENTATION_HISTORY_CAPACITY
    MaxSequence,    \* UINT64_MAX
    RemoteOutput,   \* remote_output_global
    InitialWindow   \* window_global at init; its size is the surface's

ASSUME ButtonsAssumption == "left" \in Buttons
ASSUME CapacityAssumption == Capacity \in Nat \ {0}
ASSUME MaxSequenceAssumption == MaxSequence \in Nat \ {0}
ASSUME RectanglesAssumption ==
    /\ RemoteOutput \in Rect /\ RectIsValid(RemoteOutput) /\ ~RectIsEmpty(RemoteOutput)
    /\ InitialWindow \in Rect /\ RectIsValid(InitialWindow) /\ ~RectIsEmpty(InitialWindow)

VARIABLES
    window,         \* window_global
    history,        \* history[], the ring
    insertions,     \* history_insertions
    nextSequence,   \* next_presentation_sequence
    pressed,        \* pressed_button_mask, as the set of its buttons
    grab            \* grab_active, grab_global_pointer, grab_initial_window

sessionVars == <<window, history, insertions, nextSequence, pressed, grab>>

Presentation == [sequence : 0 .. MaxSequence, source : Rect, destination : Rect,
                 visible : BOOLEAN]
Invisible(sequence) == [sequence |-> sequence, source |-> EmptyRect,
                        destination |-> EmptyRect, visible |-> FALSE]
NoPresentation == Invisible(0)

Slots == 0 .. Capacity - 1
\* What an input message says of the pointer: the presentation it was made on,
\* and the point in that presentation's window and on the output.
Location == [sequence : 0 .. MaxSequence, client : Point, output : Point]
Grab == [active : BOOLEAN, pointer : Point, window : Rect]

SessionInit ==
    /\ window = InitialWindow
    /\ history = [i \in Slots |-> NoPresentation]
    /\ insertions = 0
    /\ nextSequence = 1
    /\ pressed = {}
    /\ grab = [active |-> FALSE, pointer |-> [x |-> 0, y |-> 0], window |-> EmptyRect]
-----------------------------------------------------------------------------
(* The presentation history.                                               *)

SurfaceBounds == [x |-> 0, y |-> 0, w |-> InitialWindow.w, h |-> InitialWindow.h]

PresentationIsValid(p) ==
    /\ p.sequence # 0
    /\ RectIsValid(p.source) /\ RectIsValid(p.destination)
    /\ p.source.x >= 0 /\ p.source.y >= 0
    /\ p.source.w = p.destination.w /\ p.source.h = p.destination.h
    /\ RectRight(p.source) <= SurfaceBounds.w /\ RectBottom(p.source) <= SurfaceBounds.h
    /\ p.visible => ~RectIsEmpty(p.source) /\ ~RectIsEmpty(p.destination)

Available == Smaller(insertions, Capacity)
Recorded  == {history[i] : i \in 0 .. Available - 1}
Lookup(sequence) == {p \in Recorded : p.sequence = sequence /\ sequence # 0}

CanRecordTwice(p) == PresentationIsValid(p) /\ p.sequence # MaxSequence    \* mutant
CanRecord(p) ==
    /\ PresentationIsValid(p)
    /\ p.sequence # MaxSequence
    /\ Lookup(p.sequence) = {}

RecordWithoutWrap(p) ==    \* mutant
    /\ history' = [history EXCEPT ![Smaller(insertions, Capacity - 1)] = p]
    /\ insertions' = insertions + 1
\* The ring's part of cw_fake_server_record_presentation ...
RecordInHistory(p) ==
    /\ history' = [history EXCEPT ![insertions % Capacity] = p]
    /\ insertions' = insertions + 1
\* ... and its part on the sequence counter, given the counter's value.
SequenceAfterRecord(next, p) == IF p.sequence >= next THEN p.sequence + 1 ELSE next

\* cw_fake_server_recompute_presentation reserves the next sequence for the
\* region of the window that the output shows, or for an invisible state.
CanRecompute == nextSequence \notin {0, MaxSequence}
RecomputedFor(w) ==
    LET region == WindowRegionOnOutput(w, RemoteOutput)
    IN  IF region = {}
        THEN Invisible(nextSequence)
        ELSE LET r == CHOOSE r \in region : TRUE
             IN  [sequence |-> nextSequence, source |-> r.source,
                  destination |-> r.destination, visible |-> TRUE]
-----------------------------------------------------------------------------
(* Pointer input.                                                          *)

\* cw_fake_server_map_pointer: the global point, the surface point the client
\* point had in the presentation it was made on, and the status.
GlobalPoint(l) == OutputLocalPointToGlobal(RemoteOutput, l.output)
SurfacePointNow(l) ==    \* mutant
    UNION {PresentedFragmentToSurfaceLocal(RecomputedFor(window).source, l.client)
              : p \in Lookup(l.sequence)}
SurfacePoint(l) ==
    UNION {IF p.visible THEN PresentedFragmentToSurfaceLocal(p.source, l.client) ELSE {}
              : p \in Lookup(l.sequence)}
MapPointer(l) ==
    IF GlobalPoint(l) = {} THEN "invalid-coordinate"
    ELSE IF Lookup(l.sequence) = {} THEN "stale-presentation"
    ELSE IF SurfacePoint(l) = {} THEN "outside-fragment"
    ELSE "ok"

\* Only a presentation the history lacks, or a point that is not a coordinate,
\* keeps an event from the buttons and the grab.
Accepted(l) == MapPointer(l) \in {"ok", "outside-fragment"}

DriftingTarget(global) ==    \* mutant
    [window EXCEPT !.x = @ + (global.x - grab.pointer.x),
                   !.y = @ + (global.y - grab.pointer.y)]
\* update_fake_grab: where the grab puts the window for this pointer.
GrabTarget(global) ==
    [window EXCEPT !.x = grab.window.x + (global.x - grab.pointer.x),
                   !.y = grab.window.y + (global.y - grab.pointer.y)]
Moves(l) ==
    IF Accepted(l) /\ grab.active
    THEN {w \in {GrabTarget(g) : g \in GlobalPoint(l)} :
             FitsI32(w.x) /\ FitsI32(w.y) /\ w # window}
    ELSE {}
\* The presentation a motion generates.  The window moves even when the
\* sequence counter is exhausted and nothing can be generated.
Generated(l) == IF CanRecompute THEN {RecomputedFor(w) : w \in Moves(l)} ELSE {}

\* cw_fake_server_handle_motion, without the history: what the caller does
\* with the generated presentation decides that.
HandleMotion(l) ==
    /\ \/ Moves(l) = {} /\ window' = window
       \/ window' \in Moves(l)
    /\ nextSequence' = IF Generated(l) = {} THEN nextSequence ELSE nextSequence + 1
    /\ UNCHANGED <<pressed, grab>>

\* A second press and a release of an unpressed button are order errors.
OrderError(button, down) == (button \in pressed) <=> down

\* cw_fake_server_handle_button
PressButton(l, button) ==
    /\ pressed' = pressed \cup {button}
    /\ \/ /\ button = "left"
          /\ \E g \in GlobalPoint(l) :
                grab' = [active |-> TRUE, pointer |-> g, window |-> window]
       \/ button # "left" /\ grab' = grab
ReleaseButton(button) ==
    /\ pressed' = pressed \ {button}
    /\ grab' = [grab EXCEPT !.active = @ /\ button # "left"]
HandleButton(l, button, down) ==
    \/ /\ Accepted(l) /\ ~OrderError(button, down)
       /\ \/ down /\ PressButton(l, button)
          \/ ~down /\ ReleaseButton(button)
    \/ /\ ~Accepted(l) \/ OrderError(button, down)
       /\ UNCHANGED <<pressed, grab>>

LoseButtonsOnly == pressed' = {} /\ UNCHANGED grab    \* mutant
HandleCaptureLost ==
    /\ pressed' = {}
    /\ grab' = [grab EXCEPT !.active = FALSE]

DisconnectToZero ==    \* mutant
    /\ HandleCaptureLost
    /\ insertions' = 0 /\ nextSequence' = 0
    /\ UNCHANGED history
HandleDisconnect ==
    /\ HandleCaptureLost
    /\ insertions' = 0
    /\ nextSequence' = 1
    /\ UNCHANGED history
-----------------------------------------------------------------------------
(* Properties of the session's state, whoever calls it.                    *)

SessionTypeOK ==
    /\ window \in Rect
    /\ history \in [Slots -> Presentation]
    /\ insertions \in Nat
    /\ nextSequence \in 1 .. MaxSequence
    /\ pressed \in SUBSET Buttons
    /\ grab \in Grab

\* The scan of cw_fake_server_lookup_presentation may stop at its first hit: a
\* sequence names at most one recorded presentation, each of them is valid,
\* and the counter is past all of them, so a recomputed presentation never
\* takes the sequence of a recorded one.
HistoryIsKeyed ==
    /\ \A i, j \in 0 .. Available - 1 :
          history[i].sequence = history[j].sequence => i = j
    /\ \A i \in 0 .. Available - 1 :
          PresentationIsValid(history[i]) /\ history[i].sequence < nextSequence

\* The grab and the pressed mask are two records of one fact, kept by three
\* functions: the window is grabbed exactly while the left button is down.
GrabIsTheLeftButton == grab.active <=> "left" \in pressed

\* The grab never resizes the window: it keeps the size the history was
\* validated against.
WindowKeepsItsSize ==
    /\ window.w = InitialWindow.w /\ window.h = InitialWindow.h
    /\ grab.active => grab.window.w = InitialWindow.w /\ grab.window.h = InitialWindow.h
=============================================================================
