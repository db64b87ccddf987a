--------------------------- MODULE SessionLemmas ----------------------------
(***************************************************************************)
(* What each function of session.c preserves, for every capacity of the    *)
(* ring, every window and output and every sequence limit.                 *)
(***************************************************************************)
EXTENDS Session, GeometryLemmas

\* The inductive invariant of the session.  HistoryIsKeyed needs the types;
\* the types of a recomputed presentation need WindowKeepsItsSize, because
\* its source must fit the surface the history checks it against.
SessionInv ==
    /\ SessionTypeOK
    /\ HistoryIsKeyed
    /\ GrabIsTheLeftButton
    /\ WindowKeepsItsSize

LEMMA InitialWindowFacts ==
    /\ InitialWindow \in Rect /\ RemoteOutput \in Rect
    /\ InitialWindow.w \in Int /\ InitialWindow.w > 0
    /\ InitialWindow.h \in Int /\ InitialWindow.h > 0
    /\ EmptyRect \in Rect
    /\ NoPresentation \in Presentation
  <1>1. EmptyRect \in Rect
    BY MaxIntAssumption DEF EmptyRect, Rect, I32
  <1>. QED
    BY <1>1, RectanglesAssumption, MaxIntAssumption, MaxSequenceAssumption
       DEF Rect, I32, RectIsValid, RectIsEmpty, NoPresentation, Invisible, Presentation

\* cw_fake_server_recompute_presentation makes a presentation that
\* cw_fake_server_record_presentation will not find invalid.
LEMMA RecomputedIsValid ==
    ASSUME NEW w \in Rect, w.w = InitialWindow.w, w.h = InitialWindow.h,
           nextSequence \in 1 .. MaxSequence - 1
    PROVE  /\ RecomputedFor(w) \in Presentation
           /\ PresentationIsValid(RecomputedFor(w))
           /\ RecomputedFor(w).sequence = nextSequence
  <1>. DEFINE region == WindowRegionOnOutput(w, RemoteOutput)
  <1>1. CASE region = {}
    <2>1. RecomputedFor(w) = [sequence |-> nextSequence, source |-> EmptyRect,
                              destination |-> EmptyRect, visible |-> FALSE]
      BY <1>1 DEF RecomputedFor, Invisible
    <2>2. RecomputedFor(w) \in Presentation /\ RecomputedFor(w).sequence = nextSequence
      BY <2>1, InitialWindowFacts, MaxSequenceAssumption DEF Presentation
    <2>3. PresentationIsValid(RecomputedFor(w))
      BY <2>1, InitialWindowFacts, MaxSequenceAssumption
         DEF PresentationIsValid, EmptyRect, RectIsValid, RectRight, RectBottom, SurfaceBounds
    <2>. QED
      BY <2>2, <2>3
  <1>2. CASE region # {}
    <2>. DEFINE r == CHOOSE r \in region : TRUE
    <2>1. r \in region
      BY <1>2
    <2>2. RecomputedFor(w) = [sequence |-> nextSequence, source |-> r.source,
                              destination |-> r.destination, visible |-> TRUE]
      BY <1>2 DEF RecomputedFor
    <2>. HIDE DEF r
    <2>3. /\ r.source \in Rect /\ r.destination \in Rect
          /\ r.source.w = r.destination.w /\ r.source.h = r.destination.h
          /\ r.source.w > 0 /\ r.source.h > 0
          /\ r.source.x >= 0 /\ RectRight(r.source) <= w.w
          /\ r.source.y >= 0 /\ RectBottom(r.source) <= w.h
      BY <2>1, RegionIsSound, InitialWindowFacts
    <2>4. RecomputedFor(w) \in Presentation /\ RecomputedFor(w).sequence = nextSequence
      BY <2>2, <2>3, MaxSequenceAssumption DEF Presentation
    <2>5. /\ RectIsValid(r.source) /\ RectIsValid(r.destination)
          /\ ~RectIsEmpty(r.source) /\ ~RectIsEmpty(r.destination)
      BY <2>3, MaxIntAssumption DEF RectIsValid, RectIsEmpty, Rect, I32
    <2>6. PresentationIsValid(RecomputedFor(w))
      BY <2>2, <2>3, <2>5 DEF PresentationIsValid, SurfaceBounds
    <2>. QED
      BY <2>4, <2>6
  <1>. QED
    BY <1>1, <1>2

\* cw_fake_server_record_presentation: the slot it overwrites is either the
\* first unused one or the oldest, never one that leaves a gap or a twin.
LEMMA RecordKeepsTheHistory ==
    ASSUME SessionInv,
           NEW p \in Presentation, CanRecord(p), RecordInHistory(p),
           NEW next \in nextSequence .. MaxSequence,
           nextSequence' = SequenceAfterRecord(next, p)
    PROVE  /\ history' \in [Slots -> Presentation]
           /\ insertions' \in Nat
           /\ nextSequence' \in 1 .. MaxSequence
           /\ HistoryIsKeyed'
  <1>. DEFINE k == insertions % Capacity
  <1>1. /\ Capacity \in Nat /\ Capacity > 0 /\ insertions \in Nat
        /\ nextSequence \in 1 .. MaxSequence /\ MaxSequence \in Nat
        /\ history \in [Slots -> Presentation]
    BY CapacityAssumption, MaxSequenceAssumption DEF SessionInv, SessionTypeOK
  <1>2. k \in 0 .. Capacity - 1 /\ (insertions < Capacity => k = insertions)
    BY <1>1
  <1>. HIDE DEF k
  <1>3. /\ history' = [history EXCEPT ![k] = p] /\ insertions' = insertions + 1
    BY DEF RecordInHistory, k
  <1>4. p.sequence \in 1 .. MaxSequence - 1 /\ PresentationIsValid(p)
    BY MaxSequenceAssumption DEF CanRecord, PresentationIsValid, Presentation
  <1>5. /\ nextSequence' \in 1 .. MaxSequence
        /\ nextSequence' >= nextSequence /\ nextSequence' > p.sequence
    BY <1>1, <1>4 DEF SequenceAfterRecord
  <1>6. \A i \in 0 .. Available - 1 : history[i].sequence # p.sequence
    BY <1>4 DEF CanRecord, Lookup, Recorded
  <1>7. \A i \in 0 .. Available' - 1 :
           i \in Slots /\ (i # k => i \in 0 .. Available - 1)
    BY <1>1, <1>2, <1>3 DEF Available, Smaller, Slots
  <1>8. history' \in [Slots -> Presentation]
    BY <1>1, <1>3
  <1>9. \A i \in 0 .. Available' - 1 : history'[i] = IF i = k THEN p ELSE history[i]
    BY <1>1, <1>3, <1>7
  <1>10. \A i, j \in 0 .. Available' - 1 : history'[i].sequence = history'[j].sequence => i = j
    <2>1. TAKE i, j \in 0 .. Available' - 1
    <2>2. \A a, b \in 0 .. Available - 1 : history[a].sequence = history[b].sequence => a = b
      BY DEF SessionInv, HistoryIsKeyed
    <2>. QED
      BY <2>2, <1>6, <1>7, <1>9
  <1>11. \A i \in 0 .. Available' - 1 :
            PresentationIsValid(history'[i]) /\ history'[i].sequence < nextSequence'
    <2>1. TAKE i \in 0 .. Available' - 1
    <2>2. CASE i = k
      BY <2>2, <1>4, <1>5, <1>9
    <2>3. CASE i # k
      <3>1. i \in 0 .. Available - 1 /\ history'[i] = history[i] /\ i \in Slots
        BY <2>1, <2>3, <1>7, <1>9
      <3>2. PresentationIsValid(history[i]) /\ history[i].sequence < nextSequence
        BY <3>1 DEF SessionInv, HistoryIsKeyed
      <3>3. history[i].sequence \in Int
        BY <3>1, <1>1, MaxSequenceAssumption DEF Presentation
      <3>. QED
        BY <3>1, <3>2, <3>3, <1>1, <1>5
    <2>. QED
      BY <2>2, <2>3
  <1>12. HistoryIsKeyed'
    <2>1. \A q : PresentationIsValid(q)' <=> PresentationIsValid(q)
      BY DEF PresentationIsValid, SurfaceBounds
    <2>. QED
      BY <1>10, <1>11, <2>1 DEF HistoryIsKeyed, PresentationIsValid, SurfaceBounds
  <1>. QED
    BY <1>1, <1>3, <1>5, <1>8, <1>12

\* The grab only ever puts the window at 32-bit coordinates and never resizes
\* it, so what a motion generates is valid.
LEMMA MovesAndGenerated ==
    ASSUME SessionInv, NEW l \in Location
    PROVE  /\ \A w \in Moves(l) : w \in Rect /\ w.w = InitialWindow.w /\ w.h = InitialWindow.h
           /\ \A p \in Generated(l) :
                 /\ p \in Presentation /\ PresentationIsValid(p)
                 /\ p.sequence = nextSequence /\ nextSequence < MaxSequence
           /\ \A g \in GlobalPoint(l) : g \in Point
  <1>1. window \in Rect /\ window.w = InitialWindow.w /\ window.h = InitialWindow.h
    BY DEF SessionInv, SessionTypeOK, WindowKeepsItsSize
  <1>2. ASSUME NEW w \in Moves(l)
        PROVE  w \in Rect /\ w.w = InitialWindow.w /\ w.h = InitialWindow.h
    <2>1. PICK g \in GlobalPoint(l) : w = GrabTarget(g) /\ FitsI32(w.x) /\ FitsI32(w.y)
      BY DEF Moves
    <2>. DEFINE x == grab.window.x + (g.x - grab.pointer.x)
                y == grab.window.y + (g.y - grab.pointer.y)
    <2>2. w = [window EXCEPT !.x = x, !.y = y]
      BY <2>1 DEF GrabTarget
    <2>. HIDE DEF x, y
    <2>3. w = [x |-> x, y |-> y, w |-> window.w, h |-> window.h]
      BY <2>2, <1>1 DEF Rect
    <2>4. x \in I32 /\ y \in I32
      BY <2>1, <2>3 DEF FitsI32
    <2>. QED
      BY <2>3, <2>4, <1>1 DEF Rect
  <1>3. ASSUME NEW p \in Generated(l)
        PROVE  /\ p \in Presentation /\ PresentationIsValid(p)
               /\ p.sequence = nextSequence /\ nextSequence < MaxSequence
    <2>1. CanRecompute /\ \E w \in Moves(l) : p = RecomputedFor(w)
      BY DEF Generated
    <2>2. nextSequence \in 1 .. MaxSequence - 1
      BY <2>1, MaxSequenceAssumption DEF CanRecompute, SessionInv, SessionTypeOK
    <2>. QED
      BY <1>2, <2>1, <2>2, RecomputedIsValid, MaxSequenceAssumption
  <1>4. \A g \in GlobalPoint(l) : g \in Point
    BY DEF GlobalPoint, OutputLocalPointToGlobal, FitsI32, Point
  <1>. QED
    BY <1>2, <1>3, <1>4

\* cw_fake_server_handle_motion
LEMMA MotionKeepsTheWindow ==
    ASSUME SessionInv, NEW l \in Location, HandleMotion(l)
    PROVE  /\ window' \in Rect
           /\ window'.w = InitialWindow.w /\ window'.h = InitialWindow.h
           /\ nextSequence' \in 1 .. MaxSequence /\ nextSequence' >= nextSequence
           /\ pressed' = pressed /\ grab' = grab
  <1>1. window \in Rect /\ window.w = InitialWindow.w /\ window.h = InitialWindow.h
    BY DEF SessionInv, SessionTypeOK, WindowKeepsItsSize
  <1>2. nextSequence \in 1 .. MaxSequence
    BY DEF SessionInv, SessionTypeOK
  <1>3. window' \in Rect /\ window'.w = InitialWindow.w /\ window'.h = InitialWindow.h
    BY <1>1, MovesAndGenerated DEF HandleMotion
  <1>4. nextSequence' \in 1 .. MaxSequence /\ nextSequence' >= nextSequence
    BY <1>2, MovesAndGenerated, MaxSequenceAssumption DEF HandleMotion
  <1>. QED
    BY <1>3, <1>4 DEF HandleMotion

\* cw_fake_server_handle_button and cw_fake_server_handle_capture_lost: the
\* mask and the grab change together or not at all.
LEMMA ButtonKeepsTheGrab ==
    ASSUME SessionInv, NEW l \in Location, NEW button \in Buttons, NEW down \in BOOLEAN,
           HandleButton(l, button, down)
    PROVE  /\ pressed' \in SUBSET Buttons /\ grab' \in Grab
           /\ grab'.active <=> "left" \in pressed'
           /\ grab'.active => grab'.window.w = InitialWindow.w /\ grab'.window.h = InitialWindow.h
  <1>1. /\ pressed \in SUBSET Buttons /\ grab \in Grab /\ window \in Rect
        /\ grab.active <=> "left" \in pressed
        /\ window.w = InitialWindow.w /\ window.h = InitialWindow.h
        /\ grab.active => grab.window.w = InitialWindow.w /\ grab.window.h = InitialWindow.h
    BY DEF SessionInv, SessionTypeOK, GrabIsTheLeftButton, WindowKeepsItsSize
  <1>2. CASE PressButton(l, button)
    <2>1. CASE button = "left"
      <3>1. PICK g \in GlobalPoint(l) :
               grab' = [active |-> TRUE, pointer |-> g, window |-> window]
        BY <1>2, <2>1 DEF PressButton
      <3>2. g \in Point
        BY MovesAndGenerated
      <3>. QED
        BY <1>1, <1>2, <2>1, <3>1, <3>2 DEF PressButton, Grab
    <2>2. CASE button # "left"
      BY <1>1, <1>2, <2>2 DEF PressButton
    <2>. QED
      BY <2>1, <2>2
  <1>3. CASE ReleaseButton(button)
    <2>1. /\ pressed' = pressed \ {button}
          /\ grab' = [grab EXCEPT !.active = (grab.active /\ button # "left")]
      BY <1>3 DEF ReleaseButton
    <2>2. grab' = [active |-> (grab.active /\ button # "left"),
                   pointer |-> grab.pointer, window |-> grab.window]
      BY <2>1, <1>1 DEF Grab
    <2>. QED
      BY <1>1, <2>1, <2>2 DEF Grab
  <1>4. CASE UNCHANGED <<pressed, grab>>
    BY <1>1, <1>4
  <1>. QED
    BY <1>2, <1>3, <1>4 DEF HandleButton

LEMMA CaptureLostKeepsTheGrab ==
    ASSUME SessionInv, HandleCaptureLost
    PROVE  pressed' = {} /\ grab' \in Grab /\ ~grab'.active
  BY DEF HandleCaptureLost, SessionInv, SessionTypeOK, Grab

\* What an action that leaves the window and the history alone has to
\* establish.
LEMMA PointerStateSuffices ==
    ASSUME SessionInv, UNCHANGED <<window, history, insertions, nextSequence>>,
           pressed' \in SUBSET Buttons, grab' \in Grab,
           grab'.active <=> "left" \in pressed',
           grab'.active => grab'.window.w = InitialWindow.w /\ grab'.window.h = InitialWindow.h
    PROVE  SessionInv'
  BY DEF SessionInv, SessionTypeOK, HistoryIsKeyed, GrabIsTheLeftButton, WindowKeepsItsSize,
         Available

\* The same for an action that leaves the history and the pointer state alone.
LEMMA WindowStateSuffices ==
    ASSUME SessionInv, UNCHANGED <<history, insertions, pressed, grab>>,
           window' \in Rect, window'.w = InitialWindow.w, window'.h = InitialWindow.h,
           nextSequence' \in 1 .. MaxSequence, nextSequence' >= nextSequence
    PROVE  SessionInv'
  <1>1. \A i \in 0 .. Available - 1 : history[i].sequence \in Int
    BY CapacityAssumption, MaxSequenceAssumption
       DEF SessionInv, SessionTypeOK, Available, Smaller, Slots, Presentation
  <1>2. nextSequence \in Int
    BY DEF SessionInv, SessionTypeOK
  <1>3. HistoryIsKeyed'
    BY <1>1, <1>2 DEF SessionInv, HistoryIsKeyed, Available
  <1>. QED
    BY <1>3 DEF SessionInv, SessionTypeOK, GrabIsTheLeftButton, WindowKeepsItsSize

\* Two insertions less than a ring apart are in different slots.
LEMMA SlotsDiffer ==
    ASSUME NEW c \in Nat, NEW n \in Nat, NEW d \in 1 .. c - 1
    PROVE  (n + d) % c # n % c
  <1>1. SUFFICES ASSUME (n + d) % c = n % c PROVE FALSE
    OBVIOUS
  <1>. DEFINE p == (n + d) \div c
              q == n \div c
  <1>2. /\ p \in Nat /\ q \in Nat /\ n % c \in Nat
        /\ n + d = (c * p) + ((n + d) % c) /\ n = (c * q) + (n % c)
    <2>1. c \in Nat /\ c >= 1 /\ n + d \in Nat
      OBVIOUS
    <2>. QED
      BY <2>1
  <1>. HIDE DEF p, q
  <1>3. c * p - c * q = d
    BY <1>1, <1>2
  <1>4. CASE p <= q
    <2>1. c * p <= c * q
      BY <1>2, <1>4
    <2>. QED
      BY <1>2, <1>3, <2>1
  <1>5. CASE p >= q + 1
    <2>1. c * p >= c * (q + 1) /\ c * (q + 1) = c * q + c
      BY <1>2, <1>5
    <2>. QED
      BY <1>2, <1>3, <2>1
  <1>. QED
    BY <1>2, <1>4, <1>5
=============================================================================
