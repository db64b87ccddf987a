--------------------------- MODULE SessionProofs ----------------------------
(***************************************************************************)
(* The invariants of the session, whatever order its functions are called  *)
(* in and for every value of the constants.                                *)
(***************************************************************************)
EXTENDS SessionCheck, SessionLemmas

\* SessionInv with the type of the presentation the caller holds.
CheckInv == SessionInv /\ outstanding \in SUBSET Presentation

LEMMA InitEstablishesCheckInv == CheckInit => CheckInv
  <1>. SUFFICES ASSUME CheckInit PROVE CheckInv
    OBVIOUS
  <1>. USE InitialWindowFacts DEF CheckInit, SessionInit
  <1>1. SessionTypeOK
    <2>1. grab \in Grab
      BY MaxIntAssumption DEF Grab, Point, I32
    <2>. QED
      BY <2>1, MaxSequenceAssumption DEF SessionTypeOK
  <1>2. Available = 0
    BY CapacityAssumption DEF Available, Smaller
  <1>3. HistoryIsKeyed
    BY <1>2 DEF HistoryIsKeyed
  <1>. QED
    BY <1>1, <1>3 DEF CheckInv, SessionInv, GrabIsTheLeftButton, WindowKeepsItsSize

LEMMA NextKeepsCheckInv == CheckInv /\ [CheckNext]_checkVars => CheckInv'
  <1>. SUFFICES ASSUME CheckInv, [CheckNext]_checkVars PROVE CheckInv'
    OBVIOUS
  <1>0. SessionInv /\ outstanding \in SUBSET Presentation
    BY DEF CheckInv
  <1>1. CASE Recompute
    <2>1. nextSequence \in 1 .. MaxSequence - 1
      BY <1>0, <1>1, MaxSequenceAssumption DEF Recompute, CanRecompute, SessionInv, SessionTypeOK
    <2>2. window \in Rect /\ window.w = InitialWindow.w /\ window.h = InitialWindow.h
      BY <1>0 DEF SessionInv, SessionTypeOK, WindowKeepsItsSize
    <2>3. outstanding' \in SUBSET Presentation
      BY <1>1, <2>1, <2>2, RecomputedIsValid DEF Recompute
    <2>4. SessionInv'
      BY <1>0, <1>1, <2>1, <2>2, WindowStateSuffices, MaxSequenceAssumption DEF Recompute
    <2>. QED
      BY <2>3, <2>4 DEF CheckInv
  <1>2. ASSUME NEW p \in outstanding \cup Scripted, Record(p)
        PROVE  CheckInv'
    <2>1. p \in Presentation
      BY <1>0, CallsAssumption
    <2>2. nextSequence \in nextSequence .. MaxSequence
      BY <1>0, MaxSequenceAssumption DEF SessionInv, SessionTypeOK
    <2>3. /\ history' \in [Slots -> Presentation] /\ insertions' \in Nat
          /\ nextSequence' \in 1 .. MaxSequence /\ HistoryIsKeyed'
      BY <1>0, <1>2, <2>1, <2>2, RecordKeepsTheHistory DEF Record
    <2>4. SessionInv'
      BY <1>0, <1>2, <2>3
         DEF Record, SessionInv, SessionTypeOK, GrabIsTheLeftButton, WindowKeepsItsSize
    <2>. QED
      BY <1>0, <1>2, <2>4 DEF CheckInv, Record
  <1>3. ASSUME NEW l \in Locations, Motion(l)
        PROVE  CheckInv'
    <2>1. l \in Location
      BY CallsAssumption
    <2>2. SessionInv'
      BY <1>0, <1>3, <2>1, MotionKeepsTheWindow, WindowStateSuffices DEF Motion
    <2>3. outstanding' \in SUBSET Presentation
      BY <1>0, <1>3, <2>1, MovesAndGenerated DEF Motion
    <2>. QED
      BY <2>2, <2>3 DEF CheckInv
  <1>4. ASSUME NEW l \in Locations, NEW button \in Buttons, NEW down \in BOOLEAN,
               Button(l, button, down)
        PROVE  CheckInv'
    <2>1. l \in Location
      BY CallsAssumption
    <2>2. SessionInv'
      BY <1>0, <1>4, <2>1, ButtonKeepsTheGrab, PointerStateSuffices DEF Button
    <2>. QED
      BY <1>0, <1>4, <2>2 DEF CheckInv, Button
  <1>5. CASE CaptureLost
    <2>1. SessionInv'
      BY <1>0, <1>5, CaptureLostKeepsTheGrab, PointerStateSuffices DEF CaptureLost
    <2>. QED
      BY <1>0, <1>5, <2>1 DEF CheckInv, CaptureLost
  <1>6. CASE Disconnect
    <2>1. pressed' = {} /\ grab' \in Grab /\ ~grab'.active
      BY <1>0, <1>6, CaptureLostKeepsTheGrab DEF Disconnect, HandleDisconnect
    <2>2. Available' = 0
      BY <1>6, CapacityAssumption DEF Disconnect, HandleDisconnect, Available, Smaller
    <2>3. HistoryIsKeyed'
      BY <2>2 DEF HistoryIsKeyed
    <2>4. SessionInv'
      BY <1>0, <1>6, <2>1, <2>3, MaxSequenceAssumption
         DEF Disconnect, HandleDisconnect, SessionInv, SessionTypeOK, GrabIsTheLeftButton,
             WindowKeepsItsSize
    <2>. QED
      BY <1>6, <2>4 DEF CheckInv, Disconnect
  <1>7. CASE UNCHANGED checkVars
    BY <1>0, <1>7
       DEF checkVars, sessionVars, CheckInv, SessionInv, SessionTypeOK, HistoryIsKeyed,
           GrabIsTheLeftButton, WindowKeepsItsSize, Available
  <1>. QED
    BY <1>1, <1>2, <1>3, <1>4, <1>5, <1>6, <1>7 DEF CheckNext

LEMMA CheckInvariant == CheckSpec => []CheckInv
  BY InitEstablishesCheckInv, NextKeepsCheckInv, PTL DEF CheckSpec

\* Every variable of the session stays in its type: in particular the counter
\* never wraps past UINT64_MAX and the window never leaves the 32-bit plane.
THEOREM SessionTypeCorrect == CheckSpec => []SessionTypeOK
  <1>1. CheckInv => SessionTypeOK
    BY DEF CheckInv, SessionInv
  <1>. QED
    BY <1>1, CheckInvariant, PTL

\* A sequence names at most one remembered presentation and the counter is
\* past all of them, for every ring size.
THEOREM HistoryStaysKeyed == CheckSpec => []HistoryIsKeyed
  <1>1. CheckInv => HistoryIsKeyed
    BY DEF CheckInv, SessionInv
  <1>. QED
    BY <1>1, CheckInvariant, PTL

\* The grab flag and the left button's bit never disagree.
THEOREM GrabStaysTheLeftButton == CheckSpec => []GrabIsTheLeftButton
  <1>1. CheckInv => GrabIsTheLeftButton
    BY DEF CheckInv, SessionInv
  <1>. QED
    BY <1>1, CheckInvariant, PTL

\* No drag resizes the window.
THEOREM WindowStaysItsSize == CheckSpec => []WindowKeepsItsSize
  <1>1. CheckInv => WindowKeepsItsSize
    BY DEF CheckInv, SessionInv
  <1>. QED
    BY <1>1, CheckInvariant, PTL

-----------------------------------------------------------------------------
(* What a reader of the history sees.                                      *)

\* A lookup finds at most one presentation, and recording another one can
\* only take it away.
LEMMA LookupIsUnique ==
    ASSUME SessionInv, NEW sequence
    PROVE  \A p, q \in Lookup(sequence) : p = q
  BY DEF SessionInv, HistoryIsKeyed, Lookup, Recorded

LEMMA RecordingOnlyForgets ==
    ASSUME SessionInv, NEW p \in Presentation, CanRecord(p), RecordInHistory(p),
           NEW sequence, Lookup(sequence) # {}
    PROVE  Lookup(sequence)' \subseteq Lookup(sequence)
  <1>. DEFINE k == insertions % Capacity
  <1>1. /\ Capacity \in Nat /\ Capacity > 0 /\ insertions \in Nat
        /\ history \in [Slots -> Presentation]
    BY CapacityAssumption DEF SessionInv, SessionTypeOK
  <1>2. k \in 0 .. Capacity - 1 /\ (insertions < Capacity => k = insertions)
    BY <1>1
  <1>. HIDE DEF k
  <1>3. history' = [history EXCEPT ![k] = p] /\ insertions' = insertions + 1
    BY DEF RecordInHistory, k
  <1>4. \A i \in 0 .. Available' - 1 :
           i \in Slots /\ (i # k => i \in 0 .. Available - 1)
    BY <1>1, <1>2, <1>3 DEF Available, Smaller, Slots
  <1>5. \A i \in 0 .. Available' - 1 : history'[i] = IF i = k THEN p ELSE history[i]
    BY <1>1, <1>3, <1>4
  <1>6. p.sequence # sequence
    BY DEF CanRecord, Lookup
  <1>. QED
    BY <1>4, <1>5, <1>6 DEF Lookup, Recorded

\* Once a location can be mapped, it is mapped to that point or to none: the
\* presentation its sequence names is never another one.
THEOREM InputMeaningStaysFixed == CheckSpec => InputMeaningIsFixed
  <1>. DEFINE Fixed(l) == Lookup(l.sequence) # {} /\ Lookup(l.sequence)' # {}
                             => SurfacePoint(l)' = SurfacePoint(l)
  <1>1. CheckInv /\ [CheckNext]_checkVars => \A l \in Locations : Fixed(l)
    <2>. SUFFICES ASSUME CheckInv, [CheckNext]_checkVars, NEW l \in Locations,
                         Lookup(l.sequence) # {}, Lookup(l.sequence)' # {}
                  PROVE  SurfacePoint(l)' = SurfacePoint(l)
      OBVIOUS
    <2>1. SUFFICES Lookup(l.sequence)' \subseteq Lookup(l.sequence)
      <3>1. Lookup(l.sequence)' = Lookup(l.sequence)
        BY <2>1, LookupIsUnique DEF CheckInv
      <3>. QED
        BY <3>1 DEF SurfacePoint
    <2>2. ASSUME NEW p \in outstanding \cup Scripted, Record(p)
          PROVE  Lookup(l.sequence)' \subseteq Lookup(l.sequence)
      <3>1. p \in Presentation
        BY CallsAssumption DEF CheckInv
      <3>. QED
        BY <2>2, <3>1, RecordingOnlyForgets DEF CheckInv, Record
    <2>3. ASSUME UNCHANGED <<history, insertions>>
          PROVE  Lookup(l.sequence)' \subseteq Lookup(l.sequence)
      BY <2>3 DEF Lookup, Recorded, Available
    <2>4. ASSUME Disconnect
          PROVE  FALSE
      <3>1. Available' = 0
        BY <2>4, CapacityAssumption DEF Disconnect, HandleDisconnect, Available, Smaller
      <3>. QED
        BY <3>1 DEF Lookup, Recorded
    <2>. QED
      BY <2>2, <2>3, <2>4
         DEF CheckNext, Recompute, Motion, Button, CaptureLost, checkVars, sessionVars
  <1>2. CheckInv /\ [CheckNext]_checkVars => [\A l \in Locations : Fixed(l)]_checkVars
    BY <1>1
  <1>. QED
    BY <1>2, CheckInvariant, PTL DEF CheckSpec, InputMeaningIsFixed

-----------------------------------------------------------------------------
(* The ring as a log.                                                      *)

\* The ring read from its oldest slot is a sequence of presentations, each of
\* them recorded.
LEMMA ReadingTheRing ==
    ASSUME SessionInv
    PROVE  /\ Available \in Nat /\ Available <= Capacity /\ Available <= insertions
           /\ RecentlyRecorded \in Seq(Presentation)
           /\ Len(RecentlyRecorded) = Available
           /\ \A i \in 1 .. Available : RecentlyRecorded[i] \in Recorded
  <1>1. /\ Capacity \in Nat /\ Capacity > 0 /\ insertions \in Nat
        /\ history \in [Slots -> Presentation]
    BY CapacityAssumption DEF SessionInv, SessionTypeOK
  <1>2. /\ Available \in Nat /\ Available <= Capacity /\ Available <= insertions
        /\ insertions < Capacity => Available = insertions
        /\ insertions >= Capacity => Available = Capacity
    BY <1>1 DEF Available, Smaller
  <1>3. ASSUME NEW i \in 1 .. Available
        PROVE  (insertions - Available + i - 1) % Capacity \in 0 .. Available - 1
    <2>1. CASE insertions < Capacity
      <3>1. insertions - Available + i - 1 = i - 1 /\ i - 1 \in 0 .. Capacity - 1
        BY <1>1, <1>2, <2>1
      <3>2. (i - 1) % Capacity = i - 1 /\ i - 1 \in 0 .. Available - 1
        BY <1>1, <1>2, <3>1
      <3>. QED
        BY <3>1, <3>2
    <2>2. CASE insertions >= Capacity
      BY <1>1, <1>2, <2>2
    <2>. QED
      BY <1>1, <2>1, <2>2
  <1>4. \A i \in 1 .. Available :
           RecentlyRecorded[i] \in Recorded /\ RecentlyRecorded[i] \in Presentation
    BY <1>1, <1>2, <1>3 DEF RecentlyRecorded, Recorded, Slots
  <1>. QED
    BY <1>2, <1>4 DEF RecentlyRecorded

\* Recording appends to the log and drops its oldest entry when it is full.
LEMMA RecordingAppends ==
    ASSUME SessionInv, NEW p \in Presentation, RecordInHistory(p)
    PROVE  RecentlyRecorded' = Log!LatestOf(Append(RecentlyRecorded, p))
  <1>. DEFINE n == insertions
              a == Available
              s == Append(RecentlyRecorded, p)
  <1>1. /\ Capacity \in Nat /\ Capacity > 0 /\ n \in Nat
        /\ history \in [Slots -> Presentation]
    BY CapacityAssumption DEF SessionInv, SessionTypeOK
  <1>2. /\ a \in Nat /\ RecentlyRecorded \in Seq(Presentation) /\ Len(RecentlyRecorded) = a
        /\ n < Capacity => a = n
        /\ n >= Capacity => a = Capacity
    BY <1>1, ReadingTheRing DEF Available, Smaller
  <1>3. /\ s \in Seq(Presentation) /\ Len(s) = a + 1 /\ s[a + 1] = p
        /\ \A i \in 1 .. a : s[i] = history[(n - a + i - 1) % Capacity]
    BY <1>2 DEF RecentlyRecorded
  <1>4. /\ n % Capacity \in Slots
        /\ history'[n % Capacity] = p
        /\ \A i \in Slots : i # n % Capacity => history'[i] = history[i]
        /\ insertions' = n + 1
    BY <1>1 DEF RecordInHistory, Slots
  <1>5. Available' = IF n < Capacity THEN a + 1 ELSE a
    BY <1>1, <1>2, <1>4 DEF Available, Smaller
  <1>6. CASE n < Capacity
    <2>1. Log!LatestOf(s) = [i \in 1 .. a + 1 |-> s[i]]
      BY <1>1, <1>2, <1>3, <1>6 DEF Log!LatestOf
    <2>2. \A i \in 1 .. a + 1 : (i - 1) % Capacity = i - 1 /\ i - 1 \in Slots
      BY <1>1, <1>2, <1>6 DEF Slots
    <2>3. n % Capacity = a
      BY <1>1, <1>2, <1>6
    <2>4. RecentlyRecorded' = [i \in 1 .. a + 1 |-> history'[(i - 1) % Capacity]]
      BY <1>1, <1>2, <1>4, <1>5, <1>6 DEF RecentlyRecorded
    <2>5. \A i \in 1 .. a + 1 : history'[(i - 1) % Capacity] = s[i]
      <3>1. TAKE i \in 1 .. a + 1
      <3>2. CASE i = a + 1
        <4>1. i - 1 = a /\ (i - 1) % Capacity = i - 1
          BY <1>2, <2>2, <3>2
        <4>2. history'[(i - 1) % Capacity] = p
          BY <1>4, <2>3, <4>1
        <4>. QED
          BY <1>3, <3>2, <4>2
      <3>3. CASE i \in 1 .. a
        <4>1. s[i] = history[(i - 1) % Capacity]
          BY <1>1, <1>2, <1>3, <1>6, <3>3
        <4>2. i - 1 \in Slots /\ i - 1 # n % Capacity /\ (i - 1) % Capacity = i - 1
          BY <1>2, <2>2, <2>3, <3>3
        <4>. QED
          BY <1>4, <4>1, <4>2
      <3>. QED
        BY <1>2, <3>2, <3>3
    <2>. QED
      BY <2>1, <2>4, <2>5
  <1>7. CASE n >= Capacity
    <2>1. Log!LatestOf(s) = [i \in 1 .. Capacity |-> s[i + 1]]
      BY <1>1, <1>2, <1>3, <1>7 DEF Log!LatestOf
    <2>2. RecentlyRecorded' = [i \in 1 .. Capacity |-> history'[(n - Capacity + i) % Capacity]]
      BY <1>1, <1>2, <1>4, <1>5, <1>7 DEF RecentlyRecorded
    <2>3. ASSUME NEW i \in 1 .. Capacity
          PROVE  history'[(n - Capacity + i) % Capacity] = s[i + 1]
      <3>1. CASE i = Capacity
        <4>1. n - Capacity + i = n /\ i + 1 = a + 1
          BY <1>1, <1>2, <1>7, <3>1
        <4>. QED
          BY <1>3, <1>4, <4>1
      <3>2. CASE i < Capacity
        <4>. DEFINE m == n - Capacity + i
        <4>1. m \in Nat /\ Capacity - i \in 1 .. Capacity - 1 /\ m + (Capacity - i) = n
          BY <1>1, <1>7, <3>2
        <4>2. m % Capacity # n % Capacity
          BY <1>1, <4>1, SlotsDiffer
        <4>3. m % Capacity \in Slots
          BY <1>1, <4>1 DEF Slots
        <4>4. s[i + 1] = history[m % Capacity]
          <5>1. i + 1 \in 1 .. a /\ n - a + (i + 1) - 1 = m
            BY <1>1, <1>2, <1>7, <3>2
          <5>. QED
            BY <1>3, <5>1
        <4>. QED
          BY <1>4, <4>2, <4>3, <4>4
      <3>3. i = Capacity \/ i < Capacity
        BY <1>1
      <3>. QED
        BY <3>1, <3>2, <3>3, Zenon
    <2>. QED
      BY <2>1, <2>2, <2>3
  <1>. QED
    BY <1>1, <1>6, <1>7

\* cw_fake_server_record_presentation is the log's Keep.
LEMMA RecordIsKeep ==
    ASSUME SessionInv, NEW p \in Presentation, CanRecord(p), RecordInHistory(p),
           nextSequence' = SequenceAfterRecord(nextSequence, p)
    PROVE  Log!Keep(p)
  <1>1. nextSequence \in 1 .. MaxSequence /\ MaxSequence \in Nat
    BY MaxSequenceAssumption DEF SessionInv, SessionTypeOK
  <1>2. p.sequence \in 1 .. MaxSequence - 1
    BY <1>1 DEF CanRecord, PresentationIsValid, Presentation
  <1>3. nextSequence' \in nextSequence .. MaxSequence /\ nextSequence' > p.sequence
    BY <1>1, <1>2 DEF SequenceAfterRecord
  <1>4. \A i \in DOMAIN RecentlyRecorded : RecentlyRecorded[i].sequence # p.sequence
    <2>1. TAKE i \in DOMAIN RecentlyRecorded
    <2>2. RecentlyRecorded[i] \in Recorded
      BY <2>1, ReadingTheRing
    <2>. QED
      BY <1>2, <2>2 DEF CanRecord, Lookup
  <1>. QED
    BY <1>2, <1>3, <1>4, RecordingAppends DEF Log!Keep

\* The ring of the history is a log of the latest presentations, and a
\* sequence is neither recorded nor reserved twice on one connection: every
\* function of the session is one operation of PresentationLog, or none.
THEOREM RingRefinesTheLog == CheckSpec => RingImplementsTheLog
  <1>. DEFINE LogNext == \/ Log!Reserve \/ Log!Clear
                         \/ \E p \in Scripted \cup outstanding : Log!Keep(p)
  <1>1. CheckInit => Log!Init
    <2>. SUFFICES ASSUME CheckInit PROVE RecentlyRecorded = <<>> /\ nextSequence = 1
      BY DEF Log!Init
    <2>1. insertions = 0 /\ nextSequence = 1
      BY DEF CheckInit, SessionInit
    <2>2. Available = 0
      BY <2>1, CapacityAssumption DEF Available, Smaller
    <2>. QED
      BY <2>1, <2>2 DEF RecentlyRecorded
  <1>2. CheckInv /\ [CheckNext]_checkVars => [LogNext]_(Log!logVars)
    <2>. SUFFICES ASSUME CheckInv, [CheckNext]_checkVars
                  PROVE  LogNext \/ UNCHANGED <<RecentlyRecorded, nextSequence>>
      BY DEF Log!logVars
    <2>1. nextSequence \in 1 .. MaxSequence /\ MaxSequence \in Nat /\ SessionInv
      BY MaxSequenceAssumption DEF CheckInv, SessionInv, SessionTypeOK
    <2>2. ASSUME UNCHANGED <<history, insertions>>
          PROVE  RecentlyRecorded' = RecentlyRecorded
      BY <2>2 DEF RecentlyRecorded, Available
    <2>3. ASSUME UNCHANGED <<history, insertions>>, nextSequence' = nextSequence + 1, CanRecompute
          PROVE  Log!Reserve
      <3>1. nextSequence + 1 \in nextSequence + 1 .. MaxSequence
        BY <2>1, <2>3 DEF CanRecompute
      <3>. QED
        BY <2>2, <2>3, <3>1 DEF Log!Reserve
    <2>4. CASE Recompute
      BY <2>3, <2>4 DEF Recompute
    <2>5. ASSUME NEW p \in outstanding \cup Scripted, Record(p)
          PROVE  Log!Keep(p)
      <3>1. p \in Presentation
        BY CallsAssumption DEF CheckInv
      <3>. QED
        BY <2>1, <2>5, <3>1, RecordIsKeep DEF Record
    <2>6. ASSUME NEW l \in Locations, Motion(l)
          PROVE  LogNext \/ UNCHANGED <<RecentlyRecorded, nextSequence>>
      <3>1. Generated(l) # {} => CanRecompute
        BY DEF Generated
      <3>. QED
        BY <2>2, <2>3, <2>6, <3>1 DEF Motion, HandleMotion
    <2>7. CASE Disconnect
      <3>1. Available' = 0 /\ nextSequence' = 1
        BY <2>7, CapacityAssumption DEF Disconnect, HandleDisconnect, Available, Smaller
      <3>2. RecentlyRecorded' = <<>>
        BY <3>1 DEF RecentlyRecorded
      <3>. QED
        BY <3>1, <3>2 DEF Log!Clear
    <2>8. ASSUME UNCHANGED <<history, insertions, nextSequence>>
          PROVE  UNCHANGED <<RecentlyRecorded, nextSequence>>
      BY <2>2, <2>8
    <2>. QED
      BY <2>4, <2>5, <2>6, <2>7, <2>8
         DEF CheckNext, Button, CaptureLost, checkVars, sessionVars
  <1>. QED
    BY <1>1, <1>2, CheckInvariant, PTL DEF CheckSpec, RingImplementsTheLog

\* With it the session implements the log's whole specification: what it is
\* asked to record, scripted or recomputed, is a presentation.
THEOREM SessionImplementsTheLog == CheckSpec => Log!Spec
  <1>. DEFINE LogNext == \/ Log!Reserve \/ Log!Clear
                         \/ \E p \in Scripted \cup outstanding : Log!Keep(p)
  <1>1. CheckInv /\ [LogNext]_(Log!logVars) => [Log!Next]_(Log!logVars)
    BY CallsAssumption DEF CheckInv, Log!Next
  <1>. QED
    BY <1>1, CheckInvariant, RingRefinesTheLog, PTL DEF RingImplementsTheLog, Log!Spec
=============================================================================
