---------------------------- MODULE SessionCheck ----------------------------
(***************************************************************************)
(* The session alone, its functions called in any order with any input, as *)
(* crosswin/tests/session_test.c calls them.  A recomputed presentation is *)
(* the caller's until it records it, and the caller keeps only the newest. *)
(***************************************************************************)
EXTENDS Session, Sequences

CONSTANTS
    Locations,      \* the pointer locations input may carry
    Scripted,       \* presentations a caller makes up itself
    MaxInsertions   \* bound: presentations recorded on one connection

ASSUME CallsAssumption ==
    /\ Locations \subseteq Location
    /\ Scripted \subseteq Presentation
    /\ MaxInsertions \in Nat

VARIABLE outstanding    \* recomputed and not recorded, at most one

checkVars == <<sessionVars, outstanding>>

CheckInit == SessionInit /\ outstanding = {}

Recompute ==
    /\ CanRecompute
    /\ outstanding' = {RecomputedFor(window)}
    /\ nextSequence' = nextSequence + 1
    /\ UNCHANGED <<window, history, insertions, pressed, grab>>

Record(p) ==
    /\ CanRecord(p)
    /\ insertions < MaxInsertions
    /\ RecordInHistory(p)
    /\ nextSequence' = SequenceAfterRecord(nextSequence, p)
    /\ outstanding' = outstanding \ {p}
    /\ UNCHANGED <<window, pressed, grab>>

Motion(l) ==
    /\ HandleMotion(l)
    /\ outstanding' = IF Generated(l) = {} THEN outstanding ELSE Generated(l)
    /\ UNCHANGED <<history, insertions>>

Button(l, button, down) ==
    /\ HandleButton(l, button, down)
    /\ UNCHANGED <<window, history, insertions, nextSequence, outstanding>>

CaptureLost ==
    /\ HandleCaptureLost
    /\ UNCHANGED <<window, history, insertions, nextSequence, outstanding>>

Disconnect == HandleDisconnect /\ outstanding' = {} /\ UNCHANGED window

CheckNext ==
    \/ Recompute
    \/ \E p \in outstanding \cup Scripted : Record(p)
    \/ \E l \in Locations : Motion(l)
    \/ \E l \in Locations, button \in Buttons, down \in BOOLEAN : Button(l, button, down)
    \/ CaptureLost
    \/ Disconnect

CheckSpec == CheckInit /\ [][CheckNext]_checkVars
-----------------------------------------------------------------------------
(* Properties.                                                             *)

\* The ring read from its oldest slot.
RecentlyRecorded ==
    [i \in 1 .. Available |-> history[(insertions - Available + i - 1) % Capacity]]

Log == INSTANCE PresentationLog
    WITH Presentations <- Presentation, recent <- RecentlyRecorded, next <- nextSequence

\* The ring implements the log: a lookup finds exactly the latest Capacity
\* presentations recorded since the connection began, and no sequence the
\* history holds is recorded or reserved again.
RingImplementsTheLog == Log!Init /\ [][\/ Log!Reserve
                                      \/ Log!Clear
                                      \/ \E p \in Scripted \cup outstanding : Log!Keep(p)]_Log!logVars

\* An input event means the same surface point for as long as its presentation
\* is remembered, however far the window has moved in between.
InputMeaningIsFixed ==
    [][\A l \in Locations :
          Lookup(l.sequence) # {} /\ Lookup(l.sequence)' # {}
             => SurfacePoint(l)' = SurfacePoint(l)]_checkVars
=============================================================================
