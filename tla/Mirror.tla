------------------------------- MODULE Mirror -------------------------------
(***************************************************************************)
(* What frames, damage and resizes promise of a window's pixels: the view  *)
(* is always exactly one of the contents the window has had - never a mix  *)
(* of two - and goes from older to newer ones.  It is blank before the     *)
(* first and on its way to a content of another size.                      *)
(***************************************************************************)
EXTENDS Naturals, Sequences

VARIABLES
    history,    \* the contents so far: [width, image]
    view        \* {} when there is no window, else {[width, shown, image]},
                \* shown being the version in the view and 0 when it is blank

Blank(width) == [width |-> width, shown |-> 0, image |-> {}]

MirrorInit == history # <<>> /\ view = {}

Open == view = {} /\ view' = {Blank(history[1].width)} /\ UNCHANGED history

Commit ==
    /\ \E content \in {history'[Len(history')]} : history' = Append(history, content)
    /\ UNCHANGED view

Show ==
    /\ \E v \in view : \E n \in v.shown + 1 .. Len(history) :
          /\ history[n].width = v.width
          /\ view' = {[v EXCEPT !.shown = n, !.image = history[n].image]}
    /\ UNCHANGED history

GoBlank ==
    /\ \E v \in view : \E n \in v.shown + 1 .. Len(history) :
          /\ history[n].width # v.width
          /\ view' = {Blank(history[n].width)}
    /\ UNCHANGED history

Close == view # {} /\ view' = {} /\ UNCHANGED history

MirrorSpec == MirrorInit /\ [][Open \/ Commit \/ Show \/ GoBlank \/ Close]_<<history, view>>
=============================================================================
