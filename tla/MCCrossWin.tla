---------------------------- MODULE MCCrossWin -----------------------------
(***************************************************************************)
(* A window of two columns on an output of four, one column from its left  *)
(* edge.  The cursor can drag it by one column, by two, so that the other  *)
(* end cuts it, and off the output altogether.                             *)
(***************************************************************************)
EXTENDS CrossWin

At(x) == [x |-> x, y |-> 0]
Line(x, w) == [x |-> x, y |-> 0, w |-> w, h |-> 1]

MCOutput == Line(8, 4)
MCWindow == Line(9, 2)
MCCursorPoints == {At(1), At(2), At(3), At(5)}

Mode(script, keyboard, mortal, bound) ==
    [script |-> script, keyboard |-> keyboard, mortal |-> mortal, events |-> bound]
MCModes == {Mode(FALSE, TRUE, FALSE, 4), Mode(TRUE, TRUE, FALSE, 3), Mode(FALSE, FALSE, TRUE, 3)}
AsItIs  == {Mode(FALSE, FALSE, FALSE, 2)}

\* The regions of stage 2's script: whole, cut on the left, moved, hidden.
MCScript ==
    <<[sequence |-> 1, source |-> Line(0, 2), destination |-> Line(1, 2), visible |-> TRUE],
      [sequence |-> 2, source |-> Line(1, 1), destination |-> Line(0, 1), visible |-> TRUE],
      [sequence |-> 3, source |-> EmptyRect, destination |-> EmptyRect, visible |-> FALSE],
      [sequence |-> 4, source |-> Line(0, 1), destination |-> Line(3, 1), visible |-> TRUE]>>
=============================================================================
