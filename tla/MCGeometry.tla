----------------------------- MODULE MCGeometry -----------------------------
(***************************************************************************)
(* Values for GeometryCheck: 4-bit integers in place of 32-bit ones, so    *)
(* that rectangles reach both ends of the range and pass over its end.     *)
(***************************************************************************)
EXTENDS GeometryCheck

RectsOf(xs, ws, ys, hs) ==
    {[x |-> x, y |-> y, w |-> w, h |-> h] : x \in xs, y \in ys, w \in ws, h \in hs}

MCWindows   == RectsOf({-8, -2, 0, 3, 7}, {-1, 0, 2, 7}, {-8, 0, 1, 7}, {1, 7})
MCOutputs   == RectsOf({-8, -1, 2, 7}, {-1, 0, 3, 7}, {0, 7}, {2, 7})
MCFragments == RectsOf({-8, -5, -3, -2, -1, 0, 1, 2, 5, 7}, {-1, 0, 1, 2, 3, 5, 7}, {0, 3}, {1, 2})
MCPoints    == {[x |-> x, y |-> y] : x \in -8 .. 7, y \in {-1, 1}}

Ratio(n, d) == [numerator |-> n, denominator |-> d]
MCScales == {Ratio(1, 1), Ratio(5, 4), Ratio(3, 2), Ratio(2, 1), Ratio(1, 2),
             Ratio(2, 3), Ratio(15, 1), Ratio(0, 1), Ratio(1, 0)}
=============================================================================
