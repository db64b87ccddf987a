------------------------------ MODULE MCAgent ------------------------------
(***************************************************************************)
(* Surfaces of two columns, shown whole, in part, hidden, or - as only a   *)
(* wrong exporter would - with a source outside of the surface.            *)
(***************************************************************************)
EXTENDS AgentCheck

At(x) == [x |-> x, y |-> 0]
Line(x, w) == [x |-> x, y |-> 0, w |-> w, h |-> 1]
Region(source, destination) ==
    [source |-> source, destination |-> destination, visible |-> TRUE]

Whole   == Region(Line(0, 2), Line(1, 2))
Part    == Region(Line(1, 1), Line(0, 1))
Outside == Region(Line(1, 2), Line(1, 2))
Off     == [source |-> EmptyRect, destination |-> EmptyRect, visible |-> FALSE]

OneToOne  == [numerator |-> 1, denominator |-> 1]
ThreeHalf == [numerator |-> 3, denominator |-> 2]

\* One window; two, the second perhaps the first one's popup; two that are not
\* related; a popup of a popup.
Alone      == [id \in {1} |-> {0}]
OnePopup   == [id \in {1, 2} |-> IF id = 2 THEN {0, 1} ELSE {0}]
Unrelated  == [id \in {1, 2} |-> {0}]
NestedMenu == [id \in {1, 2, 3} |-> {id - 1}]

\* With the scale 3/2 columns 1..2 are the pixels 1..4 and column 0 is 0..1.
MCCursorPoints == {At(0), At(1), At(4), At(6)}
TwoPoints == {At(1), At(6)}
OnePoint  == {At(1)}
WindowRegions  == {Whole, Outside}
InputRegions   == {Whole, Part, Off}
ShownRegions   == {Whole}
FractionScales == {ThreeHalf}
UnitScales     == {OneToOne}
=============================================================================
