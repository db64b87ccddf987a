----------------------------- MODULE MCContent ------------------------------
(***************************************************************************)
(* Contents of one and two columns.  Damage names one column, both, two    *)
(* rectangles that overlap, or a rectangle outside of a narrow content     *)
(* after one that is inside of it.                                         *)
(***************************************************************************)
EXTENDS ContentCheck

MCImages  == {{}, Columns(1), Columns(2)}
MCDamages == {<<>>, <<Surface(0, 1)>>, <<Surface(0, 2)>>,
              <<Surface(0, 2), Surface(1, 1)>>, <<Surface(0, 1), Surface(1, 1)>>}
=============================================================================
