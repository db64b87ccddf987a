----------------------------- MODULE MCSession ------------------------------
(***************************************************************************)
(* A session with a ring of two slots and four sequences: the ring wraps,   *)
(* evicted sequences come back and the counter reaches its limit.  The     *)
(* output is columns 2..4; the window starts half on it.                   *)
(***************************************************************************)
EXTENDS SessionCheck

At(x) == [x |-> x, y |-> 0]
Line(x, w) == [x |-> x, y |-> 0, w |-> w, h |-> 1]

MCOutput == Line(2, 3)
MCWindow == Line(1, 2)

\* Three columns between the two output points: one drag takes the window
\* off the output, another past the last 32-bit column.
MCLocations == {[sequence |-> s, client |-> At(p[1]), output |-> At(p[2])] :
                   s \in {1, 2, 3}, p \in {<<0, 0>>, <<1, -3>>}}
               \cup {[sequence |-> 1, client |-> At(1), output |-> At(6)],
                     [sequence |-> 0, client |-> At(0), output |-> At(0)]}
MCScripted  == {[sequence |-> 3, source |-> Line(0, 2), destination |-> Line(1, 2),
                 visible |-> TRUE],
                [sequence |-> 1, source |-> Line(1, 2), destination |-> Line(1, 2),
                 visible |-> TRUE]}
=============================================================================
