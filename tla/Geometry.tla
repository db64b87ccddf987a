------------------------------ MODULE Geometry ------------------------------
(***************************************************************************)
(* The pure coordinate library of geometry/geometry.c.                     *)
(*                                                                         *)
(* A C function that returns bool and fills an out parameter is an         *)
(* operator whose value is the set of its results: the empty set where the *)
(* function returns false, a singleton where it returns true.  The int32_t *)
(* and int64_t ranges of the code are I32 and I64; their width comes from  *)
(* the constant MaxInt, which is INT32_MAX in the program, so that a small *)
(* MaxInt reaches every overflow check.                                    *)
(***************************************************************************)
EXTENDS Integers

CONSTANT MaxInt     \* INT32_MAX

ASSUME MaxIntAssumption == MaxInt \in Nat \ {0}

I32 == -(MaxInt + 1) .. MaxInt
\* A 64-bit integer is twice as wide as a 32-bit one.
MaxWide == 2 * (MaxInt + 1) * (MaxInt + 1) - 1
I64 == -(MaxWide + 1) .. MaxWide
FitsI32(v) == v \in I32

Point == [x : I32, y : I32]
Rect  == [x : I32, y : I32, w : I32, h : I32]
U32   == 0 .. 2 * MaxInt + 1
Scale == [numerator : U32, denominator : U32]

EmptyRect == [x |-> 0, y |-> 0, w |-> 0, h |-> 0]
-----------------------------------------------------------------------------
(* Half-open rectangles.                                                   *)

RectIsValid(r) == r.w >= 0 /\ r.h >= 0
RectIsEmpty(r) == RectIsValid(r) /\ (r.w = 0 \/ r.h = 0)

RectRight(r)  == r.x + r.w
RectBottom(r) == r.y + r.h

RectContainsPoint(r, p) ==
    /\ RectIsValid(r) /\ ~RectIsEmpty(r)
    /\ r.x <= p.x /\ p.x < RectRight(r)
    /\ r.y <= p.y /\ p.y < RectBottom(r)

Larger(a, b)  == IF a > b THEN a ELSE b
Smaller(a, b) == IF a < b THEN a ELSE b

TouchingIntersect(a, b) ==    \* mutant
    LET left   == Larger(a.x, b.x)
        top    == Larger(a.y, b.y)
        right  == Smaller(RectRight(a), RectRight(b))
        bottom == Smaller(RectBottom(a), RectBottom(b))
    IN  IF RectIsValid(a) /\ RectIsValid(b) /\ left <= right /\ top <= bottom
        THEN {[x |-> left, y |-> top, w |-> right - left, h |-> bottom - top]}
        ELSE {}
RectIntersect(a, b) ==
    LET left   == Larger(a.x, b.x)
        top    == Larger(a.y, b.y)
        right  == Smaller(RectRight(a), RectRight(b))
        bottom == Smaller(RectBottom(a), RectBottom(b))
    IN  IF /\ RectIsValid(a) /\ ~RectIsEmpty(a)
           /\ RectIsValid(b) /\ ~RectIsEmpty(b)
           /\ left < right /\ top < bottom
        THEN {[x |-> left, y |-> top, w |-> right - left, h |-> bottom - top]}
        ELSE {}

\* The one part of a window an output shows: what to sample of the surface
\* and where to present it on the output.
WindowRegionOnOutput(window, output) ==
    {[source      |-> [x |-> i.x - window.x, y |-> i.y - window.y, w |-> i.w, h |-> i.h],
      destination |-> [x |-> i.x - output.x, y |-> i.y - output.y, w |-> i.w, h |-> i.h]]
        : i \in RectIntersect(window, output)}
-----------------------------------------------------------------------------
(* Point conversions.                                                      *)

GlobalToLocal(rect, global) ==
    IF RectContainsPoint(rect, global)
    THEN {[x |-> global.x - rect.x, y |-> global.y - rect.y]}
    ELSE {}

\* No containment is asked for: a captured pointer may be outside the output.
OutputLocalPointToGlobal(output, local) ==
    LET x == output.x + local.x
        y == output.y + local.y
    IN  IF RectIsValid(output) /\ FitsI32(x) /\ FitsI32(y)
        THEN {[x |-> x, y |-> y]}
        ELSE {}

LocalToGlobal(rect, local) ==
    IF RectContainsPoint([x |-> 0, y |-> 0, w |-> rect.w, h |-> rect.h], local)
    THEN OutputLocalPointToGlobal(rect, local)
    ELSE {}

RemotePointerToSurfaceLocal(window, output, outputLocal) ==
    UNION {IF RectContainsPoint(region.destination, outputLocal)
           THEN UNION {GlobalToLocal(window, g) : g \in LocalToGlobal(output, outputLocal)}
           ELSE {}
           : region \in WindowRegionOnOutput(window, output)}

FragmentIsTheSurface(source, fragmentLocal) ==    \* mutant
    IF RectContainsPoint([x |-> 0, y |-> 0, w |-> source.w, h |-> source.h], fragmentLocal)
    THEN {fragmentLocal} ELSE {}
PresentedFragmentToSurfaceLocal(source, fragmentLocal) ==
    LET x == source.x + fragmentLocal.x
        y == source.y + fragmentLocal.y
    IN  IF /\ RectIsValid(source) /\ source.x >= 0 /\ source.y >= 0
           /\ RectContainsPoint([x |-> 0, y |-> 0, w |-> source.w, h |-> source.h],
                                fragmentLocal)
           /\ FitsI32(x) /\ FitsI32(y)
        THEN {[x |-> x, y |-> y]}
        ELSE {}

RemoteWindowPointerToSurfaceLocal(window, output, windowLocal) ==
    UNION {IF RectContainsPoint([region.source EXCEPT !.x = 0, !.y = 0], windowLocal)
           THEN {[x |-> region.source.x + windowLocal.x, y |-> region.source.y + windowLocal.y]}
           ELSE {}
           : region \in WindowRegionOnOutput(window, output)}
-----------------------------------------------------------------------------
(* Logical <-> physical pixels.  C's truncating division is corrected to a *)
(* floor by hand in the code; \div and % of TLA+ already floor.            *)

ScaleIsValid(s) == s.numerator # 0 /\ s.denominator # 0

\* floor(logical * numerator / denominator), dividing first; the exact result
\* was fractional when the last division left a remainder.
ScaledFloor(logical, s) ==
    LET quotient  == logical \div s.denominator
        remainder == logical % s.denominator
        whole     == quotient * s.numerator
        result    == whole + (remainder * s.numerator) \div s.denominator
    IN  IF ScaleIsValid(s) /\ whole \in I64 /\ result \in I64 THEN {result} ELSE {}

WasFractional(logical, s) ==
    (((logical % s.denominator) * s.numerator) % s.denominator) # 0

FloorForCeil(logical, s) == ScaledFloor(logical, s)    \* mutant
ScaledCeil(logical, s) ==
    {v \in {IF WasFractional(logical, s) THEN f + 1 ELSE f : f \in ScaledFloor(logical, s)}
        : v \in I64}

LogicalPointToPhysical(p, s) ==
    {[x |-> x, y |-> y] : x \in ScaledFloor(p.x, s) \cap I32,
                          y \in ScaledFloor(p.y, s) \cap I32}

UncheckedPhysicalRect(r, s) ==    \* mutant
    IF RectIsValid(r) /\ ScaleIsValid(s)
    THEN {[x |-> left, y |-> top, w |-> right - left, h |-> bottom - top] :
             left  \in ScaledFloor(r.x, s),          top    \in ScaledFloor(r.y, s),
             right \in ScaledCeil(RectRight(r), s),  bottom \in ScaledCeil(RectBottom(r), s)}
    ELSE {}
\* Left and top edges are floored, right and bottom edges rounded up.
LogicalRectToPhysical(r, s) ==
    IF RectIsValid(r) /\ ScaleIsValid(s)
    THEN {p \in {[x |-> left, y |-> top, w |-> right - left, h |-> bottom - top] :
                    left  \in ScaledFloor(r.x, s),          top    \in ScaledFloor(r.y, s),
                    right \in ScaledCeil(RectRight(r), s),  bottom \in ScaledCeil(RectBottom(r), s)}
            : p \in Rect /\ RectIsValid(p)}
    ELSE {}

Truncated(a, b) == IF a >= 0 THEN a \div b ELSE -((-a) \div b)
TruncatingInverse(fragment, s, local) ==    \* mutant
    IF RectIsValid(fragment) /\ ~RectIsEmpty(fragment)
    THEN UNION {IF RectIsEmpty(physical) THEN {}
                ELSE {[x |-> Truncated(local.x * fragment.w, physical.w),
                       y |-> Truncated(local.y * fragment.h, physical.h)]}
                : physical \in LogicalRectToPhysical(fragment, s)}
    ELSE {}
RoundedUpInverse(fragment, s, local) ==    \* mutant
    IF RectIsValid(fragment) /\ ~RectIsEmpty(fragment)
    THEN UNION {IF RectIsEmpty(physical) THEN {}
                ELSE {[x |-> -((-local.x * fragment.w) \div physical.w),
                       y |-> -((-local.y * fragment.h) \div physical.h)]}
                : physical \in LogicalRectToPhysical(fragment, s)}
    ELSE {}
\* A physical client coordinate of the presented window back to the logical
\* fragment: the proportion floor(local * logical extent / physical extent).
PhysicalFragmentLocalToLogical(fragment, s, local) ==
    IF RectIsValid(fragment) /\ ~RectIsEmpty(fragment)
    THEN UNION {IF RectIsEmpty(physical) THEN {}
                ELSE {l \in {[x |-> (local.x * fragment.w) \div physical.w,
                              y |-> (local.y * fragment.h) \div physical.h]} : l \in Point}
                : physical \in LogicalRectToPhysical(fragment, s)}
    ELSE {}
=============================================================================
