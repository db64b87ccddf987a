--------------------------- MODULE GeometryLemmas ---------------------------
(***************************************************************************)
(* Facts about the coordinate library for every 32-bit rectangle, point    *)
(* and scale.  The range of I32 is used nowhere but where a result must    *)
(* fit it, so they hold for the MaxInt of the program.                     *)
(***************************************************************************)
EXTENDS Geometry, TLAPS

\* rect_intersect: a result is a non-empty rectangle inside both arguments,
\* and its fields fit the int32_t fields they are cast to.
LEMMA IntersectionIsInBoth ==
    ASSUME NEW a \in Rect, NEW b \in Rect, NEW i \in RectIntersect(a, b)
    PROVE  /\ i \in Rect /\ RectIsValid(i) /\ ~RectIsEmpty(i)
           /\ a.x <= i.x /\ RectRight(i) <= RectRight(a)
           /\ a.y <= i.y /\ RectBottom(i) <= RectBottom(a)
           /\ b.x <= i.x /\ RectRight(i) <= RectRight(b)
           /\ b.y <= i.y /\ RectBottom(i) <= RectBottom(b)
  BY MaxIntAssumption
     DEF RectIntersect, Rect, I32, RectIsValid, RectIsEmpty, RectRight, RectBottom,
         Larger, Smaller

\* window_region_on_output: the source lies in the window's surface, the
\* destination on the output, they have one non-empty size, and none of the
\* unchecked int32_t casts of the function changes a value.
THEOREM RegionIsSound ==
    ASSUME NEW window \in Rect, NEW output \in Rect,
           NEW r \in WindowRegionOnOutput(window, output)
    PROVE  /\ r.source \in Rect /\ r.destination \in Rect
           /\ r.source.w = r.destination.w /\ r.source.h = r.destination.h
           /\ r.source.w > 0 /\ r.source.h > 0
           /\ r.source.x >= 0 /\ RectRight(r.source) <= window.w
           /\ r.source.y >= 0 /\ RectBottom(r.source) <= window.h
           /\ r.destination.x >= 0 /\ RectRight(r.destination) <= output.w
           /\ r.destination.y >= 0 /\ RectBottom(r.destination) <= output.h
  <1>1. PICK i \in RectIntersect(window, output) :
           r = [source      |-> [x |-> i.x - window.x, y |-> i.y - window.y,
                                 w |-> i.w, h |-> i.h],
                destination |-> [x |-> i.x - output.x, y |-> i.y - output.y,
                                 w |-> i.w, h |-> i.h]]
    BY DEF WindowRegionOnOutput
  <1>2. /\ i \in Rect /\ RectIsValid(i) /\ ~RectIsEmpty(i)
        /\ window.x <= i.x /\ RectRight(i) <= RectRight(window)
        /\ window.y <= i.y /\ RectBottom(i) <= RectBottom(window)
        /\ output.x <= i.x /\ RectRight(i) <= RectRight(output)
        /\ output.y <= i.y /\ RectBottom(i) <= RectBottom(output)
    BY IntersectionIsInBoth
  <1>. QED
    BY <1>1, <1>2, MaxIntAssumption
       DEF Rect, I32, RectIsValid, RectIsEmpty, RectRight, RectBottom

\* remote_pointer_to_surface_local and presented_fragment_to_surface_local
\* agree, and land in the window's surface: the pointer sent back for a point
\* of the destination is the surface point presented there.
THEOREM PointerReachesItsPixel ==
    ASSUME NEW window \in Rect, NEW output \in Rect,
           NEW r \in WindowRegionOnOutput(window, output),
           NEW fragmentLocal \in Point,
           NEW s \in PresentedFragmentToSurfaceLocal(r.source, fragmentLocal)
    PROVE  /\ s \in Point
           /\ s.x \in 0 .. window.w - 1 /\ s.y \in 0 .. window.h - 1
           /\ window.x + s.x = output.x + (r.destination.x + fragmentLocal.x)
           /\ window.y + s.y = output.y + (r.destination.y + fragmentLocal.y)
  <1>1. PICK i \in RectIntersect(window, output) :
           r = [source      |-> [x |-> i.x - window.x, y |-> i.y - window.y,
                                 w |-> i.w, h |-> i.h],
                destination |-> [x |-> i.x - output.x, y |-> i.y - output.y,
                                 w |-> i.w, h |-> i.h]]
    BY DEF WindowRegionOnOutput
  <1>2. i \in Rect
    BY IntersectionIsInBoth
  <1>3. /\ s = [x |-> r.source.x + fragmentLocal.x, y |-> r.source.y + fragmentLocal.y]
        /\ FitsI32(s.x) /\ FitsI32(s.y)
        /\ fragmentLocal.x \in 0 .. r.source.w - 1 /\ fragmentLocal.y \in 0 .. r.source.h - 1
    BY RegionIsSound, MaxIntAssumption
       DEF PresentedFragmentToSurfaceLocal, RectContainsPoint, RectRight, RectBottom,
           Point, Rect, I32
  <1>4. /\ r.source.x >= 0 /\ r.source.x + r.source.w <= window.w
        /\ r.source.y >= 0 /\ r.source.y + r.source.h <= window.h
    BY RegionIsSound DEF RectRight, RectBottom
  <1>5. /\ r.source = [x |-> i.x - window.x, y |-> i.y - window.y, w |-> i.w, h |-> i.h]
        /\ r.destination = [x |-> i.x - output.x, y |-> i.y - output.y, w |-> i.w, h |-> i.h]
    BY <1>1
  <1>6. s.x = r.source.x + fragmentLocal.x /\ s.y = r.source.y + fragmentLocal.y
    BY <1>3
  <1>7. s \in Point
    BY <1>3 DEF Point, FitsI32
  <1>8. s.x \in 0 .. window.w - 1 /\ s.y \in 0 .. window.h - 1
    BY <1>2, <1>3, <1>4, <1>5, <1>6, MaxIntAssumption DEF Rect, I32
  <1>9. /\ window.x + s.x = output.x + (r.destination.x + fragmentLocal.x)
        /\ window.y + s.y = output.y + (r.destination.y + fragmentLocal.y)
    BY <1>2, <1>3, <1>5, <1>6, MaxIntAssumption DEF Rect, I32
  <1>. QED
    BY <1>7, <1>8, <1>9

\* Euclid: the quotient of the floor division the library uses throughout.
LEMMA FloorDivision ==
    ASSUME NEW n \in Int, NEW d \in Int, d > 0
    PROVE  /\ n \div d \in Int
           /\ (n \div d) * d <= n /\ n < (n \div d) * d + d
  OBVIOUS

\* The proportion floor(p * w / pw) of physical_fragment_local_to_logical is
\* inside the logical extent exactly when p is inside the physical one.
LEMMA ProportionKeepsSides ==
    ASSUME NEW p \in Int, NEW w \in Int, NEW pw \in Int, w > 0, pw > 0
    PROVE  /\ (p * w) \div pw \in Int
           /\ ((p * w) \div pw >= 0) <=> (p >= 0)
           /\ ((p * w) \div pw <= w - 1) => (p <= pw - 1)
           /\ (p <= pw - 1) => ((p * w) \div pw <= w - 1)
  <1>. DEFINE q == (p * w) \div pw
  <1>1. p * w \in Int
    OBVIOUS
  <1>2. q \in Int /\ q * pw <= p * w /\ p * w < q * pw + pw
    BY <1>1, FloorDivision
  <1>. HIDE DEF q
  <1>3. (q >= 0) <=> (p >= 0)
    <2>1. ASSUME q >= 0 PROVE p >= 0
      <3>1. q * pw >= 0
        BY <2>1, <1>2
      <3>2. p * w >= 0
        BY <3>1, <1>1, <1>2
      <3>. QED
        BY <3>2
    <2>2. ASSUME p >= 0, q < 0 PROVE FALSE
      <3>1. p * w >= 0
        BY <2>2
      <3>2. q <= -1
        BY <2>2, <1>2
      <3>3. q * pw + pw <= 0
        BY <3>2, <1>2
      <3>. QED
        BY <3>1, <3>3, <1>2
    <2>. QED
      BY <2>1, <2>2, <1>2
  <1>4. ASSUME q <= w - 1 PROVE p <= pw - 1
    <2>1. (q + 1) * pw <= w * pw
      BY <1>4, <1>2
    <2>2. (q + 1) * pw = q * pw + pw
      BY <1>2
    <2>3. p * w < w * pw
      BY <2>1, <2>2, <1>1, <1>2
    <2>. QED
      BY <2>3
  <1>5. ASSUME p <= pw - 1 PROVE q <= w - 1
    <2>1. p * w < pw * w
      BY <1>5
    <2>2. q * pw < w * pw
      BY <2>1, <1>1, <1>2
    <2>3. q < w
      BY <2>2, <1>2
    <2>. QED
      BY <2>3, <1>2
  <1>. QED
    BY <1>2, <1>3, <1>4, <1>5 DEF q

\* logical_rect_to_physical has at most one result.
LEMMA PhysicalRectIsUnique ==
    ASSUME NEW r, NEW s, NEW p \in LogicalRectToPhysical(r, s),
           NEW q \in LogicalRectToPhysical(r, s)
    PROVE  p = q
  <1>1. \A v : \A a, b \in ScaledFloor(v, s) : a = b
    BY DEF ScaledFloor
  <1>2. \A v : \A a, b \in ScaledCeil(v, s) : a = b
    BY <1>1 DEF ScaledCeil
  <1>. DEFINE Corner(left, top, right, bottom) ==
                 [x |-> left, y |-> top, w |-> right - left, h |-> bottom - top]
  <1>3. PICK l1 \in ScaledFloor(r.x, s), t1 \in ScaledFloor(r.y, s),
             r1 \in ScaledCeil(RectRight(r), s), b1 \in ScaledCeil(RectBottom(r), s) :
           p = Corner(l1, t1, r1, b1)
    BY DEF LogicalRectToPhysical
  <1>4. PICK l2 \in ScaledFloor(r.x, s), t2 \in ScaledFloor(r.y, s),
             r2 \in ScaledCeil(RectRight(r), s), b2 \in ScaledCeil(RectBottom(r), s) :
           q = Corner(l2, t2, r2, b2)
    BY DEF LogicalRectToPhysical
  <1>. HIDE DEF Corner
  <1>5. l1 = l2 /\ t1 = t2
    BY <1>1
  <1>6. r1 = r2 /\ b1 = b2
    BY <1>2
  <1>. QED
    BY <1>3, <1>4, <1>5, <1>6

\* physical_fragment_local_to_logical keeps every point, captured ones outside
\* the window included, on its side of each edge of the fragment, at every
\* scale.
THEOREM InverseKeepsSidesOfFragment ==
    ASSUME NEW fragment \in Rect, NEW s \in Scale, NEW local \in Point,
           NEW physical \in LogicalRectToPhysical(fragment, s),
           NEW l \in PhysicalFragmentLocalToLogical(fragment, s, local)
    PROVE  /\ (local.x \in 0 .. physical.w - 1) <=> (l.x \in 0 .. fragment.w - 1)
           /\ (local.y \in 0 .. physical.h - 1) <=> (l.y \in 0 .. fragment.h - 1)
  <1>1. RectIsValid(fragment) /\ ~RectIsEmpty(fragment)
    BY DEF PhysicalFragmentLocalToLogical
  <1>2. PICK p \in LogicalRectToPhysical(fragment, s) :
           /\ ~RectIsEmpty(p)
           /\ l = [x |-> (local.x * fragment.w) \div p.w,
                   y |-> (local.y * fragment.h) \div p.h]
    BY DEF PhysicalFragmentLocalToLogical
  <1>3. p = physical
    BY PhysicalRectIsUnique
  <1>4. p \in Rect /\ RectIsValid(p)
    BY DEF LogicalRectToPhysical
  <1>5. /\ p.w \in Int /\ p.h \in Int /\ p.w > 0 /\ p.h > 0
        /\ fragment.w \in Int /\ fragment.h \in Int /\ fragment.w > 0 /\ fragment.h > 0
        /\ local.x \in Int /\ local.y \in Int
    BY <1>1, <1>2, <1>4, MaxIntAssumption DEF RectIsValid, RectIsEmpty, Rect, Point, I32
  <1>6. /\ l.x = (local.x * fragment.w) \div p.w
        /\ l.y = (local.y * fragment.h) \div p.h
    BY <1>2
  <1>7. (local.x \in 0 .. p.w - 1) <=> (l.x \in 0 .. fragment.w - 1)
    BY <1>5, <1>6, ProportionKeepsSides
  <1>8. (local.y \in 0 .. p.h - 1) <=> (l.y \in 0 .. fragment.h - 1)
    BY <1>5, <1>6, ProportionKeepsSides
  <1>. QED
    BY <1>3, <1>7, <1>8
-----------------------------------------------------------------------------
(* Scaling.                                                                *)

\* A quotient is the floor when it is on the right side of both bounds.
LEMMA FloorIsUnique ==
    ASSUME NEW a \in Int, NEW d \in Int, NEW f \in Int, d > 0,
           f * d <= a, a < f * d + d
    PROVE  f = a \div d
  <1>. DEFINE q == a \div d
  <1>1. q \in Int /\ q * d <= a /\ a < q * d + d
    BY FloorDivision
  <1>. HIDE DEF q
  <1>2. ASSUME f < q PROVE FALSE
    <2>1. (f + 1) * d <= q * d
      BY <1>1, <1>2
    <2>2. (f + 1) * d = f * d + d
      OBVIOUS
    <2>. QED
      BY <1>1, <2>1, <2>2
  <1>3. ASSUME q < f PROVE FALSE
    <2>1. (q + 1) * d <= f * d
      BY <1>1, <1>3
    <2>2. (q + 1) * d = q * d + d
      BY <1>1
    <2>. QED
      BY <1>1, <2>1, <2>2
  <1>. QED
    BY <1>1, <1>2, <1>3 DEF q

\* Division with remainder: 0 <= n % d < d.
LEMMA Remainder ==
    ASSUME NEW n \in Int, NEW d \in Int, d > 0
    PROVE  /\ n % d \in Int /\ 0 <= n % d /\ n % d < d
           /\ n = (n \div d) * d + (n % d)
  OBVIOUS

\* scaled_floor divides first, to keep its products small; the result is the
\* floor of the exact fraction all the same, and fractional exactly when the
\* fraction is.
LEMMA DividedFirst ==
    ASSUME NEW v \in Int, NEW n \in Nat, NEW d \in Nat, d > 0
    PROVE  /\ (v \div d) * n \in Int /\ ((v % d) * n) \div d \in Nat
           /\ (v \div d) * n + (((v % d) * n) \div d) = (v * n) \div d
           /\ ((v % d) * n) % d = (v * n) % d
  <1>. DEFINE q == v \div d
              r == v % d
              t == r * n
              g == t \div d
              m == t % d
  <1>1. q \in Int /\ r \in Int /\ 0 <= r /\ r < d /\ v = q * d + r
    BY Remainder, FloorDivision
  <1>. HIDE DEF q, r
  <1>2. t \in Int /\ 0 <= t /\ q * n \in Int /\ v * n \in Int
    BY <1>1
  <1>. HIDE DEF t
  <1>3. g \in Int /\ m \in Int /\ 0 <= m /\ m < d /\ t = g * d + m
    BY <1>2, Remainder, FloorDivision
  <1>. HIDE DEF g, m
  <1>4. g >= 0
    <2>1. ASSUME g <= -1 PROVE FALSE
      <3>1. g * d <= -d
        BY <1>3, <2>1
      <3>. QED
        BY <1>2, <1>3, <3>1
    <2>. QED
      BY <1>3, <2>1
  <1>5. v * n = (q * n + g) * d + m
    <2>1. v * n = (q * d) * n + t
      BY <1>1 DEF t
    <2>2. (q * n + g) * d = (q * n) * d + g * d
      BY <1>1, <1>3
    <2>3. (q * d) * n = (q * n) * d
      BY <1>1
    <2>. QED
      BY <1>2, <1>3, <2>1, <2>2, <2>3
  <1>. DEFINE f == q * n + g
              a == v * n
  <1>6. f \in Int /\ a \in Int /\ a = f * d + m
    BY <1>2, <1>3, <1>5
  <1>. HIDE DEF f, a
  <1>7. f = a \div d
    BY <1>3, <1>6, FloorIsUnique
  <1>8. a % d = m
    <2>1. a % d \in Int /\ a = (a \div d) * d + (a % d)
      BY <1>6, Remainder
    <2>. QED
      BY <1>3, <1>6, <1>7, <2>1
  <1>. QED
    BY <1>2, <1>3, <1>4, <1>7, <1>8 DEF f, a, g, m, t, q, r

\* The exact floor and ceiling of v at a scale.
ExactFloor(v, s) == (v * s.numerator) \div s.denominator
ExactCeil(v, s)  == -ExactFloor(-v, s)

\* What a ceiling is, and that the code's way to it - the floor, plus one when
\* something is left over - finds it.
LEMMA CeilingOfFraction ==
    ASSUME NEW v \in Int, NEW n \in Nat, NEW d \in Nat, d > 0
    PROVE  LET c == -(((-v) * n) \div d) IN
           /\ c \in Int /\ (c - 1) * d < v * n /\ v * n <= c * d
           /\ c = IF (v * n) % d = 0 THEN (v * n) \div d ELSE ((v * n) \div d) + 1
  <1>. DEFINE a == v * n
              b == (-v) * n
              e == b \div d
              f == a \div d
              m == a % d
  <1>1. a \in Int /\ b \in Int /\ b = -a
    OBVIOUS
  <1>. HIDE DEF a, b
  <1>2. e \in Int /\ e * d <= b /\ b < e * d + d
    BY <1>1, FloorDivision
  <1>3. f \in Int /\ m \in Int /\ 0 <= m /\ m < d /\ a = f * d + m
    BY <1>1, Remainder, FloorDivision
  <1>. HIDE DEF e, f, m
  <1>4. -e \in Int /\ (-e - 1) * d = -(e * d + d) /\ (-e) * d = -(e * d)
    BY <1>2
  <1>5. (-e - 1) * d < a /\ a <= (-e) * d
    BY <1>1, <1>2, <1>4
  <1>6. -e = IF m = 0 THEN f ELSE f + 1
    <2>1. CASE m = 0
      <3>1. (-f) * d <= b /\ b < (-f) * d + d
        BY <1>1, <1>3, <2>1
      <3>2. -f = b \div d
        BY <1>1, <1>3, <3>1, FloorIsUnique
      <3>. QED
        BY <1>2, <1>3, <2>1, <3>2 DEF e
    <2>2. CASE m # 0
      <3>1. (-f - 1) * d = -(f * d) - d
        BY <1>3
      <3>2. (-f - 1) * d <= b /\ b < (-f - 1) * d + d
        BY <1>1, <1>3, <2>2, <3>1
      <3>3. -f - 1 = b \div d
        BY <1>1, <1>3, <3>2, FloorIsUnique
      <3>. QED
        BY <1>2, <1>3, <2>2, <3>3 DEF e
    <2>. QED
      BY <2>1, <2>2
  <1>. QED
    BY <1>2, <1>5, <1>6 DEF a, b, e, f, m
\* scaled_floor and scaled_ceil return the exact floor and ceiling or nothing.
LEMMA ScaledIsExact ==
    ASSUME NEW v \in Int, NEW s \in Scale
    PROVE  /\ \A f \in ScaledFloor(v, s) : ScaleIsValid(s) /\ f = ExactFloor(v, s)
           /\ \A c \in ScaledCeil(v, s) : ScaleIsValid(s) /\ c = ExactCeil(v, s)
  <1>1. s.numerator \in Nat /\ s.denominator \in Nat
    BY MaxIntAssumption DEF Scale, U32
  <1>2. ASSUME NEW f \in ScaledFloor(v, s) PROVE ScaleIsValid(s) /\ f = ExactFloor(v, s)
    <2>1. ScaleIsValid(s)
      BY DEF ScaledFloor
    <2>2. f = (v \div s.denominator) * s.numerator
              + (((v % s.denominator) * s.numerator) \div s.denominator)
      BY <1>2 DEF ScaledFloor
    <2>3. s.denominator > 0
      BY <1>1, <2>1 DEF ScaleIsValid
    <2>. QED
      BY <1>1, <2>1, <2>2, <2>3, DividedFirst DEF ExactFloor
  <1>3. ASSUME NEW c \in ScaledCeil(v, s) PROVE ScaleIsValid(s) /\ c = ExactCeil(v, s)
    <2>1. PICK f \in ScaledFloor(v, s) : c = IF WasFractional(v, s) THEN f + 1 ELSE f
      BY <1>3 DEF ScaledCeil
    <2>2. ScaleIsValid(s) /\ f = ExactFloor(v, s)
      BY <1>2
    <2>3. s.denominator > 0
      BY <1>1, <2>2 DEF ScaleIsValid
    <2>4. WasFractional(v, s) <=> (v * s.numerator) % s.denominator # 0
      BY <1>1, <2>3, DividedFirst DEF WasFractional
    <2>. QED
      BY <1>1, <2>1, <2>2, <2>3, <2>4, CeilingOfFraction DEF ExactFloor, ExactCeil
  <1>. QED
    BY <1>2, <1>3

\* The 64-bit steps on the way overflow for no value whose result is as small
\* as a rectangle's edges: a denominator is a 32-bit number.
LEMMA SmallResultsAreFound ==
    ASSUME NEW v \in Int, NEW s \in Scale, ScaleIsValid(s),
           ExactFloor(v, s) >= -(MaxInt + 1)
    PROVE  /\ ExactFloor(v, s) <= 2 * MaxInt => ExactFloor(v, s) \in ScaledFloor(v, s)
           /\ ExactCeil(v, s) <= 2 * MaxInt => ExactCeil(v, s) \in ScaledCeil(v, s)
  <1>. DEFINE n == s.numerator
              d == s.denominator
              M == MaxInt + 1
              q == v \div d
              r == v % d
              whole == q * n
              g == (r * n) \div d
              f == ExactFloor(v, s)
              c == ExactCeil(v, s)
  <1>1. /\ n \in Nat /\ d \in Nat /\ n > 0 /\ d > 0 /\ d <= 2 * M
        /\ M \in Nat /\ M >= 2 /\ MaxWide = 2 * (M * M) - 1 /\ M * M >= 2 * M
    <2>1. /\ n \in Nat /\ d \in Nat /\ n > 0 /\ d > 0 /\ d <= 2 * M /\ M \in Nat /\ M >= 2
      BY MaxIntAssumption DEF Scale, U32, ScaleIsValid
    <2>2. MaxWide = 2 * (M * M) - 1
      BY MaxIntAssumption DEF MaxWide
    <2>. HIDE DEF M
    <2>3. M * M >= 2 * M
      BY <2>1
    <2>. QED
      BY <2>1, <2>2, <2>3
  <1>. HIDE DEF n, d
  <1>2. /\ whole \in Int /\ g \in Nat /\ f = whole + g /\ f = (v * n) \div d
        /\ WasFractional(v, s) <=> (v * n) % d # 0
    BY <1>1, DividedFirst DEF ExactFloor, WasFractional, n, d
  <1>3. q \in Int /\ r \in Int /\ 0 <= r /\ r < d /\ v = q * d + r
    BY <1>1, Remainder, FloorDivision
  <1>4. f \in Int /\ f * d <= v * n
    BY <1>1, <1>2, FloorDivision
  <1>5. c \in Int /\ (c = f \/ c = f + 1) /\ (c = IF WasFractional(v, s) THEN f + 1 ELSE f)
    <2>1. c = IF (v * n) % d = 0 THEN f ELSE f + 1
      BY <1>1, <1>2, CeilingOfFraction DEF ExactCeil, ExactFloor, n, d
    <2>. QED
      BY <1>2, <1>4, <2>1
  <1>6. f >= -M
    BY MaxIntAssumption, <1>4
  <1>. HIDE DEF M, f, c, g
  <1>7. whole >= -(MaxWide + 1)
    <2>. HIDE DEF r, q
    <2>1. CASE q >= 0
      <3>1. q * n >= 0
        BY <1>1, <1>3, <2>1
      <3>. QED
        BY <1>1, <1>2, <3>1
    <2>2. CASE q <= -1
      <3>1. v <= q
        <4>1. (q + 1) * (d - 1) <= 0
          BY <1>1, <1>3, <2>2
        <4>2. (q + 1) * (d - 1) = q * d - q + d - 1
          BY <1>1, <1>3
        <4>3. q * d \in Int
          BY <1>1, <1>3
        <4>. QED
          BY <1>1, <1>3, <4>1, <4>2, <4>3
      <3>2. v * n <= q * n
        BY <1>1, <1>3, <3>1
      <3>3. f * d >= (-M) * d
        BY <1>1, <1>4, <1>6
      <3>4. M * d <= M * (2 * M)
        BY <1>1
      <3>5. (-M) * d = -(M * d) /\ M * (2 * M) = 2 * (M * M)
        BY <1>1
      <3>. QED
        BY <1>1, <1>2, <1>4, <3>2, <3>3, <3>4, <3>5
    <2>. QED
      BY <1>3, <2>1, <2>2
  <1>8. whole <= f
    BY <1>2
  <1>9. ASSUME f <= 2 * MaxInt PROVE f \in ScaledFloor(v, s)
    <2>1. whole \in I64 /\ f \in I64
      BY <1>1, <1>2, <1>4, <1>6, <1>7, <1>8, <1>9, MaxIntAssumption DEF I64, M
    <2>. QED
      BY <1>2, <2>1 DEF ScaledFloor, n, d, g
  <1>10. ASSUME c <= 2 * MaxInt PROVE c \in ScaledCeil(v, s)
    <2>1. f <= 2 * MaxInt
      BY <1>4, <1>5, <1>10, MaxIntAssumption
    <2>2. c \in I64
      BY <1>1, <1>4, <1>5, <1>6, <1>10, MaxIntAssumption DEF I64, M
    <2>3. f \in ScaledFloor(v, s)
      BY <1>9, <2>1
    <2>. QED
      BY <1>5, <2>2, <2>3 DEF ScaledCeil
  <1>. QED
    BY <1>9, <1>10 DEF f, c

\* logical_rect_to_physical: the corners are the exact ones.
LEMMA PhysicalRectIsExact ==
    ASSUME NEW r \in Rect, NEW s \in Scale, NEW p \in LogicalRectToPhysical(r, s)
    PROVE  /\ p \in Rect /\ RectIsValid(p) /\ RectIsValid(r) /\ ScaleIsValid(s)
           /\ p.x = ExactFloor(r.x, s) /\ p.y = ExactFloor(r.y, s)
           /\ p.w = ExactCeil(RectRight(r), s) - ExactFloor(r.x, s)
           /\ p.h = ExactCeil(RectBottom(r), s) - ExactFloor(r.y, s)
  <1>1. p \in Rect /\ RectIsValid(p) /\ RectIsValid(r) /\ ScaleIsValid(s)
    BY DEF LogicalRectToPhysical
  <1>2. PICK left \in ScaledFloor(r.x, s), top \in ScaledFloor(r.y, s),
             right \in ScaledCeil(RectRight(r), s), bottom \in ScaledCeil(RectBottom(r), s) :
           p = [x |-> left, y |-> top, w |-> right - left, h |-> bottom - top]
    BY DEF LogicalRectToPhysical
  <1>3. r.x \in Int /\ r.y \in Int /\ RectRight(r) \in Int /\ RectBottom(r) \in Int
    BY MaxIntAssumption DEF Rect, I32, RectRight, RectBottom
  <1>4. /\ left = ExactFloor(r.x, s) /\ top = ExactFloor(r.y, s)
        /\ right = ExactCeil(RectRight(r), s) /\ bottom = ExactCeil(RectBottom(r), s)
    BY <1>2, <1>3, ScaledIsExact
  <1>. QED
    BY <1>1, <1>2, <1>4

\* Floor and ceiling in products.
LEMMA ExactBounds ==
    ASSUME NEW v \in Int, NEW s \in Scale, ScaleIsValid(s)
    PROVE  /\ ExactFloor(v, s) \in Int /\ ExactCeil(v, s) \in Int
           /\ ExactFloor(v, s) * s.denominator <= v * s.numerator
           /\ v * s.numerator < ExactFloor(v, s) * s.denominator + s.denominator
           /\ (ExactCeil(v, s) - 1) * s.denominator < v * s.numerator
           /\ v * s.numerator <= ExactCeil(v, s) * s.denominator
  <1>1. /\ s.numerator \in Nat /\ s.denominator \in Nat
        /\ s.numerator > 0 /\ s.denominator > 0
    BY MaxIntAssumption DEF Scale, U32, ScaleIsValid
  <1>2. v * s.numerator \in Int
    BY <1>1
  <1>3. /\ ExactFloor(v, s) \in Int
        /\ ExactFloor(v, s) * s.denominator <= v * s.numerator
        /\ v * s.numerator < ExactFloor(v, s) * s.denominator + s.denominator
    BY <1>1, <1>2, FloorDivision DEF ExactFloor
  <1>. QED
    BY <1>1, <1>3, CeilingOfFraction DEF ExactCeil, ExactFloor

\* A longer interval has the later end: ceilings and floors do not cross.
LEMMA EndsInOrder ==
    ASSUME NEW from \in Int, NEW to \in Int, NEW s \in Scale, ScaleIsValid(s), from <= to
    PROVE  /\ ExactFloor(from, s) <= ExactFloor(to, s)
           /\ ExactFloor(from, s) <= ExactCeil(to, s)
           /\ from < to => ExactFloor(from, s) < ExactCeil(to, s)
           /\ s.numerator >= s.denominator =>
                 ExactCeil(to, s) - ExactFloor(from, s) >= to - from
  <1>. DEFINE n == s.numerator
              d == s.denominator
              a == ExactFloor(from, s)
              b == ExactFloor(to, s)
              c == ExactCeil(to, s)
  <1>1. n \in Nat /\ d \in Nat /\ n > 0 /\ d > 0
    BY MaxIntAssumption DEF Scale, U32, ScaleIsValid
  <1>2. /\ a \in Int /\ b \in Int /\ c \in Int
        /\ a * d <= from * n /\ to * n < b * d + d /\ to * n <= c * d
    BY ExactBounds
  <1>. HIDE DEF n, d, a, b, c
  <1>3. from * n \in Int /\ to * n \in Int /\ from * n <= to * n /\ a * d \in Int
    BY <1>1, <1>2
  <1>4. ASSUME a > b PROVE FALSE
    <2>1. (b + 1) * d <= a * d
      BY <1>1, <1>2, <1>4
    <2>2. (b + 1) * d = b * d + d
      BY <1>1, <1>2
    <2>. QED
      BY <1>1, <1>2, <1>3, <2>1, <2>2
  <1>5. ASSUME a > c PROVE FALSE
    <2>1. c * d < a * d
      BY <1>1, <1>2, <1>5
    <2>. QED
      BY <1>1, <1>2, <1>3, <2>1
  <1>6. ASSUME from < to, a >= c PROVE FALSE
    <2>1. from * n < to * n
      BY <1>1, <1>6
    <2>2. c * d <= a * d
      BY <1>1, <1>2, <1>6
    <2>. QED
      BY <1>1, <1>2, <1>3, <2>1, <2>2
  <1>7. ASSUME n >= d PROVE c - a >= to - from
    <2>1. (to - from) * d <= (to - from) * n
      BY <1>1, <1>7
    <2>2. (to - from) * n = to * n - from * n
      BY <1>1
    <2>3. (c - a) * d = c * d - a * d
      BY <1>1, <1>2
    <2>4. (to - from) * d <= (c - a) * d
      BY <1>1, <1>2, <1>3, <2>1, <2>2, <2>3
    <2>. QED
      BY <1>1, <1>2, <2>4
  <1>. QED
    BY <1>2, <1>4, <1>5, <1>6, <1>7 DEF a, b, c, n, d

\* The proportion never decreases, and takes every value of a shorter extent.
LEMMA ProportionIsMonotone ==
    ASSUME NEW p \in Int, NEW q \in Int, NEW w \in Nat, NEW pw \in Int, pw > 0, p <= q
    PROVE  (p * w) \div pw <= (q * w) \div pw
  <1>. DEFINE a == p * w
              b == q * w
              f == a \div pw
              g == b \div pw
  <1>1. a \in Int /\ b \in Int /\ a <= b
    OBVIOUS
  <1>. HIDE DEF a, b
  <1>2. f \in Int /\ f * pw <= a /\ g \in Int /\ b < g * pw + pw
    BY <1>1, FloorDivision
  <1>. HIDE DEF f, g
  <1>3. ASSUME g < f PROVE FALSE
    <2>1. (g + 1) * pw <= f * pw
      BY <1>2, <1>3
    <2>2. (g + 1) * pw = g * pw + pw
      BY <1>2
    <2>. QED
      BY <1>1, <1>2, <2>1, <2>2
  <1>. QED
    BY <1>2, <1>3 DEF f, g, a, b

LEMMA ProportionIsOnto ==
    ASSUME NEW k \in Int, NEW w \in Int, NEW pw \in Int, 0 <= k, k < w, w <= pw
    PROVE  \E p \in 0 .. pw - 1 : (p * w) \div pw = k
  <1>. DEFINE p == -((-(k * pw)) \div w)
              e == (-(k * pw)) \div w
  <1>1. k * pw \in Int /\ k * pw >= 0 /\ w > 0 /\ pw > 0
    OBVIOUS
  <1>2. e \in Int /\ e * w <= -(k * pw) /\ -(k * pw) < e * w + w
    BY <1>1, FloorDivision
  <1>3. p \in Int /\ p * w >= k * pw /\ p * w < k * pw + w /\ p * w \in Int
    <2>1. p = -e
      OBVIOUS
    <2>. HIDE DEF p, e
    <2>2. p \in Int /\ p * w = -(e * w) /\ e * w \in Int
      BY <1>2, <2>1
    <2>. QED
      BY <1>1, <1>2, <2>2
  <1>. HIDE DEF p, e
  <1>4. (p * w) \div pw = k
    BY <1>1, <1>3, FloorIsUnique
  <1>5. p >= 0
    <2>1. ASSUME p <= -1 PROVE FALSE
      <3>1. p * w <= -w
        BY <1>1, <1>3, <2>1
      <3>. QED
        BY <1>1, <1>3, <3>1
    <2>. QED
      BY <1>3, <2>1
  <1>6. p <= pw - 1
    <2>1. ASSUME p >= pw PROVE FALSE
      <3>1. p * w >= pw * w
        BY <1>1, <1>3, <2>1
      <3>2. k * pw <= (w - 1) * pw
        BY <1>1
      <3>3. (w - 1) * pw = w * pw - pw /\ w * pw \in Int /\ pw * w = w * pw
        OBVIOUS
      <3>. QED
        BY <1>1, <1>3, <3>1, <3>2, <3>3
    <2>. QED
      BY <1>3, <2>1
  <1>. QED
    BY <1>3, <1>4, <1>5, <1>6

\* At scale 1/1 the physical rectangle is the logical one.
LEMMA ScaleOneChangesNothing ==
    ASSUME NEW r \in Rect, RectIsValid(r), NEW s, s = [numerator |-> 1, denominator |-> 1]
    PROVE  LogicalRectToPhysical(r, s) = {r}
  <1>1. ScaleIsValid(s) /\ s.numerator = 1 /\ s.denominator = 1
    BY DEF ScaleIsValid
  <1>2. ASSUME NEW v \in Int
        PROVE  v \div 1 = v /\ v % 1 = 0 /\ v * 1 = v /\ 0 * 1 = 0 /\ 0 \div 1 = 0 /\ 0 % 1 = 0 /\ v + 0 = v
    OBVIOUS
  <1>3. ASSUME NEW v \in I64 PROVE ScaledFloor(v, s) = {v}
    <2>1. v \in Int
      BY MaxIntAssumption DEF I64, MaxWide
    <2>. QED
      BY <1>1, <1>2, <1>3, <2>1 DEF ScaledFloor
  <1>4. ASSUME NEW v \in I64 PROVE ScaledCeil(v, s) = {v}
    <2>1. v \in Int
      BY MaxIntAssumption DEF I64, MaxWide
    <2>2. ~WasFractional(v, s)
      BY <1>1, <1>2, <2>1 DEF WasFractional
    <2>. QED
      BY <1>3, <2>2 DEF ScaledCeil
  <1>5. \A v \in -(MaxInt + 1) .. 2 * MaxInt : v \in I64
    <2>1. MaxInt * MaxInt >= 0 /\ MaxInt \in Nat
      BY MaxIntAssumption
    <2>. DEFINE M == MaxInt * MaxInt
    <2>2. MaxWide = 2 * M + 4 * MaxInt + 1
      BY <2>1 DEF MaxWide
    <2>3. M \in Nat
      BY <2>1
    <2>. HIDE DEF M
    <2>. QED
      BY <2>1, <2>2, <2>3 DEF I64
  <1>6. /\ r.x \in I64 /\ r.y \in I64 /\ RectRight(r) \in I64 /\ RectBottom(r) \in I64
        /\ RectRight(r) - r.x = r.w /\ RectBottom(r) - r.y = r.h
        /\ r = [x |-> r.x, y |-> r.y, w |-> r.w, h |-> r.h]
    BY <1>5, MaxIntAssumption DEF Rect, I32, RectRight, RectBottom, RectIsValid
  <1>. QED
    BY <1>1, <1>3, <1>4, <1>6 DEF LogicalRectToPhysical
=============================================================================
