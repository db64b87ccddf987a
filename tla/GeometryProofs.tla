--------------------------- MODULE GeometryProofs ---------------------------
(***************************************************************************)
(* The properties of the GeometryCheck runs for every set of rectangles,   *)
(* scales and points.                                                      *)
(***************************************************************************)
EXTENDS GeometryCheck, GeometryLemmas

\* A call is between members of the constant sets.
LEMMA CallTypeInvariant == Spec => []CallTypeOK
  <1>1. Init => CallTypeOK
    BY DEF Init, CallTypeOK
  <1>2. CallTypeOK /\ [Next]_call => CallTypeOK'
    BY DEF CallTypeOK, Next, CallRegion, CallScale, Return
  <1>. QED
    BY <1>1, <1>2, PTL DEF Spec

\* Every call of the scale functions keeps sides: TLC shows it for 4-bit
\* integers and nine scales, this for all of them.
THEOREM InverseKeepsSidesAlways == Spec => []InverseKeepsSides
  <1>1. CallTypeOK => InverseKeepsSides
    <2>1. SUFFICES ASSUME CallTypeOK, call.kind = "scale",
                          NEW physical \in LogicalRectToPhysical(call.fragment, call.scale),
                          NEW p \in Points,
                          NEW l \in PhysicalFragmentLocalToLogical(call.fragment, call.scale, p)
                   PROVE  /\ (p.x \in 0 .. physical.w - 1) <=> (l.x \in 0 .. call.fragment.w - 1)
                          /\ (p.y \in 0 .. physical.h - 1) <=> (l.y \in 0 .. call.fragment.h - 1)
      BY DEF InverseKeepsSides
    <2>2. call.fragment \in Fragments /\ call.scale \in Scales
      BY <2>1 DEF CallTypeOK, Idle
    <2>3. call.fragment \in Rect /\ call.scale \in Scale /\ p \in Point
      BY <2>2, RectsAssumption, ScalesAssumption, PointsAssumption
    <2>. QED
      BY <2>1, <2>3, InverseKeepsSidesOfFragment
  <1>. QED
    BY <1>1, CallTypeInvariant, PTL
-----------------------------------------------------------------------------
(* Regions as sets of pixels.                                              *)

\* What it is to be a pixel of a rectangle.
LEMMA PixelOf ==
    ASSUME NEW r \in Rect, NEW g
    PROVE  g \in Pixels(r) <=>
              \E x, y \in Int : /\ g = [x |-> x, y |-> y]
                                /\ r.x <= x /\ x < r.x + r.w
                                /\ r.y <= y /\ y < r.y + r.h
  BY MaxIntAssumption DEF Pixels, Rect, I32

\* rect_intersect returns the rectangle of the shared pixels, if there are any.
LEMMA IntersectionIsTheSharedPixels ==
    ASSUME NEW a \in Rect, NEW b \in Rect
    PROVE  /\ RectIntersect(a, b) = {} => Pixels(a) \cap Pixels(b) = {}
           /\ \A i \in RectIntersect(a, b) :
                 i \in Rect /\ Pixels(i) # {} /\ Pixels(i) = Pixels(a) \cap Pixels(b)
  <1>1. ASSUME RectIntersect(a, b) = {}, NEW g \in Pixels(a) \cap Pixels(b)
        PROVE  FALSE
    <2>1. PICK x, y \in Int : /\ g = [x |-> x, y |-> y]
                              /\ a.x <= x /\ x < a.x + a.w
                              /\ a.y <= y /\ y < a.y + a.h
      BY <1>1, PixelOf
    <2>2. PICK u, v \in Int : /\ g = [x |-> u, y |-> v]
                              /\ b.x <= u /\ u < b.x + b.w
                              /\ b.y <= v /\ v < b.y + b.h
      BY <1>1, PixelOf
    <2>3. x = u /\ y = v
      BY <2>1, <2>2
    <2>4. /\ a.x \in Int /\ a.y \in Int /\ a.w \in Int /\ a.h \in Int
          /\ b.x \in Int /\ b.y \in Int /\ b.w \in Int /\ b.h \in Int
      BY MaxIntAssumption DEF Rect, I32
    <2>5. /\ RectIsValid(a) /\ ~RectIsEmpty(a)
          /\ RectIsValid(b) /\ ~RectIsEmpty(b)
      BY <2>1, <2>2, <2>4 DEF RectIsValid, RectIsEmpty
    <2>6. /\ Larger(a.x, b.x) < Smaller(RectRight(a), RectRight(b))
          /\ Larger(a.y, b.y) < Smaller(RectBottom(a), RectBottom(b))
      BY <2>1, <2>2, <2>3, <2>4 DEF RectRight, RectBottom, Larger, Smaller
    <2>7. RectIntersect(a, b) # {}
      BY <2>5, <2>6 DEF RectIntersect
    <2>. QED
      BY <1>1, <2>7
  <1>2. ASSUME NEW i \in RectIntersect(a, b)
        PROVE  i \in Rect /\ Pixels(i) # {} /\ Pixels(i) = Pixels(a) \cap Pixels(b)
    <2>1. i \in Rect /\ RectIsValid(i) /\ ~RectIsEmpty(i)
      BY IntersectionIsInBoth
    <2>2. [x |-> i.x, y |-> i.y] \in Pixels(i)
      BY <2>1, PixelOf, MaxIntAssumption DEF RectIsValid, RectIsEmpty, Rect, I32
    <2>3. /\ i.x = Larger(a.x, b.x)
          /\ i.y = Larger(a.y, b.y)
          /\ i.x + i.w = Smaller(RectRight(a), RectRight(b))
          /\ i.y + i.h = Smaller(RectBottom(a), RectBottom(b))
      BY MaxIntAssumption
         DEF RectIntersect, RectRight, RectBottom, Larger, Smaller, Rect, I32
    <2>4. ASSUME NEW x \in Int, NEW y \in Int
          PROVE  (i.x <= x /\ x < i.x + i.w /\ i.y <= y /\ y < i.y + i.h) <=>
                 (/\ a.x <= x /\ x < a.x + a.w /\ a.y <= y /\ y < a.y + a.h
                  /\ b.x <= x /\ x < b.x + b.w /\ b.y <= y /\ y < b.y + b.h)
      BY <2>3, MaxIntAssumption DEF RectRight, RectBottom, Larger, Smaller, Rect, I32
    <2>5. ASSUME NEW g
          PROVE  g \in Pixels(i) <=> g \in Pixels(a) /\ g \in Pixels(b)
      <3>1. ASSUME g \in Pixels(i) PROVE g \in Pixels(a) /\ g \in Pixels(b)
        BY <3>1, <2>1, <2>4, PixelOf
      <3>2. ASSUME g \in Pixels(a), g \in Pixels(b) PROVE g \in Pixels(i)
        <4>1. PICK x, y \in Int : /\ g = [x |-> x, y |-> y]
                                  /\ a.x <= x /\ x < a.x + a.w
                                  /\ a.y <= y /\ y < a.y + a.h
          BY <3>2, PixelOf
        <4>2. PICK u, v \in Int : /\ g = [x |-> u, y |-> v]
                                  /\ b.x <= u /\ u < b.x + b.w
                                  /\ b.y <= v /\ v < b.y + b.h
          BY <3>2, PixelOf
        <4>3. x = u /\ y = v
          BY <4>1, <4>2
        <4>. QED
          BY <4>1, <4>2, <4>3, <2>1, <2>4, PixelOf
      <3>. QED
        BY <3>1, <3>2
    <2>. QED
      BY <2>1, <2>2, <2>5
  <1>. QED
    BY <1>1, <1>2

\* The pixels of a rectangle, seen from a point, are those of the rectangle
\* shifted by it.
LEMMA PixelsShift ==
    ASSUME NEW i \in Rect, NEW s \in Rect, NEW origin \in [x : Int, y : Int, w : Int, h : Int],
           s.x = i.x - origin.x, s.y = i.y - origin.y, s.w = i.w, s.h = i.h
    PROVE  Pixels(s) = {Relative(g, origin) : g \in Pixels(i)}
  <1>1. ASSUME NEW p \in Pixels(s) PROVE \E g \in Pixels(i) : p = Relative(g, origin)
    <2>1. PICK x, y \in Int : /\ p = [x |-> x, y |-> y]
                              /\ s.x <= x /\ x < s.x + s.w
                              /\ s.y <= y /\ y < s.y + s.h
      BY PixelOf
    <2>2. [x |-> x + origin.x, y |-> y + origin.y] \in Pixels(i)
      BY <2>1, PixelOf, MaxIntAssumption DEF Rect, I32
    <2>3. p = Relative([x |-> x + origin.x, y |-> y + origin.y], origin)
      BY <2>1 DEF Relative
    <2>. QED
      BY <2>2, <2>3
  <1>2. ASSUME NEW g \in Pixels(i) PROVE Relative(g, origin) \in Pixels(s)
    <2>1. PICK x, y \in Int : /\ g = [x |-> x, y |-> y]
                              /\ i.x <= x /\ x < i.x + i.w
                              /\ i.y <= y /\ y < i.y + i.h
      BY PixelOf
    <2>2. Relative(g, origin) = [x |-> x - origin.x, y |-> y - origin.y]
      BY <2>1 DEF Relative
    <2>. QED
      BY <2>1, <2>2, PixelOf, MaxIntAssumption DEF Rect, I32
  <1>. QED
    BY <1>1, <1>2

\* The region of a window on an output is, on either side, the set of the
\* pixels both share: for every rectangle of 32-bit fields, invalid and
\* touching ones included.
THEOREM RegionIsTheSharedPixelsAlways == Spec => []RegionIsTheSharedPixels
  <1>1. CallTypeOK => RegionIsTheSharedPixels
    <2>. SUFFICES ASSUME CallTypeOK, call.kind = "region" PROVE RegionIsTheSharedPixels
      BY DEF RegionIsTheSharedPixels
    <2>. DEFINE w == call.window
                o == call.output
    <2>1. w \in Rect /\ o \in Rect
      BY RectsAssumption DEF CallTypeOK, Idle
    <2>2. (WindowRegionOnOutput(w, o) = {}) <=> (SharedPixels = {})
      <3>1. (WindowRegionOnOutput(w, o) = {}) <=> (RectIntersect(w, o) = {})
        BY DEF WindowRegionOnOutput
      <3>2. (RectIntersect(w, o) = {}) <=> (SharedPixels = {})
        BY <2>1, IntersectionIsTheSharedPixels DEF SharedPixels
      <3>. QED
        BY <3>1, <3>2
    <2>3. ASSUME NEW r \in WindowRegionOnOutput(w, o)
          PROVE  /\ r.source \in Rect /\ r.destination \in Rect
                 /\ Pixels(r.source) = {Relative(g, w) : g \in SharedPixels}
                 /\ Pixels(r.destination) = {Relative(g, o) : g \in SharedPixels}
      <3>1. PICK i \in RectIntersect(w, o) :
               r = [source      |-> [x |-> i.x - w.x, y |-> i.y - w.y, w |-> i.w, h |-> i.h],
                    destination |-> [x |-> i.x - o.x, y |-> i.y - o.y, w |-> i.w, h |-> i.h]]
        BY DEF WindowRegionOnOutput
      <3>2. i \in Rect /\ Pixels(i) = SharedPixels
        BY <2>1, IntersectionIsTheSharedPixels DEF SharedPixels
      <3>3. r.source \in Rect /\ r.destination \in Rect
        BY <2>1, RegionIsSound
      <3>4. /\ w \in [x : Int, y : Int, w : Int, h : Int]
            /\ o \in [x : Int, y : Int, w : Int, h : Int]
        BY <2>1, MaxIntAssumption DEF Rect, I32
      <3>5. Pixels(r.source) = {Relative(g, w) : g \in Pixels(i)}
        BY <3>1, <3>2, <3>3, <3>4, PixelsShift
      <3>6. Pixels(r.destination) = {Relative(g, o) : g \in Pixels(i)}
        BY <3>1, <3>2, <3>3, <3>4, PixelsShift
      <3>. QED
        BY <3>2, <3>3, <3>5, <3>6
    <2>. QED
      BY <2>2, <2>3 DEF RegionIsTheSharedPixels
  <1>. QED
    BY <1>1, CallTypeInvariant, PTL
-----------------------------------------------------------------------------
(* The pointer.                                                            *)

\* A point of an output reaches the surface exactly where the window shows
\* there, and only where the global point is a 32-bit one.
LEMMA PointerOnTheOutput ==
    ASSUME NEW w \in Rect, NEW o \in Rect, NEW p \in Point,
           NEW r \in WindowRegionOnOutput(w, o),
           NEW i \in RectIntersect(w, o),
           r = [source      |-> [x |-> i.x - w.x, y |-> i.y - w.y, w |-> i.w, h |-> i.h],
                destination |-> [x |-> i.x - o.x, y |-> i.y - o.y, w |-> i.w, h |-> i.h]]
    PROVE  IF RectContainsPoint(i, [x |-> o.x + p.x, y |-> o.y + p.y])
                 /\ [x |-> o.x + p.x, y |-> o.y + p.y] \in Point
           THEN /\ RectContainsPoint(r.destination, p)
                /\ LocalToGlobal(o, p) = {[x |-> o.x + p.x, y |-> o.y + p.y]}
                /\ GlobalToLocal(w, [x |-> o.x + p.x, y |-> o.y + p.y]) =
                      {Relative([x |-> o.x + p.x, y |-> o.y + p.y], w)}
           ELSE ~RectContainsPoint(r.destination, p) \/ LocalToGlobal(o, p) = {}
  <1>. DEFINE g == [x |-> o.x + p.x, y |-> o.y + p.y]
  <1>1. /\ i \in Rect /\ RectIsValid(i) /\ ~RectIsEmpty(i)
        /\ w.x <= i.x /\ RectRight(i) <= RectRight(w)
        /\ w.y <= i.y /\ RectBottom(i) <= RectBottom(w)
        /\ o.x <= i.x /\ RectRight(i) <= RectRight(o)
        /\ o.y <= i.y /\ RectBottom(i) <= RectBottom(o)
    BY IntersectionIsInBoth
  <1>2. /\ w.x \in Int /\ w.y \in Int /\ w.w \in Int /\ w.h \in Int
        /\ o.x \in Int /\ o.y \in Int /\ o.w \in Int /\ o.h \in Int
        /\ i.x \in Int /\ i.y \in Int /\ i.w \in Int /\ i.h \in Int
        /\ p.x \in Int /\ p.y \in Int /\ i.w > 0 /\ i.h > 0
    BY <1>1, MaxIntAssumption DEF Rect, Point, I32, RectIsValid, RectIsEmpty
  <1>3. RectContainsPoint(r.destination, p) <=> RectContainsPoint(i, g)
    BY <1>2 DEF RectContainsPoint, RectIsValid, RectIsEmpty, RectRight, RectBottom
  <1>4. ASSUME RectContainsPoint(i, g)
        PROVE  /\ RectContainsPoint([x |-> 0, y |-> 0, w |-> o.w, h |-> o.h], p)
               /\ RectContainsPoint(w, g)
               /\ RectIsValid(o)
    BY <1>1, <1>2, <1>4 DEF RectContainsPoint, RectIsValid, RectIsEmpty, RectRight, RectBottom
  <1>5. CASE RectContainsPoint(i, g) /\ g \in Point
    <2>1. FitsI32(o.x + p.x) /\ FitsI32(o.y + p.y)
      BY <1>5 DEF Point, FitsI32
    <2>2. LocalToGlobal(o, p) = {g}
      BY <1>4, <1>5, <2>1 DEF LocalToGlobal, OutputLocalPointToGlobal
    <2>3. GlobalToLocal(w, g) = {Relative(g, w)}
      BY <1>4, <1>5 DEF GlobalToLocal, Relative
    <2>. QED
      BY <1>3, <1>5, <2>2, <2>3
  <1>6. CASE ~(RectContainsPoint(i, g) /\ g \in Point)
    <2>1. ASSUME RectContainsPoint(i, g) PROVE LocalToGlobal(o, p) = {}
      <3>1. ~(FitsI32(o.x + p.x) /\ FitsI32(o.y + p.y))
        BY <1>6, <2>1 DEF Point, FitsI32
      <3>. QED
        BY <3>1 DEF LocalToGlobal, OutputLocalPointToGlobal
    <2>. QED
      BY <1>3, <1>6, <2>1
  <1>. QED
    BY <1>5, <1>6

\* A point inside a presented source rectangle.
LEMMA PointerInTheFragment ==
    ASSUME NEW s \in Rect, NEW p \in Point, s.w > 0, s.h > 0, s.x >= 0, s.y >= 0,
           NEW limit \in Rect, RectRight(s) <= limit.w, RectBottom(s) <= limit.h
    PROVE  /\ {q \in Pixels(s) : Relative(q, s) = p} =
                 IF RectContainsPoint([s EXCEPT !.x = 0, !.y = 0], p)
                 THEN {[x |-> s.x + p.x, y |-> s.y + p.y]} ELSE {}
           /\ PresentedFragmentToSurfaceLocal(s, p) =
                 IF RectContainsPoint([s EXCEPT !.x = 0, !.y = 0], p)
                 THEN {[x |-> s.x + p.x, y |-> s.y + p.y]} ELSE {}
  <1>. DEFINE q == [x |-> s.x + p.x, y |-> s.y + p.y]
              local == [x |-> 0, y |-> 0, w |-> s.w, h |-> s.h]
  <1>1. /\ s.x \in Int /\ s.y \in Int /\ s.w \in Int /\ s.h \in Int
        /\ p.x \in Int /\ p.y \in Int
        /\ limit.w <= MaxInt /\ limit.h <= MaxInt
        /\ limit.w \in Int /\ limit.h \in Int
    BY MaxIntAssumption DEF Rect, Point, I32
  <1>2. local = [s EXCEPT !.x = 0, !.y = 0]
    <2>1. [s EXCEPT !.x = 0, !.y = 0] = [[s EXCEPT !.x = 0] EXCEPT !.y = 0]
      OBVIOUS
    <2>2. PICK a : a = [s EXCEPT !.x = 0]
      OBVIOUS
    <2>3. a = [x |-> 0, y |-> s.y, w |-> s.w, h |-> s.h]
      BY <2>2 DEF Rect
    <2>4. [a EXCEPT !.y = 0] = local
      BY <2>3
    <2>. QED
      BY <2>1, <2>2, <2>4
  <1>3. RectContainsPoint(local, p) <=>
           (0 <= p.x /\ p.x < s.w /\ 0 <= p.y /\ p.y < s.h)
    BY <1>1 DEF RectContainsPoint, RectIsValid, RectIsEmpty, RectRight, RectBottom
  <1>4. ASSUME RectContainsPoint(local, p)
        PROVE  q \in Pixels(s) /\ Relative(q, s) = p
    <2>1. q \in Pixels(s)
      BY <1>1, <1>3, <1>4, PixelOf
    <2>2. Relative(q, s) = [x |-> p.x, y |-> p.y]
      BY <1>1 DEF Relative
    <2>. QED
      BY <2>1, <2>2 DEF Point
  <1>5. ASSUME NEW c \in Pixels(s), Relative(c, s) = p
        PROVE  RectContainsPoint(local, p) /\ c = q
    <2>1. PICK x, y \in Int : /\ c = [x |-> x, y |-> y]
                              /\ s.x <= x /\ x < s.x + s.w
                              /\ s.y <= y /\ y < s.y + s.h
      BY PixelOf
    <2>2. p.x = x - s.x /\ p.y = y - s.y
      BY <1>5, <2>1 DEF Relative
    <2>. QED
      BY <1>1, <1>3, <2>1, <2>2
  <1>6. ASSUME RectContainsPoint(local, p)
        PROVE  FitsI32(s.x + p.x) /\ FitsI32(s.y + p.y)
    BY <1>1, <1>3, <1>6, MaxIntAssumption DEF FitsI32, I32, RectRight, RectBottom
  <1>7. PresentedFragmentToSurfaceLocal(s, p) =
           IF RectContainsPoint(local, p) THEN {q} ELSE {}
    BY <1>1, <1>6 DEF PresentedFragmentToSurfaceLocal, RectIsValid
  <1>8. {c \in Pixels(s) : Relative(c, s) = p} =
           IF RectContainsPoint(local, p) THEN {q} ELSE {}
    <2>. HIDE DEF q, local
    <2>1. CASE RectContainsPoint(local, p)
      <3>1. \A c \in Pixels(s) : (Relative(c, s) = p) <=> (c = q)
        BY <1>4, <1>5, <2>1
      <3>. QED
        BY <1>4, <2>1, <3>1
    <2>2. CASE ~RectContainsPoint(local, p)
      BY <1>5, <2>2
    <2>. QED
      BY <2>1, <2>2
  <1>. QED
    BY <1>2, <1>7, <1>8

\* Input routing is the inverse of presentation, for every window, output and
\* point.
THEOREM PointerReachesThePresentedPixelAlways ==
    Spec => []PointerReachesThePresentedPixel
  <1>1. CallTypeOK => PointerReachesThePresentedPixel
    <2>. SUFFICES ASSUME CallTypeOK, call.kind = "region", NEW p \in Points
         PROVE
            /\ RemotePointerToSurfaceLocal(call.window, call.output, p) =
                  {Relative(g, call.window) :
                      g \in {g \in SharedPixels : g \in Point /\ Relative(g, call.output) = p}}
            /\ \A r \in WindowRegionOnOutput(call.window, call.output) :
                  /\ RemoteWindowPointerToSurfaceLocal(call.window, call.output, p) =
                        {s \in Pixels(r.source) : Relative(s, r.source) = p}
                  /\ PresentedFragmentToSurfaceLocal(r.source, p) =
                        RemoteWindowPointerToSurfaceLocal(call.window, call.output, p)
      BY DEF PointerReachesThePresentedPixel
    <2>. DEFINE w == call.window
                o == call.output
                Hits == {g \in SharedPixels : g \in Point /\ Relative(g, o) = p}
                Global == [x |-> o.x + p.x, y |-> o.y + p.y]
                Fragment(i) ==
                   [source      |-> [x |-> i.x - w.x, y |-> i.y - w.y, w |-> i.w, h |-> i.h],
                    destination |-> [x |-> i.x - o.x, y |-> i.y - o.y, w |-> i.w, h |-> i.h]]
    <2>1. w \in Rect /\ o \in Rect /\ p \in Point
      BY RectsAssumption, PointsAssumption DEF CallTypeOK, Idle
    <2>2. CASE RectIntersect(w, o) = {}
      <3>1. WindowRegionOnOutput(w, o) = {} /\ SharedPixels = {}
        BY <2>1, <2>2, IntersectionIsTheSharedPixels DEF WindowRegionOnOutput, SharedPixels
      <3>. QED
        BY <3>1 DEF RemotePointerToSurfaceLocal
    <2>3. ASSUME NEW i \in RectIntersect(w, o)
          PROVE  /\ RemotePointerToSurfaceLocal(w, o, p) = {Relative(g, w) : g \in Hits}
                 /\ \A r \in WindowRegionOnOutput(w, o) :
                       /\ RemoteWindowPointerToSurfaceLocal(w, o, p) =
                             {s \in Pixels(r.source) : Relative(s, r.source) = p}
                       /\ PresentedFragmentToSurfaceLocal(r.source, p) =
                             RemoteWindowPointerToSurfaceLocal(w, o, p)
      <3>1. RectIntersect(w, o) = {i}
        BY <2>3 DEF RectIntersect
      <3>2. WindowRegionOnOutput(w, o) = {Fragment(i)}
        BY <3>1 DEF WindowRegionOnOutput
      <3>3. i \in Rect /\ Pixels(i) = SharedPixels
        BY <2>1, IntersectionIsTheSharedPixels DEF SharedPixels
      <3>4. \A g : g \in Hits <=>
               g = Global /\ Global \in Point /\ RectContainsPoint(i, Global)
        <4>1. /\ i.x \in Int /\ i.y \in Int /\ i.w \in Int /\ i.h \in Int
              /\ o.x \in Int /\ o.y \in Int /\ p.x \in Int /\ p.y \in Int
          BY <2>1, <3>3, MaxIntAssumption DEF Rect, Point, I32
        <4>2. Global \in Pixels(i) <=> RectContainsPoint(i, Global)
          <5>1. RectContainsPoint(i, Global) <=>
                   (/\ i.x <= o.x + p.x /\ o.x + p.x < i.x + i.w
                    /\ i.y <= o.y + p.y /\ o.y + p.y < i.y + i.h)
            BY <4>1 DEF RectContainsPoint, RectIsValid, RectIsEmpty, RectRight, RectBottom
          <5>2. Global \in Pixels(i) <=>
                   (/\ i.x <= o.x + p.x /\ o.x + p.x < i.x + i.w
                    /\ i.y <= o.y + p.y /\ o.y + p.y < i.y + i.h)
            BY <3>3, <4>1, PixelOf
          <5>. QED
            BY <5>1, <5>2
        <4>3. Relative(Global, o) = p
          <5>1. Relative(Global, o) = [x |-> p.x, y |-> p.y]
            BY <4>1 DEF Relative
          <5>. QED
            BY <5>1, <2>1 DEF Point
        <4>4. ASSUME NEW g \in Pixels(i), Relative(g, o) = p PROVE g = Global
          <5>1. PICK x, y \in Int : g = [x |-> x, y |-> y]
            BY <3>3, PixelOf
          <5>2. p.x = x - o.x /\ p.y = y - o.y
            BY <4>4, <5>1 DEF Relative
          <5>. QED
            BY <4>1, <5>1, <5>2
        <4>. QED
          BY <3>3, <4>2, <4>3, <4>4
      <3>5. RemotePointerToSurfaceLocal(w, o, p) = {Relative(g, w) : g \in Hits}
        <4>1. RemotePointerToSurfaceLocal(w, o, p) =
                 IF RectContainsPoint(Fragment(i).destination, p)
                 THEN UNION {GlobalToLocal(w, g) : g \in LocalToGlobal(o, p)} ELSE {}
          BY <3>2 DEF RemotePointerToSurfaceLocal
        <4>2. CASE RectContainsPoint(i, Global) /\ Global \in Point
          <5>1. /\ RectContainsPoint(Fragment(i).destination, p)
                /\ LocalToGlobal(o, p) = {Global}
                /\ GlobalToLocal(w, Global) = {Relative(Global, w)}
            BY <2>1, <3>2, <4>2, PointerOnTheOutput
          <5>2. Hits = {Global}
            BY <3>4, <4>2
          <5>. QED
            BY <4>1, <5>1, <5>2
        <4>3. CASE ~(RectContainsPoint(i, Global) /\ Global \in Point)
          <5>1. ~RectContainsPoint(Fragment(i).destination, p) \/ LocalToGlobal(o, p) = {}
            BY <2>1, <3>2, <4>3, PointerOnTheOutput
          <5>2. Hits = {}
            BY <3>4, <4>3
          <5>. QED
            BY <4>1, <5>1, <5>2
        <4>. QED
          BY <4>2, <4>3
      <3>6. ASSUME NEW r \in WindowRegionOnOutput(w, o)
            PROVE  /\ RemoteWindowPointerToSurfaceLocal(w, o, p) =
                         {s \in Pixels(r.source) : Relative(s, r.source) = p}
                   /\ PresentedFragmentToSurfaceLocal(r.source, p) =
                         RemoteWindowPointerToSurfaceLocal(w, o, p)
        <4>1. WindowRegionOnOutput(w, o) = {r}
          BY <3>2
        <4>2. RemoteWindowPointerToSurfaceLocal(w, o, p) =
                 IF RectContainsPoint([r.source EXCEPT !.x = 0, !.y = 0], p)
                 THEN {[x |-> r.source.x + p.x, y |-> r.source.y + p.y]} ELSE {}
          BY <4>1 DEF RemoteWindowPointerToSurfaceLocal
        <4>3. /\ r.source \in Rect /\ r.source.w > 0 /\ r.source.h > 0
              /\ r.source.x >= 0 /\ RectRight(r.source) <= w.w
              /\ r.source.y >= 0 /\ RectBottom(r.source) <= w.h
          BY <2>1, RegionIsSound
        <4>. QED
          BY <2>1, <4>2, <4>3, PointerInTheFragment
      <3>. QED
        BY <3>5, <3>6
    <2>. QED
      BY <2>2, <2>3
  <1>. QED
    BY <1>1, CallTypeInvariant, PTL
-----------------------------------------------------------------------------
(* Logical and physical pixels.                                            *)

\* The columns that overlap a logical interval are those between the floor of
\* its start and the ceiling of its end.
LEMMA CoverOfInterval ==
    ASSUME NEW from \in Int, NEW to \in Int, NEW s \in Scale, ScaleIsValid(s),
           ExactFloor(from, s) >= -(MaxInt + 2), ExactCeil(to, s) <= 2 * MaxInt + 3
    PROVE  PhysicalCover(from, to, s) = ExactFloor(from, s) .. ExactCeil(to, s) - 1
  <1>. DEFINE n == s.numerator
              d == s.denominator
              a == ExactFloor(from, s)
              c == ExactCeil(to, s)
  <1>1. n \in Nat /\ d \in Nat /\ n > 0 /\ d > 0
    BY MaxIntAssumption DEF Scale, U32, ScaleIsValid
  <1>2. /\ a \in Int /\ a * d <= from * n /\ from * n < a * d + d
        /\ c \in Int /\ (c - 1) * d < to * n /\ to * n <= c * d
    BY ExactBounds
  <1>3. PhysicalCover(from, to, s) =
           {px \in -(MaxInt + 2) .. 2 * MaxInt + 2 :
               (px + 1) * d > from * n /\ px * d < to * n}
    BY DEF PhysicalCover
  <1>. HIDE DEF n, d, a, c
  <1>4. from * n \in Int /\ to * n \in Int /\ a * d \in Int /\ c * d \in Int
    BY <1>1, <1>2
  <1>5. ASSUME NEW px \in Int
        PROVE  /\ (px + 1) * d > from * n <=> a <= px
               /\ px * d < to * n <=> px <= c - 1
    <2>1. (px + 1) * d = px * d + d /\ px * d \in Int /\ (a + 1) * d = a * d + d
      BY <1>1, <1>2
    <2>2. ASSUME a <= px PROVE (px + 1) * d > from * n
      <3>1. (a + 1) * d <= (px + 1) * d
        BY <1>1, <1>2, <2>2
      <3>. QED
        BY <1>1, <1>2, <1>4, <2>1, <3>1
    <2>3. ASSUME px < a PROVE (px + 1) * d <= from * n
      <3>1. (px + 1) * d <= a * d
        BY <1>1, <1>2, <2>3
      <3>. QED
        BY <1>1, <1>2, <1>4, <2>1, <3>1
    <2>4. ASSUME px <= c - 1 PROVE px * d < to * n
      <3>1. px * d <= (c - 1) * d
        BY <1>1, <1>2, <2>4
      <3>2. (c - 1) * d \in Int
        BY <1>1, <1>2
      <3>. QED
        BY <1>2, <1>4, <2>1, <3>1, <3>2
    <2>5. ASSUME px >= c PROVE px * d >= to * n
      <3>1. c * d <= px * d
        BY <1>1, <1>2, <2>5
      <3>. QED
        BY <1>2, <1>4, <2>1, <3>1
    <2>. QED
      BY <1>1, <1>2, <1>4, <2>1, <2>2, <2>3, <2>4, <2>5
  <1>6. ASSUME NEW px
        PROVE  px \in PhysicalCover(from, to, s) <=> px \in a .. c - 1
    <2>1. px \in PhysicalCover(from, to, s) <=>
             px \in -(MaxInt + 2) .. 2 * MaxInt + 2 /\ a <= px /\ px <= c - 1
      BY <1>3, <1>5, MaxIntAssumption
    <2>2. a >= -(MaxInt + 2) /\ c <= 2 * MaxInt + 3
      BY DEF a, c
    <2>. QED
      BY <1>2, <2>1, <2>2, MaxIntAssumption
  <1>. QED
    BY <1>6 DEF a, c

\* No logical area loses a physical pixel, at any 32-bit scale and for any
\* rectangle the library accepts.
THEOREM PhysicalRectIsTheCoverAlways == Spec => []PhysicalRectIsTheCover
  <1>1. CallTypeOK => PhysicalRectIsTheCover
    <2>. DEFINE r == call.fragment
                s == call.scale
    <2>1. SUFFICES ASSUME CallTypeOK, call.kind = "scale",
                          NEW p \in LogicalRectToPhysical(r, s)
                   PROVE  /\ p.x .. RectRight(p) - 1 = PhysicalCover(r.x, RectRight(r), s)
                          /\ p.y .. RectBottom(p) - 1 = PhysicalCover(r.y, RectBottom(r), s)
      BY DEF PhysicalRectIsTheCover
    <2>2. r \in Rect /\ s \in Scale
      BY <2>1, RectsAssumption, ScalesAssumption DEF CallTypeOK, Idle
    <2>. HIDE DEF r, s
    <2>3. /\ p \in Rect /\ ScaleIsValid(s)
          /\ p.x = ExactFloor(r.x, s) /\ p.y = ExactFloor(r.y, s)
          /\ p.w = ExactCeil(RectRight(r), s) - ExactFloor(r.x, s)
          /\ p.h = ExactCeil(RectBottom(r), s) - ExactFloor(r.y, s)
      BY <2>2, PhysicalRectIsExact
    <2>4. r.x \in Int /\ r.y \in Int /\ RectRight(r) \in Int /\ RectBottom(r) \in Int
      BY <2>2, MaxIntAssumption DEF Rect, I32, RectRight, RectBottom
    <2>5. /\ ExactFloor(r.x, s) \in Int /\ ExactCeil(RectRight(r), s) \in Int
          /\ ExactFloor(r.y, s) \in Int /\ ExactCeil(RectBottom(r), s) \in Int
      BY <2>2, <2>3, <2>4, ExactBounds
    <2>6. /\ ExactFloor(r.x, s) >= -(MaxInt + 2)
          /\ ExactCeil(RectRight(r), s) <= 2 * MaxInt + 3
          /\ ExactCeil(RectRight(r), s) = RectRight(p)
          /\ ExactFloor(r.y, s) >= -(MaxInt + 2)
          /\ ExactCeil(RectBottom(r), s) <= 2 * MaxInt + 3
          /\ ExactCeil(RectBottom(r), s) = RectBottom(p)
      BY <2>3, <2>5, MaxIntAssumption DEF Rect, I32, RectRight, RectBottom
    <2>. QED
      BY <2>2, <2>3, <2>4, <2>6, CoverOfInterval
  <1>. QED
    BY <1>1, CallTypeInvariant, PTL

\* Nothing but the size of the result is ever a reason to refuse a rectangle:
\* no intermediate of the 64-bit arithmetic overflows before it.
THEOREM RefusedExactlyOnOverflowAlways == Spec => []RefusedExactlyOnOverflow
  <1>1. CallTypeOK => RefusedExactlyOnOverflow
    <2>. DEFINE r == call.fragment
                s == call.scale
                left   == ExactFloor(r.x, s)
                top    == ExactFloor(r.y, s)
                right  == ExactCeil(RectRight(r), s)
                bottom == ExactCeil(RectBottom(r), s)
                Fits == FitsI32(left) /\ FitsI32(top)
                        /\ right - left <= MaxInt /\ bottom - top <= MaxInt
    <2>1. SUFFICES ASSUME CallTypeOK, call.kind = "scale", RectIsValid(r), ScaleIsValid(s)
                   PROVE  (LogicalRectToPhysical(r, s) # {}) <=> Fits
      BY DEF RefusedExactlyOnOverflow, ExactFloor, ExactCeil
    <2>2. r \in Rect /\ s \in Scale
      BY <2>1, RectsAssumption, ScalesAssumption DEF CallTypeOK, Idle
    <2>. HIDE DEF r, s
    <2>3. /\ r.x \in Int /\ r.y \in Int /\ RectRight(r) \in Int /\ RectBottom(r) \in Int
          /\ r.x <= RectRight(r) /\ r.y <= RectBottom(r)
      BY <2>1, <2>2, MaxIntAssumption DEF Rect, I32, RectRight, RectBottom, RectIsValid
    <2>4. left \in Int /\ top \in Int /\ right \in Int /\ bottom \in Int
      BY <2>1, <2>2, <2>3, ExactBounds
    <2>5. /\ left <= right /\ top <= bottom
          /\ left <= ExactFloor(RectRight(r), s) /\ top <= ExactFloor(RectBottom(r), s)
          /\ ExactFloor(RectRight(r), s) \in Int /\ ExactFloor(RectBottom(r), s) \in Int
      BY <2>1, <2>2, <2>3, EndsInOrder, ExactBounds
    <2>. HIDE DEF left, top, right, bottom
    <2>6. ASSUME NEW p \in LogicalRectToPhysical(r, s) PROVE Fits
      <3>1. /\ p \in Rect /\ p.x = left /\ p.y = top
            /\ p.w = right - left /\ p.h = bottom - top
        BY <2>2, PhysicalRectIsExact DEF left, top, right, bottom
      <3>2. left \in I32 /\ top \in I32 /\ right - left \in I32 /\ bottom - top \in I32
        BY <3>1 DEF Rect
      <3>. QED
        BY <3>2, MaxIntAssumption DEF FitsI32, I32
    <2>7. ASSUME Fits PROVE LogicalRectToPhysical(r, s) # {}
      <3>1. /\ left >= -(MaxInt + 1) /\ left <= MaxInt /\ right <= 2 * MaxInt
            /\ top >= -(MaxInt + 1) /\ top <= MaxInt /\ bottom <= 2 * MaxInt
        BY <2>4, <2>7, MaxIntAssumption DEF FitsI32, I32
      <3>2. left \in ScaledFloor(r.x, s) /\ top \in ScaledFloor(r.y, s)
        BY <2>1, <2>2, <2>3, <3>1, MaxIntAssumption, <2>4, SmallResultsAreFound DEF left, top
      <3>3. /\ ExactFloor(RectRight(r), s) >= -(MaxInt + 1)
            /\ ExactFloor(RectBottom(r), s) >= -(MaxInt + 1)
        BY <2>4, <2>5, <3>1, MaxIntAssumption
      <3>4. right \in ScaledCeil(RectRight(r), s) /\ bottom \in ScaledCeil(RectBottom(r), s)
        BY <2>1, <2>2, <2>3, <3>1, <3>3, SmallResultsAreFound DEF right, bottom
      <3>. DEFINE p == [x |-> left, y |-> top, w |-> right - left, h |-> bottom - top]
      <3>5. p \in Rect /\ RectIsValid(p)
        BY <2>4, <2>5, <2>7, MaxIntAssumption DEF Rect, RectIsValid, FitsI32, I32
      <3>6. p \in LogicalRectToPhysical(r, s)
        BY <2>1, <3>2, <3>4, <3>5 DEF LogicalRectToPhysical
      <3>. QED
        BY <3>6
    <2>. QED
      BY <2>6, <2>7
  <1>. QED
    BY <1>1, CallTypeInvariant, PTL

\* What the inverse returns, when it returns.
LEMMA InverseIsTheProportion ==
    ASSUME NEW fragment \in Rect, NEW s \in Scale, NEW local \in Point,
           NEW physical \in LogicalRectToPhysical(fragment, s)
    PROVE  /\ \A l \in PhysicalFragmentLocalToLogical(fragment, s, local) :
                 /\ physical.w \in Int /\ physical.w > 0 /\ fragment.w \in Nat
                 /\ physical.h \in Int /\ physical.h > 0 /\ fragment.h \in Nat
                 /\ l = [x |-> (local.x * fragment.w) \div physical.w,
                         y |-> (local.y * fragment.h) \div physical.h]
           /\ \A l \in Point :
                 (/\ ~RectIsEmpty(fragment) /\ ~RectIsEmpty(physical)
                  /\ l = [x |-> (local.x * fragment.w) \div physical.w,
                          y |-> (local.y * fragment.h) \div physical.h])
                    => l \in PhysicalFragmentLocalToLogical(fragment, s, local)
  <1>1. physical \in Rect /\ RectIsValid(physical) /\ RectIsValid(fragment)
    BY PhysicalRectIsExact
  <1>2. ASSUME NEW l \in PhysicalFragmentLocalToLogical(fragment, s, local)
        PROVE  /\ physical.w \in Int /\ physical.w > 0 /\ fragment.w \in Nat
               /\ physical.h \in Int /\ physical.h > 0 /\ fragment.h \in Nat
               /\ l = [x |-> (local.x * fragment.w) \div physical.w,
                       y |-> (local.y * fragment.h) \div physical.h]
    <2>1. PICK p \in LogicalRectToPhysical(fragment, s) :
             /\ ~RectIsEmpty(p)
             /\ l = [x |-> (local.x * fragment.w) \div p.w,
                     y |-> (local.y * fragment.h) \div p.h]
      BY <1>2 DEF PhysicalFragmentLocalToLogical
    <2>2. p = physical
      BY PhysicalRectIsUnique
    <2>. QED
      BY <1>1, <2>1, <2>2, MaxIntAssumption DEF Rect, I32, RectIsValid, RectIsEmpty
  <1>3. ASSUME NEW l \in Point, ~RectIsEmpty(fragment), ~RectIsEmpty(physical),
               l = [x |-> (local.x * fragment.w) \div physical.w,
                    y |-> (local.y * fragment.h) \div physical.h]
        PROVE  l \in PhysicalFragmentLocalToLogical(fragment, s, local)
    BY <1>1, <1>3, Zenon DEF PhysicalFragmentLocalToLogical
  <1>. QED
    BY <1>2, <1>3

\* Every logical column of a fragment shown at its size or larger is some
\* physical column's, and every physical column's is one of them.
LEMMA EveryColumnIsReached ==
    ASSUME NEW fragment \in Rect, NEW s \in Scale,
           NEW physical \in LogicalRectToPhysical(fragment, s),
           s.numerator >= s.denominator, ~RectIsEmpty(fragment)
    PROVE  0 .. fragment.w - 1 =
              {l.x : l \in UNION {PhysicalFragmentLocalToLogical(
                                      fragment, s, [x |-> px, y |-> 0])
                                    : px \in 0 .. physical.w - 1}}
  <1>. DEFINE At(px) == [x |-> px, y |-> 0]
              Found(px) == PhysicalFragmentLocalToLogical(fragment, s, At(px))
              w == fragment.w
              pw == physical.w
  <1>1. /\ physical \in Rect /\ ScaleIsValid(s) /\ RectIsValid(fragment)
        /\ pw = ExactCeil(RectRight(fragment), s) - ExactFloor(fragment.x, s)
        /\ physical.h = ExactCeil(RectBottom(fragment), s) - ExactFloor(fragment.y, s)
    BY PhysicalRectIsExact
  <1>2. /\ fragment.x \in Int /\ fragment.y \in Int
        /\ w \in Nat /\ w > 0 /\ w <= MaxInt /\ fragment.h \in Nat /\ fragment.h > 0
        /\ RectRight(fragment) \in Int /\ RectRight(fragment) - fragment.x = w
        /\ RectBottom(fragment) \in Int /\ RectBottom(fragment) - fragment.y = fragment.h
        /\ pw \in Int /\ pw <= MaxInt /\ physical.h \in Int
    BY <1>1, MaxIntAssumption DEF Rect, I32, RectIsValid, RectIsEmpty, RectRight, RectBottom
  <1>3. pw >= w /\ physical.h >= fragment.h
    BY <1>1, <1>2, EndsInOrder
  <1>4. ~RectIsEmpty(physical)
    BY <1>2, <1>3 DEF RectIsEmpty
  <1>5. ASSUME NEW px \in 0 .. pw - 1 PROVE At(px) \in Point
    BY <1>2, MaxIntAssumption DEF Point, I32
  <1>6. ASSUME NEW px \in 0 .. pw - 1, NEW l \in Found(px) PROVE l.x \in 0 .. w - 1
    <2>1. l.x = (px * w) \div pw
      BY <1>5, InverseIsTheProportion
    <2>. HIDE DEF w, pw
    <2>2. px \in Int /\ 0 <= px /\ px <= pw - 1 /\ pw > 0
      BY <1>2, <1>3
    <2>3. /\ (px * w) \div pw \in Int
          /\ (px * w) \div pw >= 0 /\ (px * w) \div pw <= w - 1
      BY <1>2, <2>2, ProportionKeepsSides
    <2>. QED
      BY <1>2, <2>1, <2>3
  <1>7. ASSUME NEW k \in 0 .. w - 1
        PROVE  \E px \in 0 .. pw - 1 : \E l \in Found(px) : l.x = k
    <2>1. PICK px \in 0 .. pw - 1 : (px * w) \div pw = k
      <3>. HIDE DEF w, pw
      <3>1. k \in Int /\ w \in Int /\ pw \in Int /\ 0 <= k /\ k < w /\ w <= pw
        BY <1>2, <1>3
      <3>. QED
        BY <3>1, ProportionIsOnto, Zenon
    <2>. DEFINE l == [x |-> k, y |-> 0]
    <2>2. (0 * fragment.h) \div physical.h = 0
      <3>1. 0 * fragment.h = 0
        BY <1>2
      <3>. QED
        BY <1>2, <1>3, <3>1, FloorIsUnique
    <2>3. l \in Point
      BY <1>2, MaxIntAssumption DEF Point, I32
    <2>4. l \in Found(px)
      BY <1>4, <1>5, <2>1, <2>2, <2>3, InverseIsTheProportion
    <2>. QED
      BY <2>4
  <1>. HIDE DEF Found, w, pw
  <1>8. {l.x : l \in UNION {Found(px) : px \in 0 .. pw - 1}} = 0 .. w - 1
    BY <1>6, <1>7
  <1>. QED
    BY <1>8 DEF Found, w, pw

\* Moving one way never moves the logical pointer the other, and no logical
\* column is out of reach, for every fragment, scale and pair of points.
THEOREM InverseIsMonotoneAndOntoAlways == Spec => []InverseIsMonotoneAndOnto
  <1>1. CallTypeOK => InverseIsMonotoneAndOnto
    <2>. SUFFICES ASSUME CallTypeOK, call.kind = "scale" PROVE InverseIsMonotoneAndOnto
      BY DEF InverseIsMonotoneAndOnto
    <2>. DEFINE r == call.fragment
                s == call.scale
    <2>1. r \in Rect /\ s \in Scale
      BY RectsAssumption, ScalesAssumption DEF CallTypeOK, Idle
    <2>. HIDE DEF r, s
    <2>2. ASSUME NEW p \in Points, NEW q \in Points,
                 NEW l \in PhysicalFragmentLocalToLogical(r, s, p),
                 NEW m \in PhysicalFragmentLocalToLogical(r, s, q)
          PROVE  (p.x <= q.x => l.x <= m.x) /\ (p.y <= q.y => l.y <= m.y)
      <3>1. p \in Point /\ q \in Point
        BY PointsAssumption
      <3>2. PICK physical \in LogicalRectToPhysical(r, s) : TRUE
        BY <2>2 DEF PhysicalFragmentLocalToLogical
      <3>3. /\ physical.w \in Int /\ physical.w > 0 /\ r.w \in Nat
            /\ physical.h \in Int /\ physical.h > 0 /\ r.h \in Nat
            /\ l.x = (p.x * r.w) \div physical.w /\ l.y = (p.y * r.h) \div physical.h
            /\ m.x = (q.x * r.w) \div physical.w /\ m.y = (q.y * r.h) \div physical.h
        BY <2>1, <2>2, <3>1, InverseIsTheProportion
      <3>4. p.x \in Int /\ p.y \in Int /\ q.x \in Int /\ q.y \in Int
        BY <3>1, MaxIntAssumption DEF Point, I32
      <3>5. ASSUME p.x <= q.x PROVE l.x <= m.x
        BY <3>3, <3>4, <3>5, ProportionIsMonotone
      <3>6. ASSUME p.y <= q.y PROVE l.y <= m.y
        BY <3>3, <3>4, <3>6, ProportionIsMonotone
      <3>. QED
        BY <3>5, <3>6
    <2>3. ASSUME NEW physical \in LogicalRectToPhysical(r, s),
                 s.numerator >= s.denominator, ~RectIsEmpty(r)
          PROVE  0 .. r.w - 1 =
                    {l.x : l \in UNION {PhysicalFragmentLocalToLogical(
                                            r, s, [x |-> px, y |-> 0])
                                          : px \in 0 .. physical.w - 1}}
      BY <2>1, <2>3, EveryColumnIsReached
    <2>. QED
      BY <2>2, <2>3 DEF InverseIsMonotoneAndOnto, r, s
  <1>. QED
    BY <1>1, CallTypeInvariant, PTL

=============================================================================
