--------------------------- MODULE GeometryCheck ----------------------------
(***************************************************************************)
(* Puts the operators of Geometry beside reference definitions: a          *)
(* rectangle is the set of its pixels, a scaled coordinate is the exact    *)
(* fraction.  A state is one call of the library: a window against an      *)
(* output, or a presented fragment at a scale.                             *)
(***************************************************************************)
EXTENDS Geometry

CONSTANTS
    Windows, Outputs,   \* the global rectangles of the region calls
    Fragments, Scales,  \* the logical rectangles and scales of the scale calls
    Points              \* the local points either call is probed with

ASSUME RectsAssumption   == Windows \cup Outputs \cup Fragments \subseteq Rect
ASSUME ScalesAssumption  == Scales \subseteq Scale
ASSUME PointsAssumption  == Points \subseteq Point

VARIABLE call

Idle == [kind |-> "idle"]

Init == call = Idle

CallRegion ==
    /\ call = Idle
    /\ \E w \in Windows, o \in Outputs :
          call' = [kind |-> "region", window |-> w, output |-> o]

CallScale ==
    /\ call = Idle
    /\ \E f \in Fragments, s \in Scales :
          call' = [kind |-> "scale", fragment |-> f, scale |-> s]

Return == call # Idle /\ call' = Idle

Next == CallRegion \/ CallScale \/ Return

Spec == Init /\ [][Next]_call

CallTypeOK ==
    call \in {Idle}
             \cup [kind : {"region"}, window : Windows, output : Outputs]
             \cup [kind : {"scale"}, fragment : Fragments, scale : Scales]
-----------------------------------------------------------------------------
(* Reference definitions.                                                  *)

Pixels(r) == {[x |-> x, y |-> y] : x \in r.x .. r.x + r.w - 1, y \in r.y .. r.y + r.h - 1}

Relative(p, origin) == [x |-> p.x - origin.x, y |-> p.y - origin.y]

SharedPixels == Pixels(call.window) \cap Pixels(call.output)

\* The physical columns that overlap the logical interval [from, to) at scale
\* s, by cross multiplication; no accepted rectangle reaches outside the range.
PhysicalCover(from, to, s) ==
    {px \in -(MaxInt + 2) .. 2 * MaxInt + 2 :
        /\ (px + 1) * s.denominator > from * s.numerator
        /\ px * s.denominator < to * s.numerator}
-----------------------------------------------------------------------------
(* Properties.                                                             *)

\* window_region_on_output finds exactly the pixels window and output share:
\* the source is those pixels seen from the window, the destination the same
\* pixels seen from the output, and the unchecked int32_t casts at the end of
\* the function lose nothing.
RegionIsTheSharedPixels ==
    call.kind = "region" =>
        LET region == WindowRegionOnOutput(call.window, call.output)
        IN  /\ (region = {}) <=> (SharedPixels = {})
            /\ \A r \in region :
                  /\ r.source \in Rect /\ r.destination \in Rect
                  /\ Pixels(r.source) = {Relative(g, call.window) : g \in SharedPixels}
                  /\ Pixels(r.destination) = {Relative(g, call.output) : g \in SharedPixels}

\* Input routing is the inverse of presentation: the pointer at an output
\* point reaches the surface pixel presented there, and no other point reaches
\* the surface; a pointer given in the presented fragment reaches the same
\* pixel, whether from the live geometry or from the recorded source rectangle.
PointerReachesThePresentedPixel ==
    call.kind = "region" =>
        \A p \in Points :
            /\ RemotePointerToSurfaceLocal(call.window, call.output, p) =
                  {Relative(g, call.window) :
                      g \in {g \in SharedPixels : g \in Point /\ Relative(g, call.output) = p}}
            /\ \A r \in WindowRegionOnOutput(call.window, call.output) :
                  /\ RemoteWindowPointerToSurfaceLocal(call.window, call.output, p) =
                        {s \in Pixels(r.source) : Relative(s, r.source) = p}
                  /\ PresentedFragmentToSurfaceLocal(r.source, p) =
                        RemoteWindowPointerToSurfaceLocal(call.window, call.output, p)

\* logical_rect_to_physical covers every physical pixel a logical area touches
\* and no other ("never loses coverage of any logical area", geometry.h), so
\* two fragments that share an edge leave no physical gap between them.
PhysicalRectIsTheCover ==
    call.kind = "scale" =>
        \A p \in LogicalRectToPhysical(call.fragment, call.scale) :
            ~RectIsEmpty(call.fragment) =>
                /\ p.x .. RectRight(p) - 1 =
                      PhysicalCover(call.fragment.x, RectRight(call.fragment), call.scale)
                /\ p.y .. RectBottom(p) - 1 =
                      PhysicalCover(call.fragment.y, RectBottom(call.fragment), call.scale)

\* A rectangle is refused exactly when its physical image does not fit a Rect
\* of int32_t fields, whatever overflows on the way there: a refused fragment
\* ends the Windows agent's connection, an accepted one is never truncated.
RefusedExactlyOnOverflow ==
    (/\ call.kind = "scale"
     /\ RectIsValid(call.fragment) /\ ScaleIsValid(call.scale))
        => LET Floor(v) == (v * call.scale.numerator) \div call.scale.denominator
               Ceil(v)  == -Floor(-v)
           IN  (LogicalRectToPhysical(call.fragment, call.scale) # {}) <=>
                  /\ FitsI32(Floor(call.fragment.x)) /\ FitsI32(Floor(call.fragment.y))
                  /\ Ceil(RectRight(call.fragment)) - Floor(call.fragment.x) <= MaxInt
                  /\ Ceil(RectBottom(call.fragment)) - Floor(call.fragment.y) <= MaxInt

\* The inverse keeps a point on its side of every fragment edge: a physical
\* client point is inside the physical window exactly when its logical point
\* is inside the logical fragment, also under capture.
InverseKeepsSides ==
    call.kind = "scale" =>
        \A physical \in LogicalRectToPhysical(call.fragment, call.scale), p \in Points :
            \A l \in PhysicalFragmentLocalToLogical(call.fragment, call.scale, p) :
                /\ (p.x \in 0 .. physical.w - 1) <=> (l.x \in 0 .. call.fragment.w - 1)
                /\ (p.y \in 0 .. physical.h - 1) <=> (l.y \in 0 .. call.fragment.h - 1)

\* Moving right or down never moves the logical pointer left or up, and the
\* whole fragment is reachable once a logical pixel is at least a physical one.
InverseIsMonotoneAndOnto ==
    call.kind = "scale" =>
        /\ \A p, q \in Points :
              \A l \in PhysicalFragmentLocalToLogical(call.fragment, call.scale, p),
                 m \in PhysicalFragmentLocalToLogical(call.fragment, call.scale, q) :
                    (p.x <= q.x => l.x <= m.x) /\ (p.y <= q.y => l.y <= m.y)
        /\ \A physical \in LogicalRectToPhysical(call.fragment, call.scale) :
              (call.scale.numerator >= call.scale.denominator /\ ~RectIsEmpty(call.fragment)) =>
                 0 .. call.fragment.w - 1 =
                    {l.x : l \in UNION {PhysicalFragmentLocalToLogical(
                                            call.fragment, call.scale, [x |-> px, y |-> 0])
                                          : px \in 0 .. physical.w - 1}}
=============================================================================
