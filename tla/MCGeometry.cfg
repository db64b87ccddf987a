\* The coordinate library against sets of pixels and exact fractions.
CONSTANTS
    MaxInt = 7
    Windows   <- MCWindows
    Outputs   <- MCOutputs
    Fragments <- MCFragments
    Scales    <- MCScales
    Points    <- MCPoints
SPECIFICATION Spec
INVARIANTS
    RegionIsTheSharedPixels
    PointerReachesThePresentedPixel
    PhysicalRectIsTheCover
    RefusedExactlyOnOverflow
    InverseKeepsSides
    InverseIsMonotoneAndOnto
