CONSTANTS
    A = A
    B = B
    C = C
    b1 = b1
    b2 = b2
    Here = Here
    Red = Red
    Green = Green
    StopOrder <- MCStopOrder
    ColorCase <- MCColorCase
    Palette <- MCPalette
    There = There
    StopNames <- MCStopNames
    BusNames <- MCBusNames
    Coords <- MCCoords
    Zero <- Here
    BusOrder <- MCBusOrder
    Routes <- MCRoutes
    Lengths <- MCLongLengths
    DistancePairs <- MCDistancePairs
    UniqueBusNames = TRUE
    MaxBusCalls = 2
SPECIFICATION Spec
INVARIANTS
    RouteLengthCoversHops
