CONSTANTS
    A = A
    B = B
    C = C
    Z = Z
    b1 = b1
    b2 = b2
    b3 = b3
    Here = Here
    There = There
    Red = Red
    StopNames <- MCStopNames
    BusNames <- MCBusNames
    Coords <- MCCoords
    Zero <- Here
    BusOrder <- MCBusOrder
    StopOrder <- MCStopOrder
    ColorCase <- MCColorCase
    Documents <- MCRepeatDocuments
    QueryStops <- MCQueryStops
    QueryBuses <- MCQueryBuses
    MaxBaseRuns = 1
    MaxRequests = 2
SPECIFICATION Spec
INVARIANTS
    ServesOnlyCompleteSnapshot
