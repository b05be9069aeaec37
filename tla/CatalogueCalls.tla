---------------------------- MODULE CatalogueCalls ----------------------------
(***************************************************************************)
(* The public mutating interface of class TransportCatalogue called in    *)
(* any order with arguments from small sets: AddStop, AddBus and          *)
(* AddLenghtBetweenStops.  The queries are the operators of               *)
(* TransportCatalogue, evaluated in every reachable state by the          *)
(* properties below.                                                      *)
(***************************************************************************)
EXTENDS MapRender

CONSTANTS
    Routes,          \* stop lists an AddBus call may pass
    Lengths,         \* road distances an AddLenghtBetweenStops call may pass
    DistancePairs,   \* <<from, to>> pairs an AddLenghtBetweenStops call may pass
    UniqueBusNames,  \* TRUE: AddBus is only called with a fresh bus name
    MaxBusCalls,     \* bound on the number of AddBus calls (all_buses_ grows)
    Palette          \* the colour palette of the render settings a Map request draws with

VARIABLES
    cat,       \* the TransportCatalogue object
    written    \* history: the length most recently passed for each pair

vars == <<cat, written>>

TypeOK ==
    /\ cat.allStops \in Seq(StopNames)
    /\ cat.coord \in [ToSet(cat.allStops) -> Coords]
    /\ cat.allBuses \in Seq(BusRecord)
    /\ DOMAIN cat.busIdx \subseteq BusNames
    /\ \A b \in DOMAIN cat.busIdx : cat.busIdx[b] \in 1..Len(cat.allBuses)
    /\ DOMAIN cat.busesInStop \subseteq ToSet(cat.allStops)
    /\ DOMAIN cat.dist \subseteq ToSet(cat.allStops) \X ToSet(cat.allStops)
    /\ \A p \in DOMAIN cat.dist : cat.dist[p] \in Lengths

Init ==
    /\ cat = EmptyCatalogue
    /\ written = <<>>

AddStop(s, xy) ==
    /\ cat' = AddStopOp(cat, s, xy)
    /\ UNCHANGED written

AddBus(b, ss, loop) ==
    /\ Len(cat.allBuses) < MaxBusCalls
    /\ UniqueBusNames => ~HasBus(cat, b)
    /\ cat' = AddBusOp(cat, b, ss, loop)
    /\ UNCHANGED written

AddLenghtBetweenStops(from, to, len) ==
    /\ DistanceCallable(cat, from)
    /\ cat' = AddLenghtOp(cat, from, to, len)
    /\ written' = (<<from, to>> :> len) @@ written

Next ==
    \/ \E s \in StopNames, xy \in Coords : AddStop(s, xy)
    \/ \E b \in BusNames, ss \in Routes, loop \in BOOLEAN : AddBus(b, ss, loop)
    \/ \E p \in DistancePairs, len \in Lengths : AddLenghtBetweenStops(p[1], p[2], len)

Spec == Init /\ [][Next]_vars

-----------------------------------------------------------------------------
(***************************************************************************)
(* Properties                                                              *)
(***************************************************************************)

(* The buses a Stop query reports (GetInfoStop, fed by the dedup in       *)
(* AddBus) are exactly the buses whose current route passes the stop,     *)
(* each listed once and in sorted order, also for routes that revisit a   *)
(* stop such as a loop A, B, A.                                            *)
StopStatsMatchRoutes ==
    \A s \in ToSet(cat.allStops) :
        LET info == GetInfoStop(cat, s)
        IN  /\ IsSorted(info.buses, LAMBDA x, y : Rank(x) < Rank(y))
            /\ ToSet(info.buses) =
                 {b \in DOMAIN cat.busIdx : Contains(BusOf(cat, b).stops, s)}

(***************************************************************************)
(* The catalogue implements CatalogueSpec: the stops of stops_ with their *)
(* coordinates, the buses of buses_ with the record each name points at,  *)
(* length_between_stops_, and for each stop the set of buses              *)
(* buses_in_stop_ lists for it.  Every sequence of AddStop, AddBus and    *)
(* AddLenghtBetweenStops calls is one the abstract catalogue allows: no   *)
(* refined coordinates overwritten, no stop dropped from a bus's          *)
(* passengers, `to` created by a distance.  With one length per pair the  *)
(* first and the last write agree (see LastDistanceWins for two).         *)
(***************************************************************************)
Abstract == INSTANCE CatalogueSpec WITH
    stops  <- cat.coord,
    buses  <- [b \in DOMAIN cat.busIdx |->
                 [stops |-> BusOf(cat, b).stops, loop |-> BusOf(cat, b).loop]],
    dist   <- cat.dist,
    served <- [s \in DOMAIN cat.coord |->
                 IF s \in DOMAIN cat.busesInStop THEN ToSet(cat.busesInStop[s]) ELSE {}]

CatalogueImplementsSpec == Abstract!Spec

(* A Map request draws every bus as the route its Bus statistics count:  *)
(* the i-th polyline of RenderMap (RenderWay, buses in name order) has as *)
(* many points as GetInfoBus reports stops for that bus, for loops and    *)
(* for there-and-back lines alike.                                        *)
MapLineMatchesBusStats ==
    LET map   == RenderMap(cat, Palette)
        names == DrawnBuses(cat)
    IN  ~map.thrown =>
           \A i \in DOMAIN names :
              LET info == GetInfoBus(cat, names[i])
              IN  ~info.thrown => Len(map.val[i].points) = info.val.quantity

(* Every bus label of the map has the colour of its bus's polyline: the   *)
(* label loop of RenderMap walks the buses in the order of the line loop  *)
(* with its own counter, and both index the palette modulo its size.      *)
LabelColorMatchesLine ==
    LET map   == RenderMap(cat, Palette)
        names == DrawnBuses(cat)
    IN  ~map.thrown =>
           \A e \in ToSet(map.val), i \in DOMAIN names :
              (e.kind = "busLabel" /\ e.bus = names[i]) => e.color = map.val[i].color

(* Spec 3 and 4.1: route_length is the sum of the non-negative distances *)
(* along the traversed sequence, so the Bus statistics of a bus report a  *)
(* length at least as long as any single hop of its route                  *)
(* (SummationLenght's accumulation).                                       *)
RouteLengthCoversHops ==
    \A b \in DOMAIN cat.busIdx :
        LET info == GetInfoBus(cat, b)
            t    == TraversedStops(BusOf(cat, b))
        IN  ~info.thrown =>
               \A i \in 1..(Len(t) - 1) : info.val.length >= HopLength(cat, t[i], t[i + 1]).val

(* Spec 4.1: re-registering a directed distance overwrites it (last write *)
(* wins), so the stored length is the one most recently passed.           *)
LastDistanceWins ==
    \A p \in DOMAIN cat.dist : cat.dist[p] = written[p]

=============================================================================
