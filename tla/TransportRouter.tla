--------------------------- MODULE TransportRouter ---------------------------
(***************************************************************************)
(* The routing engine of src/TransportSystem/transport_router.{h,cpp}:    *)
(* the graph TransportRouter builds from a catalogue (CreateGraph,        *)
(* CreateVertex, CreateEdge), the shortest-path table of graph::Router    *)
(* and its BuildRoute (graph.h and router.h are not among the sources and *)
(* are modelled from spec 4.3), and the itinerary GetRouteInfo assembles. *)
(*                                                                         *)
(* Weights.  The code computes in double minutes: a wait edge weighs      *)
(* bus_wait_time and one hop of len metres len / (1000 * velocity) * 60.  *)
(* The model multiplies every weight by 1000 * velocity, which makes all  *)
(* of them integers with the same ratios: WaitWeight and HopWeight.       *)
(* Rounding of the double sums is not modelled (spec 4.2 takes the sums   *)
(* as exact).                                                              *)
(*                                                                         *)
(* Vertices and edges are numbered from 0 as in graph::VertexId and       *)
(* graph::EdgeId; an edge id e is position e + 1 of the edge sequence.    *)
(***************************************************************************)
EXTENDS TransportCatalogue

NoSpan == 0     \* std::nullopt span_count_: a wait item (ride spans are >= 1)
NoPrev == -1    \* std::nullopt prev_edge of a table entry

WaitWeight(wait, velocity) == wait * 1000 * velocity
HopWeight(len) == len * 60

(***************************************************************************)
(* CreateVertex, for every stop in all_stops_ order: two fresh vertex ids *)
(* (in, then out) and the wait edge in -> out labelled with the stop.     *)
(***************************************************************************)
VertexOf(c) ==
    [s \in ToSet(c.allStops) |->
        LET i == CHOOSE k \in 1..Len(c.allStops) : c.allStops[k] = s
        IN  [in |-> 2 * (i - 1), out |-> 2 * (i - 1) + 1]]

WaitEdges(c, wait, velocity) ==
    [i \in 1..Len(c.allStops) |->
        [from |-> 2 * (i - 1), to |-> 2 * (i - 1) + 1,
         weight |-> WaitWeight(wait, velocity),
         name |-> c.allStops[i], span |-> NoSpan]]

(***************************************************************************)
(* CreateEdge over one direction d of a bus: for every position i and     *)
(* every later position j an edge out(d[i]) -> in(d[j]) whose weight is  *)
(* the running sum of CalculateTimeBetweenStations over the hops from i   *)
(* to j and whose span is j - i.  The hop lengths come from               *)
(* GetLenghtBetweenStops(previous, next), which throws when neither       *)
(* direction is known; the throw escapes the TransportRouter constructor. *)
(***************************************************************************)
HopsDefined(c, d) ==
    \A k \in 2..Len(d) : ~GetLenghtBetweenStops(c, d[k - 1], d[k]).thrown

RideWeight(c, d, i, j) ==
    FoldLeft(LAMBDA acc, k : acc + HopWeight(GetLenghtBetweenStops(c, d[k - 1], d[k]).val),
             0, [m \in 1..(j - i) |-> i + m])

RideEdges(c, d, name) ==
    LET vx == VertexOf(c)
    IN  FlattenSeq([i \in 1..Len(d) |->
            [m \in 1..(Len(d) - i) |->
                [from |-> vx[d[i]].out, to |-> vx[d[i + m]].in,
                 weight |-> RideWeight(c, d, i, i + m),
                 name |-> name, span |-> m]]])

(* mutant: the return leg of a there-and-back line left out *)
DirectionsForwardOnly(bus) == <<bus.stops>>

(* the directions CreateEdge walks: forward, and backward unless a loop *)
Directions(bus) ==
    IF bus.loop THEN <<bus.stops>> ELSE <<bus.stops, Reverse(bus.stops)>>

BusEdges(c, bus) ==
    FlattenSeq([k \in 1..Len(Directions(bus)) |-> RideEdges(c, Directions(bus)[k], bus.name)])

(***************************************************************************)
(* CreateGraph: all wait edges, then the ride edges of every bus of       *)
(* all_buses_ in order.  Thrown when some traversed hop has no distance.  *)
(***************************************************************************)
CreateGraph(c, wait, velocity) ==
    IF \E i \in 1..Len(c.allBuses), k \in 1..2 :
           k <= Len(Directions(c.allBuses[i])) /\ ~HopsDefined(c, Directions(c.allBuses[i])[k])
    THEN Thrown
    ELSE Ok(WaitEdges(c, wait, velocity) \o
            FlattenSeq([i \in 1..Len(c.allBuses) |-> BusEdges(c, c.allBuses[i])]))

(* DirectedWeightedGraph incidence lists: outgoing edge ids in id order *)
IncidenceLists(edges, nv) ==
    [v \in 0..(nv - 1) |->
        SelectSeq([e \in 1..Len(edges) |-> e - 1], LAMBDA e : edges[e + 1].from = v)]

(***************************************************************************)
(* graph::Router (spec 4.3): from each source a priority-queue relaxation *)
(* with non-negative weights.  The unsettled reached vertex of least      *)
(* weight is settled next (least id among equals), and its outgoing edges *)
(* are relaxed in incidence order with a strict <, so the first           *)
(* predecessor found on an optimal path is kept.                          *)
(***************************************************************************)
RECURSIVE Settle(_, _, _, _, _)
Settle(edges, inc, dist, prev, done) ==
    LET open == (DOMAIN dist) \ done
    IN  IF open = {} THEN [dist |-> dist, prev |-> prev]
        ELSE LET u == CHOOSE u \in open :
                        \A w \in open : dist[u] < dist[w] \/ (dist[u] = dist[w] /\ u <= w)
                 Relax(acc, e) ==
                    LET to == edges[e + 1].to
                        nd == acc.dist[u] + edges[e + 1].weight
                    IN  IF to \in DOMAIN acc.dist /\ acc.dist[to] <= nd THEN acc
                        ELSE [dist |-> (to :> nd) @@ acc.dist,
                              prev |-> (to :> e) @@ acc.prev]
                 relaxed == FoldLeft(Relax, [dist |-> dist, prev |-> prev], inc[u])
             IN  Settle(edges, inc, relaxed.dist, relaxed.prev, done \cup {u})

(* one row of RoutesInternalData: reached vertices -> [weight, prev_edge] *)
RouteRow(edges, inc, s) ==
    LET r == Settle(edges, inc, (s :> 0), (s :> NoPrev), {})
    IN  [t \in DOMAIN r.dist |-> [weight |-> r.dist[t], prev |-> r.prev[t]]]

(***************************************************************************)
(* The TransportRouter object: settings_, graph_of_stops, the table of    *)
(* router_ptr_, stop_vertexs_ and info_about_edge (the name, weight and   *)
(* span fields of each edge record).                                       *)
(***************************************************************************)
MakeRouter(c, wait, velocity, edges) ==
    LET nv  == 2 * Len(c.allStops)
        inc == IncidenceLists(edges, nv)
    IN  [wait |-> wait, velocity |-> velocity, totalVertex |-> nv,
         edges |-> edges, incidence |-> inc,
         table |-> [s \in 0..(nv - 1) |-> RouteRow(edges, inc, s)],
         vertexOf |-> VertexOf(c)]

(* TransportRouter(RoutingSettings, catalogue): Thrown or the router *)
BuildRouter(c, wait, velocity) ==
    LET g == CreateGraph(c, wait, velocity)
    IN  IF g.thrown THEN Thrown ELSE Ok(MakeRouter(c, wait, velocity, g.val))

(***************************************************************************)
(* Router::BuildRoute (spec 4.3): none when `to` is unreached, otherwise  *)
(* the last-edge chain followed back through the `from` vertex of each    *)
(* edge until the source, in source-to-destination order.                 *)
(***************************************************************************)
RECURSIVE EdgeChain(_, _, _, _)
EdgeChain(r, from, e, acc) ==
    IF e = NoPrev THEN acc
    ELSE EdgeChain(r, from, r.table[from][r.edges[e + 1].from].prev, <<e>> \o acc)

NoRoute == [found |-> FALSE]

BuildRoute(r, from, to) ==
    IF to \notin DOMAIN r.table[from] THEN NoRoute
    ELSE [found |-> TRUE, weight |-> r.table[from][to].weight,
          edges |-> EdgeChain(r, from, r.table[from][to].prev, <<>>)]

(***************************************************************************)
(* RouteInfo: items_ and total_time start empty; AddRideItem and          *)
(* AddWaitItem push a ComponentTrip (a wait carries no span count) and    *)
(* AdditionTotalTime adds its weight.                                      *)
(***************************************************************************)
EmptyRouteInfo == [items |-> <<>>, total |-> 0]

ComponentTrip(name, weight, span) == [name |-> name, weight |-> weight, span |-> span]

AddItem(info, trip) == [items |-> Append(info.items, trip), total |-> info.total + trip.weight]

(***************************************************************************)
(* GetRouteInfo: an unknown origin throws logic_error, an unknown         *)
(* destination throws out_of_range from stop_vertexs_.at; otherwise each  *)
(* edge of the route is looked up in info_about_edge and added as an item *)
(* (ride when a span is present, wait otherwise).                         *)
(***************************************************************************)
GetRouteInfo(r, from, to) ==
    IF from \notin DOMAIN r.vertexOf \/ to \notin DOMAIN r.vertexOf THEN Thrown
    ELSE LET route == BuildRoute(r, r.vertexOf[from].in, r.vertexOf[to].in)
             Step(info, id) ==
                LET e == r.edges[id + 1]
                IN  AddItem(info, ComponentTrip(e.name, e.weight, e.span))
             result == FoldLeft(Step, EmptyRouteInfo, route.edges)
         IN  IF ~route.found THEN Ok(NoRoute)
             ELSE Ok([found |-> TRUE, items |-> result.items, total |-> result.total])

=============================================================================
