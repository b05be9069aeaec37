---------------------------- MODULE TransportSystem ----------------------------
(***************************************************************************)
(* The two process invocations of src/TransportSystem/main.cpp and the    *)
(* snapshot file between them.                                             *)
(*                                                                         *)
(* make_base (Reader::JSON_BaseRequest) opens the snapshot file for       *)
(* writing, which truncates it, adds every Bus request, then every Stop   *)
(* request with its road distances, constructs the TransportRouter and    *)
(* writes catalogue and router with proto::Serialization.                  *)
(* process_requests (Reader::JSON_StatRequest) reads the file with        *)
(* proto::Deserialization and answers Bus, Stop, Map and Route requests.  *)
(* An uncaught exception ends the process; so can a kill of make_base     *)
(* while it writes.  The invocations run one after another.               *)
(*                                                                         *)
(* A base_requests document is a record: the Bus requests in order, the   *)
(* Stop requests in order (road_distances as a function of the other      *)
(* stop), the routing settings as given (integers) and the colour palette *)
(* of the render settings (JSON nodes, see MapRender).                     *)
(***************************************************************************)
EXTENDS Journeys, MapRender

CONSTANTS
    Documents,    \* the base_requests documents make_base may be given
    QueryStops,   \* stop names a Stop or Route request may carry
    QueryBuses,   \* bus names a Bus request may carry
    MaxBaseRuns,  \* bound on the number of make_base invocations
    MaxRequests   \* bound on the length of a stat_requests array

VARIABLES
    file,     \* the snapshot file
    proc,     \* "idle", "make_base" (built, about to write), "process_requests"
    mb,       \* make_base's catalogue, router and palette once the router is built
    pr,       \* process_requests' catalogue, router and palette
    answer,   \* the answer to the latest stat request
    baseRuns, \* number of make_base invocations so far
    pending   \* stat_requests of the running process_requests not yet handled

vars == <<file, proc, mb, pr, answer, baseRuns, pending>>

-----------------------------------------------------------------------------
(***************************************************************************)
(* The snapshot codec (SaveToProto / Deserialize* of the catalogue and    *)
(* the router).  Stops are referred to by their index in all_stops_.      *)
(***************************************************************************)
StopIndex(c) == [s \in ToSet(c.allStops) |-> CHOOSE i \in 1..Len(c.allStops) : c.allStops[i] = s]

(* mutant: SaveLenghtToProto with from and to exchanged *)
SaveCatalogueSwapped(c) ==
    [stops |-> [i \in 1..Len(c.allStops) |-> [name |-> c.allStops[i], coord |-> c.coord[c.allStops[i]]]],
     buses |-> [i \in 1..Len(c.allBuses) |->
                  [name |-> c.allBuses[i].name, loop |-> c.allBuses[i].loop,
                   stops |-> [k \in 1..Len(c.allBuses[i].stops) |-> StopIndex(c)[c.allBuses[i].stops[k]]]]],
     dists |-> {[from |-> StopIndex(c)[p[2]], to |-> StopIndex(c)[p[1]], len |-> c.dist[p]] : p \in DOMAIN c.dist}]

SaveCatalogue(c) ==
    [stops |-> [i \in 1..Len(c.allStops) |-> [name |-> c.allStops[i], coord |-> c.coord[c.allStops[i]]]],
     buses |-> [i \in 1..Len(c.allBuses) |->
                  [name |-> c.allBuses[i].name, loop |-> c.allBuses[i].loop,
                   stops |-> [k \in 1..Len(c.allBuses[i].stops) |-> StopIndex(c)[c.allBuses[i].stops[k]]]]],
     dists |-> {[from |-> StopIndex(c)[p[1]], to |-> StopIndex(c)[p[2]], len |-> c.dist[p]] : p \in DOMAIN c.dist}]

(* SaveGraphToProto writes edge.from into the `to` field as well *)
SaveRouter(r, c) ==
    [stops |-> c.allStops, totalVertex |-> r.totalVertex,
     wait |-> r.wait, velocity |-> r.velocity,
     edges |-> [e \in DOMAIN r.edges |->
                  [from |-> r.edges[e].from, to |-> r.edges[e].from, weight |-> r.edges[e].weight]],
     incidence |-> r.incidence, table |-> r.table,
     stopVertex |-> [i \in 1..Len(c.allStops) |-> r.vertexOf[c.allStops[i]]],
     info |-> [e \in DOMAIN r.edges |->
                  [name |-> r.edges[e].name, weight |-> r.edges[e].weight, span |-> r.edges[e].span]]]

(* proto::Serialization: catalogue, map_settings, router *)
Serialize(c, r, palette) ==
    [catalogue |-> SaveCatalogue(c), map |-> SaveRenderSettings(palette),
     router |-> SaveRouter(r, c)]

(* DeserializeTransportCatalogue: AddStop, AddBus, AddLenghtBetweenStops *)
DeserializeCatalogue(p) ==
    LET withStops == FoldLeft(LAMBDA acc, s : AddStopOp(acc, s.name, s.coord), EmptyCatalogue, p.stops)
        withBuses == FoldLeft(LAMBDA acc, b : AddBusOp(acc, b.name,
                                  [k \in DOMAIN b.stops |-> p.stops[b.stops[k]].name], b.loop),
                              withStops, p.buses)
    IN  FoldSet(LAMBDA d, acc : AddLenghtOp(acc, p.stops[d.from].name, p.stops[d.to].name, d.len),
                withBuses, p.dists)

(* DeserializeTransportRouter: graph, table, stop_vertexs_, info_about_edge *)
DeserializeRouter(p) ==
    [wait |-> p.wait, velocity |-> p.velocity, totalVertex |-> p.totalVertex,
     edges |-> [e \in DOMAIN p.edges |->
                  [from |-> p.edges[e].from, to |-> p.edges[e].to, weight |-> p.edges[e].weight,
                   name |-> p.info[e].name, span |-> p.info[e].span]],
     incidence |-> p.incidence, table |-> p.table,
     vertexOf |-> [s \in ToSet(p.stops) |->
                     p.stopVertex[CHOOSE i \in 1..Len(p.stops) : p.stops[i] = s]]]

(* an empty file parses as the empty message *)
EmptyProto ==
    [catalogue |-> [stops |-> <<>>, buses |-> <<>>, dists |-> {}],
     map |-> [palette |-> <<>>, offsets |-> 0],
     router |-> [stops |-> <<>>, totalVertex |-> 0, wait |-> 0, velocity |-> 0,
                 edges |-> <<>>, incidence |-> <<>>, table |-> <<>>,
                 stopVertex |-> <<>>, info |-> <<>>]]

-----------------------------------------------------------------------------
NoFile    == [kind |-> "none"]
EmptyFile == [kind |-> "empty"]
Truncated == [kind |-> "truncated"]

NullRouter == [null |-> TRUE]   \* the nullptr Deserialization returns
(* a default-constructed MapRender has an empty palette *)
Idle == [cat |-> EmptyCatalogue, router |-> NullRouter, palette |-> <<>>]

(* JSON_ReaderRoutingSetings: both settings are cast to unsigned short *)
JSON_ReaderRoutingSetings(doc) == [wait |-> doc.wait % 65536, velocity |-> doc.velocity % 65536]

(***************************************************************************)
(* make_base ingestion: JSON_ReaderBus for every Bus request, then        *)
(* JSON_ReaderStop for every Stop request: AddStop with its coordinates   *)
(* and AddLenghtBetweenStops for each road distance.                      *)
(***************************************************************************)
IngestStop(c, req) ==
    FoldLeft(LAMBDA acc, to : AddLenghtOp(acc, req.name, to, req.roads[to]),
             AddStopOp(c, req.name, req.coord),
             SelectSeq(StopOrder, LAMBDA s : s \in DOMAIN req.roads))

Ingest(doc) ==
    LET withBuses == FoldLeft(LAMBDA acc, b : AddBusOp(acc, b.name, b.stops, b.loop),
                              EmptyCatalogue, doc.buses)
    IN  FoldLeft(IngestStop, withBuses, doc.stops)

Init ==
    /\ file = NoFile
    /\ proc = "idle"
    /\ mb = Idle
    /\ pr = Idle
    /\ answer = [kind |-> "none"]
    /\ baseRuns = 0
    /\ pending = 0

(* JSON_BaseRequest up to Serialization: the output file is truncated     *)
(* first; a throw of the TransportRouter constructor ends the process     *)
(* with the file left empty; then the render settings are read.  mb keeps *)
(* the settings the document asked for as history; answer, the output of *)
(* an earlier process_requests, is cleared.                                *)
MakeBase(doc) ==
    /\ proc = "idle"
    /\ baseRuns < MaxBaseRuns
    /\ baseRuns' = baseRuns + 1
    /\ LET c  == Ingest(doc)
           rs == JSON_ReaderRoutingSetings(doc)
           r  == BuildRouter(c, rs.wait, rs.velocity)
       IN  /\ file' = EmptyFile
           /\ IF r.thrown THEN proc' = "idle" /\ mb' = Idle
              ELSE /\ proc' = "make_base"
                   /\ mb' = [cat |-> c, router |-> r.val,
                             palette |-> JSON_ReaderMapSettings(doc.palette),
                             asked |-> [wait |-> doc.wait, velocity |-> doc.velocity]]
    /\ answer' = [kind |-> "none"]
    /\ UNCHANGED <<pr, pending>>

(* proto::Serialization writes the whole snapshot *)
WriteSnapshot ==
    /\ proc = "make_base"
    /\ file' = [kind |-> "complete", data |-> Serialize(mb.cat, mb.router, mb.palette),
                origin |-> mb]
    /\ proc' = "idle"
    /\ mb' = Idle
    /\ UNCHANGED <<baseRuns, pr, answer, pending>>

(* make_base is killed before or while writing: an empty or cut file *)
KillMakeBase ==
    /\ proc = "make_base"
    /\ file' \in {EmptyFile, Truncated}
    /\ proc' = "idle"
    /\ mb' = Idle
    /\ UNCHANGED <<baseRuns, pr, answer, pending>>

(***************************************************************************)
(* proto::Deserialization: ParseFromIstream fails on a missing or cut     *)
(* file and nullptr is returned with the catalogue left empty; an empty   *)
(* file parses as the empty message.                                       *)
(***************************************************************************)
Parsed(f) == IF f.kind = "complete" THEN f.data ELSE EmptyProto

Load(f) ==
    IF f.kind \in {"none", "truncated"} THEN Idle
    ELSE [cat |-> DeserializeCatalogue(Parsed(f).catalogue),
          palette |-> DeserializeMapRender(Parsed(f).map),
          router |-> DeserializeRouter(Parsed(f).router)]

ProcessRequests ==
    /\ proc = "idle"
    /\ proc' = "process_requests"
    /\ pr' = Load(file)
    /\ pending' \in 0..MaxRequests
    /\ answer' = [kind |-> "none"]
    /\ UNCHANGED <<baseRuns, file, mb>>

(* DeserializeMapRender indexes the label offsets of a parsed message    *)
(* that has none (the empty file): undefined behaviour, which may also be *)
(* a crash before any request is answered                                 *)
LoadCrash ==
    /\ proc = "idle"
    /\ file.kind \in {"empty", "complete"}
    /\ ~OffsetsReadable(Parsed(file).map)
    /\ answer' = [kind |-> "terminated"]
    /\ UNCHANGED <<baseRuns, file, proc, mb, pr, pending>>

(* a throw out of a request handler ends process_requests; undefined     *)
(* behaviour ends it too, or returns something unspecified; otherwise the *)
(* loop goes on to the next request of the array                          *)
Answer(result) ==
    \/ /\ result.thrown
       /\ answer' = [kind |-> "terminated"]
       /\ proc' = "idle"
       /\ pr' = Idle
       /\ pending' = 0
    \/ /\ ~result.thrown
       /\ answer' = [kind |-> "answer", val |-> result.val]
       /\ pending' = pending - 1
       /\ UNCHANGED <<proc, pr>>
    \/ /\ "undefined" \in DOMAIN result
       /\ answer' = [kind |-> "undefined"]
       /\ pending' = pending - 1
       /\ UNCHANGED <<proc, pr>>

BusRequest(b) ==
    /\ proc = "process_requests"
    /\ pending > 0
    /\ Answer(GetInfoBus(pr.cat, b))
    /\ UNCHANGED <<baseRuns, file, mb>>

StopRequest(s) ==
    /\ proc = "process_requests"
    /\ pending > 0
    /\ Answer(Ok(GetInfoStop(pr.cat, s)))
    /\ UNCHANGED <<baseRuns, file, mb>>

(* RequestHandler::RenderMap with the palette read from the snapshot; the *)
(* answer is the dictionary {"map": the document}                          *)
MapRequest ==
    /\ proc = "process_requests"
    /\ pending > 0
    /\ LET r == RenderMap(pr.cat, pr.palette)
       IN  Answer(IF r.thrown THEN r ELSE Ok([map |-> r.val]))
    /\ UNCHANGED <<baseRuns, file, mb>>

(* router_->GetRouteInfo through a null router_ is a crash as well *)
RouteRequest(from, to) ==
    /\ proc = "process_requests"
    /\ pending > 0
    /\ Answer(IF pr.router = NullRouter THEN Thrown ELSE GetRouteInfo(pr.router, from, to))
    /\ UNCHANGED <<baseRuns, file, mb>>

FinishRequests ==
    /\ proc = "process_requests"
    /\ pending = 0
    /\ proc' = "idle"
    /\ pr' = Idle
    /\ UNCHANGED <<baseRuns, file, mb, answer, pending>>

Next ==
    \/ \E doc \in Documents : MakeBase(doc)
    \/ WriteSnapshot
    \/ KillMakeBase
    \/ ProcessRequests
    \/ LoadCrash
    \/ MapRequest
    \/ \E b \in QueryBuses : BusRequest(b)
    \/ \E s \in QueryStops : StopRequest(s)
    \/ \E from, to \in QueryStops : RouteRequest(from, to)
    \/ FinishRequests

Spec == Init /\ [][Next]_vars

-----------------------------------------------------------------------------
(***************************************************************************)
(* Properties                                                              *)
(***************************************************************************)

(* Once make_base has built its router, every Route answer between two    *)
(* stops of the catalogue is the best journey under the routing settings  *)
(* the document gave: "not found" exactly when no chain of rides connects *)
(* them, otherwise wait and ride items that form a journey from origin to *)
(* destination whose total_time is the least possible.  It rests on CreateVertex's numbering, both loops of   *)
(* CreateEdge, the table and the last-edge chain together.                 *)
ItineraryOptimal ==
    proc = "make_base" =>
        \A s, t \in ToSet(mb.cat.allStops) :
            LET ans  == GetRouteInfo(mb.router, s, t)
                best == BestTimes(mb.cat, mb.asked.wait, mb.asked.velocity, s)
            IN  /\ ~ans.thrown
                /\ ans.val.found = (t \in DOMAIN best)
                /\ ans.val.found =>
                      /\ ans.val.total = best[t]
                      /\ IsJourney(mb.cat, mb.asked.wait, mb.asked.velocity, ans.val.items, s, t)

(* Spec 4.4: process_requests, serving from a complete snapshot, answers  *)
(* every Bus, Stop, Map and Route request exactly as the catalogue,       *)
(* render settings and router make_base built and wrote would have (round *)
(* trip of the SaveToProto and Deserialize functions, colours included).  *)
RoundTripEquivalent ==
    (proc = "process_requests" /\ file.kind = "complete") =>
        /\ \A b \in QueryBuses : GetInfoBus(pr.cat, b) = GetInfoBus(file.origin.cat, b)
        /\ \A s \in QueryStops : GetInfoStop(pr.cat, s) = GetInfoStop(file.origin.cat, s)
        /\ RenderMap(pr.cat, pr.palette) = RenderMap(file.origin.cat, file.origin.palette)
        /\ \A s, t \in QueryStops :
              GetRouteInfo(pr.router, s, t) = GetRouteInfo(file.origin.router, s, t)

(* Spec 4.4: deserialization reconstructs the routing graph exactly: each *)
(* edge read back has the endpoints of the edge that was written.          *)
SnapshotGraphFaithful ==
    (proc = "process_requests" /\ file.kind = "complete") =>
        \A e \in DOMAIN pr.router.edges :
            /\ pr.router.edges[e].from = file.origin.router.edges[e].from
            /\ pr.router.edges[e].to = file.origin.router.edges[e].to

(* Spec 3: the distance from a stop to itself is 0 even if never recorded. *)
(* So when make_base could build its router (every hop had a distance),   *)
(* a Bus request for any of its buses is answered (GetInfoBus does not    *)
(* throw).                                                                 *)
BusStatsWhenRouterBuilt ==
    proc = "make_base" =>
        \A b \in DOMAIN mb.cat.busIdx : ~GetInfoBus(mb.cat, b).thrown

(* Spec 7: a request naming an unknown stop or bus is answered "not       *)
(* found"; no exception escapes the request loop of process_requests      *)
(* serving a complete snapshot.                                            *)
RequestsNeverTerminate ==
    file.kind = "complete" => answer.kind # "terminated"

(* Spec 7: a snapshot that does not hold a whole catalogue and router is  *)
(* CorruptSnapshot, fatal to the query phase; process_requests only       *)
(* serves requests from a complete snapshot.                               *)
ServesOnlyCompleteSnapshot ==
    proc = "process_requests" => file.kind = "complete"

=============================================================================
