------------------------- MODULE TransportCatalogue -------------------------
(***************************************************************************)
(* The entity catalogue of src/TransportSystem/transport_catalogue.{h,cpp}.*)
(*                                                                         *)
(* The catalogue is kept as one record value so that the system module    *)
(* (TransportSystem) can drive the very same operators from its           *)
(* make_base and process_requests steps.  Its fields are the members of   *)
(* class TransportCatalogue:                                               *)
(*   allStops     all_stops_            stops in creation order            *)
(*   coord        stops_ / Stop::coordinates, domain = the existing stops  *)
(*   allBuses     all_buses_            every AddBus call, in call order   *)
(*   busIdx       buses_                bus name -> index of its latest    *)
(*                                      record in allBuses                 *)
(*   busesInStop  buses_in_stop_        stop -> bus names, first-seen order*)
(*   dist         length_between_stops_ <<from, to>> -> road length        *)
(* Stop pointers are replaced by stop names: the code never has two Stop  *)
(* objects with one name, so a name identifies the Stop* exactly.         *)
(* Coordinates are abstracted to a small set in which Zero stands for the *)
(* default {0., 0.}; the geodesic length and curvature are not modelled.  *)
(***************************************************************************)
EXTENDS Integers, Sequences, SequencesExt, FiniteSets

CONSTANTS
    StopNames,   \* names of stops
    BusNames,    \* names of buses
    Coords,      \* abstract coordinates
    Zero,        \* the default coordinates {0., 0.}
    BusOrder     \* BusNames listed in std::string order, for the sort

ASSUME Zero \in Coords
ASSUME ToSet(BusOrder) = BusNames /\ Len(BusOrder) = Cardinality(BusNames)

BusRecord == [name : BusNames, stops : Seq(StopNames), loop : BOOLEAN]

EmptyCatalogue ==
    [allStops |-> <<>>, coord |-> <<>>, allBuses |-> <<>>,
     busIdx |-> <<>>, busesInStop |-> <<>>, dist |-> <<>>]

(* stops_.count(name) != 0 : StopAvailability *)
HasStop(c, s) == s \in DOMAIN c.coord

(* buses_.count(name) != 0 : BusAvailability *)
HasBus(c, b) == b \in DOMAIN c.busIdx

(* buses_.at(name) : the latest record added under that name *)
BusOf(c, b) == c.allBuses[c.busIdx[b]]

(***************************************************************************)
(* AddStop: a new name is appended with the given coordinates; an         *)
(* existing stop is overwritten only while it still has the default       *)
(* coordinates, otherwise the call changes nothing.                       *)
(***************************************************************************)
(* mutant: the default-coordinates check dropped *)
AddStopOpOverwrite(c, s, xy) ==
    IF HasStop(c, s) THEN [c EXCEPT !.coord[s] = xy]
    ELSE [c EXCEPT !.allStops = Append(@, s), !.coord = (s :> xy) @@ @]

AddStopOp(c, s, xy) ==
    IF HasStop(c, s)
    THEN IF c.coord[s] = Zero THEN [c EXCEPT !.coord[s] = xy] ELSE c
    ELSE [c EXCEPT !.allStops = Append(@, s), !.coord = (s :> xy) @@ @]

(***************************************************************************)
(* AddBus: the record is pushed with no stops and buses_[name] is pointed *)
(* at it; then each named stop is created with default coordinates if it *)
(* is unknown and the bus name is appended to buses_in_stop_[stop] unless *)
(* it is already there; last, the resolved stop list is stored.           *)
(***************************************************************************)
(* mutant: the std::find before push_back dropped *)
AddBusOpNoDedup(c, b, ss, loop) ==
    LET pushed == [c EXCEPT
                     !.allBuses = Append(@, [name |-> b, stops |-> <<>>, loop |-> loop]),
                     !.busIdx = (b :> Len(c.allBuses) + 1) @@ @]
        Visit(acc, s) ==
            LET c1  == IF HasStop(acc, s) THEN acc ELSE AddStopOp(acc, s, Zero)
                lst == IF s \in DOMAIN c1.busesInStop THEN c1.busesInStop[s] ELSE <<>>
            IN  [c1 EXCEPT !.busesInStop = (s :> Append(lst, b)) @@ @]
    IN  [FoldLeft(Visit, pushed, ss) EXCEPT !.allBuses[Len(c.allBuses) + 1].stops = ss]

AddBusOp(c, b, ss, loop) ==
    LET pushed == [c EXCEPT
                     !.allBuses = Append(@, [name |-> b, stops |-> <<>>, loop |-> loop]),
                     !.busIdx = (b :> Len(c.allBuses) + 1) @@ @]
        Visit(acc, s) ==
            LET c1  == IF HasStop(acc, s) THEN acc ELSE AddStopOp(acc, s, Zero)
                lst == IF s \in DOMAIN c1.busesInStop THEN c1.busesInStop[s] ELSE <<>>
            IN  IF Contains(lst, b) THEN [c1 EXCEPT !.busesInStop = (s :> lst) @@ @]
                ELSE [c1 EXCEPT !.busesInStop = (s :> Append(lst, b)) @@ @]
        visited == FoldLeft(Visit, pushed, ss)
    IN  [visited EXCEPT !.allBuses[Len(c.allBuses) + 1].stops = ss]

(***************************************************************************)
(* AddLenghtBetweenStops: the from stop must exist (stops_.at throws      *)
(* before anything changes otherwise, see DistanceCallable); an unknown   *)
(* to stop is created; unordered_map::insert keeps an existing entry.     *)
(***************************************************************************)
(* mutant: an unknown from stop accepted *)
DistanceCallableAlways(c, from) == TRUE

DistanceCallable(c, from) == HasStop(c, from)

AddLenghtOp(c, from, to, len) ==
    LET c1 == IF HasStop(c, to) THEN c ELSE AddStopOp(c, to, Zero)
    IN  IF <<from, to>> \in DOMAIN c1.dist THEN c1
        ELSE [c1 EXCEPT !.dist = (<<from, to>> :> len) @@ @]

(***************************************************************************)
(* Results of the queries.  A query that throws yields Thrown.            *)
(***************************************************************************)
Thrown == [thrown |-> TRUE]

Ok(v) == [thrown |-> FALSE, val |-> v]

(* GetLenghtBetweenStops: a->b, else b->a, else 0 for a == b, else throw *)
GetLenghtBetweenStops(c, a, b) ==
    IF ~HasStop(c, a) \/ ~HasStop(c, b) THEN Thrown
    ELSE IF <<a, b>> \in DOMAIN c.dist THEN Ok(c.dist[<<a, b>>])
    ELSE IF <<b, a>> \in DOMAIN c.dist THEN Ok(c.dist[<<b, a>>])
    ELSE IF a = b THEN Ok(0)
    ELSE Thrown

(* the stop sequence a bus really travels: there-and-back adds the return *)
TraversedStops(bus) ==
    IF bus.loop THEN bus.stops ELSE bus.stops \o Reverse(Front(bus.stops))

(***************************************************************************)
(* SummationLenght: each consecutive pair of the traversed sequence is    *)
(* looked up forward, then backward, then length_between_stops_.at(),     *)
(* which throws.  Unlike GetLenghtBetweenStops there is no 0 for a stop   *)
(* followed by itself.                                                     *)
(***************************************************************************)
HopLength(c, x, y) ==
    IF <<x, y>> \in DOMAIN c.dist THEN Ok(c.dist[<<x, y>>])
    ELSE IF <<y, x>> \in DOMAIN c.dist THEN Ok(c.dist[<<y, x>>])
    ELSE Thrown

(* On an empty route std::next(begin()) passes end() (loop) and          *)
(* pop_back() empties an empty deque (line): undefined behaviour, which a *)
(* caller treats as a crash or as an arbitrary return.                    *)
Undefined == [thrown |-> TRUE, undefined |-> TRUE]

(* transform_reduce with init 0: the accumulator is an int; int plus the *)
(* uint32_t length is computed unsigned and stored back in the int, i.e.  *)
(* modulo 2^32.  Lengths are std::abs of a JSON int, below 2^31.          *)
IntPlusLength(acc, len) ==
    IF acc >= 0 /\ acc > 2147483647 - len
    THEN (acc - 2147483647 - 1) + (len - 2147483647 - 1)
    ELSE acc + len

SummationLenght(c, bus) ==
    LET t    == TraversedStops(bus)
        hops == [i \in 1..(Len(t) - 1) |-> HopLength(c, t[i], t[i + 1])]
    IN  IF bus.stops = <<>> THEN Undefined
        ELSE IF \E i \in DOMAIN hops : hops[i].thrown THEN Thrown
        ELSE Ok(FoldLeft(LAMBDA acc, h : IntPlusLength(acc, h.val), 0, hops))

(***************************************************************************)
(* GetInfoBus (curvature left out): stop count, unique stops, length.     *)
(***************************************************************************)
GetInfoBus(c, b) ==
    IF ~HasBus(c, b) THEN Ok([exists |-> FALSE])
    ELSE LET bus == BusOf(c, b)
             len == SummationLenght(c, bus)
         IN  IF len.thrown THEN len
             ELSE Ok([exists   |-> TRUE,
                      quantity |-> IF bus.loop THEN Len(bus.stops)
                                   ELSE Len(bus.stops) * 2 - 1,
                      unique   |-> Cardinality(ToSet(bus.stops)),
                      length   |-> len.val])

(* std::sort of bus names: insertion sort by the position in BusOrder *)
Rank(b) == CHOOSE i \in 1..Len(BusOrder) : BusOrder[i] = b

RECURSIVE SortBuses(_)
SortBuses(s) ==
    IF s = <<>> THEN <<>>
    ELSE LET rest == SortBuses(Tail(s))
             k    == Cardinality({i \in 1..Len(rest) : Rank(rest[i]) < Rank(Head(s))})
         IN  SubSeq(rest, 1, k) \o <<Head(s)>> \o SubSeq(rest, k + 1, Len(rest))

GetInfoStop(c, s) ==
    IF ~HasStop(c, s) THEN [exists |-> FALSE]
    ELSE IF s \notin DOMAIN c.busesInStop THEN [exists |-> TRUE, buses |-> <<>>]
    ELSE [exists |-> TRUE, buses |-> SortBuses(c.busesInStop[s])]

=============================================================================
