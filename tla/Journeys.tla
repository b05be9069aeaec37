------------------------------- MODULE Journeys -------------------------------
(***************************************************************************)
(* What an itinerary answer promises (spec 4.2, 4.3), stated on the       *)
(* catalogue alone, without the two-vertices-per-stop graph: a journey is *)
(* a chain of legs; a leg waits once at a stop and then rides one bus,    *)
(* in one direction it travels, from that stop to a later stop of the    *)
(* same direction without getting off.  The best journey time is the      *)
(* least total over all chains, computed by repeated relaxation over      *)
(* legs: a reference independent of TransportRouter's graph and table.    *)
(***************************************************************************)
EXTENDS TransportRouter

(* spec 4.1 GetDistance: a->b, else b->a, else 0 for a stop to itself *)
RoadDistance(c, a, b) ==
    IF <<a, b>> \in DOMAIN c.dist THEN c.dist[<<a, b>>]
    ELSE IF <<b, a>> \in DOMAIN c.dist THEN c.dist[<<b, a>>]
    ELSE 0

(* spec 4.2 times in units of 1 / (1000 * velocity) minutes *)
BoardingTime(wait, velocity) == wait * 1000 * velocity

TravelTime(c, d, i, j) ==
    FoldLeft(LAMBDA acc, k : acc + 60 * RoadDistance(c, d[k - 1], d[k]), 0,
             [m \in 1..(j - i) |-> i + m])

(* spec 4.2 steps 2, 3: a loop is ridden forward, a line both ways *)
Ways(bus) == IF bus.loop THEN {bus.stops} ELSE {bus.stops, Reverse(bus.stops)}

(* every leg the buses of the catalogue offer *)
Legs(c, wait, velocity) ==
    UNION {UNION {
        {[bus |-> bus.name, from |-> d[p[1]], to |-> d[p[2]], span |-> p[2] - p[1],
          cost |-> BoardingTime(wait, velocity) + TravelTime(c, d, p[1], p[2])] :
             p \in {q \in (1..Len(d)) \X (1..Len(d)) : q[1] < q[2]}}
        : d \in Ways(bus)}
      : bus \in {BusOf(c, b) : b \in DOMAIN c.busIdx}}

(* best[v]: least known time from the origin to v (v absent: unreached) *)
RECURSIVE Relaxed(_, _, _)
Relaxed(legs, best, n) ==
    IF n = 0 THEN best
    ELSE LET reach(v) == {best[l.from] + l.cost : l \in {l \in legs : l.from \in DOMAIN best /\ l.to = v}}
             cand(v)  == (IF v \in DOMAIN best THEN {best[v]} ELSE {}) \cup reach(v)
             next     == [v \in {v \in {l.to : l \in legs} \cup DOMAIN best : cand(v) # {}} |->
                             Min(cand(v))]
         IN  Relaxed(legs, next, n - 1)

(* least journey time from s to every stop reachable from it *)
BestTimes(c, wait, velocity, s) ==
    Relaxed(Legs(c, wait, velocity), (s :> 0), Len(c.allStops))

(* items form a journey from `at` to `t`: wait at the current stop for    *)
(* the wait time, then ride a leg starting there with that bus and span   *)
RECURSIVE IsJourney(_, _, _, _, _, _)
IsJourney(c, wait, velocity, items, at, t) ==
    IF items = <<>> THEN at = t
    ELSE /\ Len(items) >= 2
         /\ items[1] = [name |-> at, weight |-> BoardingTime(wait, velocity), span |-> NoSpan]
         /\ \E l \in Legs(c, wait, velocity) :
               /\ l.from = at /\ l.bus = items[2].name /\ l.span = items[2].span
               /\ items[2].weight = l.cost - BoardingTime(wait, velocity)
               /\ IsJourney(c, wait, velocity, Tail(Tail(items)), l.to, t)

=============================================================================
