----------------------------- MODULE CatalogueSpec -----------------------------
(***************************************************************************)
(* What the catalogue promises (spec.md, sections 3 and 4.1), with no     *)
(* containers, indices or pointers: a stop is a name with coordinates, a  *)
(* bus a name with its stop list and kind, a distance a length per        *)
(* ordered pair, and each stop knows the set of buses that pass it.       *)
(* CatalogueCalls shows that class TransportCatalogue implements it.      *)
(***************************************************************************)
EXTENDS Sequences, SequencesExt

CONSTANTS
    StopNames, BusNames, Coords,
    Zero,      \* the default coordinates (0, 0)
    Routes,    \* stop lists a bus may be created with
    Lengths    \* distances that may be recorded

VARIABLES
    stops,     \* stop name -> coordinates
    buses,     \* bus name -> [stops, loop]
    dist,      \* <<from, to>> -> length
    served     \* stop name -> the set of buses passing it

vars == <<stops, buses, dist, served>>

Init == stops = <<>> /\ buses = <<>> /\ dist = <<>> /\ served = <<>>

(* a stop named on the way is created with the default coordinates *)
WithStops(names) ==
    [s \in DOMAIN stops \cup names |-> IF s \in DOMAIN stops THEN stops[s] ELSE Zero]

(* AddStop: inserts a new stop, or refines one that still has the default *)
(* coordinates; a stop with other coordinates is never overwritten.        *)
AddStop(s, xy) ==
    /\ s \notin DOMAIN stops \/ stops[s] = Zero
    /\ stops' = [WithStops({s}) EXCEPT ![s] = xy]
    /\ served' = [t \in DOMAIN stops' |-> IF t \in DOMAIN served THEN served[t] ELSE {}]
    /\ UNCHANGED <<buses, dist>>

(* AddBus: a bus has a unique name; its stops are looked up, created if  *)
(* absent, and each records that the bus passes it.                       *)
AddBus(b, ss, loop) ==
    /\ b \notin DOMAIN buses
    /\ buses' = (b :> [stops |-> ss, loop |-> loop]) @@ buses
    /\ stops' = WithStops(ToSet(ss))
    /\ served' = [t \in DOMAIN stops' |->
                    (IF t \in DOMAIN served THEN served[t] ELSE {})
                    \cup (IF t \in ToSet(ss) THEN {b} ELSE {})]
    /\ UNCHANGED dist

(* AddDistance: records a directed distance, auto-creating `to`; the last *)
(* length given for an ordered pair wins.                                  *)
AddDistance(from, to, len) ==
    /\ from \in DOMAIN stops
    /\ dist' = (<<from, to>> :> len) @@ dist
    /\ stops' = WithStops({to})
    /\ served' = [t \in DOMAIN stops' |-> IF t \in DOMAIN served THEN served[t] ELSE {}]
    /\ UNCHANGED buses

Next ==
    \/ \E s \in StopNames, xy \in Coords : AddStop(s, xy)
    \/ \E b \in BusNames, ss \in Routes, loop \in BOOLEAN : AddBus(b, ss, loop)
    \/ \E from, to \in StopNames, len \in Lengths : AddDistance(from, to, len)

Spec == Init /\ [][Next]_vars

=============================================================================
