---------------------------- MODULE MCJsonBuilder ----------------------------
EXTENDS JsonBuilder

(* two keys, one of them needing escapes when printed *)
MCKeys == {<<"a">>, <<"\"", "\\">>}

(* one value, which Value accepts as any Node: an array of a negative  *)
(* int, a string with characters PrintString escapes and one it does not, *)
(* a bool and a null; Value(nullptr) itself is left out                  *)
MCValues == {[t |-> "array",
              items |-> <<[t |-> "int", v |-> -10],
                          [t |-> "string", v |-> <<"\n", "\t", "\r">>],
                          [t |-> "bool", v |-> TRUE], [t |-> "null"]>>]}

(* the same with Value(nullptr) *)
MCNullValues == MCValues \cup {[t |-> "null"]}

(* bounds: at most MaxDepth stack entries (keys included), at most        *)
(* MaxItems items in an open array                                        *)
MaxDepth == 3
MaxItems == 2

Bounded ==
    /\ Len(nodesStack) <= MaxDepth
    /\ \A i \in 1..Len(nodesStack) :
          nodesStack[i].t = "array" => Len(nodesStack[i].items) <= MaxItems

=============================================================================
