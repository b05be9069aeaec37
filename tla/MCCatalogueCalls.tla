--------------------------- MODULE MCCatalogueCalls ---------------------------
EXTENDS CatalogueCalls

CONSTANTS A, B, C, b1, b2, Here, There, Red, Green

MCStopNames == {A, B, C}
MCBusNames  == {b1, b2}
MCCoords    == {Here, There}
MCBusOrder  == <<b1, b2>>
MCStopOrder == <<A, B, C>>

(* the oneof field numbers of svg_serialize::Color, in the order of the  *)
(* svg::Color alternatives                                                 *)
MCColorCase == [kind \in {"monostate", "string", "rgb", "rgba"} |->
                   CASE kind = "monostate" -> 1 [] kind = "string" -> 2
                     [] kind = "rgb" -> 3 [] kind = "rgba" -> 4]

(* three colours for two buses: a label coloured from the wrong counter   *)
(* gets another colour                                                    *)
MCPalette == <<[kind |-> "string", val |-> Red], [kind |-> "string", val |-> Green],
               [kind |-> "rgb", val |-> <<0, 0, 255>>]>>

(* routes of one to three stops, including revisits such as A, B, A *)
MCRoutes == {<<A>>, <<A, B>>, <<A, B, A>>, <<B, C>>, <<C, A, B>>}

MCLengths == {1}

(* 2^30 metres: two hops of it pass 2^31 *)
MCLongLengths == {1073741824}

(* two different lengths, so that a second registration can differ *)
MCTwoLengths == {1, 2}

(* a pair, its reverse, a second pair, and to an unknown stop C *)
MCDistancePairs == {<<A, B>>, <<B, A>>, <<A, C>>}

=============================================================================
