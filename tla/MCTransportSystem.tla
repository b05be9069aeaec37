-------------------------- MODULE MCTransportSystem --------------------------
EXTENDS TransportSystem

CONSTANTS A, B, C, Z, b1, b2, b3, Here, There, Red

MCStopNames == {A, B, C}
MCBusNames  == {b1, b2}
MCCoords    == {Here, There}
MCBusOrder  == <<b1, b2>>
MCStopOrder == <<A, B, C>>

(* the oneof field numbers of svg_serialize::Color, in the order of the  *)
(* svg::Color alternatives                                                 *)
MCColorCase == [kind \in {"monostate", "string", "rgb", "rgba"} |->
                   CASE kind = "monostate" -> 1 [] kind = "string" -> 2
                     [] kind = "rgb" -> 3 [] kind = "rgba" -> 4]

(* color_palette: a named colour, an Rgb and an Rgba array *)
MCPalette == <<[t |-> "string", v |-> Red], [t |-> "array", items |-> <<0, 128, 255>>],
               [t |-> "array", items |-> <<255, 0, 0, 1>>]>>

(* bus b1 and optionally b2, each a loop or a there-and-back line *)
FirstBuses  == [name : {b1}, stops : {<<A, B, C>>, <<A, B, A>>, <<B, A>>}, loop : BOOLEAN]
SecondBuses == [name : {b2}, stops : {<<C, B>>, <<A, C>>, <<>>}, loop : BOOLEAN]
BusLists    == {<<r>> : r \in FirstBuses} \cup {<<r, q>> : r \in FirstBuses, q \in SecondBuses}

(* road_distances of each stop; asymmetric pairs, a missing A-C pair *)
NoRoads == [s \in {} |-> 0]
StopReq(s, roads) == [name |-> s, coord |-> There, roads |-> roads]
StopLists ==
    {<<StopReq(A, ra), StopReq(B, rb), StopReq(C, rc)>> :
        ra \in {(B :> 1), (B :> 2) @@ (C :> 2)},
        rb \in {(C :> 1), (A :> 2) @@ (C :> 1)},
        rc \in {NoRoads, (A :> 1)}}
    \cup
    {<<StopReq(A, ra), StopReq(B, rb)>> :
        ra \in {(B :> 1), (B :> 2) @@ (C :> 2)},
        rb \in {(C :> 1), (A :> 2) @@ (C :> 1)}}

MCDocuments ==
    {[buses |-> bl, stops |-> sl, wait |-> w, velocity |-> 1, palette |-> MCPalette] :
        bl \in BusLists, sl \in StopLists, w \in {0, 1}}

(* one line A, B with a road between them, and given settings *)
LineDocument(w, palette) ==
    [buses |-> <<[name |-> b1, stops |-> <<A, B>>, loop |-> FALSE]>>,
     stops |-> <<StopReq(A, (B :> 1)), StopReq(B, NoRoads)>>,
     wait |-> w, velocity |-> 1, palette |-> palette]

(* "color_palette": [] in the render settings *)
MCNoPaletteDocuments == {LineDocument(w, <<>>) : w \in {0, 1}}

(* a bus_wait_time of 65536 minutes, a non-negative integer *)
MCWrapDocuments == {LineDocument(65536, MCPalette)}

(* a line that stays at a stop for one hop: B, B, A; a bus with an     *)
(* empty stops array                                                       *)
MCRepeatDocuments ==
    {[buses |-> <<[name |-> b1, stops |-> <<B, B, A>>, loop |-> FALSE]>>,
      stops |-> <<StopReq(A, (B :> 1)), StopReq(B, NoRoads)>>,
      wait |-> 1, velocity |-> 1, palette |-> MCPalette]}
    \cup
    {[buses |-> <<[name |-> b1, stops |-> <<A, B>>, loop |-> FALSE],
                  [name |-> b2, stops |-> <<>>, loop |-> lp]>>,
      stops |-> <<StopReq(A, (B :> 1)), StopReq(B, NoRoads)>>,
      wait |-> 1, velocity |-> 1, palette |-> MCPalette] : lp \in BOOLEAN}

(* requests name the catalogue's stops and buses, and Z and b3 that are unknown *)
MCQueryStops   == {A, B, C}
MCQueryBuses   == {b1, b2, b3}
MCUnknownStops == {A, B, Z}

=============================================================================
