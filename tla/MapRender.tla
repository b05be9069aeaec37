------------------------------ MODULE MapRender ------------------------------
(***************************************************************************)
(* The map of a Map request: RequestHandler::RenderMap with the drawing   *)
(* methods of renderer::MapRender (src/TransportSystem/request_handler.cpp,*)
(* map_renderer.cpp), the render settings read from JSON                   *)
(* (Reader::JSON_ReaderMapSettings, JSON_ReaderColor) and their snapshot   *)
(* codec (MapRender::SaveToProto, DeserializeMapRender, SetProtoColor,     *)
(* SetSvgColor).                                                           *)
(*                                                                         *)
(* The svg::Document is kept as the sequence of its elements, each a      *)
(* record: a bus line (polyline), a bus label, a stop circle, a stop       *)
(* label.  A point is the coordinates it is projected from: the sphere    *)
(* projection, sizes, offsets, fonts and the underlayer are layout and are *)
(* left out; a label's background and title are one element.  Of the      *)
(* render settings only the colour palette is kept, which the drawing     *)
(* indexes.  A colour is [kind, val] with kind the alternative of the     *)
(* svg::Color variant, in the variant's order.                             *)
(***************************************************************************)
EXTENDS TransportCatalogue

CONSTANTS
    StopOrder,   \* StopNames in std::string order (std::set of stop names)
    ColorCase    \* oneof field number of each svg::Color alternative in svg_serialize::Color

ASSUME ToSet(StopOrder) = StopNames

ColorKinds == <<"monostate", "string", "rgb", "rgba">>   \* svg::Color's index() + 1
NoColor    == [kind |-> "monostate", val |-> "none"]

StopRank(s) == CHOOSE i \in 1..Len(StopOrder) : StopOrder[i] = s

(***************************************************************************)
(* JSON_ReaderColor: a string node is a named colour; an array of four    *)
(* is Rgba, any other array Rgb, the integer components narrowed to       *)
(* uint8_t.  A node is [t |-> "string", v] or [t |-> "array", items].     *)
(***************************************************************************)
JSON_ReaderColor(node) ==
    IF node.t = "string" THEN [kind |-> "string", val |-> node.v]
    ELSE IF Len(node.items) = 4
         THEN [kind |-> "rgba", val |-> [i \in 1..4 |-> IF i < 4 THEN node.items[i] % 256
                                                       ELSE node.items[i]]]
    ELSE [kind |-> "rgb", val |-> [i \in 1..3 |-> node.items[i] % 256]]

(* JSON_ReaderMapSettings: the colour_palette array, colour by colour *)
JSON_ReaderMapSettings(palette) == [k \in DOMAIN palette |-> JSON_ReaderColor(palette[k])]

(* SetProtoColor: the alternative of variant index i is set in its oneof  *)
(* field (monostate as set_monostate(true))                                *)
SetProtoColor(col) ==
    [case |-> ColorCase[col.kind], val |-> IF col.kind = "monostate" THEN TRUE ELSE col.val]

(* SetSvgColor: variant_case 1 leaves the default monostate, 2..4 set the *)
(* string, Rgb and Rgba alternatives; anything else leaves the default    *)
SetSvgColor(p) ==
    IF p.case \in 2..4 THEN [kind |-> ColorKinds[p.case], val |-> p.val] ELSE NoColor

(* MapRender::SaveToProto: the palette colour by colour, and the two      *)
(* label offsets of each label kind, always both                           *)
SaveRenderSettings(palette) ==
    [palette |-> [k \in DOMAIN palette |-> SetProtoColor(palette[k])], offsets |-> 2]

(* DeserializeMapRender reads bus_label_offset_()[0] and [1] of the       *)
(* repeated field: defined only when the message holds both                *)
OffsetsReadable(p) == p.offsets >= 2

DeserializeMapRender(p) == [k \in DOMAIN p.palette |-> SetSvgColor(p.palette[k])]

-----------------------------------------------------------------------------
(***************************************************************************)
(* The drawing methods.  color_palette_[counter % size()]: the counter is *)
(* 0-based, the sequence 1-based.  An empty palette is a division by zero *)
(* and RenderMap below never calls these with one.                         *)
(***************************************************************************)
PaletteColor(palette, counter) == palette[(counter % Len(palette)) + 1]

(* mutant: the return leg drawn without rstops.pop_back() *)
RenderWayNoPopBack(c, bus, counter, palette) ==
    LET way == IF bus.loop THEN bus.stops ELSE bus.stops \o Reverse(bus.stops)
    IN  [kind |-> "line", color |-> PaletteColor(palette, counter),
         points |-> [k \in DOMAIN way |-> c.coord[way[k]]]]

(* RenderWay: a loop draws its stops; a line draws its stops and then the *)
(* stops reversed without the last one                                     *)
RenderWay(c, bus, counter, palette) ==
    LET way == IF bus.loop THEN bus.stops ELSE bus.stops \o Reverse(Front(bus.stops))
    IN  [kind |-> "line", color |-> PaletteColor(palette, counter),
         points |-> [k \in DOMAIN way |-> c.coord[way[k]]]]

RenderNameBus(name, counter, palette, at) ==
    [kind |-> "busLabel", bus |-> name, color |-> PaletteColor(palette, counter), at |-> at]

RenderStop(at) == [kind |-> "stop", at |-> at]

RenderNameStop(name, at) == [kind |-> "stopLabel", stop |-> name, at |-> at]

(***************************************************************************)
(* RequestHandler::RenderMap.  The buses of buses_ with at least one stop *)
(* and the stops on them, both as std::set (name order); a polyline per   *)
(* bus with a counter from 0; the counter reset; the labels of each bus   *)
(* with the same counter, one at the first stop of a loop or of a line    *)
(* that ends where it starts, else at both ends; a circle per stop; a     *)
(* label per stop.  With buses to draw and an empty palette the modulo is *)
(* a division by zero, which ends the process (Thrown).                    *)
(***************************************************************************)
DrawnBuses(c) ==
    SetToSortSeq({b \in DOMAIN c.busIdx : BusOf(c, b).stops # <<>>},
                 LAMBDA x, y : Rank(x) < Rank(y))

DrawnStops(c) ==
    SetToSortSeq(UNION {ToSet(BusOf(c, b).stops) : b \in ToSet(DrawnBuses(c))},
                 LAMBDA x, y : StopRank(x) < StopRank(y))

LabelStops(bus) ==
    IF bus.loop \/ Head(bus.stops) = Last(bus.stops) THEN <<Head(bus.stops)>>
    ELSE <<Head(bus.stops), Last(bus.stops)>>

(* mutant: color_counter not reset before the label loop *)
RenderMapNoReset(c, palette) ==
    LET names  == DrawnBuses(c)
        stops  == DrawnStops(c)
        lines  == [i \in DOMAIN names |-> RenderWay(c, BusOf(c, names[i]), i - 1, palette)]
        labels == FlattenSeq([i \in DOMAIN names |->
                    LET ends == LabelStops(BusOf(c, names[i]))
                    IN  [k \in DOMAIN ends |->
                           RenderNameBus(names[i], Len(names) + i - 1, palette, c.coord[ends[k]])]])
    IN  IF names # <<>> /\ palette = <<>> THEN Thrown
        ELSE Ok(lines \o labels
                \o [k \in DOMAIN stops |-> RenderStop(c.coord[stops[k]])]
                \o [k \in DOMAIN stops |-> RenderNameStop(stops[k], c.coord[stops[k]])])

RenderMap(c, palette) ==
    LET names  == DrawnBuses(c)
        stops  == DrawnStops(c)
        lines  == [i \in DOMAIN names |-> RenderWay(c, BusOf(c, names[i]), i - 1, palette)]
        labels == FlattenSeq([i \in DOMAIN names |->
                    LET ends == LabelStops(BusOf(c, names[i]))
                    IN  [k \in DOMAIN ends |->
                           RenderNameBus(names[i], i - 1, palette, c.coord[ends[k]])]])
    IN  IF names # <<>> /\ palette = <<>> THEN Thrown
        ELSE Ok(lines \o labels
                \o [k \in DOMAIN stops |-> RenderStop(c.coord[stops[k]])]
                \o [k \in DOMAIN stops |-> RenderNameStop(stops[k], c.coord[stops[k]])])

=============================================================================
