-------------------------------- MODULE Svg --------------------------------
(***************************************************************************)
(* The svg library of src/TransportSystem/svg.h and svg.cpp: a client     *)
(* builds Circle, Polyline and Text objects with their setters and adds   *)
(* them to an svg::Document, which Document::Render writes out.           *)
(*                                                                         *)
(* The rendered document is a sequence of tokens: each literal the code   *)
(* writes is one token, a number is its decimal text, and the data of a   *)
(* Text is written character by character (one-character strings), since *)
(* that is where the escaping of SetData matters.  Points, radii and      *)
(* widths are doubles holding small integers, which operator<< prints as  *)
(* the integer (default precision, six significant digits).  A colour is  *)
(* [kind, val] as in MapRender, an Rgba opacity is an integral double as  *)
(* well; an enum value is its enumerator's name.                          *)
(***************************************************************************)
EXTENDS Integers, Sequences, SequencesExt

CONSTANTS
    Points,      \* the svg::Point values a client passes
    Radii,       \* the radii passed to Circle::SetRadius
    Sizes,       \* the font sizes passed to Text::SetFontSize
    Fonts,       \* font family and weight strings ("" is never set)
    Props,       \* PathProps settings a client applies: [fill, stroke, width, cap, join]
    Datas,       \* strings passed to Text::SetData, sequences of one-character strings
    MaxObjects   \* bound on the number of objects added to the document

VARIABLES
    objects,     \* Document::objects_
    given        \* history: the string given to SetData of each Text, in the order added

vars == <<objects, given>>

Unset == <<>>     \* an empty std::optional of PathProps; a set one is <<v>>

Num(v) == ToString(v)

-----------------------------------------------------------------------------
(* operator<< of StrokeLineCap, StrokeLineJoin, Rgb, Rgba and the Visiter *)
(* of a Color                                                              *)
LineCapText  == [BUTT |-> "butt", ROUND |-> "round", SQUARE |-> "square"]
LineJoinText == [ARCS |-> "arcs", BEVEL |-> "bevel", MITER |-> "miter",
                 MITER_CLIP |-> "miter-clip", ROUND |-> "round"]

RgbText(v) == "rgb(" \o Num(v[1]) \o "," \o Num(v[2]) \o "," \o Num(v[3]) \o ")"

RgbaText(v) ==
    "rgba(" \o Num(v[1]) \o "," \o Num(v[2]) \o "," \o Num(v[3]) \o "," \o Num(v[4]) \o ")"

ColorText(c) ==
    CASE c.kind = "monostate" -> "none"
      [] c.kind = "string"    -> c.val
      [] c.kind = "rgb"       -> RgbText(c.val)
      [] c.kind = "rgba"      -> RgbaText(c.val)

(* PathProps::RenderAttrs: a colour that holds monostate and an empty     *)
(* optional write nothing                                                  *)
RenderAttrs(p) ==
    (IF p.fill.kind = "monostate" THEN <<>> ELSE <<" fill=\"", ColorText(p.fill), "\"">>)
    \o (IF p.stroke.kind = "monostate" THEN <<>> ELSE <<" stroke=\"", ColorText(p.stroke), "\"">>)
    \o (IF p.width = Unset THEN <<>> ELSE <<" stroke-width=\"", Num(p.width[1]), "\"">>)
    \o (IF p.cap = Unset THEN <<>> ELSE <<" stroke-linecap=\"", LineCapText[p.cap[1]], "\"">>)
    \o (IF p.join = Unset THEN <<>> ELSE <<" stroke-linejoin=\"", LineJoinText[p.join[1]], "\"">>)

-----------------------------------------------------------------------------
(***************************************************************************)
(* Text::SetData.  For each pair of characters_to_replace in order, the   *)
(* search starts with pos = 0 and looks from pos + 1; each hit is replaced *)
(* by its entity and the search goes on from one past the hit.  `from` is *)
(* the 0-based index the search starts at, so the 1-based hits are past it.*)
(***************************************************************************)
CharactersToReplace ==
    << <<"&", <<"&", "a", "m", "p", ";">> >>,
       <<"\"", <<"&", "q", "u", "o", "t", ";">> >>,
       <<"'", <<"&", "a", "p", "o", "s", ";">> >>,
       <<"<", <<"&", "l", "t", ";">> >>,
       <<">", <<"&", "g", "t", ";">> >> >>

RECURSIVE ReplaceFrom(_, _, _, _)
ReplaceFrom(data, symvol, to, from) ==
    LET hits == {k \in (from + 1)..Len(data) : data[k] = symvol}
    IN  IF hits = {} THEN data
        ELSE ReplaceFrom(SubSeq(data, 1, Min(hits) - 1) \o to \o SubSeq(data, Min(hits) + 1, Len(data)),
                         symvol, to, Min(hits))

SetData(data) ==
    FoldLeft(LAMBDA d, pair : ReplaceFrom(d, pair[1], pair[2], 1), data, CharactersToReplace)

-----------------------------------------------------------------------------
(* The RenderObject of each kind of object *)
RenderCircle(o) ==
    <<"<circle cx=\"", Num(o.center.x), "\" cy=\"", Num(o.center.y), "\" ",
      "r=\"", Num(o.radius), "\"">> \o RenderAttrs(o.props) \o <<"/>">>

RenderPolyline(o) ==
    <<"<polyline points=\"">>
    \o FlattenSeq([k \in DOMAIN o.points |->
                     (IF k = 1 THEN <<>> ELSE <<" ">>)
                     \o <<Num(o.points[k].x), ",", Num(o.points[k].y)>>])
    \o <<"\"">> \o RenderAttrs(o.props) \o <<"/>">>

RenderText(o) ==
    <<"<text">> \o RenderAttrs(o.props)
    \o <<" x=\"", Num(o.pos.x), "\" y=\"", Num(o.pos.y), "\"",
         " dx=\"", Num(o.offset.x), "\" dy=\"", Num(o.offset.y), "\"",
         " font-size=\"", Num(o.size), "\"">>
    \o (IF o.family = "" THEN <<>> ELSE <<" font-family=\"", o.family, "\"">>)
    \o (IF o.weight = "" THEN <<>> ELSE <<" font-weight=\"", o.weight, "\"">>)
    \o <<">">> \o o.data \o <<"</text>">>

(* RenderContext::RenderIndent: indent spaces *)
RenderIndent(indent) == [k \in 1..indent |-> " "]

(* Object::Render: the indent of the context, the tag, a line break *)
RenderObject(o, indent) ==
    RenderIndent(indent)
    \o (CASE o.kind = "circle"   -> RenderCircle(o)
          [] o.kind = "polyline" -> RenderPolyline(o)
          [] o.kind = "text"     -> RenderText(o))
    \o <<"\n">>

(* Document::Render with RenderContext(out, 2, 2) *)
Render(objs) ==
    <<"<?xml version=\"1.0\" encoding=\"UTF-8\" ?>", "\n",
      "<svg xmlns=\"http://www.w3.org/2000/svg\" version=\"1.1\">", "\n">>
    \o FlattenSeq([k \in DOMAIN objs |-> RenderObject(objs[k], 2)])
    \o <<"</svg>">>

-----------------------------------------------------------------------------
(***************************************************************************)
(* The client's steps: an object made by its setters (defaults: radius    *)
(* 1.0, font size 1, no font, empty data, every PathProps unset) and      *)
(* handed to ObjectContainer::Add, which moves it into objects_.          *)
(***************************************************************************)
Init == objects = <<>> /\ given = <<>>

AddCircle(center, radius, props) ==
    /\ Len(objects) < MaxObjects
    /\ objects' = Append(objects, [kind |-> "circle", center |-> center, radius |-> radius,
                                   props |-> props])
    /\ UNCHANGED given

(* Polyline::AddPoint for each point, in order *)
AddPolyline(points, props) ==
    /\ Len(objects) < MaxObjects
    /\ objects' = Append(objects, [kind |-> "polyline", points |-> points, props |-> props])
    /\ UNCHANGED given

AddText(pos, offset, size, family, weight, data, props) ==
    /\ Len(objects) < MaxObjects
    /\ objects' = Append(objects, [kind |-> "text", pos |-> pos, offset |-> offset, size |-> size,
                                   family |-> family, weight |-> weight,
                                   data |-> SetData(data), props |-> props])
    /\ given' = Append(given, data)

Next ==
    \/ \E c \in Points, r \in Radii, p \in Props : AddCircle(c, r, p)
    \/ \E a, b \in Points, p \in Props : AddPolyline(<<a, b>>, p)
    \/ \E pos, off \in Points, size \in Sizes, fam, wt \in Fonts, d \in Datas, p \in Props :
          AddText(pos, off, size, fam, wt, d, p)

Spec == Init /\ [][Next]_vars

-----------------------------------------------------------------------------
(***************************************************************************)
(* How an XML reader sees the rendered document: the content of each      *)
(* <text> element, between the ">" that ends its start tag and its        *)
(* "</text>", as character data, in which "<" starts markup and "&" must  *)
(* start one of the five predefined entity references.                     *)
(***************************************************************************)
Entities ==
    (<<"a", "m", "p">> :> "&") @@ (<<"q", "u", "o", "t">> :> "\"") @@ (<<"a", "p", "o", "s">> :> "'")
    @@ (<<"l", "t">> :> "<") @@ (<<"g", "t">> :> ">")

RECURSIVE CharData(_, _)
CharData(cs, acc) ==
    IF cs = <<>> THEN [ok |-> TRUE, val |-> acc]
    ELSE IF Head(cs) = "<" THEN [ok |-> FALSE]
    ELSE IF Head(cs) = "&"
         THEN LET ends == {k \in 2..Len(cs) : cs[k] = ";"}
                  name == SubSeq(cs, 2, Min(ends) - 1)
              IN  IF ends = {} \/ name \notin DOMAIN Entities THEN [ok |-> FALSE]
                  ELSE CharData(SubSeq(cs, Min(ends) + 1, Len(cs)), Append(acc, Entities[name]))
    ELSE CharData(Tail(cs), Append(acc, Head(cs)))

TextContents(doc) ==
    LET opens == SetToSortSeq({k \in DOMAIN doc : doc[k] = "<text"}, <)
        gt(k) == Min({j \in k..Len(doc) : doc[j] = ">"})
        close(k) == Min({j \in gt(k)..Len(doc) : doc[j] = "</text>"})
    IN  [i \in DOMAIN opens |-> SubSeq(doc, gt(opens[i]) + 1, close(opens[i]) - 1)]

(* Every label a client gives to Text::SetData reads back unchanged from   *)
(* the document Document::Render writes: SetData's characters_to_replace  *)
(* turn each special character of the data into its entity, and           *)
(* Text::RenderObject writes the data between the tags.                    *)
LabelsReadBack ==
    LET cs == TextContents(Render(objects))
    IN  /\ Len(cs) = Len(given)
        /\ \A i \in DOMAIN cs : CharData(cs[i], <<>>) = [ok |-> TRUE, val |-> given[i]]

=============================================================================
