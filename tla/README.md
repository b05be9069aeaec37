# TLA+ models of TransportSystem

This directory holds TLA+ models of the transport catalogue in
`src/TransportSystem/`. It also holds the TLC configurations that check them.

## The system

One executable (`main.cpp`) runs in one of two modes, one after the other.
They share a protobuf snapshot file.

- **make_base** runs `Reader::JSON_BaseRequest`. It opens the output file
  first, which truncates it. It then feeds every `Bus` request to
  `TransportCatalogue::AddBus`. After that it feeds every `Stop` request to
  `AddStop` and to `AddLenghtBetweenStops`, once per road distance, in
  `std::map` key order. It builds `TransportRouter`: two vertices per stop, a
  wait edge in→out, and one ride edge for every pair of positions of every
  direction of every bus. Building the router also builds `graph::Router`'s
  all-pairs table. It then reads the render settings (`JSON_ReaderMapSettings`).
  Last, it writes catalogue, render settings and router with
  `proto::Serialization`.
- **process_requests** runs `Reader::JSON_StatRequest`. It reads the file with
  `proto::Deserialization`, which rebuilds the catalogue through the same
  `Add*` calls and restores the router's graph, table, `stop_vertexs_` and
  `info_about_edge`. Then it answers the `Bus`, `Stop`, `Map` and `Route`
  requests in order. An exception that escapes a handler ends the process.
- Both modes read their request document with `json::Load`. process_requests
  builds its answers with `json::Builder` and writes them with `json::Print`.

Everything runs in one thread, so there is no concurrency inside a process.
The hard behaviours are of three kinds:

- the order of calls, where a later call can silently keep or discard data;
- the graph and shortest-path construction;
- the file shared between two runs, which a failed or killed make_base can
  leave empty, cut short, or missing.

## Inventory

| Component | State | Operations | Modelled in |
|---|---|---|---|
| TransportCatalogue (`transport_catalogue.*`, `domain.h`) | `all_stops_`, `stops_`, `all_buses_`, `buses_`, `buses_in_stop_`, `length_between_stops_` | AddStop, AddBus, AddLenghtBetweenStops; GetInfoBus, GetInfoStop, GetLenghtBetweenStops | `TransportCatalogue` (operators), `CatalogueCalls` (calls in any order), refining `CatalogueSpec` |
| TransportRouter (`transport_router.*`, graph/router from spec 4.3) | settings, graph edges and incidence lists, router table, `stop_vertexs_`, `info_about_edge` | constructor (CreateGraph, CreateVertex, CreateEdge), GetRouteInfo | `TransportRouter`; reference `Journeys` |
| Serialization (`serialization.cpp`, `SaveToProto`, `Deserialize*`) | the snapshot file | Serialization, Deserialization | `TransportSystem` |
| Reader / Creator / main | which process runs | JSON_BaseRequest, JSON_StatRequest and the request loop | `TransportSystem` |
| RequestHandler | none of its own | GetBusStat, GetRouteStat, RenderMap | `TransportSystem`, `MapRender` |
| MapRender (`map_renderer.*`) | the render settings (palette kept) | RenderWay, RenderNameBus, RenderStop, RenderNameStop, SaveToProto, DeserializeMapRender, colour codec | `MapRender` (projection and layout left out) |
| json::Builder (`json_builder.*`) | `root_`, `nodes_stack_` | Value, Key, StartArray, StartDict, EndArray, EndDict, Build | `JsonBuilder`, refining `JsonFrames` |
| json parser and printer (`json.cpp`) | none (a stream position) | Load (LoadNode, LoadArray, LoadDict, LoadString, LoadBool, LoadNull, LoadNumber), Print (PrintNode, PrintString) | `Json` (printing doubles left out) |
| svg (`svg.*`) | `Document::objects_`; each object's fields and `PathProps` | Circle, Polyline and Text setters, `Document::Add`, `Document::Render`, `Text::SetData` | `Svg` (doubles printed only as integers) |
| SphereProjector, geo | none | float conversion | not modelled |

## Modules

- **TransportCatalogue** keeps the catalogue as one record value. Its fields
  follow the class members: stop pointers become stop names, and coordinates
  become a small set whose `Zero` is `{0., 0.}`.
  - `AddStopOp`, `AddBusOp` and `AddLenghtOp` are the three mutating methods,
    line by line. `AddBusOp` includes the record pushed with empty stops, the
    stops created on the fly, and the `std::find` dedup of `buses_in_stop_`.
  - `GetInfoBus`, `SummationLenght` and `GetInfoStop` are the queries. Their
    `.at` calls throw where the code's do, and the result is `Thrown`.
  - `IntPlusLength` is one step of SummationLenght's `transform_reduce`:
    the accumulator starts as the `int` 0, so `int + uint32_t` is computed
    unsigned and stored back in an `int`, wrapping modulo 2^32.
- **CatalogueCalls** calls the three methods in any order, with arguments
  drawn from small sets.
  - AddLenghtBetweenStops is enabled only when the `from` stop exists. On any
    other stop, `stops_.at` throws before anything changes.
  - The `written` variable records the last length passed for each pair. It
    is history only and exists for `LastDistanceWins`.
  - `Abstract` is `CatalogueSpec` under a refinement mapping: `stops_` with
    its coordinates, each name of `buses_` with the record it points at,
    `length_between_stops_`, and each stop's `buses_in_stop_` as a set.
- **CatalogueSpec** is the abstract catalogue of spec 3 and 4.1, with no
  containers or pointers. Stops have coordinates that only a default may
  have replaced. Buses have unique names. A distance is created for an
  existing `from`, creates `to`, and the last length given wins. Each stop
  has the set of buses that pass it.
- **TransportRouter** builds the graph from a catalogue.
  - `VertexOf` and `WaitEdges` model CreateVertex. `RideEdges` and
    `Directions` model the two loops of CreateEdge.
  - `RideWeight` is the running sum of CalculateTimeBetweenStations.
  - `Settle` and `RouteRow` model the router table: from each source, a least
    weight vertex is settled next and its edges are relaxed with a strict `<`.
    `EdgeChain` and `BuildRoute` follow the recorded last edges back through
    `edges[e].from`. These four come from spec 4.3, because `graph.h` and
    `router.h` are not among the sources.
  - Weights are scaled by 1000·velocity so they stay integers:
    wait = wait·1000·v and hop = len·60.
- **Journeys** is an independent reference for what a Route answer promises.
  - It defines legs: wait once, then ride one bus direction from one stop to
    any later one.
  - `BestTimes` relaxes over legs, not over the two-vertex graph.
  - `IsJourney` checks that the answer's items are a real chain of such legs.
- **MapRender** models the map of a Map request as a sequence of element
  records: bus lines, bus labels, stop circles and stop labels.
  - A point is the coordinates it is projected from. Sizes, offsets, fonts
    and the underlayer are layout, and are left out. Of the render settings
    only the palette is kept.
  - `RenderMap` follows `RequestHandler::RenderMap` loop by loop:
    - `DrawnBuses` and `DrawnStops` are the two `std::set`s. Only buses with
      stops are drawn.
    - Lines are drawn with a counter from 0, and the counter is reset before
      the labels.
    - `LabelStops` gives one label for a round trip or a line that ends where
      it starts, else two.
  - `PaletteColor` is `palette[counter % size()]`. With buses to draw and an
    empty palette, it is a division by zero (`Thrown`).
  - `JSON_ReaderColor` reads a colour from its JSON node, narrowing
    components to `uint8_t`.
  - `SetProtoColor` and `SetSvgColor` map the `svg::Color` alternatives to
    the oneof cases. The `.proto` file is not among the sources, so the field
    numbers are the constant `ColorCase`, which the MC modules set to 1..4 in
    variant order.
  - `OffsetsReadable` is false for an empty message: `DeserializeMapRender`
    indexes the two label offsets without a check.
- **TransportSystem** composes all of the above with the snapshot file and
  the two processes.
  - The `file` variable is none, empty, truncated or complete. A complete file
    carries the serialized data, plus the objects it was written from as
    history.
  - MakeBase truncates the file, ingests the Bus requests and then the Stop
    requests, and builds the router. If the build throws, the process ends.
    WriteSnapshot is proto::Serialization. KillMakeBase is a kill before or
    during the write.
  - MakeBase casts the routing settings to `unsigned short`
    (`JSON_ReaderRoutingSetings`, `% 65536`) and reads the palette. `mb`
    keeps the settings the document asked for as history.
  - ProcessRequests loads the file. A missing or cut file gives an empty
    catalogue, a null router and the default (empty) palette. An empty file
    parses as the empty message.
  - LoadCrash models undefined behaviour: reading the absent label offsets of
    the empty message can crash before any request is read.
  - ProcessRequests also picks the length of the `stat_requests` array
    (`pending`, at most `MaxRequests`). Each Bus, Stop, Map and Route
    request handles the next one, and FinishRequests prints the answers once
    none are left. A throw out of a handler ends the process (`terminated`).
    A Map answer is the dictionary `{"map": document}`.
  - A Bus request for a route with no stops is undefined behaviour
    (`Undefined`: `pop_back` on an empty deque, or `std::next` past
    `end()`). The process then either ends or returns something unspecified.
  - The `SaveRouter` operator writes `to = from` exactly as
    `SaveGraphToProto` does.
- **JsonFrames** is the abstract specification of the response builder
  from spec 9. It keeps a stack of frames, each tagged with what it
  expects: an array takes values, a dict takes a key and then a value.
  - Every call succeeds or fails fast against the top frame, and a failed
    call leaves everything as it was.
  - Once a whole value has been given, only Build succeeds, and it returns
    that value.
- **Svg** models the svg library that the map is drawn with.
  - `objects` is `Document::objects_`. AddCircle, AddPolyline and AddText
    each build one object with its setters and hand it to
    `ObjectContainer::Add`. The inputs are the settings MapRender uses.
  - `Render` is `Document::Render`, written as a sequence of tokens. Each
    literal the code writes is one token, a number is its decimal text,
    and a Text's data is written one character per token.
  - `SetData` follows `Text::SetData` loop by loop (`ReplaceFrom`): each
    search starts at `pos + 1`, with `pos = 0` at first, and goes on one past
    each replacement.
  - `given` records the string given to each SetData, as history.
    `CharData` reads an element's content the way an XML reader does.
- **Json** models `json::Load` and `json::Print` over text made of
  one-character strings from a small alphabet (`Chars`, in ASCII order).
  - A reader position is the index of the next unread character.
    `Extract` is `input >> c`: it skips white space and fails at the end.
    A `putback` is the position of the character put back.
  - `LoadNode` dispatches on the first character. `LoadArray` reads until
    `]` and puts back anything but a comma, so `[1 2]` and `[,1]` are both
    read as `[1, 2]` and `[1]`. `LoadDict` skips commas and needs a quoted,
    unseen key and a colon. `LoadString` takes five escapes and refuses a
    raw line break. `LoadNumber` follows the JSON number grammar; an
    integer in `int` range is an int (`FitsInt`, `StoiValue`), and any other
    number is a double, kept as its text.
  - `PrintNode` follows PrintValue: a string is quoted with four escapes;
    an int is printed in decimal; arrays and dicts put each element on its
    own line, indented four more, separated by `",\n"`; dict keys come in
    `std::string` order (`StrLess`).
  - Not modelled: how a double is printed (six significant digits), and
    `stod`'s range error.
- **JsonBuilder** models `json::Builder` call by call.
  - `root_` is null until the document is complete.
  - `nodes_stack_` holds the open containers. The key of a dict sits above
    it as a string node until the key's value arrives.
  - The contexts returned by `Key`, `StartDict` and `StartArray` only
    forward to the builder, so every call is modelled on the builder itself.
  - `BuilderImplementsFrames` is `JsonFrames!Spec` under a refinement
    mapping. A set `root_` maps to the document. A dict node followed by a
    key node maps to a dict frame expecting that key's value.

The MC modules (`MCCatalogueCalls`, `MCTransportSystem`, `MCJsonBuilder`, `MCSvg`) give the constants
model values and small definitions.

## Runs

| Run | Checks | Result |
|---|---|---|
| catalogue_calls | `TypeOK`; `StopStatsMatchRoutes` (Stop answers list exactly the buses whose route passes the stop, sorted, once each); `MapLineMatchesBusStats` (the polyline of each bus on the map has as many points as its Bus statistics count stops); `LabelColorMatchesLine` (each bus label has its line's colour); `CatalogueImplementsSpec` (refinement: every sequence of calls is a behaviour of `CatalogueSpec`, so refined coordinates are never overwritten and no stop loses a bus) | pass, 87,927 states |
| catalogue_last_write | `LastDistanceWins` (spec 4.1) | violation: insert keeps the first length |
| catalogue_overflow | `RouteLengthCoversHops` (route_length is at least every hop of the route) with distances of 2^30 | violation: a line A, B with A->B = 2^30 reports route_length -2^31 |
| system | `ItineraryOptimal` (while make_base holds the router, every Route answer is "not found" exactly when no journey exists; otherwise it is a valid journey of least time under the settings the document gave), `RoundTripEquivalent` (a complete snapshot read back answers every Bus, Stop, Map and Route request as the written objects do) | pass, 36,087 states |
| system_graph_snapshot | `SnapshotGraphFaithful` | violation: the edges read back are self-loops |
| system_self_hop | `BusStatsWhenRouterBuilt` | violation: a stop followed by itself has distance 0 for the router, but SummationLenght throws. A bus with no stops builds a router too, and its statistics are undefined behaviour. The documents hold both cases, and TLC reports whichever it reaches first |
| system_request_crash | `RequestsNeverTerminate` | violation. Two requests end process_requests: a Map request with `"color_palette": []` divides by zero, and a Route request naming an unknown stop throws uncaught. The documents and queries hold both, both are 5 steps deep, and TLC reports the first it reaches, the Map request |
| system_lost_snapshot | `ServesOnlyCompleteSnapshot` | violation: process_requests serves from a missing file |
| system_wait_wrap | `ItineraryOptimal` | violation: `bus_wait_time` 65536 becomes 0 |
| json_builder | `TypeOK` (key nodes only directly above dicts; a set root means an empty stack), `PrintedDocumentReloads` (every built document, printed by json::Print, reads back through json::Load unchanged), `BuilderImplementsFrames` (refinement) | pass, 452,792 states |
| svg_labels | `LabelsReadBack` (each label given to `Text::SetData` reads back unchanged from the rendered document) | violation: a label `<1>` is written as `<1&gt;`, because the search skips index 0 |
| json_builder_null_root | `BuilderImplementsFrames` with `Value(nullptr)` allowed | violation: a null root is taken for no root |

Every property of a passing run has a mutant in `PROJECT.json`, and TLC finds
that property violated once the mutant is in place:

- AddLenghtBetweenStops accepting an unknown `from` stop;
- AddBus without the dedup;
- AddStop overwriting any coordinates (breaks the refinement);
- CreateEdge without the return direction;
- SaveLenghtToProto with `from` and `to` swapped;
- Key without its IsDict check;
- EndDict/EndArray popping an inner container without handing it to Value;
- RenderWay drawing the return leg without `pop_back`;
- RenderMap without the counter reset before the label loop;
- PrintString without the `'"'` case label.

## Bounds and why they suffice

**Catalogue.** Three stops, two buses and two coordinates, with `Here` as the
default. Five routes cover:

- a single stop;
- a plain line;
- a route that revisits a stop (`A,B,A`);
- a route that creates a new stop;
- a three-stop route.

There are three distance pairs: forward, backward and to a third stop. At most
two AddBus calls are made. These reach the dedup, on-the-fly stop creation, the
refinement of default coordinates, and the first-wins insert. The map is drawn
with a palette of three colours (a string, another string and an Rgb). With
two buses, a label coloured from an unreset counter takes a different colour.

**System.** One make_base per behaviour (`MaxBaseRuns = 1`); a failed or killed
run is the interesting case and happens within one. Documents combine these
choices (1080 in all):

- bus b1 is one of three routes, either a loop or not: a line, a revisiting
  loop, or a reversed pair;
- bus b2 is one of three routes, one of them with no stops;
- A, B and C have alternative road-distance maps, including one-way-only
  distances and a missing distance that makes the router throw;
- the wait time is 0 or 1;
- the palette holds a named colour, an Rgb and an Rgba array.

The violation runs use their own small documents: `MCRepeatDocuments`
(a stop repeated in a row, an empty route), `MCNoPaletteDocuments` (an empty
palette, queried with the unknown stop Z) and `MCWrapDocuments` (a wait of
65536).

`catalogue_overflow` uses the catalogue bounds with the single length 2^30:
a line of two stops, or the loop A, B, A, is then 2^31 long, one past
`INT_MAX`. The refinement in `catalogue_calls` uses one length per pair, so
the first and last writes agree there. `catalogue_last_write` shows that
they differ with two lengths.

A process_requests document holds at most two requests (`MaxRequests = 2`).
That is enough for a Map request after a Bus request, and for a request
after an answer.

Velocity is fixed at 1, because weights are scaled by it.

**Builder.** Two keys, so a repeated key is reached, and one value. A key
is `"\"\\"` and needs two escapes when printed. The value is an array
(Value takes any Node) of a negative int, a string of `\n`, `\t` and `\r`,
`true` and `null`. It reaches every branch of the printer and the reader.
A second value multiplies the states past what a run can afford.
A state constraint (`Bounded`) allows at most 3 stack entries, keys
included, and at most 2 items per open array. That reaches arrays in dicts,
dicts in arrays, closing the wrong kind, a key after a key, and calls after
completion.

**Svg.** At most three objects, from two points, the four PathProps
settings MapRender gives its objects (a named colour, an Rgb and an Rgba
among them), and two fonts (none, and `Verdana`). There are two labels.
`A & B` has a special character inside, and `<1>` starts with one. One
label is enough to show the skipped index; the others take the document
past one object.

## Fairness

No fairness is assumed and no liveness property is checked. Each invocation
is one single-threaded process, and nothing it calls blocks. process_requests
makes one pass of a range-for over its finite `stat_requests` array. In the
model, `pending` counts the requests that remain. ProcessRequests sets it,
and after that every request step (`Answer`) lowers it. So the end of an invocation under weak fairness
would follow from the shape of the model, not from anything the code could
get wrong. The properties that matter here are all safety properties.

## Findings

`PROJECT.json` lists them with their source lines:

- the graph is serialized with `to = from`;
- the first distance for a pair wins;
- a same-stop hop throws in Bus statistics;
- an unknown stop in a Route request terminates process_requests;
- missing, empty or cut snapshots are served silently;
- a label that starts with `&`, `"`, `'`, `<` or `>` is written unescaped
  into the map's svg document;
- `Value(nullptr)` as the whole document never completes the builder;
- an empty `color_palette` crashes a Map request;
- `bus_wait_time` wraps at 65536;
- a bus with no stops makes its Bus statistics undefined behaviour;
- route_length wraps to a negative number once a route passes 2^31 - 1 metres.

## Not modelled

- The sphere projection and geodesic lengths, which are floating-point
  arithmetic, and how the svg output prints a double other than a small
  integer. No property tells their results apart.
  How the JSON printer writes a double is left out for the same reason.
  Left out with it is SphereProjector's `IsZero` edge: an axis whose span
  is below 1e-6 degrees loses its own zoom but is still scaled by the
  other axis's zoom, so its points can leave the canvas. This is listed
  as a hazard without a property.
- `json.h` is not among the sources, so the Node accessors (`AsInt`,
  `AsDouble` and the rest) are known only from their uses. The `Node`
  methods in `json.cpp` from line 364 on are commented out.
- The render settings other than the palette: sizes, offsets and fonts are
  layout. This includes the unchecked `arr[0]`, `arr[1]` reads of the label
  offsets (`json_reader.cpp:262`).
- A velocity of 65536, which becomes 0 and makes ride times infinite in
  `double`. The integer model cannot represent infinity.
- A bus added twice under one name. Spec 2 gives a bus a unique name, so
  the spec does not say what a repeated name should do, and the
  catalogue_calls inputs keep names unique. The code repoints `buses_`
  and leaves the old record in `all_buses_`, and the old stops keep
  listing the bus. The TransportCatalogue models do this, and the hazard
  is listed without a property.
- The composition of MapRender with Svg. Stop and bus names are model
  values in the catalogue models, and `Svg` takes its labels as character
  strings of its own.
- The `map.svg` file that `JSON_ResponseRequesMap` also writes.
- Float rounding of route times: spec 4.2 treats the sums as exact.

## Plan for later work

1. Two make_base runs, to show a failed rebuild destroying a good snapshot.
2. The triangle property of the shortest-path table (spec 8).
3. The SphereProjector with rational coordinates, to show points leaving
   the canvas at the `IsZero` edge (`map_renderer.h:46`).
4. Stop and bus names as character strings, so that MapRender's labels
   go through `Svg`'s SetData.
