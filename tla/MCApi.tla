-------------------------------- MODULE MCApi --------------------------------
(* Servers as they may be started, requests for tiles with anything that can  *)
(* be wrong with them, and layers over rasters that turn and shift; graphs of *)
(* up to two loads and a module, published and previewed, and boxes that a    *)
(* preview frames; and the objects that are kept of tiles and modules, found  *)
(* again by a store that failed, lost some of them, or was tampered with.     *)
EXTENDS HttpSurface, OpenEoSurface, TLC

Store == INSTANCE ObjectStores
Written == INSTANCE MCCompiler

\* The files of a viewer: an ordinary one, and some that a route may cover.
Entry == <<"index.html">>
Covered == {<<"tiles", "app.js">>, <<"result">>, <<"healthz">>, <<"services", "app.js">>}
Files == {Entry, <<"assets", "app.js">>} \cup Covered

Servers ==
  [catalog : BOOLEAN, read_only : BOOLEAN, local_root : BOOLEAN, bundle : SUBSET Files,
   origins : {<<>>, <<"home">>, <<"unprintable", "home">>, <<"home", "*">>}]

Paths ==
  {[i \in DOMAIN r.path |-> IF r.path[i] = "*" THEN "x" ELSE r.path[i]] :
     r \in OgcRoutes \cup OpenEoRoutes \cup GranuleRoutes \cup SourceRoutes \cup DatasetRoutes \cup UploadRoutes}
Methods == {"GET", "POST", "PUT", "DELETE"}
Browser == [given |-> "text", media |-> {"text/html", "*/*"}]
Accepts == {[given |-> "none", media |-> {}], [given |-> "bytes", media |-> {}], Browser,
            [given |-> "text", media |-> {"application/json"}], [given |-> "text", media |-> {"image/png"}]}

Granules == {Answer(<<>>), Answer(<<"g">>), Answer(<<"g", "h">>), Failure("NotFound")}
TileRequests ==
  [matrix : {None, 0, 2, 3, 7}, row : {None, 0, 1, 3, 9}, col : {None, 0, 3}, accept : Accepts,
   datetime : {"absent", "interval", "malformed"}, resolve : Granules, render : {"done", "failed"}]

Raster(width, x, scale, turn, fault) ==
  [width |-> width, height |-> 2, x |-> x, y |-> -x, scale |-> scale, turn |-> turn, shift |-> x \div 2, fault |-> fault]
Rasters ==
  {Raster(width, x, scale, turn, fault) :
     width \in {1, 3}, x \in {-4, 2}, scale \in {<<1, -1>>, <<2, 1>>, <<-1, 0>>}, turn \in {<<0, 0>>, <<1, -1>>},
     fault \in {"none", "Describe"}}
LayersOver == {<<>>, <<1>>, <<1, 2>>, <<2, 1, 2>>}

\* ConfiguredLayers layers, of which two may have one id.
ConfiguredLayers ==
  {[i \in DOMAIN ids |-> [id |-> ids[i], dataset |-> IF i = 1 THEN None ELSE i, sources |-> i]] :
     ids \in {<<>>, <<"a">>, <<"a", "b">>, <<"a", "b", "a">>}}

\* Sources, and what was recorded of them.
Rows == {[id |-> i, requester_pays |-> i = 2, target |-> [scheme |-> IF i = 3 THEN "http" ELSE None],
          credential |-> IF i = 1 THEN "p" ELSE None] : i \in 1..3}
Event(kind, at, detail) == [kind |-> kind, at |-> at, detail |-> detail]
Histories ==
  [1..3 -> {<<>>, <<Event("consented", 1, 5), Event("failed", 2, 3)>>, <<Event("failed", 2, 3), Event("ingested", 2, 0)>>,
            <<Event("credential_missing", 1, 1), Event("polled", 2, 0), Event("credential_resolved", 3, 0)>>}]

RouteAsked ==
  << [ask : {"server"}, of : Servers], [ask : {"tile"}, of : TileRequests],
     [ask : {"bounds"}, of : [rasters : [1..2 -> Rasters], assets : LayersOver]],
     [ask : {"tileset"}, of : [layers : ConfiguredLayers, id : {"a", "c"}, resolve : Granules]],
     [ask : {"sources"}, of : [sources : SUBSET Rows, events : Histories]] >>

RouteAnswer(q) ==
  CASE q.ask = "server" ->
         [capabilities |-> Capabilities(State(q.of)), home |-> [a \in Accepts |-> Landing(State(q.of), a)],
          replies |-> [m \in Methods, p \in Paths \cup Files |-> Serve(q.of, m, p)],
          allowed |-> {o \in {"home", "away"} : CorsAllows(q.of, o)}]
    [] q.ask = "tile" -> TileReply(q.of)
    [] q.ask = "bounds" -> LayerBounds(Range(q.of.assets), q.of.rasters)
    [] q.ask = "tileset" -> Tileset(LayerRegistry(q.of.layers), q.of.id, q.of.resolve, Answer("bounds"))
    [] q.ask = "sources" ->
         [list |-> ListSources(q.of.sources, q.of.events),
          one |-> [id \in 1..3 |-> OneSource(q.of.sources, q.of.events, id)]]

------------------------------------------------------------------------------
Concrete(path) == [i \in DOMAIN path |-> IF path[i] = "*" THEN "x" ELSE path[i]]

\* What the landing page advertises is served, and every operation that
\* changes something is advertised: of a read-only server, none.
AsAdvertised(server, answer) ==
  LET offered == UNION {[method : e.methods, path : {Concrete(e.path)}] : e \in answer.capabilities}
      changing == {c \in (Methods \ {"GET"}) \X Paths : answer.replies[c].status = 200}
      changes == {[method |-> c[1], path |-> c[2]] : c \in changing}
  IN /\ \A o \in offered : answer.replies[o.method, o.path] = [by |-> "route", status |-> 200]
     /\ changes \subseteq offered
     /\ server.read_only => \A c \in changes : c.path = <<"result">>
     /\ ~server.local_root => \A c \in changes : Head(c.path) # "uploads"

\* Exemption: first segments of routes that API_ROUTE_PREFIXES does not list,
\* though it is to hold those of the API routers (ui.rs:34-40).  MCDocuments
\* asks for a file there.
Unlisted ==
  {Head(p) : p \in {q \in Paths : q # <<>>}} \ ApiRoutePrefixes

\* The files of the viewer are served beside the routes and never in their
\* place, and the prefixes tell which files a route may cover; a browser is
\* shown the viewer, and a client the document.
BundleBeside(server, answer) ==
  LET whole == Entry \in server.bundle
  IN /\ \A m \in Methods, p \in Paths : ~whole => answer.replies[m, p].by # "bundle"
     /\ \A p \in server.bundle :
          CollidesWithApiRoutes(p) \/ Head(p) \in Unlisted \/ ((answer.replies["GET", p].by = "bundle") <=> whole)
     /\ \A r \in Mounted(server) : answer.replies[r.method, Concrete(r.path)].by = "route"
     /\ \A a \in Accepts : (answer.home[a] = "viewer") <=> (whole /\ a = Browser)

OriginsListed(server, answer) ==
  answer.allowed = {o \in {"home", "away"} : o \in Range(server.origins) \/ "*" \in Range(server.origins)}

\* The refusals that a tile request has coming, whatever the order.
TileFaults(req) ==
  LET outside == {n \in {req.row, req.col} \ {None} : req.matrix \in 0..MaxTileMatrix /\ n >= 2^req.matrix}
  IN (IF req.matrix \notin 0..MaxTileMatrix \/ outside # {} THEN {"NotFound"} ELSE {})
     \cup (IF None \in {req.row, req.col} THEN {"BadRequest"} ELSE {})
     \cup (IF req.accept.given = "bytes" \/ req.datetime = "malformed" THEN {"BadRequest"} ELSE {})
     \cup (IF req.accept.given = "text" /\ req.accept.media \cap {"*/*", "image/png"} = {} THEN {"NotAcceptable"} ELSE {})
     \cup ({req.resolve.error} \ {"none"})
     \cup (IF req.render = "failed" THEN {"Internal"} ELSE {})

\* Exemption: an integer beyond u32, which by routes.rs:717-720 is out of the
\* matrix, and not found.  MCDocuments asks for it.
BeyondWord(req) == \E n \in {req.row, req.col} \ {None} : n > WordMax

\* A tile is refused for a fault that it has, and shown where it has none:
\* the tile at the asked row and column, with the granules it was made of.
TileAnswered(req, answer) ==
  IF TileFaults(req) # {}
  THEN BeyondWord(req) \/ (answer.error \in TileFaults(req) /\ Status[answer.error] >= 400)
  ELSE /\ answer.error = "none"
       /\ answer.value.coord = [z |-> req.matrix, x |-> req.col, y |-> req.row]
       /\ req.resolve.value = <<>> <=> answer.value.temporal = None
       /\ answer.value.temporal # None =>
            /\ answer.value.temporal.granule = req.resolve.value[1]
            /\ answer.value.temporal.sources \in {<<>>, req.resolve.value}

\* The bounds of a layer hold every pixel of its rasters, and no more than
\* the corners ask for.
Corners(raster) == {<<x * SamplesPerEdge, y * SamplesPerEdge>> : x \in {0, raster.width}, y \in {0, raster.height}}
BoundsHold(of, answer) ==
  LET used == {of.rasters[a] : a \in Range(of.assets)}
      at == UNION {{OnEarth(r, c) : c \in Corners(r)} : r \in used}
  IN IF used = {} \/ \E r \in used : r.fault # "none" THEN answer.error = "Internal"
     ELSE answer = Answer(Hull(at))

TilesetAnswered(of, answer) ==
  LET with == {i \in DOMAIN of.layers : of.layers[i].id = of.id}
  IN IF with = {} THEN answer.error = "NotFound"
     ELSE IF of.resolve.error # "none" THEN answer.error = of.resolve.error
     ELSE /\ answer.value.granules = (LET last == Max(with) IN of.layers[last].dataset)
          /\ answer.value.sources \in {None, Max(with)}

\* The list is in the order of the ids and shows of each source what its own
\* page does; a source that is called reachable did something and has not
\* failed since.
SourcesListed(of, answer) ==
  LET shown == {answer.list[i].id : i \in DOMAIN answer.list}
  IN /\ shown = {s.id : s \in of.sources}
     /\ \A i, j \in DOMAIN answer.list : i < j => answer.list[i].id < answer.list[j].id
     /\ \A i \in DOMAIN answer.list : answer.one[answer.list[i].id] = Answer(answer.list[i])
     /\ \A id \in (1..3) \ shown : answer.one[id] = Failure("NotFound")
     /\ \A i \in DOMAIN answer.list :
          LET events == of.events[answer.list[i].id]
              failures == {k \in DOMAIN events : events[k].kind \in {"failed", "credential_missing"}}
          IN answer.list[i].row.reachable = "true" <=>
               \E k \in DOMAIN events : \A f \in failures : events[k].at > events[f].at

\* A module that is published fits into the body of a request, in base64.
ModuleFits == 4 * ((ModuleMax + 2) \div 3) <= GraphBodyLimit

RouteSound(q, answer) ==
  CASE q.ask = "server" ->
         AsAdvertised(q.of, answer) /\ BundleBeside(q.of, answer) /\ OriginsListed(q.of, answer) /\ ModuleFits
    [] q.ask = "tile" -> TileAnswered(q.of, answer)
    [] q.ask = "bounds" -> BoundsHold(q.of, answer)
    [] q.ask = "tileset" -> TilesetAnswered(q.of, answer)
    [] q.ask = "sources" -> SourcesListed(q.of, answer)

------------------------------------------------------------------------------
Box(west, south, east, north) == [west |-> west, south |-> south, east |-> east, north |-> north]
Here == Box(-3, -2, -1, 1)
There == Box(0, 0, 4, 2)

\* Loads, with what they name of the collection and of the extent.
Omitted == [t |-> "absent"]
Boxed(bbox) == [t |-> "box", bbox |-> bbox]
Rgb == Written!Items([i \in 1..3 |-> Written!Str(<<"b">>)])
WithArgs(process, args) == Written!N(process, [a \in {x \in DOMAIN args : args[x] # Omitted} |-> args[a]])
LoadOf(bands, id, extent) == WithArgs("load_collection", [id |-> id, bands |-> bands, spatial_extent |-> extent])
Load(id, extent) == LoadOf(Rgb, id, extent)
D == Written!Str("d")

SomeLoads ==
  {Load(D, extent) : extent \in {Omitted, Written!Null, Boxed(Here), [t |-> "junk"], Boxed(Box(1, 0, -1, 1))}}
  \cup {Load(Written!Str("e"), Boxed(There)), Load(Omitted, Boxed(There))}

\* The node before a node, and the processes of these graphs.
From(i) == Written!Ref(<<i>>)
Save(i) == Written!Result(WithArgs("save_result", [data |-> From(i), format |-> Written!Str("png")]))
Udf(i, module) == WithArgs("run_udf", [data |-> From(i), runtime |-> Written!Str("wasm"), udf |-> module])
NdviOf(i) == WithArgs("ndvi", [data |-> From(i), nir |-> Written!Str(<<"b">>), red |-> Written!Str(<<"b">>)])
Difference == CHOOSE r \in Written!Resolvers : Cardinality(DOMAIN r.nodes) = 1 /\ r.nodes[Written!R1].process = "subtract"
Join(i, j) == WithArgs("merge_cubes", [cube1 |-> From(i), cube2 |-> From(j), overlap_resolver |-> Difference])

Inlined == [t |-> "inline", module |-> Written!Module1]
AtUrl(url) == [t |-> "url", url |-> url]
Shown(load) == <<load, Save(1)>>
WithUdf(load, module) == <<load, Udf(1, module), Save(2)>>
Joined(one, other) == <<one, other, NdviOf(1), NdviOf(2), Join(3, 4), Save(5)>>

\* Graphs over what is loaded, and some that do not compile.
Sound ==
  {Shown(l) : l \in SomeLoads} \cup {WithUdf(l, Inlined) : l \in SomeLoads}
  \cup {Joined(p[1], p[2]) : p \in SomeLoads \X {Load(D, Boxed(There)), Load(D, Omitted)}}
  \cup {WithUdf(Load(D, Boxed(There)), AtUrl(url)) : url \in {"u1", "u2"}}
Unsound ==
  {<<Save(1)>>, Shown(LoadOf(Written!Items(<<Written!Str(<<"q">>)>>), D, Omitted)),
   <<Load(D, Omitted), WithArgs("mystery", [data |-> From(1)]), Save(2)>>}

Plain(nodes) == [nodes |-> nodes, meta |-> "m"]
First == Plain(Shown(Load(D, Omitted)))
Processes == {Plain(nodes) : nodes \in Sound \cup Unsound} \cup {None, [First EXCEPT !.nodes = None]}

Size(value) == [name |-> "tile_size", value |-> value]
Configurations ==
  {None, NotAnObject, <<>>, <<Size(512)>>, <<Size(100)>>, <<[name |-> "colour", value |-> 1], Size(100)>>}
Body(process) ==
  [type |-> "xyz", enabled |-> None, process |-> process, configuration |-> <<Size(512)>>, title |-> None, description |-> None]
Bodies ==
  {Body(process) : process \in Processes}
  \cup {[Body(First) EXCEPT !.configuration = configuration, !.title = title] :
          configuration \in Configurations, title \in {None, "t"}}
  \cup {[Body(process) EXCEPT !.type = type, !.enabled = enabled, !.configuration = configuration] :
          process \in {None, First}, type \in {"xyz", "wmts"}, enabled \in {None, "yes", "no"}, configuration \in {None, NotAnObject}}

Layer(id, title, process) ==
  [id |-> id, title |-> title, description |-> "", tile_size |-> 256, process |-> process]
Dataset(id, bbox, layers) == [id |-> id, bbox |-> bbox, interval |-> <<1, 2>>, bands |-> <<<<"b">>>>, layers |-> layers]
Marked == [First EXCEPT !.meta = "n"]
Catalogs ==
  {<<>>, <<Dataset("d", There, <<Layer(<<"xyz-", Marked>>, "other", Marked)>>)>>,
   <<Dataset("c", Here, <<Layer(<<"ndvi">>, "n", None)>>),
     Dataset("d", There, <<Layer(<<"true">>, "t", None), Layer(<<"xyz-", First>>, "old", First),
                           Layer(<<"xyz-", Plain(WithUdf(Load(D, Omitted), Inlined))>>, "run", Plain(WithUdf(Load(D, Omitted), Inlined)))>>)>>}

\* A mebibyte, that a window of 1024 by 1024 pixels of a byte has.
MiB == 1048576
Budgets == [bytes : {None, MiB - 1, 20 * MiB}, fuel : {4}, oversample : {<<6, 5>>}]
Webs == {None, "u1" :> Written!Module1}
Apps == [catalog : Catalogs, udf : Webs, budget : Budgets]

BandOver(side, bytes, overviews) ==
  <<[cols |-> <<side, 1>>, rows |-> <<side, 1>>, bytes |-> bytes, overviews |-> overviews]>>
Rendered == {[kind |-> "done"], [kind |-> "Source"]} \cup [kind : {"Udf"}, of : {"FuelExhausted", "Trap", "UnknownModule"}]
Scene(granules, bbox, bands, rendered) ==
  [status |-> 200, granules |-> granules, bbox |-> bbox, bands |-> bands, render |-> rendered]
\* Of one mebibyte, eight, and more.
Scenes ==
  {Scene(<<Here>>, Here, BandOver(w[1], w[2], overviews), [kind |-> "done"]) :
     w \in {<<1024, 1>>, <<2048, 2>>, <<4096, 1>>}, overviews \in {<<>>, <<2, 4>>}}
  \cup {Scene(<<>>, bbox, BandOver(512, 1, <<>>), rendered) : bbox \in {None, Here}, rendered \in Rendered}
  \cup {[Scene(<<>>, None, BandOver(512, 1, <<>>), [kind |-> "done"]) EXCEPT !.status = status] : status \in {404, 500}}

------------------------------------------------------------------------------
(* Objects *)

NoObjects == [objects |-> <<>>, fault |-> "none"]
Failing(store, fault) == [store EXCEPT !.fault = fault]

Key == <<"aa", "bb", "cc">>
Keys == {Key, <<"aa", "bb", "dd">>, <<"aa">>}
Types == {<<>>, <<1>>, <<1, 2>>, [i \in 1..ByteMax |-> 1], [i \in 1..(ByteMax + 1) |-> 1]}
CachedTiles ==
  [ask : {"tile"}, tile : [type : Types, bytes : {<<>>, <<1>>, <<2, 1, 0>>}], other : Keys,
   then : [type : {<<2>>, [i \in 1..(ByteMax + 1) |-> 1]}, bytes : {<<3>>}], fault : {"none", "full", "down"}]

\* A tile is kept, and then another, where calls may fail; every way to cut
\* the frame short, to follow another version, or to be no text.
CachedTile(q) ==
  LET first == Store!PutTile(NoObjects, Key, q.tile)
      second == Store!PutTile(Failing(first.store, q.fault), q.other, q.then)
      frame == Store!Encode(q.tile).value
  IN [first |-> first.error, second |-> second.error,
      found |-> [k \in Keys |-> Store!GetTile(Failing(second.store, "none"), k)],
      meanwhile |-> Store!GetTile(second.store, Key),
      cut |-> IF first.error # "none" THEN <<>> ELSE [n \in 1..Len(frame) |-> Store!Decode(SubSeq(frame, 1, n - 1))],
      foreign |-> IF first.error # "none" THEN {}
                  ELSE {Store!Decode(<<2>> \o Tail(frame)),
                        Store!Decode(<<Store!FrameVersion, 1, ByteMax>> \o q.tile.bytes)}]

Strings == {<<>>} \cup {<<a>> : a \in 1..2} \cup {<<a, b>> : a \in 1..2, b \in 1..2}
KeyInputs ==
  [layer : Strings, version : Strings, plan : Strings, tms : {<<>>, <<1>>},
   coord : [z : {1}, x : {1, ByteMax + 2}, y : {1, 2}], tile_size : {1, ByteMax + 1}]

TooLarge == [hash |-> <<"ab", "cd", "02">>, len |-> ModuleMax + 1]
Wasm(hash) == [hash |-> hash, len |-> 5]

Address(scheme) == [scheme |-> scheme, path |-> "m"]
Downloads ==
  [status : {"ok"}, declared : {5}, body : {Wasm(<<"ab", "cd", "ef">>), None, TooLarge}]
  \cup [status : {"ok"}, declared : {ModuleMax, ModuleMax + 1}, body : {[hash |-> <<"ab", "cd", "01">>, len |-> ModuleMax]}]
  \cup [status : {"missing", "failing"}, declared : {0}, body : {None}]

Inline(characters, module) == [t |-> "inline", characters |-> characters, module |-> module]
At(scheme) == [t |-> "url", url |-> Address(scheme)]
Encoded(n) == ((n + 2) \div 3) * 4
Arguments ==
  {None, At("http"), At("https"), At("ftp"), [t |-> "other"], Inline(8, None), Inline(8, Wasm(<<"ab", "cd", "ef">>)),
   Inline(Encoded(ModuleMax) + 4, TooLarge), Inline(Encoded(ModuleMax + 1), TooLarge)}
  \cup {Inline(Encoded(ModuleMax), [hash |-> <<"ab", "cd", "01">>, len |-> ModuleMax])}
Run(id, arg) == [id |-> id, process |-> "run_udf", udf |-> arg]
Graphs ==
  {<<[id |-> "l", process |-> "load_collection", udf |-> None], Run("a", arg)>> : arg \in Arguments}
  \cup {<<Run("a", x), Run("b", y), Run("c", At("http"))>> : x \in Arguments, y \in {At("https"), At("http"), None}}

\* What happens to the store before a graph is published and after it: it
\* fails, or what it holds of a module is lost or replaced.
PublishedModules ==
  [ask : {"module"}, graph : Graphs, http : Downloads, https : {d \in Downloads : d.body \in {None, Wasm(<<"ab", "cd", "ef">>)}},
   before : {"none", "down", "full", "damaged"}, after : {"none", "down", "lost", "damaged"}]

Happens(store, what, hash) ==
  LET path == Store!ModulePath(hash)
  IN CASE what = "damaged" -> Store!With(store, path, TooLarge)
       [] what = "lost" -> [store EXCEPT !.objects = [p \in DOMAIN store.objects \ {path} |-> store.objects[p]]]
       [] OTHER -> Failing(store, what)

WebOf(q) ==
  (Address("http") :> q.http) @@ (Address("https") :> q.https)
  @@ (Address("ftp") :> [status |-> "failing", declared |-> 0, body |-> None])

\* The module that a graph compiles to, of the one node that runs one.
Compiled(graph, modules) ==
  LET runs == SelectSeq(graph, LAMBDA node : node.process = "run_udf")
      source == Store!ParseSource(Head(runs).udf)
  IN IF Len(runs) # 1 \/ Head(runs).udf = None \/ source.error # "none" THEN None
     ELSE IF source.value.t = "inline" THEN source.value.module
     ELSE IF source.value.url \in DOMAIN modules THEN modules[source.value.url] ELSE None

Restarted(q, compiled, put) ==
  LET back == Store!RehydrateService(TRUE, Happens(Failing(put.store, "none"), q.after, put.reply.value),
                                     [code_hash |-> put.reply.value, process |-> q.graph])
  IN [back |-> back.error,
      again |-> IF back.error = "none" THEN Compiled(q.graph, Store!Applied(back.value)) ELSE None]

Persisted(q, compiled, put) ==
  [published |-> put.reply.error, module |-> compiled]
  @@ (IF put.reply.error = "none" THEN Restarted(q, compiled, put) ELSE <<>>)

\* A publication up to its module, and the restart after it.
PublishedModule(q) ==
  LET resolved == Store!Resolve(WebOf(q), q.graph)
      compiled == IF resolved.error = "none" THEN Compiled(q.graph, Store!Applied(resolved.remote)) ELSE None
  IN [resolved |-> resolved]
     @@ (IF compiled = None THEN [published |-> "refused"]
         ELSE Persisted(q, compiled, Store!PutModule(Happens(NoObjects, q.before, Store!CodeHash(compiled)), compiled)))

RootAt(place) == [s3 |-> place = "bucket", place |-> place, prefix |-> "p"]
RootsAsked ==
  [ask : {"roots"},
   cfg : [catalog : BOOLEAN, store_root : {RootAt("here"), RootAt("bucket")}, cache : {None, RootAt("here"), RootAt("there")},
          udf_store : {None, RootAt("bucket"), RootAt("there")}],
   build : [wasm : BOOLEAN, host : BOOLEAN], reach : SUBSET {"here", "there", "bucket", "catalog", "port"}]

------------------------------------------------------------------------------
Sides == {-5, -4, -1, 0, 2, 5}
Boxes == {b \in [west : -5..5, east : -5..5, south : Sides, north : Sides] : b.west <= b.east /\ b.south <= b.north}

PreviewAsked ==
  << [ask : {"graph"}, app : Apps, body : Bodies, scene : {s \in Scenes : s.bbox = None /\ s.render.kind = "done"}],
     [ask : {"graph"}, app : Apps, body : {Body(Plain(nodes)) : nodes \in Sound}, scene : Scenes],
     [ask : {"frame"}, extent : Boxes, granules : {<<>>}, bbox : {None}],
     [ask : {"frame"}, extent : {None}, granules : {<<>>}, bbox : Boxes],
     [ask : {"frame"}, extent : {None}, granules : {<<b, Here>> : b \in {Here, There}}, bbox : {None}],
     [ask : {"address"}, tile : UNION {[z : {z}, x : 0..(2^z - 1), y : 0..(2^z - 1)] : z \in 0..MaxZoom}],
     CachedTiles, PublishedModules, RootsAsked, {[ask |-> "keys"]} >>

Replace(catalog, dataset) == [i \in DOMAIN catalog |-> IF catalog[i].id = dataset.id THEN dataset ELSE catalog[i]]

Published(app, body, preview, first) ==
  LET after == Replace(app.catalog, first.value.dataset)
  IN [publish |-> first, preview |-> preview, processes |-> ProcessList(app.udf # None)]
     @@ (IF Refused(first) THEN <<>>
         ELSE [after |-> after, listed |-> ListServices(after), described |-> DescribeService(after, first.value.id),
               again |-> CreateService([app EXCEPT !.catalog = after], body)])

PreviewAnswer(q) ==
  CASE q.ask = "graph" ->
         Published(q.app, q.body, PreviewResult(q.app, q.body, q.scene), CreateService(q.app, q.body))
    [] q.ask = "frame" -> PreviewTarget(q.extent, q.granules, q.bbox, There)
    [] q.ask = "address" -> Children(q.tile)
    [] q.ask = "tile" -> CachedTile(q)
    [] q.ask = "module" -> PublishedModule(q)
    [] q.ask = "roots" -> Store!Serve(q.cfg, q.build, q.reach)
    [] q.ask = "keys" -> Cardinality({Store!Hashed(of) : of \in KeyInputs})

------------------------------------------------------------------------------
\* A preview refuses a graph as publishing it does, and shows the layer that
\* publishing it would serve, at its own size.
AsPublished(q, answer) ==
  LET request == ServiceRequest(q.body)
      published == answer.publish
      preview == answer.preview
  IN IF q.body.process = None \/ q.body.process.nodes = None THEN Refused(published) /\ preview.error = "ProcessGraphMissing"
     ELSE IF Refused(request) THEN published = request
     ELSE IF Refused(published) THEN preview = published
     ELSE /\ preview.status \in {200, 400, 404, 500}
          /\ ~Refused(preview) =>
               preview.value.template =
                 [published.value.template EXCEPT !.id = "preview", !.title = "preview", !.tile_size = PreviewTileSize]

\* Exemption: the first load names no extent and a later one does, where by
\* handlers.rs:476-478 the first is read.  MCDocuments asks such a graph.
LaterExtent(loads) ==
  /\ "spatial_extent" \notin DOMAIN Head(loads).args
  /\ \E i \in DOMAIN loads : "spatial_extent" \in DOMAIN loads[i].args

\* A preview reads no more at full resolution than its own ceiling and the
\* operator's allow, and shows what its first load names, or what was found.
WithinCeilings(q, answer) ==
  LET preview == answer.preview
      loads == Loads(q.body.process)
      named == Argument(Head(loads), "spatial_extent")
      footprint == IF q.scene.granules = <<>> THEN q.scene.bbox ELSE Head(q.scene.granules)
  IN /\ preview.value.bytes <= PreviewCeiling
     /\ q.app.budget.bytes # None => preview.value.bytes <= q.app.budget.bytes
     /\ LaterExtent(loads) \/
          IF named.t = "box" THEN ExtentShown(named.bbox, preview.value.tile)
          ELSE IF footprint # None THEN FootprintFramed(footprint, preview.value.tile)
          ELSE ExtentShown(There, preview.value.tile)

ServicesOf(catalog) == Range(ServiceLayers(catalog))
SameGraph(layer, process) == layer.process.nodes = process.nodes

\* Exemption: a service of the same graph, with something else written beside
\* it, where by mod.rs:70-72 the id is of the graph.  MCDocuments publishes
\* both.
MarkedApart(catalog, process) ==
  \E layer \in ServicesOf(catalog) : SameGraph(layer, process) /\ layer.process # process

\* A service that is published is described as it was given, listed once and
\* the only one of its graph, and takes no other's place; to publish it again
\* changes nothing more.
Kept(q, answer) ==
  LET id == answer.publish.value.id
      process == q.body.process
      others(catalog) == {l \in ServicesOf(catalog) : ~SameGraph(l, process)}
      layers(catalog) == UNION {{<<catalog[i].id, l>> : l \in Range(catalog[i].layers)} : i \in DOMAIN catalog}
  IN /\ answer.described.value.process = process
     /\ answer.described.value.tile_size = ServiceRequest(q.body).value.tile_size
     /\ Cardinality({i \in DOMAIN answer.listed : answer.listed[i].id = id}) = 1
     /\ \/ MarkedApart(q.app.catalog, process)
        \/ Cardinality({l \in ServicesOf(answer.after) : SameGraph(l, process)}) = 1
     /\ others(answer.after) = others(q.app.catalog)
     /\ {p \in layers(answer.after) : p[2].process = None} = {p \in layers(q.app.catalog) : p[2].process = None}
     /\ answer.again = answer.publish

\* The processes that are listed are those that compile here.
ListedCompile(q, answer) ==
  LET used == {q.body.process.nodes[i].process : i \in DOMAIN q.body.process.nodes}
  IN /\ "run_udf" \in answer.processes <=> q.app.udf # None
     /\ ~Refused(answer.publish) => used \subseteq answer.processes

\* Every refusal has its status: of the request, of what is not there, or of
\* the server.
Coded(reply) ==
  CASE reply.error = "none" -> reply.status = 200
    [] reply.error = "Internal" -> reply.status = 500
    [] reply.error = "FeatureUnsupported" -> reply.status = 501
    [] reply.error \in {"CollectionNotFound", "NotFound"} -> reply.status = 404
    [] OTHER -> reply.status = 400

GraphSound(q, answer) ==
  /\ AsPublished(q, answer) /\ Coded(answer.publish) /\ Coded(answer.preview)
  /\ ~Refused(answer.preview) => WithinCeilings(q, answer)
  /\ ~Refused(answer.publish) => Kept(q, answer) /\ ListedCompile(q, answer)

FrameSound(q, answer) ==
  IF q.extent # None THEN ExtentShown(q.extent, answer)
  ELSE IF q.granules # <<>> THEN FootprintFramed(UnionBbox(q.granules[1], Here), answer)
  ELSE FootprintFramed(q.bbox, answer)

Points == {<<x, y>> : x \in {-5, -4, -1, 0, 3, 4, 5}, y \in {-5, -4, 0, 1, 4}}

------------------------------------------------------------------------------
\* Exemption: a frame of this length, of which only the payload is cut short.
\* By tile_cache.rs:40-41 it is corrupt.  MCDocuments cuts one.
PayloadCut(tile, length) == length >= 2 + Len(tile.type)

\* A tile is found as it was kept; a call that fails leaves what was there,
\* and a frame that is cut short or foreign is corrupt.
TileKept(q, answer) ==
  LET fits == Len(q.tile.type) <= ByteMax
      kept == answer.second = "none"
      wanted == IF ~fits THEN Answer(None) ELSE Answer(q.tile)
  IN /\ (answer.first = "none") <=> fits
     /\ kept <=> (Len(q.then.type) <= ByteMax /\ q.fault = "none")
     /\ answer.found[Key] = (IF kept /\ q.other = Key THEN Answer(q.then) ELSE wanted)
     /\ \A k \in Keys \ {Key} : answer.found[k] = (IF kept /\ q.other = k THEN Answer(q.then) ELSE Answer(None))
     /\ answer.meanwhile \in {answer.found[Key], Failure("Io")}
     /\ {answer.first, answer.second} \subseteq {"none"} \cup Store!CacheErrors
     /\ \A n \in DOMAIN answer.cut : PayloadCut(q.tile, n - 1) \/ answer.cut[n] = Failure("Corrupt")
     /\ \A f \in answer.foreign : f = Failure("Corrupt")

\* Every URL of a graph is fetched at most once, up to the first that cannot
\* be had, which the node that names it is told of; and none that the graph
\* does not name.
FetchedOnce(q, resolved) ==
  LET urls == Store!RemoteUrls(q.graph)
      fetched == {Store!Fetch(WebOf(q), url).error : url \in Range(resolved.asked)}
  IN /\ fetched \subseteq {"none"} \cup Store!ModuleFetchErrors
     /\ IsInjective(resolved.asked) /\ Range(resolved.asked) \subseteq Range(urls)
     /\ IF resolved.error = "none"
        THEN Range(resolved.asked) = Range(urls) /\ \A i \in DOMAIN resolved.remote : resolved.remote[i][2].len <= ModuleMax
        ELSE \E i \in DOMAIN q.graph : /\ q.graph[i].id = resolved.node
                                      /\ q.graph[i].udf = [t |-> "url", url |-> Last(resolved.asked)]

\* A module that is published is the one a restart compiles, or there is a
\* reason why it is not found: never another. Without one, it is found.
ModuleKept(q, answer) ==
  /\ FetchedOnce(q, answer.resolved)
  /\ answer.published = "none" =>
       /\ answer.module.len <= ModuleMax
       /\ answer.back = "none" => answer.again = answer.module
       /\ answer.back \in {"none"} \cup (Store!RehydrateErrors \ {"TooLarge"})
       /\ q.after = "none" /\ q.before # "damaged" => answer.back = "none"
  /\ answer.published \in Store!ModuleStoreErrors => answer.published = "Io" /\ q.before \in {"down", "full"}

\* A server starts where all that it is configured with can be reached, and
\* tells what could not; modules are offered over a root of their own alone.
RootsOpened(q, answer) ==
  LET offered == q.cfg.catalog /\ q.cfg.udf_store # None /\ q.build.wasm /\ q.build.host
      roots == {q.cfg.store_root} \cup ({q.cfg.cache} \ {None}) \cup (IF offered THEN {q.cfg.udf_store} ELSE {})
      faults == (IF {r.place : r \in roots} \subseteq q.reach THEN {} ELSE {"Store"})
                \cup (IF q.cfg.catalog => "catalog" \in q.reach THEN {} ELSE {"Catalog"})
                \cup (IF "port" \in q.reach THEN {} ELSE {"Bind"})
  IN IF faults # {} THEN answer.error \in faults \cap Store!ServeErrors
     ELSE answer.error = "none" /\ (answer.value.udf # None) <=> offered

PreviewSound(q, answer) ==
  CASE q.ask = "graph" -> GraphSound(q, answer)
    [] q.ask = "frame" -> FrameSound(q, answer)
    [] q.ask = "address" -> TilesNest(q.tile, Points)
    [] q.ask = "tile" -> TileKept(q, answer)
    [] q.ask = "module" -> ModuleKept(q, answer)
    [] q.ask = "roots" -> RootsOpened(q, answer)
    [] q.ask = "keys" -> answer = Cardinality(KeyInputs)
==============================================================================
