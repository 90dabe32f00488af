----------------------------- MODULE OpenEoSurface -----------------------------
(***************************************************************************)
(* The openEO routes: tile addresses and the one tile that a preview       *)
(* shows; the documents and the refusals: a service request, the lowering  *)
(* of its graph, which a preview shares, and what is said of services,     *)
(* collections and processes.                                              *)
(*                                                                         *)
(* The Mercator plane is the square of -Half..Half; a longitude and a      *)
(* latitude are given by the coordinates they project to, and beyond the   *)
(* plane where they lie outside the projection's domain.  A preview uses   *)
(* the unit square from the north-west corner: a fraction is counted in    *)
(* 2 * Half parts.                                                         *)
(*                                                                         *)
(* A process document is [nodes, meta]: the nodes of its graph, as the     *)
(* compiler takes them, in the order of their keys (node i has the key     *)
(* <<i>>), and what is written beside them.  Where modules are offered,    *)
(* `udf' is the modules that the web answers, by their URLs, else None.    *)
(***************************************************************************)
EXTENDS Integers, Sequences, SequencesExt, FiniteSetsExt, Outcome, TLC

CONSTANTS
  MaxZoom,          \* MAX_ZOOM
  Half,             \* half the side of the plane
  PreviewMaxZoom,   \* PREVIEW_MAX_ZOOM, within the zoom levels of an address
  TileSizes,        \* TILE_SIZES
  PreviewTileSize,  \* PREVIEW_TILE_SIZE
  PreviewCeiling,   \* PREVIEW_MAX_ESTIMATED_LIVE_BYTES
  U64Max,           \* the largest byte count
  NotAnObject       \* a configuration that is not an object

GridAssumption ==
  /\ MaxZoom \in Nat /\ PreviewMaxZoom \in 0..MaxZoom
  /\ Half \in Nat \ {0} /\ (2 * Half) % 2^MaxZoom = 0

Compiler == INSTANCE ProcessCompiler
Planning == INSTANCE Planner

Clamp(v, lo, hi) == IF v < lo THEN lo ELSE IF v > hi THEN hi ELSE v

------------------------------------------------------------------------------
(* Addresses *)

Tile(z, x, y) == [z |-> z, x |-> x, y |-> y]

IsValid(t) == t.z <= MaxZoom /\ t.x < 2^t.z /\ t.y < 2^t.z

NewTile(z, x, y) ==
  IF IsValid(Tile(z, x, y)) THEN Answer(Tile(z, x, y)) ELSE Failure("InvalidTileCoord")

Parent(t) == IF t.z = 0 THEN None ELSE Tile(t.z - 1, t.x \div 2, t.y \div 2)

\* Variant: children are listed one zoom level too deep as well.
ChildrenBeyond(t) ==
  IF t.z > MaxZoom THEN None
  ELSE <<Tile(t.z + 1, t.x * 2, t.y * 2), Tile(t.z + 1, t.x * 2 + 1, t.y * 2),
         Tile(t.z + 1, t.x * 2, t.y * 2 + 1), Tile(t.z + 1, t.x * 2 + 1, t.y * 2 + 1)>>

\* North-west, north-east, south-west, south-east.
Children(t) ==
  IF t.z >= MaxZoom THEN None
  ELSE <<Tile(t.z + 1, t.x * 2, t.y * 2), Tile(t.z + 1, t.x * 2 + 1, t.y * 2),
         Tile(t.z + 1, t.x * 2, t.y * 2 + 1), Tile(t.z + 1, t.x * 2 + 1, t.y * 2 + 1)>>

------------------------------------------------------------------------------
(* WebMercatorQuad *)

MatrixWidth(z) == IF z <= MaxZoom THEN 2^z ELSE None

TileSpan(z) == (2 * Half) \div 2^z

XyBounds(t) ==
  [min_x |-> t.x * TileSpan(t.z) - Half, max_x |-> (t.x + 1) * TileSpan(t.z) - Half,
   max_y |-> Half - t.y * TileSpan(t.z), min_y |-> Half - (t.y + 1) * TileSpan(t.z)]

Encloses(outer, inner) ==
  /\ outer.min_x <= inner.min_x /\ outer.min_y <= inner.min_y
  /\ outer.max_x >= inner.max_x /\ outer.max_y >= inner.max_y

\* Variant: points on the east and south edge of the plane are not clamped.
TileForXyUnclamped(x, y, z) ==
  IF MatrixWidth(z) = None THEN Failure("InvalidTileCoord")
  ELSE Answer(Tile(z, Clamp((x + Half) \div TileSpan(z), 0, 2^z), Clamp((Half - y) \div TileSpan(z), 0, 2^z)))

\* The tile of zoom z that holds the point; beyond the plane the nearest one.
TileForXy(x, y, z) ==
  IF MatrixWidth(z) = None THEN Failure("InvalidTileCoord")
  ELSE Answer(Tile(z, Clamp((x + Half) \div TileSpan(z), 0, MatrixWidth(z) - 1),
                      Clamp((Half - y) \div TileSpan(z), 0, MatrixWidth(z) - 1)))

------------------------------------------------------------------------------
(* The preview *)

\* Where a point lies in the unit square, x to the east and y to the south.
MercatorFraction(lon, lat) ==
  [x |-> Clamp(lon, -Half, Half) + Half, y |-> Half - Clamp(lat, -Half, Half)]

\* The column or row of zoom z at a fraction of `whole' parts.
MatrixIndex(fraction, whole, z) == Min({(fraction * 2^z) \div whole, 2^z - 1})

\* The last zoom level before the first one that is not wanted.
LastBefore(unwanted) == IF unwanted = {} THEN PreviewMaxZoom ELSE Min(unwanted) - 1

\* Variant: the north-west corner alone finds the tile.
PreviewTileOfCorner(bbox) ==
  LET nw == MercatorFraction(bbox.west, bbox.north)
      at(z) == Tile(z, MatrixIndex(nw.x, 2 * Half, z), MatrixIndex(nw.y, 2 * Half, z))
  IN at(PreviewMaxZoom)

\* The deepest tile whose addresses of both corners agree from zoom 1 on.
PreviewTile(bbox) ==
  LET nw == MercatorFraction(bbox.west, bbox.north)
      se == MercatorFraction(bbox.east, bbox.south)
      at(p, z) == Tile(z, MatrixIndex(p.x, 2 * Half, z), MatrixIndex(p.y, 2 * Half, z))
  IN at(nw, LastBefore({z \in 1..PreviewMaxZoom : at(nw, z) # at(se, z)}))

UnionBbox(a, b) ==
  [west |-> Min({a.west, b.west}), south |-> Min({a.south, b.south}),
   east |-> Max({a.east, b.east}), north |-> Max({a.north, b.north})]

\* Variant: the frame stops one level late.
PreviewFootprintTileDeep(bbox) ==
  LET nw == MercatorFraction(bbox.west, bbox.north)
      se == MercatorFraction(bbox.east, bbox.south)
      side == Max({se.x - nw.x, se.y - nw.y})
      z == LastBefore({k \in 1..PreviewMaxZoom : 4 * Half < side * 2^k})
  IN Tile(z, MatrixIndex(nw.x + se.x, 4 * Half, z), MatrixIndex(nw.y + se.y, 4 * Half, z))

\* The deepest tile no smaller than the footprint, at the footprint's centre
\* (the sum of the corners, of twice as many parts).
PreviewFootprintTile(bbox) ==
  LET nw == MercatorFraction(bbox.west, bbox.north)
      se == MercatorFraction(bbox.east, bbox.south)
      side == Max({se.x - nw.x, se.y - nw.y})
      z == LastBefore({k \in 1..PreviewMaxZoom : 2 * Half < side * 2^k})
  IN Tile(z, MatrixIndex(nw.x + se.x, 4 * Half, z), MatrixIndex(nw.y + se.y, 4 * Half, z))

Argument(node, name) == IF name \in DOMAIN node.args THEN node.args[name] ELSE Compiler!Ungiven

\* What an extent comes to: nothing for null, a box whose sides are in order,
\* or a refusal.
ExtentOf(arg) ==
  IF arg.t = "null" THEN Answer(None)
  ELSE IF arg.t # "box" \/ (arg.t = "box" /\ (arg.bbox.west > arg.bbox.east \/ arg.bbox.south > arg.bbox.north))
  THEN Failure("ProcessParameterInvalid")
  ELSE Answer(arg.bbox)

Loads(process) == SelectSeq(process.nodes, LAMBDA node : node.process = "load_collection")

\* Variant: a load that names no extent is passed over, null or absent.
PreviewExtentPastNull(process) ==
  LET given == SelectSeq(Loads(process), LAMBDA load : Compiler!Given(Argument(load, "spatial_extent")))
  IN IF given = <<>> THEN Answer(None) ELSE ExtentOf(Argument(Head(given), "spatial_extent"))

\* The extent of the first load that has the argument, in the order of the
\* nodes' keys.
PreviewExtent(process) ==
  LET given == SelectSeq(Loads(process), LAMBDA load : "spatial_extent" \in DOMAIN load.args)
  IN IF given = <<>> THEN Answer(None) ELSE ExtentOf(Argument(Head(given), "spatial_extent"))

\* The tile a preview renders: of the extent that is named; or of what the
\* granules cover; or of what the dataset declares.
PreviewTarget(extent, granules, granuleBbox, declared) ==
  LET footprint ==
        IF granules = <<>> THEN granuleBbox ELSE FoldLeft(UnionBbox, Head(granules), Tail(granules))
  IN IF extent # None THEN PreviewTile(extent)
     ELSE IF footprint # None THEN PreviewFootprintTile(footprint)
     ELSE PreviewTile(declared)

------------------------------------------------------------------------------
(* What the addresses and the preview are for *)

\* The box of a bbox on the plane.
OnPlane(bbox) ==
  [min_x |-> Clamp(bbox.west, -Half, Half), max_x |-> Clamp(bbox.east, -Half, Half),
   min_y |-> Clamp(bbox.south, -Half, Half), max_y |-> Clamp(bbox.north, -Half, Half)]

\* A tile's edges to the east and the south are its neighbours', but for the
\* plane's own.
Edged(t, box) ==
  LET b == XyBounds(t)
  IN \/ box.max_x = b.max_x /\ b.max_x # Half
     \/ box.min_y = b.min_y /\ b.min_y # -Half

Shows(t, box) == Encloses(XyBounds(t), box) /\ ~Edged(t, box)

ChildrenOf(t) == IF t.z >= PreviewMaxZoom THEN {} ELSE Range(Children(t))

\* A named extent is shown whole, by a tile none of whose children would.
ExtentShown(bbox, t) ==
  IsValid(t) /\ Shows(t, OnPlane(bbox)) /\ \A c \in ChildrenOf(t) : ~Shows(c, OnPlane(bbox))

\* A footprint's frame is no smaller than it, its children are, and it holds
\* the middle.
FootprintFramed(bbox, t) ==
  LET box == OnPlane(bbox)
      side == Max({box.max_x - box.min_x, box.max_y - box.min_y})
      b == XyBounds(t)
  IN /\ IsValid(t)
     /\ t.z > 0 => side <= TileSpan(t.z)
     /\ t.z < PreviewMaxZoom => side > TileSpan(t.z + 1)
     /\ 2 * b.min_x <= box.min_x + box.max_x /\ box.min_x + box.max_x <= 2 * b.max_x
     /\ 2 * b.min_y <= box.min_y + box.max_y /\ box.min_y + box.max_y <= 2 * b.max_y

\* The children of a tile are tiles of which it is the parent, and part its
\* ground; a point is on the tile of its address, at every zoom.
TilesNest(t, points) ==
  /\ Children(t) # None =>
       /\ \A i \in 1..4 : Parent(Children(t)[i]) = t /\ NewTile(t.z + 1, Children(t)[i].x, Children(t)[i].y).error = "none"
       /\ \A i \in 1..4 : Encloses(XyBounds(t), XyBounds(Children(t)[i]))
       /\ \A i, j \in 1..4 :
            i < j => LET a == XyBounds(Children(t)[i]) b == XyBounds(Children(t)[j])
                     IN a.max_x <= b.min_x \/ b.max_x <= a.min_x \/ a.max_y <= b.min_y \/ b.max_y <= a.min_y
  /\ Parent(t) # None => t \in Range(Children(Parent(t)))
  /\ \A p \in points :
       LET at == TileForXy(p[1], p[2], t.z)
           on == [min_x |-> Clamp(p[1], -Half, Half), max_x |-> Clamp(p[1], -Half, Half),
                  min_y |-> Clamp(p[2], -Half, Half), max_y |-> Clamp(p[2], -Half, Half)]
       IN at.error = "none" /\ IsValid(at.value) /\ Shows(at.value, on)


------------------------------------------------------------------------------
(* Refusals *)

Refusal(status, code) == [error |-> code, status |-> status]
Accepted(value) == [error |-> "none", status |-> 200, value |-> value]
Refused(reply) == reply.error # "none"

\* The question mark: a refusal is the answer, a value goes on.
AndThen(reply, f(_)) == IF Refused(reply) THEN reply ELSE f(reply.value)

\* A diagnostic of the compiler in the words of the standard.
CompileRefusal(error) ==
  CASE error \in {"UnsupportedProcess", "UdfUnavailable"} -> Refusal(400, "ProcessUnsupported")
    [] error = "UnknownCollection" -> Refusal(404, "CollectionNotFound")
    [] error \in {"MissingArgument", "MissingResolver"} -> Refusal(400, "ProcessParameterRequired")
    [] error \in {"InvalidArgument", "UnknownBand", "EmptyTemporalWindow", "DimensionNotAvailable",
                  "UdfModule", "UdfOutputPlanes"} -> Refusal(400, "ProcessParameterInvalid")
    [] OTHER -> Refusal(400, "ProcessGraphInvalid")

\* What the compiler answers, in those words where it is a diagnostic.
Reported(result) == IF Refused(result) THEN CompileRefusal(result.error) ELSE result

ServiceNotFound == Refusal(404, "ServiceNotFound")

PreviewResolutionError(status) ==
  IF status = 404 THEN Refusal(404, "NotFound") ELSE Refusal(500, "Internal")

PreviewUdfError(error) ==
  CASE error \in {"FuelExhausted", "EpochDeadline"} -> Refusal(400, "ProcessGraphComplexity")
    [] error \in {"Trap", "MalformedOutput", "GuestFailure", "OutputPlanes", "MemoryLimit"} ->
         Refusal(400, "ProcessParameterInvalid")
    [] OTHER -> Refusal(500, "Internal")

PreviewRenderError(error) ==
  IF error.kind = "BudgetExceeded" THEN Refusal(400, "ProcessGraphComplexity")
  ELSE IF error.kind = "Udf" THEN PreviewUdfError(error.of) ELSE Refusal(500, "Internal")

------------------------------------------------------------------------------
(* Documents *)

\* A collection's cube, without the fields that are Swath's own.
CollectionDoc(dataset) ==
  [id |-> dataset.id, x |-> <<dataset.bbox.west, dataset.bbox.east>>,
   y |-> <<dataset.bbox.south, dataset.bbox.north>>, t |-> dataset.interval, bands |-> dataset.bands]

ProcessDefinitions ==
  {"add", "array_element", "divide", "filter_temporal", "linear_scale_range", "load_collection",
   "merge_cubes", "multiply", "ndvi", "reduce_dimension", "run_udf", "save_result", "subtract"}

ProcessList(udf) == IF udf THEN ProcessDefinitions ELSE ProcessDefinitions \ {"run_udf"}

ServiceDoc(layer, full) ==
  [id |-> layer.id, title |-> layer.title, description |-> layer.description, enabled |-> TRUE]
  @@ (IF full THEN [process |-> layer.process, tile_size |-> layer.tile_size] ELSE <<>>)

\* Of the layers of a dataset, those with a process; a catalog is the
\* sequence of its datasets.
ServiceLayers(catalog) ==
  FlattenSeq([i \in DOMAIN catalog |-> SelectSeq(catalog[i].layers, LAMBDA layer : layer.process # None)])

ListServices(catalog) ==
  LET layers == ServiceLayers(catalog) IN [i \in DOMAIN layers |-> ServiceDoc(layers[i], FALSE)]

DescribeService(catalog, id) ==
  LET found == SelectSeq(ServiceLayers(catalog), LAMBDA layer : layer.id = id)
  IN IF found = <<>> THEN ServiceNotFound ELSE Accepted(ServiceDoc(Head(found), TRUE))

------------------------------------------------------------------------------
(* Publishing *)

\* The settings of a configuration, in the order of their names: the first
\* that is wrong, or the size.
Configured(settings) ==
  LET wrong == SelectSeq(settings, LAMBDA s : s.name # "tile_size" \/ s.value \notin TileSizes)
  IN IF wrong # <<>>
     THEN Refusal(400, IF Head(wrong).name # "tile_size" THEN "ServiceConfigUnsupported" ELSE "ServiceConfigInvalid")
     ELSE Accepted(IF settings = <<>> THEN 256 ELSE Last(settings).value)

\* The hash of a process record, marks included, that no other one has.
ServiceId(process) == <<"xyz-", process>>

GraphOf(process) == IF process = None \/ process.nodes = None THEN None ELSE process

\* A service request: its type, that it is not to be disabled, its graph and
\* its configuration are looked at in this order.
ServiceRequest(body) ==
  LET size == IF body.configuration = None THEN Accepted(256)
              ELSE IF body.configuration = NotAnObject THEN Refusal(400, "ServiceConfigInvalid")
              ELSE Configured(body.configuration)
  IN IF body.type # "xyz" THEN Refusal(400, "ServiceUnsupported")
     ELSE IF body.enabled = "no" THEN Refusal(501, "FeatureUnsupported")
     ELSE IF GraphOf(body.process) = None THEN Refusal(400, "ProcessGraphMissing")
     ELSE IF Refused(size) THEN size
     ELSE Accepted([title |-> body.title, description |-> body.description,
                    process |-> body.process, tile_size |-> size.value])

\* The collection of the first load that names one.
LoadedCollection(process) ==
  LET naming == SelectSeq(Loads(process), LAMBDA load : Argument(load, "id").t = "str")
  IN IF naming = <<>> THEN None ELSE Argument(Head(naming), "id").s

GraphDataset(catalog, process) ==
  LET found == SelectSeq(catalog, LAMBDA dataset : dataset.id = LoadedCollection(process))
  IN IF LoadedCollection(process) = None THEN Refusal(400, "ProcessGraphInvalid")
     ELSE IF found = <<>> THEN Refusal(404, "CollectionNotFound")
     ELSE Accepted(Head(found))

\* The modules that a graph names by URL, each fetched (ObjectStores has the
\* fetches), or the refusal of the first that is not to be had.
ResolveModules(udf, process) ==
  LET named == {node.args["udf"].url :
                  node \in {n \in Range(process.nodes) : n.process = "run_udf" /\ Argument(n, "udf").t = "url"}}
  IN IF named \subseteq DOMAIN udf THEN Answer([url \in named |-> udf[url]]) ELSE Failure("InvalidArgument")

\* `compile_context': the bands of a dataset by their own names; and, where
\* they are offered, the modules of the graph.
CompileContext(dataset, modules) ==
  [collection |-> dataset.id, udf |-> modules # None, modules |-> IF modules = None THEN <<>> ELSE modules,
   bands |-> [i \in DOMAIN dataset.bands |-> [name |-> dataset.bands[i], aliases |-> {}]]]

\* What the compiler made of a graph, as a reply.
Result(product) == IF Compiler!Failed(product) THEN Failure(product.error) ELSE Answer(product)

\* A graph through the compiler, its nodes under their keys.
Compile(process, dataset, modules) ==
  Result(Compiler!Compile(
    [t |-> "graph", nodes |-> [key \in {<<i>> : i \in DOMAIN process.nodes} |-> process.nodes[key[1]]]],
    CompileContext(dataset, modules)))

\* The template of a persisted layer; its budget is the operator's of today.
CompileServiceLayer(dataset, layer, modules, budget) ==
  IF layer.process = None THEN Failure("Malformed")
  ELSE AndThen(Compile(layer.process, dataset, modules), LAMBDA product :
         Answer([id |-> layer.id, title |-> layer.title, dataset |-> dataset.id, plan |-> product.plan,
                 tile_size |-> layer.tile_size, budget |-> budget, window |-> product.window,
                 sources |-> product.sources]))

\* A recorded graph that does not compile again is the server's own fault.
Lowered(layer, template) ==
  IF Refused(template) THEN Refusal(500, "Internal") ELSE Accepted([layer |-> layer, template |-> template.value])

\* A graph to the layer that is persisted and the template that is served:
\* its modules, the compiler, and the template as a restart would make it.
\* Without modules wired, the compiler is told that there are none.
LowerWith(app, dataset, process, id, title, description, tileSize, budget) ==
  LET layer == [id |-> id, title |-> IF title = None THEN id ELSE title,
                description |-> IF description = None THEN "" ELSE description,
                tile_size |-> tileSize, process |-> process]
      resolved == IF app.udf = None THEN Answer(None) ELSE ResolveModules(app.udf, process)
  IN AndThen(Reported(resolved), LAMBDA modules :
     AndThen(Reported(Compile(process, dataset, modules)), LAMBDA product :
       Lowered(layer, CompileServiceLayer(dataset, layer, modules, budget))))

\* Variant: a preview compiles without the operator's budget.
LowerGraphUnbudgeted(app, dataset, process, id, title, description, tileSize) ==
  LowerWith(app, dataset, process, id, title, description, tileSize, [app.budget EXCEPT !.bytes = None, !.fuel = None])

LowerGraph(app, dataset, process, id, title, description, tileSize) ==
  LowerWith(app, dataset, process, id, title, description, tileSize, app.budget)

\* What publishing a body comes to, short of writing it: the dataset with
\* the layer in the place of one of its id, and the template.
CreateService(app, body) ==
  AndThen(ServiceRequest(body), LAMBDA request :
  AndThen(GraphDataset(app.catalog, request.process), LAMBDA dataset :
  AndThen(LowerGraph(app, dataset, request.process, ServiceId(request.process),
                     request.title, request.description, request.tile_size), LAMBDA lowered :
    LET kept == SelectSeq(dataset.layers, LAMBDA layer : layer.id # lowered.layer.id)
    IN Accepted([dataset |-> [dataset EXCEPT !.layers = Append(kept, lowered.layer)],
                 id |-> lowered.layer.id, template |-> lowered.template]))))

------------------------------------------------------------------------------
(* Previewing *)

\* Variant: the ceiling of the operator takes the place of the preview's.
PreviewBudgetWidened(budget) ==
  [budget EXCEPT !.bytes = IF budget.bytes = None THEN PreviewCeiling ELSE budget.bytes]

\* The operator's budget under the ceiling of previews.
PreviewBudget(budget) ==
  [budget EXCEPT !.bytes = IF budget.bytes = None THEN PreviewCeiling ELSE Min({budget.bytes, PreviewCeiling})]

\* A render, as far as its refusals go: it is planned over the windows of its
\* bands, never from the cache, and what is admitted ends as the scene says.
Executed(plan, render) ==
  IF plan.choice = "refuse" THEN [kind |-> "BudgetExceeded"]
  ELSE render @@ [bytes |-> IF plan.choice = "live" THEN plan.estimate ELSE 0]
Render(budget, tileSize, scene) ==
  Executed(Planning!Plan([cache |-> TRUE, oversample |-> budget.oversample, ceiling |-> budget.bytes],
                         [probe |-> "miss"], tileSize, scene.bands),
           scene.render)

\* What is said of a render: its refusal, or the tile that it shows.
Previewed(rendered, tile, template) ==
  IF rendered.kind # "done" THEN PreviewRenderError(rendered)
  ELSE Accepted([tile |-> tile, template |-> template, bytes |-> rendered.bytes])

\* A preview of a body over the scene its layer resolves to.
PreviewResult(app, body, scene) ==
  IF GraphOf(body.process) = None THEN Refusal(400, "ProcessGraphMissing")
  ELSE AndThen(GraphDataset(app.catalog, body.process), LAMBDA dataset :
       AndThen(LowerGraph(app, dataset, body.process, "preview", None, None, PreviewTileSize), LAMBDA lowered :
         LET extent == PreviewExtent(body.process)
         IN IF extent.error # "none" THEN Refusal(400, extent.error)
            ELSE IF scene.status # 200 THEN PreviewResolutionError(scene.status)
            ELSE Previewed(Render(PreviewBudget(lowered.template.budget), PreviewTileSize, scene),
                           PreviewTarget(extent.value, scene.granules, scene.bbox, dataset.bbox),
                           lowered.template)))
================================================================================
