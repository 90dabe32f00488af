----------------------------- MODULE HttpSurface -----------------------------
(***************************************************************************)
(* The routes a server mounts, what its documents say of them, and how the *)
(* tile route and the landing page answer.                                 *)
(*                                                                         *)
(* A path is the sequence of its segments; "*" stands for a parameter.  A  *)
(* server is described by how it was started: [catalog, read_only,         *)
(* local_root, bundle, origins].                                           *)
(***************************************************************************)
EXTENDS Integers, Sequences, SequencesExt, FiniteSetsExt, SourceStatus, Outcome

CONSTANTS
  MaxTileMatrix,    \* MAX_TILE_MATRIX
  WordMax,          \* the greatest u32
  ByteMax,          \* the greatest u8
  SamplesPerEdge,   \* BOUNDS_SAMPLES_PER_EDGE
  ModuleMax,        \* MODULE_MAX_BYTES
  GraphBodyLimit,   \* GRAPH_BODY_LIMIT_BYTES
  MaxUploadBytes    \* MAX_UPLOAD_BYTES

------------------------------------------------------------------------------
(* Routes *)

Gets(paths) == [method : {"GET"}, path : paths]
Posts(paths) == [method : {"POST"}, path : paths]

OgcRoutes ==
  Gets({<<>>, <<"conformance">>, <<"tiles">>, <<"tilesets">>, <<"tilesets", "*">>,
        <<"tilesets", "*", "tiles", "*", "*", "*">>, <<"traces">>, <<"healthz">>})

\* Variant: the preview is counted among the writes.
OpenEoReadRoutesStrict ==
  Gets({<<".well-known", "openeo">>, <<"collections">>, <<"collections", "*">>, <<"file_formats">>,
        <<"processes">>, <<"service_types">>, <<"services">>, <<"services", "*">>})

OpenEoReadRoutes ==
  Gets({<<".well-known", "openeo">>, <<"collections">>, <<"collections", "*">>, <<"file_formats">>,
        <<"processes">>, <<"service_types">>, <<"services">>, <<"services", "*">>})
  \cup Posts({<<"result">>})

OpenEoRoutes ==
  OpenEoReadRoutes \cup Posts({<<"services">>}) \cup {[method |-> "DELETE", path |-> <<"services", "*">>]}

GranuleRoutes ==
  Gets({<<"datasets", "*", "granules">>, <<"datasets", "*", "facets">>, <<"datasets", "*", "counts">>})
SourceRoutes == Gets({<<"sources">>, <<"sources", "*">>, <<"sources", "register">>})
DatasetRoutes == Posts({<<"datasets">>, <<"datasets", "*", "granules">>})
UploadRoutes == {[method |-> "PUT", path |-> <<"uploads", "*">>]}

\* Whether the upload route is mounted, which the state is told as well.
Uploads(server) == server.catalog /\ ~server.read_only /\ server.local_root

WriteSurface(server) == DatasetRoutes \cup (IF Uploads(server) THEN UploadRoutes ELSE {})

\* Static serving mounts nothing beside the tiles surface.
Extra(server) ==
  IF ~server.catalog THEN {}
  ELSE IF server.read_only THEN OpenEoReadRoutes \cup GranuleRoutes \cup SourceRoutes
  ELSE OpenEoRoutes \cup GranuleRoutes \cup SourceRoutes \cup WriteSurface(server)

Mounted(server) == OgcRoutes \cup Extra(server)

\* The largest body a route reads, where it differs from the framework's.
BodyLimit(route) ==
  IF route \in OpenEoRoutes THEN GraphBodyLimit
  ELSE IF route \in UploadRoutes THEN MaxUploadBytes ELSE None

Fits(pattern, path) ==
  Len(pattern) = Len(path) /\ \A i \in DOMAIN path : pattern[i] \in {"*", path[i]}

\* Of two patterns that fit one path, the one with a name where they differ.
AtLeastAsClose(p, q) ==
  p = q \/ \E i \in DOMAIN p : p[i] # "*" /\ q[i] = "*" /\ \A j \in 1..(i - 1) : p[j] = q[j]

------------------------------------------------------------------------------
(* The bundle of the viewer *)

ApiRoutePrefixes ==
  {"conformance", "tiles", "tilesets", "traces", "healthz", ".well-known", "collections",
   "datasets", "processes", "service_types", "services", "uploads"}

CollidesWithApiRoutes(path) == path # <<>> /\ Head(path) \in ApiRoutePrefixes

\* The part of a bundle that is kept: without its entry page, nothing.
WithUi(files) == IF <<"index.html">> \in files THEN files ELSE {}

\* What the handlers are told of the server they are mounted in.
ApiState(openeo, read_only, uploads, ui) ==
  [openeo |-> openeo, read_only |-> read_only, uploads |-> uploads, ui |-> ui]

\* Variant: the flag of the uploads is left out.
StateWithoutUploads(server) == ApiState(server.catalog, server.read_only, FALSE, WithUi(server.bundle))

State(server) ==
  ApiState(server.catalog, server.read_only, Uploads(server), WithUi(server.bundle))

UiAsset(server, method, path) ==
  IF method \in {"GET", "HEAD"} /\ path \in State(server).ui THEN [by |-> "bundle", status |-> 200]
  ELSE [by |-> "nobody", status |-> 404]

\* Variant: the bundle is asked before the routes.
ServeBundleFirst(server, method, path) ==
  LET fitting == {r \in Mounted(server) : Fits(r.path, path)}
      closest == {r \in fitting : \A o \in fitting : AtLeastAsClose(r.path, o.path)}
  IN IF path \in State(server).ui \/ fitting = {} THEN UiAsset(server, method, path)
     ELSE IF \E r \in closest : method \in {r.method} \cup (IF r.method = "GET" THEN {"HEAD"} ELSE {})
          THEN [by |-> "route", status |-> 200]
     ELSE [by |-> "route", status |-> 405]

\* Who answers a request: the closest route that fits, or the fallback.
Serve(server, method, path) ==
  LET fitting == {r \in Mounted(server) : Fits(r.path, path)}
      closest == {r \in fitting : \A o \in fitting : AtLeastAsClose(r.path, o.path)}
  IN IF fitting = {} THEN UiAsset(server, method, path)
     ELSE IF \E r \in closest : method \in {r.method} \cup (IF r.method = "GET" THEN {"HEAD"} ELSE {})
          THEN [by |-> "route", status |-> 200]
     ELSE [by |-> "route", status |-> 405]

------------------------------------------------------------------------------
(* What the documents say *)

Endpoint(path, methods) == [path |-> path, methods |-> methods]

OpenEoEndpoints ==
  {Endpoint(<<"collections">>, {"GET"}), Endpoint(<<"collections", "*">>, {"GET"}),
   Endpoint(<<"conformance">>, {"GET"}), Endpoint(<<"datasets">>, {"POST"}),
   Endpoint(<<"datasets", "*", "granules">>, {"GET", "POST"}), Endpoint(<<"file_formats">>, {"GET"}),
   Endpoint(<<"processes">>, {"GET"}), Endpoint(<<"result">>, {"POST"}),
   Endpoint(<<"service_types">>, {"GET"}), Endpoint(<<"services">>, {"GET", "POST"}),
   Endpoint(<<"services", "*">>, {"GET", "DELETE"})}

\* Variant: read-only serving lists its writes.
CapabilitiesOfAll(state) ==
  IF ~state.openeo THEN {}
  ELSE OpenEoEndpoints \cup (IF state.uploads THEN {Endpoint(<<"uploads", "*">>, {"PUT"})} ELSE {})

\* The `endpoints' of the landing page; a page without the vocabulary of
\* openEO has none.
Capabilities(state) ==
  LET kept(e) == {m \in e.methods : ~state.read_only \/ m = "GET" \/ (m = "POST" /\ e.path = <<"result">>)}
  IN IF ~state.openeo THEN {}
     ELSE {Endpoint(e.path, kept(e)) : e \in {o \in OpenEoEndpoints : kept(o) # {}}}
          \cup (IF state.uploads /\ ~state.read_only THEN {Endpoint(<<"uploads", "*">>, {"PUT"})} ELSE {})

\* An Accept header: none, one that is not text, or media types.
AcceptsHtml(accept) == accept.given = "text" /\ "text/html" \in accept.media

Landing(state, accept) == IF state.ui # {} /\ AcceptsHtml(accept) THEN "viewer" ELSE "document"

\* The origins a browser may call from; None where there is no layer.
CorsLayer(origins) ==
  IF origins = <<>> THEN None
  ELSE IF \E i \in DOMAIN origins : origins[i] = "*" THEN {"any"}
  ELSE {o \in Range(origins) : o # "unprintable"}

CorsAllows(server, origin) ==
  CorsLayer(server.origins) # None /\ CorsLayer(server.origins) \cap {"any", origin} # {}

Status ==
  [BadRequest |-> 400, NotFound |-> 404, NotAcceptable |-> 406, Conflict |-> 409, Internal |-> 500]

------------------------------------------------------------------------------
(* The tile route *)

\* A segment that should be a number: its value, or None for anything else.
Number(segment, greatest) ==
  IF segment = None \/ segment \notin 0..greatest THEN None ELSE segment

\* Variant: the row is read as the column.
ParseTilePathSwapped(matrix, row, col) ==
  LET z == Number(matrix, ByteMax)
  IN IF z = None \/ z > MaxTileMatrix THEN Failure("NotFound")
     ELSE IF Number(row, WordMax) = None \/ Number(col, WordMax) = None THEN Failure("BadRequest")
     ELSE IF row >= 2^z \/ col >= 2^z THEN Failure("NotFound")
     ELSE Answer([z |-> z, x |-> row, y |-> col])

\* The OGC order: matrix, row, column.
ParseTilePath(matrix, row, col) ==
  LET z == Number(matrix, ByteMax)
  IN IF z = None \/ z > MaxTileMatrix THEN Failure("NotFound")
     ELSE IF Number(row, WordMax) = None \/ Number(col, WordMax) = None THEN Failure("BadRequest")
     ELSE IF row >= 2^z \/ col >= 2^z THEN Failure("NotFound")
     ELSE Answer([z |-> z, x |-> col, y |-> row])

CheckAcceptsPng(accept) ==
  IF accept.given = "none" THEN Answer(None)
  ELSE IF accept.given = "bytes" THEN Failure("BadRequest")
  ELSE IF accept.media \cap {"*/*", "image/*", "image/png"} # {} THEN Answer(None)
  ELSE Failure("NotAcceptable")

Rule == [absent |-> "latest", instant |-> "latest_at_or_before", interval |-> "latest_in_interval"]

\* What the trace tells of time: nothing for a layer without granules, and
\* the branches where there are several.
Temporal(datetime, granules) ==
  IF granules = <<>> THEN None
  ELSE [granule |-> Head(granules), rule |-> Rule[datetime],
        sources |-> IF Len(granules) > 1 THEN granules ELSE <<>>]

\* The tile handler: the first refusal in its order, or a tile and the event
\* that is published of it.  Resolving and rendering are given as outcomes.
TileReply(req) ==
  LET coord == ParseTilePath(req.matrix, req.row, req.col)
      accepts == CheckAcceptsPng(req.accept)
  IN IF coord.error # "none" THEN Failure(coord.error)
     ELSE IF accepts.error # "none" THEN Failure(accepts.error)
     ELSE IF req.datetime = "malformed" THEN Failure("BadRequest")
     ELSE IF req.resolve.error # "none" THEN Failure(req.resolve.error)
     ELSE IF req.render # "done" THEN Failure("Internal")
     ELSE Answer([coord |-> coord.value, temporal |-> Temporal(req.datetime, req.resolve.value)])

------------------------------------------------------------------------------
(* Layers *)

\* The registry of static serving: a later layer takes an id's place.
LayerRegistry(layers) ==
  [id \in {layers[i].id : i \in DOMAIN layers} |->
     layers[Max({i \in DOMAIN layers : layers[i].id = id})]]

\* Points of a raster's edge, in parts of a pixel.
Boundary(raster) ==
  UNION {{<<i * raster.width, 0>>, <<i * raster.width, SamplesPerEdge * raster.height>>,
          <<0, i * raster.height>>, <<SamplesPerEdge * raster.width, i * raster.height>>} : i \in 0..SamplesPerEdge}

\* Where a point lies on earth: an affine transform and a shift.
OnEarth(raster, point) ==
  <<SamplesPerEdge * (raster.x + raster.shift) + point[1] * raster.scale[1] + point[2] * raster.turn[1],
    SamplesPerEdge * (raster.y + raster.shift) + point[1] * raster.turn[2] + point[2] * raster.scale[2]>>

Hull(points) ==
  [west |-> Min({p[1] : p \in points}), east |-> Max({p[1] : p \in points}),
   south |-> Min({p[2] : p \in points}), north |-> Max({p[2] : p \in points})]

\* Variant: the upper and the left edge only.
LayerBoundsOfTwoEdges(assets, rasters) ==
  IF \E a \in assets : rasters[a].fault # "none" THEN Failure("Internal")
  ELSE IF assets = {} THEN Failure("Internal")
  ELSE Answer(Hull(UNION {{OnEarth(rasters[a], p) : p \in {q \in Boundary(rasters[a]) : 0 \in {q[1], q[2]}}} : a \in assets}))

\* The bounds of a layer's distinct assets; one that cannot be described or
\* transformed fails the request, and so does a layer without assets.
LayerBounds(assets, rasters) ==
  IF \E a \in assets : rasters[a].fault # "none" THEN Failure("Internal")
  ELSE IF assets = {} THEN Failure("Internal")
  ELSE Answer(Hull(UNION {{OnEarth(rasters[a], p) : p \in Boundary(rasters[a])} : a \in assets}))

\* The document of a layer: an unknown layer is not found, and one whose
\* granules do not resolve is refused as a tile of it is.
Tileset(layers, id, resolve, bounds) ==
  IF id \notin DOMAIN layers THEN Failure("NotFound")
  ELSE IF resolve.error # "none" THEN Failure(resolve.error)
  ELSE IF bounds.error # "none" THEN Failure(bounds.error)
  ELSE Answer([bounds |-> bounds.value, granules |-> layers[id].dataset,
               sources |-> IF layers[id].dataset = None THEN None ELSE layers[id].sources])

------------------------------------------------------------------------------
(* Sources *)

\* The scheme of a source's target; a path is a file's.
SchemeOf(target) == IF target.scheme = None THEN "file" ELSE target.scheme

SourceItem(source, events) ==
  [id |-> source.id, scheme |-> SchemeOf(source.target), requester_pays |-> source.requester_pays,
   credential_profile |-> source.credential, row |-> Item(events, source.credential # None)]

\* The sources in the order of their ids, or one of them.
ListSources(sources, events) ==
  LET sorted == SetToSortSeq(sources, LAMBDA a, b : a.id < b.id)
  IN [i \in DOMAIN sorted |-> SourceItem(sorted[i], events[sorted[i].id])]

OneSource(sources, events, id) ==
  IF \A s \in sources : s.id # id THEN Failure("NotFound")
  ELSE Answer(SourceItem(CHOOSE s \in sources : s.id = id, events[id]))
==============================================================================
