------------------------------ MODULE MCCommands ------------------------------
(* Commands of an operator: `swath serve' with every knob given in some of    *)
(* the places where it may be given, and layers, datasets and sources with    *)
(* what can be wrong of them; and `swath materialize' over rasters of a few   *)
(* pixels, with runs over new and half-filled stores and the windows read of  *)
(* them.                                                                      *)
EXTENDS ServeConfig, PyramidLevels, TLC

------------------------------------------------------------------------------
(* Pyramids *)

\* Samples by a fixed rule, with nodata here and there, or in whole blocks.
Tables == << <<0, 5, 1, -2, 7, 1, 3>>, <<1, 1, -1, 4, 1, 1, 0>>, <<9, 9, 9, 9, 9, 9, 9>> >>
Texel(nodata, table, at, kind) ==
  LET v == Tables[table][((at[1] * 3 + at[2] * 5 + table) % 7) + 1]
  IN IF v = 9 \/ (v = 1 /\ nodata # None) THEN (IF nodata = None THEN Num(9) ELSE nodata)
     ELSE IF kind = "uint8" /\ v < 0 THEN Num(-v) ELSE Num(v)

Full(width, height, nodata, table, kind) ==
  [at \in (0..(width - 1)) \X (0..(height - 1)) |-> Texel(nodata, table, at, kind)]

\* An embedded level holds every other sample.
Halved(full, width, height) ==
  [at \in (0..(CeilDiv(width, 2) - 1)) \X (0..(CeilDiv(height, 2) - 1)) |-> full[<<2 * at[1], 2 * at[2]>>]]

RasterOf(q) ==
  LET full == Full(q.size[1], q.size[2], q.nodata, q.table, q.kind)
  IN [source |-> "a", full |-> full, embedded |-> [f \in q.overviews |-> Halved(full, q.size[1], q.size[2])],
      info |-> [width |-> q.size[1], height |-> q.size[2], dtype |-> q.kind, nodata |-> q.nodata,
                pixel |-> <<Num(1), Num(-1)>>, overviews |-> q.overviews, bands |-> q.bands]]

SpecOf(q) == [chunk |-> Chunk, min_dim |-> q.min_dim, resampling |-> q.resampling]

\* Of the floats, some rasters mark nodata with NaN.
SampleKinds ==
  {<<"int16", None>>, <<"int16", Num(-9)>>, <<"uint8", Num(0)>>, <<"float32", Num(-9)>>, <<"float32", None>>,
   <<"float32", NaN>>}

Buildings ==
  {[size |-> size, kind |-> kind[1], nodata |-> kind[2], table |-> table, overviews |-> overviews,
    min_dim |-> minDim, resampling |-> resampling, bands |-> 1, kept |-> then[1], again |-> then[2]] :
     size \in {<<5, 3>>, <<8, 2>>, <<7, 7>>}, kind \in SampleKinds, table \in DOMAIN Tables, overviews \in {{}, {2}},
     minDim \in {1, 3}, resampling \in {"average", "nearest"},
     then \in ({0, 1, 4, 7} \X {"same"}) \cup ({0} \X {"chunk", "resampling", "size"})}
  \cup {[size |-> <<5, 3>>, kind |-> "int16", nodata |-> None, table |-> 1, overviews |-> overviews, min_dim |-> 1,
          resampling |-> "average", bands |-> bands, kept |-> 0, again |-> again] :
           overviews \in {{}, {2}}, bands \in {1, 2}, again \in {"same", "foreign", "damaged", "down", "readonly"}}

\* Windows of full-resolution pixels, within the raster and beyond it.
Windows == {WindowRequest(0, 0, 8, 8), WindowRequest(1, 1, 2, 1), WindowRequest(3, 0, 4, 3), WindowRequest(4, 2, 1, 1), WindowRequest(2, 1, 3, 6), WindowRequest(9, 0, 2, 2)}

EmptyStore == [doc |-> None, arrays |-> <<>>, chunks |-> <<>>, fault |-> "none"]

InOrder(chunks) ==
  SetToSortSeq(chunks, LAMBDA a, b : \/ a[1] < b[1]
                                     \/ a[1] = b[1] /\ (a[2] < b[2] \/ (a[2] = b[2] /\ a[3] < b[3])))

\* What a run that was killed leaves of a whole store: the first chunks, and
\* the record of the levels before the one it was at.
KeptOf(store, n) ==
  LET order == InOrder(DOMAIN store.chunks)
      kept == Range(SubSeq(order, 1, Min({n, Len(order)})))
      over == {f \in store.doc.pyramid.completed :
                 (\A k \in DOMAIN store.chunks : k[1] = f => k \in kept) /\ \E k \in kept : k[1] > f}
  IN [store EXCEPT !.doc = IF over = {} THEN None ELSE GroupDocs([@.pyramid EXCEPT !.completed = over]),
        !.arrays = [f \in {k[1] : k \in kept} |-> @[f]], !.chunks = [k \in kept |-> @[k]]]

\* One chunk of a store is gone, and another is cut short.
Damaged(store) ==
  LET order == InOrder(DOMAIN store.chunks)
      cut(chunk) == [at \in DOMAIN chunk \ {<<1, 1>>} |-> chunk[at]]
  IN [store EXCEPT !.chunks = [k \in DOMAIN @ \ {Last(order)} |-> IF k = Head(order) THEN cut(@[k]) ELSE @[k]]]

\* A run over what another left, asked for the same or for something else, or
\* with the store as it should not be.
AskedOf(q, raster) == IF q.again = "size" THEN [raster EXCEPT !.info.width = @ + 1] ELSE raster
AskedFor(q, spec) ==
  CASE q.again = "chunk" -> [spec EXCEPT !.chunk = 3]
    [] q.again = "resampling" -> [spec EXCEPT !.resampling = IF @ = "average" THEN "nearest" ELSE "average"]
    [] OTHER -> spec
Again(q, raster, spec, store) == Materialize(AskedOf(q, raster), store, AskedFor(q, spec))

ReadAll(raster, store, factors) == [f \in factors |-> [w \in Windows |-> ReadWindow(raster, store, w, f)]]
FactorsOf(store) == IF store.doc = None THEN {} ELSE store.doc.pyramid.completed

LeftFor(q, store) ==
  CASE q.again = "same" -> IF store.doc = None THEN EmptyStore ELSE KeptOf(store, q.kept)
    [] q.again = "foreign" -> [store EXCEPT !.doc = Foreign]
    [] q.again = "damaged" -> IF store.doc = None THEN store ELSE Damaged(store)
    [] q.again \in {"down", "readonly"} -> [EmptyStore EXCEPT !.fault = q.again]
    [] OTHER -> store

Answered(q, raster, spec, whole, left) ==
  [raster |-> raster, whole |-> whole, left |-> left, reads |-> ReadAll(raster, whole.store, FactorsOf(whole.store)),
   again |-> Again(q, raster, spec, left), after |-> ReadAll(raster, left, FactorsOf(whole.store)),
   described |-> Describe(raster, whole.store), then |-> Describe(raster, left),
   stale |-> Describe([raster EXCEPT !.info.width = @ + 1], whole.store)]

AnsweredOver(q, raster, spec, whole) == Answered(q, raster, spec, whole, LeftFor(q, whole.store))
BuiltBy(q, raster, spec) == AnsweredOver(q, raster, spec, Materialize(raster, EmptyStore, spec))

\* Layers over three rasters: the second is whole or gone, has two bands, or a
\* pyramid that was made with the other resampling.
BatchLayer(id, assets, resampling) == [id |-> id, assets |-> assets, resampling |-> resampling]
BatchLayers ==
  {BatchLayer("a", assets, resampling) : assets \in {<<1>>, <<2, 1>>, <<3, 3, 2>>}, resampling \in {"nearest", "bilinear"}}
More ==
  {BatchLayer("b", assets, resampling) : assets \in {<<1, 3>>, <<2>>, None}, resampling \in {"nearest", "cubic"}}
Batches ==
  {q \in [mode : {"static", "catalog"}, fault : {"none"}, layers : {<<l, m>> : l \in BatchLayers, m \in More},
           only : {None, "a", "b", "c"}, min_dim : {None, 3}, second : {"whole", "gone", "bands", "made"}] :
     q.mode = "static" => q.layers[2].assets # None}
  \cup [mode : {"static"}, fault : {"Config", "Serve", "Catalog"}, layers : {<<>>}, only : {None}, min_dim : {None},
        second : {"whole"}]

BatchRaster(asset, second) ==
  LET raster == RasterOf([size |-> <<asset + 4, 3>>, nodata |-> None, table |-> asset, kind |-> "int16", overviews |-> {},
                          bands |-> IF asset = 2 /\ second = "bands" THEN 2 ELSE 1])
  IN IF asset = 2 /\ second = "gone" THEN [raster EXCEPT !.info = None] ELSE raster
BatchRasters(q) == [asset \in 1..3 |-> BatchRaster(asset, q.second)]
BatchStores(q) ==
  [asset \in 1..3 |-> IF asset = 2 /\ q.second = "made"
                      THEN Materialize(BatchRaster(2, "made"), EmptyStore, SpecWith("nearest", None)).store ELSE EmptyStore]

BatchOver(q, rasters, stores, first) ==
  [rasters |-> rasters, stores |-> stores, first |-> first,
   again |-> MaterializeAll([mode |-> q.mode, fault |-> q.fault, layers |-> q.layers], rasters, first.stores, q.only, q.min_dim)]
BatchFrom(q, rasters, stores) ==
  BatchOver(q, rasters, stores,
    MaterializeAll([mode |-> q.mode, fault |-> q.fault, layers |-> q.layers], rasters, stores, q.only, q.min_dim))

LevelAnswer(q) ==
  IF "layers" \in DOMAIN q THEN BatchFrom(q, BatchRasters(q), BatchStores(q)) ELSE BuiltBy(q, RasterOf(q), SpecOf(q))

------------------------------------------------------------------------------
\* Every window of every recorded level shows the blocks under it; the mark
\* of a raster whose nodata is NaN does not survive its level's record.
ShowsBlocks(q, answer) ==
  q.nodata # NaN => \A f \in DOMAIN answer.reads : \A w \in Windows :
    WindowShowsBlocks(answer.raster, SpecOf(q), f, w, answer.reads[f][w])

\* A reader that knows only Zarr finds the same samples in the levels that it
\* is told of, and no other level recorded.
ReadableAsZarr(answer) ==
  LET store == answer.whole.store
      sample(array, f, at) ==
        store.chunks[<<f, at[2] \div array.chunks[1], at[1] \div array.chunks[2]>>]
                    [<<at[1] % array.chunks[2], at[2] % array.chunks[1]>>]
  IN store.doc # None =>
       /\ Range(answer.whole.made) = store.doc.multiscales.datasets
       /\ \A f \in store.doc.multiscales.datasets :
            LET read == answer.reads[f][WindowRequest(0, 0, 8, 8)].value
            IN /\ store.arrays[f].shape = <<read.height, read.width>>
               /\ DOMAIN read.pixels = Cells(WindowRequest(0, 0, read.width, read.height))
               /\ \A at \in DOMAIN read.pixels : read.pixels[at] = sample(store.arrays[f], f, at)

\* A run that resumes ends with the store of one that was never interrupted;
\* one that is asked for something else changes nothing; and what is
\* described is what is recorded, of the raster that it was made of.
RunAccounts(q, answer) ==
  LET ladder == Ladder(answer.raster.info, q.min_dim)
  IN IF q.bands # 1 THEN answer.whole.error = "Unsupported" /\ answer.whole.store = EmptyStore
     ELSE /\ answer.whole.error = "none" /\ Range(answer.whole.made) = ladder
          /\ answer.whole.skipped = 0 /\ answer.whole.written = Cardinality(DOMAIN answer.whole.store.chunks)
          /\ answer.described.value.overviews = q.overviews \cup ladder
          /\ answer.stale.value.overviews = q.overviews
          /\ q.again \in {"chunk", "resampling", "size"} =>
               /\ answer.again.error = (IF ladder = {} THEN "none" ELSE "Conflict")
               /\ answer.again.store = answer.whole.store
          /\ q.again = "same" =>
               /\ answer.again.error = "none" /\ answer.again.store = answer.whole.store
               /\ Range(answer.again.made) \cup Range(answer.again.already) = ladder
               /\ IsInjective(answer.again.made \o answer.again.already)
               /\ answer.again.written = answer.whole.written - Cardinality(DOMAIN answer.left.chunks)
               /\ answer.again.skipped = Cardinality({k \in DOMAIN answer.left.chunks : k[1] \in Range(answer.again.made)})

\* A store that is damaged gives a window as it was or refuses it; one whose
\* document is not a pyramid's gives none, and keeps it; one that is out of
\* reach is not taken for an empty one.
FaultsAreTold(q, answer) ==
  q.bands = 1 =>
    /\ q.again = "damaged" =>
         \A f \in DOMAIN answer.after : \A w \in Windows :
           answer.after[f][w] \in {answer.reads[f][w], Failure("Format")}
    /\ q.again = "foreign" =>
         /\ answer.again.error = "Conflict" /\ answer.again.store = answer.left
         /\ answer.then = Answer(answer.raster.info)
         /\ \A f \in DOMAIN answer.after : \A w \in Windows : answer.after[f][w] = Failure("OverviewNotFound")
    /\ q.again = "down" => answer.then = Failure("Io") /\ answer.again.error = "Store"
    /\ q.again \in {"down", "readonly"} => answer.again.store = answer.left

\* The layers of a batch, and the assets they name.
BatchOf(q) == SelectSeq(q.layers, LAMBDA l : q.only = None \/ l.id = q.only)
AssetsNamed(layers) == UNION {IF l.assets = None THEN {} ELSE Range(l.assets) : l \in Range(layers)}
ResamplingsOf(layers, asset) ==
  {l.resampling = "nearest" : l \in {m \in Range(layers) : m.assets # None /\ asset \in Range(m.assets)}}
BatchFault(q) ==
  LET layers == BatchOf(q)
  IN IF q.fault # "none" THEN q.fault
     ELSE IF layers = <<>> THEN "NoSuchLayer"
     ELSE IF \E l \in Range(layers) : l.assets = None THEN "Resolve"
     ELSE IF \E asset \in 1..3 : Cardinality(ResamplingsOf(layers, asset)) = 2 THEN "ResamplingConflict"
     ELSE "none"

\* A batch that cannot be settled writes nothing; another makes of each asset
\* that its layers name what a run of its own would make, up to the first
\* that fails; and a second batch finds nothing left to do.
BatchSound(q, answer) ==
  LET assets == AssetsNamed(BatchOf(q))
      asked(asset) == [chunk |-> Chunk, min_dim |-> IF q.min_dim = None THEN MinDim ELSE q.min_dim,
                       resampling |-> IF TRUE \in ResamplingsOf(BatchOf(q), asset) THEN "nearest" ELSE "average"]
      alone(asset) == Materialize(answer.rasters[asset], answer.stores[asset], asked(asset))
      failing == {asset \in assets : alone(asset).error # "none"}
      before(asset) == \A other \in failing : asset < other
  IN /\ answer.first.error \in CommandErrors \cup {"none"}
     /\ \A i \in DOMAIN answer.first.reports : answer.first.reports[i].run.error \in MaterializeErrors \cup {"none"}
     /\ IF BatchFault(q) # "none" THEN answer.first.error = BatchFault(q) /\ answer.first.stores = answer.stores
        ELSE /\ (answer.first.error = "Materialize") <=> (failing # {})
             /\ \A asset \in 1..3 :
                  answer.first.stores[asset] = (IF asset \in assets /\ before(asset) THEN alone(asset).store ELSE answer.stores[asset])
             /\ answer.again.error = answer.first.error /\ answer.again.stores = answer.first.stores
             /\ \A i \in DOMAIN answer.again.reports : answer.again.reports[i].run.written = 0

LevelSound(q, answer) ==
  IF "layers" \in DOMAIN q THEN BatchSound(q, answer)
  ELSE ShowsBlocks(q, answer) /\ ReadableAsZarr(answer) /\ RunAccounts(q, answer) /\ FaultsAreTold(q, answer)

------------------------------------------------------------------------------
(* The configuration *)

Fuels == [flag |-> 7, file |-> 8, layer |-> 9]

\* What each place gives when it gives all.
Flags ==
  [bind |-> [host |-> "flag", port |-> 1], base_url |-> [host |-> "flag", port |-> 11], store_root |-> "flag",
   cache |-> "flag", udf_store |-> "flag", overview_oversample |-> 7, bytes |-> 7, fuel |-> Fuels.flag,
   cors |-> <<"flag">>, read_only |-> TRUE]
FileKnobs ==
  [bind |-> [host |-> "file", port |-> 2], base_url |-> [host |-> "file", port |-> 12], store_root |-> "file",
   cache |-> "file", udf_store |-> "file", cors |-> <<"file", "too">>]
Knobs == DOMAIN Flags
Budget(of) == [cache_enabled |-> FALSE, overview_oversample |-> of, bytes |-> of, fuel |-> of]

Unset(knob) == CASE knob = "cors" -> <<>> [] knob = "read_only" -> FALSE [] OTHER -> None
Args(given, config, fixtures, catalog, watchDir) ==
  [config |-> config, fixtures |-> fixtures, catalog |-> catalog, watch_dir |-> watchDir]
  @@ [knob \in Knobs |-> IF knob \in given THEN Flags[knob] ELSE Unset(knob)]
File(given, budget) ==
  [knob \in given |-> FileKnobs[knob]] @@ [EmptyFile EXCEPT !.budget = budget]

SomeOf(set) == {{}, set} \cup {{x} : x \in set} \cup {set \ {x} : x \in set}

True == [r |-> <<"b04">>, g |-> <<"b03">>, b |-> <<"b02">>]
Ndvi == [nir |-> <<"b08">>, red |-> <<"b04">>]
Layer(id, kind, bands) ==
  [id |-> id, title |-> None, kind |-> kind, bands |-> bands, rescale |-> None, colormap |-> None,
   resampling |-> None, tile_size |-> None, budget |-> None]
Plainest == Layer("true", "truecolor", True)
LayerForms ==
  {Plainest, Layer("ndvi", "ndvi", Ndvi), Layer("ndvi", "ndvi", True), Layer("true", "truecolor", Ndvi),
   Layer("ndvi", "ndvi", [nir |-> <<"b08">>]), [Plainest EXCEPT !.colormap = "gray"],
   [Plainest EXCEPT !.rescale = <<Num(0), Num(9)>>, !.resampling = "nearest", !.tile_size = 512, !.title = "T"],
   [Layer("ndvi", "ndvi", [nir |-> <<"b04">>, red |-> <<"b04">>]) EXCEPT !.colormap = "gray", !.rescale = <<Num(0), Num(1)>>,
       !.budget = [Budget(None) EXCEPT !.cache_enabled = None, !.fuel = Fuels.layer]]}
LayerLists == {<<>>} \cup {<<l>> : l \in LayerForms} \cup {<<l, m>> : l \in LayerForms, m \in {Plainest, Layer("more", "ndvi", Ndvi)}}

Data(id, layers) == [id |-> id, title |-> None, layers |-> layers]
DataLists ==
  {<<>>} \cup {<<Data("d", layers)>> : layers \in LayerLists}
  \cup {<<Data("d", <<l>>), Data(id, <<m>>)>> : l \in LayerForms, id \in {"d", "e"}, m \in {Plainest, Layer("more", "ndvi", Ndvi)}}

Declaring(id, by) ==
  [id |-> id, title |-> None, watch_dir |-> "there", datasets |-> <<"d">>, credential_profile |-> None,
   requester_pays |-> TRUE, consented_by |-> by]
SourceLists == {<<>>, <<Declaring("s", None)>>, <<Declaring("watch-dir", "me")>>, <<Declaring("s", "me"), Declaring("t", "you")>>,
                <<Declaring("s", None), Declaring("s", "me")>>}

Some == Budget(Fuels.file)
Rooted == [File({"store_root"}, None) EXCEPT !.layers = <<Plainest>>]
Givens == SUBSET {"flag", "file"}
Said(places, place) == IF place \in places THEN place ELSE None

\* The knobs; what the layers come to; and the ways to say where they are.
KnobQueries ==
  {[args |-> Args(flags, TRUE, FALSE, None, None),
    file |-> [File(given, budget) EXCEPT !.layers = <<Plainest, [Layer("more", "ndvi", Ndvi) EXCEPT
                !.budget = [Budget(None) EXCEPT !.cache_enabled = None, !.fuel = Fuels.layer]]>>]] :
     flags \in SomeOf(Knobs), given \in SomeOf(DOMAIN FileKnobs),
     budget \in {None, Some, [Budget(None) EXCEPT !.fuel = 8], [Budget(None) EXCEPT !.overview_oversample = 8]}}
LayerQueries ==
  {[args |-> Args({}, TRUE, FALSE, None, None), file |-> [Rooted EXCEPT !.layers = layers]] : layers \in LayerLists}
  \cup {[args |-> Args({}, TRUE, FALSE, "flag", watch), file |-> [Rooted EXCEPT !.layers = <<>>, !.datasets = data, !.sources = sources]] :
          data \in DataLists, watch \in {None, "flag"}, sources \in SourceLists}
ModeQueries ==
  {q \in
     {[args |-> Args(IF root = "flag" THEN {"store_root"} ELSE {}, config, fixtures, Said(catalog, "flag"), Said(watch, "flag")),
       file |-> [File(IF root = "file" THEN {"store_root"} ELSE {}, None) EXCEPT !.fault = fault,
                   !.catalog = Said(catalog, "file"), !.watch_dir = Said(watch, "file"), !.layers = layers, !.datasets = data,
                   !.sources = sources, !.egress_allowlist = <<"a">>]] :
        config \in BOOLEAN, fixtures \in BOOLEAN, root \in {"flag", "file", None}, catalog \in Givens, watch \in Givens,
        layers \in {<<>>, <<Plainest>>}, data \in {<<>>, <<Data("d", <<Plainest>>)>>},
        sources \in {<<>>, <<Declaring("watch-dir", "me")>>, <<Declaring("s", "me")>>}, fault \in {"none", "Parse"}} :
     Accepted(q.args)}

ConfigAsked == <<KnobQueries, LayerQueries, ModeQueries>>

ConfigAnswer(q) == [serve |-> Resolve(q.args, q.file), declared |-> DeclaredSources(q.file)]

------------------------------------------------------------------------------
FileOf(q) == IF q.args.config THEN q.file ELSE EmptyFile
CatalogOf(q) == IF q.args.catalog # None THEN q.args.catalog ELSE FileOf(q).catalog
WatchOf(q) == IF q.args.watch_dir # None THEN q.args.watch_dir ELSE FileOf(q).watch_dir

Repeated(seq) == Len(seq) # Cardinality(Range(seq))

LayerFaults(layer) ==
  LET roles == IF layer.kind = "ndvi" THEN {"nir", "red"} ELSE {"r", "g", "b"}
  IN (IF DOMAIN layer.bands \ roles # {} THEN {"UnknownBand"} ELSE {})
     \cup (IF roles \ DOMAIN layer.bands # {} THEN {"MissingBand"} ELSE {})
     \cup (IF layer.kind # "ndvi" /\ layer.colormap # None THEN {"ColormapNotApplicable"} ELSE {})

\* What is wrong with the arguments and the file.
Faults(q) ==
  LET file == FileOf(q)
      served == IF CatalogOf(q) # None THEN FlattenSeq([i \in DOMAIN file.datasets |-> file.datasets[i].layers])
                ELSE IF q.args.fixtures THEN <<>> ELSE file.layers
      of(wrong, fault) == IF wrong THEN {fault} ELSE {}
      ids == [i \in DOMAIN file.sources |-> file.sources[i].id]
  IN ({file.fault} \ {"none"})
     \cup of(q.args.store_root = None /\ file.store_root = None /\ ~q.args.fixtures, "NoStoreRoot")
     \cup UNION {LayerFaults(served[i]) : i \in DOMAIN served}
     \cup IF CatalogOf(q) # None
          THEN of(file.layers # <<>>, "MixedLayerSources") \cup of(file.datasets = <<>>, "NoDatasets")
               \cup of(Repeated(IF WatchOf(q) = None THEN ids ELSE <<"watch-dir">> \o ids), "DuplicateSource")
               \cup of(Repeated([i \in DOMAIN file.datasets |-> file.datasets[i].id]), "DuplicateDataset")
               \cup of(Repeated([i \in DOMAIN served |-> served[i].id]), "DuplicateLayer")
          ELSE of(WatchOf(q) # None \/ file.sources # <<>>, "WatchDirNeedsCatalog")
               \cup of(file.datasets # <<>>, "DatasetsNeedCatalog")
               \cup of(~q.args.fixtures /\ served = <<>>, "NoLayers")

\* The first place that says something of a knob is heard: the layer, the
\* flags, the file, what is built in.
FirstOf(places) == LET said == SelectSeq(places, LAMBDA p : p # None) IN IF said = <<>> THEN None ELSE Head(said)
InBudget(budget, knob) == IF budget = None THEN None ELSE budget[knob]
BudgetHeard(q, own, budget) ==
  \A knob \in {"overview_oversample", "bytes", "fuel"} :
    budget[knob] = FirstOf(<<InBudget(own, knob), q.args[knob], InBudget(FileOf(q).budget, knob), BuiltInBudget[knob]>>)

KnobsHeard(q, served) ==
  LET heard(knob) == FirstOf(<<q.args[knob], FileOf(q)[knob]>>)
  IN /\ served.bind = FirstOf(<<heard("bind"), DefaultBind>>)
     /\ served.base_url = FirstOf(<<heard("base_url"), [host |-> "localhost", port |-> served.bind.port]>>)
     /\ served.store_root = FirstOf(<<heard("store_root"), FixturesRoot>>)
     /\ \A knob \in {"cache", "udf_store"} : served[knob] = heard(knob)
     /\ served.read_only = q.args.read_only
     /\ "flag" \in Range(served.cors) <=> q.args.cors # <<>>
     /\ BudgetHeard(q, None, served.budget)

\* The layers of a server are those of its file, each within its budget.
LayersServed(q, layers) ==
  LET file == FileOf(q)
      configs == IF layers.mode = "static" THEN file.layers
                 ELSE FlattenSeq([i \in DOMAIN file.datasets |-> file.datasets[i].layers])
  IN IF q.args.fixtures THEN layers.mode = "static" /\ Len(layers.layers) = 2
     ELSE /\ layers.mode = (IF CatalogOf(q) = None THEN "static" ELSE "catalog")
          /\ Len(layers.layers) = Len(configs)
          /\ \A i \in DOMAIN configs :
               /\ layers.layers[i].id = configs[i].id
               /\ BudgetHeard(q, configs[i].budget, layers.layers[i].budget)

\* The rendering that a catalog keeps of a layer is the one that is served
\* of it, so that a restart without the file makes the same; and a dataset
\* says of its bands what its layers read.
RecordsAsServed(layers) ==
  layers.mode = "catalog" =>
    LET records == FlattenSeq([d \in DOMAIN layers.datasets |-> layers.datasets[d].layers])
        Spec(record) ==
          record.kind @@ (IF record.colormap = None THEN <<>> ELSE [colormap |-> record.colormap])
          @@ [rescale |-> record.rescale]
    IN /\ Len(records) = Len(layers.layers)
       /\ \A i \in DOMAIN records :
            LET record == records[i] template == layers.layers[i]
            IN /\ PlanFor(Spec(record)) = template.plan
               /\ \A k \in {"id", "title", "tile_size", "resampling"} : record[k] = template[k]
       /\ \A d \in DOMAIN layers.datasets :
            layers.datasets[d].bands =
              UNION {{l.plan.inputs[k].name : k \in DOMAIN l.plan.inputs} :
                       l \in {o \in Range(layers.layers) : o.dataset = layers.datasets[d].id}}

\* Each source of the file is declared with the consent that is its own.
ConsentsDeclared(file, declared) ==
  declared.error = "none" =>
    \A i \in DOMAIN declared.value :
      LET id == declared.value[i].source.id
      IN declared.value[i].consented_by =
           FirstOf([k \in DOMAIN file.sources |-> IF file.sources[k].id = id THEN file.sources[k].consented_by ELSE None])

ConfigSound(q, answer) ==
  /\ IF Faults(q) # {} THEN answer.serve.error \in Faults(q)
     ELSE /\ answer.serve.error = "none"
          /\ KnobsHeard(q, answer.serve.value)
          /\ LayersServed(q, answer.serve.value.layers)
          /\ RecordsAsServed(answer.serve.value.layers)
  /\ ConsentsDeclared(q.file, answer.declared)
================================================================================
