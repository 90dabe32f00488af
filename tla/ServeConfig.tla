------------------------------ MODULE ServeConfig ------------------------------
(***************************************************************************)
(* What `swath serve' makes of its arguments and its file: the scalars,    *)
(* the budget, and the layers that it serves, or the first refusal.        *)
(*                                                                         *)
(* A flag stands for its environment variable too.  What is not given is   *)
(* None.  A file is given with what reading it comes to (fault).           *)
(***************************************************************************)
EXTENDS RenderIR, FiniteSets, Outcome

DefaultBind == [host |-> "127.0.0.1", port |-> 8080]
FixturesRoot == "./tests/fixtures"
BuiltInBudget == [cache_enabled |-> TRUE, overview_oversample |-> 12, bytes |-> None, fuel |-> 100]

Or(given, default) == IF given # None THEN given ELSE default

LoadFile(file) == IF file.fault # "none" THEN Failure(file.fault) ELSE Answer(file)

\* `fixtures' goes without a file, a catalog and a watched directory.
Accepted(args) == args.fixtures => ~args.config /\ args.catalog = None /\ args.watch_dir = None

------------------------------------------------------------------------------
(* Budgets *)

\* A budget's own knobs over those of the base.
Overlay(own, base) ==
  IF own = None THEN base ELSE [knob \in DOMAIN base |-> Or(own[knob], base[knob])]

\* Variant: the file outranks the flags.
DefaultBudgetFileLast(args, file) ==
  Overlay(file.budget,
    Overlay([cache_enabled |-> None, overview_oversample |-> args.overview_oversample, bytes |-> args.bytes,
             fuel |-> args.fuel], BuiltInBudget))

\* The budget of a server: what is built in, the file, the flags.
DefaultBudget(args, file) ==
  Overlay([cache_enabled |-> None, overview_oversample |-> args.overview_oversample, bytes |-> args.bytes,
           fuel |-> args.fuel],
    Overlay(file.budget, BuiltInBudget))

------------------------------------------------------------------------------
(* Layers *)

KindBands == [truecolor |-> <<"r", "g", "b">>, ndvi |-> <<"nir", "red">>]

\* The configured value of each role, when they are the roles of the kind.
RoleBands(layer) ==
  IF DOMAIN layer.bands \ Range(KindBands[layer.kind]) # {} THEN Failure("UnknownBand")
  ELSE IF Range(KindBands[layer.kind]) \ DOMAIN layer.bands # {} THEN Failure("MissingBand")
  ELSE Answer(layer.bands)

RejectColormap(layer) == IF layer.colormap = None THEN Answer(None) ELSE Failure("ColormapNotApplicable")

\* Variant: the rescale of a composite is never made explicit.
PlanSpecAsGiven(layer, named, materializeRescale) ==
  CASE layer.kind = "truecolor" ->
         IF RejectColormap(layer).error # "none" THEN RejectColormap(layer)
         ELSE Answer([shape |-> "composite", bands |-> <<named["r"], named["g"], named["b"]>>,
                      rescale |-> layer.rescale])
    [] layer.kind = "ndvi" ->
         Answer([shape |-> "math", expr |-> NdviExpr(named["nir"], named["red"]),
                 rescale |-> Or(layer.rescale, <<Num(-1), Num(1)>>), colormap |-> Or(layer.colormap, "rdylgn")])

\* The product of a layer over the bands its roles are named.
PlanSpec(layer, named, materializeRescale) ==
  CASE layer.kind = "truecolor" ->
         IF RejectColormap(layer).error # "none" THEN RejectColormap(layer)
         ELSE Answer([shape |-> "composite", bands |-> <<named["r"], named["g"], named["b"]>>,
                      rescale |-> Or(layer.rescale, IF materializeRescale THEN <<Num(0), Num(255)>> ELSE None)])
    [] layer.kind = "ndvi" ->
         Answer([shape |-> "math", expr |-> NdviExpr(named["nir"], named["red"]),
                 rescale |-> Or(layer.rescale, <<Num(-1), Num(1)>>), colormap |-> Or(layer.colormap, "rdylgn")])

\* What a catalog keeps of a product.
PlanMetadata(spec) ==
  [kind |-> [k \in DOMAIN spec \ {"rescale", "colormap"} |-> spec[k]],
   rescale |-> Or(spec.rescale, <<Num(0), Num(255)>>),
   colormap |-> IF spec.shape = "math" THEN spec.colormap ELSE None]

StaticLayer(layer, budget, spec) ==
  IF spec.error # "none" THEN spec
  ELSE Answer([id |-> layer.id, title |-> Or(layer.title, layer.id), bands |-> layer.bands,
               plan |-> PlanFor(spec.value), resampling |-> Or(layer.resampling, "bilinear"),
               tile_size |-> Or(layer.tile_size, 256), budget |-> Overlay(layer.budget, budget)])

\* A static layer: its plan reads the roles, its values are assets.
ToLayer(layer, budget) ==
  LET roles == RoleBands(layer)
  IN IF roles.error # "none" THEN roles
     ELSE StaticLayer(layer, budget, PlanSpec(layer, [role \in DOMAIN roles.value |-> <<role>>], FALSE))

TemplateAndRecord(layer, dataset, budget, spec) ==
  LET common == [id |-> layer.id, title |-> Or(layer.title, layer.id), tile_size |-> Or(layer.tile_size, 256),
                 resampling |-> Or(layer.resampling, "bilinear")]
  IN IF spec.error # "none" THEN spec
     ELSE Answer([template |-> common @@ [dataset |-> dataset, plan |-> PlanFor(spec.value),
                                          budget |-> Overlay(layer.budget, budget), sources |-> <<>>],
                  record |-> common @@ PlanMetadata(spec.value) @@ [process |-> None]])

\* A layer of a dataset: the template that is served and the record that is
\* kept, of one product.
ToCatalogLayer(layer, dataset, budget) ==
  LET roles == RoleBands(layer)
  IN IF roles.error # "none" THEN roles
     ELSE TemplateAndRecord(layer, dataset, budget, PlanSpec(layer, roles.value, TRUE))

------------------------------------------------------------------------------
(* Sources *)

\* The watched directory comes first, under an id of its own; of two sources
\* of one id neither is served.
CompileSources(watchDir, configs) ==
  LET watched == IF watchDir = None THEN <<>>
                 ELSE <<[id |-> "watch-dir", target |-> watchDir, title |-> "Watched directory", datasets |-> <<>>,
                         credential |-> None, requester_pays |-> FALSE]>>
      declared == [i \in DOMAIN configs |->
                     [id |-> configs[i].id, target |-> configs[i].watch_dir,
                      title |-> Or(configs[i].title, configs[i].id), datasets |-> configs[i].datasets,
                      credential |-> configs[i].credential_profile, requester_pays |-> configs[i].requester_pays]]
      all == watched \o declared
  IN IF \E i, j \in DOMAIN all : i < j /\ all[i].id = all[j].id THEN Failure("DuplicateSource") ELSE Answer(all)

\* The sources of a file, each with who consented to its bill.
DeclaredSources(file) ==
  LET compiled == CompileSources(file.watch_dir, file.sources)
      consent(id) ==
        LET of == SelectSeq(file.sources, LAMBDA config : config.id = id)
        IN IF of = <<>> THEN None ELSE Last(of).consented_by
  IN IF compiled.error # "none" THEN compiled
     ELSE Answer([i \in DOMAIN compiled.value |->
                    [source |-> compiled.value[i], consented_by |-> consent(compiled.value[i].id)]])

Egress(file) == Range(file.egress_allowlist)

------------------------------------------------------------------------------
(* Modes *)

\* Variant: ids of layers are compared within their dataset only.
AddLayerLocal(configs, d, i, budget) ==
  LET layer == configs[d].layers[i]
  IN IF \E k \in 1..(i - 1) : configs[d].layers[k].id = layer.id THEN Failure("DuplicateLayer")
     ELSE ToCatalogLayer(layer, configs[d].id, budget)

\* One layer of a dataset, after all those before it.
AddLayer(configs, d, i, budget) ==
  LET layer == configs[d].layers[i]
      before(e) == IF e < d THEN DOMAIN configs[e].layers ELSE 1..(i - 1)
  IN IF \E e \in 1..d : \E k \in before(e) : configs[e].layers[k].id = layer.id THEN Failure("DuplicateLayer")
     ELSE ToCatalogLayer(layer, configs[d].id, budget)

\* One dataset after those before it: that it is new, and its layers.
AddDataset(configs, d, budget) ==
  <<IF \E e \in 1..(d - 1) : configs[e].id = configs[d].id THEN Failure("DuplicateDataset") ELSE Answer(None)>>
  \o [i \in DOMAIN configs[d].layers |-> AddLayer(configs, d, i, budget)]

\* The record of a dataset; its bands are those that its layers read.
DatasetOf(config, made) ==
  [id |-> config.id, title |-> Or(config.title, config.id), layers |-> [i \in DOMAIN made |-> made[i].value.record],
   bands |-> UNION {{input.name : input \in Range(made[i].value.template.plan.inputs)} : i \in DOMAIN made}]

FirstFailure(outcomes) == Head(SelectSeq(outcomes, LAMBDA one : one.error # "none"))

CatalogMode(url, sources, configs, added) ==
  IF \E d \in DOMAIN added : \E i \in DOMAIN added[d] : added[d][i].error # "none"
  THEN FirstFailure(FlattenSeq(added))
  ELSE Answer([mode |-> "catalog", url |-> url, sources |-> sources,
               datasets |-> [d \in DOMAIN configs |-> DatasetOf(configs[d], Tail(added[d]))],
               layers |-> FlattenSeq([d \in DOMAIN configs |->
                            [i \in DOMAIN configs[d].layers |-> added[d][i + 1].value.template]])])

CompileCatalogMode(url, sources, configs, budget) ==
  CatalogMode(url, sources, configs, [d \in DOMAIN configs |-> AddDataset(configs, d, budget)])

Fixtures(budget) ==
  [mode |-> "static", layers |-> <<[id |-> "truecolor", budget |-> budget], [id |-> "ndvi", budget |-> budget]>>]

StaticLayers(made) ==
  IF \E i \in DOMAIN made : made[i].error # "none" THEN FirstFailure(made)
  ELSE Answer([mode |-> "static", layers |-> [i \in DOMAIN made |-> made[i].value]])

StaticMode(configs, budget) ==
  IF configs = <<>> THEN Failure("NoLayers") ELSE StaticLayers([i \in DOMAIN configs |-> ToLayer(configs[i], budget)])

\* The layers of a server, of its catalog when it has one.
LayerSource(args, file, catalog, watchDir, budget) ==
  LET sources == CompileSources(watchDir, file.sources)
  IN IF catalog # None
     THEN IF file.layers # <<>> THEN Failure("MixedLayerSources")
          ELSE IF file.datasets = <<>> THEN Failure("NoDatasets")
          ELSE IF sources.error # "none" THEN sources
          ELSE CompileCatalogMode(catalog, sources.value, file.datasets, budget)
     ELSE IF watchDir # None \/ file.sources # <<>> THEN Failure("WatchDirNeedsCatalog")
     ELSE IF file.datasets # <<>> THEN Failure("DatasetsNeedCatalog")
     ELSE IF args.fixtures THEN Answer(Fixtures(budget))
     ELSE StaticMode(file.layers, budget)

EmptyFile ==
  [fault |-> "none", bind |-> None, base_url |-> None, store_root |-> None, cache |-> None, udf_store |-> None,
   catalog |-> None, watch_dir |-> None, egress_allowlist |-> <<>>, sources |-> <<>>, cors |-> None,
   budget |-> None, layers |-> <<>>, datasets |-> <<>>]

\* The scalars, with what the layers come to.
ResolvedConfig(args, file, budget, layers) ==
  LET bind == Or(args.bind, Or(file.bind, DefaultBind))
      root == Or(args.store_root, Or(file.store_root, IF args.fixtures THEN FixturesRoot ELSE None))
  IN IF root = None THEN Failure("NoStoreRoot")
     ELSE IF layers.error # "none" THEN layers
     ELSE Answer([bind |-> bind, store_root |-> root,
                  base_url |-> Or(args.base_url, Or(file.base_url, [host |-> "localhost", port |-> bind.port])),
                  cache |-> Or(args.cache, file.cache), udf_store |-> Or(args.udf_store, file.udf_store),
                  cors |-> IF args.cors # <<>> THEN args.cors ELSE Or(file.cors, <<>>),
                  read_only |-> args.read_only, egress |-> Egress(file), budget |-> budget, layers |-> layers.value])

ResolveFile(args, file, budget) ==
  ResolvedConfig(args, file, budget,
    LayerSource(args, file, Or(args.catalog, file.catalog), Or(args.watch_dir, file.watch_dir), budget))

\* The whole of it: the file, where the data is, and the layers, in this
\* order of refusals.
Resolve(args, given) ==
  IF args.config /\ LoadFile(given).error # "none" THEN LoadFile(given)
  ELSE LET file == IF args.config THEN given ELSE EmptyFile
       IN ResolveFile(args, file, DefaultBudget(args, file))
==============================================================================
