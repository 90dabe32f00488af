# swath: TLA+ verification

Models, model checks and machine-checked proofs of swath: the dataset documents that
several writers share, the pyramids that killed runs leave behind, the drop directories
granules arrive through, the tiles in the cache, the modules users upload, the events
sources report; and, as operators checked against a second reading, the pure parts in
between, from a process graph to the pixels of a tile. Source paths below are relative to
`src/crates/`; names in backquotes are of the code or of the modules.

Contents: 1 the system; 2 modules and runs; 3 the catalog server; 4 the pyramid; 5 user
modules; 6 the drop directories; 7 the tile route; 8 the source bus, and remote reads; 9 the
pure parts; 10 what is proved, and what stays with TLC; 11 observations; 12 not modelled; 13 plan.

## 1. The system and its parts

`swath serve` is one process. Granules arrive in drop directories, are registered in a
pgstac catalog, and are rendered as tiles on request; products are published by POSTing
an openEO graph, which may name a WebAssembly module. `swath materialize` is a second
process that fills the same object store with overview pyramids. `swath ingest` and
`swath sources` are commands that run once.

| part | keeps | operations | hard behaviour | what makes it correct | model |
|---|---|---|---|---|---|
| catalog documents (`swath-core/src/catalog.rs`, `catalog/stac.rs`) | dataset document, granule item | widen, derive an interval, write and read STAC | bounds that are open, or move; foreign documents | an interval covers its granules; what is written reads back, what is spoilt is refused | `CatalogDocs`, `StacDocs` |
| ingest step (`swath-core/src/ingest.rs`), datasets (`swath-api/src/datasets.rs`), services (`swath-api/src/openeo`), start-up (`swath-cli/src/serve.rs`) | the catalog, through `get_dataset` .. `upsert_dataset` | ingest, register, create, publish, delete, restart | whole documents are written back after awaits; cancelled requests, failed calls, crashes | what was answered is listed, after a restart too; an interval is complete, and never made up | `CatalogServer`, `DatasetLedger`, `OpenEoSurface` |
| module store (`swath-api/src/udf.rs`, `swath-store-objectstore`) | modules by content hash | fetch, put, get at start-up | must be ahead of every document that names a module; damaged objects | a published UDF resolves, to the bytes that were published | `CatalogServer`, `ObjectStores` |
| UDF execution (`swath-udf-wasmtime`, `swath-udf-guest`) | a bounded list of compiled modules, a pool of instances | register, run | eviction by other threads, endless guests, guests that lie about buffers | a tile is told what its module answers; every call ends | `UdfHost`, `UdfWire` |
| layer provider (`swath-api/src/provider.rs`) | the layers served now | insert, remove, resolve a frame | is written after the catalog, lost at a crash | serves what the catalog lists; a frame is the latest granule in its windows | `CatalogServer` (live set), `TileServing` (frames) |
| tile rendering and cache (`swath-render/src/tiler.rs`, `swath-core/src/cache.rs`) | cached tiles by content key | render, look up, fill | a key that omits something it depends on; damaged frames | a hit equals a render | `TileServing`, `TileRoute`, `Tiler`, `ObjectStores` |
| pyramid (`swath-pyramid-objectstore`, `swath-cli/src/materialize.rs`) | chunk objects, the group's documents | materialize, describe, read a level | runs are killed, overlap, and race tile requests; nothing locks | a recorded level is whole, and holds what a fresh run would write | `Pyramid`, `PyramidLevels` |
| file-drop watcher (`swath-events-filedrop`), ingest loops (`swath-cli/src/serve.rs`) | names consumed, events parsed and waiting | scan, reference a legacy asset, announce | files change between listing and reading; one bad manifest ends a scan; loops share worker threads | every consumed manifest is accounted for, once; good ones arrive | `FileDrop` |
| uploads (`swath-api/src/uploads.rs`) | objects under `uploads/` | PUT | replaces an asset in use | a pyramid of the old asset is not served as the new one's | `Pyramid` (`Replace`) |
| trace bus (`swath-api/src/traces.rs`), source registry (`swath-cli/src/sources.rs`, `swath-core/src/sources.rs`) | ids, throttle counts, a bounded ring; event log per source | record, publish, subscribe, probe, derive a status | lagging subscribers, ids taken before sending, late probes | no event is lost from the account; failures are news; a subscriber is told what it missed | `SourceBus`, `SourceStatus`, `HttpSurface` |
| process compiler and Render IR (`swath-render`), planner (`swath-planner`), warp (`swath-warp`), raster sources (`swath-source-cog`, `swath-source-virtual`, `swath-icechunk`) | nothing | compile, plan, read, warp, evaluate | wirings, boundaries of windows and estimates, nodata | a tile shows what its graph says, whatever windows were read | `ProcessCompiler`, `RenderIR`, `Planner`, `Tiler`, `Warp`, `VirtualCube` |
| referencer and manifests (`swath-referencer`, `swath-manifest`), `swath ingest` | a manifest, an Icechunk repository | describe, compare, commit | filters, partial chunks, repeated commits | a window holds what the format's library would read | `VirtualCube` |
| browsing (`swath-api/src/granules.rs`, `temporal.rs`) | nothing | page, count, facet | calendars, the antimeridian, limits | each granule of the filter once, in one bucket of time | `GranuleQuery` |
| routes and documents (`swath-api/src/routes.rs`, `ui.rs`, ..) | nothing | mount, advertise, refuse | modes that mount less than they advertise | what is advertised is served | `HttpSurface`, `OpenEoSurface` |
| configuration (`swath-cli/src/config.rs`) | nothing | resolve knobs | precedence | every knob is heard | `ServeConfig` |
| remote sources (`swath-cli/src/sources_cmd.rs`, `swath-sources-stac`) | one read: the hops so far, the bytes held | check, consent, prove, fetch behind an allow list | redirects, bodies without a length, deadlines | no request leaves for a host that is not allowed, or to a source that bills unagreed | `StacFetch` |

How they meet: ingest loops, handlers and start-up share the catalog and nothing else;
handlers also write the module store and the provider, in that order around the catalog
write. A tile request reads the provider, the catalog and the cache in this order, and
nothing keeps them still in between; a layer with a module then asks the executor's list,
which registrations of other threads change. Materialize runs and tile requests share
only objects. The watcher hands events to its ingest loop by return value; the loop calls
the catalog and records on the bus what came of it.

## 2. Modules and runs

| module | what it is |
|---|---|
| `CatalogDocs` | the document vocabulary: plans, layers, intervals, `Including`, `TemporalInterval` |
| `CatalogServer` | one server over its catalog, every handler call by call |
| `DatasetLedger` | abstract specification: each operation takes effect at once, on one entry |
| `MCCatalogServer` | instances for TLC, and the refinement mapping to `DatasetLedger` |
| `CatalogServerProofs` | theorems about `CatalogServer`, whoever asks; and about what a restart heals and a server asked one thing at a time answers |
| `Pyramid`, `PyramidLevels` | the pyramid of one asset: who writes and reads when; its pixels and documents |
| `UdfHost`, `UdfWire` | the executor of user modules; the buffers between host and guest |
| `MCPyramidHost` | instances of `Pyramid` and `UdfHost` |
| `PyramidProofs`, `UdfProofs` | theorems about single levels and whole ladders; about the executor |
| `FileDrop`, `FileDropProofs` | drop directories, watchers and ingest loops; theorems |
| `HttpSurface`, `ObjectStores` | routes and documents; kept frames and modules |
| `OpenEoSurface` | openEO requests over `ProcessCompiler` and `Planner`, tile addresses, previews |
| `ServeConfig` | arguments and file of `swath serve` |
| `SourceBus`, `SourceStatus` | bus and registry, the derived status |
| `StacFetch` | one `swath sources` command, and the read it may make |
| `SourceBusProofs` | theorems about the three |
| `MCFrontDoor`, with `MCApi`, `MCCommands` | instances of `FileDrop`, `SourceBus` and `StacFetch`; bounded questions to the surfaces and stores, `ServeConfig` and `PyramidLevels` |
| `TileServing` | tile requests over provider, catalog and cache, and the refinement mapping to `TileRoute` |
| `TileRoute` | abstract specification: tile requests without a cache |
| `Planner`, `MCPlanner` | the planner; the procedure of its design, as a second reading |
| `TileServingProofs` | theorems about the tile route, its abstract specification, and the planner |
| `ProcessCompiler`, `RenderIR` | graphs lowered to plans; plans evaluated at a pixel |
| `Tiler`, `Warp` | describe, read (COGs), warp and evaluate one tile |
| `GranuleQuery`, `StacDocs`, `VirtualCube` | browsing; STAC documents and registrations; legacy granules |
| `MCServing`, with `MCCompiler`, `MCTiles`, `MCQueries`, `MCCubes` | instances of `TileServing`; bounded questions to the seven, `UdfWire` and `Planner`, each with a second reading |
| `MCDocuments` | one question to each place where code and documents differ, beside the violated runs |
| `Passes` | lemmas on recursive functions that pass over a sequence, and on lowest and greatest numbers |
| `Outcome`, `Exact` | results and exact rationals |

Operators whose comment begins with "Variant:" are not part of a specification. Each is
an action or helper with one plausible mistake in it, and is there to show that the
property it is paired with in `PROJECT.json` notices the mistake.

| run | module | shows |
|---|---|---|
| `MCCatalog` | `MCCatalogServer` | section 3; `TypeInv` `ModuleResolvable` `IntervalWitnessed` `ConfigDriftHealed` `ServicesWhenAlone` `IntervalWhenAlone` `ImplementsLedger` `BootServesListed` |
| `MCWideningRace` (violated) | `MCCatalogServer` | `WideningMonotone`: the slower of two ingests narrows the interval that the other widened |
| `MCRestartOutage` (violated) | `MCCatalogServer` | `PublishedSurvives`: an outage of the module store at one start-up removes the service for good |
| `MCPyramidRuns` | `MCPyramidHost` | sections 4 and 5; `TypeInv` `CompletedIsWhole` `OverlappingAsFresh` `LadderWhenAlone` `RunsEnd`; `ModulesServeAlike` `CallsEnd` |
| `MCPyramidMixed` (violated) | `MCPyramidHost` | `OneGeneration`: a run killed in its first level leaves chunks and no document, and a rerun with another resampling keeps them |
| `MCUdfEvicted` (violated) | `MCPyramidHost` | `RegisteredRuns`: a module that a layer was published with is evicted by the registrations of others |
| `MCFrontDoor` | `MCFrontDoor` | sections 6, 8 and 9; `TypeInv` `NothingVanishes` `AnnouncedOnce` `LegacyIsReadable` `GoodManifestArrives`; `BusTypeInv` `BusAccountsForLog` `FailuresAreNews` `RowIsNewest` `ToldOfLoss` `StreamsCatchUp`; `FetchesStayAllowed`; `ServesAsAdvertised` `PreviewsAsPublished` `ConfiguredAsGiven` `LevelsShowBlocks` |
| `MCFileDropStarved` (violated) | `MCFrontDoor` | `GoodManifestArrives`: with one worker the loop of an unreadable directory never awaits and keeps the worker |
| `MCServing` | `MCServing` | sections 7 and 9; `TypeInv` `LatestInBothWindows` `CacheUnseen`; `ProductsAsWritten` `WiringChecked` `TilesAsFromWhole` `PlansAsSpecified` `GranulesAccounted` `WrittenReadsBack` |
| `MCStaleTile` (violated) | `MCServing` | `TileShowsItsFrame`: a layer's resampling is edited, and the old tile goes on being served |
| `MCSourceIds` (violated) | `MCFrontDoor` | `IdsMonotonic`: two events take their ids in one order and are sent in the other |
| `MCDocuments` (violated) | `MCDocuments` | `AsDocumented`: the cases that the passing runs name as exemptions, each beside what is documented (section 9) |

A run that covers two concerns has a variable that is chosen in the initial state and
never changes (`alone`, `hosting`, `serving`, `scene`, or the question asked): each
behaviour is of one of them, and the parts that rest in it do nothing.

## 3. The catalog server

**State.** `docs` and `granules` are the catalog; `moduleStore` the module store;
`served` the provider's layers; `task` what each handler and ingest step in flight has
read and does next; `boot` the phase of start-up. `promise` (the last answer given about
a service, if no other request on it overlapped) and `arrived` (datetimes ever
registered) are history variables that no action's guard reads.

**Actions.** One action is one call to a store with the code up to the next await:
`IngestUpsert`/`IngestRead`/`IngestWrite` are `ingest_granule`; `Register*` are POST of a
granule, `Create*` POST of a dataset, `Publish*` POST of a service, with the module
fetched and persisted before the document is written; `Delete*` DELETE of a service;
`Boot*` start-up, one dataset at a time, with the layers that rehydrate carried over.
`Abort` is a failing call or a client that goes away, `Crash` the death of the process.
A failing call during start-up ends the process and is a `Crash`.

**Abstractions.** A plan is "plain" or the module it names, a definition (bands, bbox,
title) is a model value, a datetime a small number. Modules are fetched anew by each
publish and may differ. An inline (`data:`) module needs no store and behaves as a plain
plan at rehydration. One server process per catalog. Layers fixed in the configuration
and graphs that stop compiling under a changed configuration are not modelled.

**Runs.** `MCCatalog` has one dataset from the configuration and one registered through
the API, a UDF service and a plain one, two granules, two instants, two definitions, one
module, two handlers and one source. Either requests come one at a time (`alone`), with a
crash, a failed call and an outage of the module store; or two requests and an ingest on
the configured dataset overlap, with a crash. Being alone is an assumption about clients, not
something the server enforces; with it the server implements the ledger, and without it
it does not (the widening race is the smallest witness, and any two of the writers of
section 1 can take each other's parts: a publish is undone, and a deleted service comes
back, by an ingest that read the document before). Two overlapping requests are enough
for a lost update, two datasets for the two kinds that start-up treats apart, and two
instants for a bound that moves on either side. `MCWideningRace` has two sources and
three instants, `MCRestartOutage` one publish, one crash and one outage. No fairness is
assumed and no liveness is stated: a request has no retry and nobody waits for it.
Requests are interchangeable, hence the symmetry; liveness is not checked under it.

**Proved**, for every number of requests, sources, datasets, modules, crashes and outages:

- `TypeCorrect`: `TypeInv` is inductive as it is, because `TaskShape` says what a task
  holds at each point of its handler.
- `ModulesResolve`: `ModuleResolvable` is not inductive, since a handler may write back a
  document read long ago. `ModuleInv` adds that documents in flight are as good as stored
  ones and that a plan about to be written is in the store; it is kept because
  `PublishPersist` comes before `PublishWrite` and nothing ever leaves the store.
- `IntervalsWitnessed`: `WitnessInv` extends `IntervalWitnessed` to documents in flight,
  and says that what a task widens by has arrived at the task's dataset.
- `DriftIsHealed` and `RestartServesListed`: `BootInv` adds to `ModuleInv` and
  `WitnessInv` what start-up is done with: those configured datasets are registered with
  the interval of their granules, a service that was restored is served as listed, and no
  task exists before the end. Stored granules belong to registered datasets (`Homes`).
- `ServerImplementsLedger`, of `MCSpec`, where clients come one at a time if `alone`: in
  `LedgerInv` a document that a task holds is the stored one, but for the one change it is
  about to write (`Current`). The proof has one lemma per handler and maps every action
  to a step of `DatasetLedger` or a stutter: a write back changes one entry, start-up is
  `Restart` or `Derive`, everything else stutters.
- `AnswersHold`: `PromiseInv` adds what is left between the catalog's answer and the
  provider's: what is served is what is listed, or the one task in flight is about to
  bring it in line; and what was promised is listed, unless the module store failed.
- `IntervalsComplete`: `CoverInv` adds that every datetime of a configured dataset is
  covered by its interval or is about to be, by the task in flight, as long as no call has
  failed since. It needs that the derived interval of one more granule is `Including` of
  it, a lemma (`TakingInOneMore`) that `MCCatalogServer` checks as an assumption, too.

The proofs assume `DeploymentAssumption` and `NoneAssumption`, and that instants are
naturals.

## 4. The pyramid

**State.** `asset` is the version at the asset's URI, `chunks` maps the chunk objects
that exist to what they were computed from, `attrs` is the `.zattrs` document; `run` and
`reader` are what each materialize run and each tile request holds.

**Actions.** `Start` describes the asset; `Load` is `load_attrs_strict` with the conflict
checks; `Probe` is one `head`; `ReadStrip` and `FetchStrip` read the strip through the
overlay (document, then chunks); `PutChunk` writes one missing chunk; `Record` is
`write_group_docs`, from the run's own copy of the list. `Stop` is a kill, or a failing
store. A tile request is `Describe`, `Advertise`, `ReadLevel`, `FetchChunk`. `Replace`
is an upload over the asset.

**Abstractions.** Pixels are the computation that made them: the resampling and the set
of inputs, down to the asset version (`PyramidLevels` has the pixels, section 9). The
chunk size is one constant, so a conflict over it does not occur here. A window is one chunk
wide for tile requests; the gets of a strip are one step, since chunk objects are never
removed. `.zarray` and `.zgroup` are left out: nothing here reads them. An operator who
removes a pyramid is not modelled. `Powers` ends at 2^30.

**Run.** `MCPyramidRuns`, with chunks of one pixel and two deaths. Either one run at a
time (`alone`), of either resampling, while tiles are served and the asset stays: 5x3
pixels (ragged), level 2 embedded. Or two overlapping runs of two depths, and one
replacement of the asset by a smaller one. Levels of several chunk rows and columns, a
base level other than the asset and a ladder of two recorded levels all occur in these
sizes; two deaths allow a death during a resumption. `Fairness` is weak fairness of the
steps of a run that is under way: it is a process, awaiting calls that return or fail.
Nobody is obliged to start a run. One writer is the discipline that `materialize`
documents: with two, the slower one writes back a shorter list.

**Proved**, for every raster size, chunk size, ladder, number of runs and of deaths:

- `PyramidTypeCorrect` and `RecordedLevelsAreWhole`. `CompletedIsWhole` is not inductive:
  `Record` relies on what the run probed many steps before. `WritersInv` says what each
  run may rely on, at each point: the levels of its own document are whole, the rows it
  has passed are whole, and in the current row each chunk exists or is in `missing`; it
  is kept under the steps of other runs because the set of chunk objects only grows, and
  under `Load` because a document is resumed from only if its grid is the run's.
- `LoneRunsServe`: `Spec /\ []OneWriter => [](AdvertisedIsReadable /\ DoneIsRecorded)`,
  where `OneWriter` says that at most one run is under way and the asset was not
  replaced. `AloneInv` adds that a run at work knows of every recorded level (so that
  recording takes none away), that a finished one has its ladder recorded, and that a
  tile request plans with levels it can read.
- `AlikeRunsAreFresh`: for any set of specifications with one resampling,
  `Spec /\ []OnlyOf(specs) => []AsFreshRun(specs)`: however many runs overlap and die, a
  chunk holds what a run alone and uninterrupted would have written, until the asset is
  replaced. `FreshInv` says that recorded and built levels are always a ladder from below
  (`Downward`), that a run builds the lowest level left, and that the strip in its hands
  is what that run would have read. The content of a fresh run is defined by recursion
  over the levels; that the recursive function has the value its equation says
  (`FreshContentUnfolds`) is proved by its lowest counterexample.
- `LadderServes` and `OverlappingRunsAreFresh` are the same for the deployment that the
  run checks, whose guards imply the premises.

They assume `PyramidAssumption` and `AbsentAssumption`.

## 5. User modules

**State.** `modules` is `UdfExecutor`'s list of compiled modules, the most recently used
first; `call` what each thread is doing, with the fuel, the deadline and the pool slot it
holds; `pinned` the stages that registration has answered for; `since`, a history
variable, the modules used after the last use of each.

**Actions.** Registration is `CompileLookup`, `Validate`, `Compiled`, `DropProbe`,
`ProbeArity`, `Registered`; a tile is `RunLookup`, `RunInstance`, `Transferred`,
`RunAnswered`. In between the guest takes steps (`GuestStep`), runs out of fuel or time
(`GuestStopped`), or traps; `Tick` is the thread that advances the engine's epoch. The
list is behind a mutex that is held for one lookup or insertion, hence one action each.

**Abstractions.** `Guest` gives for each module what it declares, how many steps each of
its functions takes (or that it never ends), which of them trap, and what they answer.
Compiler and instructions are wasmtime's. Bytes of requests and responses are `UdfWire`'s.

**Run.** `MCPyramidRuns`, `hosting`: five modules (a sound one, one that loops, one whose
answer has too many planes, one that traps in its probe, one of an old ABI), two threads,
one of which renders tiles too, a list of two, a pool of one instance. Two threads are
enough to compile one module side by side or to evict what the other registered; a budget
that is spent in the last function and one that no tile can spend tell fuel from
deadline. Fairness is weak fairness of each thread's steps and of `Tick`: both are OS
threads.

**Proved**, for every set of modules, threads, budgets, pool and list: `ModulesServe`, and
`ModulesServeBesides` for the deployment of the run. `HostInv` consists of `ListInv` (of
a module in the list, those used since are the ones in front of it; of one that left, at
least a full list of others), of the fuel account `Metered` (what is left, plus what the
functions so far take, is the budget plus the steps still to do), and of `Permitted` for
what a tile is told. The assumption is `HostAssumption`: what a guest may be at all.

## 6. The drop directories

**State.** `dir` is what each manifest name holds, `health` whether a directory is there
and can be read; `seen` and `pending` are the watcher's fields; `loop` is where each
ingest loop stands, `running` the loops that hold a worker thread; `registered` and
`manifests` are what reached the catalog and the virtual manifests stored; `failed` is
the set of names for which a failure was recorded.

**Actions.** `List` is the beginning of `scan`, `ReadNext` one turn of its loop
(mark, read, reference, queue), `Pop` hands out a waiting event, `Ingest` is the loop
around `ingest_granule`, `Wake` the end of the sleep. `Acquire` is the runtime giving a
task a worker, which it keeps until it awaits: at the sleep or in a catalog call.
`Restart` loses the watcher's fields. `Drop` adds, replaces or removes a manifest, at any
time, also between `List` and `ReadNext`; `Mount`, `Break` and `Mend` change a directory.

**Abstractions.** A manifest is one of four kinds: good, legacy (its assets need
referencing), orphan (its dataset is unknown), broken. Any read, referencing or catalog
call may fail, within bounds. `ingest_granule` is one step; `CatalogServer` has its calls.

**Runs.** `MCFrontDoor`: two directories, three names, a worker for each loop; two drops,
and any two of a failing read, referencing or catalog call, an outage and a restart
(`MaxTroubles`; what is proved has no such bound). Two names in one directory make a scan
that fails half way; the third, in the other directory, is the sibling. `MCFileDropStarved` has one worker and one outage. `Fairness`: a thread runs
the task it was given, timers fire, catalog calls return (weak); a task that wants a
worker gets one when workers are free again and again (strong, as the runtime's queue is
fair). Nothing broken has to be mended. `swath serve` builds tokio's multi-threaded
runtime with as many workers as the machine has cores, so the violated instance is a
container with one core, or any machine with as many unreadable directories as cores.

**Proved**, for every set of directories and manifests, every number of workers and any
bound on failures: `FileDropTypeCorrect`, `NothingIsLost`, `AnnouncementsOnce` and
`LegacyRegisteredReadable`. None of the last three is inductive. `AccountInv` adds what
ties the parts together: whatever waits, is in hand or has failed was marked by the
watcher of its own directory, what a scan has still to read was not, and an event for a
legacy granule has its virtual manifest stored. An append is then of a new name, a step
of one loop cannot touch the names of another (`OtherSource`; every name has one `Home`),
and virtual manifests are never removed. The proofs assume `FileDropAssumption` and
`AbsentAssumption`.

## 7. The tile route

**State.** `layers` is the provider's set, `catalog` the granules of the dataset, `cache`
the objects of the tile cache by key; `req` is what each request has read and does next;
`happened` is the set of incidents so far.

**Actions.** `Ask` copies the layer out of the lock; `FindBranch` is `resolve_branch`, one
catalog query, and after the last branch the lookup of every band; `Probe` is the `get` of
`render_tile_cached`, `Render` is `render_planned` with `describe_bands` and the planner,
`Put` the write-through. `Cancel` is a client that goes away at an await. Meanwhile
granules are registered (`Register`, also again under their ids), services published and
removed, cache objects lost or replaced by foreign ones (`Interfere`), and the server
restarted with an edited configuration (`Restart`); the cache survives it.

**Abstractions.** A tile is the tuple of what decides its pixels. A definition has two
parts: `spec` is what the key contains of it (render plan, tile size), `kernel` what it
does not (resampling). Hashing is the identity on what is hashed, since fields are
length-prefixed, except that granule ids are joined with "+": `Pieces` are the parts
between. Whether a render uses an overview is open (the factor). The search is pgstac's,
as the comment on `datetime_filter` describes it. An "incident" of each kind happens at
most once, and at most `Most` kinds happen.

**Abstract specification.** `TileRoute` is the same route with neither a cache nor a
store that could fail. It keeps the catalog, the layers, and of each request a `view`: it
waits, is `resolving`, is `drawing`, or is done. `Resolve` gives the next branch what is
newest in both windows at that moment; `Draw` answers with a tile of the definition that
was read and the frame that was resolved. A request may also be told that there is nothing
(`Ask`, `Miss`), or come to nothing (`Fail`). `View` maps a request of `TileServing` to it:
asking the cache, rendering and writing through are all `drawing`, and a tile counts when it
is answered. `CacheUnseen` is the refinement: what the cache holds, loses or is given by
others cannot be told from outside. It is stronger than `TileShowsItsFrame`, which
compares an answered tile with what its request resolved, and says nothing of when that
was the newest.

**Runs.** `MCServing`: two interchangeable requests for a configured layer and a service of
two branches; two granules, two instants, two request windows; one incident.
Two requests are a fill and a hit, or two fills of one key; two granules and instants give
every order of arrival and acquisition; the service's second branch has a window that the
first has not, so that its frames share their first granule. The configured layer may be
edited between a cached definition and one that is not, of another kernel. `MCStaleTile` has
one configured layer whose resampling alone is edited; there `TileShowsItsFrame` is
violated; in the other instance it is part of what `CacheUnseen` says. No fairness is
assumed: a request has no loop and waits for nobody.

Three things break the properties of a tile, and are hypotheses of the theorems that
`MCServing` assumes of its instance: `Apart` (no two acquisitions a millisecond apart:
`datetime_filter` widens a window of one instant, and the search includes its end), and
`KeysTell` (ids contain no "+"; a layer's kernel is not edited alone; a granule keeps its
assets). The code enforces none of them; `MCStaleTile` is what happens without the second
part of `KeysTell`.

**Proved**, for any requests, layers, granules, windows and definitions:
`ServingTypeCorrect`; `LatestIsResolved` (`Apart => (Spec => LatestInBothWindows)`), from
`TileInv`, which adds that of registered granules there is always a newest, and from
lemma `CandidatesExact`, that the widened search finds exactly what is in both windows;
`TilesShowTheirFrames` (`KeysTell => (Spec => []TileShowsItsFrame)`), from `ShowInv`:
every cache object that is not foreign is the tile of a definition its layer may have,
over some frame, with the key that these have (`CacheTells`), and equal keys make equal
tiles; `TheCacheIsUnseen` (`KeysTell /\ Apart => (Spec => CacheUnseen)`), from both
invariants: one lemma per action says how the views turn, a hit is a `Draw` because of
`ShowInv`, a resolution is a `Resolve` because of `CandidatesExact`, and a restart, which
ends all requests, is why a step of `TileRoute` may move many of them. They assume
`TileAssumption`, `OpenAssumption` and `AbsentAssumption`.

## 8. The source bus, and remote reads

**State.** `clock` is both clocks; `task` is where the start-up, ingest and probe task of
each source stands in `record`; `holder` the task inside the publisher's mutex;
`throttle` per source the last admission and the count folded since; `nextId` the atomic
counter; `bus` every message sent, of which a ring holds the last `Capacity`; `log` the
event log; `render` and `stream` what tile renders and subscribers hold.

**Actions.** `Start`, `IngestLoop`, `CheckCredential` and `Probe` observe and stamp an event;
`Publish` enters the mutex and folds or admits it; `Send` broadcasts and leaves; `Push`
appends to the log. `TakeId` and `SendTrace` are a render's two halves, outside the mutex.
`Recv` is one `poll_next` of a subscriber, a message or the report of a lag.

**Abstractions.** Details of failures are numbers; traces have no payload. A render's trace
is not logged. Rows are derived by `SourceStatus` from the log, on demand.

**Runs.** `MCFrontDoor`, `scene` = "unread" and "read", and `MCSourceIds`: one source with a
credential, one render, one subscriber, a ring of one, a window of two ticks on a clock of
two, four events, one trace. While "unread", nobody subscribes and nothing is rendered, so
that all events are of the tasks; while "read", those and the traces on their way or sent
are fewer than four together (`Carried`). A ring of one makes the first unread message a lag;
four events are start-up, two of one task and one of the other; the clock makes equal and
unequal stamps, in and out of the window. Fairness: a stream that stays open is polled.

**Proved**, for any sources, renders, subscribers, ring and window: `SourceBusTypeCorrect`;
`LossesAreTold`; `FailuresReachTheBus`, from `NewsInv` (a failure about to be logged has
been sent); `BusKeepsAccount`, from `AccountInv`: per source, what is logged or past the
bus is as many as what the messages on the bus and the one being sent stand for, plus what
the throttle holds. The counts are cardinalities of sets indexed by message, and the
lemmas on them (`IntervalFromZero` and those after it) are what makes the steps short.
`RowsShowTheNewest`: the status is a pass over the log, written as a recursive function
(`NewestOf`, `OfSource`). That such a function exists, and what it has come to after each
of its steps, is proved by the lowest step at which it would fail (`PassExists`,
`NewestOfIsNewest`); that the event it keeps decides the row as `RowIsNewest` says follows
from the order of instants, ranks and wordings; and `TruthInv` says that what an event
tells of a credential is so.
They assume `SourceBusAssumption` and `NoneAssumption`.

**Remote reads.** `swath sources` is a process of its own. `fetch` is its command with the
file it reads, where it stands, the URLs it has asked for, the bytes it holds, and how it
ended. `Allowlist` and `Consent` look into the file; `Prove` reads a source, if its
operator agreed to pay; `Fetch` reads a URL. A request is answered with a redirect
(`Moved`), an error (`Denied`) or a head (`Found`); a body comes in chunks (`ReadCapped`) up
to its end (`Whole`); it may break (`Broken`) or the deadline may pass (`Timeout`). What a
server answers is free: any of `Pages` to any request, whatever it said before, and a body
of any length. Elapsed time is not counted, so the deadline may pass at every wait, and how
late it may be noticed is not a question here.

`MCFrontDoor`, `scene` = "command": four lists of hosts (none, a blank one, one in capitals,
one of three), a file of four sources under three ids, URLs of three hosts, of other
schemes and of none; a cap of three bytes, chunks of one and two, so that a body meets the cap
exactly and passes it by one. `MaxRedirects` = 4 is the code's. Proved, for any orders, pages,
chunks and caps: `ReadsStayAllowed`. `FetchesStayAllowed` is not inductive: `FetchInv` adds
the shape of `fetch` and (`Sound`) that what has been asked was admitted by the policy of
the order, that nothing is waited for unasked, and that a refusal has its reason in the
order. It assumes `FetchAssumption`.

## 9. The pure parts

Much of swath keeps no state: it compiles, plans, reads, counts, answers. These parts are
operators, one for each function of the source, and `MCServing` and `MCFrontDoor` ask
them questions. A behaviour begins with one question of a bounded set and has one step,
in which the modelled code answers it; an invariant compares the answer with a *second
reading*, written from what the part is for and not from how it goes about it. An answer
is the end of a behaviour, hence `CHECK_DEADLOCK FALSE` in these two runs.

| question | the part answers with | the second reading |
|---|---|---|
| graph, spoilt graph | `ProcessCompiler` compiles it; `RenderIR` evaluates the plan at every pixel of a scene | `MCCompiler`: the pixel the graph denotes, node by node; the instants each branch admits; the cycles and the dangling references it has, wherever they are; the node that was spoilt |
| tile | `Tiler` over `Warp`: describe, plan, read windows, warp, evaluate | `MCTiles`: whole rasters, at the level the trace names; no sample out of nodata |
| plan | `Planner` weighs estimates | `MCPlanner`: the plan of the design: coarsest shared overview within the slack, full read within the ceiling, refusal |
| wire | `UdfWire`, both ends, and the guest's allocator | a buffer is well-formed or not; no memory given twice |
| listing, time, cell, facet, scope | `GranuleQuery`: pages through their next links; counts; facets; the three over one filter | `MCQueries`: instants and places; each granule once, the newest first |
| document, registration | `StacDocs` writes and reads back, also with one path spoilt; a request body becomes a granule | the document that was written; the path that was spoilt; the box around all pixels |
| window, grid, pair, ingest | `VirtualCube`: describe a file, read by the manifest and by the repository it was committed to; compare; the command, twice; a commit over an earlier one | `MCCubes`: the dataset as the format's library reads it; provenance; what a command leaves behind |
| route (with the lists of sources) | `HttpSurface`, `ObjectStores` | `MCApi`: what is advertised is what is mounted |
| preview | `OpenEoSurface`, whose graphs go through the compiler and whose renders through the planner; `ObjectStores` | `MCApi`: a preview refuses and shows what publishing would, under both ceilings; kept frames and modules come back, or not at all |
| config | `ServeConfig` | `MCCommands`: the most specific place that gives a knob |
| level | `PyramidLevels`: build, record, resume, read, and batches of layers | the block of asset pixels under a pixel; the store of an uninterrupted run |

**Abstractions.** Samples are exact rationals (`Exact`), so rounding of floats is out of reach;
what a reprojection does to a point is an affine map or a shift, so that of the geometry only
the code's use of it (sampled edges, margins, target grids) is checked. A raster is a few pixels
that are told apart by place and directory; a scene for the Render IR is one pixel per load,
since no operation of the IR looks at a neighbour. A file is its structure: datasets, chunks,
filters, fields of headers, and not bytes. Text is taken apart where the code does it (windows,
boxes, headers).

**Bounds.** Limits of the code are constants, small enough to be met from both sides: a page
limit of 3 and 4 over catalogs of five granules, 12 buckets, two facet values, byte counts that
saturate at `U64Max` = 100000 in `MCServing` (the estimates of the larger rasters exceed it),
windows about the code's own preview ceiling of 8 MiB in `MCFrontDoor`, three zoom levels of
which previews may use two, words of 8 and bytes of 5 values, a frame of few bytes that is cut
at each of them. Graphs are chains of up to two processes over one load, joins of two branches,
and all wirings of two filters, an ndvi and a join, cyclic ones among them: a branch, a merge, a
dangling and a shared node all occur, on the way to the result and off it. A commit comes after
none, after one of other arrays, or after one that had more chunks. Calendars are asked about
instants around the ends of months, leap days, weeks, years, and year 9999. Rasters of levels
are 5x3, 8x2 and 7x7 pixels in chunks of two, with ragged edges.

**Exemptions.** A second reading is silent about a case where the code is documented to do
nothing better: a warp whose kernel reaches beyond the margin (`WithinReach`,
`tiler.rs:288-292`), the end of the calendar, a NaN nodata, which JSON has no word for. Where a
document promises more than the code does, the case has a name, no property that passes speaks
of it, and `MCDocuments` asks for it and answers with both, what the code says and what is
documented:

| exemption | in | asked as | documented at |
|---|---|---|---|
| `BeyondWord` | `MCApi` | `RowBeyondWord` | `routes.rs:717-720`: a row out of the matrix is not found |
| `Unlisted` | `MCApi` | `PrefixesMissing` | `ui.rs:34-39`: the prefixes are those of the API's routers |
| `LaterExtent` | `MCApi` | `ExtentOfFirstLoad` | `handlers.rs:476-480`: the extent is the first load's |
| `MarkedApart` | `MCApi` | `IdsOfOneGraph` | `openeo/mod.rs:70-72`: an id is of the process graph |
| `PayloadCut` | `MCApi` | `FrameCutShort` | `tile_cache.rs:39-41`: a truncated frame is corrupt |
| `FaultOffPath` | `MCCompiler` | `CycleBeside`, `DanglingBeside` | `process.rs:96-100`, `:1690-1693`: malformed graphs are refused |
| weeks, whose weekday is left open | `MCQueries` | `WeekStart` | `granules.rs:521`: weeks run Monday-first |
| `Widened` | `MCQueries` | `WindowOfInstant` | pgstac `lib.rs:231-233`: it is the same window |
| `NamedBare` | `MCCubes` | `BareName` | `ingest.rs:37-39`, `:132-134`: chunks resolve against the granule's directory |
| `GoneKept`, `Outgrown` | `MCCubes` | `CommittedAgain` | `source.rs:4-20`: a commit serves what the manifest does |

`AsDocumented` is violated in the state after the one step, in all eleven places at once; a
place whose code or document is mended no longer differs there, and its exemption can go.

**Proved**, of the planner: `PlannerDecides`, for every tile size, budget, probe and list of
bands, and any width of a byte count that holds a full read. Code and design differ in how
they go about it: the code weighs sums of saturating and wrapping estimates against each
other and takes the cheapest candidate, while the design goes through hit, overview, full
read and refusal in this order. The proof shows that no estimate saturates or wraps as long
as a full read fits (a band read at a factor above one costs no more than in full), that
the slack admits the overviews that are sharp enough, by axis, and that the cheapest
candidate is therefore the first of the design's. Passes over bands and overviews are recursive
functions, whose values come from `Passes`. It assumes `WidthAssumption` and
`PlanningsAssumption` (what a question may be at all: no negative size). Beyond the width the
estimates saturate, and the procedure says nothing.

Where a question involves an effect on a store (a publication and the restart after it, a
run over what a killed one left, a command given twice), it enumerates where the calls
fail, and the answer is the sequence of stores.

## 10. What is proved, and what stays with TLC

| theorem | module | states | argument |
|---|---|---|---|
| `TypeCorrect`, `PyramidTypeCorrect`, `FileDropTypeCorrect`, `SourceBusTypeCorrect`, `ServingTypeCorrect` | one in each of five | `TypeInv`, `BusTypeInv` | inductive, with the shape of tasks |
| `ModulesResolve`, `IntervalsWitnessed` | `CatalogServerProofs` | `ModuleResolvable`, `IntervalWitnessed` | `ModuleInv`, `WitnessInv` |
| `DriftIsHealed`, `RestartServesListed` | `CatalogServerProofs` | `ConfigDriftHealed`, `BootServesListed` (an action property) | `BootInv`, `Homes` |
| `ServerImplementsLedger` | `CatalogServerProofs` | `ImplementsLedger` (refinement) | `LedgerInv`, a lemma per action |
| `AnswersHold`, `IntervalsComplete` | `CatalogServerProofs` | `ServicesWhenAlone`, `IntervalWhenAlone` | `PromiseInv`, `CoverInv` |
| `RecordedLevelsAreWhole` | `PyramidProofs` | `CompletedIsWhole` | `WritersInv` |
| `LoneRunsServe`, `LadderServes` | `PyramidProofs` | `LadderWhenAlone`, for any and for the checked deployment | `AloneInv` |
| `AlikeRunsAreFresh`, `OverlappingRunsAreFresh` | `PyramidProofs` | `OverlappingAsFresh`, likewise | `FreshInv` |
| `ModulesServe`, `ModulesServeBesides` | `UdfProofs` | `ModulesServeAlike`, likewise | `HostInv` |
| `NothingIsLost`, `AnnouncementsOnce`, `LegacyRegisteredReadable` | `FileDropProofs` | `NothingVanishes`, `AnnouncedOnce`, `LegacyIsReadable` | `AccountInv` |
| `LatestIsResolved`, `TilesShowTheirFrames` | `TileServingProofs` | `LatestInBothWindows` (an action property), `TileShowsItsFrame` | `TileInv`, `ShowInv` |
| `TheCacheIsUnseen` | `TileServingProofs` | `CacheUnseen` (refinement) | both, a lemma per action |
| `PlannerDecides` | `TileServingProofs` | `PlansAsSpecified` | exact estimates, `Passes` |
| `LossesAreTold`, `FailuresReachTheBus`, `BusKeepsAccount` | `SourceBusProofs` | `ToldOfLoss`, `FailuresAreNews`, `BusAccountsForLog` | `NewsInv`, `AccountInv` |
| `RowsShowTheNewest` | `SourceBusProofs` | `RowIsNewest` | what a pass computes, `TruthInv` |
| `ReadsStayAllowed` | `SourceBusProofs` | `FetchesStayAllowed` | `FetchInv` |

Each holds for every value of the constants that meets the named assumptions, which TLC
evaluates in the runs. Restrictions that are not assumptions about constants (one client at a
time, one run at a time, one resampling, no replacement, distinct ids) are hypotheses that stand
in the statements.

These stay with TLC:

- `RunsEnd`, `CallsEnd`, `GoodManifestArrives`, `StreamsCatchUp`: liveness under fairness,
  whose proofs need ENABLED, which the prover does not handle.
- `ProductsAsWritten`, `WiringChecked`, `TilesAsFromWhole`, `GranulesAccounted`,
  `WrittenReadsBack`, `ServesAsAdvertised`, `PreviewsAsPublished`, `ConfiguredAsGiven`,
  `LevelsShowBlocks`: two readings of graphs, calendars, files and documents, most of them
  recursive or folds, compared over the bounded questions of section 9. For other inputs
  they are not established: RECURSIVE operators and folds cannot be reasoned about with
  these provers, and a proof would need each of them written as a recursive function, as
  `NewestOf` and the planner's sums are, with a lemma on its steps.
- The properties of the violated runs, which are false of those instances. One of them,
  `TileShowsItsFrame`, is a theorem under the hypothesis that its instance breaks.

## 11. Observations

What was met in the code while modelling it, beside the findings that the violated runs
show, those of `MCDocuments` among them (section 9). None of these is claimed by a run; each
is a reading of the lines it names.

*Catalog and start-up.* `create_dataset` checks and writes in two calls, so two overlapping
registrations of one id both succeed. An interval that drifted on a dataset registered
through the API is not re-derived at start-up. Start-up registers datasets before it opens
the serving store and the port, so a start that fails there has already written the
catalog. `[[layers]]` with one id twice silently keep the last.

*Tile route.* A layer of two branches resolves them at two moments (`provider.rs:494`), so
that a registration in between gives one frame two different nows. No doc promises one
moment, and `TileRoute` says two as well.
Ids that contain "+" can make two frames share a key, though `layer_version_over` says
that pairs in either order never do. A granule registered again with other assets keeps its
key, and its cached tiles.

*Modules.* Of more than 32 registered modules one that a layer is served with is evicted
(`MCUdfEvicted`); a ninth render at once fails for the pool; a start function that traps is
reported as `MemoryLimit`. A module whose stored bytes were damaged is not mended by
publishing it again, since `put` leaves an existing object alone, and the next restart
finds it corrupt. Rehydration gives all remote modules of one graph the same bytes.

*Pyramids.* `read_window` of the overlay checks that a level is recorded but not that the
pyramid matches the asset; a replaced asset of the same size and type keeps its pyramid.
A NaN nodata is null in `.zattrs` and comes back as none (`layout.rs`), so a level over a
recorded level averages NaN into valid pixels. A mean of valid samples can equal the
nodata value, and a mean of means under nodata is not the mean. `.zarray` always states the
default chunk. A `.zattrs` that cannot be read is a conflict to `materialize` and no pyramid
to serving. `materialize` gives up a whole run when one catalog layer has no granule.

*Granules.* A footprint at longitude
180 or latitude 90 counts in a column or row past the last; one that crosses 180 degrees
may count twice in a cell, and its Item's polygon is drawn the wrong way round. The last
month and year of the calendar have an end that is their start; hours, days and weeks at
its end answer 500. Pages by offset repeat or skip items while granules arrive. Links of a
page echo decoded parameters without encoding them. `derived_bbox` of four corners is too
small where edges curve.

*openEO.* `options: null` of `save_result` is refused; ids or bands with "@" break the names
of sources; `sources` lists a load whose branch the resolver ignores; a reducer of
constants compiles to a plan without inputs, whose tiles all fail. A preview's
extent on a tile boundary takes the ancestor.

*Planning and reading.* A byte estimate saturates and the sum of estimates wraps; the margin
of four pixels is enough while no kernel's radius exceeds four, which is what it was chosen
for; mask directories count as overviews.

*Legacy granules.* The referencer ignores a chunk's `filter_mask`, and reads compact
datasets as fill. GRIB arrays can never be committed to Icechunk, which the command finds
out after it has written the manifest. A failed write
may leave a cut manifest over an older one. `compare` takes arrays of one name for each other.

*Sources and commands.* `sources prove` checks that a source id is allowed, and not that the URL
is the source's; `sources fetch` asks for no consent; a failing request is billed, and its cost
is dropped. A missing credential is hidden by the poll that follows. Routes: capabilities omit
`/sources`, counts and facets; a source with id "register" cannot be asked for by its id.

## 12. Not modelled

The web viewer, the Python client, the end-to-end harness, the docs checker and test
support: they are clients or tools. The SQL of pgstac and the object stores: the models
have their calls, which return or fail. Bytes of HDF5, GRIB2, TIFF and image encoders;
wasmtime; the projections themselves (`proj4rs`, sinusoidal grids) and
the rounding of floats in the warp. CORS, logging and graceful shutdown. The check
of an upload's file name.

## 13. Plan

1. Recursion of `GranuleQuery` written as recursive functions, so that `Passes` applies:
   then `GranulesAccounted`, first that a query's window finds what `MCQueries` says, then
   that pages and buckets hold each granule once.
2. `ConfiguredAsGiven`, knob by knob: precedence needs no recursion, validation of layers
   does.
3. The two moments of a two-branch layer, as a violated run, once a doc or test says what
   such a layer promises.
