------------------------------ MODULE MCServing ------------------------------
(***************************************************************************)
(* The pure parts of the system, asked one bounded question each: what     *)
(* they answer is compared with a reading of their own.  And TileServing:  *)
(* tile requests of a configured layer whose definition may be edited, and *)
(* of a service over two branches.                                         *)
(***************************************************************************)
EXTENDS TileServing, MCPlanner, TLC

CONSTANTS
  BoundarySamplesPerEdge,
  Junk, DotDot, DefaultLimit, MaxLimit, MaxBuckets, MaxFacetValues, PageLimit, TicksPerHour,
  Timestamps, Shown, AssetKinds, Scrambled, SideMax, SizeMax, PageSize, PageCap, HeapBase

Compiler == INSTANCE MCCompiler
Tiles == INSTANCE MCTiles
Q == INSTANCE MCQueries WITH Layers <- Shown
Legacy == INSTANCE MCCubes

ASSUME Tiles!SamplesAssumption

Question ==
  /\ answer = None
  /\ \/ \E s \in {Compiler!Chains, Compiler!Joins, Compiler!Wirings} : \E g \in s :
          question = [kind |-> "graph", of |-> g]
     \/ \E s \in Compiler!Spoils : question = [kind |-> "spoilt", of |-> s]
     \/ \E r \in Tiles!Renders : question = [kind |-> "tile", of |-> r]
     \/ \E p \in Plannings : question = [kind |-> "plan", of |-> p]
     \/ \E q \in Q!Listings : question = [kind |-> "listing", of |-> q]
     \/ \E q \in Q!WrongListings : question = [kind |-> "listing", of |-> q]
     \/ question \in [kind : {"scope"}, of : Q!Scopes]
     \/ question \in [kind : {"time"}, of : Q!TimeCountings]
     \/ question \in [kind : {"cell"}, of : Q!CellCountings]
     \/ question \in [kind : {"facet"}, of : Q!Browsings]
     \/ \E d \in Q!Documents : question = [kind |-> "document", of |-> d]
     \/ question \in [kind : {"registration"}, of : Q!Registrations]
     \/ question \in [kind : {"window"}, of : Legacy!CubeReads]
     \/ question \in [kind : {"grid"}, of : DOMAIN Legacy!Structures]
     \/ question \in [kind : {"pair"}, of : Legacy!Manifests \X Legacy!Manifests]
     \/ question \in [kind : {"ingest"}, of : Legacy!Ingests]
     \/ \E i \in DOMAIN Tiles!Wires : \E q \in Tiles!Wires[i] : question = [kind |-> "wire", of |-> q]

AnswerGraph ==
  /\ question.kind = "graph"
  /\ answer' = Compiler!Compile(question.of, Compiler!Context)

AnswerSpoilt ==
  /\ question.kind = "spoilt"
  /\ LET q == question.of
         graph == Compiler!Spoilt(q.graph, q.id, q.arg, q.how)
     IN answer' = Compiler!Compile(graph, Compiler!Context)

AnswerTile ==
  /\ question.kind = "tile"
  /\ answer' = Tiles!RenderPlanned(question.of, Tiles!Objects, [probe |-> "miss"])

AnswerListing ==
  /\ question.kind = "listing"
  /\ answer' = Q!PagesFrom(question.of.catalog, question.of.raw)

AnswerCounts ==
  /\ question.kind \in {"time", "cell"}
  /\ answer' = Q!Counts(Q!CatalogOf(question.of.granules), Q!All @@ question.of.bucketing)

AnswerScope ==
  /\ question.kind = "scope"
  /\ answer' = Q!AskScope(question.of)

AnswerFacets ==
  /\ question.kind = "facet"
  /\ answer' = Q!Facets(Q!CatalogOf(question.of), Q!All)

AnswerDocument ==
  /\ question.kind = "document"
  /\ answer' = Q!ReadDocument(question.of)

AnswerRegistration ==
  /\ question.kind = "registration"
  /\ answer' = Q!Register(question.of)

AnswerWindow ==
  /\ question.kind = "window"
  /\ answer' = Legacy!ReadBoth(question.of)

AnswerGrid ==
  /\ question.kind = "grid"
  /\ answer' = Legacy!ParseGrids(Legacy!Structures[question.of])

AnswerPair ==
  /\ question.kind = "pair"
  /\ answer' = Legacy!Equivalent(question.of[1], question.of[2])

AnswerIngest ==
  /\ question.kind = "ingest"
  /\ answer' = Legacy!IngestTwice(question.of)

AnswerWire ==
  /\ question.kind = "wire"
  /\ answer' = Tiles!WireAnswer(question.of)

Answered ==
  /\ answer = None
  /\ UNCHANGED question
  /\ \/ AnswerGraph \/ AnswerSpoilt \/ AnswerTile \/ AnswerPlan
     \/ AnswerListing \/ AnswerCounts \/ AnswerScope \/ AnswerFacets \/ AnswerDocument \/ AnswerRegistration
     \/ AnswerWindow \/ AnswerGrid \/ AnswerPair \/ AnswerIngest \/ AnswerWire

------------------------------------------------------------------------------
Compiled == Replied("graph") /\ answer.v = "product"

\* The plan a graph compiles to gives, at every pixel, what the processes of
\* the graph say: bands resolved, arithmetic, scale, module and palette; and
\* each load of it resolves granules in the instants that its branch admits:
\* a half-open interval of the graph and the closed window the catalog is
\* asked for agree at every instant, filter after filter.
ProductsAsWritten ==
  Compiled =>
    /\ \A scene \in Compiler!Scenes : Compiler!PixelAsWritten(question.of, Compiler!Context, answer, scene)
    /\ Compiler!FramesWithin(question.of, answer, 0 .. 6)

\* A graph whose result is computed through a cycle or a reference to nothing
\* is never a product (one that has the fault elsewhere is left to
\* MCDocuments), and an error that blames the wiring names a node on a cycle,
\* or with a dangling reference; one that is wrong in one argument is refused
\* at that node; the inputs of a plan are read through the loads of the
\* product, each once.
WiringChecked ==
  /\ Replied("graph") => Compiler!WiringFound(question.of, answer)
  /\ Compiled => Compiler!SourcesApart(answer)
  /\ Replied("spoilt") => Compiler!FaultNamed(question.of.graph, question.of, answer)

\* The pixels of a tile do not depend on which windows were read: they are
\* those of whole rasters, at the level the trace names; and no sample is
\* made up out of nodata or from beyond the raster.
TilesAsFromWhole ==
  Replied("tile") =>
    /\ Tiles!TileAsFromWhole(question.of, Tiles!Objects, answer)
    /\ answer.error = "none" => Tiles!NothingFabricated(question.of, Tiles!Objects, answer.value.factor)

\* Following the next links of a listing shows every granule of its filter,
\* once, the newest first (a window that is widened by a tick is left to
\* MCDocuments); parameters that say nothing clear are refused.
ListedAll ==
  Replied("listing") =>
    IF \E i \in DOMAIN answer : answer[i].error # "none" THEN question.of \in Q!WrongListings
    ELSE LET filter == Q!ParseParams(question.of.raw).value.filter
         IN \/ Q!Widened(filter.datetime, question.of.catalog.items)
            \/ Q!PagesListAll(question.of.catalog.items, filter, [i \in DOMAIN answer |-> answer[i].value])

\* Time buckets part the granules by whole units of the calendar and cells
\* cover their footprints; facets account for each value; and the routes agree
\* on a filter.  Only the end of the calendar breaks a count.
CountedAll ==
  LET times == Replied("time") /\ answer.error # "TooManyBuckets"
      cells == Replied("cell") /\ answer.error # "TooManyBuckets"
      late == \E i \in DOMAIN question.of.granules : question.of.granules[i].time >= Q!Midnight(9999, 12, 25)
  IN /\ times => \/ answer.error = "Internal" /\ late
                 \/ answer.error = "none" /\ Q!TimeBucketsPart(question.of.granules, question.of.bucketing.step, answer.value)
     /\ cells => LET size == question.of.bucketing.size
                 IN answer.error = "none" /\ Q!CellBucketsCover(question.of.granules, size, Q!CellsWithin(size), answer.value)
     /\ Replied("facet") => answer.error = "none" /\ Q!FacetsAccount(question.of, answer.value)
     /\ Replied("scope") => Q!ScopeHolds(question.of.raw, answer)

\* What browsing shows of a filter's granules, page by page, in buckets or by
\* facet, is each of them and nothing else.
GranulesAccounted == ListedAll /\ CountedAll

\* A dataset and a granule read back from their documents as they were
\* written, and a document spoilt in one place is refused there; a granule is
\* registered as the request gives it, by its fields or by its document.
DocumentsReadBack ==
  /\ Replied("registration") => Q!RegistrationHolds(question.of, answer)
  /\ Replied("document") =>
    IF question.of.spoil # 0
    THEN Q!RefusedAt(Q!SpoilOf(question.of).path, Q!Answer(question.of.written), answer)
    ELSE IF question.of.of = "dataset" THEN answer = Q!Answer(question.of.written)
    ELSE Q!ReadsBack(question.of.written, answer)

\* A window of a legacy granule holds the samples that the file's own library
\* would read, whether by the manifest or by the repository it was committed
\* to after another, but for chunks that only the other has (GoneKept); grids
\* lie between their corners; two manifests are
\* equivalent exactly if they hold the same arrays with the same ranges; and
\* `swath ingest reference' leaves the manifest of its granule, or a trace of
\* nothing but what it says.
CubesReadAsFile ==
  LET q == question.of
      file == Legacy!File(q.file.ds, q.file.applied, q.file.count)
      rasters == {"u1", "i2", "i8", "f4"}
  IN /\ Replied("window") /\ answer.error # "none" => q.file.ds.type \notin rasters
     /\ Replied("window") /\ answer.error = "none" =>
          /\ Legacy!ReadsAsFile(q.file.ds, file, q.window, q.earlier, answer.value.direct, answer.value.committed)
          /\ Legacy!DimsApart(answer.value.repo[Len(answer.value.repo)])
          /\ Legacy!CommitAccounts(answer.value.manifest, answer.value.outcome)
     /\ Replied("pair") => (answer <=> Legacy!SameRanges(question.of[1], question.of[2]))
     /\ Replied("ingest") => Legacy!IngestSound(question.of, answer)
     /\ Replied("grid") /\ answer.error = "none" =>
          \A i \in DOMAIN answer.value : Legacy!PlacedAtCorners(answer.value[i], <<10, 40>>, <<22, 20>>)

\* A buffer between host and module is read exactly if it is well-formed, a
\* tile is what its module answers, and a module's memory is not given twice.
WireReadsBack == Replied("wire") => Tiles!WireSound(question.of, answer)

\* What one side wrote down the other reads as it was meant, or refuses where
\* it is spoilt: documents of the catalog, legacy files and the manifests over
\* them, the buffers of a module.
WrittenReadsBack == DocumentsReadBack /\ CubesReadAsFile /\ WireReadsBack

------------------------------------------------------------------------------
(* Planning *)

MCPlannings == Tiles!PlanQuestions

------------------------------------------------------------------------------
(* Serving *)

CONSTANTS
  r1, r2, plainLayer, pair, ndvi, diff, nearest, bilinear, allBands, partial, here

AnyTime == [start |-> Open, end |-> Open]
Early == [start |-> Open, end |-> 1]
At3 == [start |-> 3, end |-> 3]
MCWindows == {AnyTime, At3}

Def(spec, kernel, branches, cached) ==
  [spec |-> spec, kernel |-> kernel, branches |-> branches, cached |-> cached]

\* What the configuration defines has no window, and has another kernel where
\* it is not cached; a service has an id for each graph.
MCDefinitions ==
  [l \in Layers |->
     CASE l = plainLayer ->
            {Def(ndvi, bilinear, <<AnyTime>>, TRUE), Def(ndvi, nearest, <<AnyTime>>, FALSE)}
       [] l = pair -> {Def(diff, bilinear, <<AnyTime, Early>>, TRUE)}]

\* One configured layer, which may get another kernel, the part of its
\* definition that is not in the key.
MCEdited ==
  [l \in Layers |-> {Def(ndvi, kernel, <<AnyTime>>, TRUE) : kernel \in {bilinear, nearest}}]

\* Granules 1 and 2, whose ids contain no "+"; 2 may come without a band.
MCPieces == [g \in Granules |-> <<g>>]
MCRevisions == [g \in Granules |-> IF g = 2 THEN {allBands, partial} ELSE {allBands}]

\* The instance in which every tile shows its frame keeps to what the
\* theorems ask of a deployment.
ASSUME Definitions = MCDefinitions => KeysTell /\ Apart

VARIABLE serving  \* tiles are asked for

PartInit ==
  /\ Init
  /\ serving \in BOOLEAN
  /\ IF serving THEN question = None /\ answer = None
     ELSE Question /\ layers[plainLayer].cached

PartNext ==
  \/ ~serving /\ Answered /\ UNCHANGED <<catalog, layers, cache, req, happened, serving>>
  \/ serving /\ Next /\ UNCHANGED <<question, answer, serving>>

PartSpec == PartInit /\ [][PartNext]_<<vars, question, answer, serving>>

\* Tile requests are interchangeable.
Symmetric == Permutations(Requests)
==============================================================================
