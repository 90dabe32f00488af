----------------------------- MODULE MCDocuments -----------------------------
(***************************************************************************)
(* What the code answers where a document of the repository says           *)
(* otherwise: one question for each place, named for its line.  The other  *)
(* modules leave these cases out of what they check, each by a named       *)
(* exemption, and here they are put to the same definitions.               *)
(***************************************************************************)
EXTENDS MCApi

CONSTANTS
  Junk, DotDot, DefaultLimit, MaxLimit, MaxBuckets, MaxFacetValues, PageLimit, TicksPerHour,
  Timestamps, LayerNames, AssetKinds, Scrambled

Catalog == INSTANCE MCQueries WITH Layers <- LayerNames
Legacy == INSTANCE MCCubes

VARIABLE answers

Place(answered, documented) == [answered |-> answered, documented |-> documented]

------------------------------------------------------------------------------
(* Routes and services *)

\* A row that no u32 holds.
RowBeyondWord ==
  Place(TileReply([ matrix |-> 2, row |-> WordMax + 1, col |-> 0, accept |-> Browser, datetime |-> "absent",
                    resolve |-> Answer(<<>>), render |-> "done" ]).error,
        "NotFound")

\* The first segments of routes that the prefixes do not have.
PrefixesMissing == Place(Unlisted, {})

\* The extent of a graph whose first load names none, and whose second does.
ExtentOfFirstLoad ==
  Place(PreviewExtent(Plain(Joined(Load(D, Omitted), Load(D, Boxed(There))))), Answer(None))

\* How many ids one graph has, with and without a remark beside it.
IdsOfOneGraph == Place(Cardinality({ServiceId(First), ServiceId(Marked)}), 1)

\* A frame that lost the last byte of its tile.
FrameCutShort ==
  LET frame == Store!Encode([type |-> <<1>>, bytes |-> <<2, 1>>]).value
  IN Place(Store!Decode(SubSeq(frame, 1, Len(frame) - 1)).error, "Corrupt")

------------------------------------------------------------------------------
(* Graphs *)

\* The index of one load, and a filter that its result does not need.
IndexBeside(target) ==
  Written!Graph(
    Written!L1 :> Written!Load(<<Written!nir, Written!red>>, Written!Null)
    @@ Written!A :> Written!N("filter_temporal",
                              [data |-> Written!Ref(target), extent |-> Written!Items(<<Written!Time(1), Written!Null>>)])
    @@ Written!B :> Written!N("ndvi", [data |-> Written!Ref(Written!L1)])
    @@ Written!S :> (CHOOSE save \in Written!Saves(Written!B) : "options" \notin DOMAIN save.args))

Compiling(graph) == Compiler!Compile(graph, Written!Context).v

\* The filter is over itself, or over no node of the graph.
CycleBeside == Place(Compiling(IndexBeside(Written!A)), "error")
DanglingBeside == Place(Compiling(IndexBeside(<<"z">>)), "error")

------------------------------------------------------------------------------
(* Granules *)

\* Days since 1970-01-01, a Thursday: the days from Monday to the one
\* on which the week of that day starts.
WeekStart ==
  LET counts == Catalog!Counts(Catalog!CatalogOf(Catalog!At1(<<0>>)), Catalog!All @@ [by |-> "time", step |-> "week"])
      week == CHOOSE b \in counts.value.buckets : TRUE
      thursday == 3
  IN Place((thursday + week.start \div Catalog!Day) % 7, 0)

\* The instants of the granules in a window of one of them.
WindowOfInstant ==
  LET page == Catalog!GranulePage(Catalog!CatalogOf(Catalog!At1(<<5, 6>>)),
                                  [Catalog!All EXCEPT !.datetime = <<Catalog!At0(5)>>])
      shown == {page.value.granules[i] : i \in DOMAIN page.value.granules}
  IN Place({Catalog!ToTicks(g.datetime) : g \in shown}, {5})

\* The outcome for a granule in the working directory, named without it.
BareName ==
  Place(Legacy!Ingest([output |-> None, icechunk |-> TRUE, write |-> "done"],
                      Legacy!Granule("h5", Legacy!CubeFile, TRUE, FALSE), [manifests |-> <<>>, repo |-> <<>>], TRUE).outcome,
        "none")

\* The sample of a chunk that is not stored, from the repository to which the
\* granule was committed when it was, and from the manifest.
CommittedAgain ==
  LET window == [col_off |-> 3, row_off |-> 0, width |-> 1, height |-> 1]
      ds == Legacy!Chunked(<<1, 4, 5>>, Legacy!Packed, "i2", -1)
      read == Legacy!ReadBoth([file |-> [ds |-> ds, applied |-> <<"shuffle", "zlib">>, count |-> 6],
                               window |-> window, earlier |-> "fuller"]).value
  IN Place(read.committed.value.pixels, read.direct.value.pixels)

------------------------------------------------------------------------------
Init == answers = <<>>

Ask ==
  /\ answers = <<>>
  /\ answers' =
       [ RowBeyondWord |-> RowBeyondWord, PrefixesMissing |-> PrefixesMissing, ExtentOfFirstLoad |-> ExtentOfFirstLoad,
         IdsOfOneGraph |-> IdsOfOneGraph, FrameCutShort |-> FrameCutShort, CycleBeside |-> CycleBeside,
         DanglingBeside |-> DanglingBeside, WeekStart |-> WeekStart, WindowOfInstant |-> WindowOfInstant,
         BareName |-> BareName, CommittedAgain |-> CommittedAgain ]

AskSpec == Init /\ [][Ask]_answers

\* The code answers as its documents say: a row outside of a matrix is not
\* found (routes.rs:717-720); the prefixes are those of the API's routes
\* (ui.rs:34-39); a preview frames what the first load names
\* (handlers.rs:476-478); one graph has one service id (mod.rs:70-72); a frame
\* cut short is corrupt (tile_cache.rs:39-41); a graph with a cycle or with a
\* dangling reference is refused (process.rs:96-99); weeks start on Monday
\* (granules.rs:521); a window of one instant holds that one
\* (pgstac lib.rs:231-233); a granule's chunks resolve against the directory
\* it is in (ingest.rs:37-39); and a commit serves what the manifest does
\* (source.rs:4-7).
AsDocumented == \A place \in DOMAIN answers : answers[place].answered = answers[place].documented
==============================================================================
