------------------------------- MODULE Pyramid -------------------------------
(***************************************************************************)
(* The overview pyramid of one asset: `swath materialize' runs that build  *)
(* it level by level in the object store, and tile requests that read it.  *)
(*                                                                         *)
(* A run probes every chunk of a level before it computes the missing      *)
(* ones, and records a level in the group's `.zattrs' after its last       *)
(* chunk.  Nothing locks: the runs, their deaths and the readers           *)
(* interleave at every call to the store.                                  *)
(*                                                                         *)
(* Pixels are modelled by the computation that made them: a chunk holds    *)
(* the aggregation and the set of inputs it was applied to, down to the    *)
(* version of the asset that was read.  `.zarray' and `.zgroup' are left   *)
(* out: no code under src/ reads them back.                                *)
(***************************************************************************)
EXTENDS Naturals, FiniteSets

CONSTANTS
  Versions,       \* what the asset's URI may hold, in the course of time
  First,          \* what it holds at first
  Grid,           \* what `describe' says of a version: width, height, dtype
  Embedded,       \* the overview factors a version embeds
  Chunk,          \* side of a chunk, in pixels
  Specs,          \* what runs may ask for: `min_dim' and the resampling
  Runs,           \* materialize runs that may overlap
  Readers,        \* tile requests that may overlap
  Absent,         \* no such object; a field not in use
  SingleWriter,   \* TRUE: one run at a time (the documented discipline)
  MaxStops,       \* bound: runs that die or meet a failing store
  MaxSwaps        \* bound: replacements of the asset under its URI

CeilDiv(a, b) == (a + b - 1) \div b

ASSUME PyramidAssumption ==
  /\ First \in Versions
  /\ Grid \in [Versions -> [width : Nat, height : Nat, dtype : STRING]]
  /\ Embedded \in [Versions -> SUBSET (Nat \ {0, 1})]
  /\ Chunk \in Nat \ {0}
  /\ Specs \subseteq [minDim : Nat, resampling : STRING]
  /\ SingleWriter \in BOOLEAN
  /\ MaxStops \in Nat /\ MaxSwaps \in Nat

ASSUME AbsentAssumption ==
  Absent \notin [grid : [width : Nat, height : Nat, dtype : STRING],
                 resampling : STRING, completed : SUBSET Nat]

VARIABLES
  asset,     \* the version at the asset's URI
  chunks,    \* the chunk objects: from <<factor, row, column>> to content
  attrs,     \* the group's `.zattrs': the pyramid document, or Absent
  run,       \* the materialize runs
  reader,    \* the tile requests
  stops,     \* how many runs died
  swaps      \* how often the asset was replaced

vars == <<asset, chunks, attrs, run, reader, stops, swaps>>

------------------------------------------------------------------------------
(* Layout *)

\* `level_dims'; the longer side is what the ladder is cut at.
LevelWidth(grid, f) == CeilDiv(grid.width, f)
LevelHeight(grid, f) == CeilDiv(grid.height, f)
LongSide(grid, f) ==
  IF LevelWidth(grid, f) > LevelHeight(grid, f) THEN LevelWidth(grid, f) ELSE LevelHeight(grid, f)

\* The powers of two a ladder may hold (2^31, the last of `u32', is beyond
\* the integers of the model checker).
Powers == {2^k : k \in 1..30}

\* Powers of two up to the first level that fits `minDim', without the
\* embedded ones.
Ladder(grid, embedded, minDim) ==
  IF grid.width = 0 \/ grid.height = 0 THEN {}
  ELSE {f \in Powers \ embedded : LongSide(grid, f \div 2) > minDim}

Rows(grid, f) == CeilDiv(LevelHeight(grid, f), Chunk)
Cols(grid, f) == CeilDiv(LevelWidth(grid, f), Chunk)

\* Every chunk of row y, and of the whole level f, is among the objects.
RowWhole(objects, grid, f, y) == \A x \in 0..(Cols(grid, f) - 1) : <<f, y, x>> \in objects
LevelWhole(objects, grid, f) == \A y \in 0..(Rows(grid, f) - 1) : RowWhole(objects, grid, f, y)

\* `PyramidMeta::matches': the dimensions and the sample type, no more.
Matches(meta, v) == meta.grid = Grid[v]

Lowest(S) == CHOOSE s \in S : \A t \in S : s <= t
Greatest(S) == CHOOSE s \in S : \A t \in S : t <= s

\* Variant: completed levels are not read from, only what the asset holds.
BaseOfAsset(embedded, completed, f) ==
  Greatest({1} \cup {s \in embedded : s < f /\ f % s = 0})

\* The grid level f decimates from: the coarsest one at hand that divides it.
Base(embedded, completed, f) ==
  Greatest({1} \cup {s \in embedded \cup completed : s < f /\ f % s = 0})

\* The chunk rows of the base level that row y of level f covers.
BaseRows(grid, base, q, y) == (y * q)..((y + 1) * q - 1) \cap 0..(Rows(grid, base) - 1)

------------------------------------------------------------------------------
(* Materialize runs *)

Pcs == {"idle", "load", "probe", "read", "fetch", "put", "record", "done", "conflict", "failed"}

IdleRun == [pc |-> "idle", spec |-> Absent, info |-> Absent, meta |-> Absent, factor |-> 0,
            row |-> 0, col |-> 0, missing |-> {}, via |-> Absent, strip |-> {}]

LadderOf(t) == Ladder(Grid[t.info], Embedded[t.info], t.spec.minDim)
BaseOf(t) == Base(Embedded[t.info], t.meta.completed, t.factor)

\* The inner source reads the asset as it is now; it has the levels it embeds.
InnerHas(f) == f = 1 \/ f \in Embedded[asset]
InnerRead(f) == {[version |-> asset, factor |-> f]}

\* `materialize' begins: the asset is described.
Start(r) ==
  /\ run[r].pc \in {"idle", "done", "conflict", "failed"}
  /\ SingleWriter => \A q \in Runs \ {r} : run[q].pc \in {"idle", "done", "conflict", "failed"}
  /\ \E spec \in Specs :
       run' = [run EXCEPT ![r] = [IdleRun EXCEPT !.pc = "load", !.spec = spec, !.info = asset]]
  /\ UNCHANGED <<asset, chunks, attrs, reader, stops, swaps>>

\* Variant: the lowest level of the ladder, recorded or not.
NextLevelAgain(t, meta) ==
  IF LadderOf(t) \ meta.completed = {}
  THEN [t EXCEPT !.pc = "done", !.meta = meta]
  ELSE [t EXCEPT !.pc = "probe", !.meta = meta, !.factor = Lowest(LadderOf(t)),
                 !.row = 0, !.col = 0, !.missing = {}]

\* The next level to build, the lowest not recorded in the run's own
\* document; none is left when the run is over.
NextLevel(t, meta) ==
  LET left == LadderOf(t) \ meta.completed
  IN IF left = {}
     THEN [t EXCEPT !.pc = "done", !.meta = meta]
     ELSE [t EXCEPT !.pc = "probe", !.meta = meta, !.factor = Lowest(left),
                    !.row = 0, !.col = 0, !.missing = {}]

\* `load_attrs_strict': resume from the stored document, refuse one of
\* another identity or resampling, or begin a fresh one.
Load(r) ==
  /\ run[r].pc = "load"
  /\ LET t == run[r]
         fresh == [grid |-> Grid[t.info], resampling |-> t.spec.resampling, completed |-> {}]
     IN run' = [run EXCEPT ![r] =
          IF attrs = Absent THEN NextLevel(t, fresh)
          ELSE IF Matches(attrs, t.info) /\ attrs.resampling = t.spec.resampling
               THEN NextLevel(t, attrs)
               ELSE [t EXCEPT !.pc = "conflict"]]
  /\ UNCHANGED <<asset, chunks, attrs, reader, stops, swaps>>

\* The next chunk row, or the completion record after the last.
NextRow(t) ==
  IF t.row + 1 < Rows(Grid[t.info], t.factor)
  THEN [t EXCEPT !.pc = "probe", !.row = @ + 1, !.col = 0, !.missing = {}]
  ELSE [t EXCEPT !.pc = "record"]
\* Variant: a row whose first chunk exists is taken to be written.
ProbeFirstOnly(r) ==
  /\ run[r].pc = "probe"
  /\ LET t == run[r]
     IN run' = [run EXCEPT ![r] =
          IF <<t.factor, t.row, 0>> \in DOMAIN chunks THEN NextRow(t)
          ELSE [t EXCEPT !.pc = "read", !.missing = 0..(Cols(Grid[t.info], t.factor) - 1)]]
  /\ UNCHANGED <<asset, chunks, attrs, reader, stops, swaps>>

\* `head' of one chunk; a row with nothing missing is not read.
Probe(r) ==
  /\ run[r].pc = "probe"
  /\ LET t == run[r]
         missing == IF <<t.factor, t.row, t.col>> \in DOMAIN chunks
                    THEN t.missing ELSE t.missing \cup {t.col}
         probed == [t EXCEPT !.missing = missing]
     IN run' = [run EXCEPT ![r] =
          IF t.col + 1 < Cols(Grid[t.info], t.factor) THEN [probed EXCEPT !.col = @ + 1]
          ELSE IF missing = {} THEN NextRow(probed)
          ELSE [probed EXCEPT !.pc = "read"]]
  /\ UNCHANGED <<asset, chunks, attrs, reader, stops, swaps>>

\* `read_window' of the strip, through the overlay: a base level the stored
\* document lists comes from its chunks, any other from the asset.
ReadStrip(r) ==
  /\ run[r].pc = "read"
  /\ LET t == run[r]
         base == BaseOf(t)
     IN run' = [run EXCEPT ![r] =
          IF base # 1 /\ attrs # Absent /\ base \in attrs.completed
          THEN [t EXCEPT !.pc = "fetch", !.via = attrs]
          ELSE IF InnerHas(base) THEN [t EXCEPT !.pc = "put", !.strip = InnerRead(base)]
          ELSE [t EXCEPT !.pc = "failed"]]
  /\ UNCHANGED <<asset, chunks, attrs, reader, stops, swaps>>

\* The chunks of the base level under the strip.
Under(t) ==
  LET base == BaseOf(t)
  IN {<<base, y, x>> : y \in BaseRows(t.via.grid, base, t.factor \div base, t.row),
                       x \in 0..(Cols(t.via.grid, base) - 1)}

\* `read_level': every chunk of the base level under the strip, or an error.
FetchStrip(r) ==
  /\ run[r].pc = "fetch"
  /\ LET t == run[r]
     IN run' = [run EXCEPT ![r] =
          IF Under(t) \subseteq DOMAIN chunks
          THEN [t EXCEPT !.pc = "put", !.strip = {chunks[k] : k \in Under(t)}, !.via = Absent]
          ELSE [t EXCEPT !.pc = "failed", !.via = Absent]]
  /\ UNCHANGED <<asset, chunks, attrs, reader, stops, swaps>>

\* One missing chunk is aggregated from the strip and written.
PutChunk(r) ==
  /\ run[r].pc = "put"
  /\ LET t == run[r]
         x == Lowest(t.missing)
         key == <<t.factor, t.row, x>>
         content == [by |-> t.spec.resampling, from |-> t.strip]
         left == [t EXCEPT !.missing = @ \ {x}]
     IN /\ chunks' = [k \in DOMAIN chunks \cup {key} |-> IF k = key THEN content ELSE chunks[k]]
        /\ run' = [run EXCEPT ![r] =
             IF left.missing # {} THEN left ELSE NextRow([left EXCEPT !.pc = "probe", !.strip = {}])]
  /\ UNCHANGED <<asset, attrs, reader, stops, swaps>>

\* Variant: the document lists only the level just built.
RecordAlone(r) ==
  /\ run[r].pc = "record"
  /\ LET t == run[r]
     IN /\ attrs' = [t.meta EXCEPT !.completed = {t.factor}]
        /\ run' = [run EXCEPT ![r] =
             NextLevel(t, [t.meta EXCEPT !.completed = @ \cup {t.factor}])]
  /\ UNCHANGED <<asset, chunks, reader, stops, swaps>>

\* `write_group_docs' after the last chunk of a level: the run's own
\* document, whatever is stored by now.
Record(r) ==
  /\ run[r].pc = "record"
  /\ LET t == run[r]
         meta == [t.meta EXCEPT !.completed = @ \cup {t.factor}]
     IN /\ attrs' = meta
        /\ run' = [run EXCEPT ![r] = NextLevel(t, meta)]
  /\ UNCHANGED <<asset, chunks, reader, stops, swaps>>

\* The process is killed, or a call to the store fails: what is written stays.
Stop(r) ==
  /\ run[r].pc \in {"load", "probe", "read", "fetch", "put", "record"}
  /\ stops < MaxStops
  /\ stops' = stops + 1
  /\ run' = [run EXCEPT ![r] = IdleRun]
  /\ UNCHANGED <<asset, chunks, attrs, reader, swaps>>

------------------------------------------------------------------------------
(* Tile requests: describe, plan, read *)

IdleReader == [pc |-> "idle", info |-> Absent, levels |-> {}, factor |-> 0, via |-> Absent,
               got |-> {}]

\* The inner source describes the asset.
Describe(d) ==
  /\ reader[d].pc \in {"idle", "got", "failed"}
  /\ reader' = [reader EXCEPT ![d] =
       [IdleReader EXCEPT !.pc = "merge", !.info = asset, !.levels = Embedded[asset]]]
  /\ UNCHANGED <<asset, chunks, attrs, run, stops, swaps>>

\* `describe' advertises the recorded levels of a pyramid that matches.
Advertise(d) ==
  /\ reader[d].pc = "merge"
  /\ reader' = [reader EXCEPT ![d].pc = "plan",
       ![d].levels = IF attrs # Absent /\ Matches(attrs, reader[d].info)
                     THEN @ \cup attrs.completed ELSE @]
  /\ UNCHANGED <<asset, chunks, attrs, run, stops, swaps>>

\* The planner takes a level that was advertised, and `read_window' looks
\* the level up in the document as it is stored now.
ReadLevel(d) ==
  /\ reader[d].pc = "plan"
  /\ \E f \in reader[d].levels \cup {1} :
       LET t == [reader[d] EXCEPT !.factor = f]
       IN reader' = [reader EXCEPT ![d] =
            IF f # 1 /\ attrs # Absent /\ f \in attrs.completed
            THEN [t EXCEPT !.pc = "fetch", !.via = attrs]
            ELSE IF InnerHas(f) THEN [t EXCEPT !.pc = "got", !.got = InnerRead(f)]
            ELSE [t EXCEPT !.pc = "failed"]]
  /\ UNCHANGED <<asset, chunks, attrs, run, stops, swaps>>

\* A chunk of the window is fetched; a missing one is a format error.
FetchChunk(d) ==
  /\ reader[d].pc = "fetch"
  /\ LET t == reader[d]
     IN \E y \in 0..Rows(t.via.grid, t.factor) - 1, x \in 0..Cols(t.via.grid, t.factor) - 1 :
          reader' = [reader EXCEPT ![d] =
            IF <<t.factor, y, x>> \in DOMAIN chunks
            THEN [t EXCEPT !.pc = "got", !.got = {chunks[<<t.factor, y, x>>]}]
            ELSE [t EXCEPT !.pc = "failed"]]
  /\ UNCHANGED <<asset, chunks, attrs, run, stops, swaps>>

------------------------------------------------------------------------------
(* The asset *)

\* An upload under the same key replaces the asset.
Replace ==
  /\ swaps < MaxSwaps
  /\ swaps' = swaps + 1
  /\ asset' \in Versions \ {asset}
  /\ UNCHANGED <<chunks, attrs, run, reader, stops>>

------------------------------------------------------------------------------
Init ==
  /\ asset = First
  /\ chunks = [k \in {} |-> Absent]
  /\ attrs = Absent
  /\ run = [r \in Runs |-> IdleRun]
  /\ reader = [d \in Readers |-> IdleReader]
  /\ stops = 0
  /\ swaps = 0

Work(r) ==
  \/ Load(r)
  \/ Probe(r)
  \/ ReadStrip(r)
  \/ FetchStrip(r)
  \/ PutChunk(r)
  \/ Record(r)

Serve(d) ==
  \/ Describe(d)
  \/ Advertise(d)
  \/ ReadLevel(d)
  \/ FetchChunk(d)

Next ==
  \/ \E r \in Runs : Start(r) \/ Work(r) \/ Stop(r)
  \/ \E d \in Readers : Serve(d)
  \/ Replace

\* A run that is under way is a process that runs: its steps keep coming.
\* Nobody has to start one, and nothing has to fail.
Fairness == \A r \in Runs : WF_vars(Work(r))

Spec == Init /\ [][Next]_vars /\ Fairness

------------------------------------------------------------------------------
(* Properties *)

Documents == [grid : [width : Nat, height : Nat, dtype : STRING], resampling : STRING,
              completed : SUBSET Nat]

\* A record of these fields (the provers know it by its domain).
RunShape(t) ==
  /\ DOMAIN t = {"pc", "spec", "info", "meta", "factor", "row", "col", "missing", "via", "strip"}
  /\ t = [f \in DOMAIN t |-> t[f]]

\* A run has the fields its next step reads; a level is picked for it from
\* its ladder and is not recorded yet, and a strip is read for a reason.
RunType(t) ==
  /\ RunShape(t)
  /\ t.pc \in Pcs
  /\ t.row \in Nat /\ t.col \in Nat /\ t.missing \subseteq Nat
  /\ t.pc # "idle" => t.spec \in Specs /\ t.info \in Versions
  /\ t.pc \in {"probe", "read", "fetch", "put", "record"} =>
       /\ t.meta \in Documents
       /\ t.factor \in LadderOf(t) \ t.meta.completed
  /\ t.pc \in {"read", "fetch", "put"} => t.missing # {}
  /\ t.pc = "fetch" => t.via \in Documents

ReaderShape(t) ==
  /\ DOMAIN t = {"pc", "info", "levels", "factor", "via", "got"}
  /\ t = [f \in DOMAIN t |-> t[f]]

ReaderType(t) ==
  /\ ReaderShape(t)
  /\ t.pc \in {"idle", "merge", "plan", "fetch", "got", "failed"}
  /\ t.pc # "idle" => t.info \in Versions
  /\ t.levels \subseteq Nat
  /\ t.pc = "fetch" => t.via \in Documents

\* Every variable holds what the program could hold there.
TypeInv ==
  /\ asset \in Versions
  /\ DOMAIN chunks \subseteq Nat \X Nat \X Nat
  /\ attrs \in Documents \cup {Absent}
  /\ run = [r \in Runs |-> run[r]] /\ \A r \in Runs : RunType(run[r])
  /\ reader = [d \in Readers |-> reader[d]] /\ \A d \in Readers : ReaderType(reader[d])
  /\ stops \in 0..MaxStops /\ swaps \in 0..MaxSwaps

\* A recorded level is whole, whichever runs wrote it and wherever they were
\* killed (swath-pyramid-objectstore, crate docs: a factor enters `completed'
\* only after every one of its chunks exists).
CompletedIsWhole ==
  attrs # Absent => \A f \in attrs.completed : LevelWhole(DOMAIN chunks, attrs.grid, f)

\* The run's part of it: what its document lists is whole, and of the level
\* it builds, every row passed and every chunk probed and not missing.
Building(t, objects) ==
  LET grid == Grid[t.info]
      there(x) == <<t.factor, t.row, x>> \in objects
  IN t.pc \in {"probe", "read", "fetch", "put", "record"} =>
       /\ t.meta.grid = grid
       /\ \A f \in t.meta.completed : LevelWhole(objects, grid, f)
       /\ t.pc # "record" => \A y \in 0..(t.row - 1) : RowWhole(objects, grid, t.factor, y)
       /\ t.pc = "probe" => \A x \in 0..(t.col - 1) : x \in t.missing \/ there(x)
       /\ t.pc \in {"read", "fetch", "put"} =>
            \A x \in 0..(Cols(grid, t.factor) - 1) : x \in t.missing \/ there(x)
       /\ t.pc = "record" => LevelWhole(objects, grid, t.factor)

WritersInv == CompletedIsWhole /\ \A r \in Runs : Building(run[r], DOMAIN chunks)

\* The level that one run on its own decimates level f from.
FreshBase(v, spec, f) ==
  LET levels == {1} \cup Embedded[v] \cup Ladder(Grid[v], Embedded[v], spec.minDim)
  IN CHOOSE b \in levels : /\ b < f /\ f % b = 0
                           /\ \A c \in levels : c < f /\ f % c = 0 => c <= b

\* What it puts in level f, given what it has put in lower ones.
FreshChunk(v, spec, f, lower) ==
  LET base == FreshBase(v, spec, f)
  IN [by |-> spec.resampling,
      from |-> IF base = 1 \/ base \in Embedded[v]
               THEN {[version |-> v, factor |-> base]} ELSE {lower[base]}]

\* What one run on its own, never interrupted, would put in each level.
FreshContent(v, spec) ==
  LET fresh[f \in Powers] == FreshChunk(v, spec, f, fresh) IN fresh

\* Runs of one resampling write what one of them alone would have written,
\* however they overlap and die ("two identical runs write identical bytes
\* in any interleaving"; a resumed run and a fresh one "take identical
\* inputs"), as long as the asset is not replaced.
AsFreshRun(specs) ==
  swaps = 0 =>
    \A spec \in specs : \A k \in DOMAIN chunks :
      k[1] \in Ladder(Grid[First], Embedded[First], spec.minDim) =>
        chunks[k] = FreshContent(First, spec)[k[1]]

\* A tile request that planned a level it was told of gets it: no step of a
\* writer, and no death of one, takes an advertised level away.
AdvertisedIsReadable == \A d \in Readers : reader[d].pc # "failed"

\* A run that reports success leaves its whole ladder recorded.
DoneIsRecorded ==
  \A r \in Runs : run[r].pc = "done" =>
    LadderOf(run[r]) \subseteq IF attrs = Absent THEN {} ELSE attrs.completed

\* A run comes to an end: it finishes, is refused, fails or dies.
RunsEnd ==
  \A r \in Runs : (run[r].pc = "load") ~>
                  (run[r].pc \in {"idle", "done", "conflict", "failed"})

------------------------------------------------------------------------------
(* What the documentation says and the code does not keep *)

\* A recorded level was aggregated as its document says: a run that asks for
\* another resampling is refused (materialize.rs 91-95: "resuming into a
\* mismatched pyramid would mix generations").
OneGeneration ==
  attrs # Absent => \A k \in DOMAIN chunks :
    k[1] \in attrs.completed => chunks[k].by = attrs.resampling
==============================================================================
