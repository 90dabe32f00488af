---------------------------- MODULE MCPyramidHost ----------------------------
(***************************************************************************)
(* Instances of Pyramid for TLC: an asset of a few pixels, chunks of one   *)
(* pixel, and up to three levels.  And of UdfHost: modules that answer,    *)
(* loop, trap in a probe, speak another version, or answer more planes     *)
(* than they said.  The two do not touch each other: one is at work in     *)
(* each behaviour.                                                         *)
(***************************************************************************)
EXTENDS Pyramid, TLC, SequencesExt

CONSTANTS v1, v2, r1

VARIABLE alone  \* the deployment runs one writer at a time and tiles are served

Strip == [width |-> 8, height |-> 1, dtype |-> "<i2"]
Smaller == [width |-> 4, height |-> 2, dtype |-> "<i2"]
Odd == [width |-> 5, height |-> 3, dtype |-> "<i2"]

MCStrip == [v \in Versions |-> Strip]
MCShrinks == [v \in Versions |-> IF v = v1 THEN Odd ELSE Smaller]

MCNothingEmbedded == [v \in Versions |-> {}]
MCFirstEmbedsTwo == [v \in Versions |-> IF v = v1 THEN {2} ELSE {}]

MCAverage == {[minDim |-> 1, resampling |-> "average"]}
MCBoth == [minDim : {1}, resampling : {"average", "nearest"}]
MCDepths == [minDim : {1, 2}, resampling : {"average"}]

\* Two depths of one resampling, and another resampling where runs do not
\* overlap.
MCSpecs == MCDepths \cup {[minDim |-> 1, resampling |-> "nearest"]}

\* Either the documented discipline, one run at a time and the asset left in
\* place, with tile requests; or runs that overlap, one of them of the full
\* depth, and an asset replaced.
MCInit == Init /\ alone \in BOOLEAN

Active(r) == run[r].pc \notin {"idle", "done", "conflict", "failed"}

MCNext ==
  /\ Next
  /\ IF alone
     THEN swaps' = 0 /\ \A r, q \in Runs : r # q => ~(Active(r)' /\ Active(q)')
     ELSE /\ reader' = reader
          /\ \A r \in Runs :
               Active(r)' => run'[r].spec \in IF r = r1 THEN MCAverage ELSE MCDepths
  /\ UNCHANGED alone

MCSpec == MCInit /\ [][MCNext]_<<vars, alone>> /\ Fairness

\* Runs of one resampling that overlap and die write what one alone would.
OverlappingAsFresh == alone \/ AsFreshRun(MCDepths)

\* While one run at a time is under way, a tile request that planned a level
\* it was told of gets it, and a run that reports success leaves its whole
\* ladder recorded.
LadderWhenAlone == alone => AdvertisedIsReadable /\ DoneIsRecorded

\* Runs with equal choices are interchangeable, and so are tile requests.
Symmetry == Permutations(Runs) \cup Permutations(Readers)

------------------------------------------------------------------------------
(* User modules *)

CONSTANTS
  mean, loop, trap, old, wide, c1, c2, Modules, Arities, Endless, CapPages,
  Guest, Callers, Budgets, RegistrationFuel, Capacity, PoolSlots, DeadlineTicks

VARIABLES modules, call, pinned, since

Host == INSTANCE UdfHost

ASSUME HostAssumption == Host!HostAssumption

Quick == [start |-> 0, abi |-> 0, planes |-> 0, alloc |-> 1, run |-> 1]
OnePlane == [n \in Arities |-> 1]

\* What the guest kit exports (swath-udf-guest).
KitExports == {"swath_udf_abi", "swath_udf_output_planes", "swath_udf_alloc", "swath_udf_run"}

\* A module of the guest kit.
Sound ==
  [pages |-> 1, plain |-> TRUE, wasm |-> TRUE, imports |-> FALSE, exports |-> KitExports,
   memory |-> TRUE, abi |-> 1, planes |-> OnePlane, alloc |-> "ok",
   run |-> [v |-> "planes", planes |-> OnePlane], steps |-> Quick, traps |-> {}]

MCGuest ==
  [m \in Modules |->
     CASE m = mean -> Sound
       [] m = loop -> [Sound EXCEPT !.steps = [Quick EXCEPT !.run = Endless]]
       [] m = trap -> [Sound EXCEPT !.traps = {"abi"}, !.steps = [Quick EXCEPT !.abi = 2]]
       [] m = old -> [Sound EXCEPT !.abi = 0]
       [] m = wide -> [Sound EXCEPT !.run = [v |-> "planes", planes |-> [n \in Arities |-> 2]],
                                !.steps = [Quick EXCEPT !.start = 1, !.planes = 1]]]

\* What registration refuses, in the order in which it looks.
Unsound ==
  << <<[Sound EXCEPT !.pages = CapPages + 1, !.wasm = FALSE, !.imports = TRUE], "MemoryLimit">>,
     <<[Sound EXCEPT !.wasm = FALSE, !.imports = TRUE], "InvalidModule">>,
     <<[Sound EXCEPT !.imports = TRUE, !.memory = FALSE], "ForbiddenImport">>,
     <<[Sound EXCEPT !.exports = @ \ {"swath_udf_run"}], "MissingExport">>,
     <<[Sound EXCEPT !.memory = FALSE], "MissingExport">>,
     <<[Sound EXCEPT !.plain = FALSE, !.pages = CapPages + 1], "MemoryLimit">>,
     <<Sound, "none">> >>

ASSUME \A i \in DOMAIN Unsound : Host!Refusal(Unsound[i][1]) = Unsound[i][2]

------------------------------------------------------------------------------
(* Either part *)

VARIABLE hosting  \* modules are registered and run

PartInit == MCInit /\ Host!Init /\ hosting \in BOOLEAN /\ (hosting => alone)

\* A thread that renders a tile.
Renders(c) == call[c].pc # "idle" /\ call[c].planes # 0

\* Of two threads that publish, one renders tiles too.
PartNext ==
  \/ ~hosting /\ MCNext /\ UNCHANGED <<modules, call, pinned, since, hosting>>
  \/ hosting /\ Host!Next /\ ~Renders(c2)' /\ UNCHANGED <<vars, alone, hosting>>

PartSpec ==
  PartInit /\ [][PartNext]_<<vars, alone, modules, call, pinned, since, hosting>> /\ Fairness /\ Host!Fairness

\* The executor's list holds the modules that the most others were not used
\* after, and none that registration would refuse; and what a tile is told is
\* what its module answers within the tile's budget.
ModulesServeAlike == Host!RecentlyUsed /\ Host!TilesAnswerAlike

\* A call of a module ends, whatever the module does.
CallsEnd == Host!CallsEnd

\* A module that registration answered for is run when a tile of it is drawn.
RegisteredRuns == Host!RegisteredRuns
==============================================================================
