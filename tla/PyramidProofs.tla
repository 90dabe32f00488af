---------------------------- MODULE PyramidProofs ----------------------------
(* Proofs about Pyramid, for any number of runs and readers, any asset, any   *)
(* chunk size and any bound on deaths and replacements: a recorded level is   *)
(* whole. And what runs leave in the store, for any raster size, chunk size,  *)
(* embedded levels and run specifications: the whole ladder of a run that is  *)
(* left alone, and the content of an uninterrupted run wherever runs that     *)
(* are alike overlap. On the way: that the recursive definition of that       *)
(* content has the value that its equation says, at every level.              *)
EXTENDS MCPyramidHost, FiniteSetTheorems, TLAPS

\* A set of natural numbers that is not empty has a lowest member: the next
\* level, and the next missing chunk, are well defined.
LEMMA LowestIsMember ==
  ASSUME NEW S, S \subseteq Nat, S # {}
  PROVE  Lowest(S) \in S /\ \A s \in S : Lowest(S) <= s
<1> DEFINE T == {0..x : x \in S}
<1>1. ASSUME NEW x \in S PROVE 0..x \in FiniteSubsetsOf(Nat)
  <2>1. 0..x \in SUBSET Nat
    OBVIOUS
  <2>2. IsFiniteSet(0..x)
    BY FS_Interval
  <2> QED BY <2>1, <2>2 DEF FiniteSubsetsOf
<1>2. T # {} /\ T \subseteq FiniteSubsetsOf(Nat)
  BY <1>1
<1>3. PICK I \in T : \A J \in T : <<J, I>> \notin StrictSubsetOrdering(Nat)
  BY <1>2, FS_StrictSubsetOrderingWellFounded, WFMin, Zenon
<1>4. PICK x \in S : I = 0..x
  OBVIOUS
<1>5. ASSUME NEW y \in S PROVE x <= y
  <2>1. y \in Nat /\ x \in Nat /\ 0..y \in T
    OBVIOUS
  <2>2. ~(0..y \subseteq 0..x /\ 0..y # 0..x)
    <3>1. <<0..y, 0..x>> \notin StrictSubsetOrdering(Nat)
      BY <1>3, <1>4, <2>1
    <3>2. 0..y \in SUBSET Nat /\ 0..x \in SUBSET Nat
      BY <2>1
    <3> QED BY <3>1, <3>2, Zenon DEF StrictSubsetOrdering
  <2>3. ASSUME y < x PROVE FALSE
    <3>1. 0..y \subseteq 0..x
      BY <2>1, <2>3
    <3>2. x \in 0..x /\ x \notin 0..y
      BY <2>1, <2>3
    <3> QED BY <2>2, <3>1, <3>2
  <2> QED BY <2>1, <2>3
<1> QED BY <1>5 DEF Lowest

LEMMA PowersPositive == Powers \subseteq Nat \ {0}
  BY DEF Powers

\* The levels of a ladder are natural numbers, and not 0.
LEMMA LadderPositive ==
  ASSUME NEW grid, NEW embedded, NEW minDim
  PROVE  Ladder(grid, embedded, minDim) \subseteq Nat \ {0}
  BY PowersPositive DEF Ladder

LEMMA CeilDivNat ==
  ASSUME NEW a \in Nat, NEW b \in Nat \ {0}
  PROVE  CeilDiv(a, b) \in Nat
  BY DEF CeilDiv

\* How many chunk rows and columns a level has.
LEMMA ShapeNat ==
  ASSUME NEW grid \in [width : Nat, height : Nat, dtype : STRING], NEW f \in Nat \ {0}
  PROVE  Rows(grid, f) \in Nat /\ Cols(grid, f) \in Nat
<1>1. grid.width \in Nat /\ grid.height \in Nat
  OBVIOUS
<1>2. LevelWidth(grid, f) \in Nat /\ LevelHeight(grid, f) \in Nat
  BY <1>1, CeilDivNat DEF LevelWidth, LevelHeight
<1> QED BY <1>2, CeilDivNat, PyramidAssumption DEF Rows, Cols

------------------------------------------------------------------------------
(* Steps of a run, as functions of its state *)

\* What a run may be changed to, and that its other runs stay.
LEMMA RunUpdate ==
  ASSUME TypeInv, NEW r \in Runs, NEW T, RunType(T), run' = [run EXCEPT ![r] = T]
  PROVE  /\ run' = [q \in Runs |-> run'[q]]
         /\ \A q \in Runs : RunType(run'[q])
         /\ run'[r] = T
         /\ \A q \in Runs \ {r} : run'[q] = run[q]
<1>1. run = [q \in Runs |-> run[q]] /\ \A q \in Runs : RunType(run[q])
  BY DEF TypeInv
<1>2. run' = [q \in Runs |-> IF q = r THEN T ELSE run[q]]
  BY <1>1
<1>3. /\ run'[r] = T
      /\ \A q \in Runs \ {r} : run'[q] = run[q]
      /\ run' = [q \in Runs |-> run'[q]]
  BY <1>2
<1>4. \A q \in Runs : RunType(run'[q])
  BY <1>1, <1>3, Zenon
<1> QED BY <1>3, <1>4

LEMMA NextLevelType ==
  ASSUME NEW t, RunType(t), t.spec \in Specs, t.info \in Versions, NEW meta \in Documents
  PROVE  RunType(NextLevel(t, meta))
<1> DEFINE left == LadderOf(t) \ meta.completed
<1>1. left # {} => Lowest(left) \in left
  BY LadderPositive, LowestIsMember DEF LadderOf
<1>2. CASE left = {}
  <2> DEFINE u == [t EXCEPT !.pc = "done", !.meta = meta]
  <2>1. NextLevel(t, meta) = u
    BY <1>2 DEF NextLevel
  <2>2. /\ u.pc = "done" /\ u.spec = t.spec /\ u.info = t.info
        /\ u.row = t.row /\ u.col = t.col /\ u.missing = t.missing
        /\ RunShape(u)
    BY DEF RunType, RunShape
  <2> HIDE DEF u
  <2> QED BY <2>1, <2>2 DEF RunType, Pcs
<1>3. CASE left # {}
  <2>1. PICK m : m = Lowest(left)
    OBVIOUS
  <2> DEFINE u == [t EXCEPT !.pc = "probe", !.meta = meta, !.factor = m,
                            !.row = 0, !.col = 0, !.missing = {}]
  <2>2. NextLevel(t, meta) = u
    BY <1>3, <2>1 DEF NextLevel
  <2>3. /\ u.pc = "probe" /\ u.spec = t.spec /\ u.info = t.info /\ u.meta = meta
        /\ u.factor = m /\ u.row = 0 /\ u.col = 0 /\ u.missing = {}
        /\ RunShape(u)
    BY DEF RunType, RunShape
  <2>4. LadderOf(u) = LadderOf(t)
    BY <2>3 DEF LadderOf
  <2>5. u.factor \in LadderOf(u) \ u.meta.completed
    BY <1>1, <1>3, <2>1, <2>3, <2>4
  <2> HIDE DEF u
  <2>6. RunType(u)
    BY <2>3, <2>5 DEF RunType, Pcs
  <2> QED BY <2>2, <2>6
<1> QED BY <1>2, <1>3

LEMMA NextRowType ==
  ASSUME NEW t, RunType(t), t.pc \in {"probe", "put"}
  PROVE  RunType(NextRow(t))
<1> DEFINE p == [t EXCEPT !.pc = "probe", !.row = t.row + 1, !.col = 0, !.missing = {}]
           q == [t EXCEPT !.pc = "record"]
<1>1. NextRow(t) = p \/ NextRow(t) = q
  BY DEF NextRow
<1>2. RunType(p)
  <2>1. /\ p.pc = "probe" /\ p.spec = t.spec /\ p.info = t.info /\ p.meta = t.meta
        /\ p.factor = t.factor /\ p.row = t.row + 1 /\ p.col = 0 /\ p.missing = {}
        /\ RunShape(p)
    BY DEF RunType, RunShape
  <2>2. LadderOf(p) = LadderOf(t)
    BY <2>1 DEF LadderOf
  <2> HIDE DEF p
  <2> QED BY <2>1, <2>2 DEF RunType, Pcs
<1>3. RunType(q)
  <2>1. /\ q.pc = "record" /\ q.spec = t.spec /\ q.info = t.info /\ q.meta = t.meta
        /\ q.factor = t.factor /\ q.row = t.row /\ q.col = t.col /\ q.missing = t.missing
        /\ RunShape(q)
    BY DEF RunType, RunShape
  <2>2. LadderOf(q) = LadderOf(t)
    BY <2>1 DEF LadderOf
  <2> HIDE DEF q
  <2> QED BY <2>1, <2>2 DEF RunType, Pcs
<1> QED BY <1>1, <1>2, <1>3

\* A run in the course of a level that keeps to it.
LEMMA SameLevelType ==
  ASSUME NEW t, RunType(t), t.pc \in {"probe", "read", "fetch", "put", "record"},
         NEW u, RunShape(u), u.pc \in Pcs, u.spec = t.spec, u.info = t.info,
         u.meta = t.meta, u.factor = t.factor,
         u.row \in Nat, u.col \in Nat, u.missing \subseteq Nat,
         u.pc \in {"read", "fetch", "put"} => u.missing # {},
         u.pc = "fetch" => u.via \in Documents
  PROVE  RunType(u)
<1>1. LadderOf(u) = LadderOf(t)
  BY DEF LadderOf
<1> QED BY <1>1 DEF RunType, Pcs

\* A run that is over has nothing left to keep.
LEMMA EndedType ==
  ASSUME NEW t, RunType(t), t.pc # "idle",
         NEW pc \in {"done", "conflict", "failed"}
  PROVE  RunType([t EXCEPT !.pc = pc])
<1> DEFINE u == [t EXCEPT !.pc = pc]
<1>1. /\ u.pc = pc /\ u.spec = t.spec /\ u.info = t.info
      /\ u.row = t.row /\ u.col = t.col /\ u.missing = t.missing /\ RunShape(u)
  BY DEF RunType, RunShape
<1> HIDE DEF u
<1>2. RunType(u)
  BY <1>1 DEF RunType, Pcs
<1> QED BY <1>2 DEF u

LEMMA IdleRunType == RunType(IdleRun)
<1>1. RunShape(IdleRun) /\ IdleRun.pc = "idle"
      /\ IdleRun.row = 0 /\ IdleRun.col = 0 /\ IdleRun.missing = {}
  BY DEF IdleRun, RunShape
<1>2. \A t : RunShape(t) /\ t.pc = "idle" /\ t.row = 0 /\ t.col = 0 /\ t.missing = {}
            => RunType(t)
  BY DEF RunType, Pcs
<1> QED BY <1>1, <1>2, Zenon

LEMMA StartRun ==
  ASSUME TypeInv, NEW r \in Runs, Start(r)
  PROVE  \E T : RunType(T) /\ T.pc = "load" /\ run' = [run EXCEPT ![r] = T]
<1>1. PICK spec \in Specs :
        run' = [run EXCEPT ![r] = [IdleRun EXCEPT !.pc = "load", !.spec = spec, !.info = asset]]
  BY DEF Start
<1> DEFINE u == [IdleRun EXCEPT !.pc = "load", !.spec = spec, !.info = asset]
<1>2. /\ u.pc = "load" /\ u.spec = spec /\ u.info = asset
      /\ u.row = 0 /\ u.col = 0 /\ u.missing = {} /\ RunShape(u)
  BY DEF IdleRun, RunShape
<1>3. asset \in Versions
  BY DEF TypeInv
<1> HIDE DEF u
<1>4. RunType(u)
  BY <1>2, <1>3 DEF RunType, Pcs
<1> QED BY <1>1, <1>2, <1>4 DEF u

\* The document a run begins or resumes with.
LEMMA LoadRun ==
  ASSUME TypeInv, NEW r \in Runs, Load(r)
  PROVE  \E T : /\ RunType(T) /\ run' = [run EXCEPT ![r] = T]
                /\ \/ T.pc = "conflict"
                   \/ \E meta \in Documents :
                        /\ T = NextLevel(run[r], meta)
                        /\ meta.grid = Grid[run[r].info]
                        /\ meta.completed = {} \/ (attrs # Absent /\ meta = attrs)
<1> DEFINE t == run[r]
           fresh == [grid |-> Grid[t.info], resampling |-> t.spec.resampling, completed |-> {}]
<1>1. RunType(t) /\ t.pc = "load" /\ t.spec \in Specs /\ t.info \in Versions
  BY DEF TypeInv, Load, RunType
<1>2. fresh \in Documents
  BY <1>1, PyramidAssumption DEF Documents
<1>3. run' = [run EXCEPT ![r] =
          IF attrs = Absent THEN NextLevel(t, fresh)
          ELSE IF Matches(attrs, t.info) /\ attrs.resampling = t.spec.resampling
               THEN NextLevel(t, attrs)
               ELSE [t EXCEPT !.pc = "conflict"]]
  BY DEF Load
<1> HIDE DEF t
<1>4. CASE attrs = Absent
  <2>1. RunType(NextLevel(t, fresh))
    BY <1>1, <1>2, NextLevelType
  <2>2. fresh.grid = Grid[t.info] /\ fresh.completed = {}
    OBVIOUS
  <2> HIDE DEF fresh
  <2>3. run' = [run EXCEPT ![r] = NextLevel(t, fresh)]
    BY <1>3, <1>4
  <2> QED BY <1>2, <2>1, <2>2, <2>3, Zenon DEF t
<1>5. CASE attrs # Absent /\ Matches(attrs, t.info) /\ attrs.resampling = t.spec.resampling
  <2>1. attrs \in Documents
    BY <1>5 DEF TypeInv
  <2>2. RunType(NextLevel(t, attrs))
    BY <1>1, <2>1, NextLevelType
  <2>3. run' = [run EXCEPT ![r] = NextLevel(t, attrs)]
    BY <1>3, <1>5, Zenon
  <2>4. attrs.grid = Grid[t.info]
    BY <1>5 DEF Matches
  <2> QED BY <1>5, <2>1, <2>2, <2>3, <2>4, Zenon DEF t
<1>6. CASE attrs # Absent /\ ~(Matches(attrs, t.info) /\ attrs.resampling = t.spec.resampling)
  <2>1. RunType([t EXCEPT !.pc = "conflict"])
    BY <1>1, EndedType
  <2>2. [t EXCEPT !.pc = "conflict"].pc = "conflict"
    BY <1>1 DEF RunType, RunShape
  <2>3. run' = [run EXCEPT ![r] = [t EXCEPT !.pc = "conflict"]]
    BY <1>3, <1>6, Zenon
  <2> QED BY <2>1, <2>2, <2>3, Zenon
<1> QED BY <1>4, <1>5, <1>6, Zenon

------------------------------------------------------------------------------
(* What a run knows of the objects *)

\* Objects are never removed, so what a run knows stays true.
LEMMA BuildingGrows ==
  ASSUME NEW t, NEW objects, NEW more, objects \subseteq more, Building(t, objects)
  PROVE  Building(t, more)
  BY DEF Building, LevelWhole, RowWhole

\* Nothing is known of a level that is only begun.
LEMMA NextLevelBuilding ==
  ASSUME NEW t, RunType(t), NEW objects, NEW meta \in Documents,
         meta.grid = Grid[t.info],
         \A f \in meta.completed : LevelWhole(objects, meta.grid, f)
  PROVE  Building(NextLevel(t, meta), objects)
<1> DEFINE left == LadderOf(t) \ meta.completed
<1>1. CASE left = {}
  <2> DEFINE u == [t EXCEPT !.pc = "done", !.meta = meta]
  <2>1. NextLevel(t, meta) = u
    BY <1>1 DEF NextLevel
  <2>2. u.pc = "done"
    BY DEF RunType, RunShape
  <2> HIDE DEF u
  <2> QED BY <2>1, <2>2 DEF Building
<1>2. CASE left # {}
  <2>1. PICK m : m = Lowest(left)
    OBVIOUS
  <2> DEFINE u == [t EXCEPT !.pc = "probe", !.meta = meta, !.factor = m,
                            !.row = 0, !.col = 0, !.missing = {}]
  <2>2. NextLevel(t, meta) = u
    BY <1>2, <2>1 DEF NextLevel
  <2>3. u.pc = "probe" /\ u.info = t.info /\ u.meta = meta /\ u.row = 0 /\ u.col = 0
    BY DEF RunType, RunShape
  <2> HIDE DEF u
  <2> QED BY <2>2, <2>3 DEF Building
<1> QED BY <1>1, <1>2

\* A row that is whole is passed; after the last the level is whole.
LEMMA NextRowBuilding ==
  ASSUME NEW t, RunType(t), NEW objects, t.pc \in {"probe", "put"}, t.info \in Versions,
         t.meta.grid = Grid[t.info],
         \A f \in t.meta.completed : LevelWhole(objects, t.meta.grid, f),
         \A y \in 0..t.row : RowWhole(objects, t.meta.grid, t.factor, y)
  PROVE  Building(NextRow(t), objects)
<1> DEFINE p == [t EXCEPT !.pc = "probe", !.row = t.row + 1, !.col = 0, !.missing = {}]
           q == [t EXCEPT !.pc = "record"]
           rows == Rows(Grid[t.info], t.factor)
<1>1. t.factor \in Nat \ {0} /\ t.row \in Nat
  BY LadderPositive DEF RunType, LadderOf
<1>2. rows \in Nat
  BY <1>1, ShapeNat, PyramidAssumption
<1>3. CASE t.row + 1 < rows
  <2>1. NextRow(t) = p
    BY <1>3 DEF NextRow
  <2>2. /\ p.pc = "probe" /\ p.info = t.info /\ p.meta = t.meta /\ p.factor = t.factor
        /\ p.row = t.row + 1 /\ p.col = 0
    BY DEF RunType, RunShape
  <2> HIDE DEF p
  <2>3. \A y \in 0..(p.row - 1) : RowWhole(objects, Grid[p.info], p.factor, y)
    BY <1>1, <2>2
  <2> QED BY <2>1, <2>2, <2>3 DEF Building
<1>4. CASE ~(t.row + 1 < rows)
  <2>1. NextRow(t) = q
    BY <1>4 DEF NextRow
  <2>2. q.pc = "record" /\ q.info = t.info /\ q.meta = t.meta /\ q.factor = t.factor
    BY DEF RunType, RunShape
  <2> HIDE DEF q
  <2>3. \A y \in 0..(rows - 1) : y \in 0..t.row
    BY <1>1, <1>2, <1>4
  <2>4. LevelWhole(objects, Grid[q.info], q.factor)
    BY <2>2, <2>3 DEF LevelWhole
  <2> QED BY <2>1, <2>2, <2>4 DEF Building
<1> QED BY <1>3, <1>4

------------------------------------------------------------------------------
(* The steps of a run *)

\* The facts about a run at work that every step below uses.
LEMMA AtWork ==
  ASSUME TypeInv, WritersInv, NEW r \in Runs,
         run[r].pc \in {"probe", "read", "fetch", "put", "record"}
  PROVE  /\ RunType(run[r]) /\ Building(run[r], DOMAIN chunks)
         /\ run[r].info \in Versions /\ run[r].meta \in Documents
         /\ run[r].meta.grid = Grid[run[r].info]
         /\ \A f \in run[r].meta.completed : LevelWhole(DOMAIN chunks, run[r].meta.grid, f)
         /\ run[r].factor \in Nat \ {0} /\ run[r].row \in Nat /\ run[r].col \in Nat
         /\ run[r].missing \subseteq Nat
         /\ Cols(Grid[run[r].info], run[r].factor) \in Nat
<1>1. RunType(run[r]) /\ Building(run[r], DOMAIN chunks)
  BY DEF TypeInv, WritersInv
<1>2. /\ run[r].info \in Versions /\ run[r].meta \in Documents
      /\ run[r].factor \in LadderOf(run[r])
      /\ run[r].row \in Nat /\ run[r].col \in Nat /\ run[r].missing \subseteq Nat
  BY <1>1 DEF RunType
<1>3. run[r].factor \in Nat \ {0}
  BY <1>2, LadderPositive DEF LadderOf
<1>4. /\ run[r].meta.grid = Grid[run[r].info]
      /\ \A f \in run[r].meta.completed : LevelWhole(DOMAIN chunks, run[r].meta.grid, f)
  BY <1>1 DEF Building
<1>5. Cols(Grid[run[r].info], run[r].factor) \in Nat
  BY <1>2, <1>3, ShapeNat, PyramidAssumption
<1> QED BY <1>1, <1>2, <1>3, <1>4, <1>5

LEMMA ProbeRun ==
  ASSUME TypeInv, WritersInv, NEW r \in Runs, Probe(r)
  PROVE  \E T : /\ RunType(T) /\ Building(T, DOMAIN chunks)
                /\ run' = [run EXCEPT ![r] = T]
<1> DEFINE t == run[r]
           cols == Cols(Grid[t.info], t.factor)
           missing == IF <<t.factor, t.row, t.col>> \in DOMAIN chunks
                      THEN t.missing ELSE t.missing \cup {t.col}
           probed == [t EXCEPT !.missing = missing]
           next == [probed EXCEPT !.col = t.col + 1]
           read == [probed EXCEPT !.pc = "read"]
<1>1. t.pc = "probe"
  BY DEF Probe
<1>2. /\ RunType(t) /\ Building(t, DOMAIN chunks)
      /\ t.info \in Versions /\ t.meta \in Documents /\ t.meta.grid = Grid[t.info]
      /\ \A f \in t.meta.completed : LevelWhole(DOMAIN chunks, t.meta.grid, f)
      /\ t.factor \in Nat \ {0} /\ t.row \in Nat /\ t.col \in Nat /\ t.missing \subseteq Nat
      /\ cols \in Nat
  BY <1>1, AtWork
<1>3. missing \subseteq Nat
  BY <1>2
<1>4. /\ probed.pc = "probe" /\ probed.spec = t.spec /\ probed.info = t.info
      /\ probed.meta = t.meta /\ probed.factor = t.factor /\ probed.row = t.row
      /\ probed.col = t.col /\ probed.missing = missing /\ RunShape(probed)
  BY <1>1, <1>2 DEF RunType, RunShape
<1>5. RunType(probed)
  <2> HIDE DEF probed, missing, t
  <2> QED BY <1>1, <1>2, <1>3, <1>4, SameLevelType DEF Pcs
\* Every column up to this one is in the store or missing.
<1>6. \A x \in 0..t.col : x \in missing \/ <<t.factor, t.row, x>> \in DOMAIN chunks
  <2>1. \A x \in 0..(t.col - 1) : x \in t.missing \/ <<t.factor, t.row, x>> \in DOMAIN chunks
    BY <1>1, <1>2 DEF Building
  <2> QED BY <1>2, <2>1
<1>7. \A y \in 0..(t.row - 1) : RowWhole(DOMAIN chunks, Grid[t.info], t.factor, y)
  BY <1>1, <1>2 DEF Building
<1>8. run' = [run EXCEPT ![r] =
          IF t.col + 1 < cols THEN next ELSE IF missing = {} THEN NextRow(probed) ELSE read]
  BY DEF Probe
<1>9. CASE t.col + 1 < cols
  <2>1. /\ next.pc = "probe" /\ next.spec = t.spec /\ next.info = t.info
        /\ next.meta = t.meta /\ next.factor = t.factor /\ next.row = t.row
        /\ next.col = t.col + 1 /\ next.missing = missing /\ RunShape(next)
    <3> HIDE DEF probed
    <3> QED BY <1>4, <1>5 DEF RunType, RunShape
  <2> HIDE DEF next, probed, missing, t
  <2>2. RunType(next)
    <3>1. next.pc \in Pcs /\ next.col \in Nat /\ next.row \in Nat /\ next.missing \subseteq Nat
      BY <1>2, <1>3, <2>1 DEF Pcs
    <3>2. next.pc \notin {"read", "fetch", "put"}
      BY <2>1
    <3> QED BY <1>1, <1>2, <2>1, <3>1, <3>2, SameLevelType
  <2>3. Building(next, DOMAIN chunks)
    BY <1>2, <1>6, <1>7, <2>1 DEF Building
  <2>4. run' = [run EXCEPT ![r] = next]
    BY <1>8, <1>9
  <2> QED BY <2>2, <2>3, <2>4, Zenon
<1>10. CASE ~(t.col + 1 < cols) /\ missing = {}
  <2> HIDE DEF probed, missing, t
  <2>1. RowWhole(DOMAIN chunks, Grid[t.info], t.factor, t.row)
    BY <1>2, <1>6, <1>10 DEF RowWhole
  <2>2. \A y \in 0..t.row : RowWhole(DOMAIN chunks, Grid[t.info], t.factor, y)
    BY <1>2, <1>7, <2>1
  <2>3. Building(NextRow(probed), DOMAIN chunks)
    BY <1>2, <1>4, <1>5, <2>2, NextRowBuilding
  <2>4. RunType(NextRow(probed))
    BY <1>4, <1>5, NextRowType
  <2>5. run' = [run EXCEPT ![r] = NextRow(probed)]
    BY <1>8, <1>10
  <2> QED BY <2>3, <2>4, <2>5, Zenon
<1>11. CASE ~(t.col + 1 < cols) /\ missing # {}
  <2>1. /\ read.pc = "read" /\ read.spec = t.spec /\ read.info = t.info
        /\ read.meta = t.meta /\ read.factor = t.factor /\ read.row = t.row
        /\ read.col = t.col /\ read.missing = missing /\ RunShape(read)
    <3> HIDE DEF probed
    <3> QED BY <1>4, <1>5 DEF RunType, RunShape
  <2> HIDE DEF read, probed, missing, t
  <2>2. RunType(read)
    BY <1>1, <1>2, <1>3, <1>11, <2>1, SameLevelType DEF Pcs
  <2>3. \A x \in 0..(cols - 1) : x \in 0..t.col
    BY <1>2, <1>11
  <2>4. Building(read, DOMAIN chunks)
    BY <1>2, <1>6, <1>7, <2>1, <2>3 DEF Building
  <2>5. run' = [run EXCEPT ![r] = read]
    BY <1>8, <1>11
  <2> QED BY <2>2, <2>4, <2>5, Zenon
<1> QED BY <1>9, <1>10, <1>11

\* Reading the strip changes nothing a run knows of the objects.
LEMMA StripMoves ==
  ASSUME NEW t, RunType(t), NEW objects, Building(t, objects), t.pc \in {"read", "fetch"},
         NEW u, RunShape(u), u.pc \in {"fetch", "put"}, u.spec = t.spec, u.info = t.info,
         u.meta = t.meta, u.factor = t.factor, u.row = t.row, u.col = t.col,
         u.missing = t.missing, u.pc = "fetch" => u.via \in Documents
  PROVE  RunType(u) /\ Building(u, objects)
<1>1. u.row \in Nat /\ u.col \in Nat /\ u.missing \subseteq Nat /\ u.missing # {} /\ u.pc \in Pcs
  BY DEF RunType, Pcs
<1>2. RunType(u)
  BY <1>1, SameLevelType
<1>3. Building(u, objects)
  BY DEF Building
<1> QED BY <1>2, <1>3

LEMMA ReadStripRun ==
  ASSUME TypeInv, WritersInv, NEW r \in Runs, ReadStrip(r)
  PROVE  \E T : /\ RunType(T) /\ Building(T, DOMAIN chunks)
                /\ run' = [run EXCEPT ![r] = T]
<1> DEFINE t == run[r]
           base == BaseOf(t)
           fetch == [t EXCEPT !.pc = "fetch", !.via = attrs]
           put == [t EXCEPT !.pc = "put", !.strip = InnerRead(base)]
           failed == [t EXCEPT !.pc = "failed"]
           listed == base # 1 /\ attrs # Absent /\ base \in attrs.completed
<1>1. t.pc = "read"
  BY DEF ReadStrip
<1>2. RunType(t) /\ Building(t, DOMAIN chunks)
  BY <1>1, AtWork
<1>3. run' = [run EXCEPT ![r] =
          IF listed THEN fetch ELSE IF InnerHas(base) THEN put ELSE failed]
  BY DEF ReadStrip
<1>4. CASE listed
  <2>1. /\ fetch.pc = "fetch" /\ fetch.spec = t.spec /\ fetch.info = t.info
        /\ fetch.meta = t.meta /\ fetch.factor = t.factor /\ fetch.row = t.row
        /\ fetch.col = t.col /\ fetch.missing = t.missing /\ fetch.via = attrs
        /\ RunShape(fetch)
    BY <1>2 DEF RunType, RunShape
  <2>2. attrs \in Documents
    BY <1>4 DEF TypeInv
  <2>3. run' = [run EXCEPT ![r] = fetch]
    BY <1>3, <1>4
  <2> HIDE DEF fetch, t
  <2>4. RunType(fetch) /\ Building(fetch, DOMAIN chunks)
    BY <1>1, <1>2, <2>1, <2>2, StripMoves
  <2> QED BY <2>3, <2>4, Zenon
<1>5. CASE ~listed /\ InnerHas(base)
  <2>1. /\ put.pc = "put" /\ put.spec = t.spec /\ put.info = t.info
        /\ put.meta = t.meta /\ put.factor = t.factor /\ put.row = t.row
        /\ put.col = t.col /\ put.missing = t.missing /\ RunShape(put)
    BY <1>2 DEF RunType, RunShape
  <2>2. run' = [run EXCEPT ![r] = put]
    BY <1>3, <1>5
  <2> HIDE DEF put, t
  <2>3. RunType(put) /\ Building(put, DOMAIN chunks)
    BY <1>1, <1>2, <2>1, StripMoves
  <2> QED BY <2>2, <2>3, Zenon
<1>6. CASE ~listed /\ ~InnerHas(base)
  <2>1. RunType(failed)
    BY <1>1, <1>2, EndedType
  <2>2. failed.pc = "failed"
    BY <1>2 DEF RunType, RunShape
  <2>3. run' = [run EXCEPT ![r] = failed]
    BY <1>3, <1>6
  <2> HIDE DEF failed
  <2>4. Building(failed, DOMAIN chunks)
    BY <2>2 DEF Building
  <2> QED BY <2>1, <2>3, <2>4, Zenon
<1> QED BY <1>4, <1>5, <1>6

LEMMA FetchStripRun ==
  ASSUME TypeInv, WritersInv, NEW r \in Runs, FetchStrip(r)
  PROVE  \E T : /\ RunType(T) /\ Building(T, DOMAIN chunks)
                /\ run' = [run EXCEPT ![r] = T]
<1> DEFINE t == run[r]
           strip == {chunks[k] : k \in Under(t)}
           put == [t EXCEPT !.pc = "put", !.strip = strip, !.via = Absent]
           failed == [t EXCEPT !.pc = "failed", !.via = Absent]
<1>1. t.pc = "fetch"
  BY DEF FetchStrip
<1>2. RunType(t) /\ Building(t, DOMAIN chunks)
  BY <1>1, AtWork
<1>3. run' = [run EXCEPT ![r] = put] \/ run' = [run EXCEPT ![r] = failed]
  <2>1. run' = [run EXCEPT ![r] = IF Under(t) \subseteq DOMAIN chunks THEN put ELSE failed]
    BY DEF FetchStrip
  <2> HIDE DEF put, failed
  <2> QED BY <2>1
<1>4. CASE run' = [run EXCEPT ![r] = put]
  <2>1. /\ put.pc = "put" /\ put.spec = t.spec /\ put.info = t.info
        /\ put.meta = t.meta /\ put.factor = t.factor /\ put.row = t.row
        /\ put.col = t.col /\ put.missing = t.missing /\ RunShape(put)
    <3> HIDE DEF strip
    <3> QED BY <1>2 DEF RunType, RunShape
  <2> HIDE DEF put, t
  <2>2. RunType(put) /\ Building(put, DOMAIN chunks)
    BY <1>1, <1>2, <2>1, StripMoves
  <2> QED BY <1>4, <2>2, Zenon
<1>5. CASE run' = [run EXCEPT ![r] = failed]
  <2>1. /\ failed.pc = "failed" /\ failed.spec = t.spec /\ failed.info = t.info
        /\ failed.row = t.row /\ failed.col = t.col /\ failed.missing = t.missing
        /\ RunShape(failed)
    BY <1>2 DEF RunType, RunShape
  <2> HIDE DEF failed
  <2>2. RunType(failed)
    BY <1>1, <1>2, <2>1 DEF RunType, Pcs
  <2>3. Building(failed, DOMAIN chunks)
    BY <2>1 DEF Building
  <2> QED BY <1>5, <2>2, <2>3, Zenon
<1> QED BY <1>3, <1>4, <1>5

LEMMA PutChunkRun ==
  ASSUME TypeInv, WritersInv, NEW r \in Runs, PutChunk(r)
  PROVE  /\ DOMAIN chunks \subseteq DOMAIN chunks'
         /\ DOMAIN chunks' \subseteq Nat \X Nat \X Nat
         /\ \E T : /\ RunType(T) /\ Building(T, DOMAIN chunks')
                   /\ run' = [run EXCEPT ![r] = T]
<1> DEFINE t == run[r]
           x == Lowest(t.missing)
           key == <<t.factor, t.row, x>>
           objects == DOMAIN chunks'
           left == [t EXCEPT !.missing = t.missing \ {x}]
           row == [left EXCEPT !.pc = "probe", !.strip = {}]
           cols == Cols(Grid[t.info], t.factor)
<1>1. t.pc = "put"
  BY DEF PutChunk
<1>2. /\ RunType(t) /\ Building(t, DOMAIN chunks)
      /\ t.info \in Versions /\ t.meta \in Documents /\ t.meta.grid = Grid[t.info]
      /\ t.factor \in Nat \ {0} /\ t.row \in Nat /\ t.col \in Nat /\ t.missing \subseteq Nat
      /\ cols \in Nat
  BY <1>1, AtWork
<1>3. x \in t.missing
  BY <1>1, <1>2, LowestIsMember DEF RunType
<1>4. objects = DOMAIN chunks \cup {key}
  BY DEF PutChunk
<1>5. DOMAIN chunks \subseteq objects /\ objects \subseteq Nat \X Nat \X Nat
  BY <1>2, <1>3, <1>4 DEF TypeInv
\* What the run knew, with the chunk just written.
<1>6. \A f \in t.meta.completed : LevelWhole(objects, t.meta.grid, f)
  BY <1>1, <1>2, <1>5 DEF Building, LevelWhole, RowWhole
<1>7. \A y \in 0..(t.row - 1) : RowWhole(objects, t.meta.grid, t.factor, y)
  BY <1>1, <1>2, <1>5 DEF Building, RowWhole
<1>8. \A c \in 0..(cols - 1) : c \in t.missing \ {x} \/ <<t.factor, t.row, c>> \in objects
  BY <1>1, <1>2, <1>4 DEF Building
<1>9. run' = [run EXCEPT ![r] = IF left.missing # {} THEN left ELSE NextRow(row)]
  BY DEF PutChunk
<1>10. /\ left.pc = "put" /\ left.spec = t.spec /\ left.info = t.info /\ left.meta = t.meta
       /\ left.factor = t.factor /\ left.row = t.row /\ left.col = t.col
       /\ left.missing = t.missing \ {x} /\ RunShape(left)
  BY <1>1, <1>2 DEF RunType, RunShape
<1>11. CASE left.missing # {}
  <2> HIDE DEF left, objects, x, t
  <2>1. left.missing \subseteq Nat /\ left.row \in Nat /\ left.col \in Nat /\ left.pc \in Pcs
    BY <1>2, <1>10 DEF Pcs
  <2>2. RunType(left)
    BY <1>1, <1>2, <1>10, <1>11, <2>1, SameLevelType
  <2>3. Building(left, objects)
    BY <1>2, <1>6, <1>7, <1>8, <1>10 DEF Building
  <2>4. run' = [run EXCEPT ![r] = left]
    BY <1>9, <1>11
  <2> QED BY <1>5, <2>2, <2>3, <2>4, Zenon DEF objects
<1>12. CASE left.missing = {}
  <2>1. /\ row.pc = "probe" /\ row.spec = t.spec /\ row.info = t.info /\ row.meta = t.meta
        /\ row.factor = t.factor /\ row.row = t.row /\ row.col = t.col
        /\ row.missing = {} /\ RunShape(row)
    <3> HIDE DEF left
    <3> QED BY <1>10, <1>12 DEF RunShape
  <2> HIDE DEF row, left, objects, x, t
  <2>2. RunType(row)
    BY <1>1, <1>2, <2>1, SameLevelType DEF Pcs
  <2>3. RowWhole(objects, t.meta.grid, t.factor, t.row)
    BY <1>2, <1>8, <1>10, <1>12 DEF RowWhole
  <2>4. \A y \in 0..t.row : RowWhole(objects, t.meta.grid, t.factor, y)
    BY <1>2, <1>7, <2>3
  <2>5. Building(NextRow(row), objects)
    BY <1>2, <1>6, <2>1, <2>2, <2>4, NextRowBuilding
  <2>6. RunType(NextRow(row))
    BY <2>1, <2>2, NextRowType
  <2>7. run' = [run EXCEPT ![r] = NextRow(row)]
    BY <1>9, <1>12
  <2> QED BY <1>5, <2>5, <2>6, <2>7, Zenon DEF objects
<1> QED BY <1>11, <1>12

LEMMA RecordRun ==
  ASSUME TypeInv, WritersInv, NEW r \in Runs, Record(r)
  PROVE  /\ attrs' \in Documents
         /\ \A f \in attrs'.completed : LevelWhole(DOMAIN chunks, attrs'.grid, f)
         /\ \E T : /\ RunType(T) /\ Building(T, DOMAIN chunks)
                   /\ run' = [run EXCEPT ![r] = T]
<1> DEFINE t == run[r]
           meta == [t.meta EXCEPT !.completed = t.meta.completed \cup {t.factor}]
<1>1. t.pc = "record"
  BY DEF Record
<1>2. /\ RunType(t) /\ Building(t, DOMAIN chunks)
      /\ t.info \in Versions /\ t.meta \in Documents /\ t.meta.grid = Grid[t.info]
      /\ \A f \in t.meta.completed : LevelWhole(DOMAIN chunks, t.meta.grid, f)
      /\ t.factor \in Nat \ {0}
  BY <1>1, AtWork
<1>3. /\ meta \in Documents /\ meta.grid = Grid[t.info]
      /\ meta.completed = t.meta.completed \cup {t.factor}
  BY <1>2 DEF Documents
<1>4. attrs' = meta /\ run' = [run EXCEPT ![r] = NextLevel(t, meta)]
  BY DEF Record
<1> HIDE DEF meta
<1>5. LevelWhole(DOMAIN chunks, Grid[t.info], t.factor)
  BY <1>1, <1>2 DEF Building
<1>6. \A f \in meta.completed : LevelWhole(DOMAIN chunks, meta.grid, f)
  BY <1>2, <1>3, <1>5
<1>7. RunType(NextLevel(t, meta))
  BY <1>1, <1>2, <1>3, NextLevelType DEF RunType
<1>8. Building(NextLevel(t, meta), DOMAIN chunks)
  BY <1>2, <1>3, <1>6, NextLevelBuilding
<1> QED BY <1>3, <1>4, <1>6, <1>7, <1>8, Zenon

------------------------------------------------------------------------------
(* The invariants *)

\* What is recorded stays whole while objects are only added.
LEMMA RecordedStaysWhole ==
  ASSUME WritersInv, DOMAIN chunks \subseteq DOMAIN chunks', attrs' = attrs
  PROVE  attrs' # Absent => \A f \in attrs'.completed : LevelWhole(DOMAIN chunks', attrs'.grid, f)
  BY DEF WritersInv, CompletedIsWhole, LevelWhole, RowWhole

\* A step of one run keeps the invariants if it keeps them for that run, adds
\* objects only, and records only what is whole.
LEMMA RunPreserves ==
  ASSUME TypeInv, WritersInv, NEW r \in Runs, NEW T, RunType(T), Building(T, DOMAIN chunks'),
         run' = [run EXCEPT ![r] = T],
         DOMAIN chunks \subseteq DOMAIN chunks', DOMAIN chunks' \subseteq Nat \X Nat \X Nat,
         attrs' \in Documents \cup {Absent},
         attrs' # Absent => \A f \in attrs'.completed : LevelWhole(DOMAIN chunks', attrs'.grid, f),
         UNCHANGED <<asset, reader, swaps>>, stops' \in 0..MaxStops
  PROVE  TypeInv' /\ WritersInv'
<1>1. /\ run' = [q \in Runs |-> run'[q]]
      /\ \A q \in Runs : RunType(run'[q])
      /\ run'[r] = T
      /\ \A q \in Runs \ {r} : run'[q] = run[q]
  BY RunUpdate
<1>2. TypeInv'
  BY <1>1 DEF TypeInv
<1>3. ASSUME NEW q \in Runs PROVE Building(run'[q], DOMAIN chunks')
  <2>1. Building(run[q], DOMAIN chunks)
    BY DEF WritersInv
  <2>2. Building(run[q], DOMAIN chunks')
    BY <2>1, BuildingGrows
  <2> QED BY <1>1, <2>2, Zenon
<1>4. CompletedIsWhole'
  BY DEF CompletedIsWhole
<1> QED BY <1>2, <1>3, <1>4 DEF WritersInv

LEMMA RunStep ==
  ASSUME TypeInv, WritersInv, NEW r \in Runs, Start(r) \/ Work(r) \/ Stop(r)
  PROVE  TypeInv' /\ WritersInv'
<1>1. /\ DOMAIN chunks \subseteq Nat \X Nat \X Nat
      /\ attrs \in Documents \cup {Absent}
      /\ stops \in 0..MaxStops
  BY DEF TypeInv
<1>2. CASE Start(r)
  <2>1. PICK T : RunType(T) /\ T.pc = "load" /\ run' = [run EXCEPT ![r] = T]
    BY <1>2, StartRun
  <2>2. UNCHANGED <<asset, chunks, attrs, reader, stops, swaps>>
    BY <1>2 DEF Start
  <2>3. Building(T, DOMAIN chunks')
    BY <2>1 DEF Building
  <2> QED BY <1>1, <2>1, <2>2, <2>3, RecordedStaysWhole, RunPreserves
<1>3. CASE Load(r)
  <2>1. PICK T : /\ RunType(T) /\ run' = [run EXCEPT ![r] = T]
                 /\ \/ T.pc = "conflict"
                    \/ \E meta \in Documents :
                         /\ T = NextLevel(run[r], meta)
                         /\ meta.grid = Grid[run[r].info]
                         /\ meta.completed = {} \/ (attrs # Absent /\ meta = attrs)
    BY <1>3, LoadRun
  <2>2. UNCHANGED <<asset, chunks, attrs, reader, stops, swaps>>
    BY <1>3 DEF Load
  <2>3. Building(T, DOMAIN chunks')
    <3>1. CASE T.pc = "conflict"
      BY <3>1 DEF Building
    <3>2. ASSUME NEW meta \in Documents, T = NextLevel(run[r], meta),
                 meta.grid = Grid[run[r].info],
                 meta.completed = {} \/ (attrs # Absent /\ meta = attrs)
          PROVE  Building(T, DOMAIN chunks')
      <4>1. \A f \in meta.completed : LevelWhole(DOMAIN chunks, meta.grid, f)
        BY <3>2 DEF WritersInv, CompletedIsWhole
      <4>2. RunType(run[r])
        BY DEF TypeInv
      <4>3. Building(T, DOMAIN chunks)
        BY <3>2, <4>1, <4>2, NextLevelBuilding
      <4> QED BY <2>2, <4>3
    <3> QED BY <2>1, <3>1, <3>2
  <2> QED BY <1>1, <2>1, <2>2, <2>3, RecordedStaysWhole, RunPreserves
<1>4. CASE Probe(r) \/ ReadStrip(r) \/ FetchStrip(r)
  <2>1. PICK T : /\ RunType(T) /\ Building(T, DOMAIN chunks)
                 /\ run' = [run EXCEPT ![r] = T]
    BY <1>4, ProbeRun, ReadStripRun, FetchStripRun, Zenon
  <2>2. UNCHANGED <<asset, chunks, attrs, reader, stops, swaps>>
    BY <1>4 DEF Probe, ReadStrip, FetchStrip
  <2>3. Building(T, DOMAIN chunks')
    BY <2>1, <2>2
  <2> QED BY <1>1, <2>1, <2>2, <2>3, RecordedStaysWhole, RunPreserves
<1>5. CASE PutChunk(r)
  <2>1. PICK T : /\ RunType(T) /\ Building(T, DOMAIN chunks')
                 /\ run' = [run EXCEPT ![r] = T]
    BY <1>5, PutChunkRun
  <2>2. UNCHANGED <<asset, attrs, reader, stops, swaps>>
    BY <1>5 DEF PutChunk
  <2> QED BY <1>1, <1>5, <2>1, <2>2, PutChunkRun, RecordedStaysWhole, RunPreserves
<1>6. CASE Record(r)
  <2>1. PICK T : /\ RunType(T) /\ Building(T, DOMAIN chunks)
                 /\ run' = [run EXCEPT ![r] = T]
    BY <1>6, RecordRun
  <2>2. UNCHANGED <<asset, chunks, reader, stops, swaps>>
    BY <1>6 DEF Record
  <2>3. Building(T, DOMAIN chunks')
    BY <2>1, <2>2
  <2>4. /\ attrs' \in Documents
        /\ \A f \in attrs'.completed : LevelWhole(DOMAIN chunks', attrs'.grid, f)
    BY <1>6, <2>2, RecordRun
  <2> QED BY <1>1, <2>1, <2>2, <2>3, <2>4, RunPreserves
<1>7. CASE Stop(r)
  <2>1. /\ run' = [run EXCEPT ![r] = IdleRun]
        /\ UNCHANGED <<asset, chunks, attrs, reader, swaps>>
        /\ stops' = stops + 1 /\ stops < MaxStops
    BY <1>7 DEF Stop
  <2>2. stops' \in 0..MaxStops
    BY <1>1, <2>1, PyramidAssumption
  <2>3. Building(IdleRun, DOMAIN chunks')
    BY DEF Building, IdleRun
  <2> QED BY <1>1, <2>1, <2>2, <2>3, IdleRunType, RecordedStaysWhole, RunPreserves
<1> QED BY <1>2, <1>3, <1>4, <1>5, <1>6, <1>7 DEF Work

\* A step of one reader keeps the invariants if it keeps its type.
LEMMA ReaderPreserves ==
  ASSUME TypeInv, WritersInv, NEW d \in Readers, NEW T, ReaderType(T),
         reader' = [reader EXCEPT ![d] = T],
         UNCHANGED <<asset, chunks, attrs, run, stops, swaps>>
  PROVE  TypeInv' /\ WritersInv'
<1>1. reader' = [e \in Readers |-> IF e = d THEN T ELSE reader[e]]
  BY DEF TypeInv
<1>2. reader' = [e \in Readers |-> reader'[e]] /\ \A e \in Readers : ReaderType(reader'[e])
  <2>1. /\ reader' = [e \in Readers |-> reader'[e]]
        /\ reader'[d] = T /\ \A e \in Readers \ {d} : reader'[e] = reader[e]
    BY <1>1
  <2>2. \A e \in Readers : ReaderType(reader[e])
    BY DEF TypeInv
  <2> QED BY <2>1, <2>2, Zenon
<1>3. TypeInv'
  BY <1>2 DEF TypeInv
<1>4. WritersInv'
  BY DEF WritersInv, CompletedIsWhole
<1> QED BY <1>3, <1>4

LEMMA ReaderStep ==
  ASSUME TypeInv, WritersInv, NEW d \in Readers, Serve(d)
  PROVE  TypeInv' /\ WritersInv'
<1> DEFINE t == reader[d]
<1>1. ReaderType(t)
  BY DEF TypeInv
<1>2. CASE Describe(d)
  <2> DEFINE u == [IdleReader EXCEPT !.pc = "merge", !.info = asset, !.levels = Embedded[asset]]
  <2>1. /\ u.pc = "merge" /\ u.info = asset /\ u.levels = Embedded[asset] /\ ReaderShape(u)
    BY DEF IdleReader, ReaderShape
  <2>2. reader' = [reader EXCEPT ![d] = u] /\ UNCHANGED <<asset, chunks, attrs, run, stops, swaps>>
    BY <1>2 DEF Describe
  <2>3. asset \in Versions /\ Embedded[asset] \subseteq Nat
    BY PyramidAssumption DEF TypeInv
  <2> HIDE DEF u
  <2>4. ReaderType(u)
    BY <2>1, <2>3 DEF ReaderType
  <2> QED BY <2>2, <2>4, ReaderPreserves
<1>3. CASE Advertise(d)
  <2> DEFINE levels == IF attrs # Absent /\ Matches(attrs, t.info)
                       THEN t.levels \cup attrs.completed ELSE t.levels
             u == [t EXCEPT !.pc = "plan", !.levels = levels]
  <2>1. t.pc = "merge" /\ UNCHANGED <<asset, chunks, attrs, run, stops, swaps>>
    BY <1>3 DEF Advertise
  <2>2. levels \subseteq Nat
    BY <1>1 DEF TypeInv, Documents, ReaderType
  <2>3. reader' = [reader EXCEPT ![d] = u]
    <3>1. reader = [e \in Readers |-> reader[e]]
      BY DEF TypeInv
    <3>2. reader' = [reader EXCEPT ![d].pc = "plan", ![d].levels = levels]
      BY <1>3 DEF Advertise
    <3> HIDE DEF levels
    <3> QED BY <1>1, <3>1, <3>2 DEF ReaderType, ReaderShape
  <2> HIDE DEF levels
  <2>4. u.pc = "plan" /\ u.info = t.info /\ u.levels = levels /\ ReaderShape(u)
    BY <1>1 DEF ReaderType, ReaderShape
  <2> HIDE DEF u
  <2>5. ReaderType(u)
    BY <1>1, <2>1, <2>2, <2>4 DEF ReaderType
  <2> QED BY <2>1, <2>3, <2>5, ReaderPreserves
<1>4. CASE ReadLevel(d)
  <2>1. t.pc = "plan" /\ UNCHANGED <<asset, chunks, attrs, run, stops, swaps>>
    BY <1>4 DEF ReadLevel
  <2>2. PICK f \in t.levels \cup {1} :
          LET s == [t EXCEPT !.factor = f]
          IN reader' = [reader EXCEPT ![d] =
               IF f # 1 /\ attrs # Absent /\ f \in attrs.completed
               THEN [s EXCEPT !.pc = "fetch", !.via = attrs]
               ELSE IF InnerHas(f) THEN [s EXCEPT !.pc = "got", !.got = InnerRead(f)]
               ELSE [s EXCEPT !.pc = "failed"]]
    BY <1>4 DEF ReadLevel
  <2> DEFINE s == [t EXCEPT !.factor = f]
             fetch == [s EXCEPT !.pc = "fetch", !.via = attrs]
             got == [s EXCEPT !.pc = "got", !.got = InnerRead(f)]
             failed == [s EXCEPT !.pc = "failed"]
  <2>3. s.info = t.info /\ s.levels = t.levels /\ ReaderShape(s)
    BY <1>1 DEF ReaderType, ReaderShape
  <2>4. \/ attrs # Absent /\ reader' = [reader EXCEPT ![d] = fetch]
        \/ reader' = [reader EXCEPT ![d] = got]
        \/ reader' = [reader EXCEPT ![d] = failed]
    <3> HIDE DEF fetch, got, failed
    <3> QED BY <2>2 DEF fetch, got, failed
  <2>5. /\ fetch.pc = "fetch" /\ fetch.info = t.info /\ fetch.levels = t.levels
        /\ fetch.via = attrs /\ ReaderShape(fetch)
        /\ got.pc = "got" /\ got.info = t.info /\ got.levels = t.levels /\ ReaderShape(got)
        /\ failed.pc = "failed" /\ failed.info = t.info /\ failed.levels = t.levels
        /\ ReaderShape(failed)
    <3> HIDE DEF s
    <3> QED BY <2>3 DEF ReaderShape
  <2> HIDE DEF fetch, got, failed
  <2>6. ReaderType(got) /\ ReaderType(failed) /\ (attrs # Absent => ReaderType(fetch))
    BY <1>1, <2>1, <2>5 DEF ReaderType, TypeInv
  <2> QED BY <2>1, <2>4, <2>6, ReaderPreserves
<1>5. CASE FetchChunk(d)
  <2>1. t.pc = "fetch" /\ UNCHANGED <<asset, chunks, attrs, run, stops, swaps>>
    BY <1>5 DEF FetchChunk
  <2>2. PICK k : \/ reader' = [reader EXCEPT ![d] = [t EXCEPT !.pc = "got", !.got = {chunks[k]}]]
                 \/ reader' = [reader EXCEPT ![d] = [t EXCEPT !.pc = "failed"]]
    BY <1>5 DEF FetchChunk
  <2> DEFINE got == [t EXCEPT !.pc = "got", !.got = {chunks[k]}]
             failed == [t EXCEPT !.pc = "failed"]
  <2>3. /\ got.pc = "got" /\ got.info = t.info /\ got.levels = t.levels /\ ReaderShape(got)
        /\ failed.pc = "failed" /\ failed.info = t.info /\ failed.levels = t.levels
        /\ ReaderShape(failed)
    BY <1>1 DEF ReaderType, ReaderShape
  <2> HIDE DEF got, failed
  <2>4. ReaderType(got) /\ ReaderType(failed)
    BY <1>1, <2>1, <2>3 DEF ReaderType
  <2>5. reader' = [reader EXCEPT ![d] = got] \/ reader' = [reader EXCEPT ![d] = failed]
    BY <2>2 DEF got, failed
  <2> QED BY <2>1, <2>4, <2>5, ReaderPreserves
<1> QED BY <1>2, <1>3, <1>4, <1>5 DEF Serve

LEMMA ReplaceStep ==
  ASSUME TypeInv, WritersInv, Replace
  PROVE  TypeInv' /\ WritersInv'
<1>1. /\ swaps' = swaps + 1 /\ swaps < MaxSwaps /\ asset' \in Versions
      /\ UNCHANGED <<chunks, attrs, run, reader, stops>>
  BY DEF Replace
<1>2. TypeInv'
  BY <1>1, PyramidAssumption DEF TypeInv
<1>3. WritersInv'
  BY <1>1 DEF WritersInv, CompletedIsWhole
<1> QED BY <1>2, <1>3

LEMMA InitInvariants == Init => TypeInv /\ WritersInv
<1> SUFFICES ASSUME Init PROVE TypeInv /\ WritersInv
  OBVIOUS
<1>1. ReaderType(IdleReader)
  BY DEF IdleReader, ReaderType, ReaderShape
<1>2. First \in Versions /\ 0 \in 0..MaxStops /\ 0 \in 0..MaxSwaps
  BY PyramidAssumption
<1>3. TypeInv
  BY <1>1, <1>2, IdleRunType DEF Init, TypeInv
<1>4. Building(IdleRun, DOMAIN chunks)
  BY DEF IdleRun, Building
<1>5. WritersInv
  BY <1>4 DEF Init, WritersInv, CompletedIsWhole
<1> QED BY <1>3, <1>5

LEMMA NextInvariants == TypeInv /\ WritersInv /\ [Next]_vars => TypeInv' /\ WritersInv'
<1> SUFFICES ASSUME TypeInv, WritersInv, [Next]_vars PROVE TypeInv' /\ WritersInv'
  OBVIOUS
<1>1. CASE \E r \in Runs : Start(r) \/ Work(r) \/ Stop(r)
  BY <1>1, RunStep
<1>2. CASE \E d \in Readers : Serve(d)
  BY <1>2, ReaderStep
<1>3. CASE Replace
  BY <1>3, ReplaceStep
<1>4. CASE UNCHANGED vars
  BY <1>4 DEF vars, TypeInv, WritersInv, CompletedIsWhole
<1> QED BY <1>1, <1>2, <1>3, <1>4 DEF Next

\* Every variable keeps its type, whatever the runs, the readers and the
\* replacements of the asset do.
THEOREM PyramidTypeCorrect == Spec => []TypeInv
<1>1. Init => TypeInv /\ WritersInv
  BY InitInvariants
<1>2. TypeInv /\ WritersInv /\ [Next]_vars => (TypeInv /\ WritersInv)'
  BY NextInvariants
<1> QED BY <1>1, <1>2, PTL DEF Spec

\* A level the stored document lists has every one of its chunks, for any
\* number of runs of any specification that overlap and die anywhere, and
\* while the asset is replaced under them: the completion record of the
\* materializer never runs ahead of its chunks.
THEOREM RecordedLevelsAreWhole == Spec => []CompletedIsWhole
<1>1. Init => TypeInv /\ WritersInv
  BY InitInvariants
<1>2. TypeInv /\ WritersInv /\ [Next]_vars => (TypeInv /\ WritersInv)'
  BY NextInvariants
<1>3. WritersInv => CompletedIsWhole
  BY DEF WritersInv
<1> QED BY <1>1, <1>2, <1>3, PTL DEF Spec

------------------------------------------------------------------------------
(* Arithmetic of levels *)

\* Multiplication is monotonic.
LEMMA TimesMonotonic ==
  ASSUME NEW x \in Nat, NEW y \in Nat, NEW b \in Nat, x <= y
  PROVE  x * b <= y * b
<1>1. PICK d \in Nat : y = x + d
  <2>1. y - x \in Nat /\ y = x + (y - x)
    OBVIOUS
  <2> QED BY <2>1
<1>2. y * b = x * b + d * b /\ d * b \in Nat /\ x * b \in Nat
  BY <1>1
<1> QED BY <1>2

LEMMA TimesNext == ASSUME NEW n \in Nat, NEW b \in Nat PROVE (n + 1) * b = n * b + b
  OBVIOUS

LEMMA DivBounds ==
  ASSUME NEW a \in Nat, NEW b \in Nat \ {0}
  PROVE  a \div b \in Nat /\ (a \div b) * b <= a /\ a < (a \div b) * b + b
  OBVIOUS

\* There are as many chunks of b as have a pixel before a.
LEMMA BelowCeilDiv ==
  ASSUME NEW a \in Nat, NEW b \in Nat \ {0}, NEW n \in Nat
  PROVE  n < CeilDiv(a, b) <=> n * b < a
<1> DEFINE c == CeilDiv(a, b)
<1>1. c \in Nat /\ c * b <= a + b - 1 /\ a + b - 1 < c * b + b
  BY DivBounds DEF CeilDiv
<1>0. n * b \in Nat /\ c * b \in Nat
  BY <1>1
<1> HIDE DEF c
<1>2. CASE n < c
  <2>1. n + 1 \in Nat /\ n + 1 <= c
    BY <1>1, <1>2
  <2>2. (n + 1) * b <= c * b
    BY <1>1, <2>1, TimesMonotonic
  <2>3. (n + 1) * b = n * b + b
    BY TimesNext
  <2> DEFINE nb == n * b
             cb == c * b
  <2>4. nb \in Int /\ cb \in Int /\ nb + b <= cb /\ cb <= a + b - 1
    BY <1>0, <1>1, <2>2, <2>3
  <2> HIDE DEF nb, cb
  <2>5. nb < a
    BY <2>4
  <2> QED BY <1>2, <2>5 DEF nb, c
<1>3. CASE ~(n < c)
  <2>1. c <= n
    BY <1>1, <1>3
  <2>2. c * b <= n * b
    BY <1>1, <2>1, TimesMonotonic
  <2> DEFINE nb == n * b
             cb == c * b
  <2>3. nb \in Int /\ cb \in Int /\ cb <= nb /\ a < cb + 1
    BY <1>0, <1>1, <2>2
  <2> HIDE DEF nb, cb
  <2>4. ~(nb < a)
    BY <2>3
  <2> QED BY <1>3, <2>1, <2>4, <1>1 DEF nb, c
<1> QED BY <1>2, <1>3 DEF c

\* Fewer larger pieces.
LEMMA CeilDivAntitone ==
  ASSUME NEW a \in Nat, NEW b \in Nat \ {0}, NEW c \in Nat \ {0}, b <= c
  PROVE  CeilDiv(a, c) <= CeilDiv(a, b)
<1>1. CeilDiv(a, c) \in Nat /\ CeilDiv(a, b) \in Nat
  BY CeilDivNat
<1>2. ASSUME CeilDiv(a, b) < CeilDiv(a, c) PROVE FALSE
  <2> DEFINE n == CeilDiv(a, b)
  <2>1. n * c < a
    BY <1>1, <1>2, BelowCeilDiv
  <2>2. n * b <= n * c
    BY <1>1, TimesMonotonic
  <2>3. ~(n * b < a)
    BY <1>1, BelowCeilDiv
  <2>4. n * b \in Nat /\ n * c \in Nat
    BY <1>1
  <2> HIDE DEF n
  <2> QED BY <2>1, <2>2, <2>3, <2>4
<1> QED BY <1>1, <1>2

LEMMA PowersFromTwo == \A f \in Powers : f \in Nat /\ f >= 2
  BY DEF Powers
LEMMA Half == \A f \in Powers : f \div 2 \in Nat \ {0}
  BY PowersFromTwo
------------------------------------------------------------------------------
(* Ladders *)

\* The first chunk row under row y of a level lies in its base level.
LEMMA BaseRowsMeet ==
  ASSUME NEW grid \in [width : Nat, height : Nat, dtype : STRING],
         NEW base \in Nat \ {0}, NEW q \in Nat \ {0}, NEW y \in Nat, y < Rows(grid, base * q)
  PROVE  y * q < Rows(grid, base)
<1> DEFINE h == grid.height
           f == base * q
<1>1. h \in Nat /\ f \in Nat \ {0} /\ Chunk \in Nat \ {0}
  <2>1. base * q \in Nat /\ base * q # 0
    OBVIOUS
  <2> QED BY <2>1, PyramidAssumption
<1>2. LevelHeight(grid, f) = CeilDiv(h, f) /\ LevelHeight(grid, base) = CeilDiv(h, base)
  BY DEF LevelHeight
<1>3. CeilDiv(h, f) \in Nat /\ CeilDiv(h, base) \in Nat
  BY <1>1, CeilDivNat
<1>4. y * Chunk < CeilDiv(h, f)
  BY <1>1, <1>2, <1>3, BelowCeilDiv DEF Rows
<1>5. y * Chunk \in Nat /\ y * q \in Nat /\ (y * q) * Chunk \in Nat
  BY <1>1
<1>6. (y * Chunk) * f < h
  BY <1>1, <1>4, <1>5, BelowCeilDiv
<1>7. (y * Chunk) * f = ((y * q) * Chunk) * base
  BY <1>1, <1>5
<1>8. (y * q) * Chunk < CeilDiv(h, base)
  BY <1>1, <1>5, <1>6, <1>7, BelowCeilDiv
<1>9. y * q < CeilDiv(CeilDiv(h, base), Chunk)
  BY <1>1, <1>3, <1>5, <1>8, BelowCeilDiv
<1> QED BY <1>2, <1>9 DEF Rows

\* A level has chunks if the asset has pixels.
LEMMA LevelHasChunks ==
  ASSUME NEW grid \in [width : Nat, height : Nat, dtype : STRING], NEW f \in Nat \ {0},
         grid.width # 0, grid.height # 0
  PROVE  Rows(grid, f) > 0 /\ Cols(grid, f) > 0
<1>1. grid.width \in Nat /\ grid.height \in Nat /\ Chunk \in Nat \ {0}
  BY PyramidAssumption
<1>2. ASSUME NEW a \in Nat, a # 0, NEW b \in Nat \ {0} PROVE 0 < CeilDiv(a, b)
  <2>1. 0 * b = 0 /\ 0 < a
    BY <1>2
  <2> QED BY <1>2, <2>1, BelowCeilDiv
<1>3. LevelWidth(grid, f) > 0 /\ LevelHeight(grid, f) > 0
  BY <1>1, <1>2 DEF LevelWidth, LevelHeight
<1>4. LevelWidth(grid, f) \in Nat /\ LevelHeight(grid, f) \in Nat
  BY <1>1, CeilDivNat DEF LevelWidth, LevelHeight
<1>5. 0 < Rows(grid, f) /\ 0 < Cols(grid, f)
  BY <1>1, <1>2, <1>3, <1>4 DEF Rows, Cols
<1>6. Rows(grid, f) \in Nat /\ Cols(grid, f) \in Nat
  BY <1>1, ShapeNat
<1> QED BY <1>5, <1>6

\* Every power below a level of the ladder is in the ladder too, or embedded.
LEMMA LadderDownward ==
  ASSUME NEW grid \in [width : Nat, height : Nat, dtype : STRING], NEW embedded,
         NEW minDim \in Nat, NEW f \in Ladder(grid, embedded, minDim),
         NEW g \in Powers \ embedded, g < f
  PROVE  g \in Ladder(grid, embedded, minDim)
<1>1. f \in Powers /\ LongSide(grid, f \div 2) > minDim /\ grid.width # 0 /\ grid.height # 0
  BY DEF Ladder
<1>2. f \div 2 \in Nat \ {0} /\ g \div 2 \in Nat \ {0} /\ f \in Nat /\ g \in Nat
  BY <1>1, Half, PowersFromTwo
<1>3. g \div 2 <= f \div 2
  BY <1>2
<1>4. /\ LevelWidth(grid, f \div 2) <= LevelWidth(grid, g \div 2)
      /\ LevelHeight(grid, f \div 2) <= LevelHeight(grid, g \div 2)
  <2>1. grid.width \in Nat /\ grid.height \in Nat
    OBVIOUS
  <2> HIDE DEF Powers
  <2> QED BY <1>2, <1>3, <2>1, CeilDivAntitone DEF LevelWidth, LevelHeight
<1>5. /\ LevelWidth(grid, f \div 2) \in Nat /\ LevelWidth(grid, g \div 2) \in Nat
      /\ LevelHeight(grid, f \div 2) \in Nat /\ LevelHeight(grid, g \div 2) \in Nat
  BY <1>2, CeilDivNat DEF LevelWidth, LevelHeight
<1>6. LongSide(grid, g \div 2) > minDim
  BY <1>1, <1>4, <1>5 DEF LongSide
<1> QED BY <1>1, <1>6 DEF Ladder

\* A bounded set of natural numbers that is not empty has a greatest member.
LEMMA GreatestIsMember ==
  ASSUME NEW S, S \subseteq Nat, S # {}, NEW n \in Nat, \A s \in S : s <= n
  PROVE  Greatest(S) \in S /\ \A s \in S : s <= Greatest(S)
<1> DEFINE T == {n - s : s \in S}
<1>1. T \subseteq Nat /\ T # {}
  OBVIOUS
<1>2. PICK m \in T : \A t \in T : m <= t
  BY <1>1, LowestIsMember
<1>3. PICK s \in S : m = n - s
  BY <1>2
<1>4. \A t \in S : t <= s
  <2> SUFFICES ASSUME NEW t \in S PROVE t <= s
    OBVIOUS
  <2>1. n - t \in T
    OBVIOUS
  <2> HIDE DEF T
  <2>2. n - s <= n - t
    BY <1>2, <1>3, <2>1
  <2> QED BY <2>2
<1>5. \E u \in S : \A t \in S : t <= u
  BY <1>4
<1> QED BY <1>5 DEF Greatest
------------------------------------------------------------------------------
(* What a run on its own writes *)

LEMMA PowersBounded == \A f \in Powers : f <= 2^30 /\ 2^30 \in Nat
  BY SMT DEF Powers

LEMMA FirstHasAGrid ==
  /\ Grid[First] \in [width : Nat, height : Nat, dtype : STRING]
  /\ Embedded[First] \subseteq Nat \ {0, 1}
  BY PyramidAssumption

\* What is below level f and divides it, of the levels that are embedded or
\* powers: what a run on its own chooses from.
Bases(f) ==
  {1} \cup {s \in Embedded[First] \cup Powers : s < f /\ f % s = 0}

\* There is a greatest one.
LEMMA GreatestBase ==
  ASSUME NEW f \in Powers
  PROVE  /\ Greatest(Bases(f)) \in Bases(f)
         /\ \A s \in Bases(f) : s <= Greatest(Bases(f))
         /\ Greatest(Bases(f)) \in Nat \ {0} /\ Greatest(Bases(f)) < f
         /\ f % Greatest(Bases(f)) = 0
<1>1. f \in Nat /\ f >= 2 /\ Powers \subseteq Nat \ {0}
  BY PowersFromTwo, PowersPositive
<1>2. Bases(f) \subseteq Nat \ {0} /\ 1 \in Bases(f)
  <2>1. Embedded[First] \cup Powers \subseteq Nat \ {0}
    BY <1>1, FirstHasAGrid
  <2>2. \A s \in Bases(f) : s = 1 \/ s \in Embedded[First] \cup Powers
    BY DEF Bases
  <2>3. 1 \in Bases(f)
    BY DEF Bases
  <2> QED BY <2>1, <2>2, <2>3
<1>3. \A s \in Bases(f) : s < f /\ f % s = 0
  <2>1. f % 1 = 0 /\ 1 < f
    BY <1>1
  <2> QED BY <2>1 DEF Bases
<1>4. Greatest(Bases(f)) \in Bases(f) /\ \A s \in Bases(f) : s <= Greatest(Bases(f))
  BY <1>1, <1>2, <1>3, GreatestIsMember
<1> QED BY <1>2, <1>3, <1>4

\* The levels below f that a run on its own will have, of any depth that has
\* f, are all that there are.
LEMMA FreshBaseIs ==
  ASSUME NEW spec, spec.minDim \in Nat,
         NEW f \in Ladder(Grid[First], Embedded[First], spec.minDim)
  PROVE  FreshBase(First, spec, f) = Greatest(Bases(f))
<1> DEFINE ladder == Ladder(Grid[First], Embedded[First], spec.minDim)
           levels == {1} \cup Embedded[First] \cup ladder
           m == Greatest(Bases(f))
<1>1. f \in Powers /\ ladder \subseteq Powers
  BY DEF Ladder
<1>2. \A s : s \in Bases(f) <=> s \in levels /\ s < f /\ f % s = 0
  <2>1. \A s \in Powers \ Embedded[First] : s < f => s \in ladder
    BY FirstHasAGrid, LadderDownward
  <2>2. f % 1 = 0 /\ 1 < f
    BY <1>1, PowersFromTwo
  <2> HIDE DEF ladder
  <2> QED BY <1>1, <2>1, <2>2 DEF Bases
<1>3. m \in Bases(f) /\ m \in Nat /\ \A s \in Bases(f) : s <= m
  BY <1>1, GreatestBase
<1>4. \A s \in Bases(f) : s \in Nat
  BY FirstHasAGrid, PowersPositive DEF Bases
<1>5. FreshBase(First, spec, f) =
        CHOOSE b \in levels : b < f /\ f % b = 0 /\ \A c \in levels : c < f /\ f % c = 0 => c <= b
  BY DEF FreshBase
<1> HIDE DEF levels, m
<1>6. /\ m \in levels /\ m < f /\ f % m = 0
      /\ \A c \in levels : c < f /\ f % c = 0 => c <= m
  BY <1>2, <1>3
<1>7. ASSUME NEW b \in levels, b < f, f % b = 0, \A c \in levels : c < f /\ f % c = 0 => c <= b
      PROVE  b = m
  <2>1. b \in Bases(f) /\ m <= b
    BY <1>2, <1>6, <1>7
  <2> QED BY <1>3, <1>4, <2>1
<1> QED BY <1>5, <1>6, <1>7 DEF m

\* It is the asset, a level it embeds, or a lower level of the ladder.
LEMMA FreshBaseBelow ==
  ASSUME NEW spec, NEW f \in Powers
  PROVE  /\ FreshBase(First, spec, f) < f
         /\ FreshBase(First, spec, f) \in {1} \cup Embedded[First] \cup Powers
<1> DEFINE levels == {1} \cup Embedded[First] \cup Ladder(Grid[First], Embedded[First], spec.minDim)
           below == {s \in levels : s < f /\ f % s = 0}
           m == Greatest(below)
<1>1. f \in Nat /\ f >= 2 /\ levels \subseteq Nat
  BY PowersFromTwo, FirstHasAGrid, LadderPositive
<1>2. levels \subseteq {1} \cup Embedded[First] \cup Powers
  BY DEF Ladder
<1>3. f % 1 = 0 /\ 1 \in levels
  BY <1>1
<1>4. FreshBase(First, spec, f) =
        CHOOSE b \in levels : b < f /\ f % b = 0 /\ \A c \in levels : c < f /\ f % c = 0 => c <= b
  BY DEF FreshBase
<1> HIDE DEF levels
<1>5. below \subseteq Nat /\ 1 \in below /\ \A s \in below : s <= f
  <2>1. 1 < f /\ 1 \in below
    BY <1>1, <1>3
  <2>2. \A s \in below : s \in levels /\ s < f
    OBVIOUS
  <2> HIDE DEF below
  <2>3. ASSUME NEW s \in below PROVE s \in Nat /\ s <= f
    <3>1. s \in Nat /\ s < f /\ f \in Nat
      BY <1>1, <2>2
    <3> QED BY <3>1
  <2> QED BY <2>1, <2>3
<1>6. m \in below /\ \A s \in below : s <= m
  BY <1>1, <1>5, GreatestIsMember
<1>7. \E b \in levels : b < f /\ f % b = 0 /\ \A c \in levels : c < f /\ f % c = 0 => c <= b
  BY <1>6
<1> QED BY <1>2, <1>4, <1>7

\* Levels that lie lower decide what is put in a level.
LEMMA FreshChunkDepends ==
  ASSUME NEW spec, NEW f \in Powers, NEW g, NEW h,
         \A x \in Powers : x < f => g[x] = h[x]
  PROVE  FreshChunk(First, spec, f, g) = FreshChunk(First, spec, f, h)
<1> DEFINE b == FreshBase(First, spec, f)
<1>1. b < f /\ b \in {1} \cup Embedded[First] \cup Powers
  BY FreshBaseBelow
<1>2. b = 1 \/ b \in Embedded[First] \/ g[b] = h[b]
  BY <1>1
<1> QED BY <1>2 DEF FreshChunk

\* What a run has put in the levels up to f.
UpTo(f) == {x \in Powers : x <= f}
Builds(g, spec, f) == g = [x \in UpTo(f) |-> FreshChunk(First, spec, x, g)]

\* From a lower level to the next.
LEMMA BuildsMore ==
  ASSUME NEW spec, NEW f \in Powers, NEW e \in Powers, e < f,
         \A x \in Powers : x < f => x <= e, NEW g, Builds(g, spec, e)
  PROVE  \E h : Builds(h, spec, f)
<1> DEFINE h == [x \in UpTo(f) |-> IF x = f THEN FreshChunk(First, spec, f, g) ELSE g[x]]
<1>1. Powers \subseteq Nat
  BY PowersPositive
<1>2. g = [x \in UpTo(e) |-> FreshChunk(First, spec, x, g)]
  BY DEF Builds
<1>3. \A x \in UpTo(f) : x = f \/ x \in UpTo(e)
  BY <1>1 DEF UpTo
<1>4. \A x \in UpTo(f) : x # f => h[x] = g[x] /\ h[x] = FreshChunk(First, spec, x, g)
  BY <1>2, <1>3
<1>5. ASSUME NEW x \in UpTo(f) PROVE h[x] = FreshChunk(First, spec, x, h)
  <2>1. x \in Powers
    BY DEF UpTo
  <2>2. \A y \in Powers : y < x => h[y] = g[y]
    BY <1>1, <1>4, <2>1 DEF UpTo
  <2> HIDE DEF h
  <2>3. FreshChunk(First, spec, x, h) = FreshChunk(First, spec, x, g)
    BY <2>1, <2>2, FreshChunkDepends
  <2>4. x = f => h[x] = FreshChunk(First, spec, f, g)
    BY DEF h
  <2> QED BY <1>4, <2>3, <2>4
<1>6. h = [x \in UpTo(f) |-> h[x]]
  OBVIOUS
<1> HIDE DEF h
<1>7. h = [x \in UpTo(f) |-> FreshChunk(First, spec, x, h)]
  BY <1>5, <1>6
<1> QED BY <1>7 DEF Builds

\* Level after level, all are built.
LEMMA BuildsAny ==
  ASSUME NEW spec, NEW f \in Powers
  PROVE  \E g : Builds(g, spec, f)
<1> DEFINE Never == {x \in Powers : ~\E g : Builds(g, spec, x)}
<1>1. Powers \subseteq Nat
  BY PowersPositive
<1>2. SUFFICES ASSUME Never # {} PROVE FALSE
  OBVIOUS
<1>3. PICK n \in Never : \A x \in Never : n <= x
  BY <1>1, <1>2, LowestIsMember
<1>4. n \in Powers /\ ~\E g : Builds(g, spec, n)
  OBVIOUS
<1>5. \A x \in Powers : x < n => \E g : Builds(g, spec, x)
  BY <1>1, <1>3, <1>4
<1> HIDE DEF Never
<1> DEFINE lower == {x \in Powers : x < n}
<1>6. CASE lower = {}
  <2> DEFINE g == [x \in UpTo(n) |-> FreshChunk(First, spec, x, <<>>)]
  <2>1. \A x \in UpTo(n) : x = n
    BY <1>1, <1>4, <1>6 DEF UpTo
  <2>2. \A x \in UpTo(n) : FreshChunk(First, spec, x, <<>>) = FreshChunk(First, spec, x, g)
    <3> SUFFICES ASSUME NEW x \in UpTo(n)
                 PROVE  FreshChunk(First, spec, x, <<>>) = FreshChunk(First, spec, x, g)
      OBVIOUS
    <3>1. \A y \in Powers : y < x => FALSE
      BY <1>6, <2>1
    <3> HIDE DEF g
    <3> QED BY <1>4, <2>1, <3>1, FreshChunkDepends
  <2>3. g = [x \in UpTo(n) |-> FreshChunk(First, spec, x, <<>>)]
    OBVIOUS
  <2> HIDE DEF g
  <2>4. g = [x \in UpTo(n) |-> FreshChunk(First, spec, x, g)]
    BY <2>2, <2>3
  <2> QED BY <1>4, <2>4 DEF Builds
<1>7. CASE lower # {}
  <2> DEFINE e == Greatest(lower)
  <2>1. lower \subseteq Nat /\ n \in Nat /\ \A x \in lower : x <= n
    <3>1. \A x \in lower : x \in Powers /\ x < n
      OBVIOUS
    <3> HIDE DEF lower
    <3>2. ASSUME NEW x \in lower PROVE x \in Nat /\ x <= n
      <4>1. x \in Nat /\ x < n /\ n \in Nat
        BY <1>1, <1>4, <3>1
      <4> QED BY <4>1
    <3> QED BY <1>1, <1>4, <3>2
  <2>2. e \in lower /\ \A x \in lower : x <= e
    BY <1>7, <2>1, GreatestIsMember
  <2>3. e \in Powers /\ e < n /\ \A x \in Powers : x < n => x <= e
    BY <2>2
  <2> HIDE DEF e
  <2>4. PICK g : Builds(g, spec, e)
    BY <1>5, <2>3
  <2> QED BY <1>4, <2>3, <2>4, BuildsMore
<1> QED BY <1>6, <1>7

\* So the recursive definition has a solution, and each level of a run on its
\* own is what its lower levels make of it.
LEMMA FreshContentUnfolds ==
  ASSUME NEW spec, NEW f \in Powers
  PROVE  FreshContent(First, spec)[f] = FreshChunk(First, spec, f, FreshContent(First, spec))
<1> DEFINE last == Greatest(Powers)
<1>1. last \in Powers /\ \A x \in Powers : x <= last
  BY PowersBounded, PowersPositive, GreatestIsMember
<1>2. PICK g : Builds(g, spec, last)
  BY <1>1, BuildsAny
<1>3. UpTo(last) = Powers
  BY <1>1 DEF UpTo
<1>4. g = [x \in Powers |-> FreshChunk(First, spec, x, g)]
  BY <1>2, <1>3 DEF Builds
<1>5. FreshContent(First, spec) = CHOOSE h : h = [x \in Powers |-> FreshChunk(First, spec, x, h)]
  BY DEF FreshContent
<1> DEFINE fresh == FreshContent(First, spec)
<1>6. fresh = [x \in Powers |-> FreshChunk(First, spec, x, fresh)]
  BY <1>4, <1>5
<1> HIDE DEF fresh
<1>7. fresh[f] = FreshChunk(First, spec, f, fresh)
  BY <1>6
<1> QED BY <1>7 DEF fresh

------------------------------------------------------------------------------
(* What the steps of a run do to it *)

LEMMA RunBecomes ==
  ASSUME TypeInv, NEW r \in Runs, NEW u, run' = [run EXCEPT ![r] = u]
  PROVE  run'[r] = u /\ \A q \in Runs \ {r} : run'[q] = run[q]
<1>1. run = [q \in Runs |-> run[q]]
  BY DEF TypeInv
<1>2. run' = [q \in Runs |-> IF q = r THEN u ELSE run[q]]
  BY <1>1
<1> QED BY <1>2

\* The level, the document and the grid a run is working with.
Continues(t, u) ==
  u.spec = t.spec /\ u.info = t.info /\ u.meta = t.meta /\ u.factor = t.factor

Busy == {"probe", "read", "fetch", "put", "record"}

LEMMA NextRowEffect ==
  ASSUME NEW t, RunShape(t), t.row \in Nat
  PROVE  LET u == NextRow(t) IN
         /\ RunShape(u) /\ Continues(t, u) /\ u.pc \in {"probe", "record"}
         /\ u.pc = "probe" => u.row \in Nat /\ u.row < Rows(Grid[t.info], t.factor)
         /\ u.pc = "record" => u.row = t.row
<1> DEFINE p == [t EXCEPT !.pc = "probe", !.row = t.row + 1, !.col = 0, !.missing = {}]
           q == [t EXCEPT !.pc = "record"]
           more == t.row + 1 < Rows(Grid[t.info], t.factor)
<1>1. NextRow(t) = IF more THEN p ELSE q
  BY DEF NextRow
<1>2. RunShape(p) /\ Continues(t, p) /\ p.pc = "probe" /\ p.row = t.row + 1
  BY DEF RunShape, Continues
<1>3. RunShape(q) /\ Continues(t, q) /\ q.pc = "record" /\ q.row = t.row
  BY DEF RunShape, Continues
<1>4. p.row \in Nat /\ (more => p.row < Rows(Grid[t.info], t.factor))
  BY <1>2
<1> HIDE DEF p, q, more
<1> QED BY <1>1, <1>2, <1>3, <1>4

LEMMA NextLevelEffect ==
  ASSUME NEW t, RunShape(t), NEW meta
  PROVE  LET u == NextLevel(t, meta)
             left == LadderOf(t) \ meta.completed
         IN /\ u.spec = t.spec /\ u.info = t.info /\ u.meta = meta
            /\ \/ u.pc = "done" /\ left = {}
               \/ /\ u.pc = "probe" /\ u.row = 0
                  /\ u.factor \in left /\ \A f \in left : u.factor <= f
<1> DEFINE left == LadderOf(t) \ meta.completed
<1>1. left # {} => Lowest(left) \in left /\ \A f \in left : Lowest(left) <= f
  BY LadderPositive, LowestIsMember DEF LadderOf
<1> DEFINE done == [t EXCEPT !.pc = "done", !.meta = meta]
           probe(m) == [t EXCEPT !.pc = "probe", !.meta = meta, !.factor = m,
                                 !.row = 0, !.col = 0, !.missing = {}]
<1>2. NextLevel(t, meta) = IF left = {} THEN done ELSE probe(Lowest(left))
  BY DEF NextLevel
<1>3. done.spec = t.spec /\ done.info = t.info /\ done.meta = meta /\ done.pc = "done"
  BY DEF RunShape
<1>4. ASSUME NEW m
      PROVE  LET u == probe(m)
             IN /\ u.spec = t.spec /\ u.info = t.info /\ u.meta = meta
                /\ u.pc = "probe" /\ u.row = 0 /\ u.factor = m
  BY DEF RunShape
<1> HIDE DEF left, done, probe
<1>5. CASE left = {}
  BY <1>2, <1>3, <1>5 DEF left
<1>6. CASE left # {}
  BY <1>1, <1>2, <1>4, <1>6 DEF left
<1> QED BY <1>5, <1>6

LEMMA StartEffect ==
  ASSUME TypeInv, NEW r \in Runs, Start(r)
  PROVE  /\ run'[r].pc = "load" /\ run'[r].spec \in Specs /\ run'[r].info = asset
         /\ \A q \in Runs \ {r} : run'[q] = run[q]
         /\ UNCHANGED <<asset, chunks, attrs, reader, swaps>>
<1>1. PICK spec \in Specs :
        run' = [run EXCEPT ![r] = [IdleRun EXCEPT !.pc = "load", !.spec = spec, !.info = asset]]
  BY DEF Start
<1> DEFINE u == [IdleRun EXCEPT !.pc = "load", !.spec = spec, !.info = asset]
<1>2. u.pc = "load" /\ u.spec = spec /\ u.info = asset
  BY DEF IdleRun
<1> HIDE DEF u
<1>3. run' = [run EXCEPT ![r] = u]
  BY <1>1 DEF u
<1> QED BY <1>2, <1>3, RunBecomes DEF Start

\* The document a run begins with: the stored one, or a fresh one where none
\* is stored.
LEMMA LoadEffect ==
  ASSUME TypeInv, NEW r \in Runs, Load(r)
  PROVE  /\ run[r].pc = "load"
         /\ \A q \in Runs \ {r} : run'[q] = run[q]
         /\ UNCHANGED <<asset, chunks, attrs, reader, swaps>>
         /\ \/ run'[r].pc = "conflict"
            \/ \E meta :
                 /\ run'[r] = NextLevel(run[r], meta)
                 /\ meta.resampling = run[r].spec.resampling
                 /\ \/ attrs # Absent /\ meta = attrs
                    \/ attrs = Absent /\ meta.completed = {}
<1> DEFINE t == run[r]
           fresh == [grid |-> Grid[t.info], resampling |-> t.spec.resampling, completed |-> {}]
           refused == [t EXCEPT !.pc = "conflict"]
           resumed == Matches(attrs, t.info) /\ attrs.resampling = t.spec.resampling
           u == IF attrs = Absent THEN NextLevel(t, fresh)
                ELSE IF resumed THEN NextLevel(t, attrs) ELSE refused
<1>1. RunShape(t) /\ t.pc = "load"
  BY DEF TypeInv, RunType, Load
<1>2. refused.pc = "conflict"
  BY <1>1 DEF RunShape
<1>3. fresh.completed = {} /\ fresh.resampling = t.spec.resampling
  OBVIOUS
<1>4. run' = [run EXCEPT ![r] = u] /\ UNCHANGED <<asset, chunks, attrs, reader, swaps>>
  BY DEF Load
<1>5. run'[r] = u /\ \A q \in Runs \ {r} : run'[q] = run[q]
  <2> HIDE DEF u
  <2> QED BY <1>4, RunBecomes
<1> HIDE DEF fresh, refused, t
<1>6. CASE attrs = Absent
  BY <1>1, <1>3, <1>4, <1>5, <1>6, Zenon DEF t
<1>7. CASE attrs # Absent /\ resumed
  <2>1. run'[r] = NextLevel(t, attrs) /\ attrs.resampling = t.spec.resampling
    BY <1>5, <1>7
  <2> QED BY <1>1, <1>4, <1>5, <1>7, <2>1, Zenon DEF t
<1>8. CASE attrs # Absent /\ ~resumed
  <2>1. run'[r] = refused
    BY <1>5, <1>8, Zenon
  <2> QED BY <1>1, <1>2, <1>4, <1>5, <2>1, Zenon DEF t
<1> QED BY <1>6, <1>7, <1>8

\* A row that is to be worked on is one of the level's.
RowIn(u) == u.pc # "record" => u.row \in Nat /\ u.row < Rows(Grid[u.info], u.factor)

LEMMA ProbeEffect ==
  ASSUME TypeInv, NEW r \in Runs, Probe(r)
  PROVE  /\ run[r].pc = "probe" /\ run'[r].pc \in {"probe", "read", "record"}
         /\ Continues(run[r], run'[r]) /\ (RowIn(run[r]) => RowIn(run'[r]))
         /\ \A q \in Runs \ {r} : run'[q] = run[q]
         /\ UNCHANGED <<asset, chunks, attrs, reader, swaps>>
<1> DEFINE t == run[r]
           cols == Cols(Grid[t.info], t.factor)
           missing == IF <<t.factor, t.row, t.col>> \in DOMAIN chunks
                      THEN t.missing ELSE t.missing \cup {t.col}
           probed == [t EXCEPT !.missing = missing]
           next == [probed EXCEPT !.col = t.col + 1]
           read == [probed EXCEPT !.pc = "read"]
           u == IF t.col + 1 < cols THEN next ELSE IF missing = {} THEN NextRow(probed) ELSE read
<1>1. RunShape(t) /\ t.pc = "probe" /\ t.row \in Nat
  BY DEF TypeInv, RunType, Probe
<1> HIDE DEF missing, cols
<1>2. RunShape(probed) /\ Continues(t, probed) /\ probed.pc = "probe" /\ probed.row = t.row /\ probed.col = t.col
  BY <1>1 DEF RunShape, Continues
<1>3. run' = [run EXCEPT ![r] = u] /\ UNCHANGED <<asset, chunks, attrs, reader, swaps>>
  <2>1. probed.col = t.col
    BY <1>2
  <2> HIDE DEF probed
  <2> QED BY <2>1 DEF Probe, probed, missing, cols
<1> HIDE DEF probed
<1>4. Continues(t, next) /\ next.pc = "probe" /\ next.row = t.row
  BY <1>1, <1>2 DEF RunShape, Continues
<1>5. Continues(t, read) /\ read.pc = "read" /\ read.row = t.row
  BY <1>1, <1>2 DEF RunShape, Continues
<1>6. /\ Continues(probed, NextRow(probed)) /\ NextRow(probed).pc \in {"probe", "record"}
      /\ NextRow(probed).pc = "probe" =>
           /\ NextRow(probed).row \in Nat
           /\ NextRow(probed).row < Rows(Grid[probed.info], probed.factor)
  BY <1>1, <1>2, NextRowEffect
<1> HIDE DEF next, read, t
<1>7. Continues(t, u) /\ u.pc \in {"probe", "read", "record"} /\ (RowIn(t) => RowIn(u))
  <2>1. CASE u = next
    BY <1>1, <1>4, <2>1 DEF RowIn, Continues, t
  <2>2. CASE u = read
    BY <1>1, <1>5, <2>2 DEF RowIn, Continues, t
  <2>3. CASE u = NextRow(probed)
    BY <1>1, <1>2, <1>6, <2>3 DEF RowIn, Continues
  <2> QED BY <2>1, <2>2, <2>3
<1> HIDE DEF u
<1>8. run'[r] = u /\ \A q \in Runs \ {r} : run'[q] = run[q]
  BY <1>3, RunBecomes
<1> QED BY <1>1, <1>3, <1>7, <1>8 DEF t

\* A strip of a recorded base level comes from its chunks, any other from the
\* asset, if the asset has the level.
LEMMA ReadStripEffect ==
  ASSUME TypeInv, NEW r \in Runs, ReadStrip(r)
  PROVE  LET t == run[r]
             u == run'[r]
         IN /\ t.pc = "read" /\ Continues(t, u) /\ u.row = t.row
            /\ \/ u.pc = "fetch" /\ attrs # Absent /\ u.via = attrs /\ BaseOf(t) \in attrs.completed
               \/ u.pc = "put" /\ InnerHas(BaseOf(t)) /\ u.strip = InnerRead(BaseOf(t))
               \/ u.pc = "failed" /\ (attrs = Absent \/ BaseOf(t) \notin attrs.completed)
            /\ \A q \in Runs \ {r} : run'[q] = run[q]
            /\ UNCHANGED <<asset, chunks, attrs, reader, swaps>>
<1> DEFINE t == run[r]
           base == BaseOf(t)
           fetch == [t EXCEPT !.pc = "fetch", !.via = attrs]
           put == [t EXCEPT !.pc = "put", !.strip = InnerRead(base)]
           failed == [t EXCEPT !.pc = "failed"]
           listed == base # 1 /\ attrs # Absent /\ base \in attrs.completed
           u == IF listed THEN fetch ELSE IF InnerHas(base) THEN put ELSE failed
<1>1. RunShape(t) /\ t.pc = "read"
  BY DEF TypeInv, RunType, ReadStrip
<1>2. run' = [run EXCEPT ![r] = u] /\ UNCHANGED <<asset, chunks, attrs, reader, swaps>>
  BY DEF ReadStrip
<1> HIDE DEF base
<1>3. Continues(t, fetch) /\ fetch.row = t.row /\ fetch.pc = "fetch" /\ fetch.via = attrs
  BY <1>1 DEF RunShape, Continues
<1>4. Continues(t, put) /\ put.row = t.row /\ put.pc = "put" /\ put.strip = InnerRead(base)
  BY <1>1 DEF RunShape, Continues
<1>5. Continues(t, failed) /\ failed.row = t.row /\ failed.pc = "failed"
  BY <1>1 DEF RunShape, Continues
<1>6. base = 1 => InnerHas(base)
  BY DEF InnerHas
<1>7. run'[r] = u /\ \A q \in Runs \ {r} : run'[q] = run[q]
  <2> HIDE DEF u
  <2> QED BY <1>2, RunBecomes
<1> HIDE DEF fetch, put, failed, t
<1>8. CASE listed
  BY <1>1, <1>2, <1>3, <1>7, <1>8 DEF t, base
<1>9. CASE ~listed /\ InnerHas(base)
  <2>1. u = put
    BY <1>9
  <2> HIDE DEF u
  <2> QED BY <1>1, <1>2, <1>4, <1>7, <1>9, <2>1 DEF t, base
<1>10. CASE ~listed /\ ~InnerHas(base)
  <2>1. u = failed /\ (attrs = Absent \/ base \notin attrs.completed)
    BY <1>6, <1>10
  <2> HIDE DEF u
  <2> QED BY <1>1, <1>2, <1>5, <1>7, <2>1 DEF t, base
<1> QED BY <1>8, <1>9, <1>10

LEMMA FetchStripEffect ==
  ASSUME TypeInv, NEW r \in Runs, FetchStrip(r)
  PROVE  LET t == run[r]
             u == run'[r]
         IN /\ t.pc = "fetch" /\ Continues(t, u) /\ u.row = t.row
            /\ \/ /\ u.pc = "put" /\ Under(t) \subseteq DOMAIN chunks
                  /\ u.strip = {chunks[k] : k \in Under(t)}
               \/ u.pc = "failed"
            /\ \A q \in Runs \ {r} : run'[q] = run[q]
            /\ UNCHANGED <<asset, chunks, attrs, reader, swaps>>
<1> DEFINE t == run[r]
           strip == {chunks[k] : k \in Under(t)}
           there == Under(t) \subseteq DOMAIN chunks
           put == [t EXCEPT !.pc = "put", !.strip = strip, !.via = Absent]
           failed == [t EXCEPT !.pc = "failed", !.via = Absent]
           u == IF there THEN put ELSE failed
<1>1. RunShape(t) /\ t.pc = "fetch"
  BY DEF TypeInv, RunType, FetchStrip
<1>2. run' = [run EXCEPT ![r] = u] /\ UNCHANGED <<asset, chunks, attrs, reader, swaps>>
  BY DEF FetchStrip
<1>3. Continues(t, put) /\ put.row = t.row /\ put.pc = "put" /\ put.strip = strip
  <2> HIDE DEF strip
  <2> QED BY <1>1 DEF RunShape, Continues
<1>4. Continues(t, failed) /\ failed.row = t.row /\ failed.pc = "failed"
  BY <1>1 DEF RunShape, Continues
<1>7. run'[r] = u /\ \A q \in Runs \ {r} : run'[q] = run[q]
  <2> HIDE DEF u
  <2> QED BY <1>2, RunBecomes
<1> HIDE DEF put, failed, t, strip, there
<1>8. CASE there
  <2>1. u = put
    BY <1>8
  <2> HIDE DEF u
  <2> QED BY <1>1, <1>2, <1>3, <1>7, <1>8, <2>1 DEF t, strip, there
<1>9. CASE ~there
  <2>1. u = failed
    BY <1>9
  <2> HIDE DEF u
  <2> QED BY <1>1, <1>2, <1>4, <1>7, <2>1 DEF t
<1> QED BY <1>8, <1>9

LEMMA PutChunkEffect ==
  ASSUME TypeInv, NEW r \in Runs, PutChunk(r)
  PROVE  LET t == run[r]
             u == run'[r]
         IN /\ t.pc = "put" /\ Continues(t, u) /\ u.pc \in {"put", "probe", "record"} /\ (RowIn(t) => RowIn(u))
            /\ u.pc = "put" => u.strip = t.strip
            /\ \E x : /\ DOMAIN chunks' = DOMAIN chunks \cup {<<t.factor, t.row, x>>}
                      /\ \A k \in DOMAIN chunks' :
                           chunks'[k] = IF k = <<t.factor, t.row, x>>
                                        THEN [by |-> t.spec.resampling, from |-> t.strip]
                                        ELSE chunks[k]
            /\ \A q \in Runs \ {r} : run'[q] = run[q]
            /\ UNCHANGED <<asset, attrs, reader, swaps>>
<1> DEFINE t == run[r]
           x == Lowest(t.missing)
           key == <<t.factor, t.row, x>>
           content == [by |-> t.spec.resampling, from |-> t.strip]
           left == [t EXCEPT !.missing = t.missing \ {x}]
           over == [left EXCEPT !.pc = "probe", !.strip = {}]
           u == IF left.missing # {} THEN left ELSE NextRow(over)
<1>1. RunShape(t) /\ t.pc = "put" /\ t.row \in Nat
  BY DEF TypeInv, RunType, PutChunk
<1>2. /\ run' = [run EXCEPT ![r] = u] /\ UNCHANGED <<asset, attrs, reader, swaps>>
      /\ chunks' = [k \in DOMAIN chunks \cup {key} |-> IF k = key THEN content ELSE chunks[k]]
  BY DEF PutChunk
<1>3. RunShape(left) /\ Continues(t, left) /\ left.row = t.row /\ left.pc = "put" /\ left.strip = t.strip
  <2> HIDE DEF x
  <2> QED BY <1>1 DEF RunShape, Continues
<1> HIDE DEF left
<1>4. RunShape(over) /\ Continues(t, over) /\ over.row = t.row
  BY <1>3 DEF RunShape, Continues
<1> HIDE DEF over
<1>5. /\ Continues(over, NextRow(over)) /\ NextRow(over).pc \in {"probe", "record"}
      /\ NextRow(over).pc = "probe" =>
           NextRow(over).row \in Nat /\ NextRow(over).row < Rows(Grid[over.info], over.factor)
  BY <1>1, <1>4, NextRowEffect
<1>6. run'[r] = u /\ \A q \in Runs \ {r} : run'[q] = run[q]
  <2> HIDE DEF u
  <2> QED BY <1>2, RunBecomes
<1>7. \E y : /\ DOMAIN chunks' = DOMAIN chunks \cup {<<t.factor, t.row, y>>}
             /\ \A k \in DOMAIN chunks' :
                  chunks'[k] = IF k = <<t.factor, t.row, y>> THEN content ELSE chunks[k]
  <2>1. DOMAIN chunks' = DOMAIN chunks \cup {key}
    BY <1>2
  <2>2. \A k \in DOMAIN chunks' : chunks'[k] = IF k = key THEN content ELSE chunks[k]
    BY <1>2
  <2> HIDE DEF content, x
  <2> QED BY <2>1, <2>2
<1> HIDE DEF t, content
<1>8. /\ Continues(t, u) /\ u.pc \in {"put", "probe", "record"} /\ (RowIn(t) => RowIn(u))
      /\ u.pc = "put" => u.strip = t.strip
  <2>1. CASE u = left
    BY <1>1, <1>3, <2>1 DEF RowIn, Continues, t
  <2>2. CASE u = NextRow(over)
    BY <1>4, <1>5, <2>2 DEF RowIn, Continues
  <2> QED BY <2>1, <2>2
<1> HIDE DEF u
<1> QED BY <1>1, <1>2, <1>6, <1>7, <1>8 DEF t, content

LEMMA RecordEffect ==
  ASSUME TypeInv, NEW r \in Runs, Record(r)
  PROVE  LET t == run[r] IN
         /\ t.pc = "record" /\ run'[r] = NextLevel(t, attrs')
         /\ attrs' \in Documents
         /\ attrs'.grid = t.meta.grid /\ attrs'.resampling = t.meta.resampling
         /\ attrs'.completed = t.meta.completed \cup {t.factor}
         /\ \A q \in Runs \ {r} : run'[q] = run[q]
         /\ UNCHANGED <<asset, chunks, reader, swaps>>
<1> DEFINE t == run[r]
           meta == [t.meta EXCEPT !.completed = t.meta.completed \cup {t.factor}]
<1>1. t.pc = "record" /\ t.meta \in Documents /\ t.factor \in Nat
  BY LadderPositive DEF TypeInv, RunType, Record, LadderOf
<1>2. /\ meta \in Documents /\ meta.grid = t.meta.grid /\ meta.resampling = t.meta.resampling
      /\ meta.completed = t.meta.completed \cup {t.factor}
  BY <1>1 DEF Documents
<1>3. attrs' = meta /\ run' = [run EXCEPT ![r] = NextLevel(t, meta)] /\ UNCHANGED <<asset, chunks, reader, swaps>>
  BY DEF Record
<1> HIDE DEF meta, t
<1>4. run' = [run EXCEPT ![r] = NextLevel(t, attrs')]
  BY <1>3
<1>5. run'[r] = NextLevel(t, attrs') /\ \A q \in Runs \ {r} : run'[q] = run[q]
  BY <1>4, RunBecomes
<1> QED BY <1>1, <1>2, <1>3, <1>5 DEF t

LEMMA StopEffect ==
  ASSUME TypeInv, NEW r \in Runs, Stop(r)
  PROVE  /\ run'[r].pc = "idle"
         /\ \A q \in Runs \ {r} : run'[q] = run[q]
         /\ UNCHANGED <<asset, chunks, attrs, reader, swaps>>
<1>1. run' = [run EXCEPT ![r] = IdleRun] /\ IdleRun.pc = "idle"
  BY DEF Stop, IdleRun
<1>2. run'[r] = IdleRun /\ \A q \in Runs \ {r} : run'[q] = run[q]
  BY <1>1, RunBecomes
<1> QED BY <1>1, <1>2 DEF Stop

------------------------------------------------------------------------------
(* One run at a time *)

Recorded == IF attrs = Absent THEN {} ELSE attrs.completed

\* A run at work knows of every recorded level, so that the next record takes
\* none away; one that is done has its ladder recorded.
Ahead(t) ==
  /\ t.pc \in Busy => Recorded \subseteq t.meta.completed
  /\ t.pc = "done" => LadderOf(t) \subseteq Recorded

\* A tile request plans with levels it can read.
Planned(t) ==
  /\ t.pc # "failed"
  /\ t.pc = "merge" => t.levels \subseteq Embedded[First]
  /\ t.pc = "plan" => t.levels \subseteq Embedded[First] \cup Recorded
  /\ t.pc = "fetch" => LevelWhole(DOMAIN chunks, t.via.grid, t.factor)

OneAtWork == \A r, q \in Runs : Active(r) /\ Active(q) => r = q

AloneInv ==
  /\ swaps = 0 /\ asset = First
  /\ OneAtWork
  /\ \A r \in Runs : Ahead(run[r])
  /\ \A d \in Readers : Planned(reader[d])

------------------------------------------------------------------------------
(* Runs that overlap *)

\* Levels of a ladder from the lowest up to some level.
Downward(levels) ==
  \A f \in levels : /\ f \in Powers \ Embedded[First]
                    /\ \A g \in Powers \ Embedded[First] : g < f => g \in levels

\* What a run of any of the specifications, on its own, puts in level f.
AsFresh(specs, f, content) ==
  \A spec \in specs :
    f \in Ladder(Grid[First], Embedded[First], spec.minDim) => content = FreshContent(First, spec)[f]

\* A run builds the lowest level that is left of a ladder it has built from
\* below, and its strip is what a run on its own would have read.
FreshRun(specs, t) ==
  /\ t.pc \in Busy \cup {"load"} => t.info = First /\ t.spec \in specs
  /\ t.pc \in Busy =>
       /\ RowIn(t) /\ Downward(t.meta.completed)
       /\ \A f \in LadderOf(t) \ t.meta.completed : t.factor <= f
  /\ t.pc = "fetch" =>
       /\ t.via.grid = Grid[First]
       /\ BaseOf(t) \in t.via.completed /\ Downward(t.via.completed)
  /\ t.pc = "put" => AsFresh(specs, t.factor, [by |-> t.spec.resampling, from |-> t.strip])

FreshInv(specs) ==
  /\ asset = First
  /\ attrs # Absent => attrs.grid = Grid[First] /\ Downward(attrs.completed)
  /\ \A k \in DOMAIN chunks : AsFresh(specs, k[1], chunks[k])
  /\ \A r \in Runs : FreshRun(specs, run[r])

------------------------------------------------------------------------------
(* Proof for one run at a time *)

LEMMA BusyIsActive == \A r \in Runs : run[r].pc \in Busy \cup {"load"} => Active(r)
  BY DEF Busy, Active

\* What is recorded is only added to, and objects are.
RecordsGrow ==
  /\ Recorded \subseteq Recorded' /\ DOMAIN chunks \subseteq DOMAIN chunks'
  /\ UNCHANGED <<reader, asset, swaps>>

LEMMA PlannedStays ==
  ASSUME NEW t, RecordsGrow, Planned(t)
  PROVE  /\ t.pc # "failed"
         /\ t.pc = "merge" => t.levels \subseteq Embedded[First]
         /\ t.pc = "plan" => t.levels \subseteq Embedded[First] \cup Recorded'
         /\ t.pc = "fetch" => LevelWhole(DOMAIN chunks', t.via.grid, t.factor)
  BY DEF RecordsGrow, Planned, LevelWhole, RowWhole

\* A run that is alone at work keeps the invariant if it stays ahead.
LEMMA AloneRun ==
  ASSUME AloneInv, RecordsGrow, OneAtWork', NEW r \in Runs,
         \A q \in Runs \ {r} : run'[q] = run[q],
         run[r].pc \in Busy \cup {"load"} \/ Recorded' = Recorded,
         Ahead(run[r])' 
  PROVE  AloneInv'
<1>1. ASSUME NEW q \in Runs PROVE Ahead(run[q])'
  <2>1. Ahead(run[q])
    BY DEF AloneInv
  <2>2. CASE q # r
    <3>1. run'[q] = run[q]
      BY <2>2
    <3>2. run[q].pc \in Busy => Recorded' = Recorded
      BY <2>2, BusyIsActive DEF AloneInv, OneAtWork
    <3>3. LadderOf(run[q]) = LadderOf(run'[q])
      BY <3>1
    <3> QED BY <2>1, <3>1, <3>2, <3>3 DEF Ahead, RecordsGrow, LadderOf
  <2> QED BY <2>2
<1>2. ASSUME NEW d \in Readers PROVE Planned(reader[d])'
  <2>1. Planned(reader[d]) /\ reader'[d] = reader[d]
    BY DEF AloneInv, RecordsGrow
  <2> QED BY <2>1, PlannedStays DEF Planned
<1> QED BY <1>1, <1>2 DEF AloneInv, RecordsGrow

LEMMA AheadNext ==
  ASSUME NEW t, RunShape(t), NEW meta, Recorded' \subseteq meta.completed,
         meta.completed = {} \/ Recorded' = meta.completed,
         NEW r \in Runs, run'[r] = NextLevel(t, meta)
  PROVE  Ahead(run[r])'
<1> DEFINE u == NextLevel(t, meta)
<1>1. /\ u.spec = t.spec /\ u.info = t.info /\ u.meta = meta
      /\ u.pc \in {"done", "probe"}
      /\ u.pc = "done" => LadderOf(t) \ meta.completed = {}
  BY NextLevelEffect
<1>2. LadderOf(u) = LadderOf(t)
  BY <1>1 DEF LadderOf
<1> HIDE DEF u
<1>3. u.pc = "done" => LadderOf(u) \subseteq Recorded'
  BY <1>1, <1>2
<1>4. run'[r] = u
  BY DEF u
<1> QED BY <1>1, <1>3, <1>4 DEF Ahead, LadderOf

LEMMA AloneRunStep ==
  ASSUME TypeInv, WritersInv, AloneInv, OneAtWork', NEW r \in Runs,
         Start(r) \/ Work(r) \/ Stop(r)
  PROVE  AloneInv'
<1> DEFINE t == run[r]
<1>0. RunShape(t) /\ Ahead(t)
  BY DEF TypeInv, RunType, AloneInv
<1>1. CASE Start(r)
  <2>1. Recorded' = Recorded /\ RecordsGrow
    BY <1>1, StartEffect DEF Recorded, RecordsGrow
  <2>2. Ahead(run[r])'
    BY <1>1, StartEffect DEF Ahead, Busy
  <2> QED BY <1>1, <2>1, <2>2, StartEffect, AloneRun
<1>2. CASE Stop(r)
  <2>1. Recorded' = Recorded /\ RecordsGrow
    BY <1>2, StopEffect DEF Recorded, RecordsGrow
  <2>2. Ahead(run[r])'
    BY <1>2, StopEffect DEF Ahead, Busy
  <2> QED BY <1>2, <2>1, <2>2, StopEffect, AloneRun
<1>3. CASE Load(r)
  <2>1. Recorded' = Recorded /\ RecordsGrow
    BY <1>3, LoadEffect DEF Recorded, RecordsGrow
  <2>2. CASE run'[r].pc = "conflict"
    <3>1. Ahead(run[r])'
      BY <2>2 DEF Ahead, Busy
    <3> QED BY <1>3, <2>1, <3>1, LoadEffect, AloneRun
  <2>3. ASSUME NEW meta, run'[r] = NextLevel(run[r], meta),
               \/ attrs # Absent /\ meta = attrs
               \/ attrs = Absent /\ meta.completed = {}
        PROVE  AloneInv'
    <3>1. Recorded' = meta.completed
      BY <2>1, <2>3 DEF Recorded
    <3>2. Ahead(run[r])'
      BY <1>0, <2>3, <3>1, AheadNext
    <3> QED BY <1>3, <2>1, <3>2, LoadEffect, AloneRun
  <2> QED BY <1>3, <2>2, <2>3, LoadEffect
<1>4. CASE Probe(r) \/ ReadStrip(r) \/ FetchStrip(r) \/ PutChunk(r)
  <2>0. t.pc \in Busy
    BY <1>4, ReadStripEffect, FetchStripEffect DEF Probe, PutChunk, Busy
  <2>2. /\ Continues(t, run'[r]) /\ run'[r].pc # "done"
        /\ \A q \in Runs \ {r} : run'[q] = run[q]
        /\ UNCHANGED <<asset, attrs, reader, swaps>> /\ DOMAIN chunks \subseteq DOMAIN chunks'
    <3>1. CASE Probe(r)
      BY <3>1, ProbeEffect
    <3>2. CASE ReadStrip(r)
      BY <3>2, ReadStripEffect
    <3>3. CASE FetchStrip(r)
      BY <3>3, FetchStripEffect
    <3>4. CASE PutChunk(r)
      BY <3>4, PutChunkEffect
    <3> QED BY <1>4, <3>1, <3>2, <3>3, <3>4
  <2>3. Recorded' = Recorded /\ RecordsGrow
    BY <2>2 DEF Recorded, RecordsGrow
  <2>4. Ahead(run[r])'
    BY <1>0, <2>0, <2>2, <2>3 DEF Ahead, Continues
  <2> QED BY <2>2, <2>3, <2>4, AloneRun
<1>5. CASE Record(r)
  <2>1. /\ t.pc = "record" /\ run'[r] = NextLevel(t, attrs') /\ attrs' \in Documents
        /\ attrs'.completed = t.meta.completed \cup {t.factor}
        /\ \A q \in Runs \ {r} : run'[q] = run[q]
        /\ UNCHANGED <<asset, chunks, reader, swaps>>
    BY <1>5, RecordEffect
  <2>2. attrs' # Absent
    BY <2>1, AbsentAssumption DEF Documents
  <2>3. Recorded' = attrs'.completed /\ RecordsGrow
    BY <1>0, <2>1, <2>2 DEF Recorded, RecordsGrow, Ahead, Busy
  <2>4. Ahead(run[r])'
    BY <1>0, <2>1, <2>3, AheadNext
  <2>5. t.pc \in Busy
    BY <2>1 DEF Busy
  <2> QED BY <2>1, <2>3, <2>4, <2>5, AloneRun
<1> QED BY <1>1, <1>2, <1>3, <1>4, <1>5 DEF Work

\* A tile request keeps the invariant if it plans with what it can read.
LEMMA AloneReader ==
  ASSUME TypeInv, AloneInv, NEW d \in Readers, NEW u, Planned(u),
         reader' = [reader EXCEPT ![d] = u],
         UNCHANGED <<asset, chunks, attrs, run, swaps>>
  PROVE  AloneInv'
<1>1. reader = [e \in Readers |-> reader[e]]
  BY DEF TypeInv
<1>2. reader'[d] = u /\ \A e \in Readers \ {d} : reader'[e] = reader[e]
  BY <1>1
<1>3. Recorded' = Recorded
  BY DEF Recorded
<1>4. ASSUME NEW e \in Readers PROVE Planned(reader[e])'
  <2>1. Planned(reader'[e])
    BY <1>2 DEF AloneInv
  <2> QED BY <1>3, <2>1 DEF Planned
<1>5. \A r \in Runs : Ahead(run[r])'
  BY <1>3 DEF AloneInv, Ahead, LadderOf
<1>6. OneAtWork'
  BY DEF AloneInv, OneAtWork, Active
<1> QED BY <1>4, <1>5, <1>6 DEF AloneInv

LEMMA AloneReaderStep ==
  ASSUME TypeInv, WritersInv, AloneInv, NEW d \in Readers, Serve(d)
  PROVE  AloneInv'
<1> DEFINE t == reader[d]
<1>1. ReaderShape(t) /\ Planned(t)
  BY DEF TypeInv, ReaderType, AloneInv
<1>2. CASE Describe(d)
  <2> DEFINE u == [IdleReader EXCEPT !.pc = "merge", !.info = asset, !.levels = Embedded[asset]]
  <2>1. u.pc = "merge" /\ u.levels = Embedded[asset]
    BY DEF IdleReader
  <2>2. reader' = [reader EXCEPT ![d] = u] /\ UNCHANGED <<asset, chunks, attrs, run, swaps>>
    BY <1>2 DEF Describe
  <2> HIDE DEF u
  <2>3. Planned(u)
    BY <2>1 DEF Planned, AloneInv
  <2> QED BY <2>2, <2>3, AloneReader
<1>3. CASE Advertise(d)
  <2> DEFINE levels == IF attrs # Absent /\ Matches(attrs, t.info)
                       THEN t.levels \cup attrs.completed ELSE t.levels
             u == [t EXCEPT !.pc = "plan", !.levels = levels]
  <2>1. t.pc = "merge" /\ UNCHANGED <<asset, chunks, attrs, run, swaps>>
    BY <1>3 DEF Advertise
  <2>2. levels \subseteq Embedded[First] \cup Recorded
    BY <1>1, <2>1 DEF Planned, Recorded
  <2>3. reader' = [reader EXCEPT ![d] = u]
    <3>1. reader = [e \in Readers |-> reader[e]]
      BY DEF TypeInv
    <3>2. reader' = [reader EXCEPT ![d].pc = "plan", ![d].levels = levels]
      BY <1>3 DEF Advertise
    <3> HIDE DEF levels
    <3> QED BY <1>1, <3>1, <3>2 DEF ReaderShape
  <2> HIDE DEF levels
  <2>4. u.pc = "plan" /\ u.levels = levels
    BY <1>1 DEF ReaderShape
  <2> HIDE DEF u
  <2>5. Planned(u)
    BY <2>2, <2>4 DEF Planned
  <2> QED BY <2>1, <2>3, <2>5, AloneReader
<1>4. CASE ReadLevel(d)
  <2>1. t.pc = "plan" /\ UNCHANGED <<asset, chunks, attrs, run, swaps>>
    BY <1>4 DEF ReadLevel
  <2>2. PICK f \in t.levels \cup {1} :
          LET s == [t EXCEPT !.factor = f]
          IN reader' = [reader EXCEPT ![d] =
               IF f # 1 /\ attrs # Absent /\ f \in attrs.completed
               THEN [s EXCEPT !.pc = "fetch", !.via = attrs]
               ELSE IF InnerHas(f) THEN [s EXCEPT !.pc = "got", !.got = InnerRead(f)]
               ELSE [s EXCEPT !.pc = "failed"]]
    BY <1>4 DEF ReadLevel
  <2> DEFINE s == [t EXCEPT !.factor = f]
             fetch == [s EXCEPT !.pc = "fetch", !.via = attrs]
             got == [s EXCEPT !.pc = "got", !.got = InnerRead(f)]
             failed == [s EXCEPT !.pc = "failed"]
             listed == f # 1 /\ attrs # Absent /\ f \in attrs.completed
  <2>3. listed \/ InnerHas(f)
    BY <1>1, <2>1 DEF Planned, Recorded, InnerHas, AloneInv
  <2>4. /\ listed => reader' = [reader EXCEPT ![d] = fetch]
        /\ ~listed => reader' = [reader EXCEPT ![d] = got]
    BY <2>2, <2>3
  <2>5. fetch.pc = "fetch" /\ fetch.factor = f /\ fetch.via = attrs /\ got.pc = "got"
    BY <1>1 DEF ReaderShape
  <2> HIDE DEF fetch, got
  <2>6. Planned(got)
    BY <2>5 DEF Planned
  <2>7. listed => Planned(fetch)
    BY <2>5 DEF Planned, WritersInv, CompletedIsWhole
  <2> QED BY <2>1, <2>4, <2>6, <2>7, AloneReader
<1>5. CASE FetchChunk(d)
  <2>1. t.pc = "fetch" /\ UNCHANGED <<asset, chunks, attrs, run, swaps>>
    BY <1>5 DEF FetchChunk
  <2>2. PICK y \in 0..(Rows(t.via.grid, t.factor) - 1), x \in 0..(Cols(t.via.grid, t.factor) - 1) :
          reader' = [reader EXCEPT ![d] =
            IF <<t.factor, y, x>> \in DOMAIN chunks
            THEN [t EXCEPT !.pc = "got", !.got = {chunks[<<t.factor, y, x>>]}]
            ELSE [t EXCEPT !.pc = "failed"]]
    BY <1>5 DEF FetchChunk
  <2>3. <<t.factor, y, x>> \in DOMAIN chunks
    BY <1>1, <2>1 DEF Planned, LevelWhole, RowWhole
  <2> DEFINE u == [t EXCEPT !.pc = "got", !.got = {chunks[<<t.factor, y, x>>]}]
  <2>4. reader' = [reader EXCEPT ![d] = u]
    BY <2>2, <2>3
  <2>5. u.pc = "got"
    BY <1>1 DEF ReaderShape
  <2> HIDE DEF u
  <2>6. Planned(u)
    BY <2>5 DEF Planned
  <2> QED BY <2>1, <2>4, <2>6, AloneReader
<1> QED BY <1>2, <1>3, <1>4, <1>5 DEF Serve

------------------------------------------------------------------------------
(* Proof for runs that overlap *)

Alike(specs) ==
  /\ \A spec \in specs : spec.minDim \in Nat
  /\ \A spec, other \in specs : spec.resampling = other.resampling

LadderFor(spec) == Ladder(Grid[First], Embedded[First], spec.minDim)

\* What is below the level a run builds is recorded in its document.
LEMMA BelowIsCompleted ==
  ASSUME NEW specs, Alike(specs), NEW t, RunType(t), t.pc \in Busy, FreshRun(specs, t)
  PROVE  /\ t.factor \in LadderFor(t.spec) /\ t.factor \in Powers \ Embedded[First]
         /\ \A g \in Powers \ Embedded[First] : g < t.factor => g \in t.meta.completed
<1>1. t.info = First /\ t.spec.minDim \in Nat /\ t.factor \in LadderOf(t)
  BY DEF FreshRun, Alike, RunType, Busy
<1>2. LadderOf(t) = LadderFor(t.spec)
  BY <1>1 DEF LadderOf, LadderFor
<1>3. t.factor \in Powers \ Embedded[First]
  BY <1>1, <1>2 DEF LadderFor, Ladder
<1>4. ASSUME NEW g \in Powers \ Embedded[First], g < t.factor
      PROVE  g \in t.meta.completed
  <2>1. g \in LadderFor(t.spec)
    BY <1>1, <1>2, <1>4, FirstHasAGrid, LadderDownward DEF LadderFor
  <2>2. g \notin t.meta.completed => t.factor <= g
    BY <1>2, <2>1 DEF FreshRun
  <2>3. g \in Nat /\ t.factor \in Nat
    BY <1>3, PowersPositive
  <2> QED BY <1>4, <2>2, <2>3
<1> QED BY <1>1, <1>2, <1>3, <1>4

\* So it decimates what a run on its own would.
LEMMA BaseOfIs ==
  ASSUME NEW specs, Alike(specs), NEW t, RunType(t), t.pc \in Busy, FreshRun(specs, t)
  PROVE  BaseOf(t) = Greatest(Bases(t.factor))
<1> DEFINE f == t.factor
           here == {1} \cup {s \in Embedded[First] \cup t.meta.completed : s < f /\ f % s = 0}
<1>1. t.info = First /\ Downward(t.meta.completed)
  BY DEF FreshRun, Busy
<1>2. \A g \in Powers \ Embedded[First] : g < f => g \in t.meta.completed
  BY BelowIsCompleted
<1>3. \A g \in t.meta.completed : g \in Powers
  BY <1>1 DEF Downward
<1>4. here = Bases(f)
  BY <1>2, <1>3 DEF Bases
<1>5. BaseOf(t) = Greatest(here)
  BY <1>1 DEF BaseOf, Base
<1> QED BY <1>4, <1>5

\* What a run on its own puts in a level of its ladder.
LEMMA FreshLevel ==
  ASSUME NEW spec, spec.minDim \in Nat, NEW f \in LadderFor(spec), NEW b, b = Greatest(Bases(f))
  PROVE  FreshContent(First, spec)[f] =
           [by |-> spec.resampling,
            from |-> IF b = 1 \/ b \in Embedded[First]
                     THEN {[version |-> First, factor |-> b]} ELSE {FreshContent(First, spec)[b]}]
<1>1. f \in Powers
  BY DEF LadderFor, Ladder
<1>2. FreshBase(First, spec, f) = b
  BY FreshBaseIs DEF LadderFor
<1>3. FreshContent(First, spec)[f] = FreshChunk(First, spec, f, FreshContent(First, spec))
  BY <1>1, FreshContentUnfolds
<1> QED BY <1>2, <1>3 DEF FreshChunk

\* Read from the asset.
LEMMA InnerStripIsFresh ==
  ASSUME NEW specs, Alike(specs), NEW t, RunType(t), t.pc \in Busy, FreshRun(specs, t),
         asset = First, InnerHas(BaseOf(t))
  PROVE  AsFresh(specs, t.factor, [by |-> t.spec.resampling, from |-> InnerRead(BaseOf(t))])
<1> DEFINE b == BaseOf(t)
<1>1. b = Greatest(Bases(t.factor)) /\ (b = 1 \/ b \in Embedded[First])
  BY BaseOfIs DEF InnerHas
<1>2. InnerRead(b) = {[version |-> First, factor |-> b]}
  BY DEF InnerRead
<1>3. t.spec \in specs
  BY DEF FreshRun
<1> HIDE DEF b
<1>4. ASSUME NEW spec \in specs, t.factor \in LadderFor(spec)
      PROVE  [by |-> t.spec.resampling, from |-> InnerRead(b)] = FreshContent(First, spec)[t.factor]
  <2>1. spec.minDim \in Nat /\ spec.resampling = t.spec.resampling
    BY <1>3 DEF Alike
  <2> QED BY <1>1, <1>2, <1>4, <2>1, FreshLevel
<1> QED BY <1>4 DEF AsFresh, LadderFor, b

LEMMA BaseRowsFrom ==
  ASSUME NEW grid, NEW base, NEW q \in Nat, NEW y \in Nat
  PROVE  BaseRows(grid, base, q, y) = (y * q)..(y * q + q - 1) \cap 0..(Rows(grid, base) - 1)
<1>1. (y + 1) * q = y * q + q
  BY TimesNext
<1>2. BaseRows(grid, base, q, y) = (y * q)..((y + 1) * q - 1) \cap 0..(Rows(grid, base) - 1)
  BY DEF BaseRows
<1> DEFINE above == (y + 1) * q
<1>3. above = y * q + q
  BY <1>1
<1>4. BaseRows(grid, base, q, y) = (y * q)..(above - 1) \cap 0..(Rows(grid, base) - 1)
  BY <1>2
<1> HIDE DEF above
<1> QED BY <1>3, <1>4

\* Read from the chunks of a recorded level.
LEMMA ChunkStripIsFresh ==
  ASSUME NEW specs, Alike(specs), NEW t, RunType(t), t.pc = "fetch", FreshRun(specs, t),
         \A k \in DOMAIN chunks : AsFresh(specs, k[1], chunks[k]),
         Under(t) \subseteq DOMAIN chunks
  PROVE  AsFresh(specs, t.factor, [by |-> t.spec.resampling, from |-> {chunks[k] : k \in Under(t)}])
<1> DEFINE b == BaseOf(t)
           f == t.factor
           q == f \div b
           grid == Grid[First]
<1>0. t.pc \in Busy
  BY DEF Busy
<1>1. b = Greatest(Bases(f)) /\ f \in Powers
  BY <1>0, BaseOfIs, BelowIsCompleted
<1>2. b \in Powers \ Embedded[First] /\ t.via.grid = grid /\ t.info = First /\ t.spec \in specs
  <2>1. b \in t.via.completed /\ Downward(t.via.completed) /\ t.via.grid = grid
    BY DEF FreshRun
  <2>2. t.info = First /\ t.spec \in specs
    BY <1>0 DEF FreshRun
  <2> QED BY <2>1, <2>2 DEF Downward
<1>3. b \in Nat \ {0} /\ b < f /\ f % b = 0 /\ f \in Nat \ {0} /\ b # 1
  <2>1. b \in Nat \ {0} /\ b < f /\ f % b = 0
    BY <1>1, GreatestBase
  <2>2. f \in Nat \ {0} /\ b >= 2
    BY <1>1, <1>2, PowersPositive, PowersFromTwo
  <2> QED BY <2>1, <2>2
<1> HIDE DEF b
<1>4. q \in Nat \ {0} /\ f = b * q
  <2>1. q \in Nat /\ q * b <= f /\ f < q * b + b
    BY <1>3, DivBounds
  <2>2. f = q * b
    BY <1>3
  <2>3. q # 0
    <3>1. q = 0 => q * b = 0
      BY <1>3
    <3> QED BY <1>3, <2>2, <3>1
  <2>4. q * b = b * q
    BY <1>3, <2>1
  <2> QED BY <2>1, <2>2, <2>3, <2>4
<1>5. t.row \in Nat /\ t.row < Rows(grid, f)
  BY <1>0, <1>2 DEF FreshRun, RowIn, Busy
<1>6. grid \in [width : Nat, height : Nat, dtype : STRING]
  BY FirstHasAGrid
<1>7. t.row * q < Rows(grid, b) /\ t.row * q \in Nat /\ t.row * q + q \in Nat
  <2>1. b \in Nat \ {0} /\ q \in Nat \ {0} /\ t.row < Rows(grid, b * q)
    BY <1>3, <1>4, <1>5
  <2>2. t.row * q < Rows(grid, b)
    BY <1>5, <1>6, <2>1, BaseRowsMeet
  <2>3. t.row * q \in Nat
    BY <1>5, <2>1
  <2> QED BY <2>1, <2>2, <2>3
<1>8. t.row * q \in BaseRows(grid, b, q, t.row)
  <2>2. Rows(grid, b) \in Nat
    BY <1>3, <1>6, ShapeNat
  <2> DEFINE n == t.row * q
  <2>3. n \in n..(n + q - 1) /\ n \in 0..(Rows(grid, b) - 1)
    <3>1. n \in Nat /\ n < Rows(grid, b) /\ q \in Nat \ {0}
      BY <1>4, <1>7
    <3> HIDE DEF n, q
    <3>2. \A last \in Nat : n < last => n \in 0..(last - 1)
      BY <3>1
    <3>3. n \in n..(n + q - 1)
      BY <3>1
    <3>4. n \in 0..(Rows(grid, b) - 1)
      BY <2>2, <3>1, <3>2, Zenon
    <3> QED BY <3>3, <3>4, Zenon
  <2>4. BaseRows(grid, b, q, t.row) = n..(n + q - 1) \cap 0..(Rows(grid, b) - 1)
    BY <1>4, <1>5, BaseRowsFrom
  <2> QED BY <2>3, <2>4, Zenon
<1>9. 0 \in 0..(Cols(grid, b) - 1)
  <2>1. grid.width # 0 /\ grid.height # 0
    BY <1>0, BelowIsCompleted DEF LadderFor, Ladder
  <2>2. Cols(grid, b) > 0 /\ Cols(grid, b) \in Nat
    BY <1>3, <1>6, <2>1, LevelHasChunks, ShapeNat
  <2> QED BY <2>2
<1>10. Under(t) = {<<b, y, x>> : y \in BaseRows(grid, b, q, t.row), x \in 0..(Cols(grid, b) - 1)}
  BY <1>2 DEF Under, b
<1>11. Under(t) # {} /\ \A k \in Under(t) : k[1] = b
  <2>1. <<b, t.row * q, 0>> \in Under(t)
    BY <1>8, <1>9, <1>10
  <2>2. \A k \in Under(t) : \E y, x : k = <<b, y, x>>
    BY <1>10
  <2> QED BY <2>1, <2>2
<1>12. ASSUME NEW spec \in specs, f \in LadderFor(spec)
       PROVE  [by |-> t.spec.resampling, from |-> {chunks[k] : k \in Under(t)}] = FreshContent(First, spec)[f]
  <2>1. spec.minDim \in Nat /\ spec.resampling = t.spec.resampling
    BY <1>2 DEF Alike
  <2>2. b \in LadderFor(spec)
    BY <1>2, <1>3, <1>12, <2>1, FirstHasAGrid, LadderDownward DEF LadderFor
  <2>3. \A k \in Under(t) : chunks[k] = FreshContent(First, spec)[b]
    BY <1>11, <2>2 DEF AsFresh, LadderFor
  <2>4. {chunks[k] : k \in Under(t)} = {FreshContent(First, spec)[b]}
    BY <1>11, <2>3
  <2> QED BY <1>1, <1>2, <1>3, <1>12, <2>1, <2>4, FreshLevel
<1> QED BY <1>12 DEF AsFresh, LadderFor

\* A level that is begun is the lowest one left, in its first row.
LEMMA BegunIsFresh ==
  ASSUME NEW specs, Alike(specs), NEW t, RunShape(t), t.info = First, t.spec \in specs,
         NEW meta, Downward(meta.completed)
  PROVE  FreshRun(specs, NextLevel(t, meta))
<1> DEFINE u == NextLevel(t, meta)
           left == LadderOf(t) \ meta.completed
<1>1. /\ u.spec = t.spec /\ u.info = t.info /\ u.meta = meta
      /\ \/ u.pc = "done" /\ left = {}
         \/ /\ u.pc = "probe" /\ u.row = 0
            /\ u.factor \in left /\ \A f \in left : u.factor <= f
  BY NextLevelEffect
<1>2. LadderOf(u) = LadderOf(t)
  BY <1>1 DEF LadderOf
<1> HIDE DEF u
<1>3. CASE u.pc = "done"
  BY <1>3 DEF FreshRun, Busy, u
<1>4. CASE u.pc # "done"
  <2>1. u.factor \in LadderFor(t.spec)
    BY <1>1, <1>4 DEF LadderOf, LadderFor
  <2>2. u.factor \in Nat \ {0} /\ Grid[First].width # 0 /\ Grid[First].height # 0
    BY <2>1, LadderPositive DEF LadderFor, Ladder
  <2>3. 0 < Rows(Grid[First], u.factor)
    BY <2>2, FirstHasAGrid, LevelHasChunks, ShapeNat
  <2>4. RowIn(u)
    BY <1>1, <1>4, <2>3 DEF RowIn
  <2>5. \A f \in LadderOf(u) \ u.meta.completed : u.factor <= f
    BY <1>1, <1>2, <1>4
  <2> QED BY <1>1, <1>4, <2>4, <2>5 DEF FreshRun, u
<1> QED BY <1>3, <1>4

\* A step of one run that leaves it, the record and the chunks as they would
\* be of a run on its own.
LEMMA FreshKept ==
  ASSUME NEW specs, FreshInv(specs), NEW r \in Runs, FreshRun(specs, run'[r]),
         \A q \in Runs \ {r} : run'[q] = run[q], asset' = asset,
         attrs' # Absent => attrs'.grid = Grid[First] /\ Downward(attrs'.completed),
         \A k \in DOMAIN chunks' : AsFresh(specs, k[1], chunks'[k])
  PROVE  FreshInv(specs)'
<1>1. ASSUME NEW q \in Runs PROVE FreshRun(specs, run'[q])
  BY DEF FreshInv
<1> QED BY <1>1 DEF FreshInv

LEMMA FreshRunStep ==
  ASSUME NEW specs, Alike(specs), TypeInv, WritersInv, FreshInv(specs),
         NEW r \in Runs, run'[r].pc = "load" => run'[r].spec \in specs,
         Start(r) \/ Work(r) \/ Stop(r)
  PROVE  FreshInv(specs)'
<1> DEFINE t == run[r]
           u == run'[r]
<1>0. /\ RunType(t) /\ RunShape(t) /\ FreshRun(specs, t) /\ Building(t, DOMAIN chunks)
      /\ asset = First
      /\ attrs # Absent => attrs.grid = Grid[First] /\ Downward(attrs.completed)
      /\ \A k \in DOMAIN chunks : AsFresh(specs, k[1], chunks[k])
  BY DEF TypeInv, RunType, FreshInv, WritersInv
<1>1. CASE Start(r)
  <2>1. FreshRun(specs, u)
    BY <1>0, <1>1, StartEffect DEF FreshRun, Busy
  <2> QED BY <1>0, <1>1, <2>1, StartEffect, FreshKept
<1>2. CASE Stop(r)
  <2>1. FreshRun(specs, u)
    BY <1>2, StopEffect DEF FreshRun, Busy
  <2> QED BY <1>0, <1>2, <2>1, StopEffect, FreshKept
<1>3. CASE Load(r)
  <2>1. t.info = First /\ t.spec \in specs
    BY <1>0, <1>3, LoadEffect DEF FreshRun
  <2>2. ASSUME NEW meta, u = NextLevel(t, meta),
               \/ attrs # Absent /\ meta = attrs
               \/ attrs = Absent /\ meta.completed = {}
        PROVE  FreshRun(specs, u)
    <3>1. Downward(meta.completed)
      BY <1>0, <2>2 DEF Downward
    <3> QED BY <1>0, <2>1, <2>2, <3>1, BegunIsFresh
  <2>3. u.pc = "conflict" => FreshRun(specs, u)
    BY DEF FreshRun, Busy
  <2>4. FreshRun(specs, u)
    BY <1>3, <2>2, <2>3, LoadEffect
  <2> QED BY <1>0, <1>3, <2>4, LoadEffect, FreshKept
<1>4. CASE Probe(r)
  <2>1. /\ t.pc = "probe" /\ u.pc \in {"probe", "read", "record"}
        /\ Continues(t, u) /\ (RowIn(t) => RowIn(u))
    BY <1>4, ProbeEffect
  <2>2. LadderOf(u) = LadderOf(t)
    BY <2>1 DEF Continues, LadderOf
  <2>3. FreshRun(specs, u)
    BY <1>0, <2>1, <2>2 DEF FreshRun, Continues, Busy
  <2> QED BY <1>0, <1>4, <2>3, ProbeEffect, FreshKept
<1>5. CASE ReadStrip(r)
  <2>1. /\ t.pc = "read" /\ Continues(t, u) /\ u.row = t.row
        /\ \/ u.pc = "fetch" /\ attrs # Absent /\ u.via = attrs /\ BaseOf(t) \in attrs.completed
           \/ u.pc = "put" /\ InnerHas(BaseOf(t)) /\ u.strip = InnerRead(BaseOf(t))
           \/ u.pc = "failed"
    BY <1>5, ReadStripEffect
  <2>2. LadderOf(u) = LadderOf(t) /\ BaseOf(u) = BaseOf(t)
    BY <2>1 DEF Continues, LadderOf, BaseOf
  <2>3. u.pc \in Busy => RowIn(u)
    BY <1>0, <2>1 DEF FreshRun, Continues, RowIn, Busy
  <2>4. t.pc \in Busy
    BY <2>1 DEF Busy
  <2>5. u.pc = "put" => AsFresh(specs, u.factor, [by |-> u.spec.resampling, from |-> u.strip])
    BY <1>0, <2>1, <2>4, InnerStripIsFresh DEF Continues
  <2>6. u.pc = "fetch" =>
          /\ u.via.grid = Grid[First]
          /\ BaseOf(u) \in u.via.completed /\ Downward(u.via.completed)
    BY <1>0, <2>1, <2>2
  <2>7. FreshRun(specs, u)
    BY <1>0, <2>1, <2>2, <2>3, <2>4, <2>5, <2>6 DEF FreshRun, Continues
  <2> QED BY <1>0, <1>5, <2>7, ReadStripEffect, FreshKept
<1>6. CASE FetchStrip(r)
  <2>1. /\ t.pc = "fetch" /\ Continues(t, u) /\ u.row = t.row
        /\ \/ /\ u.pc = "put" /\ Under(t) \subseteq DOMAIN chunks
              /\ u.strip = {chunks[k] : k \in Under(t)}
           \/ u.pc = "failed"
    BY <1>6, FetchStripEffect
  <2>2. LadderOf(u) = LadderOf(t)
    BY <2>1 DEF Continues, LadderOf
  <2>3. u.pc \in Busy => RowIn(u)
    BY <1>0, <2>1 DEF FreshRun, Continues, RowIn, Busy
  <2>4. t.pc \in Busy
    BY <2>1 DEF Busy
  <2>5. u.pc = "put" => AsFresh(specs, u.factor, [by |-> u.spec.resampling, from |-> u.strip])
    BY <1>0, <2>1, ChunkStripIsFresh DEF Continues
  <2>6. FreshRun(specs, u)
    BY <1>0, <2>1, <2>2, <2>3, <2>4, <2>5 DEF FreshRun, Continues
  <2> QED BY <1>0, <1>6, <2>6, FetchStripEffect, FreshKept
<1>7. CASE PutChunk(r)
  <2>1. /\ t.pc = "put" /\ Continues(t, u) /\ u.pc \in {"put", "probe", "record"}
        /\ RowIn(t) => RowIn(u)
        /\ u.pc = "put" => u.strip = t.strip
    BY <1>7, PutChunkEffect
  <2>2. LadderOf(u) = LadderOf(t)
    BY <2>1 DEF Continues, LadderOf
  <2>3. t.pc \in Busy /\ AsFresh(specs, t.factor, [by |-> t.spec.resampling, from |-> t.strip])
    BY <1>0, <2>1 DEF FreshRun, Busy
  <2>4. FreshRun(specs, u)
    BY <1>0, <2>1, <2>2, <2>3 DEF FreshRun, Continues
  <2>5. PICK x : /\ DOMAIN chunks' = DOMAIN chunks \cup {<<t.factor, t.row, x>>}
                 /\ \A k \in DOMAIN chunks' :
                      chunks'[k] = IF k = <<t.factor, t.row, x>>
                                   THEN [by |-> t.spec.resampling, from |-> t.strip]
                                   ELSE chunks[k]
    BY <1>7, PutChunkEffect
  <2>6. \A k \in DOMAIN chunks' : AsFresh(specs, k[1], chunks'[k])
    BY <1>0, <2>3, <2>5
  <2> QED BY <1>0, <1>7, <2>4, <2>6, PutChunkEffect, FreshKept
<1>8. CASE Record(r)
  <2>1. /\ t.pc = "record" /\ u = NextLevel(t, attrs')
        /\ attrs'.grid = t.meta.grid /\ attrs'.completed = t.meta.completed \cup {t.factor}
    BY <1>8, RecordEffect
  <2>2. t.pc \in Busy
    BY <2>1 DEF Busy
  <2>3. t.info = First /\ t.spec \in specs /\ Downward(t.meta.completed) /\ t.meta.grid = Grid[First]
    BY <1>0, <2>1, <2>2 DEF FreshRun, Building, Busy
  <2>4. Downward(attrs'.completed)
    BY <1>0, <2>1, <2>2, <2>3, BelowIsCompleted DEF Downward
  <2>5. FreshRun(specs, u)
    <3>1. FreshRun(specs, NextLevel(t, attrs'))
      BY <1>0, <2>3, <2>4, BegunIsFresh
    <3> QED BY <2>1, <3>1
  <2> QED BY <1>0, <1>8, <2>1, <2>3, <2>4, <2>5, RecordEffect, FreshKept
<1> QED BY <1>1, <1>2, <1>3, <1>4, <1>5, <1>6, <1>7, <1>8 DEF Work

\* The readers touch nothing of it.
LEMMA FreshStep ==
  ASSUME NEW specs, Alike(specs), TypeInv, WritersInv, FreshInv(specs), Next, swaps' = swaps,
         \A r \in Runs : Active(r)' => run'[r].spec \in specs
  PROVE  FreshInv(specs)'
<1>1. ASSUME NEW r \in Runs, Start(r) \/ Work(r) \/ Stop(r) PROVE FreshInv(specs)'
  <2>1. run'[r].pc = "load" => run'[r].spec \in specs
    BY DEF Active
  <2> QED BY <1>1, <2>1, FreshRunStep
<1>2. ASSUME NEW d \in Readers, Serve(d) PROVE FreshInv(specs)'
  <2>1. UNCHANGED <<asset, chunks, attrs, run>>
    BY <1>2 DEF Serve, Describe, Advertise, ReadLevel, FetchChunk
  <2> QED BY <2>1 DEF FreshInv
<1>3. ~Replace
  BY DEF Replace, TypeInv
<1> QED BY <1>1, <1>2, <1>3 DEF Next

------------------------------------------------------------------------------
(* Any deployment *)

LEMMA NoSwapStays == ASSUME TypeInv, WritersInv, Next, swaps' = 0 PROVE swaps' = swaps
<1>1. ~Replace
  BY DEF TypeInv, Replace
<1>2. CASE \E r \in Runs : Start(r) \/ Work(r) \/ Stop(r)
  BY <1>2, StartEffect, StopEffect, LoadEffect, ProbeEffect, ReadStripEffect,
     FetchStripEffect, PutChunkEffect, RecordEffect DEF Work
<1>3. ASSUME NEW d \in Readers, Serve(d) PROVE swaps' = swaps
  BY <1>3 DEF Serve, Describe, Advertise, ReadLevel, FetchChunk
<1> QED BY <1>1, <1>2, <1>3 DEF Next

LEMMA AloneStep ==
  ASSUME TypeInv, WritersInv, AloneInv, [Next]_vars, swaps' = 0, OneAtWork'
  PROVE  AloneInv'
<1>1. CASE Next
  <2>1. ~Replace
    BY <1>1 DEF AloneInv, Replace
  <2> QED BY <1>1, <2>1, AloneRunStep, AloneReaderStep DEF Next
<1>2. CASE UNCHANGED vars
  BY <1>2 DEF vars, AloneInv, OneAtWork, Active, Ahead, Planned, Recorded, LadderOf
<1> QED BY <1>1, <1>2

\* The runs under way are of these specifications.
OnlyOf(specs) == \A r \in Runs : Active(r) => run[r].spec \in specs

FreshUnlessSwapped(specs) == swaps = 0 => FreshInv(specs)

LEMMA FreshUnlessSwappedStep ==
  ASSUME NEW specs, Alike(specs), TypeInv, WritersInv, FreshUnlessSwapped(specs), [Next]_vars, OnlyOf(specs)'
  PROVE  FreshUnlessSwapped(specs)'
<1>1. CASE Next /\ swaps' = 0
  <2>1. swaps' = swaps
    BY <1>1, NoSwapStays
  <2>2. FreshInv(specs)
    BY <1>1, <2>1 DEF FreshUnlessSwapped
  <2>3. \A r \in Runs : Active(r)' => run'[r].spec \in specs
    BY DEF OnlyOf
  <2> QED BY <1>1, <2>1, <2>2, <2>3, FreshStep DEF FreshUnlessSwapped
<1>2. CASE UNCHANGED vars
  BY <1>2 DEF vars, FreshUnlessSwapped, FreshInv
<1>3. CASE swaps' # 0
  BY <1>3 DEF FreshUnlessSwapped
<1> QED BY <1>1, <1>2, <1>3

LEMMA AloneInitially == Init => AloneInv
<1> SUFFICES ASSUME Init PROVE AloneInv
  OBVIOUS
<1>1. \A r \in Runs : run[r].pc = "idle"
  BY DEF Init, IdleRun
<1>2. \A d \in Readers : reader[d].pc = "idle"
  BY DEF Init, IdleReader
<1> QED BY <1>1, <1>2 DEF Init, AloneInv, OneAtWork, Active, Ahead, Planned, Busy

LEMMA FreshInitially == ASSUME NEW specs, Init PROVE FreshInv(specs)
<1>1. \A r \in Runs : run[r].pc = "idle"
  BY DEF Init, IdleRun
<1> QED BY <1>1 DEF Init, FreshInv, FreshRun, Busy

LEMMA WritersKept == TypeInv /\ WritersInv /\ [Next]_vars => TypeInv' /\ WritersInv'
  BY NextInvariants

OneWriter == swaps = 0 /\ OneAtWork

LadderInv == TypeInv /\ WritersInv /\ AloneInv

\* As long as one run at a time is under way and the asset stays, a tile
\* request that planned a level it was told of gets it, and a run that reports
\* success leaves its whole ladder recorded (materialize.rs and lib.rs of
\* swath-pyramid-objectstore), whatever dies in between.
THEOREM LoneRunsServe == Spec /\ []OneWriter => [](AdvertisedIsReadable /\ DoneIsRecorded)
<1>1. Init => LadderInv
  BY InitInvariants, AloneInitially DEF LadderInv
<1>2. LadderInv /\ [Next]_vars /\ OneWriter' => LadderInv'
  <2> SUFFICES ASSUME LadderInv, [Next]_vars, OneWriter' PROVE LadderInv'
    OBVIOUS
  <2>1. swaps' = 0 /\ OneAtWork'
    BY DEF OneWriter
  <2> QED BY <2>1, WritersKept, AloneStep DEF LadderInv
<1>3. LadderInv => AdvertisedIsReadable /\ DoneIsRecorded
  BY DEF LadderInv, AloneInv, Planned, Ahead, Recorded, AdvertisedIsReadable, DoneIsRecorded
<1> QED BY <1>1, <1>2, <1>3, PTL DEF Spec

\* Runs of specifications with the same resampling, as long as no other is
\* under way: whatever chunk of a level there is, each of them would have
\* written the same, alone and uninterrupted, until the asset is replaced
\* (materialize.rs: two identical runs write identical bytes in any
\* interleaving, and a resumed run and a fresh one take identical inputs).
THEOREM AlikeRunsAreFresh ==
  ASSUME NEW specs, Alike(specs)
  PROVE  Spec /\ []OnlyOf(specs) => []AsFreshRun(specs)
<1> DEFINE Inv == TypeInv /\ WritersInv /\ FreshUnlessSwapped(specs)
<1>1. Init => Inv
  BY InitInvariants, FreshInitially DEF FreshUnlessSwapped
<1>2. Inv /\ [Next]_vars /\ OnlyOf(specs)' => Inv'
  BY WritersKept, FreshUnlessSwappedStep
<1>3. Inv => AsFreshRun(specs)
  BY DEF FreshUnlessSwapped, FreshInv, AsFresh, AsFreshRun
<1> QED BY <1>1, <1>2, <1>3, PTL DEF Spec

------------------------------------------------------------------------------
(* The deployments that the runs check *)

MCInv ==
  /\ TypeInv /\ WritersInv
  /\ alone => AloneInv
  /\ ~alone => FreshUnlessSwapped(MCDepths)

LEMMA DepthsAlike == Alike(MCDepths)
  BY DEF Alike, MCDepths

LEMMA MCInitially == MCInit => MCInv
  BY InitInvariants, AloneInitially, FreshInitially DEF MCInit, MCInv, FreshUnlessSwapped

LEMMA MCInvStep == MCInv /\ [MCNext]_<<vars, alone>> => MCInv'
<1> SUFFICES ASSUME MCInv, [MCNext]_<<vars, alone>> PROVE MCInv'
  OBVIOUS
<1>1. TypeInv /\ WritersInv /\ alone' = alone
  BY DEF MCInv, MCNext
<1>2. [Next]_vars
  BY DEF MCNext
<1>3. TypeInv' /\ WritersInv'
  BY <1>1, <1>2, NextInvariants
<1>4. CASE MCNext /\ alone
  <2>1. AloneInv /\ swaps' = 0 /\ \A r, q \in Runs : r # q => ~(Active(r)' /\ Active(q)')
    BY <1>4 DEF MCInv, MCNext
  <2>2. OneAtWork'
    BY <2>1 DEF OneAtWork
  <2>3. AloneInv'
    BY <1>1, <1>2, <2>1, <2>2, AloneStep
  <2> QED BY <1>1, <1>3, <1>4, <2>3 DEF MCInv
<1>5. CASE MCNext /\ ~alone
  <2>1. \A r \in Runs : Active(r)' => run'[r].spec \in MCDepths
    <3>1. MCAverage \subseteq MCDepths
      BY DEF MCAverage, MCDepths
    <3>2. \A r \in Runs : Active(r)' => run'[r].spec \in IF r = r1 THEN MCAverage ELSE MCDepths
      BY <1>5 DEF MCNext
    <3> QED BY <3>1, <3>2
  <2>2. OnlyOf(MCDepths)'
    BY <2>1 DEF OnlyOf
  <2>3. FreshUnlessSwapped(MCDepths)'
    BY <1>1, <1>2, <1>5, <2>2, DepthsAlike, FreshUnlessSwappedStep DEF MCInv
  <2> QED BY <1>1, <1>3, <1>5, <2>3 DEF MCInv
<1>6. CASE UNCHANGED <<vars, alone>>
  <2>1. AloneInv => AloneInv'
    BY <1>6 DEF vars, AloneInv, OneAtWork, Active, Ahead, Planned, Recorded, LadderOf
  <2>2. FreshUnlessSwapped(MCDepths) => FreshUnlessSwapped(MCDepths)'
    BY <1>6 DEF vars, FreshUnlessSwapped, FreshInv
  <2> QED BY <1>1, <1>3, <2>1, <2>2 DEF MCInv
<1> QED BY <1>4, <1>5, <1>6

\* Where modules are run, the runs and tile requests of the pyramid rest.
LEMMA PartsStep == [PartNext]_<<vars, alone, modules, call, pinned, since, hosting>> => [MCNext]_<<vars, alone>>
  BY DEF PartNext

\* LoneRunsServe of the deployment that the run checks: one run at a time.
THEOREM LadderServes == PartSpec => []LadderWhenAlone
<1>1. PartInit => MCInv
  BY MCInitially DEF PartInit
<1>2. MCInv /\ [PartNext]_<<vars, alone, modules, call, pinned, since, hosting>> => MCInv'
  BY PartsStep, MCInvStep
<1>3. MCInv => LadderWhenAlone
  BY DEF MCInv, AloneInv, Planned, Ahead, Recorded, LadderWhenAlone, AdvertisedIsReadable, DoneIsRecorded
<1> QED BY <1>1, <1>2, <1>3, PTL DEF PartSpec

\* AlikeRunsAreFresh of the deployment that the run checks: overlapping runs
\* of two depths.
THEOREM OverlappingRunsAreFresh == PartSpec => []OverlappingAsFresh
<1>1. PartInit => MCInv
  BY MCInitially DEF PartInit
<1>2. MCInv /\ [PartNext]_<<vars, alone, modules, call, pinned, since, hosting>> => MCInv'
  BY PartsStep, MCInvStep
<1>3. MCInv => OverlappingAsFresh
  BY DEF MCInv, FreshUnlessSwapped, FreshInv, AsFresh, OverlappingAsFresh, AsFreshRun
<1> QED BY <1>1, <1>2, <1>3, PTL DEF PartSpec
==============================================================================
