------------------------------- MODULE UdfHost -------------------------------
(* The executor of user modules: registration compiles a module, probes it   *)
(* and keeps it in a list of bounded length, the least recently used last;   *)
(* a tile only looks modules up, and runs one in a store of its own.  Guest  *)
(* code consumes fuel with each step and stops at a deadline counted in      *)
(* ticks of the engine's epoch; instances come from a pool of slots.         *)
(* Compiler and guests are wasmtime's and the users': `Guest' says what each *)
(* module is and does.                                                       *)
EXTENDS Integers, Sequences, SequencesExt, FiniteSets

CONSTANTS
  Modules,   \* hashes of module bytes
  Arities,   \* numbers of input planes
  Endless,   \* steps of a loop, or a budget no tile can spend
  CapPages,  \* pages of MEMORY_CAP_BYTES
  Guest,             \* what each module declares and how it answers
  Callers,           \* threads that register modules or render tiles
  Budgets,           \* fuel that a tile's layer may spend
  RegistrationFuel,  \* fuel of the probes
  Capacity,          \* MODULE_LRU_CAPACITY
  PoolSlots,         \* POOL_SLOTS
  DeadlineTicks      \* EPOCH_DEADLINE_MS in epochs

HostAssumption ==
  /\ Capacity \in Nat \ {0} /\ PoolSlots \in Nat \ {0} /\ DeadlineTicks \in Nat \ {0}
  /\ RegistrationFuel \in Nat
  /\ Budgets \subseteq Nat \cup {Endless} /\ Endless \notin Nat
  /\ IsFiniteSet(Callers)
  /\ \A m \in Modules :
       /\ \A f \in {"start", "abi", "planes", "alloc", "run"} : Guest[m].steps[f] \in Nat \cup {Endless}
       /\ Guest[m].run.v \in {"zero", "beyond", "garbled", "planes"}

VARIABLES
  modules,  \* compiled modules, the most recently used first
  call,     \* what each caller is doing
  pinned,   \* the stages registration has answered
  since     \* modules used after each module's last use, for those ever used

vars == <<modules, call, pinned, since>>

Idle == [pc |-> "idle"]

------------------------------------------------------------------------------
\* What a module declares, and what registration refuses before it runs any
\* of its code.

AbiVersion == 1

\* The exports of ABI v1 that must be functions, in the order they are
\* checked.
Exports == <<"swath_udf_abi", "swath_udf_output_planes", "swath_udf_alloc", "swath_udf_run">>

\* The memory section is scanned before the compiler sees the bytes; what the
\* scan cannot follow is left for later.
DeclaresTooMuch(g) == g.plain /\ g.pages > CapPages

ExpectFunc(g, name) == name \in g.exports

ValidateShape(g) ==
  LET missing == SelectSeq(Exports, LAMBDA name : ~ExpectFunc(g, name)) IN
  IF g.imports THEN "ForbiddenImport"
  ELSE IF missing # <<>> \/ ~g.memory THEN "MissingExport"
  ELSE IF g.pages > CapPages THEN "MemoryLimit"
  ELSE "none"

Refusal(g) ==
  IF DeclaresTooMuch(g) THEN "MemoryLimit"
  ELSE IF ~g.wasm THEN "InvalidModule"
  ELSE ValidateShape(g)

------------------------------------------------------------------------------
\* The list of compiled modules.

\* No module is in the list twice.
Without(list, m) ==
  IF m \in ToSet(list) THEN RemoveAt(list, CHOOSE i \in DOMAIN list : list[i] = m) ELSE list

\* A lookup that finds the module moves it to the front.
LookedUp(list, m) == IF m \in ToSet(list) THEN <<m>> \o Without(list, m) ELSE list

\* Variant: what another thread has compiled meanwhile is kept too.
CachedTwice(list, m) == <<m>> \o SubSeq(list, 1, Min({Len(list), Capacity - 1}))

Cached(list, m) ==
  LET rest == Without(list, m) IN <<m>> \o SubSeq(rest, 1, Min({Len(rest), Capacity - 1}))

\* Records that `m' is the module used last.
Used(m) ==
  since' = [other \in DOMAIN since \cup {m} |->
              IF other = m THEN {} ELSE since[other] \cup {m}]

Lookup(m) ==
  /\ modules' = LookedUp(modules, m)
  /\ IF m \in ToSet(modules) THEN Used(m) ELSE UNCHANGED since

------------------------------------------------------------------------------
\* Stores, instances and guest calls.

Holding == {c \in Callers : call[c].pc # "idle" /\ call[c].slot}

\* The store is dropped at the end of the function that made it.
Dropped(t) == [t EXCEPT !.slot = FALSE, !.left = 0, !.then = "none"]

\* The guest begins one of its functions.
Entering(t, function) == [t EXCEPT !.pc = function, !.work = Guest[t.module].steps[function]]

\* Variant: no deadline is armed.
FreshStoreUntimed(t, fuel) == [t EXCEPT !.fuel = fuel, !.left = Endless]

FreshStore(t, fuel) == [t EXCEPT !.fuel = fuel, !.left = DeadlineTicks]

\* What remains of the fuel matters to a tile that is answered.
Ended(t, outcome) ==
  [Dropped(t) EXCEPT !.pc = "ended", !.outcome = outcome, !.work = 0,
                     !.fuel = IF outcome = "output" THEN @ ELSE 0]

\* An instance takes a slot of the pool and runs the module's start function;
\* `function' is what the host will call first.
Instantiate(t, fuel, function) ==
  IF Cardinality(Holding) >= PoolSlots THEN Ended(t, "MemoryLimit")
  ELSE [Entering(FreshStore(t, fuel), "start") EXCEPT !.slot = TRUE, !.then = function]

\* Takes the caller on; nothing else changes.
Goes(c, t) ==
  /\ call' = [call EXCEPT ![c] = t]
  /\ UNCHANGED <<modules, pinned, since>>

InGuest(t) == t.pc \in {"start", "abi", "planes", "alloc", "run"}

Fewer(n) == IF n = Endless THEN n ELSE n - 1

\* The guest takes a step, out of its fuel.
GuestStep(c) ==
  LET t == call[c] IN
  /\ InGuest(t) /\ t.work # 0 /\ t.fuel # 0 /\ t.left # 0
  /\ Goes(c, [t EXCEPT !.work = Fewer(@), !.fuel = Fewer(@)])

\* What a guest that was stopped is reported as.
MapCallError(trap) ==
  CASE trap = "OutOfFuel" -> "FuelExhausted"
    [] trap = "Interrupt" -> "EpochDeadline"
    [] OTHER -> "Trap"

\* Fuel and the epoch are checked before each step; either may be found
\* wanting first.
GuestStopped(c) ==
  LET t == call[c] IN
  /\ InGuest(t) /\ t.work # 0
  /\ \/ t.fuel = 0 /\ Goes(c, Ended(t, MapCallError("OutOfFuel")))
     \/ t.left = 0 /\ Goes(c, Ended(t, MapCallError("Interrupt")))

\* A start function that traps is a failed instantiation.
GuestTraps(c) ==
  LET t == call[c] IN
  /\ InGuest(t) /\ t.work = 0 /\ t.pc \in Guest[t.module].traps
  /\ Goes(c, Ended(t, IF t.pc = "start" THEN "MemoryLimit" ELSE MapCallError("Unreachable")))

Answered(t, function) ==
  t.pc = function /\ t.work = 0 /\ function \notin Guest[t.module].traps

Started(c) ==
  LET t == call[c] IN
  /\ Answered(t, "start")
  /\ Goes(c, [Entering(t, t.then) EXCEPT !.then = "none"])

\* The epoch advances for every store that is armed.
Armed(t) == t.pc # "idle" /\ t.left \notin {0, Endless}

Tick ==
  /\ \E c \in Callers : Armed(call[c])
  /\ call' = [c \in Callers |-> IF Armed(call[c]) THEN [call[c] EXCEPT !.left = @ - 1] ELSE call[c]]
  /\ UNCHANGED <<modules, pinned, since>>

------------------------------------------------------------------------------
\* Registration: `compile', then the arity is probed in a store of its own.

Begin(c, pc, stage, budget) ==
  /\ call[c] = Idle
  /\ Goes(c, [pc |-> pc, module |-> stage.module, arity |-> stage.arity, planes |-> stage.planes,
              budget |-> budget, work |-> 0, fuel |-> 0, left |-> 0, slot |-> FALSE,
              then |-> "none", outcome |-> "none"])

Register(c, m, arity) ==
  Begin(c, "compile", [module |-> m, arity |-> arity, planes |-> 0], RegistrationFuel)

\* A module in the list is not compiled again.
CompileLookup(c) ==
  LET t == call[c] IN
  /\ t.pc = "compile"
  /\ Lookup(t.module)
  /\ call' = [call EXCEPT ![c].pc = IF t.module \in ToSet(modules) THEN "arity" ELSE "validate"]
  /\ UNCHANGED pinned

Validate(c) ==
  LET t == call[c]
      refusal == Refusal(Guest[t.module])
  IN
  /\ t.pc = "validate"
  /\ Goes(c, IF refusal # "none" THEN Ended(t, refusal) ELSE Instantiate(t, RegistrationFuel, "abi"))

\* A module of the right version enters the list while its probe's instance
\* still holds its slot.
Compiled(c) ==
  LET t == call[c] IN
  /\ Answered(t, "abi")
  /\ IF Guest[t.module].abi # AbiVersion
     THEN Goes(c, Ended(t, "UnsupportedAbiVersion"))
     ELSE /\ modules' = Cached(modules, t.module)
          /\ Used(t.module)
          /\ call' = [call EXCEPT ![c] = [@ EXCEPT !.pc = "drop", !.fuel = 0, !.then = "none"]]
          /\ UNCHANGED pinned

DropProbe(c) ==
  /\ call[c].pc = "drop"
  /\ Goes(c, [Dropped(call[c]) EXCEPT !.pc = "arity"])

\* `output_planes' looks the module up again.
ProbeArity(c) ==
  LET t == call[c] IN
  /\ t.pc = "arity"
  /\ Lookup(t.module)
  /\ call' = [call EXCEPT ![c] = IF t.module \notin ToSet(modules) THEN Ended(t, "UnknownModule")
                                 ELSE Instantiate(t, RegistrationFuel, "planes")]
  /\ UNCHANGED pinned

Registered(c) ==
  LET t == call[c]
      planes == Guest[t.module].planes[t.arity]
  IN
  /\ Answered(t, "planes")
  /\ IF planes <= 0 THEN Goes(c, Ended(t, "UnsupportedArity"))
     ELSE /\ pinned' = pinned \cup {[module |-> t.module, arity |-> t.arity, planes |-> planes]}
          /\ call' = [call EXCEPT ![c] = Ended(t, "registered")]
          /\ UNCHANGED <<modules, since>>

------------------------------------------------------------------------------
\* A tile.

Run(c, stage, budget) == stage \in pinned /\ Begin(c, "lookup", stage, budget)

RunLookup(c) ==
  LET t == call[c] IN
  /\ t.pc = "lookup"
  /\ Lookup(t.module)
  /\ call' = [call EXCEPT ![c] = IF t.module \notin ToSet(modules) THEN Ended(t, "UnknownModule")
                                 ELSE [t EXCEPT !.pc = "instance"]]
  /\ UNCHANGED pinned

\* Variant: a tile runs under the budget of the probes.
RunInstanceProbing(c) ==
  LET t == call[c] IN
  /\ t.pc = "instance"
  /\ Goes(c, Instantiate(t, RegistrationFuel, "alloc"))

RunInstance(c) ==
  LET t == call[c] IN
  /\ t.pc = "instance"
  /\ Goes(c, Instantiate(t, t.budget, "alloc"))

\* The request is written where the guest says.
Transferred(c) ==
  LET t == call[c]
      pointer == Guest[t.module].alloc
  IN
  /\ Answered(t, "alloc")
  /\ Goes(c, CASE pointer = "null" -> Ended(t, "MemoryLimit")
               [] pointer = "beyond" -> Ended(t, "MalformedOutput")
               [] OTHER -> Entering(t, "run"))

\* The response is read within the guest's memory, and decoded.
Decoded(t) ==
  LET response == Guest[t.module].run IN
  CASE response.v = "zero" -> "GuestFailure"
    [] response.v \in {"beyond", "garbled"} -> "MalformedOutput"
    [] response.v = "planes" -> IF response.planes[t.arity] # t.planes THEN "OutputPlanes" ELSE "output"

RunAnswered(c) ==
  LET t == call[c] IN
  /\ Answered(t, "run")
  /\ Goes(c, Ended(t, Decoded(t)))

Report(c) ==
  /\ call[c].pc = "ended"
  /\ Goes(c, Idle)

------------------------------------------------------------------------------
Init ==
  /\ modules = <<>>
  /\ call = [c \in Callers |-> Idle]
  /\ pinned = {}
  /\ since = <<>>

Step(c) ==
  \/ CompileLookup(c) \/ Validate(c) \/ Compiled(c) \/ DropProbe(c)
  \/ ProbeArity(c) \/ Registered(c)
  \/ RunLookup(c) \/ RunInstance(c) \/ Transferred(c) \/ RunAnswered(c)
  \/ GuestStep(c) \/ GuestStopped(c) \/ GuestTraps(c) \/ Started(c)
  \/ Report(c)

Next ==
  \/ \E c \in Callers, m \in Modules, arity \in Arities : Register(c, m, arity)
  \/ \E c \in Callers, stage \in pinned, budget \in Budgets : Run(c, stage, budget)
  \/ \E c \in Callers : Step(c)
  \/ Tick

\* Threads go on, and so does the ticker; nobody has to ask for anything.
Fairness == WF_vars(Tick) /\ \A c \in Callers : WF_vars(Step(c))

Spec == Init /\ [][Next]_vars /\ Fairness

------------------------------------------------------------------------------
\* The list holds exactly the modules fewer than `Capacity' others have been
\* used after, the last used first, whatever threads compiled them side by
\* side; only modules that pass every check of registration are in it.
RecentlyUsed ==
  /\ ToSet(modules) = {m \in DOMAIN since : Cardinality(since[m]) < Capacity}
  /\ IsInjective(modules)
  /\ \A i, j \in DOMAIN modules : i < j => modules[i] \in since[modules[j]]
  /\ \A m \in ToSet(modules) : Refusal(Guest[m]) = "none" /\ Guest[m].abi = AbiVersion

\* The functions of its guest that a tile calls, in order.
TileCalls == <<"start", "alloc", "run">>

\* The fuel of its first n calls, none of which loops.
FuelOf(m, n) ==
  LET steps == [i \in 1..3 |-> IF i > n THEN 0 ELSE Guest[m].steps[TileCalls[i]]]
  IN steps[1] + steps[2] + steps[3]

Affords(m, n, budget) ==
  \/ budget = Endless
  \/ /\ \A i \in 1..n : Guest[m].steps[TileCalls[i]] # Endless
     /\ FuelOf(m, n) <= budget

\* How far a tile of the stage gets with a budget, without a clock and with
\* the pool to itself.
Expected(stage, budget) ==
  LET m == stage.module
      g == Guest[m]
  IN IF ~Affords(m, 1, budget) THEN "FuelExhausted"
     ELSE IF "start" \in g.traps THEN "MemoryLimit"
     ELSE IF ~Affords(m, 2, budget) THEN "FuelExhausted"
     ELSE IF "alloc" \in g.traps THEN "Trap"
     ELSE IF g.alloc = "null" THEN "MemoryLimit"
     ELSE IF g.alloc = "beyond" THEN "MalformedOutput"
     ELSE IF ~Affords(m, 3, budget) THEN "FuelExhausted"
     ELSE IF "run" \in g.traps THEN "Trap"
     ELSE IF g.run.v = "zero" THEN "GuestFailure"
     ELSE IF g.run.v # "planes" THEN "MalformedOutput"
     ELSE IF g.run.planes[stage.arity] # stage.planes THEN "OutputPlanes"
     ELSE "output"

\* The fuel a tile has taken, which its trace reports.
FuelUsed(t) == t.budget - t.fuel

\* What a tile is told is what its module answers within the tile's budget,
\* for the same fuel, whoever else runs; or the module was evicted, the clock
\* ran out, or the pool did.
TilesAnswerAlike ==
  \A c \in Callers :
    call[c].pc = "ended" /\ call[c].planes # 0 =>
      /\ call[c].outcome = "output" /\ call[c].budget # Endless =>
           FuelUsed(call[c]) = FuelOf(call[c].module, 3)
      /\ \/ call[c].outcome = Expected(call[c], call[c].budget)
         \/ call[c].outcome \in {"UnknownModule", "EpochDeadline"}
         \/ call[c].outcome = "MemoryLimit" /\ Cardinality(Callers) > PoolSlots

\* A call ends, whatever its guest does.
CallsEnd == \A c \in Callers : call[c].pc # "idle" ~> call[c].pc = "idle"

\* A tile of a stage that registration has answered is never told that its
\* module is unknown.
RegisteredRuns ==
  \A c \in Callers : call[c].pc = "ended" /\ call[c].planes # 0 => call[c].outcome # "UnknownModule"
==============================================================================
