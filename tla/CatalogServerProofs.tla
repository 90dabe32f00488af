------------------------- MODULE CatalogServerProofs -------------------------
(* Theorems about CatalogServer, for any datasets, services, granules,        *)
(* sources and number of requests in flight, and any bound on the faults.     *)
(* First what holds of documents, modules and intervals; then what a server   *)
(* leaves behind and answers: the configuration a restart heals, and, of a    *)
(* server that is asked one thing at a time, the ledger it implements.        *)
EXTENDS MCCatalogServer, TLAPS

------------------------------------------------------------------------------
(* Lemmas about the documents *)

\* An interval widened by a datetime is an interval.
LEMMA IncludingType ==
  ASSUME NEW range \in TimeRange, NEW t \in Instants
  PROVE  Including(range, t) \in TimeRange
BY DEF Including, TimeRange, Bound

\* So is the interval derived from a set of datetimes, and its bounds are
\* datetimes of the set, in order.
LEMMA TemporalIntervalType ==
  ASSUME NEW T \in SUBSET Instants
  PROVE  /\ TemporalInterval(T) \in TimeRange
         /\ T # {} => /\ TemporalInterval(T).start \in T
                      /\ TemporalInterval(T).end \in T
                      /\ TemporalInterval(T).start <= TemporalInterval(T).end
<1>1. CASE T = {}
  BY <1>1 DEF TemporalInterval, NoGranuleYet, TimeRange, Bound
<1>2. CASE T # {}
  <2>1. PICK lo \in T, hi \in T : \A t \in T : lo <= t /\ t <= hi
    BY <1>2, InstantsAssumption
  <2> DEFINE start == CHOOSE x \in T : \A t \in T : x <= t
             end == CHOOSE x \in T : \A t \in T : t <= x
  <2>2. start \in T /\ \A t \in T : start <= t
    BY <2>1
  <2>3. end \in T /\ \A t \in T : t <= end
    BY <2>1
  <2>4. TemporalInterval(T) = [start |-> start, end |-> end]
    BY <1>2 DEF TemporalInterval
  <2> QED
    BY <1>2, <2>2, <2>3, <2>4 DEF TimeRange, Bound
<1> QED
  BY <1>1, <1>2

\* A fresh document, and a document with a layer put in or taken out, are
\* documents.
LEMMA DocumentTypes ==
  /\ \A b \in Bodies : FreshDataset(b) \in Dataset
  /\ \A doc \in Dataset, s \in Services, plan \in Plan : WithLayer(doc, s, plan) \in Dataset
  /\ \A doc \in Dataset, s \in Services : WithoutLayer(doc, s) \in Dataset
  /\ \A doc \in Dataset, r \in TimeRange : [doc EXCEPT !.interval = r] \in Dataset
BY DEF FreshDataset, NoLayers, NoGranuleYet, WithLayer, WithoutLayer, Dataset, LayerSlot,
       TimeRange, Bound

\* The datetimes found for a dataset are datetimes.
LEMMA TimesOfType == TypeOK => \A d \in Datasets : TimesOf(d) \in SUBSET Instants
BY DEF TypeOK, TimesOf

------------------------------------------------------------------------------
(* Types *)

\* The empty task is a task.
LEMMA IdleType == Idle \in TaskState /\ TaskShape(Idle)
BY NoneAssumption DEF Idle, TaskState, TaskShape, Pcs

\* Replacing one task by a well-shaped one keeps the tasks well-typed.
LEMMA TaskUpdate ==
  ASSUME TypeInv, NEW p \in Procs, NEW t \in TaskState, TaskShape(t),
         task' = [task EXCEPT ![p] = t]
  PROVE  task' \in [Procs -> TaskState] /\ \A q \in Procs : TaskShape(task'[q])
BY DEF TypeInv, TypeOK

LEMMA FinishType ==
  ASSUME TypeInv, NEW p \in Procs, Finish(p)
  PROVE  task' \in [Procs -> TaskState] /\ \A q \in Procs : TaskShape(task'[q])
BY IdleType, TaskUpdate DEF Finish

\* Ingest steps keep the types.
LEMMA IngestType ==
  ASSUME TypeInv, NEW p \in Procs, Ingest(p)
  PROVE  TypeInv'
<1> USE DeploymentAssumption
<1>1. CASE \E g \in Granules, t \in Instants : IngestUpsert(p, g, t)
  <2>1. PICK g \in Granules, t \in Instants : IngestUpsert(p, g, t)
    BY <1>1
  <2> DEFINE state == [Idle EXCEPT !.pc = "ingest_read", !.ds = GranuleDataset[g], !.at = t]
  <2>2. state \in TaskState /\ TaskShape(state)
    BY IdleType DEF TaskState, TaskShape, Pcs, Idle
  <2>3. task' = [task EXCEPT ![p] = state]
    BY <2>1 DEF IngestUpsert, Begin
  <2>4. task' \in [Procs -> TaskState] /\ \A q \in Procs : TaskShape(task'[q])
    BY <2>2, <2>3, TaskUpdate
  <2> QED
    BY <2>1, <2>4 DEF TypeInv, TypeOK, IngestUpsert
<1>2. CASE IngestRead(p)
  <2>1. CASE Finish(p)
    BY <1>2, <2>1, FinishType DEF TypeInv, TypeOK, IngestRead
  <2>2. CASE ~Finish(p)
    <3> DEFINE d == task[p].ds
               doc == [docs[d] EXCEPT !.interval = Including(docs[d].interval, task[p].at)]
               state == [task[p] EXCEPT !.pc = "ingest_write", !.doc = doc]
    <3>1. /\ task[p].pc = "ingest_read" /\ Registered(d)
          /\ task' = [task EXCEPT ![p].pc = "ingest_write", ![p].doc = doc]
      BY <1>2, <2>2 DEF IngestRead
    <3>2. task[p] \in TaskState /\ TaskShape(task[p])
      BY DEF TypeInv, TypeOK
    <3>3. d \in Datasets /\ task[p].at \in Instants /\ docs[d] \in Dataset
      BY <3>1, <3>2 DEF TaskShape, TypeInv, TypeOK, Registered
    <3>4. docs[d].interval \in TimeRange
      BY <3>3 DEF Dataset
    <3>5. doc \in Dataset
      BY <3>3, <3>4, IncludingType, DocumentTypes
    <3> HIDE DEF doc
    <3>6. state \in TaskState /\ TaskShape(state)
      BY <3>1, <3>2, <3>3, <3>5 DEF TaskState, TaskShape, Pcs
    <3>7. task' = [task EXCEPT ![p] = state]
      BY <3>1, <3>2 DEF TypeInv, TypeOK
    <3> QED
      BY <1>2, <3>6, <3>7, TaskUpdate DEF TypeInv, TypeOK, IngestRead
  <2> QED
    BY <2>1, <2>2
<1>3. CASE IngestWrite(p)
  <2>1. task[p].ds \in Datasets /\ task[p].doc \in Dataset
    BY <1>3 DEF TypeInv, IngestWrite, TaskShape
  <2> QED
    BY <1>3, <2>1, FinishType DEF TypeInv, TypeOK, IngestWrite
<1> QED
  BY <1>1, <1>2, <1>3 DEF Ingest

\* So do the steps of a granule registration.
LEMMA RegisterType ==
  ASSUME TypeInv, NEW p \in Procs, Register(p)
  PROVE  TypeInv'
<1> USE DeploymentAssumption
<1> DEFINE Task(t) == t \in TaskState /\ TaskShape(t) /\ task' = [task EXCEPT ![p] = t]
<1>0. task \in [Procs -> TaskState] /\ task[p] \in TaskState /\ TaskShape(task[p])
  BY DEF TypeInv, TypeOK
<1>1. CASE \E g \in Granules, t \in Instants : RegisterRead(p, g, t)
  <2>1. PICK g \in Granules, t \in Instants : RegisterRead(p, g, t)
    BY <1>1
  <2> DEFINE d == GranuleDataset[g]
             state == [Idle EXCEPT !.pc = "register_upsert", !.ds = d, !.gid = g, !.at = t,
                                   !.doc = docs[d]]
  <2>2. d \in Datasets /\ docs[d] \in Dataset
    BY <2>1 DEF RegisterRead, Registered, TypeInv, TypeOK
  <2>3. Task(state)
    BY <2>1, <2>2, IdleType DEF TaskState, TaskShape, Pcs, Idle, RegisterRead, Begin
  <2> QED
    BY <2>1, <2>3, TaskUpdate DEF TypeInv, TypeOK, RegisterRead
<1>2. CASE RegisterUpsert(p)
  <2> DEFINE state == [task[p] EXCEPT !.pc = "register_find"]
  <2>1. Task(state)
    BY <1>0, <1>2 DEF RegisterUpsert, TaskState, TaskShape, Pcs
  <2> QED
    BY <1>0, <1>2, <2>1, TaskUpdate DEF TypeInv, TypeOK, RegisterUpsert, TaskShape
<1>3. CASE RegisterFind(p)
  <2>1. CASE Finish(p)
    BY <1>3, <2>1, FinishType DEF TypeInv, TypeOK, RegisterFind
  <2>2. CASE ~Finish(p)
    <3> DEFINE range == TemporalInterval(TimesOf(task[p].ds))
               doc == [task[p].doc EXCEPT !.interval = range]
               state == [task[p] EXCEPT !.pc = "register_write", !.doc = doc]
    <3>1. /\ task[p].pc = "register_find"
          /\ task' = [task EXCEPT ![p].pc = "register_write", ![p].doc.interval = range]
      BY <1>3, <2>2 DEF RegisterFind
    <3>2. task[p].ds \in Datasets /\ task[p].doc \in Dataset
      BY <1>0, <3>1 DEF TaskShape
    <3>3. range \in TimeRange
      BY <3>2, TimesOfType, TemporalIntervalType DEF TypeInv
    <3>4. doc \in Dataset
      BY <3>2, <3>3, DocumentTypes
    <3> HIDE DEF range
    <3>5. task' = [task EXCEPT ![p] = state]
      BY <1>0, <3>1 DEF TaskState
    <3> HIDE DEF doc
    <3>6. Task(state)
      BY <1>0, <3>1, <3>4, <3>5 DEF TaskState, TaskShape, Pcs
    <3> QED
      BY <1>3, <3>6, TaskUpdate DEF TypeInv, TypeOK, RegisterFind
  <2> QED
    BY <2>1, <2>2
<1>4. CASE RegisterWrite(p)
  <2>1. task[p].ds \in Datasets /\ task[p].doc \in Dataset
    BY <1>0, <1>4 DEF RegisterWrite, TaskShape
  <2> QED
    BY <1>4, <2>1, FinishType DEF TypeInv, TypeOK, RegisterWrite
<1> QED
  BY <1>1, <1>2, <1>3, <1>4 DEF Register

\* And those of a dataset registration.
LEMMA CreateType ==
  ASSUME TypeInv, NEW p \in Procs, Create(p)
  PROVE  TypeInv'
<1>1. CASE \E d \in Datasets, b \in Bodies : CreateCheck(p, d, b)
  <2>1. PICK d \in Datasets, b \in Bodies : CreateCheck(p, d, b)
    BY <1>1
  <2> DEFINE doc == FreshDataset(b)
             state == [Idle EXCEPT !.pc = "create_write", !.ds = d, !.doc = doc]
  <2>2. doc \in Dataset
    BY DocumentTypes
  <2>3. task' = [task EXCEPT ![p] = state]
    BY <2>1 DEF CreateCheck, Begin
  <2> HIDE DEF doc
  <2>4. state \in TaskState /\ TaskShape(state)
    BY <2>2, IdleType DEF TaskState, TaskShape, Pcs, Idle
  <2> QED
    BY <2>1, <2>3, <2>4, TaskUpdate DEF TypeInv, TypeOK, CreateCheck
<1>2. CASE CreateWrite(p)
  <2>1. task[p].ds \in Datasets /\ task[p].doc \in Dataset
    BY <1>2 DEF TypeInv, CreateWrite, TaskShape
  <2> QED
    BY <1>2, <2>1, FinishType DEF TypeInv, TypeOK, CreateWrite
<1> QED
  BY <1>1, <1>2 DEF Create

\* The history of what was promised keeps its type.
LEMMA PromiseType ==
  ASSUME TypeInv, NEW p, NEW s, NEW outcome \in {"live", "dead"},
         PromiseBegins(p, s) \/ PromiseEnds(s, outcome)
  PROVE  promise' \in [Services -> {"unknown", "pending", "live", "dead"}]
BY DEF TypeInv, TypeOK, PromiseBegins, PromiseEnds

\* The steps of a publication.
LEMMA PublishType ==
  ASSUME TypeInv, NEW p \in Procs, Publish(p)
  PROVE  TypeInv'
<1> USE DeploymentAssumption
<1> DEFINE Task(t) == t \in TaskState /\ TaskShape(t) /\ task' = [task EXCEPT ![p] = t]
<1>0. task \in [Procs -> TaskState] /\ task[p] \in TaskState /\ TaskShape(task[p])
  BY DEF TypeInv, TypeOK
<1>1. CASE \E s \in Services : PublishRead(p, s)
  <2>1. PICK s \in Services : PublishRead(p, s)
    BY <1>1
  <2> DEFINE d == ServiceDataset[s]
             state == [Idle EXCEPT !.pc = "publish_lower", !.ds = d, !.svc = s,
                                   !.doc = docs[d]]
  <2>2. d \in Datasets /\ docs[d] \in Dataset
    BY <2>1 DEF PublishRead, Registered, TypeInv, TypeOK
  <2>3. Task(state)
    BY <2>1, <2>2, IdleType DEF TaskState, TaskShape, Pcs, Idle, PublishRead, Begin
  <2>4. promise' \in [Services -> {"unknown", "pending", "live", "dead"}]
    BY <2>1, PromiseType DEF PublishRead
  <2> QED
    BY <2>1, <2>3, <2>4, TaskUpdate DEF TypeInv, TypeOK, PublishRead
<1>2. CASE PublishLower(p)
  <2>1. \E t : Task(t)
    <3>1. CASE task[p].svc \in UdfServices
      <4>1. PICK m \in Modules :
              task' = [task EXCEPT ![p].pc = "publish_persist", ![p].plan = m]
        BY <1>2, <3>1 DEF PublishLower
      <4> DEFINE state == [task[p] EXCEPT !.pc = "publish_persist", !.plan = m]
      <4>2. Task(state)
        BY <1>0, <1>2, <4>1 DEF PublishLower, TaskState, TaskShape, Pcs, Plan
      <4> QED
        BY <4>2
    <3>2. CASE task[p].svc \notin UdfServices
      <4> DEFINE state == [task[p] EXCEPT !.pc = "publish_write", !.plan = Plain]
      <4>1. Task(state)
        BY <1>0, <1>2, <3>2 DEF PublishLower, TaskState, TaskShape, Pcs, Plan
      <4> QED
        BY <4>1
    <3> QED
      BY <3>1, <3>2
  <2> QED
    BY <1>2, <2>1, TaskUpdate DEF TypeInv, TypeOK, PublishLower
<1>3. CASE PublishPersist(p)
  <2> DEFINE state == [task[p] EXCEPT !.pc = "publish_write"]
  <2>1. Task(state) /\ task[p].plan \in Modules
    BY <1>0, <1>3 DEF PublishPersist, TaskState, TaskShape, Pcs, Plan
  <2> QED
    BY <1>3, <2>1, TaskUpdate DEF TypeInv, TypeOK, PublishPersist
<1>4. CASE PublishWrite(p)
  <2> DEFINE state == [task[p] EXCEPT !.pc = "publish_insert", !.doc = None]
             doc == WithLayer(task[p].doc, task[p].svc, task[p].plan)
  <2>1. Task(state) /\ task[p].ds \in Datasets
    BY <1>0, <1>4 DEF PublishWrite, TaskState, TaskShape, Pcs
  <2>2. doc \in Dataset
    BY <1>0, <1>4, DocumentTypes DEF PublishWrite, TaskShape
  <2> HIDE DEF doc
  <2>3. docs' = [docs EXCEPT ![task[p].ds] = doc]
    BY <1>4 DEF PublishWrite, doc
  <2>4. docs' \in [Datasets -> Dataset \cup {Absent}]
    BY <2>1, <2>2, <2>3 DEF TypeInv, TypeOK
  <2> QED
    BY <1>4, <2>1, <2>4, TaskUpdate DEF TypeInv, TypeOK, PublishWrite
<1>5. CASE PublishInsert(p)
  <2>1. task[p].svc \in Services /\ task[p].plan \in LayerSlot
    BY <1>0, <1>5 DEF PublishInsert, TaskShape, LayerSlot
  <2>2. served' \in [Services -> LayerSlot]
    BY <1>5, <2>1 DEF PublishInsert, TypeInv, TypeOK
  <2>3. promise' \in [Services -> {"unknown", "pending", "live", "dead"}]
    BY <1>5, PromiseType DEF PublishInsert
  <2> QED
    BY <1>5, <2>2, <2>3, FinishType DEF TypeInv, TypeOK, PublishInsert
<1> QED
  BY <1>1, <1>2, <1>3, <1>4, <1>5 DEF Publish

\* The steps of a removal.
LEMMA DeleteType ==
  ASSUME TypeInv, NEW p \in Procs, Delete(p)
  PROVE  TypeInv'
<1> USE DeploymentAssumption
<1>0. task \in [Procs -> TaskState] /\ task[p] \in TaskState /\ TaskShape(task[p])
  BY DEF TypeInv, TypeOK
<1>1. CASE \E s \in Services : DeleteRead(p, s)
  <2>1. PICK s \in Services : DeleteRead(p, s)
    BY <1>1
  <2> DEFINE d == ServiceDataset[s]
             state == [Idle EXCEPT !.pc = "delete_write", !.ds = d, !.svc = s,
                                   !.doc = docs[d]]
  <2>2. d \in Datasets /\ docs[d] \in Dataset
    BY <2>1 DEF DeleteRead, Listed, Registered, TypeInv, TypeOK
  <2>3. task' = [task EXCEPT ![p] = state]
    BY <2>1 DEF DeleteRead, Begin
  <2>4. state \in TaskState /\ TaskShape(state)
    BY <2>2, IdleType DEF TaskState, TaskShape, Pcs, Idle
  <2>5. promise' \in [Services -> {"unknown", "pending", "live", "dead"}]
    BY <2>1, PromiseType DEF DeleteRead
  <2> QED
    BY <2>1, <2>3, <2>4, <2>5, TaskUpdate DEF TypeInv, TypeOK, DeleteRead
<1>2. CASE DeleteWrite(p)
  <2> DEFINE state == [task[p] EXCEPT !.pc = "delete_remove", !.doc = None]
             doc == WithoutLayer(task[p].doc, task[p].svc)
  <2>1. /\ state \in TaskState /\ TaskShape(state) /\ task' = [task EXCEPT ![p] = state]
        /\ task[p].ds \in Datasets
    BY <1>0, <1>2 DEF DeleteWrite, TaskState, TaskShape, Pcs
  <2>2. doc \in Dataset
    BY <1>0, <1>2, DocumentTypes DEF DeleteWrite, TaskShape
  <2> HIDE DEF doc
  <2>3. docs' = [docs EXCEPT ![task[p].ds] = doc]
    BY <1>2 DEF DeleteWrite, doc
  <2>4. docs' \in [Datasets -> Dataset \cup {Absent}]
    BY <2>1, <2>2, <2>3 DEF TypeInv, TypeOK
  <2> QED
    BY <1>2, <2>1, <2>4, TaskUpdate DEF TypeInv, TypeOK, DeleteWrite
<1>3. CASE DeleteRemove(p)
  <2>1. served' \in [Services -> LayerSlot]
    BY <1>0, <1>3 DEF DeleteRemove, TaskShape, LayerSlot, TypeInv, TypeOK
  <2>2. promise' \in [Services -> {"unknown", "pending", "live", "dead"}]
    BY <1>3, PromiseType DEF DeleteRemove
  <2> QED
    BY <1>3, <2>1, <2>2, FinishType DEF TypeInv, TypeOK, DeleteRemove
<1> QED
  BY <1>1, <1>2, <1>3 DEF Delete

\* Faults.
LEMMA FaultType ==
  ASSUME TypeInv, Crash \/ \E p \in Procs : Abort(p)
  PROVE  TypeInv'
<1> USE DeploymentAssumption
<1>1. CASE Crash
  <2>1. faults' \in [crash : 0..MaxCrashes, abort : 0..MaxAborts, outage : 0..MaxOutages]
    BY <1>1 DEF Crash, TypeInv, TypeOK
  <2> QED
    BY <1>1, <2>1, IdleType DEF Crash, TypeInv, TypeOK, LayerSlot
<1>2. CASE \E p \in Procs : Abort(p)
  <2>1. PICK p \in Procs : Abort(p)
    BY <1>2
  <2>2. faults' \in [crash : 0..MaxCrashes, abort : 0..MaxAborts, outage : 0..MaxOutages]
    BY <2>1 DEF Abort, TypeInv, TypeOK
  <2> QED
    BY <2>1, <2>2, FinishType DEF Abort, TypeInv, TypeOK
<1> QED
  BY <1>1, <1>2

\* Rehydration counts an outage at most, and what it carries over are layers.
LEMMA RehydrationType ==
  ASSUME TypeInv, NEW doc \in Dataset, NEW failing, Rehydration(doc, failing)
  PROVE  /\ Carried(doc, failing) \in [Services -> LayerSlot]
         /\ faults' \in [crash : 0..MaxCrashes, abort : 0..MaxAborts,
                         outage : 0..MaxOutages]
<1>1. Carried(doc, failing) \in [Services -> LayerSlot]
  BY DEF Carried, Dataset, LayerSlot
<1>2. CASE faults' = faults
  BY <1>1, <1>2 DEF TypeInv, TypeOK
<1>3. CASE faults' # faults
  <2>1. faults.outage < MaxOutages /\ faults' = [faults EXCEPT !.outage = @ + 1]
    BY <1>3 DEF Rehydration
  <2> QED
    BY <1>1, <2>1, DeploymentAssumption DEF TypeInv, TypeOK
<1> QED
  BY <1>1, <1>2, <1>3

\* Start-up.
LEMMA BootType ==
  ASSUME TypeInv, Boot
  PROVE  TypeInv'
<1> USE DeploymentAssumption
<1>1. ASSUME NEW d \in Datasets, BootRegister(d)
      PROVE  TypeInv'
  <2>1. boot' \in [phase : {"register", "restore", "up"}, todo : SUBSET Datasets]
    BY <1>1 DEF BootRegister, TypeInv, TypeOK
  <2>2. CASE Registered(d)
    <3>1. PICK failing \in SUBSET Services :
            /\ Rehydration(docs[d], failing)
            /\ docs' = [docs EXCEPT ![d] =
                          [body |-> ConfigBody, layers |-> Carried(docs[d], failing),
                           interval |-> TemporalInterval(TimesOf(d))]]
            /\ served' = ServeAlso(d, Carried(docs[d], failing))
      BY <1>1, <2>2 DEF BootRegister
    <3>2. docs[d] \in Dataset
      BY <2>2 DEF Registered, TypeInv, TypeOK
    <3>3. /\ Carried(docs[d], failing) \in [Services -> LayerSlot]
          /\ faults' \in [crash : 0..MaxCrashes, abort : 0..MaxAborts,
                          outage : 0..MaxOutages]
      BY <3>1, <3>2, RehydrationType
    <3>4. TemporalInterval(TimesOf(d)) \in TimeRange
      BY TimesOfType, TemporalIntervalType DEF TypeInv
    <3>5. docs' \in [Datasets -> Dataset \cup {Absent}]
      BY <3>1, <3>3, <3>4 DEF TypeInv, TypeOK, Dataset
    <3>6. served' \in [Services -> LayerSlot]
      BY <3>1, <3>3 DEF ServeAlso, TypeInv, TypeOK
    <3> QED
      BY <1>1, <2>1, <3>3, <3>5, <3>6 DEF BootRegister, TypeInv, TypeOK
  <2>3. CASE ~Registered(d)
    <3>1. docs' = [docs EXCEPT ![d] = FreshDataset(ConfigBody)]
      BY <1>1, <2>3 DEF BootRegister
    <3>2. docs' \in [Datasets -> Dataset \cup {Absent}]
      BY <3>1, DocumentTypes DEF TypeInv, TypeOK
    <3> QED
      BY <1>1, <2>1, <2>3, <3>2 DEF BootRegister, TypeInv, TypeOK
  <2> QED
    BY <2>2, <2>3
<1>2. ASSUME NEW d \in Datasets, BootRestore(d)
      PROVE  TypeInv'
  <2>1. boot' \in [phase : {"register", "restore", "up"}, todo : SUBSET Datasets]
    BY <1>2 DEF BootRestore, TypeInv, TypeOK
  <2>2. CASE Registered(d)
    <3>1. PICK failing \in SUBSET Services :
            Rehydration(docs[d], failing) /\ served' = ServeAlso(d, Carried(docs[d], failing))
      BY <1>2, <2>2 DEF BootRestore
    <3>2. /\ Carried(docs[d], failing) \in [Services -> LayerSlot]
          /\ faults' \in [crash : 0..MaxCrashes, abort : 0..MaxAborts,
                          outage : 0..MaxOutages]
      BY <2>2, <3>1, RehydrationType DEF Registered, TypeInv, TypeOK
    <3>3. served' \in [Services -> LayerSlot]
      BY <3>1, <3>2 DEF ServeAlso, TypeInv, TypeOK
    <3> QED
      BY <1>2, <2>1, <3>2, <3>3 DEF BootRestore, TypeInv, TypeOK
  <2>3. CASE ~Registered(d)
    BY <1>2, <2>1, <2>3 DEF BootRestore, TypeInv, TypeOK
  <2> QED
    BY <2>2, <2>3
<1>3. CASE BootRegistered
  BY <1>3 DEF BootRegistered, TypeInv, TypeOK
<1>4. CASE BootUp
  BY <1>4 DEF BootUp, TypeInv, TypeOK
<1> QED
  BY <1>1, <1>2, <1>3, <1>4 DEF Boot

\* The type invariant is inductive.
LEMMA TypeInit == Init => TypeInv
<1> SUFFICES ASSUME Init PROVE TypeInv
  OBVIOUS
<1>1. \A p \in Procs : task[p] = Idle
  BY DEF Init
<1>2. faults \in [crash : 0..MaxCrashes, abort : 0..MaxAborts, outage : 0..MaxOutages]
  BY DeploymentAssumption DEF Init
<1> QED
  BY <1>1, <1>2, IdleType, DeploymentAssumption DEF Init, TypeInv, TypeOK, LayerSlot

LEMMA TypeStep == TypeInv /\ [Next]_vars => TypeInv'
<1> SUFFICES ASSUME TypeInv, [Next]_vars PROVE TypeInv'
  OBVIOUS
<1>1. CASE UNCHANGED vars
  BY <1>1 DEF vars, TypeInv, TypeOK
<1>2. CASE Next
  BY <1>2, IngestType, RegisterType, CreateType, PublishType, DeleteType, FaultType, BootType
  DEF Next
<1> QED
  BY <1>1, <1>2

\* Every reachable state is well-typed, and every task holds what its handler
\* has read, built or fetched by then.
THEOREM TypeCorrect == Spec => []TypeInv
BY TypeInit, TypeStep, PTL DEF Spec

------------------------------------------------------------------------------
(* A published UDF always resolves *)

\* The invariant survives a step after which the store has all it had, and
\* each document, served plan and task either is the old one or resolves.
LEMMA ModuleFrame ==
  ASSUME ModuleInv, TypeInv', moduleStore \subseteq moduleStore',
         \A s \in Services : served'[s] = served[s] \/ (served'[s] \in Modules => served'[s] \in moduleStore'),
         \A d \in Datasets : docs'[d] = docs[d] \/ (Registered(d) => Resolves(docs[d].layers))',
         \A p \in Procs : task'[p] = task[p] \/ TaskResolves(task[p])'
  PROVE  ModuleInv'
<1>1. Resolves(served)'
  BY DEF ModuleInv, Resolves
<1>2. \A d \in Datasets : (Registered(d) => Resolves(docs[d].layers))'
  BY DEF ModuleInv, Resolves, Registered
<1>3. \A p \in Procs : TaskResolves(task[p])'
  BY DEF ModuleInv, TaskResolves, Resolves
<1> QED
  BY <1>1, <1>2, <1>3 DEF ModuleInv

\* The fresh document, and one with a resolving layer put in or a layer taken
\* out, resolve.
LEMMA DocumentsResolve ==
  /\ \A b \in Bodies : \A s \in Services : FreshDataset(b).layers[s] \notin Modules
  /\ \A doc \in Dataset, s \in Services, plan \in Plan, r \in Services :
       WithLayer(doc, s, plan).layers[r] = IF r = s THEN plan ELSE doc.layers[r]
  /\ \A doc \in Dataset, s \in Services, r \in Services :
       WithoutLayer(doc, s).layers[r] = IF r = s THEN Unpublished ELSE doc.layers[r]
  /\ \A doc \in Dataset, range \in TimeRange :
       [doc EXCEPT !.interval = range].layers = doc.layers
  /\ Unpublished \notin Modules /\ Plain \notin Modules
<1>1. \A b \in Bodies : \A s \in Services : FreshDataset(b).layers[s] \notin Modules
  BY SentinelAssumption DEF FreshDataset, NoLayers
<1>2. ASSUME NEW doc \in Dataset, NEW s \in Services, NEW plan, NEW r \in Services
      PROVE  WithLayer(doc, s, plan).layers[r] = IF r = s THEN plan ELSE doc.layers[r]
  BY <1>2 DEF WithLayer, Dataset
<1>3. ASSUME NEW doc \in Dataset, NEW s \in Services, NEW r \in Services
      PROVE  WithoutLayer(doc, s).layers[r] = IF r = s THEN Unpublished ELSE doc.layers[r]
  BY <1>3 DEF WithoutLayer, Dataset
<1>4. \A doc \in Dataset, range \in TimeRange :
        [doc EXCEPT !.interval = range].layers = doc.layers
  BY DEF Dataset
<1> QED
  BY <1>1, <1>2, <1>3, <1>4, SentinelAssumption

\* Nothing a handler does breaks it: a document written back resolves
\* because it did when it was read and the store has lost nothing since.
LEMMA ModuleHandlerStep ==
  ASSUME ModuleInv, TypeInv', NEW p \in Procs,
         Ingest(p) \/ Register(p) \/ Create(p) \/ Publish(p) \/ Delete(p) \/ Abort(p)
  PROVE  ModuleInv'
<1>0. /\ TypeInv /\ task \in [Procs -> TaskState] /\ task[p] \in TaskState
      /\ TaskShape(task[p]) /\ TaskResolves(task[p]) /\ TaskResolves(Idle)
      /\ \A d \in Datasets : Registered(d) => docs[d] \in Dataset /\ Resolves(docs[d].layers)
  BY DEF ModuleInv, TypeInv, TypeOK, Registered, TaskResolves, Idle
<1>1. ASSUME NEW state, Begin(p, state), state.doc = None \/ Resolves(state.doc.layers),
             state.pc \notin {"publish_write", "publish_insert"},
             UNCHANGED <<docs, moduleStore, served>>
      PROVE  ModuleInv'
  <2>1. task'[p] = state /\ \A q \in Procs \ {p} : task'[q] = task[q]
    BY <1>0, <1>1 DEF Begin
  <2>2. TaskResolves(task[p])'
    BY <1>1, <2>1 DEF TaskResolves, Resolves
  <2> QED
    BY <1>1, <2>1, <2>2, ModuleFrame
<1>2. ASSUME Finish(p)
      PROVE  TaskResolves(task[p])' /\ \A q \in Procs \ {p} : task'[q] = task[q]
  BY <1>0, <1>2 DEF Finish, TaskResolves, Idle
<1>3. CASE Ingest(p)
  <2>1. ASSUME NEW g \in Granules, NEW t \in Instants, IngestUpsert(p, g, t)
        PROVE  ModuleInv'
    BY <1>1, <2>1 DEF IngestUpsert, Idle
  <2>2. CASE IngestRead(p) /\ Finish(p)
    BY <1>2, <2>2, ModuleFrame DEF IngestRead
  <2>3. CASE IngestRead(p) /\ ~Finish(p)
    <3> DEFINE d == task[p].ds
               doc == [docs[d] EXCEPT !.interval = Including(docs[d].interval, task[p].at)]
    <3>1. /\ task[p].pc = "ingest_read" /\ Registered(d)
          /\ task' = [task EXCEPT ![p].pc = "ingest_write", ![p].doc = doc]
      BY <2>3 DEF IngestRead
    <3>2. d \in Datasets /\ doc.layers = docs[d].layers
      BY <1>0, <3>1 DEF TaskShape, Dataset
    <3>3. /\ task'[p].pc = "ingest_write" /\ task'[p].doc = doc
          /\ \A q \in Procs \ {p} : task'[q] = task[q]
      BY <1>0, <3>1 DEF TaskState
    <3> HIDE DEF doc
    <3>4. TaskResolves(task[p])'
      BY <1>0, <2>3, <3>1, <3>2, <3>3 DEF TaskResolves, Resolves, IngestRead
    <3> QED
      BY <2>3, <3>3, <3>4, ModuleFrame DEF IngestRead
  <2>4. CASE IngestWrite(p)
    <3>1. Resolves(task[p].doc.layers) /\ task[p].ds \in Datasets
      BY <1>0, <2>4, NoneAssumption DEF IngestWrite, TaskResolves, TaskShape
    <3>2. \A d \in Datasets : docs'[d] = docs[d] \/ (Registered(d) => Resolves(docs[d].layers))'
      BY <2>4, <3>1 DEF IngestWrite, Resolves, TypeInv, TypeOK, ModuleInv
    <3> QED
      BY <1>2, <2>4, <3>2, ModuleFrame DEF IngestWrite
  <2> QED
    BY <1>3, <2>1, <2>2, <2>3, <2>4 DEF Ingest
<1>4. CASE Register(p)
  <2>1. ASSUME NEW g \in Granules, NEW t \in Instants, RegisterRead(p, g, t)
        PROVE  ModuleInv'
    <3>1. Resolves(docs[GranuleDataset[g]].layers)
      BY <1>0, <2>1, DeploymentAssumption DEF RegisterRead
    <3> QED
      BY <1>1, <2>1, <3>1 DEF RegisterRead, Idle
  <2>2. CASE RegisterUpsert(p)
    <3>1. TaskResolves(task[p])' /\ \A q \in Procs \ {p} : task'[q] = task[q]
      BY <1>0, <2>2 DEF RegisterUpsert, TaskResolves, Resolves, TaskState
    <3> QED
      BY <2>2, <3>1, ModuleFrame DEF RegisterUpsert
  <2>3. CASE RegisterFind(p) /\ Finish(p)
    BY <1>2, <2>3, ModuleFrame DEF RegisterFind
  <2>4. CASE RegisterFind(p) /\ ~Finish(p)
    <3>1. /\ task[p].doc \in Dataset
          /\ \E r : task' = [task EXCEPT ![p].pc = "register_write", ![p].doc.interval = r]
      BY <1>0, <2>4 DEF RegisterFind, TaskShape
    <3>2. /\ task'[p].pc = "register_write"
          /\ task'[p].doc.layers = task[p].doc.layers
          /\ \A q \in Procs \ {p} : task'[q] = task[q]
      BY <1>0, <3>1 DEF TaskState, Dataset
    <3>3. Resolves(task[p].doc.layers)
      BY <1>0, <3>1, NoneAssumption DEF TaskResolves
    <3>4. TaskResolves(task[p])'
      BY <2>4, <3>2, <3>3 DEF TaskResolves, Resolves, RegisterFind
    <3> QED
      BY <2>4, <3>2, <3>4, ModuleFrame DEF RegisterFind
  <2>5. CASE RegisterWrite(p)
    <3>1. Resolves(task[p].doc.layers) /\ task[p].ds \in Datasets
      BY <1>0, <2>5, NoneAssumption DEF RegisterWrite, TaskResolves, TaskShape
    <3>2. \A d \in Datasets : docs'[d] = docs[d] \/ (Registered(d) => Resolves(docs[d].layers))'
      BY <2>5, <3>1 DEF RegisterWrite, Resolves, TypeInv, TypeOK, ModuleInv
    <3> QED
      BY <1>2, <2>5, <3>2, ModuleFrame DEF RegisterWrite
  <2> QED
    BY <1>4, <2>1, <2>2, <2>3, <2>4, <2>5 DEF Register
<1>5. CASE Create(p)
  <2>1. ASSUME NEW d \in Datasets, NEW b \in Bodies, CreateCheck(p, d, b)
        PROVE  ModuleInv'
    <3>1. Resolves(FreshDataset(b).layers)
      BY DocumentsResolve DEF Resolves
    <3> QED
      BY <1>1, <2>1, <3>1 DEF CreateCheck, Idle
  <2>2. CASE CreateWrite(p)
    <3>1. Resolves(task[p].doc.layers) /\ task[p].ds \in Datasets
      BY <1>0, <2>2, NoneAssumption DEF CreateWrite, TaskResolves, TaskShape
    <3>2. \A d \in Datasets : docs'[d] = docs[d] \/ (Registered(d) => Resolves(docs[d].layers))'
      BY <2>2, <3>1 DEF CreateWrite, Resolves, TypeInv, TypeOK, ModuleInv
    <3> QED
      BY <1>2, <2>2, <3>2, ModuleFrame DEF CreateWrite
  <2> QED
    BY <1>5, <2>1, <2>2 DEF Create
<1>6. CASE Publish(p)
  <2>1. ASSUME NEW s \in Services, PublishRead(p, s)
        PROVE  ModuleInv'
    <3>1. Resolves(docs[ServiceDataset[s]].layers)
      BY <1>0, <2>1, DeploymentAssumption DEF PublishRead
    <3> QED
      BY <1>1, <2>1, <3>1 DEF PublishRead, Idle
  <2>2. CASE PublishLower(p)
    <3>1. /\ task'[p].doc = task[p].doc
          /\ task'[p].pc = "publish_persist" \/ task'[p].plan = Plain
          /\ \A q \in Procs \ {p} : task'[q] = task[q]
      BY <1>0, <2>2 DEF PublishLower, TaskState
    <3>2. TaskResolves(task[p])'
      BY <1>0, <2>2, <3>1 DEF TaskResolves, Resolves, PublishLower
    <3> QED
      BY <2>2, <3>1, <3>2, ModuleFrame DEF PublishLower
  <2>3. CASE PublishPersist(p)
    <3>1. /\ task'[p].doc = task[p].doc /\ task'[p].plan = task[p].plan
          /\ \A q \in Procs \ {p} : task'[q] = task[q]
      BY <1>0, <2>3 DEF PublishPersist, TaskState
    <3>2. TaskResolves(task[p])'
      BY <1>0, <2>3, <3>1 DEF TaskResolves, Resolves, PublishPersist
    <3> QED
      BY <2>3, <3>1, <3>2, ModuleFrame DEF PublishPersist
  <2>4. CASE PublishWrite(p)
    <3> DEFINE doc == WithLayer(task[p].doc, task[p].svc, task[p].plan)
    <3>1. /\ task[p].ds \in Datasets /\ task[p].doc \in Dataset /\ task[p].svc \in Services
          /\ task[p].plan \in Plan /\ task[p].plan \in moduleStore \cup {Plain}
          /\ Resolves(task[p].doc.layers)
      BY <1>0, <2>4, NoneAssumption DEF PublishWrite, TaskResolves, TaskShape
    <3>2. Resolves(doc.layers)
      BY <3>1, DocumentsResolve DEF Resolves
    <3> HIDE DEF doc
    <3>3. docs' = [docs EXCEPT ![task[p].ds] = doc]
      BY <2>4 DEF PublishWrite, doc
    <3>4. \A d \in Datasets : docs'[d] = docs[d] \/ (Registered(d) => Resolves(docs[d].layers))'
      BY <2>4, <3>1, <3>2, <3>3 DEF PublishWrite, Resolves, TypeInv, TypeOK, ModuleInv
    <3>5. TaskResolves(task[p])' /\ \A q \in Procs \ {p} : task'[q] = task[q]
      BY <1>0, <2>4, <3>1 DEF PublishWrite, TaskResolves, TaskState
    <3> QED
      BY <2>4, <3>4, <3>5, ModuleFrame DEF PublishWrite
  <2>5. CASE PublishInsert(p)
    <3>1. task[p].plan \in moduleStore \cup {Plain} /\ task[p].svc \in Services
      BY <1>0, <2>5 DEF PublishInsert, TaskResolves, TaskShape
    <3>2. \A s \in Services :
            served'[s] = served[s] \/ (served'[s] \in Modules => served'[s] \in moduleStore')
      BY <1>0, <2>5, <3>1, SentinelAssumption DEF PublishInsert, TypeInv, TypeOK
    <3> QED
      BY <1>2, <2>5, <3>2, ModuleFrame DEF PublishInsert
  <2> QED
    BY <1>6, <2>1, <2>2, <2>3, <2>4, <2>5 DEF Publish
<1>7. CASE Delete(p)
  <2>1. ASSUME NEW s \in Services, DeleteRead(p, s)
        PROVE  ModuleInv'
    <3>1. Resolves(docs[ServiceDataset[s]].layers)
      BY <1>0, <2>1, DeploymentAssumption DEF DeleteRead, Listed
    <3> QED
      BY <1>1, <2>1, <3>1 DEF DeleteRead, Idle
  <2>2. CASE DeleteWrite(p)
    <3> DEFINE doc == WithoutLayer(task[p].doc, task[p].svc)
    <3>1. /\ task[p].ds \in Datasets /\ task[p].doc \in Dataset /\ task[p].svc \in Services
          /\ Resolves(task[p].doc.layers)
      BY <1>0, <2>2, NoneAssumption DEF DeleteWrite, TaskResolves, TaskShape
    <3>2. Resolves(doc.layers)
      BY <3>1, DocumentsResolve DEF Resolves
    <3> HIDE DEF doc
    <3>3. docs' = [docs EXCEPT ![task[p].ds] = doc]
      BY <2>2 DEF DeleteWrite, doc
    <3>4. \A d \in Datasets : docs'[d] = docs[d] \/ (Registered(d) => Resolves(docs[d].layers))'
      BY <2>2, <3>1, <3>2, <3>3 DEF DeleteWrite, Resolves, TypeInv, TypeOK, ModuleInv
    <3>5. TaskResolves(task[p])' /\ \A q \in Procs \ {p} : task'[q] = task[q]
      BY <1>0, <2>2 DEF DeleteWrite, TaskResolves, TaskState
    <3> QED
      BY <2>2, <3>4, <3>5, ModuleFrame DEF DeleteWrite
  <2>3. CASE DeleteRemove(p)
    <3>1. \A s \in Services :
            served'[s] = served[s] \/ (served'[s] \in Modules => served'[s] \in moduleStore')
      BY <1>0, <2>3, SentinelAssumption DEF DeleteRemove, TypeInv, TypeOK
    <3> QED
      BY <1>2, <2>3, <3>1, ModuleFrame DEF DeleteRemove
  <2> QED
    BY <1>7, <2>1, <2>2, <2>3 DEF Delete
<1>8. CASE Abort(p)
  BY <1>2, <1>8, ModuleFrame DEF Abort
<1> QED
  BY <1>3, <1>4, <1>5, <1>6, <1>7, <1>8

\* Nor does a crash, nor start-up: what rehydrates has its module.
LEMMA ModuleBootStep ==
  ASSUME ModuleInv, TypeInv', Crash \/ Boot
  PROVE  ModuleInv'
<1>0. /\ TypeInv /\ served \in [Services -> LayerSlot]
      /\ \A d \in Datasets : Registered(d) => docs[d] \in Dataset /\ Resolves(docs[d].layers)
  BY DEF ModuleInv, TypeInv, TypeOK, Registered
<1>1. ASSUME NEW doc \in Dataset, NEW failing, Resolves(doc.layers)
      PROVE  Resolves(Carried(doc, failing))
  BY <1>1, SentinelAssumption DEF Resolves, Carried
<1>2. ASSUME NEW d \in Datasets, NEW layers, Resolves(layers), served' = ServeAlso(d, layers),
             UNCHANGED moduleStore
      PROVE  \A s \in Services :
               served'[s] = served[s] \/ (served'[s] \in Modules => served'[s] \in moduleStore')
  BY <1>2 DEF ServeAlso, Resolves
<1>3. CASE Crash
  BY <1>0, <1>3, ModuleFrame, SentinelAssumption DEF Crash, TaskResolves, Idle
<1>4. ASSUME NEW d \in Datasets, BootRegister(d), Registered(d)
      PROVE  ModuleInv'
  <2>1. PICK failing \in SUBSET Services :
          /\ docs' = [docs EXCEPT ![d] =
                        [body |-> ConfigBody, layers |-> Carried(docs[d], failing),
                         interval |-> TemporalInterval(TimesOf(d))]]
          /\ served' = ServeAlso(d, Carried(docs[d], failing))
    BY <1>4 DEF BootRegister
  <2> DEFINE layers == Carried(docs[d], failing)
  <2>2. Resolves(layers)
    BY <1>0, <1>1, <1>4
  <2> HIDE DEF layers
  <2>3. \A e \in Datasets : docs'[e] = docs[e] \/ (Registered(e) => Resolves(docs[e].layers))'
    BY <1>4, <2>1, <2>2 DEF BootRegister, Resolves, TypeInv, TypeOK, ModuleInv, layers
  <2> QED
    BY <1>2, <1>4, <2>1, <2>2, <2>3, ModuleFrame DEF BootRegister, layers
<1>5. ASSUME NEW d \in Datasets, BootRegister(d), ~Registered(d)
      PROVE  ModuleInv'
  <2>1. docs' = [docs EXCEPT ![d] = FreshDataset(ConfigBody)] /\ UNCHANGED <<served, moduleStore, task>>
    BY <1>5 DEF BootRegister
  <2>2. \A s \in Services : FreshDataset(ConfigBody).layers[s] \notin Modules
    BY DocumentsResolve, DeploymentAssumption
  <2>3. \A e \in Datasets : docs'[e] = docs[e] \/ (Registered(e) => Resolves(docs[e].layers))'
    BY <2>1, <2>2 DEF Resolves, TypeInv, TypeOK, ModuleInv
  <2> QED
    BY <2>1, <2>3, ModuleFrame
<1>6. ASSUME NEW d \in Datasets, BootRestore(d), Registered(d)
      PROVE  ModuleInv'
  <2>1. PICK failing \in SUBSET Services : served' = ServeAlso(d, Carried(docs[d], failing))
    BY <1>6 DEF BootRestore
  <2>2. Resolves(Carried(docs[d], failing))
    BY <1>0, <1>1, <1>6
  <2> QED
    BY <1>2, <1>6, <2>1, <2>2, ModuleFrame DEF BootRestore
<1>7. ASSUME NEW d \in Datasets, BootRestore(d), ~Registered(d)
      PROVE  ModuleInv'
  BY <1>7, ModuleFrame DEF BootRestore
<1>8. CASE BootRegistered \/ BootUp
  BY <1>8, ModuleFrame DEF BootRegistered, BootUp
<1> QED
  BY <1>3, <1>4, <1>5, <1>6, <1>7, <1>8 DEF Boot

LEMMA ModuleInit == Init => ModuleInv
<1> SUFFICES ASSUME Init PROVE ModuleInv
  OBVIOUS
<1>1. TypeInv
  BY TypeInit
<1>2. TaskResolves(Idle)
  BY DEF TaskResolves, Idle
<1> QED
  BY <1>1, <1>2, SentinelAssumption DEF Init, ModuleInv, Resolves, Registered

LEMMA ModuleStep == ModuleInv /\ [Next]_vars => ModuleInv'
<1> SUFFICES ASSUME ModuleInv, [Next]_vars PROVE ModuleInv'
  OBVIOUS
<1>1. TypeInv'
  BY TypeStep DEF ModuleInv
<1>2. CASE UNCHANGED vars
  BY <1>1, <1>2, ModuleFrame DEF vars
<1>3. CASE Next
  BY <1>1, <1>3, ModuleHandlerStep, ModuleBootStep DEF Next
<1> QED
  BY <1>2, <1>3

\* Every module a listed or a served layer names is in the module store:
\* publishing persists it first, nothing ever removes it, and a document
\* written back late only names modules that were there when it was read.
THEOREM ModulesResolve == Spec => []ModuleResolvable
<1>1. ModuleInv => ModuleResolvable
  <2> SUFFICES ASSUME ModuleInv, NEW s \in Services
               PROVE  /\ Listed(s) \in Modules => Listed(s) \in moduleStore
                      /\ served[s] \in Modules => served[s] \in moduleStore
    BY DEF ModuleResolvable
  <2>1. ServiceDataset[s] \in Datasets
    BY DeploymentAssumption
  <2> QED
    BY <2>1, SentinelAssumption DEF ModuleInv, Resolves, Listed
<1> QED
  BY <1>1, ModuleInit, ModuleStep, PTL DEF Spec

------------------------------------------------------------------------------
(* A stored interval is never made up *)

\* Widening a witnessed interval by a datetime that arrived, or deriving one
\* from datetimes that arrived, gives a witnessed interval.
LEMMA IncludingWitnessed ==
  ASSUME NEW range \in TimeRange, NEW times \in SUBSET Instants, NEW t \in times,
         Witnessed(range, times)
  PROVE  Witnessed(Including(range, t), times)
BY InstantsAssumption DEF Witnessed, Including, NoGranuleYet, TimeRange, Bound

LEMMA DerivedWitnessed ==
  ASSUME NEW found \in SUBSET Instants, NEW times, found \subseteq times
  PROVE  Witnessed(TemporalInterval(found), times)
<1>1. CASE found = {}
  BY <1>1 DEF TemporalInterval, Witnessed
<1>2. CASE found # {}
  BY <1>2, TemporalIntervalType DEF Witnessed
<1> QED
  BY <1>1, <1>2

\* What has arrived stays so.
LEMMA WitnessedMonotone ==
  ASSUME NEW range, NEW times, NEW more, times \subseteq more, Witnessed(range, times)
  PROVE  Witnessed(range, more)
BY DEF Witnessed

\* The invariant survives a step after which all that had arrived still has,
\* and each document, granule and task either is the old one or is witnessed.
LEMMA WitnessFrame ==
  ASSUME WitnessInv, TypeInv', \A d \in Datasets : arrived[d] \subseteq arrived'[d],
         \A d \in Datasets : \/ docs'[d] = docs[d]
                            \/ (Registered(d) => Witnessed(docs[d].interval, arrived[d]))',
         \A g \in Granules : \/ granules'[g] = granules[g]
                             \/ granules'[g] \in arrived'[GranuleDataset[g]],
         \A p \in Procs : task'[p] = task[p] \/ TaskWitnessed(task[p])'
  PROVE  WitnessInv'
<1>1. IntervalWitnessed'
  BY WitnessedMonotone DEF WitnessInv, IntervalWitnessed, Registered
<1>2. ASSUME NEW p \in Procs PROVE TaskWitnessed(task[p])'
  <2>1. CASE TaskWitnessed(task[p])'
    BY <2>1
  <2>2. CASE task'[p] = task[p]
    <3>1. TaskWitnessed(task[p]) /\ TaskShape(task[p]) /\ task[p] \in TaskState
      BY DEF WitnessInv, TypeInv, TypeOK
    <3>2. task[p].pc # "idle" => arrived[task[p].ds] \subseteq arrived'[task[p].ds]
      BY <3>1 DEF TaskShape
    <3>3. task[p].doc # None => task[p].pc # "idle"
      BY <3>1 DEF TaskShape, Idle
    <3> QED
      BY <2>2, <3>1, <3>2, <3>3, WitnessedMonotone DEF TaskWitnessed
  <2> QED
    BY <2>1, <2>2
<1>3. \A g \in Granules : granules'[g] # Absent => granules'[g] \in arrived'[GranuleDataset[g]]
  BY DeploymentAssumption DEF WitnessInv
<1> QED
  BY <1>1, <1>2, <1>3 DEF WitnessInv

\* The datetimes of the registered granules have arrived.
LEMMA FoundHaveArrived ==
  WitnessInv => \A d \in Datasets : TimesOf(d) \in SUBSET Instants /\ TimesOf(d) \subseteq arrived[d]
<1> SUFFICES ASSUME WitnessInv, NEW d \in Datasets
             PROVE  TimesOf(d) \in SUBSET Instants /\ TimesOf(d) \subseteq arrived[d]
  OBVIOUS
<1>1. TimesOf(d) \in SUBSET Instants
  BY TimesOfType DEF WitnessInv, TypeInv
<1>2. TimesOf(d) \subseteq arrived[d]
  BY DEF WitnessInv, TimesOf
<1> QED
  BY <1>1, <1>2

\* A document a handler writes back, its own or with a layer put in or taken
\* out, has the interval it was read with or given since.
LEMMA LayersKeepInterval ==
  /\ \A b \in Bodies : FreshDataset(b).interval = NoGranuleYet
  /\ \A doc \in Dataset : \A s, plan : WithLayer(doc, s, plan).interval = doc.interval
  /\ \A doc \in Dataset : \A s : WithoutLayer(doc, s).interval = doc.interval
BY DEF FreshDataset, WithLayer, WithoutLayer, Dataset

\* Writing one witnessed document and leaving the rest of the catalog alone.
LEMMA WitnessWrite ==
  ASSUME WitnessInv, TypeInv', NEW d \in Datasets, NEW doc,
         Witnessed(doc.interval, arrived[d]), docs' = [docs EXCEPT ![d] = doc],
         UNCHANGED <<granules, arrived>>,
         \A p \in Procs : task'[p] = task[p] \/ TaskWitnessed(task[p])'
  PROVE  WitnessInv'
<1>1. \A e \in Datasets : \/ docs'[e] = docs[e]
                          \/ (Registered(e) => Witnessed(docs[e].interval, arrived[e]))'
  BY DEF WitnessInv, TypeInv, TypeOK
<1> QED
  BY <1>1, WitnessFrame

\* Whatever handlers write, and in whatever order, the bounds have arrived.
LEMMA WitnessHandlerStep ==
  ASSUME WitnessInv, TypeInv', NEW p \in Procs,
         Ingest(p) \/ Register(p) \/ Create(p) \/ Publish(p) \/ Delete(p) \/ Abort(p)
  PROVE  WitnessInv'
<1>0. /\ TypeInv /\ task \in [Procs -> TaskState] /\ task[p] \in TaskState
      /\ TaskShape(task[p]) /\ TaskWitnessed(task[p]) /\ TaskWitnessed(Idle)
      /\ \A d \in Datasets : /\ arrived[d] \in SUBSET Instants
                             /\ Registered(d) => /\ docs[d] \in Dataset
                                                 /\ docs[d].interval \in TimeRange
                                                 /\ Witnessed(docs[d].interval, arrived[d])
  BY DEF WitnessInv, IntervalWitnessed, TypeInv, TypeOK, Registered, TaskWitnessed, Idle, Dataset
<1>1. ASSUME NEW state, Begin(p, state), state.doc = None \/ Witnessed(state.doc.interval, arrived[state.ds]),
             state.pc # "ingest_read",
             state.pc = "register_upsert" => GranuleDataset[state.gid] = state.ds,
             UNCHANGED <<docs, granules, arrived>>
      PROVE  WitnessInv'
  <2>1. task'[p] = state /\ \A q \in Procs \ {p} : task'[q] = task[q]
    BY <1>0, <1>1 DEF Begin
  <2>2. TaskWitnessed(task[p])'
    BY <1>1, <2>1 DEF TaskWitnessed
  <2> QED
    BY <1>1, <2>1, <2>2, WitnessFrame
<1>2. ASSUME Finish(p)
      PROVE  TaskWitnessed(task[p])' /\ \A q \in Procs \ {p} : task'[q] = task[q]
  BY <1>0, <1>2 DEF Finish, TaskWitnessed, Idle
<1>3. ASSUME task[p].doc # None
      PROVE  Witnessed(task[p].doc.interval, arrived[task[p].ds])
  BY <1>0, <1>3 DEF TaskWitnessed
<1>4. CASE Ingest(p)
  <2>1. ASSUME NEW g \in Granules, NEW t \in Instants, IngestUpsert(p, g, t)
        PROVE  WitnessInv'
    <3> DEFINE d == GranuleDataset[g]
    <3>1. d \in Datasets
      BY DeploymentAssumption
    <3>2. /\ granules'[g] = t /\ \A h \in Granules \ {g} : granules'[h] = granules[h]
          /\ arrived'[d] = arrived[d] \cup {t}
          /\ \A e \in Datasets \ {d} : arrived'[e] = arrived[e]
      BY <1>0, <2>1, <3>1 DEF IngestUpsert, TypeInv, TypeOK
    <3>3. /\ task'[p].pc = "ingest_read" /\ task'[p].ds = d /\ task'[p].at = t
          /\ task'[p].doc = None
          /\ \A q \in Procs \ {p} : task'[q] = task[q]
      BY <1>0, <2>1 DEF IngestUpsert, Begin, Idle
    <3>4. TaskWitnessed(task[p])'
      BY <3>2, <3>3 DEF TaskWitnessed
    <3> QED
      BY <2>1, <3>2, <3>3, <3>4, WitnessFrame DEF IngestUpsert
  <2>2. CASE IngestRead(p) /\ Finish(p)
    BY <1>2, <2>2, WitnessFrame DEF IngestRead
  <2>3. CASE IngestRead(p) /\ ~Finish(p)
    <3> DEFINE d == task[p].ds
               range == Including(docs[d].interval, task[p].at)
               doc == [docs[d] EXCEPT !.interval = range]
    <3>1. /\ task[p].pc = "ingest_read" /\ Registered(d)
          /\ task' = [task EXCEPT ![p].pc = "ingest_write", ![p].doc = doc]
      BY <2>3 DEF IngestRead
    <3>2. d \in Datasets /\ task[p].at \in arrived[d]
      BY <1>0, <3>1 DEF TaskShape, TaskWitnessed
    <3>3. Witnessed(range, arrived[d])
      BY <1>0, <3>1, <3>2, IncludingWitnessed
    <3> HIDE DEF range
    <3>4. doc.interval = range
      BY <1>0, <3>1, <3>2 DEF Dataset
    <3> HIDE DEF doc
    <3>5. /\ task'[p].pc = "ingest_write" /\ task'[p].doc = doc /\ task'[p].ds = d
          /\ \A q \in Procs \ {p} : task'[q] = task[q]
      BY <1>0, <3>1 DEF TaskState
    <3>6. TaskWitnessed(task[p])'
      BY <2>3, <3>3, <3>4, <3>5 DEF TaskWitnessed, IngestRead
    <3> QED
      BY <2>3, <3>5, <3>6, WitnessFrame DEF IngestRead
  <2>4. CASE IngestWrite(p)
    <3>1. task[p].doc # None /\ task[p].ds \in Datasets
      BY <1>0, <2>4, NoneAssumption DEF IngestWrite, TaskShape
    <3> QED
      BY <1>2, <1>3, <2>4, <3>1, WitnessWrite DEF IngestWrite
  <2> QED
    BY <1>4, <2>1, <2>2, <2>3, <2>4 DEF Ingest
<1>5. CASE Register(p)
  <2>1. ASSUME NEW g \in Granules, NEW t \in Instants, RegisterRead(p, g, t)
        PROVE  WitnessInv'
    <3>1. Witnessed(docs[GranuleDataset[g]].interval, arrived[GranuleDataset[g]])
      BY <1>0, <2>1, DeploymentAssumption DEF RegisterRead
    <3> QED
      BY <1>1, <2>1, <3>1 DEF RegisterRead, Idle
  <2>2. CASE RegisterUpsert(p)
    <3> DEFINE d == task[p].ds
               g == task[p].gid
               t == task[p].at
    <3>1. d \in Datasets /\ g \in Granules /\ t \in Instants /\ GranuleDataset[g] = d
      BY <1>0, <2>2 DEF RegisterUpsert, TaskShape, TaskWitnessed
    <3>2. /\ granules'[g] = t /\ \A h \in Granules \ {g} : granules'[h] = granules[h]
          /\ arrived'[d] = arrived[d] \cup {t}
          /\ \A e \in Datasets \ {d} : arrived'[e] = arrived[e]
      BY <1>0, <2>2, <3>1 DEF RegisterUpsert, TypeInv, TypeOK
    <3>3. /\ task'[p].pc = "register_find" /\ task'[p].ds = d /\ task'[p].doc = task[p].doc
          /\ \A q \in Procs \ {p} : task'[q] = task[q]
      BY <1>0, <2>2 DEF RegisterUpsert, TaskState
    <3>4. TaskWitnessed(task[p])'
      BY <1>3, <3>2, <3>3, WitnessedMonotone DEF TaskWitnessed
    <3> QED
      BY <2>2, <3>1, <3>2, <3>3, <3>4, WitnessFrame DEF RegisterUpsert
  <2>3. CASE RegisterFind(p) /\ Finish(p)
    BY <1>2, <2>3, WitnessFrame DEF RegisterFind
  <2>4. CASE RegisterFind(p) /\ ~Finish(p)
    <3> DEFINE d == task[p].ds
               range == TemporalInterval(TimesOf(d))
    <3>1. d \in Datasets /\ task[p].doc \in Dataset
      BY <1>0, <2>4 DEF RegisterFind, TaskShape
    <3>2. Witnessed(range, arrived[d])
      BY <3>1, FoundHaveArrived, DerivedWitnessed
    <3> HIDE DEF range
    <3>3. task' = [task EXCEPT ![p].pc = "register_write", ![p].doc.interval = range]
      BY <2>4 DEF RegisterFind, range
    <3>4. /\ task'[p].pc = "register_write" /\ task'[p].ds = d
          /\ task'[p].doc.interval = range
          /\ \A q \in Procs \ {p} : task'[q] = task[q]
      BY <1>0, <3>1, <3>3 DEF TaskState, Dataset
    <3>5. TaskWitnessed(task[p])'
      BY <2>4, <3>2, <3>4 DEF TaskWitnessed, RegisterFind
    <3> QED
      BY <2>4, <3>4, <3>5, WitnessFrame DEF RegisterFind
  <2>5. CASE RegisterWrite(p)
    <3>1. task[p].doc # None /\ task[p].ds \in Datasets
      BY <1>0, <2>5, NoneAssumption DEF RegisterWrite, TaskShape
    <3> QED
      BY <1>2, <1>3, <2>5, <3>1, WitnessWrite DEF RegisterWrite
  <2> QED
    BY <1>5, <2>1, <2>2, <2>3, <2>4, <2>5 DEF Register
<1>6. CASE Create(p)
  <2>1. ASSUME NEW d \in Datasets, NEW b \in Bodies, CreateCheck(p, d, b)
        PROVE  WitnessInv'
    <3>1. Witnessed(FreshDataset(b).interval, arrived[d])
      BY LayersKeepInterval DEF Witnessed
    <3> QED
      BY <1>1, <2>1, <3>1 DEF CreateCheck, Idle
  <2>2. CASE CreateWrite(p)
    <3>1. task[p].doc # None /\ task[p].ds \in Datasets
      BY <1>0, <2>2, NoneAssumption DEF CreateWrite, TaskShape
    <3> QED
      BY <1>2, <1>3, <2>2, <3>1, WitnessWrite DEF CreateWrite
  <2> QED
    BY <1>6, <2>1, <2>2 DEF Create
<1>7. CASE Publish(p)
  <2>1. ASSUME NEW s \in Services, PublishRead(p, s)
        PROVE  WitnessInv'
    <3>1. Witnessed(docs[ServiceDataset[s]].interval, arrived[ServiceDataset[s]])
      BY <1>0, <2>1, DeploymentAssumption DEF PublishRead
    <3> QED
      BY <1>1, <2>1, <3>1 DEF PublishRead, Idle
  <2>2. CASE PublishLower(p) \/ PublishPersist(p)
    <3>1. /\ task'[p].doc = task[p].doc /\ task'[p].ds = task[p].ds
          /\ task'[p].pc \in {"publish_persist", "publish_write"}
          /\ \A q \in Procs \ {p} : task'[q] = task[q]
      BY <1>0, <2>2 DEF PublishLower, PublishPersist, TaskState
    <3>2. TaskWitnessed(task[p])'
      BY <1>3, <2>2, <3>1 DEF TaskWitnessed, PublishLower, PublishPersist
    <3> QED
      BY <2>2, <3>1, <3>2, WitnessFrame DEF PublishLower, PublishPersist
  <2>3. CASE PublishWrite(p)
    <3> DEFINE doc == WithLayer(task[p].doc, task[p].svc, task[p].plan)
    <3>1. /\ task[p].ds \in Datasets /\ task[p].doc # None
          /\ doc.interval = task[p].doc.interval
      BY <1>0, <2>3, NoneAssumption, LayersKeepInterval DEF PublishWrite, TaskShape
    <3>2. TaskWitnessed(task[p])' /\ \A q \in Procs \ {p} : task'[q] = task[q]
      BY <1>0, <2>3 DEF PublishWrite, TaskWitnessed, TaskState
    <3> QED
      BY <1>3, <2>3, <3>1, <3>2, WitnessWrite DEF PublishWrite
  <2>4. CASE PublishInsert(p)
    BY <1>2, <2>4, WitnessFrame DEF PublishInsert
  <2> QED
    BY <1>7, <2>1, <2>2, <2>3, <2>4 DEF Publish
<1>8. CASE Delete(p)
  <2>1. ASSUME NEW s \in Services, DeleteRead(p, s)
        PROVE  WitnessInv'
    <3>1. Witnessed(docs[ServiceDataset[s]].interval, arrived[ServiceDataset[s]])
      BY <1>0, <2>1, DeploymentAssumption DEF DeleteRead, Listed
    <3> QED
      BY <1>1, <2>1, <3>1 DEF DeleteRead, Idle
  <2>2. CASE DeleteWrite(p)
    <3> DEFINE doc == WithoutLayer(task[p].doc, task[p].svc)
    <3>1. /\ task[p].ds \in Datasets /\ task[p].doc # None
          /\ doc.interval = task[p].doc.interval
      BY <1>0, <2>2, NoneAssumption, LayersKeepInterval DEF DeleteWrite, TaskShape
    <3>2. TaskWitnessed(task[p])' /\ \A q \in Procs \ {p} : task'[q] = task[q]
      BY <1>0, <2>2 DEF DeleteWrite, TaskWitnessed, TaskState
    <3> QED
      BY <1>3, <2>2, <3>1, <3>2, WitnessWrite DEF DeleteWrite
  <2>3. CASE DeleteRemove(p)
    BY <1>2, <2>3, WitnessFrame DEF DeleteRemove
  <2> QED
    BY <1>8, <2>1, <2>2, <2>3 DEF Delete
<1>9. CASE Abort(p)
  BY <1>2, <1>9, WitnessFrame DEF Abort
<1> QED
  BY <1>4, <1>5, <1>6, <1>7, <1>8, <1>9

\* Start-up derives the bounds from granules there are.
LEMMA WitnessBootStep ==
  ASSUME WitnessInv, TypeInv', Crash \/ Boot
  PROVE  WitnessInv'
<1>1. CASE Crash
  <2>1. TaskWitnessed(Idle)'
    BY DEF TaskWitnessed, Idle
  <2> QED
    BY <1>1, <2>1, WitnessFrame DEF Crash
<1>2. ASSUME NEW d \in Datasets, BootRegister(d)
      PROVE  WitnessInv'
  <2>1. PICK doc : /\ docs' = [docs EXCEPT ![d] = doc]
                   /\ doc.interval \in {NoGranuleYet, TemporalInterval(TimesOf(d))}
    BY <1>2, LayersKeepInterval, DeploymentAssumption DEF BootRegister
  <2>2. Witnessed(doc.interval, arrived[d])
    BY <2>1, FoundHaveArrived, DerivedWitnessed DEF Witnessed
  <2> QED
    BY <1>2, <2>1, <2>2, WitnessWrite DEF BootRegister
<1>3. ASSUME BootRegistered \/ BootUp \/ \E d \in Datasets : BootRestore(d)
      PROVE  WitnessInv'
  BY <1>3, WitnessFrame DEF BootRegistered, BootUp, BootRestore
<1> QED
  BY <1>1, <1>2, <1>3 DEF Boot

LEMMA WitnessInit == Init => WitnessInv
<1> SUFFICES ASSUME Init PROVE WitnessInv
  OBVIOUS
<1>1. TypeInv
  BY TypeInit
<1>2. TaskWitnessed(Idle)
  BY DEF TaskWitnessed, Idle
<1> QED
  BY <1>1, <1>2 DEF Init, WitnessInv, IntervalWitnessed, Registered

LEMMA WitnessStep == WitnessInv /\ [Next]_vars => WitnessInv'
<1> SUFFICES ASSUME WitnessInv, [Next]_vars PROVE WitnessInv'
  OBVIOUS
<1>1. TypeInv'
  BY TypeStep DEF WitnessInv
<1>2. CASE UNCHANGED vars
  BY <1>1, <1>2, WitnessFrame DEF vars
<1>3. CASE Next
  BY <1>1, <1>3, WitnessHandlerStep, WitnessBootStep DEF Next
<1> QED
  BY <1>2, <1>3

\* However the whole-document writes interleave, a stored interval is open or
\* runs between two datetimes that granules of the dataset carried.
THEOREM IntervalsWitnessed == Spec => []IntervalWitnessed
<1>1. WitnessInv => IntervalWitnessed
  BY DEF WitnessInv
<1> QED
  BY <1>1, WitnessInit, WitnessStep, PTL DEF Spec

------------------------------------------------------------------------------
(* Start-up *)

\* Start-up is done with dataset d.
Done(d) ==
  \/ boot.phase = "register" /\ d \in ConfigDatasets \ boot.todo
  \/ boot.phase = "restore" /\ d \notin boot.todo

\* What start-up has made of service s by then: only a dataset that came
\* through the API may lose a service, and only to the module store.
Restored(s) ==
  /\ Done(ServiceDataset[s]) =>
       \/ served[s] = Listed(s)
       \/ /\ served[s] = Unpublished /\ faults.outage > 0
          /\ ServiceDataset[s] \notin ConfigDatasets
  /\ boot.phase # "up" /\ ~Done(ServiceDataset[s]) => served[s] = Unpublished

\* A granule is only ever taken in for a dataset that is registered.
Homes ==
  /\ \A g \in Granules : granules[g] # Absent => Registered(GranuleDataset[g])
  /\ \A p \in Procs : task[p].pc = "register_upsert" => Registered(task[p].ds)

\* The configured datasets come first, and no request before all is done.
Phases ==
  /\ boot.phase = "register" => boot.todo \subseteq ConfigDatasets
  /\ boot.phase = "restore" => boot.todo \cap ConfigDatasets = {}
  /\ boot.phase # "up" => \A p \in Procs : task[p] = Idle

\* A configured dataset that start-up is done with stays registered, and its
\* interval is the derived one until the first request.
Configured ==
  \A d \in ConfigDatasets :
    /\ Done(d) \/ boot.phase = "up" => Registered(d)
    /\ Done(d) => docs[d].interval = TemporalInterval(TimesOf(d))

BootInv ==
  /\ ModuleInv /\ WitnessInv
  /\ Homes /\ Phases /\ Configured
  /\ \A s \in Services : Restored(s)

\* Layers that name modules of the store rehydrate, unless the store fails.
LEMMA RehydrationKeeps ==
  ASSUME ModuleInv, NEW d \in Datasets, Registered(d), NEW failing \in SUBSET Services,
         Rehydration(docs[d], failing)
  PROVE  /\ Carried(docs[d], failing) \in [Services -> LayerSlot]
         /\ \A s \in Services : \/ Carried(docs[d], failing)[s] = docs[d].layers[s]
                                \/ /\ Carried(docs[d], failing)[s] = Unpublished
                                   /\ faults'.outage > 0
         /\ faults'.abort = faults.abort /\ faults'.outage >= faults.outage
<1>1. /\ docs[d] \in Dataset /\ Resolves(docs[d].layers) /\ TypeInv
      /\ faults \in [crash : 0..MaxCrashes, abort : 0..MaxAborts, outage : 0..MaxOutages]
  BY DEF ModuleInv, TypeInv, TypeOK, Registered
<1>2. Carried(docs[d], failing) \in [Services -> LayerSlot]
  BY <1>1, RehydrationType
<1>3. \A s \in Services :
        Carried(docs[d], failing)[s] = IF s \in failing THEN Unpublished ELSE docs[d].layers[s]
  BY DEF Carried
<1>4. CASE faults' = faults
  <2>1. ASSUME NEW n \in Nat, n > 0 PROVE n + 1 > 0
    OBVIOUS
  <2>2. \A s \in Services : docs[d].layers[s] \in Modules => docs[d].layers[s] \in moduleStore
    BY <1>1 DEF Resolves
  <2>3. CASE failing = {}
    BY <1>1, <1>2, <1>3, <1>4, <2>3, DeploymentAssumption
  <2>4. CASE failing # {}
    <3>1. {s \in {r \in Services : docs[d].layers[r] \in Modules} : docs[d].layers[s] \notin moduleStore} = {}
      BY <2>2
    <3>2. faults' # faults
      <4>1. /\ faults.outage < MaxOutages
            /\ faults' = [faults EXCEPT !.outage = faults.outage + 1]
        BY <2>4, <3>1 DEF Rehydration
      <4>2. faults.outage \in Nat /\ faults'.outage = faults.outage + 1
        BY <1>1, <4>1
      <4> QED
        BY <4>2
    <3> QED
      BY <1>4, <3>2
  <2> QED
    BY <2>3, <2>4
<1>5. CASE faults' # faults
  <2>1. faults' = [faults EXCEPT !.outage = faults.outage + 1]
    BY <1>5 DEF Rehydration
  <2>2. /\ faults.outage \in Nat /\ faults'.outage = faults.outage + 1
        /\ faults'.abort = faults.abort
    BY <1>1, <2>1
  <2> QED
    BY <1>2, <1>3, <2>2
<1> QED
  BY <1>4, <1>5

\* What registering a configured dataset does: one document is written, with
\* the derived interval, and its services are served as it lists them.
LEMMA BootRegisters ==
  ASSUME ModuleInv, NEW d \in Datasets, BootRegister(d)
  PROVE  /\ boot.phase = "register" /\ d \in boot.todo
         /\ boot'.phase = "register" /\ boot'.todo = boot.todo \ {d}
         /\ UNCHANGED <<granules, moduleStore, task, promise, arrived>>
         /\ faults'.abort = faults.abort /\ faults'.outage >= faults.outage
         /\ \E doc \in Dataset :
              /\ docs' = [docs EXCEPT ![d] = doc]
              /\ doc.body = ConfigBody
              /\ Registered(d) => doc.interval = TemporalInterval(TimesOf(d))
              /\ ~Registered(d) => doc.interval = NoGranuleYet /\ doc.layers = NoLayers
              /\ Registered(d) => \A s \in Services :
                   \/ doc.layers[s] = docs[d].layers[s]
                   \/ doc.layers[s] = Unpublished /\ faults'.outage > 0
              /\ \A s \in Services :
                   served'[s] = IF Registered(d) /\ ServiceDataset[s] = d
                                THEN doc.layers[s] ELSE served[s]
<1> USE DeploymentAssumption
<1>1. /\ boot \in [phase : {"register", "restore", "up"}, todo : SUBSET Datasets]
      /\ faults \in [crash : 0..MaxCrashes, abort : 0..MaxAborts, outage : 0..MaxOutages]
      /\ TypeInv
  BY DEF ModuleInv, TypeInv, TypeOK
<1>2. /\ boot.phase = "register" /\ d \in boot.todo
      /\ boot'.phase = "register" /\ boot'.todo = boot.todo \ {d}
      /\ UNCHANGED <<granules, moduleStore, task, promise, arrived>>
  <2>1. boot' = [boot EXCEPT !.todo = boot.todo \ {d}]
    BY DEF BootRegister
  <2> QED
    BY <1>1, <2>1 DEF BootRegister
<1>3. CASE Registered(d)
  <2>1. PICK failing \in SUBSET Services :
          /\ Rehydration(docs[d], failing)
          /\ docs' = [docs EXCEPT ![d] =
                        [body |-> ConfigBody, layers |-> Carried(docs[d], failing),
                         interval |-> TemporalInterval(TimesOf(d))]]
          /\ served' = ServeAlso(d, Carried(docs[d], failing))
    BY <1>3 DEF BootRegister
  <2> DEFINE layers == Carried(docs[d], failing)
             range == TemporalInterval(TimesOf(d))
             doc == [body |-> ConfigBody, layers |-> layers, interval |-> range]
  <2>2. /\ layers \in [Services -> LayerSlot]
        /\ \A s \in Services : \/ layers[s] = docs[d].layers[s]
                               \/ layers[s] = Unpublished /\ faults'.outage > 0
        /\ faults'.abort = faults.abort /\ faults'.outage >= faults.outage
    BY <1>3, <2>1, RehydrationKeeps
  <2>3. range \in TimeRange
    BY <1>1, TimesOfType, TemporalIntervalType DEF TypeInv
  <2>4. \A s \in Services :
          served'[s] = IF ServiceDataset[s] = d THEN layers[s] ELSE served[s]
    BY <2>1 DEF ServeAlso
  <2> HIDE DEF layers, range
  <2>5. doc \in Dataset /\ doc.body = ConfigBody /\ doc.layers = layers /\ doc.interval = range
    BY <2>2, <2>3 DEF Dataset
  <2>6. docs' = [docs EXCEPT ![d] = doc]
    BY <2>1 DEF layers, range
  <2> HIDE DEF doc
  <2> QED
    BY <1>2, <1>3, <2>2, <2>4, <2>5, <2>6 DEF range
<1>4. CASE ~Registered(d)
  <2> DEFINE doc == FreshDataset(ConfigBody)
  <2>1. doc \in Dataset /\ doc.body = ConfigBody /\ doc.layers = NoLayers /\ doc.interval = NoGranuleYet
    BY DocumentTypes DEF FreshDataset
  <2>2. docs' = [docs EXCEPT ![d] = doc] /\ UNCHANGED <<served, faults>>
    BY <1>4 DEF BootRegister
  <2> HIDE DEF doc
  <2>3. faults'.abort = faults.abort /\ faults'.outage >= faults.outage
    BY <1>1, <2>2
  <2> QED
    BY <1>2, <1>4, <2>1, <2>2, <2>3
<1> QED
  BY <1>3, <1>4

\* What restoring the services of another dataset does: they are served as
\* the catalog lists them, but for those the module store failed.
LEMMA BootRestores ==
  ASSUME ModuleInv, NEW d \in Datasets, BootRestore(d)
  PROVE  /\ boot.phase = "restore" /\ d \in boot.todo
         /\ boot'.phase = "restore" /\ boot'.todo = boot.todo \ {d}
         /\ UNCHANGED <<docs, granules, moduleStore, task, promise, arrived>>
         /\ faults'.abort = faults.abort /\ faults'.outage >= faults.outage
         /\ \A s \in Services : IF Registered(d) /\ ServiceDataset[s] = d
              THEN \/ served'[s] = docs[d].layers[s]
                   \/ served'[s] = Unpublished /\ faults'.outage > 0
              ELSE served'[s] = served[s]
<1> USE DeploymentAssumption
<1>1. /\ boot \in [phase : {"register", "restore", "up"}, todo : SUBSET Datasets]
      /\ faults \in [crash : 0..MaxCrashes, abort : 0..MaxAborts, outage : 0..MaxOutages]
  BY DEF ModuleInv, TypeInv, TypeOK
<1>2. /\ boot.phase = "restore" /\ d \in boot.todo
      /\ boot'.phase = "restore" /\ boot'.todo = boot.todo \ {d}
      /\ UNCHANGED <<docs, granules, moduleStore, task, promise, arrived>>
  <2>1. boot' = [boot EXCEPT !.todo = boot.todo \ {d}]
    BY DEF BootRestore
  <2> QED
    BY <1>1, <2>1 DEF BootRestore
<1>3. CASE Registered(d)
  <2>1. PICK failing \in SUBSET Services :
          Rehydration(docs[d], failing) /\ served' = ServeAlso(d, Carried(docs[d], failing))
    BY <1>3 DEF BootRestore
  <2> DEFINE layers == Carried(docs[d], failing)
  <2>2. /\ \A s \in Services : \/ layers[s] = docs[d].layers[s]
                               \/ layers[s] = Unpublished /\ faults'.outage > 0
        /\ faults'.abort = faults.abort /\ faults'.outage >= faults.outage
    BY <1>3, <2>1, RehydrationKeeps
  <2>3. \A s \in Services :
          served'[s] = IF ServiceDataset[s] = d THEN layers[s] ELSE served[s]
    BY <2>1 DEF ServeAlso
  <2> HIDE DEF layers
  <2> QED
    BY <1>2, <1>3, <2>2, <2>3
<1>4. CASE ~Registered(d)
  <2>1. UNCHANGED <<served, faults>>
    BY <1>4 DEF BootRestore
  <2>2. faults'.abort = faults.abort /\ faults'.outage >= faults.outage
    BY <1>1, <2>1
  <2> QED
    BY <1>2, <1>4, <2>1, <2>2
<1> QED
  BY <1>3, <1>4

\* No step takes a document out of the catalog.
LEMMA NeverForgotten ==
  ASSUME ModuleInv, [Next]_vars, NEW d \in Datasets, Registered(d)
  PROVE  Registered(d)'
<1> USE NoneAssumption, DeploymentAssumption
<1>0. /\ docs \in [Datasets -> Dataset \cup {Absent}]
      /\ \A p \in Procs : TaskShape(task[p])
  BY DEF ModuleInv, TypeInv, TypeOK
<1>1. ASSUME NEW e \in Datasets, NEW doc \in Dataset, docs' = [docs EXCEPT ![e] = doc]
      PROVE  Registered(d)'
  BY <1>0, <1>1 DEF Registered
<1>2. CASE UNCHANGED docs
  BY <1>2 DEF Registered
<1>3. ASSUME NEW p \in Procs, IngestWrite(p) \/ RegisterWrite(p) \/ CreateWrite(p)
      PROVE  Registered(d)'
  <2>1. /\ task[p].ds \in Datasets /\ task[p].doc \in Dataset
        /\ docs' = [docs EXCEPT ![task[p].ds] = task[p].doc]
    BY <1>0, <1>3 DEF IngestWrite, RegisterWrite, CreateWrite, TaskShape
  <2> QED
    BY <1>1, <2>1
<1>4. ASSUME NEW p \in Procs, PublishWrite(p)
      PROVE  Registered(d)'
  <2> DEFINE doc == WithLayer(task[p].doc, task[p].svc, task[p].plan)
  <2>1. task[p].ds \in Datasets /\ doc \in Dataset
    BY <1>0, <1>4, DocumentTypes DEF PublishWrite, TaskShape
  <2> QED
    BY <1>1, <1>4, <2>1 DEF PublishWrite
<1>5. ASSUME NEW p \in Procs, DeleteWrite(p)
      PROVE  Registered(d)'
  <2> DEFINE doc == WithoutLayer(task[p].doc, task[p].svc)
  <2>1. task[p].ds \in Datasets /\ doc \in Dataset
    BY <1>0, <1>5, DocumentTypes DEF DeleteWrite, TaskShape
  <2> QED
    BY <1>1, <1>5, <2>1 DEF DeleteWrite
<1>6. ASSUME NEW e \in Datasets, BootRegister(e)
      PROVE  Registered(d)'
  BY <1>1, <1>6, BootRegisters
<1> QED
  BY <1>2, <1>3, <1>4, <1>5, <1>6
  DEF Next, vars, Ingest, Register, Create, Publish, Delete, Boot, Crash, Abort,
      IngestUpsert, IngestRead, RegisterRead, RegisterUpsert, RegisterFind, CreateCheck,
      PublishRead, PublishLower, PublishPersist, PublishInsert, DeleteRead, DeleteRemove,
      BootRegistered, BootRestore, BootUp
\* Until start-up is over no handler takes a step.
LEMMA HandlersWait ==
  ASSUME TypeInv, Phases, NEW p \in Procs,
         Ingest(p) \/ Register(p) \/ Create(p) \/ Publish(p) \/ Delete(p) \/ Abort(p)
  PROVE  boot.phase = "up" /\ UNCHANGED boot
<1>1. UNCHANGED boot
  BY DEF Ingest, Register, Create, Publish, Delete, Abort, IngestUpsert, IngestRead, IngestWrite,
         RegisterRead, RegisterUpsert, RegisterFind, RegisterWrite, CreateCheck, CreateWrite,
         PublishRead, PublishLower, PublishPersist, PublishWrite, PublishInsert,
         DeleteRead, DeleteWrite, DeleteRemove
<1>2. CASE boot.phase # "up"
  <2>1. task[p].pc = "idle"
    BY <1>2 DEF Phases, Idle
  <2> QED
    BY <1>2, <2>1
    DEF Ingest, Register, Create, Publish, Delete, Abort, IngestUpsert, IngestRead, IngestWrite,
        RegisterRead, RegisterUpsert, RegisterFind, RegisterWrite, CreateCheck, CreateWrite,
        PublishRead, PublishLower, PublishPersist, PublishWrite, PublishInsert,
        DeleteRead, DeleteWrite, DeleteRemove, Begin
<1> QED
  BY <1>1, <1>2

\* Every step keeps granules with registered datasets.
LEMMA HomesStep ==
  ASSUME ModuleInv, WitnessInv, Homes, [Next]_vars
  PROVE  Homes'
<1> USE DeploymentAssumption
<1>0. /\ TypeInv /\ task \in [Procs -> TaskState]
      /\ granules \in [Granules -> Instants \cup {Absent}]
      /\ \A d \in Datasets : Registered(d) => Registered(d)'
      /\ \A p \in Procs : /\ TaskShape(task[p]) /\ TaskWitnessed(task[p])
                          /\ task[p].pc = "register_upsert" => Registered(task[p].ds)
      /\ Idle.pc # "register_upsert"
  BY NeverForgotten DEF WitnessInv, TypeInv, TypeOK, Homes, Idle
<1>1. ASSUME \A g \in Granules : granules'[g] = granules[g] \/ Registered(GranuleDataset[g]),
             \A p \in Procs : \/ task'[p] = task[p]
                              \/ task'[p].pc # "register_upsert"
                              \/ task'[p].ds \in Datasets /\ Registered(task'[p].ds)
      PROVE  Homes'
  <2>1. \A g \in Granules : granules'[g] # Absent => Registered(GranuleDataset[g])'
    BY <1>0, <1>1 DEF Homes
  <2>2. \A p \in Procs : task'[p].pc = "register_upsert" => task'[p].ds \in Datasets /\ Registered(task'[p].ds)
    BY <1>0, <1>1 DEF TaskShape
  <2>3. \A p \in Procs : task'[p].pc = "register_upsert" => docs'[task'[p].ds] # Absent
    BY <1>0, <2>2 DEF Registered
  <2> QED
    BY <2>1, <2>3 DEF Homes, Registered
<1>2. CASE UNCHANGED <<granules, task>>
  BY <1>1, <1>2
<1>3. ASSUME NEW p \in Procs, NEW state, task' = [task EXCEPT ![p] = state],
             UNCHANGED granules,
             state.pc # "register_upsert" \/ (state.ds \in Datasets /\ Registered(state.ds))
      PROVE  Homes'
  BY <1>0, <1>1, <1>3
<1>4. ASSUME NEW p \in Procs, Finish(p), UNCHANGED granules
      PROVE  Homes'
  BY <1>0, <1>3, <1>4 DEF Finish
<1>5. ASSUME NEW p \in Procs, NEW g \in Granules, NEW t \in Instants, IngestUpsert(p, g, t)
      PROVE  Homes'
  <2>1. /\ Registered(GranuleDataset[g])
        /\ \A h \in Granules \ {g} : granules'[h] = granules[h]
        /\ task'[p].pc = "ingest_read" /\ \A q \in Procs \ {p} : task'[q] = task[q]
    BY <1>0, <1>5 DEF IngestUpsert, Begin, Idle
  <2> QED
    BY <1>1, <2>1
<1>6. ASSUME NEW p \in Procs, NEW g \in Granules, NEW t \in Instants, RegisterRead(p, g, t)
      PROVE  Homes'
  <2>1. /\ Registered(GranuleDataset[g]) /\ GranuleDataset[g] \in Datasets
        /\ task'[p].ds = GranuleDataset[g] /\ UNCHANGED granules
        /\ \A q \in Procs \ {p} : task'[q] = task[q]
    BY <1>0, <1>6 DEF RegisterRead, Begin, Idle
  <2> QED
    BY <1>1, <2>1
<1>7. ASSUME NEW p \in Procs, RegisterUpsert(p)
      PROVE  Homes'
  <2>1. /\ Registered(GranuleDataset[task[p].gid]) /\ task[p].gid \in Granules
        /\ \A h \in Granules \ {task[p].gid} : granules'[h] = granules[h]
        /\ task'[p].pc = "register_find" /\ \A q \in Procs \ {p} : task'[q] = task[q]
    BY <1>0, <1>7 DEF RegisterUpsert, TaskShape, TaskWitnessed
  <2> QED
    BY <1>1, <2>1
<1>8. ASSUME NEW p \in Procs, IngestRead(p) \/ RegisterFind(p) \/ PublishLower(p)
                              \/ PublishPersist(p) \/ PublishWrite(p) \/ DeleteWrite(p)
      PROVE  Homes'
  <2>1. UNCHANGED granules
    BY <1>8 DEF IngestRead, RegisterFind, PublishLower, PublishPersist, PublishWrite, DeleteWrite
  <2>2. Finish(p) \/ (task'[p].pc # "register_upsert" /\ \A q \in Procs \ {p} : task'[q] = task[q])
    BY <1>0, <1>8
    DEF IngestRead, RegisterFind, PublishLower, PublishPersist, PublishWrite, DeleteWrite, TaskState
  <2> QED
    BY <1>1, <1>4, <2>1, <2>2
<1>9. ASSUME NEW p \in Procs,
             \/ \E d \in Datasets, b \in Bodies : CreateCheck(p, d, b)
             \/ \E s \in Services : PublishRead(p, s) \/ DeleteRead(p, s)
      PROVE  Homes'
  <2>1. UNCHANGED granules
    BY <1>9 DEF CreateCheck, PublishRead, DeleteRead
  <2>2. \E pc \in {"create_write", "publish_lower", "delete_write"} :
          task'[p].pc = pc /\ \A q \in Procs \ {p} : task'[q] = task[q]
    BY <1>0, <1>9 DEF CreateCheck, PublishRead, DeleteRead, Begin, Idle
  <2> QED
    BY <1>1, <2>1, <2>2
<1>10. CASE Crash
  BY <1>0, <1>1, <1>10 DEF Crash
<1> QED
  BY <1>2, <1>4, <1>5, <1>6, <1>7, <1>8, <1>9, <1>10
  DEF Next, vars, Ingest, Register, Create, Publish, Delete, Boot, Abort,
      IngestWrite, RegisterWrite, CreateWrite, PublishInsert, DeleteRemove,
      BootRegister, BootRegistered, BootRestore, BootUp

\* Registering a configured dataset.
LEMMA BootRegisterStep ==
  ASSUME BootInv, NEW d \in Datasets, BootRegister(d), ModuleInv', WitnessInv', Homes'
  PROVE  BootInv'
<1> USE DeploymentAssumption
<1>0. /\ ModuleInv /\ TypeInv /\ docs \in [Datasets -> Dataset \cup {Absent}]
      /\ served \in [Services -> LayerSlot]
      /\ faults \in [crash : 0..MaxCrashes, abort : 0..MaxAborts, outage : 0..MaxOutages]
      /\ faults' \in [crash : 0..MaxCrashes, abort : 0..MaxAborts, outage : 0..MaxOutages]
  BY DEF BootInv, ModuleInv, TypeInv, TypeOK
<1>1. /\ boot.phase = "register" /\ d \in boot.todo
      /\ boot'.phase = "register" /\ boot'.todo = boot.todo \ {d}
      /\ UNCHANGED <<granules, moduleStore, task, promise, arrived>>
      /\ faults'.abort = faults.abort /\ faults'.outage >= faults.outage
  BY <1>0, BootRegisters
<1>2. PICK doc \in Dataset :
        /\ docs' = [docs EXCEPT ![d] = doc]
        /\ Registered(d) => doc.interval = TemporalInterval(TimesOf(d))
        /\ ~Registered(d) => doc.interval = NoGranuleYet /\ doc.layers = NoLayers
        /\ \A s \in Services :
             served'[s] = IF Registered(d) /\ ServiceDataset[s] = d
                          THEN doc.layers[s] ELSE served[s]
  BY <1>0, BootRegisters
<1>3. d \in ConfigDatasets /\ docs'[d] = doc /\ \A e \in Datasets \ {d} : docs'[e] = docs[e]
  BY <1>0, <1>1, <1>2 DEF BootInv, Phases
<1>4. Phases'
  BY <1>1 DEF BootInv, Phases
<1>5. \A e \in Datasets : Done(e)' <=> Done(e) \/ e = d
  BY <1>1, <1>3 DEF Done
<1>6. ~Done(d) /\ Registered(d)'
  BY <1>0, <1>1, <1>3, NoneAssumption DEF Done, Registered
<1>7. Configured'
  <2> SUFFICES ASSUME NEW e \in ConfigDatasets, Done(e)'
               PROVE  Registered(e)' /\ (docs[e].interval = TemporalInterval(TimesOf(e)))'
    BY <1>1 DEF Configured
  <2>1. CASE e = d
    <3>1. ~Registered(d) => TimesOf(d) = {}
      BY DEF BootInv, Homes, TimesOf
    <3>2. doc.interval = TemporalInterval(TimesOf(d))
      BY <1>2, <3>1 DEF TemporalInterval
    <3>3. TimesOf(d)' = TimesOf(d)
      BY <1>1 DEF TimesOf
    <3> QED
      BY <1>3, <1>6, <2>1, <3>2, <3>3
  <2>2. CASE e # d
    <3>1. /\ Registered(e) /\ docs[e].interval = TemporalInterval(TimesOf(e))
          /\ docs'[e] = docs[e]
      BY <1>3, <1>5, <2>2 DEF BootInv, Configured
    <3> QED
      BY <1>1, <3>1 DEF Registered, TimesOf
  <2> QED
    BY <2>1, <2>2
<1>8. ASSUME NEW s \in Services
      PROVE  Restored(s)'
  <2>0. ServiceDataset[s] \in Datasets /\ Restored(s)
    BY DEF BootInv
  <2>1. CASE ServiceDataset[s] = d
    <3>1. Listed(s)' = doc.layers[s]
      BY <1>3, <1>6, <2>1 DEF Listed
    <3>2. CASE Registered(d)
      BY <1>2, <1>5, <2>1, <3>1, <3>2 DEF Restored
    <3>3. CASE ~Registered(d)
      <4>1. served'[s] = served[s] /\ doc.layers[s] = Unpublished
        BY <1>2, <3>3 DEF NoLayers
      <4>2. served[s] = Unpublished
        BY <1>1, <1>6, <2>0, <2>1 DEF Restored
      <4> QED
        BY <1>5, <2>1, <3>1, <4>1, <4>2 DEF Restored
    <3> QED
      BY <3>2, <3>3
  <2>2. CASE ServiceDataset[s] # d
    <3>1. served'[s] = served[s] /\ Listed(s)' = Listed(s)
      BY <1>2, <1>3, <2>0, <2>2 DEF Listed, Registered
    <3>2. Done(ServiceDataset[s])' <=> Done(ServiceDataset[s])
      BY <1>5, <2>0, <2>2
    <3>3. faults.outage > 0 => faults'.outage > 0
      BY <1>0, <1>1
    <3>4. Done(ServiceDataset[s]) => \/ served'[s] = Listed(s)'
                                     \/ /\ served'[s] = Unpublished /\ faults'.outage > 0
                                        /\ ServiceDataset[s] \notin ConfigDatasets
      BY <2>0, <3>1, <3>3 DEF Restored
    <3>5. ~Done(ServiceDataset[s]) => served'[s] = Unpublished
      BY <1>1, <2>0, <3>1 DEF Restored
    <3> QED
      BY <3>2, <3>4, <3>5 DEF Restored
  <2> QED
    BY <2>1, <2>2
<1> QED
  BY <1>4, <1>7, <1>8 DEF BootInv

\* Restoring the services of another dataset.
LEMMA BootRestoreStep ==
  ASSUME BootInv, NEW d \in Datasets, BootRestore(d), ModuleInv', WitnessInv', Homes'
  PROVE  BootInv'
<1> USE DeploymentAssumption
<1>0. /\ ModuleInv
      /\ faults \in [crash : 0..MaxCrashes, abort : 0..MaxAborts, outage : 0..MaxOutages]
      /\ faults' \in [crash : 0..MaxCrashes, abort : 0..MaxAborts, outage : 0..MaxOutages]
  BY DEF BootInv, ModuleInv, TypeInv, TypeOK
<1>1. /\ boot.phase = "restore" /\ d \in boot.todo
      /\ boot'.phase = "restore" /\ boot'.todo = boot.todo \ {d}
      /\ UNCHANGED <<docs, granules, moduleStore, task, promise, arrived>>
      /\ faults'.abort = faults.abort /\ faults'.outage >= faults.outage
      /\ \A s \in Services : IF Registered(d) /\ ServiceDataset[s] = d
           THEN \/ served'[s] = docs[d].layers[s]
                \/ served'[s] = Unpublished /\ faults'.outage > 0
           ELSE served'[s] = served[s]
  BY <1>0, BootRestores
<1>2. d \notin ConfigDatasets
  BY <1>1 DEF BootInv, Phases
<1>3. Phases'
  BY <1>1 DEF BootInv, Phases
<1>4. \A e \in Datasets : Done(e)' <=> Done(e) \/ e = d
  BY <1>1 DEF Done
<1>5. ~Done(d)
  BY <1>1 DEF Done
<1>6. Configured'
  BY <1>1, <1>2, <1>4 DEF BootInv, Configured, Registered, TimesOf
<1>7. ASSUME NEW s \in Services
      PROVE  Restored(s)'
  <2>0. ServiceDataset[s] \in Datasets /\ Restored(s) /\ Listed(s)' = Listed(s)
    BY <1>1 DEF BootInv, Listed, Registered
  <2>1. CASE ServiceDataset[s] = d
    <3>1. CASE Registered(d)
      BY <1>1, <1>2, <1>4, <2>0, <2>1, <3>1 DEF Restored, Listed
    <3>2. CASE ~Registered(d)
      <4>1. served'[s] = Unpublished /\ Listed(s) = Unpublished
        BY <1>1, <1>5, <2>0, <2>1, <3>2 DEF Restored, Listed
      <4> QED
        BY <1>4, <2>0, <2>1, <4>1 DEF Restored
    <3> QED
      BY <3>1, <3>2
  <2>2. CASE ServiceDataset[s] # d
    <3>1. served'[s] = served[s]
      BY <1>1, <2>2
    <3>2. Done(ServiceDataset[s])' <=> Done(ServiceDataset[s])
      BY <1>4, <2>0, <2>2
    <3>3. faults.outage > 0 => faults'.outage > 0
      BY <1>0, <1>1
    <3>4. Done(ServiceDataset[s]) => \/ served'[s] = Listed(s)'
                                     \/ /\ served'[s] = Unpublished /\ faults'.outage > 0
                                        /\ ServiceDataset[s] \notin ConfigDatasets
      BY <2>0, <3>1, <3>3 DEF Restored
    <3>5. ~Done(ServiceDataset[s]) => served'[s] = Unpublished
      BY <1>1, <2>0, <3>1 DEF Restored
    <3> QED
      BY <3>2, <3>4, <3>5 DEF Restored
  <2> QED
    BY <2>1, <2>2
<1> QED
  BY <1>3, <1>6, <1>7 DEF BootInv

LEMMA BootInit == Init => BootInv
<1> SUFFICES ASSUME Init PROVE BootInv
  OBVIOUS
<1>1. ModuleInv /\ WitnessInv
  BY ModuleInit, WitnessInit
<1>2. Homes /\ Phases
  BY DEF Init, Homes, Phases, Idle
<1>3. boot.phase = "register" /\ boot.todo = ConfigDatasets
  BY DEF Init
<1>4. \A d : ~Done(d)
  BY <1>3 DEF Done
<1>5. Configured /\ \A s \in Services : Restored(s)
  BY <1>3, <1>4 DEF Init, Configured, Restored
<1> QED
  BY <1>1, <1>2, <1>5 DEF BootInv

LEMMA BootStep == BootInv /\ [Next]_vars => BootInv'
<1> USE DeploymentAssumption
<1> SUFFICES ASSUME BootInv, [Next]_vars PROVE BootInv'
  OBVIOUS
<1>0. ModuleInv' /\ WitnessInv' /\ Homes' /\ TypeInv
  BY ModuleStep, WitnessStep, HomesStep DEF BootInv, ModuleInv
<1>1. CASE UNCHANGED vars
  BY <1>0, <1>1
  DEF vars, BootInv, Phases, Configured, Restored, Done, Registered, Listed, TimesOf
<1>2. ASSUME NEW p \in Procs,
             Ingest(p) \/ Register(p) \/ Create(p) \/ Publish(p) \/ Delete(p) \/ Abort(p)
      PROVE  BootInv'
  <2>1. boot'.phase = "up" /\ boot.phase = "up"
    BY <1>0, <1>2, HandlersWait DEF BootInv
  <2>2. Phases' /\ \A d : ~Done(d)'
    BY <2>1 DEF Phases, Done
  <2>3. Configured'
    BY <1>0, <2>1, <2>2, NeverForgotten DEF BootInv, Configured
  <2>4. \A s \in Services : Restored(s)'
    BY <2>1, <2>2 DEF Restored
  <2> QED
    BY <1>0, <2>2, <2>3, <2>4 DEF BootInv
<1>3. CASE Crash
  <2>1. /\ boot'.phase = "register" /\ boot'.todo = ConfigDatasets
        /\ \A p \in Procs : task'[p] = Idle
        /\ \A s \in Services : served'[s] = Unpublished
    BY <1>3 DEF Crash
  <2>2. Phases' /\ \A d : ~Done(d)'
    BY <2>1 DEF Phases, Done
  <2>3. Configured' /\ \A s \in Services : Restored(s)'
    BY <2>1, <2>2 DEF Configured, Restored
  <2> QED
    BY <1>0, <2>2, <2>3 DEF BootInv
<1>4. CASE BootRegistered
  <2>1. /\ boot.phase = "register" /\ boot.todo = {}
        /\ boot'.phase = "restore" /\ boot'.todo = Datasets \ ConfigDatasets
        /\ UNCHANGED <<docs, granules, moduleStore, served, task, faults, promise, arrived>>
    BY <1>4 DEF BootRegistered
  <2>2. \A d \in Datasets : Done(d)' <=> Done(d)
    BY <2>1 DEF Done
  <2>3. Phases' /\ Configured'
    BY <2>1, <2>2 DEF BootInv, Phases, Configured, Registered, TimesOf
  <2>4. \A s \in Services : ServiceDataset[s] \in Datasets /\ Listed(s)' = Listed(s)
    BY <2>1 DEF Listed, Registered
  <2>5. \A s \in Services : Restored(s)'
    BY <2>1, <2>2, <2>4 DEF BootInv, Restored
  <2> QED
    BY <1>0, <2>3, <2>5 DEF BootInv
<1>5. CASE BootUp
  <2>1. /\ boot.phase = "restore" /\ boot.todo = {} /\ boot'.phase = "up"
        /\ UNCHANGED <<docs, granules, served, task, faults>>
    BY <1>5 DEF BootUp, TypeInv, TypeOK
  <2>2. Phases' /\ \A d : ~Done(d)'
    BY <2>1 DEF Phases, Done
  <2>3. Configured' /\ \A s \in Services : Restored(s)'
    BY <2>1, <2>2 DEF BootInv, Configured, Restored, Done, Registered
  <2> QED
    BY <1>0, <2>2, <2>3 DEF BootInv
<1> QED
  BY <1>0, <1>1, <1>2, <1>3, <1>4, <1>5, BootRegisterStep, BootRestoreStep DEF Next, Boot

\* Before the first request, the interval of every configured dataset is the
\* one derived from its granules, whatever crashes left behind.
THEOREM DriftIsHealed == Spec => []ConfigDriftHealed
<1>1. BootInv => ConfigDriftHealed
  BY DEF BootInv, Configured, ConfigDriftHealed, Phases, Done
<1> QED
  BY <1>1, BootInit, BootStep, PTL DEF Spec

\* When start-up ends, what is served is what the catalog lists, but for
\* services of datasets that came through the API, if the module store failed.
THEOREM RestartServesListed == Spec => BootServesListed
<1> DEFINE Right == boot.phase = "restore" /\ boot'.phase = "up" =>
             \A s \in Services :
               \/ served[s] = Listed(s)
               \/ /\ served[s] = Unpublished /\ faults.outage > 0
                  /\ ServiceDataset[s] \notin ConfigDatasets
<1>1. BootInv /\ [Next]_vars => Right
  <2> SUFFICES ASSUME BootInv, [Next]_vars, boot.phase = "restore", boot'.phase = "up",
                      NEW s \in Services
               PROVE  \/ served[s] = Listed(s)
                      \/ /\ served[s] = Unpublished /\ faults.outage > 0
                         /\ ServiceDataset[s] \notin ConfigDatasets
    OBVIOUS
  <2>1. boot.todo = {}
    <3>1. TypeInv /\ Phases /\ ModuleInv
      BY DEF BootInv, ModuleInv
    <3>2. ASSUME NEW p \in Procs, 
                 Ingest(p) \/ Register(p) \/ Create(p) \/ Publish(p) \/ Delete(p) \/ Abort(p)
          PROVE  FALSE
      BY <3>1, <3>2, HandlersWait
    <3>3. ~Crash /\ ~BootRegistered /\ boot' # boot
      BY DEF Crash, BootRegistered
    <3>4. ASSUME NEW d \in Datasets, BootRegister(d) \/ BootRestore(d)
          PROVE  FALSE
      BY <3>1, <3>4, BootRegisters, BootRestores
    <3> QED
      BY <3>2, <3>3, <3>4 DEF Next, Boot, BootUp, vars
  <2>2. Done(ServiceDataset[s])
    BY <2>1 DEF Done
  <2> QED
    BY <2>2 DEF BootInv, Restored
<1>2. BootInv /\ [Next]_vars => [Right]_vars
  BY <1>1
<1> QED
  BY <1>2, BootInit, BootStep, PTL DEF Spec, BootServesListed

------------------------------------------------------------------------------
(* While one request at a time is served, the server implements the ledger *)

OneTask == \A p, q \in Procs : p # q => task[p] = Idle \/ task[q] = Idle

OnService == {"publish_lower", "publish_persist", "publish_write", "publish_insert",
              "delete_write", "delete_remove"}

\* What a task holds that nothing interferes with is what the catalog holds,
\* but for the one change it is about to write.
Current(t) ==
  /\ t.pc \notin {"idle", "create_write"} => Registered(t.ds)
  /\ t.pc \in {"register_upsert", "register_find", "publish_lower", "publish_persist",
              "publish_write", "delete_write"} => t.doc = docs[t.ds]
  /\ t.pc = "ingest_read" => t.at \in TimesOf(t.ds)
  /\ t.pc = "ingest_write" =>
       \E x \in TimesOf(t.ds) :
         t.doc = [docs[t.ds] EXCEPT !.interval = Including(docs[t.ds].interval, x)]
  /\ t.pc = "register_write" =>
       t.doc = [docs[t.ds] EXCEPT !.interval = TemporalInterval(TimesOf(t.ds))]
  /\ t.pc = "create_write" => ~Registered(t.ds) /\ \E b \in Bodies : t.doc = FreshDataset(b)
  /\ t.pc \in OnService => t.ds = ServiceDataset[t.svc]

LedgerInv ==
  /\ BootInv
  /\ alone \in BOOLEAN
  /\ alone => OneTask /\ \A p \in Procs : Current(task[p])

Handles(p) == Ingest(p) \/ Register(p) \/ Create(p) \/ Publish(p) \/ Delete(p) \/ Abort(p)

\* A handler's step is about its own task, and that is not idle before and
\* after it.
LEMMA OwnTask ==
  ASSUME TypeInv, NEW p \in Procs, Handles(p)
  PROVE  /\ \A q \in Procs \ {p} : task'[q] = task[q]
         /\ task[p] # Idle \/ task'[p] # Idle
<1>0. task \in [Procs -> TaskState] /\ Idle.pc = "idle"
  BY DEF TypeInv, TypeOK, Idle
<1>1. CASE task[p].pc # "idle"
  <2>1. \A q \in Procs \ {p} : task'[q] = task[q]
    BY <1>0, <1>1
    DEF Handles, Ingest, Register, Create, Publish, Delete, Abort, IngestUpsert, IngestRead,
        IngestWrite, RegisterRead, RegisterUpsert, RegisterFind, RegisterWrite, CreateCheck,
        CreateWrite, PublishRead, PublishLower, PublishPersist, PublishWrite, PublishInsert,
        DeleteRead, DeleteWrite, DeleteRemove, Begin, Finish
  <2> QED
    BY <1>0, <1>1, <2>1
<1>2. CASE task[p].pc = "idle"
  <2>1. /\ task'[p].pc \in {"ingest_read", "register_upsert", "create_write", "publish_lower",
                           "delete_write"}
        /\ \A q \in Procs \ {p} : task'[q] = task[q]
    <3>1. CASE \E g \in Granules, t \in Instants : IngestUpsert(p, g, t)
      BY <1>0, <3>1 DEF IngestUpsert, Begin, Idle
    <3>2. CASE \E g \in Granules, t \in Instants : RegisterRead(p, g, t)
      BY <1>0, <3>2 DEF RegisterRead, Begin, Idle
    <3>3. CASE \E d \in Datasets, b \in Bodies : CreateCheck(p, d, b)
      BY <1>0, <3>3 DEF CreateCheck, Begin, Idle
    <3>4. CASE \E s \in Services : PublishRead(p, s)
      BY <1>0, <3>4 DEF PublishRead, Begin, Idle
    <3>5. CASE \E s \in Services : DeleteRead(p, s)
      BY <1>0, <3>5 DEF DeleteRead, Begin, Idle
    <3> QED
      BY <1>2, <3>1, <3>2, <3>3, <3>4, <3>5
      DEF Handles, Ingest, Register, Create, Publish, Delete, Abort, IngestRead,
          IngestWrite, RegisterUpsert, RegisterFind, RegisterWrite,
          CreateWrite, PublishLower, PublishPersist, PublishWrite, PublishInsert,
          DeleteWrite, DeleteRemove
  <2> QED
    BY <1>0, <2>1
<1> QED
  BY <1>1, <1>2

\* One task at a time, the others have nothing in flight.
LEMMA OthersIdle ==
  ASSUME LedgerInv, alone, MCNext, NEW p \in Procs, Handles(p)
  PROVE  \A q \in Procs \ {p} : task[q] = Idle /\ task'[q] = Idle
<1>1. TypeInv
  BY DEF LedgerInv, BootInv, ModuleInv
<1>2. /\ \A q \in Procs \ {p} : task'[q] = task[q]
      /\ task[p] # Idle \/ task'[p] # Idle
  BY <1>1, OwnTask
<1>3. \A q \in Procs \ {p} : task[p] # Idle => task[q] = Idle
  BY DEF LedgerInv, OneTask
<1>4. \A q \in Procs \ {p} : task'[p] # Idle => task'[q] = Idle
  BY DEF MCNext
<1> QED
  BY <1>2, <1>3, <1>4

\* What a task that reads finds is current; the datetimes found for a dataset
\* are what its granules carry.
LEMMA CurrentIdle == Current(Idle) /\ Current(Idle)'
BY DEF Current, Idle, OnService

LEMMA CurrentHandlerStep ==
  ASSUME LedgerInv, alone, MCNext, NEW p \in Procs, Handles(p)
  PROVE  Current(task[p])'
<1> USE DeploymentAssumption
<1>0. /\ TypeInv /\ BootInv /\ Current(task[p])
      /\ task \in [Procs -> TaskState] /\ task[p] \in TaskState /\ TaskShape(task[p])
      /\ docs \in [Datasets -> Dataset \cup {Absent}]
      /\ granules \in [Granules -> Instants \cup {Absent}]
  BY DEF LedgerInv, BootInv, ModuleInv, TypeInv, TypeOK
<1>1. ASSUME Finish(p) PROVE Current(task[p])'
  <2>1. task'[p] = Idle
    BY <1>0, <1>1 DEF Finish
  <2> QED
    BY <2>1, CurrentIdle DEF Current
<1>2. ASSUME NEW g \in Granules, NEW t \in Instants, IngestUpsert(p, g, t)
      PROVE  Current(task[p])'
  <2>1. /\ task'[p].pc = "ingest_read" /\ task'[p].ds = GranuleDataset[g] /\ task'[p].at = t
        /\ Registered(GranuleDataset[g]) /\ granules'[g] = t /\ docs' = docs
    BY <1>0, <1>2 DEF IngestUpsert, Begin, Idle
  <2>2. t \in TimesOf(GranuleDataset[g])'
    BY <2>1, SentinelAssumption DEF TimesOf
  <2>3. TimesOf(GranuleDataset[g])' = TimesOf(task[p].ds)'
    BY <2>1 DEF TimesOf
  <2> QED
    BY <2>1, <2>2, <2>3 DEF Current, Registered, OnService
<1>3. ASSUME IngestRead(p), ~Finish(p)
      PROVE  Current(task[p])'
  <2> DEFINE d == task[p].ds
             doc == [docs[d] EXCEPT !.interval = Including(docs[d].interval, task[p].at)]
  <2>1. /\ task[p].pc = "ingest_read" /\ Registered(d) /\ UNCHANGED <<docs, granules>>
        /\ task' = [task EXCEPT ![p].pc = "ingest_write", ![p].doc = doc]
    BY <1>3 DEF IngestRead
  <2>2. task[p].at \in TimesOf(d)
    BY <1>0, <2>1 DEF Current
  <2>3. \E x \in TimesOf(d) : doc = [docs[d] EXCEPT !.interval = Including(docs[d].interval, x)]
    BY <2>2
  <2> HIDE DEF doc
  <2>4. task'[p].pc = "ingest_write" /\ task'[p].ds = d /\ task'[p].doc = doc
    BY <1>0, <2>1 DEF TaskState
  <2>5. TimesOf(task[p].ds)' = TimesOf(d) /\ docs'[task'[p].ds] = docs[d]
    BY <2>1, <2>4 DEF TimesOf
  <2>6. \E x \in TimesOf(task[p].ds)' :
          task'[p].doc = [docs'[task'[p].ds] EXCEPT !.interval = Including(docs'[task'[p].ds].interval, x)]
    BY <2>3, <2>4, <2>5
  <2> QED
    BY <2>1, <2>4, <2>6 DEF Current, Registered, OnService
<1>4. ASSUME NEW g \in Granules, NEW t \in Instants, RegisterRead(p, g, t)
      PROVE  Current(task[p])'
  <2>1. /\ task'[p].pc = "register_upsert" /\ task'[p].ds = GranuleDataset[g]
        /\ task'[p].doc = docs[GranuleDataset[g]]
        /\ Registered(GranuleDataset[g]) /\ docs' = docs
    BY <1>0, <1>4 DEF RegisterRead, Begin, Idle
  <2> QED
    BY <2>1 DEF Current, Registered, OnService
<1>5. ASSUME RegisterUpsert(p)
      PROVE  Current(task[p])'
  <2>1. /\ task'[p].pc = "register_find" /\ task'[p].ds = task[p].ds
        /\ task'[p].doc = task[p].doc /\ docs' = docs /\ task[p].pc = "register_upsert"
    BY <1>0, <1>5 DEF RegisterUpsert, TaskState
  <2> QED
    BY <1>0, <2>1 DEF Current, Registered, OnService
<1>6. ASSUME RegisterFind(p), ~Finish(p)
      PROVE  Current(task[p])'
  <2> DEFINE d == task[p].ds
             range == TemporalInterval(TimesOf(d))
             doc == [docs[d] EXCEPT !.interval = range]
  <2>1. /\ task[p].pc = "register_find" /\ UNCHANGED <<docs, granules>>
        /\ task' = [task EXCEPT ![p].pc = "register_write", ![p].doc.interval = range]
    BY <1>6 DEF RegisterFind
  <2>2. task[p].doc = docs[d] /\ Registered(d)
    BY <1>0, <2>1 DEF Current
  <2> HIDE DEF range
  <2>3. task'[p].pc = "register_write" /\ task'[p].ds = d /\ task'[p].doc = doc
    BY <1>0, <2>1, <2>2 DEF TaskState
  <2> HIDE DEF doc
  <2>4. TimesOf(task[p].ds)' = TimesOf(d) /\ docs'[task'[p].ds] = docs[d]
    BY <2>1, <2>3 DEF TimesOf
  <2>5. task'[p].doc = [docs'[task'[p].ds] EXCEPT !.interval = TemporalInterval(TimesOf(task[p].ds)')]
    BY <2>3, <2>4 DEF doc, range
  <2> QED
    BY <2>1, <2>2, <2>3, <2>5 DEF Current, Registered, OnService
<1>7. ASSUME NEW d \in Datasets, NEW b \in Bodies, CreateCheck(p, d, b)
      PROVE  Current(task[p])'
  <2>1. /\ task'[p].pc = "create_write" /\ task'[p].ds = d /\ task'[p].doc = FreshDataset(b)
        /\ ~Registered(d) /\ docs' = docs
    BY <1>0, <1>7 DEF CreateCheck, Begin, Idle
  <2> QED
    BY <2>1 DEF Current, Registered, OnService
<1>8. ASSUME NEW s \in Services, PublishRead(p, s)
      PROVE  Current(task[p])'
  <2>1. /\ task'[p].pc = "publish_lower" /\ task'[p].ds = ServiceDataset[s]
        /\ task'[p].svc = s /\ task'[p].doc = docs[ServiceDataset[s]]
        /\ Registered(ServiceDataset[s]) /\ docs' = docs
    BY <1>0, <1>8 DEF PublishRead, Begin, Idle
  <2> QED
    BY <2>1 DEF Current, Registered, OnService
<1>9. ASSUME PublishLower(p) \/ PublishPersist(p)
      PROVE  Current(task[p])'
  <2>1. /\ task'[p].pc \in {"publish_persist", "publish_write"}
        /\ task[p].pc \in {"publish_lower", "publish_persist"}
        /\ task'[p].ds = task[p].ds /\ task'[p].svc = task[p].svc
        /\ task'[p].doc = task[p].doc /\ docs' = docs
    BY <1>0, <1>9 DEF PublishLower, PublishPersist, TaskState
  <2>2. /\ Registered(task[p].ds) /\ task[p].doc = docs[task[p].ds]
        /\ task[p].ds = ServiceDataset[task[p].svc]
    BY <1>0, <2>1 DEF Current, OnService
  <2> QED
    BY <2>1, <2>2 DEF Current, Registered, OnService
<1>10. ASSUME PublishWrite(p) \/ DeleteWrite(p)
       PROVE  Current(task[p])'
  <2>1. /\ task'[p].pc \in {"publish_insert", "delete_remove"}
        /\ task[p].pc \in {"publish_write", "delete_write"}
        /\ task'[p].ds = task[p].ds /\ task'[p].svc = task[p].svc
    BY <1>0, <1>10 DEF PublishWrite, DeleteWrite, TaskState
  <2>2. Registered(task[p].ds) /\ task[p].ds = ServiceDataset[task[p].svc] /\ task[p].ds \in Datasets
    BY <1>0, <2>1 DEF Current, OnService, TaskShape
  <2>3. Registered(task[p].ds)'
    <3>1. \A d \in Datasets : Registered(d) => Registered(d)'
      BY NeverForgotten DEF MCNext, LedgerInv, BootInv
    <3> QED
      BY <2>1, <2>2, <3>1 DEF Registered
  <2> QED
    BY <2>1, <2>2, <2>3 DEF Current, OnService
<1>11. ASSUME NEW s \in Services, DeleteRead(p, s)
       PROVE  Current(task[p])'
  <2>1. /\ task'[p].pc = "delete_write" /\ task'[p].ds = ServiceDataset[s]
        /\ task'[p].svc = s /\ task'[p].doc = docs[ServiceDataset[s]]
        /\ Registered(ServiceDataset[s]) /\ docs' = docs
    BY <1>0, <1>11 DEF DeleteRead, Begin, Idle, Listed
  <2> QED
    BY <2>1 DEF Current, Registered, OnService
<1> QED
  BY <1>1, <1>2, <1>3, <1>4, <1>5, <1>6, <1>7, <1>8, <1>9, <1>10, <1>11
  DEF Handles, Ingest, Register, Create, Publish, Delete, Abort,
      IngestWrite, RegisterWrite, CreateWrite, PublishInsert, DeleteRemove

LEMMA LedgerInit == MCInit => LedgerInv
<1> SUFFICES ASSUME MCInit PROVE LedgerInv
  OBVIOUS
<1>1. BootInv /\ \A p \in Procs : task[p] = Idle
  BY BootInit DEF MCInit, Init
<1> QED
  BY <1>1, CurrentIdle DEF MCInit, LedgerInv, OneTask

LEMMA LedgerStep == LedgerInv /\ [MCNext]_<<vars, alone>> => LedgerInv'
<1> SUFFICES ASSUME LedgerInv, [MCNext]_<<vars, alone>> PROVE LedgerInv'
  OBVIOUS
<1>1. [Next]_vars /\ alone' = alone
  BY DEF MCNext
<1>2. BootInv'
  BY <1>1, BootStep DEF LedgerInv
<1>3. ASSUME \A p \in Procs : task'[p] = Idle
      PROVE  LedgerInv'
  <2>1. \A p \in Procs : Current(task[p])'
    BY <1>3, CurrentIdle DEF Current
  <2> QED
    BY <1>1, <1>2, <1>3, <2>1 DEF LedgerInv, OneTask
<1>4. CASE UNCHANGED <<vars, alone>>
  <2>1. \A p \in Procs : Current(task[p]) => Current(task[p])'
    BY <1>4 DEF vars, Current, Registered, TimesOf
  <2> QED
    BY <1>2, <1>4, <2>1 DEF vars, LedgerInv, OneTask
<1>5. CASE MCNext /\ ~alone
  BY <1>1, <1>2, <1>5 DEF LedgerInv
<1>6. ASSUME MCNext, alone, NEW p \in Procs, Handles(p)
      PROVE  LedgerInv'
  <2>1. \A q \in Procs \ {p} : task'[q] = Idle
    BY <1>6, OthersIdle
  <2>2. Current(task[p])'
    BY <1>6, CurrentHandlerStep
  <2>3. \A q \in Procs : Current(task[q])'
    BY <2>1, <2>2, CurrentIdle DEF Current
  <2>4. OneTask'
    BY <2>1 DEF OneTask
  <2> QED
    BY <1>1, <1>2, <2>3, <2>4 DEF LedgerInv
<1>7. ASSUME Crash \/ Boot
      PROVE  LedgerInv'
  <2>1. CASE Crash
    BY <1>3, <2>1 DEF Crash
  <2>2. CASE Boot
    <3>1. boot.phase # "up" /\ task' = task
      BY <2>2 DEF Boot, BootRegister, BootRestore, BootRegistered, BootUp
    <3> QED
      BY <1>3, <3>1 DEF LedgerInv, BootInv, Phases
  <2> QED
    BY <1>7, <2>1, <2>2
<1> QED
  BY <1>4, <1>5, <1>6, <1>7 DEF MCNext, Next, Handles

\* Functions that agree everywhere are equal.
LEMMA Extensional ==
  ASSUME NEW S, NEW f, NEW g, f = [x \in S |-> f[x]], g = [x \in S |-> g[x]],
         \A x \in S : f[x] = g[x]
  PROVE  f = g
OBVIOUS

\* The maps are functions on the datasets and on the services.
LEMMA Forms ==
  /\ BodyOf = [d \in Datasets |-> BodyOf[d]] /\ BodyOf' = [d \in Datasets |-> BodyOf'[d]]
  /\ IntervalOf = [d \in Datasets |-> IntervalOf[d]]
  /\ IntervalOf' = [d \in Datasets |-> IntervalOf'[d]]
  /\ LayerOf = [s \in Services |-> LayerOf[s]] /\ LayerOf' = [s \in Services |-> LayerOf'[s]]
BY DEF BodyOf, IntervalOf, LayerOf

\* Writing one document changes the entries of one dataset.
LEMMA MapWrite ==
  ASSUME TypeInv, alone, alone', NEW d \in Datasets, NEW doc \in Dataset,
         docs' = [docs EXCEPT ![d] = doc]
  PROVE  /\ BodyOf' = [BodyOf EXCEPT ![d] = doc.body]
         /\ IntervalOf' = [IntervalOf EXCEPT ![d] = doc.interval]
         /\ \A s \in Services :
              LayerOf'[s] = IF ServiceDataset[s] = d THEN doc.layers[s] ELSE LayerOf[s]
<1> USE DeploymentAssumption, NoneAssumption
<1>0. docs \in [Datasets -> Dataset \cup {Absent}]
  BY DEF TypeInv, TypeOK
<1>1. docs'[d] = doc /\ doc # Absent /\ \A e \in Datasets \ {d} : docs'[e] = docs[e]
  BY <1>0
<1>2. BodyOf' = [BodyOf EXCEPT ![d] = doc.body]
  <2>1. \A e \in Datasets : BodyOf'[e] = [BodyOf EXCEPT ![d] = doc.body][e]
    BY <1>1 DEF BodyOf, Registered
  <2> QED
    BY <2>1, Extensional, Forms DEF BodyOf
<1>3. IntervalOf' = [IntervalOf EXCEPT ![d] = doc.interval]
  <2>1. \A e \in Datasets : IntervalOf'[e] = [IntervalOf EXCEPT ![d] = doc.interval][e]
    BY <1>1 DEF IntervalOf, Registered
  <2> QED
    BY <2>1, Extensional, Forms DEF IntervalOf
<1>4. ASSUME NEW s \in Services
      PROVE  LayerOf'[s] = IF ServiceDataset[s] = d THEN doc.layers[s] ELSE LayerOf[s]
  <2>1. ServiceDataset[s] \in Datasets
    OBVIOUS
  <2> QED
    BY <1>1, <2>1 DEF LayerOf, Listed, Registered
<1> QED
  BY <1>2, <1>3, <1>4

\* What is written to nothing is read off nothing.
LEMMA MapUnchanged ==
  ASSUME alone' = alone
  PROVE  /\ docs' = docs => UNCHANGED <<BodyOf, LayerOf, IntervalOf>>
         /\ granules' = granules => UNCHANGED GranulesOf
BY DEF BodyOf, LayerOf, IntervalOf, GranulesOf, Listed, Registered

\* The entries of a registered dataset are those of its document.
LEMMA MapValues ==
  ASSUME alone, NEW d \in Datasets
  PROVE  /\ Registered(d) => BodyOf[d] = docs[d].body /\ IntervalOf[d] = docs[d].interval
         /\ ~Registered(d) => BodyOf[d] = Absent /\ IntervalOf[d] = NoGranuleYet
         /\ Ledger!Times(d) = TimesOf(d)
<1>1. GranulesOf = [g \in Granules |-> granules[g]]
  BY DEF GranulesOf
<1>2. Ledger!Times(d) = TimesOf(d)
  BY <1>1 DEF Ledger!Times, TimesOf
<1> QED
  BY <1>2 DEF BodyOf, IntervalOf

\* A registered dataset's document, and its entries.
LEMMA Entries ==
  ASSUME TypeInv, alone, NEW d \in Datasets, Registered(d)
  PROVE  /\ docs[d] \in Dataset /\ docs[d].body \in Bodies /\ docs[d].interval \in TimeRange
         /\ docs[d].layers \in [Services -> LayerSlot]
         /\ BodyOf[d] = docs[d].body /\ IntervalOf[d] = docs[d].interval
         /\ \A s \in Services : ServiceDataset[s] = d => LayerOf[s] = docs[d].layers[s]
<1>1. docs[d] \in Dataset
  BY DEF TypeInv, TypeOK, Registered
<1> QED
  BY <1>1, MapValues DEF Dataset, LayerOf, Listed

\* A document rewritten with another interval and nothing else.
LEMMA IntervalWritten ==
  ASSUME TypeInv, alone, alone' = alone, NEW d \in Datasets, Registered(d),
         NEW range \in TimeRange, granules' = granules,
         docs' = [docs EXCEPT ![d] = [docs[d] EXCEPT !.interval = range]]
  PROVE  /\ IntervalOf' = [IntervalOf EXCEPT ![d] = range]
         /\ UNCHANGED <<BodyOf, LayerOf, GranulesOf>>
<1> DEFINE doc == [docs[d] EXCEPT !.interval = range]
<1>1. /\ doc \in Dataset /\ doc.interval = range /\ doc.body = docs[d].body
      /\ doc.layers = docs[d].layers
  BY Entries DEF Dataset
<1>2. docs' = [docs EXCEPT ![d] = doc] /\ alone'
  OBVIOUS
<1> HIDE DEF doc
<1>3. /\ BodyOf' = [BodyOf EXCEPT ![d] = doc.body]
      /\ IntervalOf' = [IntervalOf EXCEPT ![d] = doc.interval]
      /\ \A s \in Services :
           LayerOf'[s] = IF ServiceDataset[s] = d THEN doc.layers[s] ELSE LayerOf[s]
  BY <1>1, <1>2, MapWrite
<1>4. BodyOf[d] = docs[d].body /\ \A s \in Services : ServiceDataset[s] = d => LayerOf[s] = docs[d].layers[s]
  BY Entries
<1>5. BodyOf' = BodyOf
  BY <1>1, <1>3, <1>4, Forms
<1>6. \A s \in Services : LayerOf'[s] = LayerOf[s]
  BY <1>1, <1>3, <1>4
<1>7. LayerOf' = LayerOf
  BY <1>6, Extensional, Forms
<1> QED
  BY <1>1, <1>3, <1>5, <1>7, MapUnchanged

\* A document that differs in one layer.
Relayered(doc, old, s, plan) ==
  /\ doc.body = old.body /\ doc.interval = old.interval
  /\ \A r \in Services : doc.layers[r] = IF r = s THEN plan ELSE old.layers[r]

\* A document rewritten with another layer and nothing else.
LEMMA LayerWritten ==
  ASSUME TypeInv, alone, alone' = alone, NEW s \in Services, NEW plan \in LayerSlot,
         NEW d \in Datasets, Registered(d), d = ServiceDataset[s], granules' = granules,
         NEW doc \in Dataset, docs' = [docs EXCEPT ![d] = doc],
         Relayered(doc, docs[d], s, plan)
  PROVE  /\ LayerOf' = [LayerOf EXCEPT ![s] = plan]
         /\ UNCHANGED <<BodyOf, IntervalOf, GranulesOf>>
<1>1. /\ BodyOf' = [BodyOf EXCEPT ![d] = doc.body]
      /\ IntervalOf' = [IntervalOf EXCEPT ![d] = doc.interval]
      /\ \A r \in Services :
           LayerOf'[r] = IF ServiceDataset[r] = d THEN doc.layers[r] ELSE LayerOf[r]
  BY MapWrite
<1>2. /\ BodyOf[d] = docs[d].body /\ IntervalOf[d] = docs[d].interval
      /\ \A r \in Services : ServiceDataset[r] = d => LayerOf[r] = docs[d].layers[r]
  BY Entries
<1>3. BodyOf' = BodyOf /\ IntervalOf' = IntervalOf
  BY <1>1, <1>2, Forms DEF Relayered
<1>4. \A r \in Services : LayerOf'[r] = [LayerOf EXCEPT ![s] = plan][r]
  BY <1>1, <1>2, Forms DEF Relayered
<1>5. LayerOf' = [LayerOf EXCEPT ![s] = plan]
  BY <1>4, Extensional, Forms
<1> QED
  BY <1>3, <1>5, MapUnchanged

\* What the ledger says of intervals is what the documents' operators say.
LEMMA SameIntervals ==
  /\ \A T : Ledger!TemporalInterval(T) = TemporalInterval(T)
  /\ \A r, t : Ledger!Including(r, t) = Including(r, t)
BY DEF TemporalInterval, Ledger!TemporalInterval, NoGranuleYet, Ledger!NoGranuleYet,
       Including, Ledger!Including

\* Storing a granule acquires it.
LEMMA GranuleWrites ==
  ASSUME LedgerInv, alone, alone' = alone, NEW g \in Granules, NEW t \in Instants,
         Registered(GranuleDataset[g]),
         granules' = [granules EXCEPT ![g] = t], docs' = docs
  PROVE  Ledger!Next
<1>0. /\ TypeInv /\ docs \in [Datasets -> Dataset \cup {Absent}]
      /\ granules \in [Granules -> Instants \cup {Absent}]
  BY DEF LedgerInv, BootInv, ModuleInv, TypeInv, TypeOK
<1>1. GranulesOf' = [GranulesOf EXCEPT ![g] = t]
  <2>1. GranulesOf = granules /\ GranulesOf' = granules'
    BY <1>0 DEF GranulesOf
  <2> QED
    BY <2>1
<1>2. UNCHANGED <<BodyOf, LayerOf, IntervalOf>>
  BY MapUnchanged
<1>3. BodyOf[GranuleDataset[g]] # Absent
  BY <1>0, Entries, SentinelAssumption, DeploymentAssumption
<1>4. Ledger!Acquire(g, t)
  BY <1>1, <1>2, <1>3 DEF Ledger!Acquire
<1> QED
  BY <1>4 DEF Ledger!Next

\* An ingest's write is a widening of the interval by an acquired instant.
LEMMA IngestWrites ==
  ASSUME LedgerInv, alone, alone' = alone, NEW p \in Procs, IngestWrite(p)
  PROVE  /\ Ledger!Next /\ LayerOf' = LayerOf
         /\ IntervalOf' = [IntervalOf EXCEPT ![task[p].ds] = task[p].doc.interval]
<1> USE DeploymentAssumption
<1> DEFINE d == task[p].ds
<1>0. /\ TypeInv /\ Current(task[p]) /\ alone'
      /\ task \in [Procs -> TaskState] /\ task[p] \in TaskState /\ TaskShape(task[p])
      /\ docs \in [Datasets -> Dataset \cup {Absent}]
      /\ granules \in [Granules -> Instants \cup {Absent}]
  BY DEF LedgerInv, BootInv, ModuleInv, TypeInv, TypeOK
<1>1. /\ d \in Datasets /\ Registered(d) /\ UNCHANGED granules
      /\ docs' = [docs EXCEPT ![d] = task[p].doc]
  BY <1>0 DEF IngestWrite, Current, TaskShape
<1>2. PICK x \in TimesOf(d) :
        task[p].doc = [docs[d] EXCEPT !.interval = Including(docs[d].interval, x)]
  BY <1>0 DEF IngestWrite, Current
<1> DEFINE range == Including(docs[d].interval, x)
<1>3. x \in Instants
  BY <1>0, <1>1, <1>2, TimesOfType DEF TypeInv
<1>4. range \in TimeRange
  BY <1>0, <1>1, <1>3, Entries, IncludingType
<1>5. range = Ledger!Including(IntervalOf[d], x)
  BY <1>0, <1>1, Entries, SameIntervals
<1> HIDE DEF range
<1>6. docs' = [docs EXCEPT ![d] = [docs[d] EXCEPT !.interval = range]]
  BY <1>1, <1>2 DEF range
<1>10. task[p].doc.interval = range
  <2>1. docs[d] \in Dataset
    BY <1>0, <1>1, Entries
  <2> QED
    BY <1>1, <1>2, <2>1 DEF range, Dataset
<1>7. /\ IntervalOf' = [IntervalOf EXCEPT ![d] = range]
      /\ UNCHANGED <<BodyOf, LayerOf, GranulesOf>>
  BY <1>0, <1>1, <1>4, <1>6, IntervalWritten
<1>8. x \in Ledger!Times(d)
  BY <1>1, <1>2, MapValues
<1>9. Ledger!Widen(d)
  BY <1>5, <1>7, <1>8 DEF Ledger!Widen
<1> QED
  BY <1>1, <1>7, <1>9, <1>10 DEF Ledger!Next

\* A registration's write is the derivation of the interval.
LEMMA RegisterWrites ==
  ASSUME LedgerInv, alone, alone' = alone, NEW p \in Procs, RegisterWrite(p)
  PROVE  /\ Ledger!Next /\ LayerOf' = LayerOf
         /\ IntervalOf' = [IntervalOf EXCEPT ![task[p].ds] = TemporalInterval(TimesOf(task[p].ds))]
<1> USE DeploymentAssumption
<1> DEFINE d == task[p].ds
<1>0. /\ TypeInv /\ Current(task[p]) /\ alone'
      /\ task \in [Procs -> TaskState] /\ task[p] \in TaskState /\ TaskShape(task[p])
      /\ docs \in [Datasets -> Dataset \cup {Absent}]
      /\ granules \in [Granules -> Instants \cup {Absent}]
  BY DEF LedgerInv, BootInv, ModuleInv, TypeInv, TypeOK
<1> DEFINE range == TemporalInterval(TimesOf(d))
<1>1. /\ d \in Datasets /\ Registered(d) /\ UNCHANGED granules
      /\ docs' = [docs EXCEPT ![d] = [docs[d] EXCEPT !.interval = range]]
  BY <1>0 DEF RegisterWrite, Current, TaskShape
<1>2. range \in TimeRange
  BY <1>0, <1>1, TimesOfType, TemporalIntervalType DEF TypeInv
<1>3. range = Ledger!TemporalInterval(Ledger!Times(d))
  BY <1>1, MapValues, SameIntervals
<1> HIDE DEF range
<1>4. /\ IntervalOf' = [IntervalOf EXCEPT ![d] = range]
      /\ UNCHANGED <<BodyOf, LayerOf, GranulesOf>>
  BY <1>0, <1>1, <1>2, IntervalWritten
<1>5. Ledger!Derive(d)
  BY <1>3, <1>4 DEF Ledger!Derive
<1> QED
  BY <1>1, <1>4, <1>5 DEF Ledger!Next, range

\* A creation's write defines a dataset.
LEMMA CreateWrites ==
  ASSUME LedgerInv, alone, alone' = alone, NEW p \in Procs, CreateWrite(p)
  PROVE  Ledger!Next /\ LayerOf' = LayerOf /\ IntervalOf' = IntervalOf
<1> USE DeploymentAssumption
<1> DEFINE d == task[p].ds
<1>0. /\ TypeInv /\ Current(task[p]) /\ alone'
      /\ task \in [Procs -> TaskState] /\ task[p] \in TaskState /\ TaskShape(task[p])
      /\ docs \in [Datasets -> Dataset \cup {Absent}]
      /\ granules \in [Granules -> Instants \cup {Absent}]
  BY DEF LedgerInv, BootInv, ModuleInv, TypeInv, TypeOK
<1>1. PICK b \in Bodies : task[p].doc = FreshDataset(b)
  BY <1>0 DEF CreateWrite, Current
<1> DEFINE doc == FreshDataset(b)
<1>2. /\ d \in Datasets /\ ~Registered(d) /\ UNCHANGED granules
      /\ docs' = [docs EXCEPT ![d] = doc]
  BY <1>0, <1>1 DEF CreateWrite, Current, TaskShape
<1>3. /\ doc \in Dataset /\ doc.body = b /\ doc.interval = NoGranuleYet
      /\ \A s \in Services : doc.layers[s] = Unpublished
  BY DocumentTypes DEF FreshDataset, NoLayers
<1> HIDE DEF d, doc
<1>4. /\ BodyOf' = [BodyOf EXCEPT ![d] = b]
      /\ IntervalOf' = [IntervalOf EXCEPT ![d] = NoGranuleYet]
      /\ \A s \in Services :
           LayerOf'[s] = IF ServiceDataset[s] = d THEN doc.layers[s] ELSE LayerOf[s]
  <2>1. /\ BodyOf' = [BodyOf EXCEPT ![d] = doc.body]
        /\ IntervalOf' = [IntervalOf EXCEPT ![d] = doc.interval]
        /\ \A s \in Services :
             LayerOf'[s] = IF ServiceDataset[s] = d THEN doc.layers[s] ELSE LayerOf[s]
    BY <1>0, <1>2, <1>3, MapWrite
  <2> QED
    BY <1>3, <2>1
<1>5. BodyOf[d] = Absent /\ IntervalOf[d] = NoGranuleYet
  BY <1>2, MapValues
<1>6. UNCHANGED IntervalOf
  BY <1>4, <1>5 DEF IntervalOf
<1>7. \A s \in Services : LayerOf'[s] = LayerOf[s]
  BY <1>2, <1>3, <1>4 DEF LayerOf, Listed
<1>8. UNCHANGED LayerOf
  BY <1>7, Extensional, Forms DEF LayerOf
<1>9. Ledger!Define(d, b)
  BY <1>2, <1>4, <1>5, <1>6, <1>8, MapUnchanged DEF Ledger!Define
<1> QED
  BY <1>1, <1>2, <1>6, <1>8, <1>9 DEF Ledger!Next

\* A publication's write publishes one service.
LEMMA PublishWrites ==
  ASSUME LedgerInv, alone, alone' = alone, NEW p \in Procs, PublishWrite(p)
  PROVE  /\ Ledger!Next /\ IntervalOf' = IntervalOf
         /\ LayerOf' = [LayerOf EXCEPT ![task[p].svc] = task[p].plan]
<1> USE DeploymentAssumption
<1> DEFINE d == task[p].ds
<1>0. /\ TypeInv /\ Current(task[p]) /\ alone'
      /\ task \in [Procs -> TaskState] /\ task[p] \in TaskState /\ TaskShape(task[p])
      /\ docs \in [Datasets -> Dataset \cup {Absent}]
      /\ granules \in [Granules -> Instants \cup {Absent}]
  BY DEF LedgerInv, BootInv, ModuleInv, TypeInv, TypeOK
<1> DEFINE s == task[p].svc
           plan == task[p].plan
           doc == WithLayer(docs[d], s, plan)
<1>1. /\ s \in Services /\ plan \in Plan /\ d \in Datasets /\ Registered(d)
      /\ d = ServiceDataset[s] /\ UNCHANGED granules
      /\ docs' = [docs EXCEPT ![d] = doc]
  BY <1>0 DEF PublishWrite, Current, TaskShape, OnService
<1>2. doc \in Dataset /\ Relayered(doc, docs[d], s, plan)
  <2>1. docs[d] \in Dataset
    BY <1>0, <1>1, Entries
  <2>2. doc \in Dataset /\ doc.body = docs[d].body /\ doc.interval = docs[d].interval
    BY <1>1, <2>1, DocumentTypes, LayersKeepInterval DEF WithLayer, Dataset
  <2>3. \A r \in Services : doc.layers[r] = IF r = s THEN plan ELSE docs[d].layers[r]
    BY <1>1, <2>1, DocumentsResolve
  <2> QED
    BY <2>2, <2>3 DEF Relayered
<1>3. plan \in LayerSlot
  BY <1>1 DEF LayerSlot
<1> HIDE DEF d, s, plan, doc
<1>4. /\ LayerOf' = [LayerOf EXCEPT ![s] = plan]
      /\ UNCHANGED <<BodyOf, IntervalOf, GranulesOf>>
  BY <1>0, <1>1, <1>2, <1>3, LayerWritten
<1>5. BodyOf[ServiceDataset[s]] # Absent
  BY <1>0, <1>1, Entries, SentinelAssumption
<1>6. Ledger!Publish(s, plan)
  BY <1>4, <1>5 DEF Ledger!Publish
<1>7. plan \in Ledger!Plan
  BY <1>1 DEF Plan, Ledger!Plan
<1> QED
  BY <1>1, <1>4, <1>6, <1>7 DEF Ledger!Next, s, plan

\* A deletion's write takes one service out.
LEMMA DeleteWrites ==
  ASSUME LedgerInv, alone, alone' = alone, NEW p \in Procs, DeleteWrite(p)
  PROVE  /\ Ledger!Next /\ IntervalOf' = IntervalOf
         /\ LayerOf' = [LayerOf EXCEPT ![task[p].svc] = Unpublished]
<1> USE DeploymentAssumption
<1> DEFINE d == task[p].ds
<1>0. /\ TypeInv /\ Current(task[p]) /\ alone'
      /\ task \in [Procs -> TaskState] /\ task[p] \in TaskState /\ TaskShape(task[p])
      /\ docs \in [Datasets -> Dataset \cup {Absent}]
      /\ granules \in [Granules -> Instants \cup {Absent}]
  BY DEF LedgerInv, BootInv, ModuleInv, TypeInv, TypeOK
<1> DEFINE s == task[p].svc
           doc == WithoutLayer(docs[d], s)
<1>1. /\ s \in Services /\ d \in Datasets /\ Registered(d)
      /\ d = ServiceDataset[s] /\ UNCHANGED granules
      /\ docs' = [docs EXCEPT ![d] = doc]
  BY <1>0 DEF DeleteWrite, Current, TaskShape, OnService
<1>2. doc \in Dataset /\ Relayered(doc, docs[d], s, Unpublished)
  <2>1. docs[d] \in Dataset
    BY <1>0, <1>1, Entries
  <2>2. doc \in Dataset /\ doc.body = docs[d].body /\ doc.interval = docs[d].interval
    BY <1>1, <2>1, DocumentTypes, LayersKeepInterval DEF WithoutLayer, Dataset
  <2>3. \A r \in Services : doc.layers[r] = IF r = s THEN Unpublished ELSE docs[d].layers[r]
    BY <1>1, <2>1, DocumentsResolve
  <2> QED
    BY <2>2, <2>3 DEF Relayered
<1> HIDE DEF d, s, doc
<1>3. /\ LayerOf' = [LayerOf EXCEPT ![s] = Unpublished]
      /\ UNCHANGED <<BodyOf, IntervalOf, GranulesOf>>
  <2>1. Unpublished \in LayerSlot
    BY DEF LayerSlot
  <2> QED
    BY <1>0, <1>1, <1>2, <2>1, LayerWritten
<1>4. Ledger!Unpublish(s)
  BY <1>3 DEF Ledger!Unpublish
<1> QED
  BY <1>1, <1>3, <1>4 DEF Ledger!Next, s

Writes(p) ==
  IngestWrite(p) \/ RegisterWrite(p) \/ CreateWrite(p) \/ PublishWrite(p) \/ DeleteWrite(p)

\* Only these steps write a document, and only two more write a granule.
LEMMA OnlyWrites ==
  ASSUME NEW p \in Procs, Handles(p), ~Writes(p)
  PROVE  /\ docs' = docs
         /\ \/ granules' = granules
            \/ RegisterUpsert(p)
            \/ \E g \in Granules, t \in Instants : IngestUpsert(p, g, t)
<1>1. ASSUME NEW g \in Granules, NEW t \in Instants, RegisterRead(p, g, t)
      PROVE  docs' = docs /\ granules' = granules
  BY <1>1 DEF RegisterRead
<1>5. ASSUME NEW e \in Datasets, NEW b \in Bodies, CreateCheck(p, e, b)
      PROVE  docs' = docs /\ granules' = granules
  BY <1>5 DEF CreateCheck
<1>6. ASSUME NEW s \in Services, PublishRead(p, s) \/ DeleteRead(p, s)
      PROVE  docs' = docs /\ granules' = granules
  BY <1>6 DEF PublishRead, DeleteRead
<1>4. ASSUME \/ IngestRead(p) \/ RegisterFind(p) \/ PublishLower(p) \/ PublishPersist(p)
             \/ PublishInsert(p) \/ DeleteRemove(p) \/ Abort(p)
      PROVE  docs' = docs /\ granules' = granules
  BY <1>4 DEF IngestRead, RegisterFind, PublishLower, PublishPersist, PublishInsert,
              DeleteRemove, Abort
<1>2. ASSUME NEW g \in Granules, NEW t \in Instants, IngestUpsert(p, g, t) PROVE docs' = docs
  BY <1>2 DEF IngestUpsert
<1>3. RegisterUpsert(p) => docs' = docs
  BY DEF RegisterUpsert
<1> QED
  BY <1>1, <1>2, <1>3, <1>4, <1>5, <1>6 DEF Handles, Writes, Ingest, Register, Create, Publish, Delete

\* Each step of a handler is a step of the ledger, or none.
LEMMA HandlerRefines ==
  ASSUME LedgerInv, alone, alone' = alone, NEW p \in Procs, Handles(p)
  PROVE  Ledger!Next \/ UNCHANGED Ledger!vars
<1>1. CASE Writes(p)
  BY <1>1, IngestWrites, RegisterWrites, CreateWrites, PublishWrites, DeleteWrites DEF Writes
<1>2. CASE ~Writes(p) /\ granules' = granules
  BY <1>2, OnlyWrites, MapUnchanged DEF Ledger!vars
<1>3. ASSUME NEW g \in Granules, NEW t \in Instants, IngestUpsert(p, g, t)
      PROVE  Ledger!Next
  BY <1>3, GranuleWrites DEF IngestUpsert
<1>4. CASE RegisterUpsert(p)
  <2>1. /\ task[p].gid \in Granules /\ task[p].at \in Instants
        /\ Registered(GranuleDataset[task[p].gid])
        /\ granules' = [granules EXCEPT ![task[p].gid] = task[p].at] /\ docs' = docs
    <3>1. TaskShape(task[p]) /\ TaskWitnessed(task[p]) /\ Current(task[p])
      BY DEF LedgerInv, BootInv, WitnessInv, TypeInv
    <3> QED
      BY <1>4, <3>1 DEF RegisterUpsert, TaskShape, TaskWitnessed, Current
  <2> QED
    BY <2>1, GranuleWrites
<1> QED
  BY <1>1, <1>2, <1>3, <1>4, OnlyWrites

\* What it does to the services and to the intervals listed.
LEMMA HandlerEntries ==
  ASSUME LedgerInv, alone, alone' = alone, NEW p \in Procs, Handles(p)
  PROVE  /\ \/ PublishWrite(p) /\ LayerOf' = [LayerOf EXCEPT ![task[p].svc] = task[p].plan]
            \/ DeleteWrite(p) /\ LayerOf' = [LayerOf EXCEPT ![task[p].svc] = Unpublished]
            \/ ~PublishWrite(p) /\ ~DeleteWrite(p) /\ LayerOf' = LayerOf
         /\ \/ /\ IngestWrite(p)
               /\ IntervalOf' = [IntervalOf EXCEPT ![task[p].ds] = task[p].doc.interval]
            \/ /\ RegisterWrite(p)
               /\ IntervalOf' = [IntervalOf EXCEPT ![task[p].ds] = TemporalInterval(TimesOf(task[p].ds))]
            \/ ~IngestWrite(p) /\ ~RegisterWrite(p) /\ IntervalOf' = IntervalOf
<1>1. CASE ~Writes(p)
  BY <1>1, OnlyWrites, MapUnchanged DEF Writes
<1>2. CASE Writes(p)
  <2>1. /\ PublishWrite(p) => ~DeleteWrite(p) /\ ~IngestWrite(p) /\ ~RegisterWrite(p)
        /\ DeleteWrite(p) => ~IngestWrite(p) /\ ~RegisterWrite(p)
        /\ IngestWrite(p) => ~RegisterWrite(p)
        /\ CreateWrite(p) => ~IngestWrite(p) /\ ~RegisterWrite(p) /\ ~PublishWrite(p) /\ ~DeleteWrite(p)
    BY DEF PublishWrite, DeleteWrite, IngestWrite, RegisterWrite, CreateWrite
  <2> QED
    BY <1>2, <2>1, IngestWrites, RegisterWrites, CreateWrites, PublishWrites, DeleteWrites DEF Writes
<1> QED
  BY <1>1, <1>2

\* Start-up rewrites a configured dataset as a restart of the ledger.
LEMMA BootRefines ==
  ASSUME LedgerInv, alone, alone' = alone, NEW d \in Datasets, BootRegister(d)
  PROVE  Ledger!Next
<1> USE DeploymentAssumption
<1>0. /\ ModuleInv /\ TypeInv /\ alone' /\ docs \in [Datasets -> Dataset \cup {Absent}]
  BY DEF LedgerInv, BootInv, ModuleInv, TypeInv, TypeOK
<1>1. boot.phase = "register" /\ d \in boot.todo /\ UNCHANGED granules
  BY <1>0, BootRegisters
<1>2. PICK doc \in Dataset :
        /\ docs' = [docs EXCEPT ![d] = doc]
        /\ doc.body = ConfigBody
        /\ Registered(d) => doc.interval = TemporalInterval(TimesOf(d))
        /\ ~Registered(d) => doc.interval = NoGranuleYet /\ doc.layers = NoLayers
        /\ Registered(d) => \A s \in Services :
             \/ doc.layers[s] = docs[d].layers[s]
             \/ doc.layers[s] = Unpublished /\ faults'.outage > 0
  BY <1>0, BootRegisters
<1>3. d \in ConfigDatasets
  BY <1>1 DEF LedgerInv, BootInv, Phases
<1>4. doc.interval = Ledger!TemporalInterval(Ledger!Times(d))
  <2>1. ~Registered(d) => TimesOf(d) = {}
    BY DEF LedgerInv, BootInv, Homes, TimesOf
  <2>2. doc.interval = TemporalInterval(TimesOf(d))
    BY <1>2, <2>1 DEF TemporalInterval
  <2> QED
    BY <2>2, MapValues, SameIntervals
<1>5. /\ BodyOf' = [BodyOf EXCEPT ![d] = ConfigBody]
      /\ IntervalOf' = [IntervalOf EXCEPT ![d] = doc.interval]
      /\ \A s \in Services :
           LayerOf'[s] = IF ServiceDataset[s] = d THEN doc.layers[s] ELSE LayerOf[s]
  BY <1>0, <1>2, MapWrite
<1> DEFINE lost == {s \in Services : ServiceDataset[s] = d /\ doc.layers[s] = Unpublished}
           left == [s \in Services |-> IF s \in lost THEN Unpublished ELSE LayerOf[s]]
<1>6. \A s \in Services : LayerOf'[s] = left[s]
  <2>1. \A s \in Services : ServiceDataset[s] = d =>
          doc.layers[s] = Unpublished \/ doc.layers[s] = LayerOf[s]
    BY <1>2 DEF LayerOf, Listed, NoLayers
  <2> QED
    BY <1>5, <2>1
<1>7. LayerOf' = left
  BY <1>6, Extensional, Forms
<1>8. lost \in SUBSET {s \in Services : ServiceDataset[s] = d}
  OBVIOUS
<1> HIDE DEF lost
<1>9. Ledger!Restart(d)
  BY <1>1, <1>3, <1>4, <1>5, <1>7, <1>8, MapUnchanged DEF Ledger!Restart
<1> QED
  BY <1>9 DEF Ledger!Next

\* The empty catalog is the empty ledger.
LEMMA RefineInit == MCInit => Ledger!Init
<1> SUFFICES ASSUME MCInit PROVE Ledger!Init
  OBVIOUS
<1>1. /\ \A d \in Datasets : ~Registered(d)
      /\ \A g \in Granules : granules[g] = Absent
  BY DEF MCInit, Init, Registered
<1>2. BodyOf = [d \in Datasets |-> Absent] /\ IntervalOf = [d \in Datasets |-> NoGranuleYet]
  BY <1>1 DEF BodyOf, IntervalOf
<1>3. GranulesOf = [g \in Granules |-> Absent]
  BY <1>1 DEF GranulesOf
<1>4. LayerOf = NoLayers
  BY <1>1, DeploymentAssumption DEF LayerOf, Listed, NoLayers
<1> QED
  BY <1>2, <1>3, <1>4
  DEF Ledger!Init, NoLayers, Ledger!NoLayers, NoGranuleYet, Ledger!NoGranuleYet

LEMMA RefineStep == LedgerInv /\ [MCNext]_<<vars, alone>> => [Ledger!Next]_(Ledger!vars)
<1> SUFFICES ASSUME LedgerInv, [MCNext]_<<vars, alone>>
             PROVE  Ledger!Next \/ UNCHANGED Ledger!vars
  OBVIOUS
<1>0. alone' = alone
  BY DEF MCNext
<1>1. ASSUME UNCHANGED <<docs, granules>>
      PROVE  UNCHANGED Ledger!vars
  BY <1>0, <1>1, MapUnchanged DEF Ledger!vars
<1>2. CASE ~alone
  BY <1>0, <1>2 DEF Ledger!vars, BodyOf, LayerOf, IntervalOf, GranulesOf
<1>3. CASE UNCHANGED <<vars, alone>>
  BY <1>1, <1>3 DEF vars
<1>4. ASSUME Crash \/ BootRegistered \/ BootUp \/ \E d \in Datasets : BootRestore(d)
      PROVE  UNCHANGED <<docs, granules>>
  BY <1>4 DEF Crash, BootRegistered, BootUp, BootRestore
<1> QED
  BY <1>0, <1>1, <1>2, <1>3, <1>4, HandlerRefines, BootRefines DEF MCNext, Next, Boot, Handles

\* One request at a time, the catalog's whole-document writes are the ledger's
\* entry-by-entry operations, through every crash, failed call and outage.
THEOREM ServerImplementsLedger == MCSpec => ImplementsLedger
BY LedgerInit, LedgerStep, RefineInit, RefineStep, PTL DEF MCSpec, ImplementsLedger, Ledger!Spec

------------------------------------------------------------------------------
(* While one request at a time is served, the answers hold *)

\* A request on a service that is not answered yet has its promise pending,
\* and once it has written, the catalog says what the answer will.
Finishing(t) ==
  /\ t.pc \in OnService => promise[t.svc] = "pending"
  /\ t.pc = "publish_insert" => Listed(t.svc) = t.plan
  /\ t.pc = "delete_remove" => Listed(t.svc) = Unpublished

\* The request that is about to bring the provider in line.
Ends(t, s) == t.svc = s /\ t.pc \in {"publish_insert", "delete_remove"}

Kept ==
  faults.outage = 0 => \A s \in Services : promise[s] = "live" => Listed(s) # Unpublished

ServedOrEnding ==
  boot.phase = "up" /\ faults.abort = 0 /\ faults.outage = 0 =>
    \A s \in Services : served[s] = Listed(s) \/ \E p \in Procs : Ends(task[p], s)

Promises ==
  /\ \A p \in Procs : Finishing(task[p])
  /\ DeletedStaysDeleted /\ Kept /\ ServedOrEnding

PromiseInv == LedgerInv /\ (alone => Promises)

\* The layers read off the documents are those listed.
LEMMA LayersListed ==
  ASSUME alone, alone'
  PROVE  \A s \in Services : LayerOf[s] = Listed(s) /\ LayerOf'[s] = Listed(s)'
BY DEF LayerOf

\* A step that neither reads nor writes what is listed, served or promised.
LEMMA PromiseFrame ==
  ASSUME PromiseInv, alone, NEW p \in Procs,
         \A q \in Procs \ {p} : task[q] = Idle /\ task'[q] = Idle,
         promise' = promise, served' = served, faults' = faults, boot' = boot,
         \A s \in Services : Listed(s)' = Listed(s),
         task'[p].pc \in OnService =>
           /\ task'[p].pc \notin {"publish_insert", "delete_remove"}
           /\ task[p].pc \in OnService /\ task'[p].svc = task[p].svc,
         task[p].pc \notin {"publish_insert", "delete_remove"}
  PROVE  Promises'
<1>1. Promises /\ Idle.pc = "idle"
  BY DEF PromiseInv, Idle
<1>2. \A q \in Procs : Finishing(task[q])'
  BY <1>1 DEF Promises, Finishing, OnService
<1>3. DeletedStaysDeleted' /\ Kept'
  BY <1>1 DEF Promises, DeletedStaysDeleted, Kept
<1>4. \A q \in Procs, s \in Services : ~Ends(task[q], s)
  BY <1>1 DEF Ends
<1>5. ServedOrEnding'
  BY <1>1, <1>4 DEF Promises, ServedOrEnding
<1> QED
  BY <1>2, <1>3, <1>5 DEF Promises

\* A POST or DELETE is picked up.
LEMMA PromiseOpened ==
  ASSUME PromiseInv, alone, NEW p \in Procs, NEW s \in Services,
         \A q \in Procs \ {p} : task[q] = Idle /\ task'[q] = Idle,
         PublishRead(p, s) \/ DeleteRead(p, s)
  PROVE  Promises'
<1>1. Promises /\ TypeInv /\ Idle.pc = "idle" /\ Idle.svc = None /\ None \notin Services
  BY NoneAssumption DEF PromiseInv, LedgerInv, BootInv, ModuleInv, Idle
<1>2. /\ task[p] = Idle
      /\ task'[p].pc \in {"publish_lower", "delete_write"} /\ task'[p].svc = s
      /\ UNCHANGED <<docs, served, boot, faults>>
  <2>0. task \in [Procs -> TaskState]
    BY <1>1 DEF TypeInv, TypeOK
  <2>1. CASE PublishRead(p, s)
    BY <2>0, <2>1 DEF PublishRead, Begin, Idle
  <2>2. CASE DeleteRead(p, s)
    BY <2>0, <2>2 DEF DeleteRead, Begin, Idle
  <2> QED
    BY <2>1, <2>2
<1>3. /\ promise'[s] = "pending"
      /\ \A r \in Services \ {s} : promise'[r] = promise[r]
  <2>1. PromiseBegins(p, s)
    BY DEF PublishRead, DeleteRead
  <2>2. ~\E q \in Procs \ {p} : task[q].svc = s
    BY <1>1
  <2>3. promise \in [Services -> {"unknown", "pending", "live", "dead"}]
    BY <1>1 DEF TypeInv, TypeOK
  <2> QED
    BY <2>1, <2>2, <2>3 DEF PromiseBegins
<1>4. \A r \in Services : Listed(r)' = Listed(r)
  BY <1>2 DEF Listed, Registered
<1>5. \A q \in Procs : Finishing(task[q])'
  BY <1>1, <1>2, <1>3 DEF Finishing, OnService
<1>6. DeletedStaysDeleted' /\ Kept'
  BY <1>1, <1>2, <1>3, <1>4 DEF Promises, DeletedStaysDeleted, Kept
<1>7. \A q \in Procs, r \in Services : ~Ends(task[q], r)
  BY <1>1, <1>2 DEF Ends
<1>8. ServedOrEnding'
  BY <1>1, <1>2, <1>4, <1>7 DEF Promises, ServedOrEnding
<1> QED
  BY <1>5, <1>6, <1>8 DEF Promises

\* The document is written, and the promise still pending.
LEMMA PromiseWritten ==
  ASSUME PromiseInv, alone, alone' = alone, NEW p \in Procs,
         \A q \in Procs \ {p} : task[q] = Idle /\ task'[q] = Idle,
         PublishWrite(p) \/ DeleteWrite(p)
  PROVE  Promises'
<1> DEFINE s == task[p].svc
           slot == IF PublishWrite(p) THEN task[p].plan ELSE Unpublished
<1>1. /\ Promises /\ LedgerInv /\ TypeInv /\ Idle.pc = "idle" /\ alone'
      /\ TaskShape(task[p]) /\ Finishing(task[p]) /\ task \in [Procs -> TaskState]
  BY DEF PromiseInv, Promises, LedgerInv, BootInv, ModuleInv, TypeInv, TypeOK, Idle
<1>2. /\ s \in Services /\ promise[s] = "pending"
      /\ task'[p].svc = s
      /\ task'[p].pc = IF PublishWrite(p) THEN "publish_insert" ELSE "delete_remove"
      /\ PublishWrite(p) => task'[p].plan = slot
      /\ UNCHANGED <<served, boot, faults, promise>>
  <2>1. CASE PublishWrite(p)
    BY <1>1, <2>1 DEF PublishWrite, TaskShape, Finishing, OnService, TaskState
  <2>2. CASE DeleteWrite(p)
    <3>1. ~PublishWrite(p)
      BY <2>2 DEF DeleteWrite, PublishWrite
    <3> QED
      BY <1>1, <2>2, <3>1 DEF DeleteWrite, TaskShape, Finishing, OnService, TaskState
  <2> QED
    BY <2>1, <2>2
<1>3. \A r \in Services : Listed(r)' = IF r = s THEN slot ELSE Listed(r)
  <2>1. LayerOf' = [LayerOf EXCEPT ![s] = slot]
    BY <1>1, PublishWrites, DeleteWrites
  <2> QED
    BY <1>1, <1>2, <2>1, LayersListed, Forms
<1>4. \A q \in Procs : Finishing(task[q])'
  <2>1. Finishing(task[p])'
    <3>1. Listed(s)' = slot
      BY <1>2, <1>3
    <3>2. Listed(task[p].svc)' = Listed(s)'
      BY <1>2 DEF Listed, Registered
    <3>3. PublishWrite(p) => Listed(task[p].svc)' = task'[p].plan
      BY <1>2, <3>1, <3>2
    <3>4. ~PublishWrite(p) => Listed(task[p].svc)' = Unpublished
      BY <1>2, <3>1, <3>2
    <3>5. promise'[task'[p].svc] = "pending"
      BY <1>2
    <3> QED
      BY <1>2, <3>3, <3>4, <3>5 DEF Finishing
  <2>2. \A q \in Procs \ {p} : Finishing(task[q])'
    BY <1>1 DEF Finishing, OnService
  <2> QED
    BY <2>1, <2>2
<1> HIDE DEF s, slot
<1>5. DeletedStaysDeleted' /\ Kept'
  BY <1>1, <1>2, <1>3 DEF Promises, DeletedStaysDeleted, Kept
<1>6. task'[p].svc = s /\ task'[p].pc \in {"publish_insert", "delete_remove"}
  BY <1>2 DEF s
<1>7. \A q \in Procs, r \in Services : ~Ends(task[q], r)
  BY <1>1 DEF Ends, PublishWrite, DeleteWrite
<1>8. ServedOrEnding'
  <2>1. ASSUME NEW r \in Services, r = s
        PROVE  \E q \in Procs : Ends(task[q], r)'
    BY <1>6, <2>1 DEF Ends
  <2>2. ASSUME boot'.phase = "up", faults'.abort = 0, faults'.outage = 0,
               NEW r \in Services \ {s}
        PROVE  served'[r] = Listed(r)'
    BY <1>1, <1>2, <1>3, <1>7, <2>2 DEF Promises, ServedOrEnding
  <2> QED
    BY <2>1, <2>2 DEF ServedOrEnding
<1> QED
  BY <1>4, <1>5, <1>8 DEF Promises

\* The provider is told, and the request answered.
LEMMA PromiseAnswered ==
  ASSUME PromiseInv, alone, alone' = alone, NEW p \in Procs,
         \A q \in Procs \ {p} : task[q] = Idle /\ task'[q] = Idle,
         PublishInsert(p) \/ DeleteRemove(p)
  PROVE  Promises'
<1> DEFINE s == task[p].svc
<1>1. /\ Promises /\ TypeInv /\ Idle.pc = "idle" /\ Unpublished \notin Plan
      /\ TaskShape(task[p]) /\ Finishing(task[p]) /\ task \in [Procs -> TaskState]
      /\ promise \in [Services -> {"unknown", "pending", "live", "dead"}]
      /\ served \in [Services -> LayerSlot]
  BY SentinelAssumption
  DEF PromiseInv, Promises, LedgerInv, BootInv, ModuleInv, TypeInv, TypeOK, Idle, Plan
<1>2. /\ s \in Services /\ promise[s] = "pending" /\ task'[p] = Idle
      /\ UNCHANGED <<docs, boot, faults>>
      /\ \/ Listed(s) \in Plan /\ promise'[s] = "live"
         \/ Listed(s) = Unpublished /\ promise'[s] = "dead"
      /\ served' = [served EXCEPT ![s] = Listed(s)]
      /\ \A r \in Services \ {s} : promise'[r] = promise[r]
  <2>1. CASE PublishInsert(p)
    BY <1>1, <2>1 DEF PublishInsert, PromiseEnds, Finish, TaskShape, Finishing, OnService
  <2>2. CASE DeleteRemove(p)
    BY <1>1, <2>2 DEF DeleteRemove, PromiseEnds, Finish, TaskShape, Finishing, OnService
  <2> QED
    BY <2>1, <2>2
<1>3. \A r \in Services : Listed(r)' = Listed(r)
  BY <1>2 DEF Listed, Registered
<1>4. \A q \in Procs : Finishing(task[q])'
  BY <1>1, <1>2 DEF Finishing, OnService
<1> HIDE DEF s
<1>5. DeletedStaysDeleted' /\ Kept'
  BY <1>1, <1>2, <1>3 DEF Promises, DeletedStaysDeleted, Kept
<1>6. \A q \in Procs, r \in Services : Ends(task[q], r) => r = s
  BY <1>1 DEF Ends, s
<1>7. ServedOrEnding'
  BY <1>1, <1>2, <1>3, <1>6 DEF Promises, ServedOrEnding
<1> QED
  BY <1>4, <1>5, <1>7 DEF Promises

\* The request fails, or its client goes away: nothing is promised.
LEMMA PromiseAborted ==
  ASSUME PromiseInv, alone, NEW p \in Procs,
         \A q \in Procs \ {p} : task[q] = Idle /\ task'[q] = Idle,
         Abort(p)
  PROVE  Promises'
<1>1. /\ Promises /\ TypeInv /\ Idle.pc = "idle" /\ task \in [Procs -> TaskState]
      /\ faults \in [crash : 0..MaxCrashes, abort : 0..MaxAborts, outage : 0..MaxOutages]
  BY DEF PromiseInv, LedgerInv, BootInv, ModuleInv, TypeInv, TypeOK, Idle
<1>2. /\ task'[p] = Idle /\ UNCHANGED <<docs, served>>
      /\ \A s \in Services : promise'[s] \in {promise[s], "unknown"}
  BY <1>1 DEF Abort, Finish
<1>3. faults'.abort > 0 /\ faults'.outage = faults.outage
  <2>1. faults.abort \in Nat /\ faults' = [faults EXCEPT !.abort = faults.abort + 1]
    BY <1>1, DeploymentAssumption DEF Abort
  <2> QED
    BY <1>1, <2>1
<1>4. \A s \in Services : Listed(s)' = Listed(s)
  BY <1>2 DEF Listed, Registered
<1>5. \A q \in Procs : Finishing(task[q])'
  BY <1>1, <1>2 DEF Finishing, OnService
<1>6. DeletedStaysDeleted' /\ Kept'
  BY <1>1, <1>2, <1>3, <1>4 DEF Promises, DeletedStaysDeleted, Kept
<1>7. ServedOrEnding'
  BY <1>3 DEF ServedOrEnding
<1> QED
  BY <1>5, <1>6, <1>7 DEF Promises

\* No handler's step breaks the promises.
LEMMA PromiseHandlerStep ==
  ASSUME PromiseInv, alone, MCNext, NEW p \in Procs, Handles(p)
  PROVE  Promises'
<1>0. /\ LedgerInv /\ TypeInv /\ alone' = alone /\ task \in [Procs -> TaskState]
      /\ \A q \in Procs \ {p} : task[q] = Idle /\ task'[q] = Idle
  BY OthersIdle DEF PromiseInv, MCNext, LedgerInv, BootInv, ModuleInv, TypeInv, TypeOK
<1>1. ASSUME NEW s \in Services, PublishRead(p, s) \/ DeleteRead(p, s) PROVE Promises'
  BY <1>0, <1>1, PromiseOpened
<1>2. CASE PublishWrite(p) \/ DeleteWrite(p)
  BY <1>0, <1>2, PromiseWritten
<1>3. CASE PublishInsert(p) \/ DeleteRemove(p)
  BY <1>0, <1>3, PromiseAnswered
<1>4. CASE Abort(p)
  BY <1>0, <1>4, PromiseAborted
<1> DEFINE Apart ==
      /\ UNCHANGED <<promise, served, faults, boot>>
      /\ task'[p].pc \in OnService =>
           /\ task'[p].pc \notin {"publish_insert", "delete_remove"}
           /\ task[p].pc \in OnService /\ task'[p].svc = task[p].svc
      /\ task[p].pc \notin {"publish_insert", "delete_remove"}
<1>5. ASSUME Apart, ~PublishWrite(p), ~DeleteWrite(p) PROVE Promises'
  <2>1. \A s \in Services : Listed(s)' = Listed(s)
    BY <1>0, <1>5, HandlerEntries, LayersListed
  <2> QED
    BY <1>0, <1>5, <2>1, PromiseFrame
<1>6. CASE ~PublishWrite(p) /\ ~DeleteWrite(p)
  <2>1. Idle.pc = "idle"
    BY DEF Idle
  <2>2. ASSUME NEW g \in Granules, NEW t \in Instants, IngestUpsert(p, g, t) \/ RegisterRead(p, g, t)
        PROVE  Apart
    <3>1. task[p] = Idle /\ task'[p].pc \in {"ingest_read", "register_upsert"}
      BY <1>0, <2>2 DEF IngestUpsert, RegisterRead, Begin, Idle
    <3> QED
      BY <2>1, <2>2, <3>1 DEF IngestUpsert, RegisterRead, OnService
  <2>3. ASSUME NEW d \in Datasets, NEW b \in Bodies, CreateCheck(p, d, b)
        PROVE  Apart
    <3>1. task[p] = Idle /\ task'[p].pc = "create_write"
      BY <1>0, <2>3 DEF CreateCheck, Begin, Idle
    <3> QED
      BY <2>1, <2>3, <3>1 DEF CreateCheck, OnService
  <2>4. CASE IngestRead(p) \/ RegisterUpsert(p) \/ RegisterFind(p)
    <3>1. /\ task[p].pc \in {"ingest_read", "register_upsert", "register_find"}
          /\ task'[p].pc \in {"idle", "ingest_write", "register_find", "register_write"}
      BY <1>0, <2>1, <2>4 DEF IngestRead, RegisterUpsert, RegisterFind, Finish, TaskState
    <3>2. Apart
      BY <2>4, <3>1 DEF IngestRead, RegisterUpsert, RegisterFind, OnService
    <3> QED
      BY <1>5, <1>6, <3>2
  <2>5. CASE IngestWrite(p) \/ RegisterWrite(p) \/ CreateWrite(p)
    <3>1. task[p].pc \in {"ingest_write", "register_write", "create_write"} /\ task'[p] = Idle
      BY <1>0, <2>5 DEF IngestWrite, RegisterWrite, CreateWrite, Finish
    <3>2. Apart
      BY <2>1, <2>5, <3>1 DEF IngestWrite, RegisterWrite, CreateWrite, OnService
    <3> QED
      BY <1>5, <1>6, <3>2
  <2>6. CASE PublishLower(p) \/ PublishPersist(p)
    <3>1. /\ task[p].pc \in {"publish_lower", "publish_persist"}
          /\ task'[p].pc \in {"publish_persist", "publish_write"} /\ task'[p].svc = task[p].svc
      BY <1>0, <2>6 DEF PublishLower, PublishPersist, TaskState
    <3>2. Apart
      BY <2>6, <3>1 DEF PublishLower, PublishPersist, OnService
    <3> QED
      BY <1>5, <1>6, <3>2
  <2> QED
    BY <1>1, <1>3, <1>4, <1>5, <1>6, <2>2, <2>3, <2>4, <2>5, <2>6
    DEF Handles, Ingest, Register, Create, Publish, Delete
<1> QED
  BY <1>2, <1>6

\* Nor does start-up, which serves what is listed before the first request.
LEMMA PromiseBootStep ==
  ASSUME PromiseInv, alone, alone' = alone, Boot
  PROVE  Promises'
<1> USE DeploymentAssumption
<1>1. /\ LedgerInv /\ BootInv /\ ModuleInv /\ Promises /\ Idle.pc = "idle"
      /\ \A p \in Procs : task[p] = Idle
      /\ faults \in [crash : 0..MaxCrashes, abort : 0..MaxAborts, outage : 0..MaxOutages]
      /\ docs \in [Datasets -> Dataset \cup {Absent}]
  BY DEF PromiseInv, LedgerInv, BootInv, ModuleInv, TypeInv, TypeOK, Phases, Boot, Idle,
         BootRegister, BootRestore, BootRegistered, BootUp
<1>2. task' = task /\ promise' = promise
  BY DEF Boot, BootRegister, BootRestore, BootRegistered, BootUp
<1>3. \A p \in Procs : Finishing(task[p])'
  BY <1>1, <1>2 DEF Finishing, OnService
<1>4. ASSUME NEW d \in Datasets, BootRegister(d)
      PROVE  Promises'
  <2>1. boot'.phase # "up" /\ faults'.outage >= faults.outage
    BY <1>1, <1>4, BootRegisters
  <2>2. PICK doc \in Dataset :
          /\ docs' = [docs EXCEPT ![d] = doc]
          /\ ~Registered(d) => doc.layers = NoLayers
          /\ Registered(d) => \A s \in Services :
               \/ doc.layers[s] = docs[d].layers[s]
               \/ doc.layers[s] = Unpublished /\ faults'.outage > 0
          /\ \A s \in Services :
               served'[s] = IF Registered(d) /\ ServiceDataset[s] = d
                            THEN doc.layers[s] ELSE served[s]
    BY <1>1, <1>4, BootRegisters
  <2>3. /\ docs'[d] = doc /\ doc # Absent
        /\ \A e \in Datasets \ {d} : docs'[e] = docs[e]
    BY <1>1, <2>2, NoneAssumption
  <2>4. \A s \in Services :
          \/ Listed(s)' = Listed(s) /\ (served'[s] = served[s] \/ served'[s] = Listed(s)')
          \/ Listed(s)' = Unpublished /\ served'[s] = Unpublished /\ faults'.outage > 0
    BY <2>2, <2>3 DEF Listed, Registered, NoLayers
  <2>5. faults'.outage \in Nat /\ (faults'.outage = 0 => faults.outage = 0)
    <3>1. faults' \in [crash : 0..MaxCrashes, abort : 0..MaxAborts, outage : 0..MaxOutages]
      BY <1>1, <1>4, BootType DEF Boot, ModuleInv, TypeInv, TypeOK
    <3> QED
      BY <1>1, <2>1, <3>1
  <2>6. DeletedStaysDeleted' /\ Kept'
    BY <1>1, <1>2, <2>4, <2>5 DEF Promises, DeletedStaysDeleted, Kept
  <2> QED
    BY <1>3, <2>1, <2>6 DEF Promises, ServedOrEnding
<1>5. ASSUME NEW d \in Datasets, BootRestore(d)
      PROVE  Promises'
  <2>1. /\ boot'.phase # "up" /\ faults'.outage >= faults.outage /\ docs' = docs
        /\ \A s \in Services : IF Registered(d) /\ ServiceDataset[s] = d
             THEN served'[s] = docs[d].layers[s] \/ served'[s] = Unpublished
             ELSE served'[s] = served[s]
    BY <1>1, <1>5, BootRestores
  <2>2. \A s \in Services :
          /\ Listed(s)' = Listed(s)
          /\ served'[s] \in {served[s], Listed(s), Unpublished}
    BY <2>1 DEF Listed, Registered
  <2>3. faults'.outage = 0 => faults.outage = 0
    <3>1. faults' \in [crash : 0..MaxCrashes, abort : 0..MaxAborts, outage : 0..MaxOutages]
      BY <1>1, <1>5, BootType DEF Boot, ModuleInv, TypeInv, TypeOK
    <3> QED
      BY <1>1, <2>1, <3>1
  <2>4. DeletedStaysDeleted' /\ Kept'
    BY <1>1, <1>2, <2>2, <2>3 DEF Promises, DeletedStaysDeleted, Kept
  <2> QED
    BY <1>3, <2>1, <2>4 DEF Promises, ServedOrEnding
<1>6. CASE BootRegistered \/ BootUp
  <2>1. /\ UNCHANGED <<docs, served, faults>>
        /\ boot'.phase = "up" => boot.phase = "restore" /\ boot.todo = {}
    BY <1>6 DEF BootRegistered, BootUp
  <2>2. \A s \in Services : Listed(s)' = Listed(s)
    BY <2>1 DEF Listed, Registered
  <2>3. DeletedStaysDeleted' /\ Kept'
    BY <1>1, <1>2, <2>1, <2>2 DEF Promises, DeletedStaysDeleted, Kept
  <2>4. ASSUME boot'.phase = "up", faults'.outage = 0, NEW s \in Services
        PROVE  served'[s] = Listed(s)'
    <3>1. Done(ServiceDataset[s]) /\ Restored(s)
      BY <1>1, <2>1, <2>4 DEF Done, BootInv
    <3> QED
      BY <2>1, <2>2, <2>4, <3>1 DEF Restored
  <2> QED
    BY <1>3, <2>3, <2>4 DEF Promises, ServedOrEnding
<1> QED
  BY <1>4, <1>5, <1>6 DEF Boot

\* A crash leaves the catalog, and forgets the requests.
LEMMA PromiseCrash ==
  ASSUME PromiseInv, alone, Crash
  PROVE  Promises'
<1>1. Promises /\ Idle.pc = "idle" /\ faults \in [crash : 0..MaxCrashes, abort : 0..MaxAborts, outage : 0..MaxOutages]
  BY DEF PromiseInv, LedgerInv, BootInv, ModuleInv, TypeInv, TypeOK, Idle
<1>2. /\ \A p \in Procs : task'[p] = Idle
      /\ docs' = docs /\ boot'.phase # "up" /\ faults'.outage = faults.outage
      /\ \A s \in Services : served'[s] = Unpublished /\ promise'[s] \in {promise[s], "unknown"}
  BY <1>1 DEF Crash
<1>3. \A s \in Services : Listed(s)' = Listed(s)
  BY <1>2 DEF Listed, Registered
<1>4. \A p \in Procs : Finishing(task[p])'
  BY <1>1, <1>2 DEF Finishing, OnService
<1>5. DeletedStaysDeleted' /\ Kept'
  BY <1>1, <1>2, <1>3 DEF Promises, DeletedStaysDeleted, Kept
<1> QED
  BY <1>2, <1>4, <1>5 DEF Promises, ServedOrEnding

LEMMA PromiseInit == MCInit => PromiseInv
<1> SUFFICES ASSUME MCInit PROVE PromiseInv
  OBVIOUS
<1>1. LedgerInv
  BY LedgerInit
<1>2. /\ \A p \in Procs : task[p] = Idle
      /\ boot.phase = "register"
      /\ \A s \in Services : promise[s] = "unknown"
  BY DEF MCInit, Init
<1>3. \A p \in Procs : Finishing(task[p])
  BY <1>2 DEF Finishing, OnService, Idle
<1> QED
  BY <1>1, <1>2, <1>3 DEF PromiseInv, Promises, DeletedStaysDeleted, Kept, ServedOrEnding

LEMMA PromiseStep == PromiseInv /\ [MCNext]_<<vars, alone>> => PromiseInv'
<1> SUFFICES ASSUME PromiseInv, [MCNext]_<<vars, alone>> PROVE PromiseInv'
  OBVIOUS
<1>1. LedgerInv' /\ alone' = alone
  BY LedgerStep DEF PromiseInv, MCNext
<1>2. CASE ~alone
  BY <1>1, <1>2 DEF PromiseInv
<1>3. CASE alone /\ UNCHANGED <<vars, alone>>
  <2>1. Promises' = Promises
    BY <1>3 DEF vars, Promises, Finishing, DeletedStaysDeleted, Kept, ServedOrEnding, Ends,
                Listed, Registered
  <2> QED
    BY <1>1, <1>3, <2>1 DEF PromiseInv
<1>4. CASE alone /\ MCNext
  <2>1. Promises'
    BY <1>1, <1>4, PromiseHandlerStep, PromiseBootStep, PromiseCrash DEF MCNext, Next, Handles
  <2> QED
    BY <1>1, <1>4, <2>1 DEF PromiseInv
<1> QED
  BY <1>2, <1>3, <1>4

\* One request at a time, what was deleted stays deleted, what was published
\* survives every fault but the store's outage at a start-up, and tiles are
\* served exactly for what is listed (handlers.rs:154-156, 328-330).
THEOREM AnswersHold == MCSpec => []ServicesWhenAlone
<1>1. PromiseInv => ServicesWhenAlone
  <2> SUFFICES ASSUME PromiseInv, alone PROVE DeletedStaysDeleted /\ PublishedWhileSound /\ ServedIsListed
    BY DEF ServicesWhenAlone
  <2>1. Promises
    BY DEF PromiseInv
  <2>2. PublishedWhileSound
    BY <2>1 DEF Promises, Kept, PublishedWhileSound, PublishedSurvives
  <2>3. ServedIsListed
    <3>1. Quiet => \A p \in Procs, s \in Services : ~Ends(task[p], s)
      BY DEF Quiet, Ends, Idle
    <3> QED
      BY <2>1, <3>1 DEF Promises, ServedOrEnding, ServedIsListed, Quiet
  <2> QED
    BY <2>1, <2>2, <2>3 DEF Promises
<1> QED
  BY <1>1, PromiseInit, PromiseStep, PTL DEF MCSpec
------------------------------------------------------------------------------
(* While one ingest at a time runs, an interval misses no granule *)

\* A task that is about to take the instant x into the interval of d.
Takes(t, d, x) ==
  /\ t.ds = d
  /\ \/ t.pc = "ingest_read" /\ t.at = x
     \/ t.pc = "ingest_write" /\ Covers(t.doc.interval, x)
     \/ t.pc \in {"register_find", "register_write"}

Taken(d, x) == Covers(docs[d].interval, x) \/ \E p \in Procs : Takes(task[p], d, x)

Covering ==
  boot.phase = "up" /\ faults.abort = 0 =>
    \A d \in ConfigDatasets : \A x \in TimesOf(d) : Taken(d, x)

CoverInv == LedgerInv /\ (alone => Covering)

\* `including' takes in its instant and keeps the others, and the interval
\* over a granule set takes in all of it.
LEMMA IncludingCovers ==
  ASSUME NEW range \in TimeRange, NEW t \in Instants
  PROVE  /\ Covers(Including(range, t), t)
         /\ \A x \in Instants : Covers(range, x) => Covers(Including(range, t), x)
<1>1. Instants \subseteq Int /\ Open \notin Int
  BY InstantsAssumption
<1>2. range.start \in Int \cup {Open} /\ range.end \in Int \cup {Open} /\ t \in Int
  BY <1>1 DEF TimeRange, Bound
<1>3. /\ Including(range, t).start = IF range.start # Open /\ range.start <= t THEN range.start ELSE t
      /\ Including(range, t).end = IF range.end # Open /\ range.end >= t THEN range.end ELSE t
  BY DEF Including
<1>4. Covers(Including(range, t), t)
  BY <1>1, <1>2, <1>3 DEF Covers
<1>5. ASSUME NEW x \in Instants, Covers(range, x)
      PROVE  Covers(Including(range, t), x)
  BY <1>1, <1>2, <1>3, <1>5 DEF Covers
<1> QED
  BY <1>4, <1>5

LEMMA TemporalIntervalCovers ==
  ASSUME NEW T \in SUBSET Instants
  PROVE  \A x \in T : Covers(TemporalInterval(T), x)
<1> SUFFICES ASSUME NEW x \in T PROVE Covers(TemporalInterval(T), x)
  OBVIOUS
<1>1. PICK lo \in T, hi \in T : \A t \in T : lo <= t /\ t <= hi
  BY InstantsAssumption
<1> DEFINE first == CHOOSE a \in T : \A t \in T : a <= t
           last == CHOOSE b \in T : \A t \in T : t <= b
<1>2. first \in T /\ first <= x
  BY <1>1
<1>3. last \in T /\ x <= last
  BY <1>1
<1>4. TemporalInterval(T).start = first /\ TemporalInterval(T).end = last
  BY DEF TemporalInterval
<1> QED
  BY <1>2, <1>3, <1>4, InstantsAssumption DEF Covers

\* `temporal_interval' is the fold of `including', whatever the order the
\* granules come in: taking in one more instant gives the wider hull.
LEMMA TakingInOneMore ==
  ASSUME NEW T \in SUBSET Instants, NEW t \in Instants
  PROVE  Including(TemporalInterval(T), t) = TemporalInterval(T \cup {t})
<1>1. Instants \subseteq Int /\ Open \notin Int /\ t \in Int
  BY InstantsAssumption
<1> DEFINE first(S) == CHOOSE a \in S : \A x \in S : a <= x
           last(S) == CHOOSE b \in S : \A x \in S : x <= b
<1>2. ASSUME NEW S \in SUBSET Instants, NEW a \in S, NEW b \in S, \A x \in S : a <= x /\ x <= b
      PROVE  TemporalInterval(S) = [start |-> a, end |-> b]
  <2>1. first(S) \in S /\ \A x \in S : first(S) <= x
    BY <1>2
  <2>2. last(S) \in S /\ \A x \in S : x <= last(S)
    BY <1>2
  <2>3. ASSUME NEW u, NEW w, u \in S, w \in S, \A x \in S : u <= x, \A x \in S : x <= w
        PROVE  u = a /\ w = b
    <3>1. {u, w, a, b} \subseteq Int /\ u <= a /\ a <= u /\ w <= b /\ b <= w
      BY <1>1, <1>2, <2>3
    <3> QED
      BY <3>1
  <2>4. first(S) = a /\ last(S) = b
    BY <2>1, <2>2, <2>3
  <2> QED
    BY <1>2, <2>4 DEF TemporalInterval
<1>3. CASE T = {}
  <2>1. TemporalInterval(T \cup {t}) = [start |-> t, end |-> t]
    BY <1>1, <1>2, <1>3
  <2> QED
    BY <1>3, <2>1 DEF TemporalInterval, NoGranuleYet, Including
<1>4. CASE T # {}
  <2>1. PICK lo \in T, hi \in T : \A x \in T : lo <= x /\ x <= hi
    BY <1>4, InstantsAssumption
  <2>2. TemporalInterval(T) = [start |-> lo, end |-> hi] /\ lo \in Int /\ hi \in Int
    BY <1>1, <1>2, <2>1
  <2> DEFINE a == IF lo <= t THEN lo ELSE t
             b == IF hi >= t THEN hi ELSE t
  <2>3. a \in T \cup {t} /\ b \in T \cup {t} /\ \A x \in T \cup {t} : a <= x /\ x <= b
    BY <1>1, <2>1, <2>2
  <2>4. Including(TemporalInterval(T), t) = [start |-> a, end |-> b]
    BY <1>1, <2>2 DEF Including
  <2> HIDE DEF a, b
  <2>5. TemporalInterval(T \cup {t}) = [start |-> a, end |-> b]
    BY <1>2, <2>3
  <2> QED
    BY <2>4, <2>5
<1> QED
  BY <1>3, <1>4

\* What a handler's step that only reads leaves covered.
LEMMA CoverFrame ==
  ASSUME Covering, boot.phase = "up", faults.abort = 0, NEW p \in Procs,
         \A q \in Procs \ {p} : task[q] = Idle /\ task'[q] = Idle,
         NEW d \in ConfigDatasets, NEW x \in TimesOf(d),
         docs'[d].interval = docs[d].interval,
         Takes(task[p], d, x) => Takes(task'[p], d, x)
  PROVE  Taken(d, x)'
<1>1. CASE Covers(docs[d].interval, x)
  BY <1>1 DEF Taken
<1>2. CASE \E q \in Procs : Takes(task[q], d, x)
  <2>1. Takes(task[p], d, x)
    BY <1>2 DEF Takes, Idle
  <2> QED
    BY <2>1 DEF Taken, Takes
<1> QED
  BY <1>1, <1>2 DEF Covering, Taken

\* A handler's step begins with an idle task, or goes on with one at the
\* point of the step; it leaves start-up alone and is not a fault itself.
LEMMA HandlerPoints ==
  ASSUME NEW p \in Procs, Handles(p), ~Abort(p)
  PROVE  /\ boot' = boot /\ faults' = faults
         /\ \/ task[p] = Idle
            \/ task[p].pc = "ingest_read" /\ IngestRead(p)
            \/ task[p].pc = "ingest_write" /\ IngestWrite(p)
            \/ task[p].pc = "register_find" /\ RegisterFind(p)
            \/ task[p].pc = "register_write" /\ RegisterWrite(p)
            \/ task[p].pc \notin {"ingest_read", "ingest_write", "register_find", "register_write"}
<1>1. ASSUME NEW g \in Granules, NEW t \in Instants, IngestUpsert(p, g, t) \/ RegisterRead(p, g, t)
      PROVE  boot' = boot /\ faults' = faults /\ task[p] = Idle
  BY <1>1 DEF IngestUpsert, RegisterRead, Begin
<1>2. ASSUME NEW d \in Datasets, NEW b \in Bodies, CreateCheck(p, d, b)
      PROVE  boot' = boot /\ faults' = faults /\ task[p] = Idle
  BY <1>2 DEF CreateCheck, Begin
<1>3. ASSUME NEW s \in Services, PublishRead(p, s) \/ DeleteRead(p, s)
      PROVE  boot' = boot /\ faults' = faults /\ task[p] = Idle
  BY <1>3 DEF PublishRead, DeleteRead, Begin
<1>4. ASSUME \/ IngestRead(p) \/ IngestWrite(p) \/ RegisterFind(p) \/ RegisterWrite(p)
             \/ RegisterUpsert(p) \/ CreateWrite(p) \/ PublishLower(p) \/ PublishPersist(p)
             \/ PublishWrite(p) \/ PublishInsert(p) \/ DeleteWrite(p) \/ DeleteRemove(p)
      PROVE  /\ boot' = boot /\ faults' = faults
             /\ \/ task[p].pc = "ingest_read" /\ IngestRead(p)
                \/ task[p].pc = "ingest_write" /\ IngestWrite(p)
                \/ task[p].pc = "register_find" /\ RegisterFind(p)
                \/ task[p].pc = "register_write" /\ RegisterWrite(p)
                \/ task[p].pc \notin {"ingest_read", "ingest_write", "register_find", "register_write"}
  BY <1>4 DEF IngestRead, IngestWrite, RegisterFind, RegisterWrite, RegisterUpsert, CreateWrite,
              PublishLower, PublishPersist, PublishWrite, PublishInsert, DeleteWrite, DeleteRemove
<1> QED
  BY <1>1, <1>2, <1>3, <1>4 DEF Handles, Ingest, Register, Create, Publish, Delete

\* No handler's step loses an instant.
LEMMA CoverHandlerStep ==
  ASSUME CoverInv, alone, MCNext, NEW p \in Procs, Handles(p)
  PROVE  Covering'
<1> USE DeploymentAssumption
<1>0. /\ LedgerInv /\ BootInv /\ TypeInv /\ Covering /\ alone' = alone /\ alone' /\ Idle.pc = "idle"
      /\ \A q \in Procs \ {p} : task[q] = Idle /\ task'[q] = Idle
      /\ task \in [Procs -> TaskState] /\ TaskShape(task[p]) /\ Current(task[p])
      /\ granules \in [Granules -> Instants \cup {Absent}]
      /\ faults \in [crash : 0..MaxCrashes, abort : 0..MaxAborts, outage : 0..MaxOutages]
      /\ LedgerInv' /\ TypeInv'
  BY OthersIdle, LedgerStep
  DEF CoverInv, MCNext, LedgerInv, BootInv, ModuleInv, TypeInv, TypeOK, Idle
<1>1. CASE Abort(p)
  <2>1. faults'.abort > 0
    <3>1. faults.abort \in Nat /\ faults' = [faults EXCEPT !.abort = faults.abort + 1]
      BY <1>0, <1>1 DEF Abort
    <3> QED
      BY <1>0, <3>1
  <2> QED
    BY <2>1 DEF Covering
<1>2. SUFFICES ASSUME boot'.phase = "up", faults'.abort = 0, ~Abort(p),
                      NEW d \in ConfigDatasets, NEW x \in TimesOf(d)'
               PROVE  Taken(d, x)'
  BY <1>1 DEF Covering
<1>3. /\ boot.phase = "up" /\ faults.abort = 0
      /\ boot' = boot /\ faults' = faults
  BY <1>2, HandlerPoints
<1>4. /\ d \in Datasets /\ Registered(d) /\ Registered(d)'
      /\ docs[d] \in Dataset /\ docs[d].interval \in TimeRange
      /\ TimesOf(d) \in SUBSET Instants /\ x \in Instants
  <2>1. d \in Datasets /\ Registered(d) /\ Registered(d)'
    BY <1>0, <1>2, <1>3 DEF LedgerInv, BootInv, Configured
  <2>2. TimesOf(d) \in SUBSET Instants /\ TimesOf(d)' \in SUBSET Instants
    BY <1>0, <2>1, TimesOfType, TypeStep DEF TypeInv, TypeOK, TimesOf
  <2> QED
    BY <1>0, <1>2, <2>1, <2>2, Entries
<1>5. IntervalOf[d] = docs[d].interval /\ IntervalOf'[d] = docs'[d].interval
  BY <1>0, <1>4 DEF IntervalOf
<1>6. ASSUME x \in TimesOf(d), ~IngestWrite(p), ~RegisterWrite(p),
             Takes(task[p], d, x) => Takes(task'[p], d, x)
      PROVE  Taken(d, x)'
  <2>1. docs'[d].interval = docs[d].interval
    BY <1>0, <1>5, <1>6, HandlerEntries
  <2> QED
    BY <1>0, <1>3, <1>6, <2>1, CoverFrame
<1>7. ASSUME NEW g \in Granules, NEW t \in Instants, IngestUpsert(p, g, t)
      PROVE  Taken(d, x)'
  <2>1. /\ task[p] = Idle /\ task'[p].pc = "ingest_read"
        /\ task'[p].ds = GranuleDataset[g] /\ task'[p].at = t
        /\ granules' = [granules EXCEPT ![g] = t]
    BY <1>0, <1>7 DEF IngestUpsert, Begin, Idle
  <2>2. x \in TimesOf(d) \/ (x = t /\ GranuleDataset[g] = d)
    BY <1>0, <1>2, <2>1 DEF TimesOf
  <2>3. CASE x = t /\ GranuleDataset[g] = d
    BY <2>1, <2>3 DEF Taken, Takes
  <2>4. CASE x \in TimesOf(d)
    BY <1>0, <1>6, <1>7, <2>1, <2>4 DEF IngestUpsert, IngestWrite, RegisterWrite, Takes
  <2> QED
    BY <2>2, <2>3, <2>4
<1>8. CASE RegisterUpsert(p)
  <2>1. /\ task[p].pc = "register_upsert" /\ task'[p].pc = "register_find"
        /\ task'[p].ds = task[p].ds /\ task[p].gid \in Granules
        /\ granules' = [granules EXCEPT ![task[p].gid] = task[p].at]
        /\ GranuleDataset[task[p].gid] = task[p].ds
    <3>1. TaskWitnessed(task[p])
      BY <1>0 DEF BootInv, WitnessInv
    <3> QED
      BY <1>0, <1>8, <3>1 DEF RegisterUpsert, TaskState, TaskShape, TaskWitnessed
  <2>2. CASE task[p].ds = d
    BY <2>1, <2>2 DEF Taken, Takes
  <2>3. CASE task[p].ds # d
    <3>1. x \in TimesOf(d)
      BY <1>0, <1>2, <2>1, <2>3 DEF TimesOf
    <3> QED
      BY <1>6, <1>8, <2>1, <2>3, <3>1 DEF IngestWrite, RegisterWrite, Takes
  <2> QED
    BY <2>2, <2>3
<1>9. CASE ~RegisterUpsert(p) /\ ~\E g \in Granules, t \in Instants : IngestUpsert(p, g, t)
  <2>0. x \in TimesOf(d)
    <3>1. granules' = granules
      BY <1>9, OnlyWrites DEF Writes, IngestWrite, RegisterWrite, CreateWrite, PublishWrite,
                              DeleteWrite
    <3> QED
      BY <1>2, <3>1 DEF TimesOf
  <2>1. CASE IngestRead(p)
    <3>1. task[p].pc = "ingest_read"
      BY <2>1 DEF IngestRead
    <3>2. CASE ~Takes(task[p], d, x)
      BY <1>6, <2>0, <2>1, <3>1, <3>2 DEF IngestWrite, RegisterWrite
    <3>3. CASE Takes(task[p], d, x)
      <4>1. task[p].ds = d /\ task[p].at = x
        BY <3>1, <3>3 DEF Takes
      <4> DEFINE widened == Including(docs[d].interval, x)
      <4>2. Covers(widened, x)
        BY <1>4, IncludingCovers
      <4> HIDE DEF widened
      <4>3. CASE widened = docs[d].interval
        <5>1. docs' = docs
          BY <2>1 DEF IngestRead
        <5> QED
          BY <4>2, <4>3, <5>1 DEF Taken
      <4>4. CASE widened # docs[d].interval
        <5>1. task' = [task EXCEPT ![p].pc = "ingest_write",
                                   ![p].doc = [docs[d] EXCEPT !.interval = widened]]
          BY <1>4, <2>1, <4>1, <4>4 DEF IngestRead, widened
        <5> DEFINE doc == [docs[d] EXCEPT !.interval = widened]
        <5>2. doc.interval = widened
          BY <1>4 DEF Dataset
        <5> HIDE DEF doc
        <5>3. task'[p].pc = "ingest_write" /\ task'[p].ds = d /\ task'[p].doc = doc
          BY <1>0, <4>1, <5>1 DEF doc, TaskState
        <5> QED
          BY <4>2, <5>2, <5>3 DEF Taken, Takes
      <4> QED
        BY <4>3, <4>4
    <3> QED
      BY <3>2, <3>3
  <2>2. CASE IngestWrite(p)
    <3>1. task[p].pc = "ingest_write" /\ task[p].ds \in Datasets
      BY <1>0, <2>2 DEF IngestWrite, TaskShape
    <3>2. IntervalOf' = [IntervalOf EXCEPT ![task[p].ds] = task[p].doc.interval]
      BY <1>0, <2>2, IngestWrites
    <3>3. CASE task[p].ds # d
      <4>1. docs'[d].interval = docs[d].interval
        BY <1>5, <3>2, <3>3
      <4> QED
        BY <1>0, <1>3, <2>0, <3>3, <4>1, CoverFrame DEF Takes
    <3>4. CASE task[p].ds = d
      <4>1. docs'[d].interval = task[p].doc.interval
        BY <1>4, <1>5, <3>2, <3>4 DEF IntervalOf
      <4>2. PICK y \in TimesOf(d) : task[p].doc = [docs[d] EXCEPT !.interval = Including(docs[d].interval, y)]
        BY <1>0, <3>1, <3>4 DEF Current
      <4>3. task[p].doc.interval = Including(docs[d].interval, y) /\ y \in Instants
        BY <1>4, <4>2 DEF Dataset
      <4>4. Covers(docs[d].interval, x) => Covers(task[p].doc.interval, x)
        BY <1>4, <4>3, IncludingCovers
      <4>5. Covers(docs[d].interval, x) \/ Takes(task[p], d, x)
        BY <1>0, <1>3, <2>0 DEF Covering, Taken, Takes, Idle
      <4>6. Covers(task[p].doc.interval, x)
        BY <3>1, <4>4, <4>5 DEF Takes
      <4> QED
        BY <4>1, <4>6 DEF Taken
    <3> QED
      BY <3>3, <3>4
  <2>3. CASE RegisterFind(p)
    <3>1. task[p].pc = "register_find" /\ docs' = docs
      BY <2>3 DEF RegisterFind
    <3>2. CASE task[p].ds # d
      BY <1>6, <2>0, <2>3, <3>1, <3>2 DEF IngestWrite, RegisterWrite, Takes
    <3>3. CASE task[p].ds = d
      <4>1. task'[p].pc = "register_write" /\ task'[p].ds = d
        BY <1>0, <2>0, <2>3, <3>3 DEF RegisterFind, TaskState
      <4> QED
        BY <4>1 DEF Taken, Takes
    <3> QED
      BY <3>2, <3>3
  <2>4. CASE RegisterWrite(p)
    <3>1. task[p].pc = "register_write" /\ task[p].ds \in Datasets
      BY <1>0, <2>4 DEF RegisterWrite, TaskShape
    <3>2. IntervalOf' = [IntervalOf EXCEPT ![task[p].ds] = TemporalInterval(TimesOf(task[p].ds))]
      BY <1>0, <2>4, RegisterWrites
    <3>3. CASE task[p].ds # d
      <4>1. docs'[d].interval = docs[d].interval
        BY <1>5, <3>2, <3>3
      <4> QED
        BY <1>0, <1>3, <2>0, <3>3, <4>1, CoverFrame DEF Takes
    <3>4. CASE task[p].ds = d
      <4>1. docs'[d].interval = TemporalInterval(TimesOf(d))
        BY <1>4, <1>5, <3>2, <3>4 DEF IntervalOf
      <4>2. Covers(TemporalInterval(TimesOf(d)), x)
        BY <1>4, <2>0, TemporalIntervalCovers
      <4> QED
        BY <4>1, <4>2 DEF Taken
    <3> QED
      BY <3>3, <3>4
  <2>5. ASSUME task[p].pc \notin {"ingest_read", "ingest_write", "register_find", "register_write"}
        PROVE  Taken(d, x)'
    BY <1>6, <2>0, <2>5 DEF IngestWrite, RegisterWrite, Takes
  <2> QED
    BY <1>0, <1>2, <2>1, <2>2, <2>3, <2>4, <2>5, HandlerPoints
<1> QED
  BY <1>7, <1>8, <1>9

LEMMA CoverInit == MCInit => CoverInv
BY LedgerInit DEF MCInit, Init, CoverInv, Covering

LEMMA CoverStep == CoverInv /\ [MCNext]_<<vars, alone>> => CoverInv'
<1> SUFFICES ASSUME CoverInv, [MCNext]_<<vars, alone>> PROVE CoverInv'
  OBVIOUS
<1>1. LedgerInv' /\ alone' = alone
  BY LedgerStep DEF CoverInv, MCNext
<1>2. CASE ~alone
  BY <1>1, <1>2 DEF CoverInv
<1>3. CASE alone /\ UNCHANGED <<vars, alone>>
  <2>1. Covering' = Covering
    BY <1>3 DEF vars, Covering, Taken, Takes, TimesOf
  <2> QED
    BY <1>1, <1>3, <2>1 DEF CoverInv
<1>4. ASSUME alone, MCNext, NEW p \in Procs, Handles(p)
      PROVE  CoverInv'
  BY <1>1, <1>4, CoverHandlerStep DEF CoverInv
<1>5. ASSUME boot'.phase # "up"
      PROVE  CoverInv'
  BY <1>1, <1>5 DEF CoverInv, Covering
<1>6. ASSUME BootUp, alone
      PROVE  CoverInv'
  <2>1. boot.phase = "restore" /\ boot.todo = {} /\ UNCHANGED <<docs, granules>>
    BY <1>6 DEF BootUp
  <2>2. ASSUME NEW d \in ConfigDatasets, NEW x \in TimesOf(d)
        PROVE  Covers(docs[d].interval, x)
    <3>1. docs[d].interval = TemporalInterval(TimesOf(d))
      BY <2>1 DEF CoverInv, LedgerInv, BootInv, Configured, Done
    <3>2. TimesOf(d) \in SUBSET Instants
      BY DeploymentAssumption, TimesOfType DEF CoverInv, LedgerInv, BootInv, ModuleInv, TypeInv
    <3> QED
      BY <3>1, <3>2, TemporalIntervalCovers
  <2>3. \A d \in ConfigDatasets : \A x \in TimesOf(d)' : Taken(d, x)'
    BY <2>1, <2>2 DEF Taken, TimesOf
  <2> QED
    BY <1>1, <2>3 DEF CoverInv, Covering
<1>7. Crash \/ BootRegistered \/ (\E d \in Datasets : BootRegister(d) \/ BootRestore(d))
        => boot'.phase # "up"
  <2>1. Crash \/ BootRegistered => boot'.phase # "up"
    BY DEF Crash, BootRegistered
  <2>2. ASSUME NEW d \in Datasets, BootRegister(d) \/ BootRestore(d)
        PROVE  boot'.phase # "up"
    BY <2>2, BootRegisters, BootRestores DEF CoverInv, LedgerInv, BootInv
  <2> QED
    BY <2>1, <2>2
<1> QED
  BY <1>2, <1>3, <1>4, <1>5, <1>6, <1>7 DEF MCNext, Next, Boot, Handles

\* One ingest or registration at a time, the interval of a configured dataset
\* covers every granule once none is in flight (ingest.rs:137-143).
THEOREM IntervalsComplete == MCSpec => []IntervalWhenAlone
<1>1. CoverInv => IntervalWhenAlone
  BY DEF CoverInv, Covering, Taken, Takes, IntervalWhenAlone, IntervalComplete, Quiet, Idle
<1> QED
  BY <1>1, CoverInit, CoverStep, PTL DEF MCSpec
==============================================================================
