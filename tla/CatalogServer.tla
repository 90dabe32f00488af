---------------------------- MODULE CatalogServer ----------------------------
(***************************************************************************)
(* One `swath serve' instance in catalog mode over its catalog.            *)
(*                                                                         *)
(* Every writer of a dataset document - the ingest loop of each source,    *)
(* the openEO services handlers, the datasets handlers, the registration   *)
(* at start-up - reads the whole document, awaits, and writes the whole    *)
(* document back (`get_dataset' .. `upsert_dataset').  A step here is one  *)
(* call to a store, with the code that runs between it and the next await; *)
(* what a handler read earlier is kept in its task.                        *)
(*                                                                         *)
(* The catalog and the module store survive a crash; the tasks and the     *)
(* provider's layer set do not.  `promise' and `arrived' are history       *)
(* variables: no step of the program reads them.                           *)
(***************************************************************************)
EXTENDS CatalogDocs, FiniteSets

CONSTANTS
  ConfigDatasets,   \* datasets the configuration defines
  ConfigBody,       \* what the configuration says of them
  Granules,         \* granule ids
  GranuleDataset,   \* the dataset of each granule
  ServiceDataset,   \* the collection each process graph loads
  UdfServices,      \* services whose graph calls `run_udf' on a remote module
  Sources,          \* ingest loops, one per configured source
  Handlers,         \* HTTP requests that may be in flight together
  None,             \* an unused field of a task
  Serial,           \* TRUE: requests come one at a time (an assumption on
                    \* the clients, not something the server enforces)
  MaxCrashes,       \* bound: crashes of the process
  MaxAborts,        \* bound: failed catalog calls and cancelled requests
  MaxOutages        \* bound: start-ups that find the module store failing

Procs == Sources \cup Handlers

ASSUME DeploymentAssumption ==
  /\ ConfigDatasets \subseteq Datasets
  /\ ConfigBody \in Bodies
  /\ GranuleDataset \in [Granules -> Datasets]
  /\ ServiceDataset \in [Services -> Datasets]
  /\ UdfServices \subseteq Services
  /\ Serial \in BOOLEAN
  /\ MaxCrashes \in Nat /\ MaxAborts \in Nat /\ MaxOutages \in Nat

ASSUME NoneAssumption ==
  /\ None \notin Datasets \cup Services \cup Granules \cup Instants \cup Plan \cup Dataset
  /\ Absent \notin Dataset

VARIABLES
  docs,         \* catalog: the dataset documents
  granules,     \* catalog: the datetime each registered granule carries
  moduleStore,  \* the content-addressed module store
  served,       \* provider: the plan each service's tiles render with
  task,         \* the handlers and ingest steps in flight
  boot,         \* start-up: its phase, and the config datasets still to do
  faults,       \* how many crashes, aborts and outages have happened
  promise,      \* history: what the last answered POST or DELETE said
  arrived       \* history: the datetimes ever registered per dataset

catalogVars == <<docs, granules>>
vars == <<docs, granules, moduleStore, served, task, boot, faults, promise, arrived>>

------------------------------------------------------------------------------
(* Derived state *)

\* `find_granules(dataset, default)', reduced to the datetimes.
TimesOf(d) == {granules[g] : g \in {h \in Granules : GranuleDataset[h] = d}} \ {Absent}

Idle == [pc |-> "idle", ds |-> None, svc |-> None, gid |-> None, at |-> None,
         plan |-> None, doc |-> None]

Registered(d) == docs[d] # Absent

\* Layer s as the catalog lists it (`service_layers').
Listed(s) ==
  IF Registered(ServiceDataset[s])
  THEN docs[ServiceDataset[s]].layers[s]
  ELSE Unpublished

------------------------------------------------------------------------------
(* Tasks *)

\* Where a task stands: the call it makes next.
Pcs == {"idle", "ingest_read", "ingest_write",
        "register_upsert", "register_find", "register_write",
        "create_write",
        "publish_lower", "publish_persist", "publish_write", "publish_insert",
        "delete_write", "delete_remove"}

TaskState ==
  [pc   : Pcs,
   ds   : Datasets \cup {None},
   svc  : Services \cup {None},
   gid  : Granules \cup {None},
   at   : Instants \cup {None},
   plan : Plan \cup {None},
   doc  : Dataset \cup {None}]

\* A request or an event is picked up: the router and the ingest loops run
\* only once start-up is over.
Begin(p, state) ==
  /\ boot.phase = "up"
  /\ task[p] = Idle
  /\ Serial => \A q \in Procs : task[q] = Idle
  /\ task' = [task EXCEPT ![p] = state]

Finish(p) == task' = [task EXCEPT ![p] = Idle]

\* A POST or DELETE of s begins: its outcome is promised to the client only
\* if no other request on s overlaps it.
PromiseBegins(p, s) ==
  promise' = [promise EXCEPT ![s] =
    IF \E q \in Procs \ {p} : task[q].svc = s THEN "unknown" ELSE "pending"]

PromiseEnds(s, outcome) ==
  promise' = [promise EXCEPT ![s] = IF @ = "pending" THEN outcome ELSE "unknown"]

------------------------------------------------------------------------------
(* `ingest_granule', called by the ingest loop of a source *)

\* Variant: a refused or failed upsert is ignored, and the interval widened.
IngestUpsertIgnored(p, g, t) ==
  LET d == GranuleDataset[g] IN
  /\ p \in Sources
  /\ Registered(d)
  /\ Begin(p, [Idle EXCEPT !.pc = "ingest_read", !.ds = d, !.at = t])
  /\ UNCHANGED <<docs, granules, moduleStore, served, boot, faults, promise, arrived>>

\* `upsert_granules': refused for an unregistered dataset, in which case the
\* loop records the failure and nothing changes.
IngestUpsert(p, g, t) ==
  LET d == GranuleDataset[g] IN
  /\ p \in Sources
  /\ Registered(d)
  /\ Begin(p, [Idle EXCEPT !.pc = "ingest_read", !.ds = d, !.at = t])
  /\ granules' = [granules EXCEPT ![g] = t]
  /\ arrived' = [arrived EXCEPT ![d] = @ \cup {t}]
  /\ UNCHANGED <<docs, moduleStore, served, boot, faults, promise>>

\* Variant: only the first granule closes the interval.
IngestReadOnce(p) ==
  LET doc == docs[task[p].ds] IN
  /\ task[p].pc = "ingest_read"
  /\ IF Registered(task[p].ds) /\ doc.interval = NoGranuleYet
     THEN task' = [task EXCEPT ![p].pc = "ingest_write",
                               ![p].doc = [doc EXCEPT !.interval = Including(@, task[p].at)]]
     ELSE Finish(p)
  /\ UNCHANGED <<docs, granules, moduleStore, served, boot, faults, promise, arrived>>

\* `get_dataset', and the decision whether the interval must widen.
IngestRead(p) ==
  LET doc == docs[task[p].ds]
      widened == Including(doc.interval, task[p].at) IN
  /\ task[p].pc = "ingest_read"
  /\ IF Registered(task[p].ds) /\ widened # doc.interval
     THEN task' = [task EXCEPT ![p].pc = "ingest_write",
                               ![p].doc = [doc EXCEPT !.interval = widened]]
     ELSE Finish(p)
  /\ UNCHANGED <<docs, granules, moduleStore, served, boot, faults, promise, arrived>>

\* `upsert_dataset' of the document as read, with the wider interval.
IngestWrite(p) ==
  /\ task[p].pc = "ingest_write"
  /\ docs' = [docs EXCEPT ![task[p].ds] = task[p].doc]
  /\ Finish(p)
  /\ UNCHANGED <<granules, moduleStore, served, boot, faults, promise, arrived>>

------------------------------------------------------------------------------
(* `POST /datasets/{id}/granules' (create_granule) *)

\* `get_dataset'; 404 for an unregistered dataset.  The document read here
\* is the one written back at the end.
RegisterRead(p, g, t) ==
  LET d == GranuleDataset[g] IN
  /\ p \in Handlers
  /\ Registered(d)
  /\ Begin(p, [Idle EXCEPT !.pc = "register_upsert", !.ds = d, !.gid = g, !.at = t,
                           !.doc = docs[d]])
  /\ UNCHANGED <<docs, granules, moduleStore, served, boot, faults, promise, arrived>>

\* Vocabulary and asset headers check out; `upsert_granules'.
RegisterUpsert(p) ==
  /\ task[p].pc = "register_upsert"
  /\ granules' = [granules EXCEPT ![task[p].gid] = task[p].at]
  /\ arrived' = [arrived EXCEPT ![task[p].ds] = @ \cup {task[p].at}]
  /\ task' = [task EXCEPT ![p].pc = "register_find"]
  /\ UNCHANGED <<docs, moduleStore, served, boot, faults, promise>>

\* `derive_extent': `find_granules' and the interval over what it returned.
RegisterFind(p) ==
  LET times == TimesOf(task[p].ds) IN
  /\ task[p].pc = "register_find"
  /\ IF times = {}
     THEN Finish(p)
     ELSE task' = [task EXCEPT ![p].pc = "register_write",
                               ![p].doc.interval = TemporalInterval(times)]
  /\ UNCHANGED <<docs, granules, moduleStore, served, boot, faults, promise, arrived>>

RegisterWrite(p) ==
  /\ task[p].pc = "register_write"
  /\ docs' = [docs EXCEPT ![task[p].ds] = task[p].doc]
  /\ Finish(p)
  /\ UNCHANGED <<granules, moduleStore, served, boot, faults, promise, arrived>>

------------------------------------------------------------------------------
(* `POST /datasets' (create_dataset) *)

\* Variant: no 409.
CreateUnchecked(p, d, b) ==
  /\ p \in Handlers
  /\ Begin(p, [Idle EXCEPT !.pc = "create_write", !.ds = d, !.doc = FreshDataset(b)])
  /\ UNCHANGED <<docs, granules, moduleStore, served, boot, faults, promise, arrived>>

\* `get_dataset' finds nothing (409 otherwise).
CreateCheck(p, d, b) ==
  /\ p \in Handlers
  /\ ~Registered(d)
  /\ Begin(p, [Idle EXCEPT !.pc = "create_write", !.ds = d, !.doc = FreshDataset(b)])
  /\ UNCHANGED <<docs, granules, moduleStore, served, boot, faults, promise, arrived>>

CreateWrite(p) ==
  /\ task[p].pc = "create_write"
  /\ docs' = [docs EXCEPT ![task[p].ds] = task[p].doc]
  /\ Finish(p)
  /\ UNCHANGED <<granules, moduleStore, served, boot, faults, promise, arrived>>

------------------------------------------------------------------------------
(* `POST /services' (create_service) *)

\* `graph_dataset': the document of the collection the graph loads.
PublishRead(p, s) ==
  LET d == ServiceDataset[s] IN
  /\ p \in Handlers
  /\ Registered(d)
  /\ Begin(p, [Idle EXCEPT !.pc = "publish_lower", !.ds = d, !.svc = s, !.doc = docs[d]])
  /\ PromiseBegins(p, s)
  /\ UNCHANGED <<docs, granules, moduleStore, served, boot, faults, arrived>>

\* Variant: a graph without `run_udf' is left without a plan.
PublishLowerPlanless(p) ==
  /\ task[p].pc = "publish_lower"
  /\ IF task[p].svc \in UdfServices
     THEN \E m \in Modules :
            task' = [task EXCEPT ![p].pc = "publish_persist", ![p].plan = m]
     ELSE task' = [task EXCEPT ![p].pc = "publish_write"]
  /\ UNCHANGED <<docs, granules, moduleStore, served, boot, faults, promise, arrived>>

\* `lower_graph': a remote module is fetched once, here, and may be another
\* one than the last publish of the same graph fetched.
PublishLower(p) ==
  /\ task[p].pc = "publish_lower"
  /\ IF task[p].svc \in UdfServices
     THEN \E m \in Modules :
            task' = [task EXCEPT ![p].pc = "publish_persist", ![p].plan = m]
     ELSE task' = [task EXCEPT ![p].pc = "publish_write", ![p].plan = Plain]
  /\ UNCHANGED <<docs, granules, moduleStore, served, boot, faults, promise, arrived>>

\* Variant: the store call is lost.
PublishPersistLost(p) ==
  /\ task[p].pc = "publish_persist"
  /\ task' = [task EXCEPT ![p].pc = "publish_write"]
  /\ UNCHANGED <<docs, granules, moduleStore, served, boot, faults, promise, arrived>>

\* `udf.persist': content-addressed, a no-op for a module already there.
PublishPersist(p) ==
  /\ task[p].pc = "publish_persist"
  /\ moduleStore' = moduleStore \cup {task[p].plan}
  /\ task' = [task EXCEPT ![p].pc = "publish_write"]
  /\ UNCHANGED <<docs, granules, served, boot, faults, promise, arrived>>

\* The layer replaces its namesake in the document as read.
PublishWrite(p) ==
  /\ task[p].pc = "publish_write"
  /\ docs' = [docs EXCEPT ![task[p].ds] = WithLayer(task[p].doc, task[p].svc, task[p].plan)]
  /\ task' = [task EXCEPT ![p].pc = "publish_insert", ![p].doc = None]
  /\ UNCHANGED <<granules, moduleStore, served, boot, faults, promise, arrived>>

\* Variant: the provider is not told.
PublishUntold(p) ==
  /\ task[p].pc = "publish_insert"
  /\ PromiseEnds(task[p].svc, "live")
  /\ Finish(p)
  /\ UNCHANGED <<docs, granules, moduleStore, served, boot, faults, arrived>>

\* `provider.insert', once the catalog answered; 201.
PublishInsert(p) ==
  /\ task[p].pc = "publish_insert"
  /\ served' = [served EXCEPT ![task[p].svc] = task[p].plan]
  /\ PromiseEnds(task[p].svc, "live")
  /\ Finish(p)
  /\ UNCHANGED <<docs, granules, moduleStore, boot, faults, arrived>>

------------------------------------------------------------------------------
(* `DELETE /services/{id}' (delete_service) *)

\* `list_datasets' and the one that lists s (404 otherwise).
DeleteRead(p, s) ==
  LET d == ServiceDataset[s] IN
  /\ p \in Handlers
  /\ Listed(s) # Unpublished
  /\ Begin(p, [Idle EXCEPT !.pc = "delete_write", !.ds = d, !.svc = s, !.doc = docs[d]])
  /\ PromiseBegins(p, s)
  /\ UNCHANGED <<docs, granules, moduleStore, served, boot, faults, arrived>>

DeleteWrite(p) ==
  /\ task[p].pc = "delete_write"
  /\ docs' = [docs EXCEPT ![task[p].ds] = WithoutLayer(task[p].doc, task[p].svc)]
  /\ task' = [task EXCEPT ![p].pc = "delete_remove", ![p].doc = None]
  /\ UNCHANGED <<granules, moduleStore, served, boot, faults, promise, arrived>>

\* `provider.remove'; 204.
DeleteRemove(p) ==
  /\ task[p].pc = "delete_remove"
  /\ served' = [served EXCEPT ![task[p].svc] = Unpublished]
  /\ PromiseEnds(task[p].svc, "dead")
  /\ Finish(p)
  /\ UNCHANGED <<docs, granules, moduleStore, boot, faults, arrived>>

------------------------------------------------------------------------------
(* Failure of a call, cancellation of a request, crash *)

\* A catalog call fails, or the client goes away and the handler's future is
\* dropped at an await: what was written stays, what was not is not.
Abort(p) ==
  /\ task[p].pc # "idle"
  /\ faults.abort < MaxAborts
  /\ faults' = [faults EXCEPT !.abort = @ + 1]
  /\ promise' = [s \in Services |-> IF s = task[p].svc THEN "unknown" ELSE promise[s]]
  /\ Finish(p)
  /\ UNCHANGED <<docs, granules, moduleStore, served, boot, arrived>>

Crash ==
  /\ faults.crash < MaxCrashes
  /\ faults' = [faults EXCEPT !.crash = @ + 1]
  /\ task' = [p \in Procs |-> Idle]
  /\ served' = [s \in Services |-> Unpublished]
  /\ boot' = [phase |-> "register", todo |-> ConfigDatasets]
  /\ promise' = [s \in Services |-> IF promise[s] = "pending" THEN "unknown" ELSE promise[s]]
  /\ UNCHANGED <<docs, granules, moduleStore, arrived>>

------------------------------------------------------------------------------
(* Start-up (serve_catalog_on); nothing else runs until it is over *)

\* `rehydrate_service' finds the module of every layer of the document except
\* those in `failing': only a UDF layer asks the store, a module the store
\* does not hold always fails, and one it holds fails while the store does.
Rehydration(doc, failing) ==
  LET named == {s \in Services : doc.layers[s] \in Modules}
      missing == {s \in named : doc.layers[s] \notin moduleStore} IN
  /\ failing \subseteq named
  /\ missing \subseteq failing
  /\ IF failing = missing
     THEN faults' = faults
     ELSE /\ faults.outage < MaxOutages
          /\ faults' = [faults EXCEPT !.outage = @ + 1]

\* The layers of `doc' that rehydrated.
Carried(doc, failing) ==
  [s \in Services |-> IF s \in failing THEN Unpublished ELSE doc.layers[s]]

\* Variant: each dataset's templates replace the ones gathered before.
ServeOnly(d, layers) ==
  [s \in Services |-> IF ServiceDataset[s] = d THEN layers[s] ELSE Unpublished]

\* The templates handed to the provider gain those of d's services.
ServeAlso(d, layers) ==
  [s \in Services |-> IF ServiceDataset[s] = d THEN layers[s] ELSE served[s]]

\* Variant: the stored interval is kept instead of re-derived.
BootRegisterKeeps(d) ==
  /\ boot.phase = "register" /\ d \in boot.todo
  /\ boot' = [boot EXCEPT !.todo = @ \ {d}]
  /\ IF Registered(d)
     THEN \E failing \in SUBSET Services :
            /\ Rehydration(docs[d], failing)
            /\ docs' = [docs EXCEPT ![d].body = ConfigBody,
                                    ![d].layers = Carried(docs[d], failing)]
            /\ served' = ServeAlso(d, Carried(docs[d], failing))
     ELSE /\ docs' = [docs EXCEPT ![d] = FreshDataset(ConfigBody)]
          /\ UNCHANGED <<served, faults>>
  /\ UNCHANGED <<granules, moduleStore, task, promise, arrived>>

\* A config dataset: its services are carried over into the configured
\* document, the interval is re-derived, and the document is written.
BootRegister(d) ==
  /\ boot.phase = "register" /\ d \in boot.todo
  /\ boot' = [boot EXCEPT !.todo = @ \ {d}]
  /\ IF Registered(d)
     THEN \E failing \in SUBSET Services :
            /\ Rehydration(docs[d], failing)
            /\ LET layers == Carried(docs[d], failing) IN
               /\ docs' = [docs EXCEPT ![d] =
                             [body |-> ConfigBody, layers |-> layers,
                              interval |-> TemporalInterval(TimesOf(d))]]
               /\ served' = ServeAlso(d, layers)
     ELSE /\ docs' = [docs EXCEPT ![d] = FreshDataset(ConfigBody)]
          /\ UNCHANGED <<served, faults>>
  /\ UNCHANGED <<granules, moduleStore, task, promise, arrived>>

BootRegistered ==
  /\ boot.phase = "register" /\ boot.todo = {}
  /\ boot' = [phase |-> "restore", todo |-> Datasets \ ConfigDatasets]
  /\ UNCHANGED <<docs, granules, moduleStore, served, task, faults, promise, arrived>>

\* `restore_api_dataset_services': what `list_datasets' has beyond the config
\* datasets was registered through the API.  Its services are restored from
\* the catalog, and its document is left as it is.
BootRestore(d) ==
  /\ boot.phase = "restore" /\ d \in boot.todo
  /\ boot' = [boot EXCEPT !.todo = @ \ {d}]
  /\ IF Registered(d)
     THEN \E failing \in SUBSET Services :
            /\ Rehydration(docs[d], failing)
            /\ served' = ServeAlso(d, Carried(docs[d], failing))
     ELSE UNCHANGED <<served, faults>>
  /\ UNCHANGED <<docs, granules, moduleStore, task, promise, arrived>>

\* The ingest loops are spawned and the router listens.
BootUp ==
  /\ boot.phase = "restore" /\ boot.todo = {}
  /\ boot' = [boot EXCEPT !.phase = "up"]
  /\ UNCHANGED <<docs, granules, moduleStore, served, task, faults, promise, arrived>>

------------------------------------------------------------------------------
Init ==
  /\ docs = [d \in Datasets |-> Absent]
  /\ granules = [g \in Granules |-> Absent]
  /\ moduleStore = {}
  /\ served = [s \in Services |-> Unpublished]
  /\ task = [p \in Procs |-> Idle]
  /\ boot = [phase |-> "register", todo |-> ConfigDatasets]
  /\ faults = [crash |-> 0, abort |-> 0, outage |-> 0]
  /\ promise = [s \in Services |-> "unknown"]
  /\ arrived = [d \in Datasets |-> {}]

Ingest(p) ==
  \/ \E g \in Granules, t \in Instants : IngestUpsert(p, g, t)
  \/ IngestRead(p) \/ IngestWrite(p)

Register(p) ==
  \/ \E g \in Granules, t \in Instants : RegisterRead(p, g, t)
  \/ RegisterUpsert(p) \/ RegisterFind(p) \/ RegisterWrite(p)

Create(p) ==
  \/ \E d \in Datasets, b \in Bodies : CreateCheck(p, d, b)
  \/ CreateWrite(p)

Publish(p) ==
  \/ \E s \in Services : PublishRead(p, s)
  \/ PublishLower(p) \/ PublishPersist(p) \/ PublishWrite(p) \/ PublishInsert(p)

Delete(p) ==
  \/ \E s \in Services : DeleteRead(p, s)
  \/ DeleteWrite(p) \/ DeleteRemove(p)

Boot ==
  \/ \E d \in Datasets : BootRegister(d) \/ BootRestore(d)
  \/ BootRegistered \/ BootUp

Next ==
  \/ \E p \in Procs : Ingest(p) \/ Register(p) \/ Create(p) \/ Publish(p) \/ Delete(p)
                        \/ Abort(p)
  \/ Crash \/ Boot

Spec == Init /\ [][Next]_vars

------------------------------------------------------------------------------
(* What every interleaving keeps *)

TypeOK ==
  /\ docs \in [Datasets -> Dataset \cup {Absent}]
  /\ granules \in [Granules -> Instants \cup {Absent}]
  /\ moduleStore \in SUBSET Modules
  /\ served \in [Services -> LayerSlot]
  /\ task \in [Procs -> TaskState]
  /\ boot \in [phase : {"register", "restore", "up"}, todo : SUBSET Datasets]
  /\ faults \in [crash : 0..MaxCrashes, abort : 0..MaxAborts, outage : 0..MaxOutages]
  /\ promise \in [Services -> {"unknown", "pending", "live", "dead"}]
  /\ arrived \in [Datasets -> SUBSET Instants]

\* What a task holds at each point of its handler.
TaskShape(t) ==
  /\ t.pc = "idle" => t = Idle
  /\ t.pc # "idle" => t.ds \in Datasets
  /\ t.pc \in {"ingest_read", "register_upsert"} => t.at \in Instants
  /\ t.pc = "register_upsert" => t.gid \in Granules
  /\ t.pc \in {"publish_lower", "publish_persist", "publish_write", "publish_insert",
              "delete_write", "delete_remove"} => t.svc \in Services
  /\ t.pc \in {"ingest_write", "register_upsert", "register_find", "register_write",
              "create_write", "publish_lower", "publish_persist", "publish_write",
              "delete_write"} => t.doc \in Dataset
  /\ t.pc = "publish_persist" => t.plan \in Modules
  /\ t.pc \in {"publish_write", "publish_insert"} => t.plan \in Plan

TypeInv == TypeOK /\ \A p \in Procs : TaskShape(task[p])

\* A published UDF always resolves (handlers.rs:290-292): whatever module a
\* listed or served layer names is in the store, although documents written
\* back late resurrect layers, and modules are fetched anew at each publish.
ModuleResolvable ==
  \A s \in Services :
    /\ Listed(s) \in Modules => Listed(s) \in moduleStore
    /\ served[s] \in Modules => served[s] \in moduleStore

\* The document a handler holds is as good as a stored one, and the plan it
\* is about to publish is stored already: why ModuleResolvable is inductive.
Resolves(layers) == \A s \in Services : layers[s] \in Modules => layers[s] \in moduleStore

TaskResolves(t) ==
  /\ t.doc # None => Resolves(t.doc.layers)
  /\ t.pc \in {"publish_write", "publish_insert"} => t.plan \in moduleStore \cup {Plain}

ModuleInv ==
  /\ TypeInv
  /\ Resolves(served)
  /\ \A d \in Datasets : Registered(d) => Resolves(docs[d].layers)
  /\ \A p \in Procs : TaskResolves(task[p])

\* A stored interval is never made up: it is open on both sides, or both
\* bounds are datetimes some granule of that dataset really carried, in
\* order - whichever of the racing documents was written last.
Witnessed(range, times) ==
  \/ range = NoGranuleYet
  \/ range.start \in times /\ range.end \in times /\ range.start <= range.end

IntervalWitnessed ==
  \A d \in Datasets : Registered(d) => Witnessed(docs[d].interval, arrived[d])

\* So are the intervals of the documents in flight, and the datetimes that
\* they are widened by or derived from have arrived.
TaskWitnessed(t) ==
  /\ t.doc # None => Witnessed(t.doc.interval, arrived[t.ds])
  /\ t.pc = "ingest_read" => t.at \in arrived[t.ds]
  /\ t.pc = "register_upsert" => GranuleDataset[t.gid] = t.ds

WitnessInv ==
  /\ TypeInv
  /\ IntervalWitnessed
  /\ \A p \in Procs : TaskWitnessed(task[p])
  /\ \A g \in Granules : granules[g] # Absent => granules[g] \in arrived[GranuleDataset[g]]

\* A restarted server serves exactly what the catalog lists
\* (serve.rs:241-246, 393-399); only on an API-registered dataset may a
\* listed service be left out, when the module store failed at start-up.
BootServesListed ==
  [][boot.phase = "restore" /\ boot'.phase = "up" =>
       \A s \in Services :
         \/ served[s] = Listed(s)
         \/ /\ served[s] = Unpublished /\ faults.outage > 0
            /\ ServiceDataset[s] \notin ConfigDatasets]_vars

------------------------------------------------------------------------------
(* What holds while nothing overlaps, and what the code promises always *)

Quiet == boot.phase = "up" /\ \A p \in Procs : task[p] = Idle

\* A service whose POST was answered 201, and no DELETE since, is listed,
\* after a restart too (serve.rs:398-399).
PublishedSurvives ==
  boot.phase = "up" => \A s \in Services : promise[s] = "live" => Listed(s) # Unpublished

\* It is so as long as no start-up found the module store failing, whatever
\* else failed: the promise without the outage that breaks it.
PublishedWhileSound == faults.outage = 0 => PublishedSurvives

\* A service whose DELETE was answered 204, and no POST since, is gone from
\* the catalog and from the tiles (handlers.rs:328-330).
DeletedStaysDeleted ==
  \A s \in Services :
    promise[s] = "dead" => Listed(s) = Unpublished /\ served[s] = Unpublished

\* The catalog is the source of truth for what services exist
\* (handlers.rs:154-156): with no request in flight, a tile request finds a
\* service exactly if the listing does, and renders the plan listed - unless
\* a call failed between the two writes, or the module store at start-up.
ServedIsListed ==
  Quiet /\ faults.abort = 0 /\ faults.outage = 0 => \A s \in Services : served[s] = Listed(s)

\* The interval of a config dataset covers every granule once no ingest is
\* in flight: the per-ingest widening loses none (ingest.rs:137-142) unless
\* a call failed on the way, and a crash on the way is healed.
IntervalComplete ==
  Quiet /\ faults.abort = 0 =>
    \A d \in ConfigDatasets : \A t \in TimesOf(d) : Covers(docs[d].interval, t)

\* Widening is monotone: an ingest only ever moves a bound outward
\* (ingest.rs:139-141).
WideningMonotone ==
  [][\A p \in Sources, d \in Datasets, t \in Instants :
       IngestWrite(p) /\ task[p].ds = d /\ Covers(docs[d].interval, t)
         => Covers(docs'[d].interval, t)]_vars

\* Start-up re-derives the interval of a config dataset and so heals any
\* drift the incremental rule left (ingest.rs:141-143).
ConfigDriftHealed ==
  boot.phase = "restore" =>
    \A d \in ConfigDatasets : Registered(d) => docs[d].interval = TemporalInterval(TimesOf(d))

==============================================================================
