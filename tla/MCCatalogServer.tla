--------------------------- MODULE MCCatalogServer ---------------------------
(* Instances of CatalogServer for TLC: a dataset from the configuration and *)
(* one registered through the API, a UDF service on the first and a plain   *)
(* one on the second.                                                       *)
EXTENDS CatalogServer, TLC

CONSTANTS cfg, api, udf, rgb, g1, g2

VARIABLE alone  \* one request or ingest at a time, and every fault

\* The home of each granule and the collection of each graph.
MCGranuleDataset == [g \in Granules |-> IF g = g1 /\ api \in Datasets THEN api ELSE cfg]
MCAllOnConfig == [g \in Granules |-> cfg]
MCServiceDataset == [s \in Services |-> IF s = udf THEN cfg ELSE api]

\* `temporal_interval' is the fold of `including', whatever the order the
\* granules come in: taking in one more instant gives the wider hull.
ASSUME \A T \in SUBSET Instants : \A t \in Instants :
         Including(TemporalInterval(T), t) = TemporalInterval(T \cup {t})

\* Either one request at a time, on two datasets, with a crash, a failed call
\* and a store outage; or requests that overlap each other and an ingest on
\* the config dataset, with a crash.
MCInit == Init /\ alone \in BOOLEAN

MCNext ==
  /\ Next
  /\ IF alone
     THEN \A p, q \in Procs : p # q => ~(task'[p] # Idle /\ task'[q] # Idle)
     ELSE /\ faults'.abort = 0 /\ faults'.outage = 0
          /\ \A p \in Procs : /\ task'[p].ds # api
                              /\ task'[p].gid \in {g2, None}
                              /\ task'[p].svc \in {udf, None}
  /\ UNCHANGED alone

MCSpec == MCInit /\ [][MCNext]_<<vars, alone>>

\* What the catalog's documents say to one who reads them entry by entry,
\* while one request at a time is served.
BodyOf == [d \in Datasets |-> IF alone /\ Registered(d) THEN docs[d].body ELSE Absent]
LayerOf == [s \in Services |-> IF alone THEN Listed(s) ELSE Unpublished]
IntervalOf ==
  [d \in Datasets |-> IF alone /\ Registered(d) THEN docs[d].interval ELSE NoGranuleYet]
GranulesOf == [g \in Granules |-> IF alone THEN granules[g] ELSE Absent]

\* Then the server implements the ledger.
Ledger == INSTANCE DatasetLedger WITH
  body <- BodyOf, layer <- LayerOf, interval <- IntervalOf, granules <- GranulesOf

ImplementsLedger == Ledger!Spec

\* One request at a time, what was deleted stays deleted, what was published
\* survives every fault but the store's outage at a start-up, and tiles are
\* served exactly for what is listed.
ServicesWhenAlone == alone => DeletedStaysDeleted /\ PublishedWhileSound /\ ServedIsListed

\* One ingest at a time, the interval of a config dataset misses no granule.
IntervalWhenAlone == alone => IntervalComplete

\* Requests are interchangeable, and so are modules.
Symmetry == Permutations(Handlers) \cup Permutations(Modules)
==============================================================================
