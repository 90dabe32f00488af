---------------------------- MODULE DatasetLedger ----------------------------
(***************************************************************************)
(* What the catalog promises, with nothing in between: every operation     *)
(* takes effect at once and changes only the one entry it is about - a     *)
(* dataset's definition, one service, one granule, one interval.  The      *)
(* server stores definition, services and interval in one document and     *)
(* rewrites it whole; CatalogServer says when the two agree.               *)
(***************************************************************************)
EXTENDS CatalogDocs

CONSTANTS ConfigDatasets, ConfigBody, Granules, GranuleDataset, ServiceDataset

VARIABLES
  body,       \* the definition of each dataset, or Absent
  layer,      \* the plan of each service, or Unpublished
  interval,   \* the temporal extent of each dataset
  granules    \* the datetime of each granule, or Absent

vars == <<body, layer, interval, granules>>

Times(d) == {granules[g] : g \in {h \in Granules : GranuleDataset[h] = d}} \ {Absent}

Define(d, b) ==
  /\ body[d] = Absent
  /\ body' = [body EXCEPT ![d] = b]
  /\ UNCHANGED <<layer, interval, granules>>

Publish(s, plan) ==
  /\ body[ServiceDataset[s]] # Absent
  /\ layer' = [layer EXCEPT ![s] = plan]
  /\ UNCHANGED <<body, interval, granules>>

Unpublish(s) ==
  /\ layer' = [layer EXCEPT ![s] = Unpublished]
  /\ UNCHANGED <<body, interval, granules>>

Acquire(g, t) ==
  /\ body[GranuleDataset[g]] # Absent
  /\ granules' = [granules EXCEPT ![g] = t]
  /\ UNCHANGED <<body, layer, interval>>

\* The incremental rule: the interval takes in a granule's datetime.
Widen(d) ==
  /\ \E t \in Times(d) : interval' = [interval EXCEPT ![d] = Including(@, t)]
  /\ UNCHANGED <<body, layer, granules>>

\* The derived rule: the interval of the granules there are.
Derive(d) ==
  /\ interval' = [interval EXCEPT ![d] = TemporalInterval(Times(d))]
  /\ UNCHANGED <<body, layer, granules>>

\* Start-up registers a config dataset: services that do not rehydrate go.
Restart(d) ==
  /\ d \in ConfigDatasets
  /\ body' = [body EXCEPT ![d] = ConfigBody]
  /\ interval' = [interval EXCEPT ![d] = TemporalInterval(Times(d))]
  /\ \E lost \in SUBSET {s \in Services : ServiceDataset[s] = d} :
       layer' = [s \in Services |-> IF s \in lost THEN Unpublished ELSE layer[s]]
  /\ UNCHANGED granules

Init ==
  /\ body = [d \in Datasets |-> Absent]
  /\ layer = NoLayers
  /\ interval = [d \in Datasets |-> NoGranuleYet]
  /\ granules = [g \in Granules |-> Absent]

Next ==
  \/ \E d \in Datasets : \/ \E b \in Bodies : Define(d, b)
                         \/ Widen(d) \/ Derive(d) \/ Restart(d)
  \/ \E s \in Services : Unpublish(s) \/ \E plan \in Plan : Publish(s, plan)
  \/ \E g \in Granules, t \in Instants : Acquire(g, t)

Spec == Init /\ [][Next]_vars

==============================================================================
