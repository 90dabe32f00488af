----------------------------- MODULE CatalogDocs -----------------------------
(***************************************************************************)
(* The catalog's data vocabulary (swath-core/src/catalog.rs): the dataset  *)
(* document that every handler reads and writes WHOLE, the layers the      *)
(* openEO surface publishes on it, and the derived temporal interval.      *)
(*                                                                         *)
(* A datetime is its Unix millisecond, the order the code compares by.     *)
(* Titles, descriptions, licenses and the spatial box are left out; the    *)
(* band vocabulary and the other fields a registration fixes are the       *)
(* document's `body'.  Config-defined layers never change while the        *)
(* configuration does not, so a document only lists published services.    *)
(***************************************************************************)
EXTENDS Integers

CONSTANTS
  Datasets,      \* dataset ids
  Services,      \* service ids: `xyz-` + hash of the process graph
  Modules,       \* WASM modules, named by content hash
  Bodies,        \* what a registration says of a dataset: title, bands, ...
  Instants,      \* acquisition datetimes, in milliseconds
  Plain,         \* the plan of a layer without a `run_udf` module
  Unpublished,   \* no layer under this id
  Absent,        \* no document, or no granule, under this id
  Open           \* an open bound of an interval

(***************************************************************************)
(* Datetimes are integers and a finite catalog's datetimes have a least    *)
(* and a greatest; the sentinels are not values of what they stand in for. *)
(***************************************************************************)
ASSUME InstantsAssumption ==
  /\ Instants \subseteq Int
  /\ Open \notin Int
  /\ \A T \in (SUBSET Instants) \ {{}} :
       \E lo, hi \in T : \A t \in T : lo <= t /\ t <= hi

ASSUME SentinelAssumption ==
  /\ Plain \notin Modules
  /\ Unpublished \notin Modules \cup {Plain}
  /\ Absent \notin Instants \cup Bodies

(***************************************************************************)
(* `TimeRange': both bounds inclusive and optional.                        *)
(***************************************************************************)
Bound == Instants \cup {Open}
TimeRange == [start : Bound, end : Bound]
NoGranuleYet == [start |-> Open, end |-> Open]

(***************************************************************************)
(* `TimeRange::including': an open side closes on the instant, a closed    *)
(* one moves only when the instant falls outside it.                       *)
(***************************************************************************)
Including(range, t) ==
  [start |-> IF range.start # Open /\ range.start <= t THEN range.start ELSE t,
   end   |-> IF range.end # Open /\ range.end >= t THEN range.end ELSE t]

(***************************************************************************)
(* `temporal_interval': the fold of `including' over a granule set, which  *)
(* is its least and greatest datetime, or both sides open for no granule.  *)
(***************************************************************************)
TemporalInterval(times) ==
  IF times = {}
  THEN NoGranuleYet
  ELSE [start |-> CHOOSE lo \in times : \A t \in times : lo <= t,
        end   |-> CHOOSE hi \in times : \A t \in times : t <= hi]

\* `range' covers the instant t.
Covers(range, t) ==
  /\ range.start # Open /\ range.start <= t
  /\ range.end # Open /\ t <= range.end

(***************************************************************************)
(* `Dataset': the document, and `Layer.plan' as far as it matters here: a  *)
(* UDF layer names its module by hash.                                     *)
(***************************************************************************)
Plan == Modules \cup {Plain}
LayerSlot == Plan \cup {Unpublished}
Dataset == [body : Bodies, layers : [Services -> LayerSlot], interval : TimeRange]

NoLayers == [s \in Services |-> Unpublished]

\* The document `POST /datasets' builds: no layer, an open interval.
FreshDataset(b) == [body |-> b, layers |-> NoLayers, interval |-> NoGranuleYet]

\* `dataset.layers.retain(..); dataset.layers.push(layer)'
WithLayer(doc, s, plan) == [doc EXCEPT !.layers[s] = plan]

\* `dataset.layers.retain(|layer| layer.id != service_id)'
WithoutLayer(doc, s) == [doc EXCEPT !.layers[s] = Unpublished]
==============================================================================
