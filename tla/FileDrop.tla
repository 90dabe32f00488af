------------------------------- MODULE FileDrop -------------------------------
(***************************************************************************)
(* The drop directories of the configured sources, the polling watcher of  *)
(* each (`FiledropEvents') and the ingest loop that pulls from it.         *)
(*                                                                         *)
(* A scan is synchronous code, but the directory belongs to others: what   *)
(* was listed may be gone when it is read.  The loops are tasks on a pool  *)
(* of worker threads: a task keeps its worker until it awaits, and the     *)
(* only awaits are the sleep between empty scans and the catalog calls.    *)
(*                                                                         *)
(* `ingest_granule' is one step here; CatalogServer has its calls one by   *)
(* one.  The content of a manifest is reduced to what becomes of it.       *)
(***************************************************************************)
EXTENDS Naturals, Sequences, FiniteSets

CONSTANTS
  Sources,       \* the configured sources
  Names,         \* manifest names, numbered in name order
  Home,          \* the drop directory, that is the source, of each name
  Contents,      \* what manifests may hold: a subset of Kinds
  Workers,       \* worker threads of the runtime
  Absent,        \* no such file; no event in hand
  Most           \* bound: how often each of Happenings may happen

\* "good": raster assets; "legacy": assets the referencer handles; "orphan":
\* the dataset is not in the catalog; "broken": does not parse.
Kinds == {"good", "legacy", "orphan", "broken"}

\* What others do and what goes wrong: a manifest dropped, replaced or
\* removed; a read, a referencing or a catalog call that fails; a directory
\* that becomes unreadable; a death of the server.
Happenings == {"drop", "read", "reference", "catalog", "outage", "crash"}

ASSUME FileDropAssumption ==
  /\ Names \subseteq Nat
  /\ Home \in [Names -> Sources]
  /\ Contents \subseteq Kinds
  /\ Workers \in Nat \ {0}
  /\ Most \in [Happenings -> Nat]

ASSUME AbsentAssumption == Absent \notin Kinds /\ Absent \notin Names

VARIABLES
  dir,         \* the files: content of each name, or Absent
  health,      \* of each directory: "missing", "readable" or "unreadable"
  manifests,   \* the virtual manifests stored beside the legacy files
  registered,  \* catalog: the granule of each name, or Absent
  seen,        \* watcher: names consumed in this run of the server
  pending,     \* watcher: events parsed and not yet pulled
  loop,        \* ingest loop: what it does next, what it has in hand
  running,     \* the loops that hold a worker thread
  failed,      \* registry: the names `Failed' was recorded for
  used         \* how often each of Happenings happened

outside == <<dir, health>>
watcher == <<seen, pending>>
vars == <<dir, health, manifests, registered, seen, pending, loop, running, failed, used>>

Event(n) == [name |-> n, content |-> dir[n]]

\* "ready": calls `next_event'; "read": in a scan, with names still to read;
\* "ingest": in a catalog call; "sleep": between two scans.
IdleLoop == [pc |-> "ready", fresh |-> {}, event |-> Absent]

Happens(kind) == used[kind] < Most[kind] /\ used' = [used EXCEPT ![kind] = @ + 1]

\* What a watcher has consumed after it read n: n is marked before it is
\* parsed, and no other name of the scan is.
ConsumedIfParsed(s, n, parsed) == IF parsed THEN seen[s] \cup {n} ELSE seen[s]
ConsumedAsBatch(s, n, parsed) == seen[s] \cup loop[s].fresh
Consumed(s, n, parsed) == seen[s] \cup {n}

\* The virtual manifests after an event for n was queued.
ReferencedNever(n) == manifests
Referenced(n) == IF dir[n] = "legacy" THEN manifests \cup {n} ELSE manifests

\* Where the scan goes on when `rest' remains.
AfterNameAgain(rest) == "read"
AfterName(rest) == IF rest = {} THEN "ready" ELSE "read"

------------------------------------------------------------------------------
(* The world outside: those who drop manifests, and the file system *)

\* A manifest is renamed into place, over an older one perhaps, or removed.
Drop(n) ==
  /\ health[Home[n]] # "missing"
  /\ \E content \in (Contents \cup {Absent}) \ {dir[n]} : dir' = [dir EXCEPT ![n] = content]
  /\ Happens("drop")
  /\ UNCHANGED <<health, manifests, registered, watcher, loop, running, failed>>

\* A drop point is created after the server started.
Mount(s) ==
  /\ health[s] = "missing"
  /\ health' = [health EXCEPT ![s] = "readable"]
  /\ UNCHANGED <<dir, manifests, registered, watcher, loop, running, failed, used>>

Break(s) ==
  /\ health[s] = "readable"
  /\ health' = [health EXCEPT ![s] = "unreadable"]
  /\ Happens("outage")
  /\ UNCHANGED <<dir, manifests, registered, watcher, loop, running, failed>>

Mend(s) ==
  /\ health[s] = "unreadable"
  /\ health' = [health EXCEPT ![s] = "readable"]
  /\ UNCHANGED <<dir, manifests, registered, watcher, loop, running, failed, used>>

------------------------------------------------------------------------------
(* The runtime *)

\* A loop that does not await anything is given a free worker.
Acquire(s) ==
  /\ loop[s].pc = "ready" /\ s \notin running
  /\ Cardinality(running) < Workers
  /\ running' = running \cup {s}
  /\ UNCHANGED <<outside, manifests, registered, watcher, loop, failed, used>>

\* The poll interval has passed.
Wake(s) ==
  /\ loop[s].pc = "sleep"
  /\ loop' = [loop EXCEPT ![s].pc = "ready"]
  /\ UNCHANGED <<outside, manifests, registered, watcher, running, failed, used>>

------------------------------------------------------------------------------
(* `next_event' *)

\* An event parsed earlier is handed out, and its ingest begins.
Pop(s) ==
  /\ s \in running /\ loop[s].pc = "ready"
  /\ pending[s] # <<>>
  /\ pending' = [pending EXCEPT ![s] = Tail(@)]
  /\ loop' = [loop EXCEPT ![s] = [IdleLoop EXCEPT !.pc = "ingest", !.event = Head(pending[s])]]
  /\ running' = running \ {s}
  /\ UNCHANGED <<outside, manifests, registered, seen, failed, used>>

\* The directory is listed.  A missing one is empty; one that cannot be read
\* is an error, which the loop records and then calls `next_event' again,
\* with no await on the way.
List(s) ==
  /\ s \in running /\ loop[s].pc = "ready"
  /\ pending[s] = <<>>
  /\ LET fresh == {n \in Names : Home[n] = s /\ dir[n] # Absent /\ n \notin seen[s]}
     IN CASE health[s] = "unreadable" -> UNCHANGED <<loop, running>>
          [] health[s] = "readable" /\ fresh # {} ->
               /\ loop' = [loop EXCEPT ![s].pc = "read", ![s].fresh = fresh]
               /\ UNCHANGED running
          [] OTHER ->
               /\ loop' = [loop EXCEPT ![s].pc = "sleep"]
               /\ running' = running \ {s}
  /\ UNCHANGED <<outside, manifests, registered, watcher, failed, used>>

\* Manifest n of the scan parses and its legacy assets are referenced: its
\* event waits to be pulled.
Queue(s, n) ==
  /\ dir[n] \in {"good", "legacy", "orphan"}
  /\ seen' = [seen EXCEPT ![s] = Consumed(s, n, TRUE)]
  /\ pending' = [pending EXCEPT ![s] = Append(@, Event(n))]
  /\ manifests' = Referenced(n)
  /\ LET rest == loop[s].fresh \ {n}
     IN loop' = [loop EXCEPT ![s].fresh = rest, ![s].pc = AfterName(rest)]
  /\ UNCHANGED <<failed, used>>

\* Manifest n is gone by now, does not parse, or cannot be read or
\* referenced.  That ends the scan: the error is recorded, the events parsed
\* before it wait, and the names after it will be fresh again.
Refuse(s, n) ==
  /\ \/ dir[n] \in {"broken", Absent} /\ UNCHANGED used
     \/ dir[n] \notin {"broken", Absent} /\ Happens("read")
     \/ dir[n] = "legacy" /\ Happens("reference")
  /\ seen' = [seen EXCEPT ![s] = Consumed(s, n, FALSE)]
  /\ failed' = failed \cup {n}
  /\ loop' = [loop EXCEPT ![s] = IdleLoop]
  /\ UNCHANGED <<pending, manifests>>

\* The scan takes its names in order.
ReadNext(s) ==
  /\ s \in running /\ loop[s].pc = "read"
  /\ \E n \in loop[s].fresh :
       /\ \A m \in loop[s].fresh : n <= m
       /\ Queue(s, n) \/ Refuse(s, n)
  /\ UNCHANGED <<outside, registered, running>>

------------------------------------------------------------------------------
(* The ingest loop *)

\* `ingest_granule' returns; its outcome is recorded, and the loop goes on.
Ingest(s) ==
  /\ loop[s].pc = "ingest"
  /\ LET event == loop[s].event
     IN \/ /\ event.content # "orphan"
           /\ registered' = [registered EXCEPT ![event.name] = event.content]
           /\ UNCHANGED <<failed, used>>
        \/ /\ IF event.content = "orphan" THEN UNCHANGED used ELSE Happens("catalog")
           /\ failed' = failed \cup {event.name}
           /\ UNCHANGED registered
  /\ loop' = [loop EXCEPT ![s] = IdleLoop]
  /\ UNCHANGED <<outside, manifests, watcher, running>>

\* The server dies and comes back: the watchers start over.
Restart ==
  /\ Happens("crash")
  /\ seen' = [s \in Sources |-> {}]
  /\ pending' = [s \in Sources |-> <<>>]
  /\ loop' = [s \in Sources |-> IdleLoop]
  /\ running' = {}
  /\ failed' = {}
  /\ UNCHANGED <<outside, manifests, registered>>

------------------------------------------------------------------------------
Init ==
  /\ dir = [n \in Names |-> Absent]
  /\ health \in [Sources -> {"missing", "readable"}]
  /\ manifests = {}
  /\ registered = [n \in Names |-> Absent]
  /\ seen = [s \in Sources |-> {}]
  /\ pending = [s \in Sources |-> <<>>]
  /\ loop = [s \in Sources |-> IdleLoop]
  /\ running = {}
  /\ failed = {}
  /\ used = [kind \in Happenings |-> 0]

\* A running loop goes on with its own code.
Watch(s) == Pop(s) \/ List(s) \/ ReadNext(s)

Next ==
  \/ \E n \in Names : Drop(n)
  \/ \E s \in Sources : Mount(s) \/ Break(s) \/ Mend(s)
  \/ \E s \in Sources : Acquire(s) \/ Wake(s) \/ Watch(s) \/ Ingest(s)
  \/ Restart

\* A thread runs the task it was given, timers fire, catalog calls return,
\* and the scheduler passes nobody over for ever.  Nobody has to drop
\* anything, and nothing that is broken has to be mended.
Fairness ==
  \A s \in Sources :
    /\ WF_vars(Watch(s)) /\ WF_vars(Wake(s)) /\ WF_vars(Ingest(s))
    /\ SF_vars(Acquire(s))

Spec == Init /\ [][Next]_vars /\ Fairness

------------------------------------------------------------------------------
(* Properties *)

Events == [name : Names, content : Kinds]

\* Every variable holds what the program could hold there; only a loop that
\* runs its own code has a worker.
TypeInv ==
  /\ dir \in [Names -> Kinds \cup {Absent}]
  /\ health \in [Sources -> {"missing", "readable", "unreadable"}]
  /\ manifests \subseteq Names
  /\ registered \in [Names -> Kinds \cup {Absent}]
  /\ seen \in [Sources -> SUBSET Names]
  /\ pending \in [Sources -> Seq(Events)]
  /\ loop \in [Sources -> [pc : {"ready", "read", "ingest", "sleep"}, fresh : SUBSET Names,
                           event : Events \cup {Absent}]]
  /\ \A s \in Sources : /\ loop[s].pc = "ingest" => loop[s].event \in Events
                        /\ loop[s].pc = "read" => loop[s].fresh # {} /\ s \in running
                        /\ loop[s].pc \in {"ingest", "sleep"} => s \notin running
  /\ running \subseteq Sources
  /\ failed \subseteq Names
  /\ used \in [Happenings -> Nat]

NamesIn(queue) == {queue[i].name : i \in DOMAIN queue}
Distinct(queue) == \A i, j \in DOMAIN queue : queue[i].name = queue[j].name => i = j
Waiting(s) == NamesIn(pending[s])
InHand(s) == IF loop[s].pc = "ingest" THEN {loop[s].event.name} ELSE {}

\* No manifest vanishes: one that was consumed waits, is being ingested, is
\* in the catalog, or a failure was recorded for it - also when the scan that
\* consumed it was cut short by another manifest.
NothingVanishes ==
  \A s \in Sources : \A n \in seen[s] :
    \/ n \in Waiting(s) \cup InHand(s)
    \/ registered[n] # Absent
    \/ n \in failed

\* A manifest is announced once in a run, and a failure of one is reported
\* once: what waits is not in hand too, nor twice in the queue, nor about to
\* be read again, and nothing that failed is read or announced again
\* (`scan': "a malformed manifest is reported exactly once, not on every
\* scan").
AnnouncedOnce ==
  \A s \in Sources :
    /\ Distinct(pending[s])
    /\ Waiting(s) \cap InHand(s) = {}
    /\ (Waiting(s) \cup InHand(s) \cup failed) \cap loop[s].fresh = {}
    /\ failed \cap Waiting(s) = {}

\* A legacy granule is in the catalog only with its virtual manifest stored:
\* what is registered is what the serving path can open.
LegacyIsReadable ==
  \A n \in Names : registered[n] = "legacy" => n \in manifests

\* What makes these three inductive: everything waiting, in hand or failed
\* was marked, by the watcher of its own directory; what a scan still has to
\* read was not; and an event for a legacy granule has its manifest stored.
StoredFor(e) == e.content = "legacy" => e.name \in manifests

WatcherInv(s) ==
  /\ \A n \in seen[s] : Home[n] = s
  /\ Waiting(s) \cup InHand(s) \subseteq seen[s]
  /\ \A n \in loop[s].fresh : Home[n] = s /\ n \notin seen[s]
  /\ \A i \in DOMAIN pending[s] : StoredFor(pending[s][i])
  /\ loop[s].pc = "ingest" => StoredFor(loop[s].event)

AccountInv ==
  /\ NothingVanishes /\ AnnouncedOnce /\ LegacyIsReadable
  /\ \A s \in Sources : WatcherInv(s)
  /\ \A n \in failed : n \in seen[Home[n]]

\* A good manifest that stays where it was dropped is registered, whatever
\* was dropped beside it (R1: one bad manifest must not block the next),
\* and whichever sibling directory is broken (the ingest loop's comment: "a
\* sibling watching a healthy directory is untouched"); if a read of it or
\* the catalog failed, that is on record.
GoodManifestArrives ==
  \A n \in Names :
    (dir[n] = "good" /\ n \notin seen[Home[n]] /\ health[Home[n]] = "readable")
      ~> \/ registered[n] # Absent
         \/ n \in failed /\ used["read"] + used["catalog"] > 0
         \/ dir[n] # "good" \/ health[Home[n]] # "readable"
==============================================================================
