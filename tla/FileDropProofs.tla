---------------------------- MODULE FileDropProofs ----------------------------
(* Proofs about FileDrop, for any number of directories, manifests and       *)
(* worker threads, and any bound on what others do and what goes wrong.      *)
EXTENDS FileDrop, TLAPS

------------------------------------------------------------------------------
(* Queues of events *)

\* The names in a queue, and that they are distinct, after one more event.
LEMMA AppendNames ==
  ASSUME NEW q \in Seq(Events), NEW e \in Events
  PROVE  /\ Append(q, e) \in Seq(Events)
         /\ NamesIn(Append(q, e)) = NamesIn(q) \cup {e.name}
         /\ Distinct(q) /\ e.name \notin NamesIn(q) => Distinct(Append(q, e))
         /\ \A i \in DOMAIN Append(q, e) :
              Append(q, e)[i] = e \/ \E j \in DOMAIN q : Append(q, e)[i] = q[j]
<1> DEFINE a == Append(q, e)
<1>1. /\ a \in Seq(Events) /\ Len(q) \in Nat
      /\ DOMAIN q = 1..Len(q) /\ DOMAIN a = 1..(Len(q) + 1)
      /\ a[Len(q) + 1] = e /\ \A i \in 1..Len(q) : a[i] = q[i]
  OBVIOUS
<1> HIDE DEF a
<1>2. DOMAIN a = DOMAIN q \cup {Len(q) + 1} /\ Len(q) + 1 \notin DOMAIN q
  BY <1>1
<1>3. \A i \in DOMAIN q : a[i] = q[i]
  BY <1>1
<1>4. NamesIn(a) = NamesIn(q) \cup {e.name}
  BY <1>1, <1>2, <1>3 DEF NamesIn
<1>5. ASSUME Distinct(q), e.name \notin NamesIn(q) PROVE Distinct(a)
  BY <1>1, <1>2, <1>3, <1>5 DEF Distinct, NamesIn
<1>6. \A i \in DOMAIN a : a[i] = e \/ \E j \in DOMAIN q : a[i] = q[j]
  BY <1>1, <1>2, <1>3
<1> QED BY <1>1, <1>4, <1>5, <1>6 DEF a

\* What is left of a queue without its first event.
LEMMA TailNames ==
  ASSUME NEW q \in Seq(Events), q # <<>>
  PROVE  /\ Tail(q) \in Seq(Events) /\ Head(q) \in Events
         /\ NamesIn(q) = NamesIn(Tail(q)) \cup {Head(q).name}
         /\ Distinct(q) => Distinct(Tail(q)) /\ Head(q).name \notin NamesIn(Tail(q))
         /\ \E j \in DOMAIN q : Head(q) = q[j]
         /\ \A i \in DOMAIN Tail(q) : \E j \in DOMAIN q : Tail(q)[i] = q[j]
<1> DEFINE t == Tail(q)
<1>1. /\ t \in Seq(Events) /\ Head(q) \in Events /\ Len(q) \in Nat \ {0}
      /\ DOMAIN q = 1..Len(q) /\ DOMAIN t = 1..(Len(q) - 1)
      /\ Head(q) = q[1] /\ \A i \in 1..(Len(q) - 1) : t[i] = q[i + 1]
  OBVIOUS
<1> HIDE DEF t
<1>2. 1 \in DOMAIN q /\ \A i \in DOMAIN t : i + 1 \in DOMAIN q /\ i + 1 # 1 /\ t[i] = q[i + 1]
  BY <1>1
<1>3. \A j \in DOMAIN q : j = 1 \/ (j - 1 \in DOMAIN t /\ t[j - 1] = q[j])
  BY <1>1
<1>4. NamesIn(q) = NamesIn(t) \cup {Head(q).name}
  <2>1. NamesIn(q) \subseteq NamesIn(t) \cup {Head(q).name}
    BY <1>1, <1>3 DEF NamesIn
  <2>2. NamesIn(t) \cup {Head(q).name} \subseteq NamesIn(q)
    BY <1>1, <1>2 DEF NamesIn
  <2> QED BY <2>1, <2>2
<1>5. ASSUME Distinct(q) PROVE Distinct(t) /\ Head(q).name \notin NamesIn(t)
  <2>1. \A i, j \in DOMAIN t : t[i].name = t[j].name => i + 1 = j + 1
    BY <1>2, <1>5 DEF Distinct
  <2>2. \A i, j \in DOMAIN t : i + 1 = j + 1 => i = j
    BY <1>1
  <2>3. \A i \in DOMAIN t : t[i].name # Head(q).name
    BY <1>1, <1>2, <1>5 DEF Distinct
  <2> QED BY <2>1, <2>2, <2>3 DEF Distinct, NamesIn
<1> QED BY <1>1, <1>2, <1>4, <1>5 DEF t

------------------------------------------------------------------------------
(* Types *)

LEMMA InitType == Init => TypeInv
<1> SUFFICES ASSUME Init PROVE TypeInv
  OBVIOUS
<1>1. loop = [s \in Sources |-> IdleLoop] /\ running = {} /\ failed = {} /\ manifests = {}
  BY DEF Init
<1>2. loop \in [Sources -> [pc : {"ready", "read", "ingest", "sleep"}, fresh : SUBSET Names,
                            event : Events \cup {Absent}]]
  BY <1>1 DEF IdleLoop
<1>3. \A s \in Sources : loop[s].pc = "ready"
  BY <1>1 DEF IdleLoop
<1>4. pending \in [Sources -> Seq(Events)] /\ seen \in [Sources -> SUBSET Names]
  BY DEF Init
<1>5. /\ dir \in [Names -> Kinds \cup {Absent}] /\ registered \in [Names -> Kinds \cup {Absent}]
      /\ health \in [Sources -> {"missing", "readable", "unreadable"}]
      /\ used \in [Happenings -> Nat]
  BY DEF Init
<1> QED BY <1>1, <1>2, <1>3, <1>4, <1>5 DEF TypeInv

\* A happening is counted.
LEMMA HappensType ==
  ASSUME TypeInv, NEW kind \in Happenings, Happens(kind)
  PROVE  used' \in [Happenings -> Nat]
BY FileDropAssumption DEF TypeInv, Happens

\* What a loop is set to decides the types of all loops.
LEMMA LoopType ==
  ASSUME TypeInv, NEW s \in Sources,
         NEW l \in [pc : {"ready", "read", "ingest", "sleep"}, fresh : SUBSET Names,
                    event : Events \cup {Absent}],
         loop' = [loop EXCEPT ![s] = l],
         \A r \in Sources : r # s => (r \in running' <=> r \in running),
         l.pc = "ingest" => l.event \in Events,
         l.pc = "read" => l.fresh # {} /\ s \in running',
         l.pc \in {"ingest", "sleep"} => s \notin running'
  PROVE  /\ loop' \in [Sources -> [pc : {"ready", "read", "ingest", "sleep"},
                                   fresh : SUBSET Names, event : Events \cup {Absent}]]
         /\ \A r \in Sources :
              /\ loop'[r].pc = "ingest" => loop'[r].event \in Events
              /\ loop'[r].pc = "read" => loop'[r].fresh # {} /\ r \in running'
              /\ loop'[r].pc \in {"ingest", "sleep"} => r \notin running'
<1>1. loop'[s] = l /\ \A r \in Sources : r # s => loop'[r] = loop[r]
  BY DEF TypeInv
<1>2. loop' \in [Sources -> [pc : {"ready", "read", "ingest", "sleep"},
                             fresh : SUBSET Names, event : Events \cup {Absent}]]
  BY DEF TypeInv
<1>3. ASSUME NEW r \in Sources, r # s
      PROVE  /\ loop'[r].pc = "ingest" => loop'[r].event \in Events
             /\ loop'[r].pc = "read" => loop'[r].fresh # {} /\ r \in running'
             /\ loop'[r].pc \in {"ingest", "sleep"} => r \notin running'
  BY <1>1, <1>3 DEF TypeInv
<1> QED BY <1>1, <1>2, <1>3

LEMMA OutsideType ==
  ASSUME TypeInv,
         \/ \E n \in Names : Drop(n)
         \/ \E s \in Sources : Mount(s) \/ Break(s) \/ Mend(s)
  PROVE  TypeInv'
<1>1. ASSUME NEW n \in Names, Drop(n) PROVE TypeInv'
  <2>1. used' \in [Happenings -> Nat]
    BY <1>1, HappensType DEF Drop, Happenings
  <2>2. dir' \in [Names -> Kinds \cup {Absent}]
    BY <1>1, FileDropAssumption DEF Drop, TypeInv
  <2> QED BY <1>1, <2>1, <2>2 DEF Drop, TypeInv, watcher
<1>2. ASSUME NEW s \in Sources, Mount(s) \/ Mend(s) PROVE TypeInv'
  BY <1>2 DEF Mount, Mend, TypeInv, watcher
<1>3. ASSUME NEW s \in Sources, Break(s) PROVE TypeInv'
  <2>1. used' \in [Happenings -> Nat]
    BY <1>3, HappensType DEF Break, Happenings
  <2> QED BY <1>3, <2>1 DEF Break, TypeInv, watcher
<1> QED BY <1>1, <1>2, <1>3

LEMMA RuntimeType ==
  ASSUME TypeInv, NEW s \in Sources, Acquire(s) \/ Wake(s)
  PROVE  TypeInv'
<1>1. CASE Acquire(s)
  <2>1. running' \subseteq Sources
    BY <1>1 DEF Acquire, TypeInv
  <2>2. \A r \in Sources : /\ loop[r].pc = "read" => r \in running'
                           /\ loop[r].pc \in {"ingest", "sleep"} => r \notin running'
    BY <1>1 DEF Acquire, TypeInv
  <2> QED BY <1>1, <2>1, <2>2 DEF Acquire, TypeInv, outside, watcher
<1>2. CASE Wake(s)
  <2> DEFINE l == [loop[s] EXCEPT !.pc = "ready"]
  <2>1. loop' = [loop EXCEPT ![s] = l] /\ running' = running
    BY <1>2 DEF Wake
  <2>2. /\ l \in [pc : {"ready", "read", "ingest", "sleep"}, fresh : SUBSET Names,
                  event : Events \cup {Absent}]
        /\ l.pc = "ready"
    BY DEF TypeInv
  <2> HIDE DEF l
  <2>3. \A r \in Sources : r \in running' <=> r \in running
    BY <2>1
  <2> QED BY <1>2, <2>1, <2>2, <2>3, LoopType DEF Wake, TypeInv, outside, watcher
<1> QED BY <1>1, <1>2

LEMMA PopType ==
  ASSUME TypeInv, NEW s \in Sources, Pop(s)
  PROVE  TypeInv'
<1> DEFINE l == [IdleLoop EXCEPT !.pc = "ingest", !.event = Head(pending[s])]
<1>1. pending[s] \in Seq(Events) /\ pending[s] # <<>>
  BY DEF Pop, TypeInv
<1>2. Tail(pending[s]) \in Seq(Events) /\ Head(pending[s]) \in Events
  BY <1>1, TailNames
<1>3. pending' \in [Sources -> Seq(Events)]
  BY <1>2 DEF Pop, TypeInv
<1>4. /\ l \in [pc : {"ready", "read", "ingest", "sleep"}, fresh : SUBSET Names,
                event : Events \cup {Absent}]
      /\ l.pc = "ingest" /\ l.event \in Events
  BY <1>2 DEF IdleLoop
<1>5. loop' = [loop EXCEPT ![s] = l] /\ running' = running \ {s}
  BY DEF Pop
<1> HIDE DEF l
<1>6. s \notin running' /\ \A r \in Sources : r # s => (r \in running' <=> r \in running)
  BY <1>5
<1> QED BY <1>3, <1>4, <1>5, <1>6, LoopType DEF Pop, TypeInv, outside

\* The directory is listed: the loop sleeps, or has names to read.
LEMMA ListStep ==
  ASSUME NEW s \in Sources, List(s)
  PROVE  /\ pending[s] = <<>> /\ loop[s].pc = "ready" /\ s \in running
         /\ UNCHANGED <<outside, manifests, registered, watcher, failed, used>>
         /\ \/ UNCHANGED <<loop, running>>
            \/ \E fresh \in SUBSET {n \in Names : Home[n] = s /\ dir[n] # Absent /\ n \notin seen[s]} :
                 /\ fresh # {} /\ running' = running
                 /\ loop' = [loop EXCEPT ![s].pc = "read", ![s].fresh = fresh]
            \/ /\ loop' = [loop EXCEPT ![s].pc = "sleep"]
               /\ running' = running \ {s}
BY DEF List

LEMMA ListType ==
  ASSUME TypeInv, NEW s \in Sources, List(s)
  PROVE  TypeInv'
<1>1. /\ s \in running /\ UNCHANGED <<outside, manifests, registered, watcher, failed, used>>
  BY ListStep
<1>2. CASE UNCHANGED <<loop, running>>
  BY <1>1, <1>2 DEF TypeInv, outside, watcher
<1>3. ASSUME NEW fresh \in SUBSET Names, fresh # {}, running' = running,
             loop' = [loop EXCEPT ![s].pc = "read", ![s].fresh = fresh]
      PROVE  TypeInv'
  <2> DEFINE l == [loop[s] EXCEPT !.pc = "read", !.fresh = fresh]
  <2>1. loop' = [loop EXCEPT ![s] = l]
    BY <1>3 DEF TypeInv
  <2>2. /\ l \in [pc : {"ready", "read", "ingest", "sleep"}, fresh : SUBSET Names,
                  event : Events \cup {Absent}]
        /\ l.pc = "read" /\ l.fresh # {}
    BY <1>3 DEF TypeInv
  <2> HIDE DEF l
  <2> QED BY <1>1, <1>3, <2>1, <2>2, LoopType DEF TypeInv, outside, watcher
<1>4. ASSUME loop' = [loop EXCEPT ![s].pc = "sleep"], running' = running \ {s}
      PROVE  TypeInv'
  <2> DEFINE l == [loop[s] EXCEPT !.pc = "sleep"]
  <2>1. loop' = [loop EXCEPT ![s] = l]
    BY <1>4
  <2>2. /\ l \in [pc : {"ready", "read", "ingest", "sleep"}, fresh : SUBSET Names,
                  event : Events \cup {Absent}]
        /\ l.pc = "sleep"
    BY DEF TypeInv
  <2> HIDE DEF l
  <2>3. s \notin running' /\ \A r \in Sources : r # s => (r \in running' <=> r \in running)
    BY <1>4
  <2> QED BY <1>1, <1>4, <2>1, <2>2, <2>3, LoopType DEF TypeInv, outside, watcher
<1> QED BY <1>2, <1>3, <1>4, ListStep

LEMMA QueueType ==
  ASSUME TypeInv, NEW s \in Sources, NEW n \in loop[s].fresh, s \in running,
         Queue(s, n), UNCHANGED <<outside, registered, running>>
  PROVE  TypeInv'
<1> DEFINE rest == loop[s].fresh \ {n}
           l == [loop[s] EXCEPT !.fresh = rest, !.pc = AfterName(rest)]
<1>1. n \in Names /\ Event(n) \in Events
  BY DEF Queue, TypeInv, Event, Events, Kinds
<1>2. pending' \in [Sources -> Seq(Events)] /\ seen' \in [Sources -> SUBSET Names]
      /\ manifests' \subseteq Names
  BY <1>1 DEF Queue, TypeInv, Consumed, Referenced
<1>3. loop' = [loop EXCEPT ![s] = l]
  <2>1. loop' = [loop EXCEPT ![s].fresh = rest, ![s].pc = AfterName(rest)]
    BY DEF Queue
  <2> QED BY <2>1 DEF TypeInv
<1>4. /\ l \in [pc : {"ready", "read", "ingest", "sleep"}, fresh : SUBSET Names,
                event : Events \cup {Absent}]
      /\ l.pc \in {"ready", "read"}
      /\ l.pc = "read" => l.fresh # {}
  BY DEF TypeInv, AfterName
<1> HIDE DEF l
<1>5. s \in running' /\ \A r \in Sources : r \in running' <=> r \in running
  OBVIOUS
<1> QED BY <1>2, <1>3, <1>4, <1>5, LoopType DEF Queue, TypeInv, outside

LEMMA RefuseType ==
  ASSUME TypeInv, NEW s \in Sources, NEW n \in loop[s].fresh,
         Refuse(s, n), UNCHANGED <<outside, registered, running>>
  PROVE  TypeInv'
<1>1. n \in Names
  BY DEF TypeInv
<1>2. seen' \in [Sources -> SUBSET Names] /\ failed' \subseteq Names
  BY <1>1 DEF Refuse, TypeInv, Consumed
<1>3. used' \in [Happenings -> Nat]
  BY HappensType DEF Refuse, TypeInv, Happenings
<1>4. /\ IdleLoop \in [pc : {"ready", "read", "ingest", "sleep"}, fresh : SUBSET Names,
                       event : Events \cup {Absent}]
      /\ IdleLoop.pc = "ready"
  BY DEF IdleLoop
<1>5. loop' = [loop EXCEPT ![s] = IdleLoop] /\ \A r \in Sources : r \in running' <=> r \in running
  BY DEF Refuse
<1> QED BY <1>2, <1>3, <1>4, <1>5, LoopType DEF Refuse, TypeInv, outside

LEMMA IngestType ==
  ASSUME TypeInv, NEW s \in Sources, Ingest(s)
  PROVE  TypeInv'
<1>1. loop[s].event \in Events
  BY DEF Ingest, TypeInv
<1>2. /\ registered' \in [Names -> Kinds \cup {Absent}]
      /\ failed' \subseteq Names
  BY <1>1 DEF Ingest, TypeInv, Events
<1>3. used' \in [Happenings -> Nat]
  BY HappensType DEF Ingest, TypeInv, Happenings
<1>4. /\ IdleLoop \in [pc : {"ready", "read", "ingest", "sleep"}, fresh : SUBSET Names,
                       event : Events \cup {Absent}]
      /\ IdleLoop.pc = "ready"
  BY DEF IdleLoop
<1>5. loop' = [loop EXCEPT ![s] = IdleLoop] /\ \A r \in Sources : r \in running' <=> r \in running
  BY DEF Ingest
<1> QED BY <1>2, <1>3, <1>4, <1>5, LoopType DEF Ingest, TypeInv, outside, watcher

LEMMA RestartType == TypeInv /\ Restart => TypeInv'
<1> SUFFICES ASSUME TypeInv, Restart PROVE TypeInv'
  OBVIOUS
<1>1. used' \in [Happenings -> Nat]
  BY HappensType DEF Restart, Happenings
<1>2. /\ loop' \in [Sources -> [pc : {"ready", "read", "ingest", "sleep"}, fresh : SUBSET Names,
                                event : Events \cup {Absent}]]
      /\ \A s \in Sources : loop'[s].pc = "ready"
  BY DEF Restart, IdleLoop
<1>3. pending' \in [Sources -> Seq(Events)] /\ seen' \in [Sources -> SUBSET Names]
  BY DEF Restart
<1> QED BY <1>1, <1>2, <1>3 DEF Restart, TypeInv, outside

LEMMA NextType == TypeInv /\ [Next]_vars => TypeInv'
<1> SUFFICES ASSUME TypeInv, [Next]_vars PROVE TypeInv'
  OBVIOUS
<1>1. CASE UNCHANGED vars
  BY <1>1 DEF vars, TypeInv
<1>2. ASSUME NEW s \in Sources, ReadNext(s) PROVE TypeInv'
  BY <1>2, QueueType, RefuseType DEF ReadNext
<1> QED BY <1>1, <1>2, OutsideType, RuntimeType, PopType, ListType, IngestType, RestartType
        DEF Next, Watch

\* Every variable holds what the program could hold there, and only a loop
\* that runs its own code has a worker thread.
THEOREM FileDropTypeCorrect == Spec => []TypeInv
BY InitType, NextType, PTL DEF Spec

------------------------------------------------------------------------------
(* The account of every manifest *)

\* What AccountInv says of one source.
SourceInv(s) ==
  /\ \A n \in seen[s] : n \in Waiting(s) \cup InHand(s) \/ registered[n] # Absent \/ n \in failed
  /\ Distinct(pending[s])
  /\ Waiting(s) \cap InHand(s) = {}
  /\ (Waiting(s) \cup InHand(s) \cup failed) \cap loop[s].fresh = {}
  /\ failed \cap Waiting(s) = {}
  /\ WatcherInv(s)

FailedWasSeen == \A n \in failed : n \in seen[Home[n]]

LEMMA BySource ==
  AccountInv <=> LegacyIsReadable /\ FailedWasSeen /\ \A s \in Sources : SourceInv(s)
BY DEF AccountInv, NothingVanishes, AnnouncedOnce, FailedWasSeen, SourceInv

\* A source is not concerned by what another one does: the names differ.
LEMMA OtherSource ==
  ASSUME NEW s, NEW r \in Sources, r # s, SourceInv(r), TypeInv,
         seen'[r] = seen[r], pending'[r] = pending[r], loop'[r] = loop[r],
         manifests \subseteq manifests', failed \subseteq failed',
         \A n \in Names : registered[n] # Absent => registered'[n] # Absent,
         \A n \in failed' : n \in failed \/ Home[n] = s
  PROVE  SourceInv(r)'
<1>1. Waiting(r)' = Waiting(r) /\ InHand(r)' = InHand(r)
  BY DEF Waiting, InHand
<1>2. WatcherInv(r)'
  <2>1. \A e : StoredFor(e) => StoredFor(e)'
    BY DEF StoredFor
  <2> QED BY <1>1, <2>1 DEF SourceInv, WatcherInv
<1>3. \A n \in Waiting(r) \cup InHand(r) \cup loop[r].fresh : Home[n] # s
  BY DEF SourceInv, WatcherInv
<1>4. seen[r] \subseteq Names
  BY DEF TypeInv
<1> QED BY <1>1, <1>2, <1>3, <1>4 DEF SourceInv

\* A step that touches only source s and keeps what was stored, registered
\* or failed: what it leaves to show is about s.
LEMMA OnlySource ==
  ASSUME NEW s \in Sources, TypeInv, AccountInv,
         \A r \in Sources : r # s => /\ seen'[r] = seen[r] /\ pending'[r] = pending[r]
                                     /\ loop'[r] = loop[r],
         seen[s] \subseteq seen'[s], manifests \subseteq manifests',
         failed \subseteq failed',
         \A n \in Names : registered[n] # Absent => registered'[n] # Absent,
         \A n \in failed' : n \in failed \/ (Home[n] = s /\ n \in seen'[s]),
         LegacyIsReadable', SourceInv(s)'
  PROVE  AccountInv'
<1>1. \A r \in Sources : SourceInv(r)'
  BY BySource, OtherSource
<1>2. FailedWasSeen'
  <2> SUFFICES ASSUME NEW n \in failed' PROVE n \in seen'[Home[n]]
    BY DEF FailedWasSeen
  <2>1. CASE n \in failed
    <3>1. n \in seen[Home[n]] /\ Home[n] \in Sources
      BY <2>1, FileDropAssumption DEF AccountInv, TypeInv
    <3> QED BY <3>1
  <2> QED BY <2>1
<1>3. (LegacyIsReadable /\ FailedWasSeen /\ \A r \in Sources : SourceInv(r))' => AccountInv'
  BY DEF AccountInv, NothingVanishes, AnnouncedOnce, FailedWasSeen, SourceInv
<1> QED BY <1>1, <1>2, <1>3

\* Nothing that the account is about changes.
LEMMA Unaffected ==
  ASSUME AccountInv, UNCHANGED <<manifests, registered, seen, pending, failed>>,
         UNCHANGED loop
  PROVE  AccountInv'
BY DEF AccountInv, NothingVanishes, AnnouncedOnce, LegacyIsReadable, WatcherInv, Waiting,
       InHand, StoredFor

LEMMA InitAccount == Init => AccountInv
<1> SUFFICES ASSUME Init PROVE AccountInv
  OBVIOUS
<1>1. ASSUME NEW s \in Sources PROVE SourceInv(s)
  <2>1. seen[s] = {} /\ pending[s] = <<>> /\ loop[s] = IdleLoop
    BY DEF Init
  <2>2. DOMAIN pending[s] = {} /\ Waiting(s) = {} /\ InHand(s) = {} /\ loop[s].fresh = {}
        /\ loop[s].pc = "ready"
    BY <2>1 DEF Waiting, NamesIn, InHand, IdleLoop
  <2> QED BY <2>1, <2>2 DEF SourceInv, WatcherInv, Distinct
<1>2. LegacyIsReadable /\ FailedWasSeen
  BY AbsentAssumption DEF Init, LegacyIsReadable, FailedWasSeen, Kinds
<1> QED BY <1>1, <1>2, BySource

LEMMA OutsideAccount ==
  ASSUME AccountInv,
         \/ \E n \in Names : Drop(n)
         \/ \E s \in Sources : Mount(s) \/ Break(s) \/ Mend(s) \/ Acquire(s)
  PROVE  AccountInv'
<1>1. UNCHANGED <<manifests, registered, seen, pending, failed>> /\ UNCHANGED loop
  BY DEF Drop, Mount, Break, Mend, Acquire, watcher
<1> QED BY <1>1, Unaffected

LEMMA WakeAccount ==
  ASSUME TypeInv, AccountInv, NEW s \in Sources, Wake(s)
  PROVE  AccountInv'
<1>1. /\ loop[s].pc = "sleep" /\ loop'[s].pc = "ready"
      /\ loop'[s].fresh = loop[s].fresh /\ \A r \in Sources : r # s => loop'[r] = loop[r]
      /\ UNCHANGED <<manifests, registered, seen, pending, failed>>
  BY DEF Wake, TypeInv, watcher
<1>2. Waiting(s)' = Waiting(s) /\ InHand(s) = {} /\ InHand(s)' = {}
  BY <1>1 DEF Waiting, InHand
<1>3. SourceInv(s)
  BY BySource
<1>4. SourceInv(s)'
  BY <1>1, <1>2, <1>3 DEF SourceInv, WatcherInv, StoredFor
<1>5. LegacyIsReadable'
  BY <1>1 DEF AccountInv, LegacyIsReadable
<1> QED BY <1>1, <1>4, <1>5, OnlySource

\* An event that waited is in hand.
LEMMA PopAccount ==
  ASSUME TypeInv, AccountInv, NEW s \in Sources, Pop(s)
  PROVE  AccountInv'
<1> DEFINE q == pending[s]
<1>1. q \in Seq(Events) /\ q # <<>>
  BY DEF Pop, TypeInv
<1>2. /\ loop'[s].pc = "ingest" /\ loop'[s].event = Head(q) /\ loop'[s].fresh = {}
      /\ pending'[s] = Tail(q)
      /\ \A r \in Sources : r # s => loop'[r] = loop[r] /\ pending'[r] = pending[r]
      /\ UNCHANGED <<manifests, registered, seen, failed>>
      /\ loop[s].pc = "ready"
  BY DEF Pop, TypeInv, IdleLoop
<1>3. /\ InHand(s) = {} /\ InHand(s)' = {Head(q).name}
      /\ Waiting(s)' = NamesIn(Tail(q)) /\ Waiting(s) = NamesIn(q)
  BY <1>2 DEF InHand, Waiting
<1>4. /\ NamesIn(q) = NamesIn(Tail(q)) \cup {Head(q).name}
      /\ Distinct(q) => Distinct(Tail(q)) /\ Head(q).name \notin NamesIn(Tail(q))
      /\ \E j \in DOMAIN q : Head(q) = q[j]
      /\ \A i \in DOMAIN Tail(q) : \E j \in DOMAIN q : Tail(q)[i] = q[j]
  BY <1>1, TailNames
<1>5. SourceInv(s)
  BY BySource
<1>6. \A i \in DOMAIN q : StoredFor(q[i])
  BY <1>5 DEF SourceInv, WatcherInv
<1>7. WatcherInv(s)'
  <2>1. /\ \A n \in seen'[s] : Home[n] = s
        /\ Waiting(s)' \cup InHand(s)' \subseteq seen'[s]
    BY <1>2, <1>3, <1>4, <1>5 DEF SourceInv, WatcherInv
  <2>2. \A i \in DOMAIN pending'[s] : StoredFor(pending[s][i])'
    BY <1>2, <1>4, <1>6 DEF StoredFor
  <2>3. StoredFor(loop[s].event)'
    BY <1>2, <1>4, <1>6 DEF StoredFor
  <2> QED BY <1>2, <2>1, <2>2, <2>3 DEF WatcherInv
<1>8. SourceInv(s)'
  BY <1>2, <1>3, <1>4, <1>5, <1>7 DEF SourceInv
<1>9. LegacyIsReadable'
  BY <1>2 DEF AccountInv, LegacyIsReadable
<1> QED BY <1>2, <1>8, <1>9, OnlySource

\* What a scan is to read was not seen before.
LEMMA ListAccount ==
  ASSUME TypeInv, AccountInv, NEW s \in Sources, List(s)
  PROVE  AccountInv'
<1>1. /\ pending[s] = <<>> /\ loop[s].pc = "ready"
      /\ UNCHANGED <<manifests, registered, seen, pending, failed>>
  BY ListStep DEF watcher
<1>2. CASE UNCHANGED loop
  BY <1>1, <1>2, Unaffected
<1>3. ASSUME NEW pc \in {"read", "sleep"}, NEW fresh \in SUBSET Names,
             \A n \in fresh : Home[n] = s /\ n \notin seen[s],
             loop'[s].pc = pc, loop'[s].fresh = fresh,
             \A r \in Sources : r # s => loop'[r] = loop[r]
      PROVE  AccountInv'
  <2>1. /\ DOMAIN pending[s] = {} /\ Waiting(s) = {} /\ InHand(s) = {}
        /\ Waiting(s)' = {} /\ InHand(s)' = {}
    BY <1>1, <1>3 DEF Waiting, NamesIn, InHand
  <2>2. SourceInv(s) /\ FailedWasSeen
    BY BySource
  <2>3. failed \cap fresh = {}
    BY <1>3, <2>2 DEF FailedWasSeen
  <2>4. WatcherInv(s)'
    BY <1>1, <1>3, <2>1, <2>2 DEF SourceInv, WatcherInv
  <2>5. SourceInv(s)'
    BY <1>1, <1>3, <2>1, <2>2, <2>3, <2>4 DEF SourceInv
  <2>6. LegacyIsReadable'
    BY <1>1 DEF AccountInv, LegacyIsReadable
  <2> QED BY <1>1, <1>3, <2>5, <2>6, OnlySource
<1>4. ASSUME NEW fresh \in SUBSET {n \in Names : Home[n] = s /\ dir[n] # Absent /\ n \notin seen[s]},
             loop' = [loop EXCEPT ![s].pc = "read", ![s].fresh = fresh]
      PROVE  AccountInv'
  <2>1. /\ loop'[s].pc = "read" /\ loop'[s].fresh = fresh
        /\ \A r \in Sources : r # s => loop'[r] = loop[r]
    BY <1>4 DEF TypeInv
  <2> QED BY <1>3, <1>4, <2>1
<1>5. ASSUME loop' = [loop EXCEPT ![s].pc = "sleep"]
      PROVE  AccountInv'
  <2>1. /\ loop'[s].pc = "sleep" /\ loop'[s].fresh = loop[s].fresh
        /\ \A r \in Sources : r # s => loop'[r] = loop[r]
        /\ loop[s].fresh \in SUBSET Names
    BY <1>5 DEF TypeInv
  <2>2. \A n \in loop[s].fresh : Home[n] = s /\ n \notin seen[s]
    BY DEF AccountInv, WatcherInv
  <2> QED BY <1>3, <2>1, <2>2
<1>6. \/ UNCHANGED <<loop, running>>
      \/ \E fresh \in SUBSET {n \in Names : Home[n] = s /\ dir[n] # Absent /\ n \notin seen[s]} :
           loop' = [loop EXCEPT ![s].pc = "read", ![s].fresh = fresh]
      \/ loop' = [loop EXCEPT ![s].pc = "sleep"]
  BY ListStep
<1> QED BY <1>2, <1>4, <1>5, <1>6

\* The event queued is that of a name not seen before.
LEMMA QueueAccount ==
  ASSUME TypeInv, AccountInv, NEW s \in Sources, NEW n \in loop[s].fresh, loop[s].pc = "read",
         Queue(s, n), UNCHANGED <<outside, registered, running>>
  PROVE  AccountInv'
<1> DEFINE q == pending[s]
           e == Event(n)
<1>1. /\ n \in Names /\ e \in Events /\ e.name = n /\ e.content = dir[n] /\ q \in Seq(Events)
  BY DEF Queue, TypeInv, Event, Events, Kinds
<1>2. /\ pending'[s] = Append(q, e) /\ seen'[s] = seen[s] \cup {n}
      /\ loop'[s].fresh = loop[s].fresh \ {n} /\ loop'[s].pc \in {"ready", "read"}
      /\ UNCHANGED <<registered, failed>>
  <2>1. loop'[s].fresh = loop[s].fresh \ {n} /\ loop'[s].pc \in {"ready", "read"}
    BY DEF Queue, TypeInv, AfterName
  <2> QED BY <2>1 DEF Queue, TypeInv, Consumed
<1>3. \A r \in Sources : r # s => /\ seen'[r] = seen[r] /\ pending'[r] = pending[r]
                                  /\ loop'[r] = loop[r]
  BY DEF Queue, TypeInv
<1>4. /\ manifests \subseteq manifests'
      /\ e.content = "legacy" => n \in manifests'
  BY <1>1 DEF Queue, Referenced
<1> HIDE DEF e
<1>5. /\ NamesIn(Append(q, e)) = NamesIn(q) \cup {n}
      /\ Distinct(q) /\ n \notin NamesIn(q) => Distinct(Append(q, e))
      /\ \A i \in DOMAIN Append(q, e) :
           Append(q, e)[i] = e \/ \E j \in DOMAIN q : Append(q, e)[i] = q[j]
  BY <1>1, AppendNames
<1>6. /\ Waiting(s)' = Waiting(s) \cup {n} /\ Waiting(s) = NamesIn(q)
      /\ InHand(s) = {} /\ InHand(s)' = {}
  BY <1>2, <1>5 DEF Waiting, InHand
<1>7. SourceInv(s)
  BY BySource
<1>8. n \notin seen[s] /\ n \notin Waiting(s) /\ n \notin failed /\ Home[n] = s
  BY <1>7 DEF SourceInv, WatcherInv
<1>9. WatcherInv(s)'
  <2>1. /\ \A m \in seen'[s] : Home[m] = s
        /\ Waiting(s)' \cup InHand(s)' \subseteq seen'[s]
        /\ \A m \in loop'[s].fresh : Home[m] = s /\ m \notin seen'[s]
    BY <1>2, <1>6, <1>7, <1>8 DEF SourceInv, WatcherInv
  <2>2. \A j \in DOMAIN q : StoredFor(q[j])
    BY <1>7 DEF SourceInv, WatcherInv
  <2>3. \A f : StoredFor(f) /\ f.content = "legacy" => f.name \in manifests'
    BY <1>4 DEF StoredFor
  <2>4. \A i \in DOMAIN Append(q, e) :
          Append(q, e)[i].content = "legacy" => Append(q, e)[i].name \in manifests'
    BY <1>1, <1>4, <1>5, <2>2, <2>3
  <2>5. \A i \in DOMAIN pending'[s] : StoredFor(pending[s][i])'
    BY <1>2, <2>4 DEF StoredFor
  <2> QED BY <1>2, <2>1, <2>5 DEF WatcherInv
<1>10. SourceInv(s)'
  BY <1>2, <1>5, <1>6, <1>7, <1>8, <1>9 DEF SourceInv
<1>11. LegacyIsReadable'
  BY <1>2, <1>4 DEF AccountInv, LegacyIsReadable
<1> QED BY <1>2, <1>3, <1>4, <1>10, <1>11, OnlySource

\* A refused manifest is seen and on record, and the scan is over.
LEMMA RefuseAccount ==
  ASSUME TypeInv, AccountInv, NEW s \in Sources, NEW n \in loop[s].fresh, loop[s].pc = "read",
         Refuse(s, n), UNCHANGED <<outside, registered, running>>
  PROVE  AccountInv'
<1>1. /\ seen'[s] = seen[s] \cup {n} /\ failed' = failed \cup {n}
      /\ loop'[s].pc = "ready" /\ loop'[s].fresh = {}
      /\ UNCHANGED <<registered, manifests, pending>>
  BY DEF Refuse, TypeInv, Consumed, IdleLoop
<1>2. \A r \in Sources : r # s => seen'[r] = seen[r] /\ loop'[r] = loop[r]
  BY DEF Refuse, TypeInv
<1>3. /\ Waiting(s)' = Waiting(s) /\ InHand(s) = {} /\ InHand(s)' = {}
  BY <1>1 DEF Waiting, InHand
<1>4. SourceInv(s)
  BY BySource
<1>5. n \notin Waiting(s) /\ Home[n] = s
  BY <1>4 DEF SourceInv, WatcherInv
<1>6. WatcherInv(s)'
  BY <1>1, <1>3, <1>4, <1>5 DEF SourceInv, WatcherInv, StoredFor
<1>7. SourceInv(s)'
  BY <1>1, <1>3, <1>4, <1>5, <1>6 DEF SourceInv
<1>8. LegacyIsReadable'
  BY <1>1 DEF AccountInv, LegacyIsReadable
<1> QED BY <1>1, <1>2, <1>5, <1>7, <1>8, OnlySource

\* The event in hand is registered or on record as failed.
LEMMA IngestAccount ==
  ASSUME TypeInv, AccountInv, NEW s \in Sources, Ingest(s)
  PROVE  AccountInv'
<1> DEFINE event == loop[s].event
<1>1. /\ event \in Events /\ event.name \in Names /\ event.content # Absent
      /\ loop[s].pc = "ingest"
  BY AbsentAssumption DEF Ingest, TypeInv, Events
<1>2. /\ loop'[s].pc = "ready" /\ loop'[s].fresh = {}
      /\ \A r \in Sources : r # s => loop'[r] = loop[r]
      /\ UNCHANGED <<manifests, seen, pending>>
  BY DEF Ingest, TypeInv, IdleLoop, watcher
<1>3. /\ Waiting(s)' = Waiting(s) /\ InHand(s) = {event.name} /\ InHand(s)' = {}
  BY <1>1, <1>2 DEF Waiting, InHand
<1>4. SourceInv(s)
  BY BySource
<1>5. /\ event.name \in seen[s] /\ event.name \notin Waiting(s) /\ Home[event.name] = s
      /\ StoredFor(event)
  BY <1>1, <1>3, <1>4 DEF SourceInv, WatcherInv
<1>6. \/ registered' = [registered EXCEPT ![event.name] = event.content] /\ UNCHANGED failed
      \/ failed' = failed \cup {event.name} /\ UNCHANGED registered
  BY DEF Ingest
<1> HIDE DEF event
<1>7. /\ \A m \in Names : registered[m] # Absent => registered'[m] # Absent
      /\ failed \subseteq failed' /\ failed' \subseteq failed \cup {event.name}
      /\ registered'[event.name] # Absent \/ event.name \in failed'
  BY <1>1, <1>6 DEF TypeInv
<1>8. LegacyIsReadable'
  <2>1. \A m \in Names : registered'[m] = "legacy" =>
          registered[m] = "legacy" \/ (m = event.name /\ event.content = "legacy")
    BY <1>1, <1>6 DEF TypeInv
  <2> QED BY <1>2, <1>5, <2>1 DEF AccountInv, LegacyIsReadable, StoredFor
<1>9. WatcherInv(s)'
  BY <1>2, <1>3, <1>4 DEF SourceInv, WatcherInv, StoredFor
<1>10. SourceInv(s)'
  <2>1. seen[s] \subseteq Names
    BY DEF TypeInv
  <2> QED BY <1>2, <1>3, <1>4, <1>5, <1>7, <1>9, <2>1 DEF SourceInv
<1> QED BY <1>2, <1>5, <1>7, <1>8, <1>10, OnlySource

\* A restart forgets what was consumed, and keeps what was stored.
LEMMA RestartAccount ==
  ASSUME AccountInv, Restart
  PROVE  AccountInv'
<1>1. ASSUME NEW s \in Sources PROVE SourceInv(s)'
  <2>1. seen'[s] = {} /\ pending'[s] = <<>> /\ loop'[s] = IdleLoop /\ failed' = {}
    BY DEF Restart
  <2>2. /\ DOMAIN pending'[s] = {} /\ Waiting(s)' = {} /\ InHand(s)' = {}
        /\ loop'[s].fresh = {} /\ loop'[s].pc = "ready"
    BY <2>1 DEF Waiting, NamesIn, InHand, IdleLoop
  <2> QED BY <2>1, <2>2 DEF SourceInv, WatcherInv, Distinct
<1>2. LegacyIsReadable' /\ FailedWasSeen'
  BY DEF Restart, AccountInv, LegacyIsReadable, FailedWasSeen
<1>3. (LegacyIsReadable /\ FailedWasSeen /\ \A r \in Sources : SourceInv(r))' => AccountInv'
  BY DEF AccountInv, NothingVanishes, AnnouncedOnce, FailedWasSeen, SourceInv
<1> QED BY <1>1, <1>2, <1>3

LEMMA NextAccount == TypeInv /\ AccountInv /\ [Next]_vars => AccountInv'
<1> SUFFICES ASSUME TypeInv, AccountInv, [Next]_vars PROVE AccountInv'
  OBVIOUS
<1>1. CASE UNCHANGED vars
  BY <1>1, Unaffected DEF vars
<1>2. ASSUME NEW s \in Sources, ReadNext(s) PROVE AccountInv'
  BY <1>2, QueueAccount, RefuseAccount DEF ReadNext
<1> QED BY <1>1, <1>2, OutsideAccount, WakeAccount, PopAccount, ListAccount, IngestAccount,
           RestartAccount DEF Next, Watch

\* The account is kept, whatever the files and the failures do.
THEOREM AccountKept == Spec => []AccountInv
BY InitType, NextType, InitAccount, NextAccount, PTL DEF Spec

\* A manifest that was consumed waits, is being ingested, is registered, or
\* is on record as failed.
THEOREM NothingIsLost == Spec => []NothingVanishes
<1>1. AccountInv => NothingVanishes
  BY DEF AccountInv
<1> QED BY <1>1, AccountKept, PTL

\* In one run of the server a manifest is announced once, and nothing that
\* failed is read or announced again.
THEOREM AnnouncementsOnce == Spec => []AnnouncedOnce
<1>1. AccountInv => AnnouncedOnce
  BY DEF AccountInv
<1> QED BY <1>1, AccountKept, PTL

\* A legacy granule is never registered before its virtual manifest is
\* stored, across deaths and restarts too.
THEOREM LegacyRegisteredReadable == Spec => []LegacyIsReadable
<1>1. AccountInv => LegacyIsReadable
  BY DEF AccountInv
<1> QED BY <1>1, AccountKept, PTL

==============================================================================
