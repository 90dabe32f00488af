---------------------------- MODULE SourceBusProofs ----------------------------
(* Proofs about SourceBus, for any number of sources, renders and subscribers, *)
(* any capacity of the ring, any window of the throttle and any bounds; and    *)
(* about StacFetch, for any commands, files, lists of hosts and answers.       *)
EXTENDS SourceBus, StacFetch, Passes, SequenceTheorems, FiniteSetTheorems, TLAPS

Recorded == [source : SourceIds, at : Nat, kind : EventKinds, detail : Nat]

Points == {"idle", "stamped", "send", "push", "probe", "done"}

Tasks == [pc : Points, event : Recorded \cup {None}, id : Nat, coalesced : Nat]

Streams == [joined : Nat, cursor : Nat, heard : Nat, missed : Nat]

\* A task that has observed something holds the event, which is its source's
\* and not of the future; an id is held by a task only while it is to be sent.
TaskHolds(p) ==
  /\ task[p].pc \in {"stamped", "send", "push"} =>
       task[p].event \in Recorded /\ task[p].event.source = p[1] /\ task[p].event.at <= clock
  /\ task[p].pc = "send" => task[p].id < nextId

\* What BusTypeInv needs to be inductive: the whole of what tasks, renders and
\* streams hold.
BusTypes ==
  /\ clock \in Nat /\ resolves \subseteq Credentialed
  /\ task \in [Procs -> Tasks]
  /\ \A p \in Procs : TaskHolds(p)
  /\ throttle \in [SourceIds -> [last : Nat, suppressed : Nat] \cup {None}]
  /\ bus \in Seq(Messages) /\ log \in Seq(Recorded)
  /\ render \in [Renders -> Nat \cup {None}]
  /\ \A r \in Renders : render[r] # None => render[r] < nextId
  /\ stream \in [Subscribers -> Streams \cup {None}]

BusInv == BusTypeInv /\ BusTypes

------------------------------------------------------------------------------
(* Helpers *)

LEMMA ProcSource ==
  ASSUME NEW p \in Procs
  PROVE  p[1] \in SourceIds /\ p # None
BY NoneAssumption DEF Procs

LEMMA KindsKnown ==
  {"started", "ingested", "polled", "failed", "credential_resolved", "credential_missing"}
    \subseteq EventKinds
BY DEF EventKinds

LEMMA MessageType ==
  ASSUME NEW p \in Procs, NEW t \in Tasks, t.event \in Recorded
  PROVE  Message(t) \in Messages /\ Message(t).id = t.id
         /\ Message(t).source = t.event.source /\ Message(t).coalesced = t.coalesced
         /\ Message(t).kind = WireName(t.event.kind) /\ Message(t).at = t.event.at
<1>1. t.event.kind \in EventKinds /\ t.event.source \in SourceIds /\ t.event.at \in Nat
  BY DEF Recorded
<1>2. t.id \in Nat /\ t.coalesced \in Nat
  BY DEF Tasks
<1>3. WireName(t.event.kind) \in {"trace"} \cup {WireName(k) : k \in EventKinds}
  BY <1>1
<1> QED BY <1>1, <1>2, <1>3 DEF Message, Messages

LEMMA TraceType ==
  ASSUME NEW i \in Nat, clock \in Nat
  PROVE  Trace(i) \in Messages /\ Trace(i).id = i /\ Trace(i).source = None
BY DEF Trace, Messages

------------------------------------------------------------------------------
(* Types *)

LEMMA InitTypes == BusInit => BusInv
<1> SUFFICES ASSUME BusInit PROVE BusInv
  OBVIOUS
<1> USE DEF BusInit
<1>1. [pc |-> "idle", event |-> None, id |-> 0, coalesced |-> 0] \in Tasks
  BY DEF Tasks, Points
<1>2. task \in [Procs -> Tasks] /\ \A p \in Procs : task[p].pc = "idle"
  BY <1>1
<1>3. BusTypes
  BY <1>2 DEF BusTypes, TaskHolds
<1>4. BusTypeInv
  <2>1. \A p \in Procs : holder # p
    BY ProcSource
  <2>2. clock \in 0..MaxClock
    BY SourceBusAssumption
  <2>3. DOMAIN bus = {} /\ DOMAIN log = {}
    OBVIOUS
  <2> QED BY <1>2, <2>1, <2>2, <2>3 DEF BusTypeInv
<1> QED BY <1>3, <1>4 DEF BusInv

\* An event is stamped.
LEMMA ObserveTypes ==
  ASSUME BusInv, NEW p \in Procs, NEW kind \in EventKinds, NEW detail \in Nat,
         task[p].pc \notin {"stamped", "send", "push"}, Observe(p, kind, detail)
  PROVE  BusInv'
<1> DEFINE e == [source |-> p[1], at |-> clock, kind |-> kind, detail |-> detail]
           t == [pc |-> "stamped", id |-> 0, coalesced |-> 0, event |-> e]
<1>1. /\ task' = [task EXCEPT ![p] = t]
      /\ UNCHANGED <<clock, resolves, holder, throttle, nextId, bus, log, render, stream>>
  BY DEF Observe
<1>2. e \in Recorded /\ e.source = p[1] /\ e.at = clock
  BY ProcSource DEF Recorded, BusInv, BusTypes
<1>3. t \in Tasks /\ t.pc = "stamped" /\ t.event = e
  BY <1>2 DEF Tasks, Points
<1> HIDE DEF t, e
<1>4. task' \in [Procs -> Tasks] /\ task'[p] = t /\ \A q \in Procs : q # p => task'[q] = task[q]
  BY <1>1, <1>3 DEF BusInv, BusTypes
<1>5. \A q \in Procs : TaskHolds(q)'
  <2> TAKE q \in Procs
  <2>1. CASE q = p
    BY <1>1, <1>2, <1>3, <1>4, <2>1 DEF TaskHolds, BusInv, BusTypes
  <2>2. CASE q # p
    BY <1>1, <1>4, <2>2 DEF TaskHolds, BusInv, BusTypes
  <2> QED BY <2>1, <2>2
<1>6. BusTypes'
  BY <1>1, <1>4, <1>5 DEF BusInv, BusTypes, Messages
<1>7. BusTypeInv'
  <2>1. \A q \in Procs : task'[q].pc \in Points /\ (task'[q].pc = "send" <=> holder' = q)
    BY <1>1, <1>3, <1>4 DEF BusInv, BusTypeInv, Points
  <2> QED BY <1>1, <2>1 DEF BusInv, BusTypeInv, Points, Messages
<1> QED BY <1>6, <1>7 DEF BusInv

\* What a step of one task keeps: of the task, only what it becomes is to be
\* shown, and whether it is the one that holds the mutex.
LEMMA TaskTypes ==
  ASSUME BusInv, NEW p \in Procs, NEW t \in Tasks, task' = [task EXCEPT ![p] = t],
         UNCHANGED clock, nextId' \in Nat, nextId <= nextId',
         t.pc \in {"stamped", "send", "push"} =>
           t.event \in Recorded /\ t.event.source = p[1] /\ t.event.at <= clock,
         t.pc = "send" => t.id < nextId',
         t.pc = "send" <=> holder' = p,
         \A q \in Procs \ {p} : holder' = q <=> holder = q
  PROVE  /\ task' \in [Procs -> Tasks]
         /\ \A q \in Procs : TaskHolds(q)'
         /\ \A q \in Procs : task'[q].pc \in Points /\ (task'[q].pc = "send" <=> holder' = q)
<1>1. task' \in [Procs -> Tasks] /\ task'[p] = t /\ \A q \in Procs : q # p => task'[q] = task[q]
  BY DEF BusInv, BusTypes
<1>2. \A q \in Procs : task[q].pc = "send" => task[q].id \in Nat
  BY DEF BusInv, BusTypes, Tasks
<1>3. \A q \in Procs : TaskHolds(q)'
  <2> TAKE q \in Procs
  <2>1. CASE q = p
    BY <1>1, <2>1 DEF TaskHolds
  <2>2. CASE q # p
    BY <1>1, <1>2, <2>2 DEF TaskHolds, BusInv, BusTypes, BusTypeInv
  <2> QED BY <2>1, <2>2
<1>4. \A q \in Procs : task'[q].pc \in Points /\ (task'[q].pc = "send" <=> holder' = q)
  <2> TAKE q \in Procs
  <2>1. CASE q = p
    BY <1>1, <2>1 DEF Tasks
  <2>2. CASE q # p
    BY <1>1, <2>2 DEF BusInv, BusTypeInv, Points
  <2> QED BY <2>1, <2>2
<1> QED BY <1>1, <1>3, <1>4

LEMMA AdmitTypes ==
  ASSUME BusInv, NEW p \in Procs, task[p].pc = "stamped", holder = None, Admit(p)
  PROVE  BusInv'
<1> DEFINE s == p[1]
           n == IF throttle[s] = None THEN 0 ELSE throttle[s].suppressed
           t == [task[p] EXCEPT !.pc = "send", !.id = nextId, !.coalesced = n]
<1>1. /\ throttle' = [throttle EXCEPT ![s] = [last |-> clock, suppressed |-> 0]]
      /\ task' = [task EXCEPT ![p] = t]
      /\ nextId' = nextId + 1 /\ holder' = p
      /\ UNCHANGED <<clock, resolves, bus, log, render, stream>>
  BY DEF Admit
<1>2. s \in SourceIds /\ p # None /\ n \in Nat /\ nextId \in Nat
  BY ProcSource DEF BusInv, BusTypes, BusTypeInv
<1>3. task[p] \in Tasks /\ task[p].event \in Recorded
      /\ task[p].event.source = p[1] /\ task[p].event.at <= clock
  BY DEF BusInv, BusTypes, TaskHolds
<1> HIDE DEF n
<1>4. t \in Tasks /\ t.pc = "send" /\ t.id = nextId /\ t.event = task[p].event
  BY <1>2, <1>3 DEF Tasks, Points
<1> HIDE DEF t
<1>5. \A q \in Procs \ {p} : holder' = q <=> holder = q
  BY <1>1, ProcSource
<1>6. /\ task' \in [Procs -> Tasks]
      /\ \A q \in Procs : TaskHolds(q)'
      /\ \A q \in Procs : task'[q].pc \in Points /\ (task'[q].pc = "send" <=> holder' = q)
  <2>1. UNCHANGED clock /\ nextId' \in Nat /\ nextId <= nextId'
    BY <1>1, <1>2
  <2>2. t.pc = "send" => t.id < nextId'
    BY <1>1, <1>2, <1>4
  <2> QED BY <1>1, <1>3, <1>4, <1>5, <2>1, <2>2, TaskTypes
<1>7. /\ throttle' \in [SourceIds -> [last : Nat, suppressed : Nat] \cup {None}]
      /\ \A r \in SourceIds : throttle'[r] # None =>
            throttle'[r].last \in 0..clock /\ throttle'[r].suppressed \in Nat
  <2>1. clock \in Nat
    BY DEF BusInv, BusTypes
  <2>2. [last |-> clock, suppressed |-> 0] \in [last : Nat, suppressed : Nat]
    BY <2>1
  <2> QED BY <1>1, <1>2, <2>1, <2>2 DEF BusInv, BusTypes, BusTypeInv
<1>8. BusTypes'
  BY <1>1, <1>2, <1>6, <1>7 DEF BusInv, BusTypes, Messages
<1>9. BusTypeInv'
  BY <1>1, <1>2, <1>6, <1>7 DEF BusInv, BusTypeInv, BusTypes, Points, Messages
<1> QED BY <1>8, <1>9 DEF BusInv

LEMMA SuppressTypes ==
  ASSUME BusInv, NEW p \in Procs, task[p].pc = "stamped", holder = None,
         throttle[p[1]] # None, Suppress(p)
  PROVE  BusInv'
<1> DEFINE s == p[1]
           t == [task[p] EXCEPT !.pc = "push"]
<1>1. /\ throttle' = [throttle EXCEPT ![s].suppressed = @ + 1]
      /\ task' = [task EXCEPT ![p] = t]
      /\ UNCHANGED <<clock, resolves, holder, nextId, bus, log, render, stream>>
  BY DEF Suppress
<1>2. s \in SourceIds /\ p # None
  BY ProcSource
<1>3. task[p] \in Tasks /\ task[p].event \in Recorded
      /\ task[p].event.source = p[1] /\ task[p].event.at <= clock
  BY DEF BusInv, BusTypes, TaskHolds
<1>4. t \in Tasks /\ t.pc = "push" /\ t.event = task[p].event
  BY <1>3 DEF Tasks, Points
<1> HIDE DEF t
<1>5. /\ task' \in [Procs -> Tasks]
      /\ \A q \in Procs : TaskHolds(q)'
      /\ \A q \in Procs : task'[q].pc \in Points /\ (task'[q].pc = "send" <=> holder' = q)
  <2>1. UNCHANGED clock /\ nextId' \in Nat /\ nextId <= nextId' /\ UNCHANGED holder
    BY <1>1 DEF BusInv, BusTypeInv
  <2>2. \A q \in Procs \ {p} : holder' = q <=> holder = q
    BY <2>1
  <2>3. t.pc = "send" <=> holder' = p
    BY <1>2, <1>4, <2>1
  <2> QED BY <1>1, <1>3, <1>4, <2>1, <2>2, <2>3, TaskTypes
<1>6. /\ throttle' \in [SourceIds -> [last : Nat, suppressed : Nat] \cup {None}]
      /\ \A r \in SourceIds : throttle'[r] # None =>
            throttle'[r].last \in 0..clock /\ throttle'[r].suppressed \in Nat
  <2>1. throttle[s] \in [last : Nat, suppressed : Nat]
    BY <1>2 DEF BusInv, BusTypes
  <2> QED BY <1>1, <1>2, <2>1 DEF BusInv, BusTypes, BusTypeInv
<1>7. BusTypes'
  BY <1>1, <1>5, <1>6 DEF BusInv, BusTypes, Messages
<1>8. BusTypeInv'
  BY <1>1, <1>5, <1>6 DEF BusInv, BusTypeInv, BusTypes, Points, Messages
<1> QED BY <1>7, <1>8 DEF BusInv

LEMMA PublishTypes ==
  ASSUME BusInv, NEW p \in Procs, Publish(p)
  PROVE  BusInv'
<1>1. task[p].pc = "stamped" /\ holder = None
  BY DEF Publish
<1>2. CASE TooSoon(task[p].event.kind, throttle[p[1]])
  BY <1>1, <1>2, SuppressTypes DEF Publish, TooSoon
<1>3. CASE ~TooSoon(task[p].event.kind, throttle[p[1]])
  BY <1>1, <1>3, AdmitTypes DEF Publish
<1> QED BY <1>2, <1>3

\* What is appended to the bus has taken its id, and streams stay within it.
LEMMA AppendTypes ==
  ASSUME BusInv, NEW m \in Messages, m.id < nextId', nextId <= nextId', nextId' \in Nat,
         bus' = Append(bus, m), UNCHANGED stream
  PROVE  /\ bus' \in Seq(Messages) /\ Len(bus') = Len(bus) + 1
         /\ DOMAIN bus' = DOMAIN bus \cup {Len(bus) + 1} /\ Len(bus) + 1 \notin DOMAIN bus
         /\ bus'[Len(bus) + 1] = m /\ \A i \in DOMAIN bus : bus'[i] = bus[i]
         /\ \A i \in DOMAIN bus' : bus'[i] \in Messages /\ bus'[i].id < nextId'
         /\ \A c \in Subscribers :
              stream'[c] # None => stream'[c].cursor \in stream'[c].joined..Len(bus')
<1>1. /\ bus' \in Seq(Messages) /\ Len(bus') = Len(bus) + 1 /\ Len(bus) \in Nat
      /\ DOMAIN bus = 1..Len(bus) /\ DOMAIN bus' = 1..(Len(bus) + 1)
      /\ bus'[Len(bus) + 1] = m /\ \A i \in 1..Len(bus) : bus'[i] = bus[i]
  BY DEF BusInv, BusTypes
<1>2. DOMAIN bus' = DOMAIN bus \cup {Len(bus) + 1} /\ Len(bus) + 1 \notin DOMAIN bus
  BY <1>1
<1>3. ASSUME NEW i \in DOMAIN bus' PROVE bus'[i] \in Messages /\ bus'[i].id < nextId'
  <2>1. CASE i \in DOMAIN bus
    <3>1. bus[i] \in Messages /\ bus[i].id < nextId /\ bus[i].id \in Nat /\ bus'[i] = bus[i]
      BY <1>1, <2>1 DEF BusInv, BusTypeInv, Messages
    <3> QED BY <3>1 DEF BusInv, BusTypeInv
  <2>2. CASE i = Len(bus) + 1
    BY <1>1, <2>2
  <2> QED BY <1>2, <2>1, <2>2
<1>4. ASSUME NEW c \in Subscribers, stream'[c] # None
      PROVE  stream'[c].cursor \in stream'[c].joined..Len(bus')
  BY <1>1, <1>4 DEF BusInv, BusTypeInv, BusTypes
<1> QED BY <1>1, <1>2, <1>3, <1>4

LEMMA SendTypes ==
  ASSUME BusInv, NEW p \in Procs, Send(p)
  PROVE  BusInv'
<1> DEFINE t == [task[p] EXCEPT !.pc = "push"]
           m == Message(task[p])
<1>1. /\ task[p].pc = "send"
      /\ bus' = Append(bus, m)
      /\ task' = [task EXCEPT ![p] = t]
      /\ holder' = None
      /\ UNCHANGED <<clock, resolves, throttle, nextId, log, render, stream>>
  BY DEF Send
<1>2. holder = p /\ p # None /\ nextId \in Nat
  BY <1>1, ProcSource DEF BusInv, BusTypeInv
<1>3. task[p] \in Tasks /\ task[p].event \in Recorded /\ task[p].id < nextId
      /\ task[p].event.source = p[1] /\ task[p].event.at <= clock
  BY <1>1 DEF BusInv, BusTypes, TaskHolds
<1>4. t \in Tasks /\ t.pc = "push" /\ t.event = task[p].event
  BY <1>3 DEF Tasks, Points
<1> HIDE DEF t
<1>5. m \in Messages /\ m.id < nextId
  BY <1>3, MessageType
<1> HIDE DEF m
<1>6. /\ task' \in [Procs -> Tasks]
      /\ \A q \in Procs : TaskHolds(q)'
      /\ \A q \in Procs : task'[q].pc \in Points /\ (task'[q].pc = "send" <=> holder' = q)
  <2>1. UNCHANGED clock /\ nextId' \in Nat /\ nextId <= nextId'
    BY <1>1, <1>2
  <2>2. \A q \in Procs \ {p} : holder' = q <=> holder = q
    BY <1>1, <1>2, ProcSource
  <2>3. t.pc = "send" <=> holder' = p
    BY <1>1, <1>2, <1>4
  <2> QED BY <1>1, <1>3, <1>4, <2>1, <2>2, <2>3, TaskTypes
<1>7. /\ bus' \in Seq(Messages)
      /\ \A i \in DOMAIN bus' : bus'[i] \in Messages /\ bus'[i].id < nextId'
      /\ \A c \in Subscribers :
           stream'[c] # None => stream'[c].cursor \in stream'[c].joined..Len(bus')
  BY <1>1, <1>2, <1>5, AppendTypes
<1>8. BusTypes'
  BY <1>1, <1>6, <1>7 DEF BusInv, BusTypes, Messages
<1>9. BusTypeInv'
  BY <1>1, <1>6, <1>7 DEF BusInv, BusTypeInv, BusTypes, Points, Messages
<1> QED BY <1>8, <1>9 DEF BusInv

LEMMA PushTypes ==
  ASSUME BusInv, NEW p \in Procs, Push(p)
  PROVE  BusInv'
<1> DEFINE next == IF p[2] = "boot" THEN "done"
                   ELSE IF task[p].event.kind \in {"credential_resolved", "credential_missing"}
                        THEN "probe" ELSE "idle"
           t == [task[p] EXCEPT !.pc = next]
<1>1. /\ task[p].pc = "push"
      /\ log' = Append(log, task[p].event)
      /\ task' = [task EXCEPT ![p] = t]
      /\ UNCHANGED <<clock, resolves, holder, throttle, nextId, bus, render, stream>>
  BY DEF Push
<1>2. task[p] \in Tasks /\ task[p].event \in Recorded
      /\ task[p].event.source = p[1] /\ task[p].event.at <= clock
  BY <1>1 DEF BusInv, BusTypes, TaskHolds
<1>3. next \in {"done", "probe", "idle"}
  OBVIOUS
<1> HIDE DEF next
<1>4. t \in Tasks /\ t.pc \in {"done", "probe", "idle"}
  BY <1>2, <1>3 DEF Tasks, Points
<1> HIDE DEF t
<1>5. holder # p
  BY <1>1 DEF BusInv, BusTypeInv
<1>6. /\ task' \in [Procs -> Tasks]
      /\ \A q \in Procs : TaskHolds(q)'
      /\ \A q \in Procs : task'[q].pc \in Points /\ (task'[q].pc = "send" <=> holder' = q)
  <2>1. UNCHANGED clock /\ nextId' \in Nat /\ nextId <= nextId' /\ UNCHANGED holder
    BY <1>1 DEF BusInv, BusTypeInv
  <2>2. \A q \in Procs \ {p} : holder' = q <=> holder = q
    BY <2>1
  <2>3. ~(t.pc = "send") /\ holder' # p
    BY <1>4, <1>5, <2>1
  <2>4. ~(t.pc \in {"stamped", "send", "push"})
    BY <1>4
  <2> QED BY <1>1, <1>4, <2>1, <2>2, <2>3, <2>4, TaskTypes
<1>7. /\ log' \in Seq(Recorded)
      /\ \A i \in DOMAIN log' : log'[i].source \in SourceIds /\ log'[i].at \in 0..clock
  <2>1. task[p].event.source \in SourceIds /\ task[p].event.at \in 0..clock
    BY <1>2, ProcSource DEF BusInv, BusTypes, Recorded
  <2>2. /\ log' \in Seq(Recorded) /\ Len(log) \in Nat
        /\ DOMAIN log = 1..Len(log) /\ DOMAIN log' = 1..(Len(log) + 1)
        /\ log'[Len(log) + 1] = task[p].event /\ \A i \in 1..Len(log) : log'[i] = log[i]
    BY <1>1, <1>2 DEF BusInv, BusTypes
  <2> QED BY <2>1, <2>2 DEF BusInv, BusTypeInv
<1>8. BusTypes'
  BY <1>1, <1>6, <1>7 DEF BusInv, BusTypes, Messages
<1>9. BusTypeInv'
  BY <1>1, <1>6, <1>7 DEF BusInv, BusTypeInv, BusTypes, Points, Messages
<1> QED BY <1>8, <1>9 DEF BusInv

\* Steps of renders, of subscribers and of the clock leave every task as it is.
LEMMA TasksKept ==
  ASSUME BusInv, UNCHANGED <<task, holder>>, clock <= clock', clock' \in Nat,
         nextId <= nextId', nextId' \in Nat
  PROVE  /\ task' \in [Procs -> Tasks]
         /\ \A q \in Procs : TaskHolds(q)'
         /\ \A q \in Procs : task'[q].pc \in Points /\ (task'[q].pc = "send" <=> holder' = q)
<1>1. task \in [Procs -> Tasks] /\ clock \in Nat /\ nextId \in Nat
  BY DEF BusInv, BusTypes, BusTypeInv
<1>2. ASSUME NEW q \in Procs PROVE TaskHolds(q)'
  <2>1. task[q] \in Tasks /\ TaskHolds(q)
    BY <1>1 DEF BusInv, BusTypes
  <2>2. task[q].event \in Recorded => task[q].event.at \in Nat
    BY DEF Recorded
  <2>3. task[q].id \in Nat
    BY <2>1 DEF Tasks
  <2> QED BY <1>1, <2>1, <2>2, <2>3 DEF TaskHolds
<1> QED BY <1>1, <1>2 DEF BusInv, BusTypeInv, Points

LEMMA RenderTypes ==
  ASSUME BusInv, NEW r \in Renders, TakeId(r) \/ SendTrace(r)
  PROVE  BusInv'
<1>0. nextId \in Nat /\ clock \in Nat /\ task \in [Procs -> Tasks]
  BY DEF BusInv, BusTypes, BusTypeInv
<1>1. CASE TakeId(r)
  <2>1. /\ render' = [render EXCEPT ![r] = nextId] /\ nextId' = nextId + 1
        /\ UNCHANGED <<clock, resolves, task, holder, throttle, bus, log, stream>>
    BY <1>1 DEF TakeId
  <2>2. /\ task' \in [Procs -> Tasks]
        /\ \A q \in Procs : TaskHolds(q)'
        /\ \A q \in Procs : task'[q].pc \in Points /\ (task'[q].pc = "send" <=> holder' = q)
    BY <1>0, <2>1, TasksKept
  <2>3. /\ render' \in [Renders -> Nat \cup {None}]
        /\ \A q \in Renders : render'[q] # None => render'[q] < nextId'
    BY <1>0, <2>1 DEF BusInv, BusTypes
  <2>4. BusTypes'
    BY <1>0, <2>1, <2>2, <2>3 DEF BusInv, BusTypes, Messages
  <2>5. BusTypeInv'
    <3>1. \A i \in DOMAIN bus' : bus'[i] \in Messages /\ bus'[i].id < nextId'
      BY <1>0, <2>1 DEF BusInv, BusTypeInv, Messages
    <3> QED BY <1>0, <2>1, <2>2, <3>1 DEF BusInv, BusTypeInv, BusTypes, Points, Messages
  <2> QED BY <2>4, <2>5 DEF BusInv
<1>2. CASE SendTrace(r)
  <2>1. /\ render[r] # None /\ bus' = Append(bus, Trace(render[r]))
        /\ render' = [render EXCEPT ![r] = None]
        /\ UNCHANGED <<clock, resolves, task, holder, throttle, nextId, log, stream>>
    BY <1>2 DEF SendTrace
  <2>2. render[r] \in Nat /\ render[r] < nextId
    BY <2>1 DEF BusInv, BusTypes
  <2>3. Trace(render[r]) \in Messages /\ Trace(render[r]).id < nextId
    BY <1>0, <2>2, TraceType
  <2>4. /\ bus' \in Seq(Messages)
        /\ \A i \in DOMAIN bus' : bus'[i] \in Messages /\ bus'[i].id < nextId'
        /\ \A c \in Subscribers :
             stream'[c] # None => stream'[c].cursor \in stream'[c].joined..Len(bus')
    BY <1>0, <2>1, <2>3, AppendTypes
  <2>5. /\ render' \in [Renders -> Nat \cup {None}]
        /\ \A q \in Renders : render'[q] # None => render'[q] < nextId'
    BY <2>1 DEF BusInv, BusTypes
  <2>6. /\ task' \in [Procs -> Tasks]
        /\ \A q \in Procs : TaskHolds(q)'
        /\ \A q \in Procs : task'[q].pc \in Points /\ (task'[q].pc = "send" <=> holder' = q)
    BY <1>0, <2>1, TasksKept
  <2>7. BusTypes'
    BY <2>1, <2>4, <2>5, <2>6 DEF BusInv, BusTypes, Messages
  <2>8. BusTypeInv'
    BY <2>1, <2>4, <2>6 DEF BusInv, BusTypeInv, BusTypes, Points, Messages
  <2> QED BY <2>7, <2>8 DEF BusInv
<1> QED BY <1>1, <1>2

\* What a subscriber's read makes of its stream.
LEMMA LaggedType ==
  ASSUME NEW t \in Streams, Len(bus) \in Nat, Len(bus) - t.cursor > Capacity
  PROVE  /\ Lagged(t) \in Streams
         /\ Lagged(t).cursor = Len(bus) - Capacity
         /\ Lagged(t).missed = t.missed + (Lagged(t).cursor - t.cursor)
         /\ Lagged(t).joined = t.joined /\ Lagged(t).heard = t.heard
         /\ Lagged(t).cursor >= t.cursor /\ Lagged(t).cursor <= Len(bus)
<1> DEFINE n == Len(bus) - Capacity - t.cursor
<1>1. t \in [joined : Nat, cursor : Nat, heard : Nat, missed : Nat]
  BY DEF Streams
<1>2. Capacity \in Nat /\ n \in Nat /\ n > 0 /\ t.cursor + n = Len(bus) - Capacity
  BY <1>1, SourceBusAssumption
<1>3. Lagged(t) = [t EXCEPT !.cursor = t.cursor + n, !.missed = t.missed + n]
  BY Zenon DEF Lagged
<1> HIDE DEF n
<1>4. Lagged(t) = [joined |-> t.joined, cursor |-> t.cursor + n, heard |-> t.heard,
                   missed |-> t.missed + n]
  BY <1>1, <1>3
<1> QED BY <1>1, <1>2, <1>4 DEF Streams

LEMMA HeardType ==
  ASSUME NEW t \in Streams
  PROVE  /\ Heard(t) \in Streams
         /\ Heard(t).cursor = t.cursor + 1 /\ Heard(t).heard = t.heard + 1
         /\ Heard(t).joined = t.joined /\ Heard(t).missed = t.missed
<1>1. t \in [joined : Nat, cursor : Nat, heard : Nat, missed : Nat]
  BY DEF Streams
<1> DEFINE n == t.cursor + 1  h == t.heard + 1
<1>0. Heard(t) = [t EXCEPT !.cursor = n, !.heard = h]
  BY Zenon DEF Heard
<1> HIDE DEF n, h
<1>2. Heard(t) = [joined |-> t.joined, cursor |-> n, heard |-> h, missed |-> t.missed]
  BY <1>0, <1>1
<1> USE DEF n, h
<1> QED BY <1>1, <1>2 DEF Streams

LEMMA SubscriberTypes ==
  ASSUME BusInv, NEW c \in Subscribers, Subscribe(c) \/ Recv(c) \/ Disconnect(c)
  PROVE  BusInv'
<1>1. UNCHANGED <<clock, resolves, task, holder, throttle, nextId, bus, log, render>>
  BY DEF Subscribe, Recv, Disconnect
<1>2. Len(bus) \in Nat /\ stream \in [Subscribers -> Streams \cup {None}]
  BY DEF BusInv, BusTypes
<1>3. \E t \in Streams \cup {None} :
         /\ stream' = [stream EXCEPT ![c] = t]
         /\ t # None => t.cursor \in t.joined..Len(bus)
  <2>1. CASE Subscribe(c)
    <3>1. stream' = [stream EXCEPT ![c] =
             [joined |-> Len(bus), cursor |-> Len(bus), heard |-> 0, missed |-> 0]]
      BY <2>1 DEF Subscribe
    <3> DEFINE t == [joined |-> Len(bus), cursor |-> Len(bus), heard |-> 0, missed |-> 0]
    <3>2. t \in Streams /\ t.cursor \in t.joined..Len(bus)
      BY <1>2 DEF Streams
    <3>3. stream' = [stream EXCEPT ![c] = t]
      BY <3>1
    <3> HIDE DEF t
    <3> QED BY <3>2, <3>3
  <2>2. CASE Recv(c)
    <3> DEFINE old == stream[c]
    <3>0. stream' = [stream EXCEPT ![c] =
             IF Len(bus) - old.cursor > Capacity THEN Lagged(old) ELSE Heard(old)]
      BY <2>2 DEF Recv
    <3>1. old \in Streams /\ old.cursor < Len(bus) /\ old.cursor \in old.joined..Len(bus)
      BY <1>2, <2>2 DEF Recv, BusInv, BusTypeInv
    <3> HIDE DEF old
    <3>2. CASE Len(bus) - old.cursor > Capacity
      <4> DEFINE t == Lagged(old)
      <4>1. stream' = [stream EXCEPT ![c] = t]
        BY <3>0, <3>2
      <4>2. /\ t \in Streams /\ t.joined = old.joined
            /\ t.cursor >= old.cursor /\ t.cursor <= Len(bus)
        BY <1>2, <3>1, <3>2, LaggedType
      <4> HIDE DEF t
      <4>3. t.cursor \in t.joined..Len(bus)
        BY <1>2, <3>1, <4>2 DEF Streams
      <4> QED BY <4>1, <4>2, <4>3
    <3>3. CASE ~(Len(bus) - old.cursor > Capacity)
      <4> DEFINE t == Heard(old)
      <4>1. stream' = [stream EXCEPT ![c] = t]
        BY <3>0, <3>3
      <4>2. t \in Streams /\ t.joined = old.joined /\ t.cursor = old.cursor + 1
        BY <3>1, HeardType
      <4> HIDE DEF t
      <4>3. t.cursor \in t.joined..Len(bus)
        BY <1>2, <3>1, <4>2 DEF Streams
      <4> QED BY <4>1, <4>2, <4>3
    <3> QED BY <3>2, <3>3
  <2>3. CASE Disconnect(c)
    BY <2>3 DEF Disconnect
  <2> QED BY <2>1, <2>2, <2>3
<1>4. /\ stream' \in [Subscribers -> Streams \cup {None}]
      /\ \A d \in Subscribers : stream'[d] # None =>
           stream'[d].cursor \in stream'[d].joined..Len(bus)
  BY <1>2, <1>3 DEF BusInv, BusTypeInv
<1>5. BusTypes'
  BY <1>1, <1>4 DEF BusInv, BusTypes, TaskHolds, Messages
<1>6. BusTypeInv'
  BY <1>1, <1>4 DEF BusInv, BusTypeInv, Messages
<1> QED BY <1>5, <1>6 DEF BusInv

LEMMA TickTypes == BusInv /\ Tick => BusInv'
<1> SUFFICES ASSUME BusInv, Tick PROVE BusInv'
  OBVIOUS
<1>1. /\ clock' = clock + 1 /\ clock < MaxClock
      /\ UNCHANGED <<resolves, task, holder, throttle, nextId, bus, log, render, stream>>
  BY DEF Tick
<1>2. clock \in Nat /\ nextId \in Nat
  BY DEF BusInv, BusTypes, BusTypeInv
<1>3. /\ task' \in [Procs -> Tasks]
      /\ \A q \in Procs : TaskHolds(q)'
      /\ \A q \in Procs : task'[q].pc \in Points /\ (task'[q].pc = "send" <=> holder' = q)
  BY <1>1, <1>2, TasksKept
<1>4. BusTypes'
  BY <1>1, <1>2, <1>3 DEF BusInv, BusTypes, Messages
<1>5. BusTypeInv'
  <2>1. clock' \in 0..MaxClock /\ 0..clock \subseteq 0..clock'
    BY <1>1, <1>2, SourceBusAssumption
  <2> QED BY <1>1, <1>2, <1>3, <2>1 DEF BusInv, BusTypeInv, Points, Messages
<1> QED BY <1>4, <1>5 DEF BusInv

\* The events that tasks record: each of a kind the registry knows, by a task
\* that holds none.
LEMMA ObservedTypes ==
  ASSUME BusInv, NEW s \in SourceIds, Start(s) \/ IngestLoop(s) \/ CheckCredential(s) \/ Probe(s)
  PROVE  BusInv'
<1>1. CASE Start(s)
  <2>1. <<s, "boot">> \in Procs /\ task[<<s, "boot">>].pc = "idle"
        /\ Observe(<<s, "boot">>, "started", 0)
    BY <1>1 DEF Start, Procs
  <2> QED BY <2>1, KindsKnown, ObserveTypes
<1>2. CASE IngestLoop(s)
  <2>1. <<s, "ingest">> \in Procs /\ task[<<s, "ingest">>].pc = "idle"
        /\ \/ Observe(<<s, "ingest">>, "ingested", 0)
           \/ Observe(<<s, "ingest">>, "failed", 1)
    BY <1>2 DEF IngestLoop, Procs
  <2> QED BY <2>1, KindsKnown, ObserveTypes
<1>3. CASE CheckCredential(s)
  <2> DEFINE kind == IF s \in resolves THEN "credential_resolved" ELSE "credential_missing"
  <2>1. <<s, "probe">> \in Procs /\ task[<<s, "probe">>].pc = "idle"
        /\ Observe(<<s, "probe">>, kind, 0)
    BY <1>3 DEF CheckCredential, Procs
  <2>2. kind \in EventKinds
    BY KindsKnown
  <2> HIDE DEF kind
  <2> QED BY <2>1, <2>2, ObserveTypes
<1>4. CASE Probe(s)
  <2>1. <<s, "probe">> \in Procs /\ task[<<s, "probe">>].pc \in {"probe", "idle"}
        /\ \/ Observe(<<s, "probe">>, "polled", 0)
           \/ Observe(<<s, "probe">>, "failed", 2)
    BY <1>4 DEF Probe, Procs
  <2> QED BY <2>1, KindsKnown, ObserveTypes
<1> QED BY <1>1, <1>2, <1>3, <1>4

LEMMA NextTypes == BusInv /\ [BusNext]_busVars => BusInv'
<1> SUFFICES ASSUME BusInv, [BusNext]_busVars PROVE BusInv'
  OBVIOUS
<1>1. CASE \E s \in SourceIds : Start(s) \/ IngestLoop(s) \/ CheckCredential(s) \/ Probe(s)
  BY <1>1, ObservedTypes
<1>2. CASE \E p \in Procs : Publish(p) \/ Send(p) \/ Push(p)
  BY <1>2, PublishTypes, SendTypes, PushTypes
<1>3. CASE \E r \in Renders : TakeId(r) \/ SendTrace(r)
  BY <1>3, RenderTypes
<1>4. CASE \E c \in Subscribers : Subscribe(c) \/ Recv(c) \/ Disconnect(c)
  BY <1>4, SubscriberTypes
<1>5. CASE Tick
  BY <1>5, TickTypes
<1>6. CASE UNCHANGED busVars
  BY <1>6 DEF busVars, BusInv, BusTypes, BusTypeInv, TaskHolds, Messages
<1> QED BY <1>1, <1>2, <1>3, <1>4, <1>5, <1>6 DEF BusNext

\* Every variable keeps its type; and at most one task is between the
\* admission of an event and its sending, the one inside the mutex.
THEOREM SourceBusTypeCorrect == BusSpec => []BusTypeInv
<1>1. BusInv => BusTypeInv
  BY DEF BusInv
<1> QED BY <1>1, InitTypes, NextTypes, PTL DEF BusSpec

LEMMA TypesKept == BusSpec => []BusInv
BY InitTypes, NextTypes, PTL DEF BusSpec

------------------------------------------------------------------------------
(* Streams *)

LEMMA LossStep == BusInv /\ ToldOfLoss /\ [BusNext]_busVars => ToldOfLoss'
<1> SUFFICES ASSUME BusInv, ToldOfLoss, [BusNext]_busVars PROVE ToldOfLoss'
  OBVIOUS
<1>1. CASE UNCHANGED stream
  BY <1>1 DEF ToldOfLoss
<1>2. ASSUME NEW c \in Subscribers, Subscribe(c) \/ Recv(c) \/ Disconnect(c)
      PROVE  ToldOfLoss'
  <2>1. stream \in [Subscribers -> Streams \cup {None}] /\ Len(bus) \in Nat
    BY DEF BusInv, BusTypes
  <2> SUFFICES ASSUME NEW d \in Subscribers, stream'[d] # None
               PROVE  stream'[d].heard + stream'[d].missed = stream'[d].cursor - stream'[d].joined
    BY DEF ToldOfLoss
  <2>2. CASE d # c
    <3>1. stream'[d] = stream[d]
      BY <1>2, <2>1, <2>2 DEF Subscribe, Recv, Disconnect
    <3> QED BY <3>1 DEF ToldOfLoss
  <2>3. CASE d = c /\ Subscribe(c)
    <3>1. stream'[c] = [joined |-> Len(bus), cursor |-> Len(bus), heard |-> 0, missed |-> 0]
      BY <2>1, <2>3 DEF Subscribe
    <3> QED BY <2>1, <2>3, <3>1
  <2>4. CASE d = c /\ Recv(c)
    <3> DEFINE old == stream[c]
    <3>1. stream'[c] = IF Len(bus) - old.cursor > Capacity THEN Lagged(old) ELSE Heard(old)
      BY <2>1, <2>4 DEF Recv
    <3>2. old \in Streams /\ old.heard + old.missed = old.cursor - old.joined
      BY <2>1, <2>4 DEF Recv, ToldOfLoss
    <3> HIDE DEF old
    <3>3. CASE Len(bus) - old.cursor > Capacity
      <4>1. /\ stream'[c].cursor \in Nat /\ stream'[c].heard = old.heard
            /\ stream'[c].missed = old.missed + (stream'[c].cursor - old.cursor)
            /\ stream'[c].joined = old.joined
        BY <2>1, <3>1, <3>2, <3>3, LaggedType DEF Streams
      <4> QED BY <2>4, <3>2, <4>1 DEF Streams
    <3>4. CASE ~(Len(bus) - old.cursor > Capacity)
      <4>1. /\ stream'[c].cursor = old.cursor + 1 /\ stream'[c].heard = old.heard + 1
            /\ stream'[c].missed = old.missed /\ stream'[c].joined = old.joined
        BY <3>1, <3>2, <3>4, HeardType
      <4> QED BY <2>4, <3>2, <4>1 DEF Streams
    <3> QED BY <3>3, <3>4
  <2>5. CASE d = c /\ Disconnect(c)
    BY <2>1, <2>5 DEF Disconnect
  <2> QED BY <1>2, <2>2, <2>3, <2>4, <2>5
<1>3. CASE ~\E c \in Subscribers : Subscribe(c) \/ Recv(c) \/ Disconnect(c)
  <2>1. UNCHANGED stream
    BY <1>3 DEF BusNext, busVars, Start, IngestLoop, CheckCredential, Probe, Observe, Publish, Admit,
                Suppress, Send, Push, TakeId, SendTrace, Tick
  <2> QED BY <1>1, <2>1
<1> QED BY <1>2, <1>3

\* A subscriber hears of every event since it joined: as such, or counted in
\* the losses it is told of, however far it fell behind and how often.
THEOREM LossesAreTold == BusSpec => []ToldOfLoss
<1>1. BusInit => ToldOfLoss
  BY DEF BusInit, ToldOfLoss
<1> QED BY <1>1, TypesKept, LossStep, PTL DEF BusSpec

------------------------------------------------------------------------------
(* Failures *)

\* Messages that carry a failure of the event's source and instant.
News(messages, e) ==
  \E j \in DOMAIN messages :
    messages[j].source = e.source /\ messages[j].kind = "failed" /\ messages[j].at = e.at

\* What makes FailuresAreNews inductive: a failure that is about to be logged
\* has been sent.
NewsInv ==
  /\ \A i \in DOMAIN log : log[i].kind = "failed" => News(bus, log[i])
  /\ \A p \in Procs :
       task[p].pc = "push" /\ task[p].event.kind = "failed" => News(bus, task[p].event)

LEMMA NewsKept ==
  ASSUME BusInv, NEW e, News(bus, e),
         \/ UNCHANGED bus
         \/ \E m \in Messages : bus' = Append(bus, m)
  PROVE  News(bus', e)
<1>1. CASE UNCHANGED bus
  BY <1>1
<1>2. ASSUME NEW m \in Messages, bus' = Append(bus, m) PROVE News(bus', e)
  <2>1. DOMAIN bus \subseteq DOMAIN bus' /\ \A j \in DOMAIN bus : bus'[j] = bus[j]
    BY <1>2 DEF BusInv, BusTypes
  <2>2. PICK j \in DOMAIN bus : bus[j].source = e.source /\ bus[j].kind = "failed"
                               /\ bus[j].at = e.at
    BY DEF News
  <2>3. j \in DOMAIN bus' /\ bus'[j] = bus[j]
    BY <2>1
  <2> QED BY <2>2, <2>3 DEF News
<1> QED BY <1>1, <1>2

\* A step that logs nothing, and after which a task that is about to log a
\* failure was about to before, or has it on the bus.
LEMMA NewsFrame ==
  ASSUME BusInv, NewsInv, UNCHANGED log,
         UNCHANGED bus \/ \E m \in Messages : bus' = Append(bus, m),
         \A q \in Procs : task'[q].pc = "push" =>
           \/ task'[q] = task[q]
           \/ task'[q].event.kind = "failed" => News(bus', task'[q].event)
  PROVE  NewsInv'
<1>1. ASSUME NEW i \in DOMAIN log, log[i].kind = "failed" PROVE News(bus', log[i])
  BY <1>1, NewsKept DEF NewsInv
<1>2. ASSUME NEW q \in Procs, task'[q].pc = "push", task'[q].event.kind = "failed"
      PROVE  News(bus', task'[q].event)
  <2>1. CASE task'[q] = task[q]
    <3>1. News(bus, task[q].event)
      BY <1>2, <2>1 DEF NewsInv
    <3> QED BY <2>1, <3>1, NewsKept
  <2> QED BY <1>2, <2>1
<1> QED BY <1>1, <1>2 DEF NewsInv

LEMMA NewsStep == BusInv /\ NewsInv /\ [BusNext]_busVars => NewsInv'
<1> SUFFICES ASSUME BusInv, NewsInv, [BusNext]_busVars PROVE NewsInv'
  OBVIOUS
<1>0. task \in [Procs -> Tasks]
  BY DEF BusInv, BusTypes
<1>1. ASSUME NEW s \in SourceIds, Start(s) \/ IngestLoop(s) \/ CheckCredential(s) \/ Probe(s)
      PROVE  NewsInv'
  <2>1. UNCHANGED <<log, bus>> /\ \E p \in Procs : \E t :
           t.pc = "stamped" /\ task' = [task EXCEPT ![p] = t]
    BY <1>1 DEF Start, IngestLoop, CheckCredential, Probe, Observe, Procs
  <2>2. \A q \in Procs : task'[q].pc = "push" => task'[q] = task[q]
    BY <1>0, <2>1
  <2> QED BY <2>1, <2>2, NewsFrame
<1>2. ASSUME NEW p \in Procs, Publish(p)
      PROVE  NewsInv'
  <2>1. task[p].pc = "stamped" /\ UNCHANGED <<log, bus>>
    BY <1>2 DEF Publish, Admit, Suppress
  <2>2. CASE Admit(p)
    <3>1. \A q \in Procs : task'[q].pc = "push" => task'[q] = task[q]
      BY <1>0, <2>2 DEF Admit, Tasks
    <3> QED BY <2>1, <3>1, NewsFrame
  <2>3. CASE Suppress(p) /\ TooSoon(task[p].event.kind, throttle[p[1]])
    <3>1. task[p].event.kind # "failed"
      BY <2>3 DEF TooSoon, Urgent, WireName
    <3>2. task'[p].event = task[p].event /\ \A q \in Procs : q # p => task'[q] = task[q]
      BY <1>0, <2>3 DEF Suppress, Tasks
    <3> QED BY <2>1, <3>1, <3>2, NewsFrame
  <2> QED BY <1>2, <2>2, <2>3 DEF Publish
<1>3. ASSUME NEW p \in Procs, Send(p)
      PROVE  NewsInv'
  <2> DEFINE m == Message(task[p])
  <2>1. task[p].pc = "send" /\ bus' = Append(bus, m) /\ UNCHANGED log
        /\ task' = [task EXCEPT ![p].pc = "push"]
    BY <1>3 DEF Send
  <2>2. task[p] \in Tasks /\ task[p].event \in Recorded
    BY <1>0, <2>1 DEF BusInv, BusTypes, TaskHolds
  <2>3. m \in Messages /\ m.source = task[p].event.source
        /\ m.kind = WireName(task[p].event.kind) /\ m.at = task[p].event.at
    BY <2>2, MessageType
  <2> HIDE DEF m
  <2>4. task'[p].event = task[p].event /\ \A q \in Procs : q # p => task'[q] = task[q]
    BY <1>0, <2>1, <2>2 DEF Tasks
  <2>5. task[p].event.kind = "failed" => News(bus', task[p].event)
    <3>1. Len(bus) + 1 \in DOMAIN bus' /\ bus'[Len(bus) + 1] = m
      BY <2>1, <2>3 DEF BusInv, BusTypes
    <3> QED BY <2>3, <3>1 DEF News, WireName
  <2> QED BY <2>1, <2>3, <2>4, <2>5, NewsFrame
<1>4. ASSUME NEW p \in Procs, Push(p)
      PROVE  NewsInv'
  <2> DEFINE e == task[p].event
  <2>1. task[p].pc = "push" /\ log' = Append(log, e) /\ UNCHANGED bus
        /\ \A q \in Procs : task'[q].pc = "push" => task'[q] = task[q]
    BY <1>0, <1>4 DEF Push, Tasks
  <2>2. e \in Recorded
    BY <2>1 DEF BusInv, BusTypes, TaskHolds
  <2>3. e.kind = "failed" => News(bus, e)
    BY <2>1 DEF NewsInv
  <2> HIDE DEF e
  <2>4. ASSUME NEW i \in DOMAIN log', log'[i].kind = "failed" PROVE News(bus, log'[i])
    <3>1. \/ i \in DOMAIN log /\ log'[i] = log[i]
          \/ log'[i] = e
      BY <2>1, <2>2 DEF BusInv, BusTypes
    <3> QED BY <2>3, <2>4, <3>1 DEF NewsInv
  <2>5. \A q \in Procs :
           task'[q].pc = "push" /\ task'[q].event.kind = "failed" => News(bus, task'[q].event)
    BY <2>1 DEF NewsInv
  <2> QED BY <2>1, <2>4, <2>5 DEF NewsInv
<1>5. ASSUME NEW r \in Renders, TakeId(r) \/ SendTrace(r)
      PROVE  NewsInv'
  <2>1. UNCHANGED <<task, log>>
    BY <1>5 DEF TakeId, SendTrace
  <2>2. UNCHANGED bus \/ \E m \in Messages : bus' = Append(bus, m)
    <3>1. CASE TakeId(r)
      BY <3>1 DEF TakeId
    <3>2. CASE SendTrace(r)
      <4>1. render[r] \in Nat /\ clock \in Nat
        BY <3>2 DEF SendTrace, BusInv, BusTypes
      <4> QED BY <3>2, <4>1, TraceType DEF SendTrace
    <3> QED BY <1>5, <3>1, <3>2
  <2> QED BY <2>1, <2>2, NewsFrame
<1>6. CASE UNCHANGED <<task, log, bus>>
  BY <1>6 DEF NewsInv
<1>7. CASE (\E c \in Subscribers : Subscribe(c) \/ Recv(c) \/ Disconnect(c)) \/ Tick
           \/ UNCHANGED busVars
  BY <1>6, <1>7 DEF Subscribe, Recv, Disconnect, Tick, busVars
<1> QED BY <1>1, <1>2, <1>3, <1>4, <1>5, <1>7 DEF BusNext

\* Every failure in the log was on the bus when it was logged: the throttle
\* never holds one back.
THEOREM FailuresReachTheBus == BusSpec => []FailuresAreNews
<1>1. BusInit => NewsInv
  <2>1. BusInit => DOMAIN log = {} /\ \A p \in Procs : task[p].pc = "idle"
    BY DEF BusInit
  <2> QED BY <2>1 DEF NewsInv
<1>2. NewsInv => FailuresAreNews
  BY DEF NewsInv, FailuresAreNews, News
<1> QED BY <1>1, <1>2, TypesKept, NewsStep, PTL DEF BusSpec

------------------------------------------------------------------------------
(* The account of a source *)

Logged(s) == {i \in DOMAIN log : log[i].source = s}
Past(s) == {p \in Procs : p[1] = s /\ task[p].pc \in {"send", "push"}}

\* What BusAccountsForLog says of one source, and that its messages can be
\* counted.
SourceAccount(s) ==
  /\ IsFiniteSet(Told(s))
  /\ Cardinality(Logged(s)) + Cardinality(Past(s))
       = Cardinality(Told(s)) + Cardinality(Telling(s)) + Held(s)

AccountInv == \A s \in SourceIds : SourceAccount(s)

LEMMA IntervalFromZero ==
  ASSUME NEW x, NEW n \in Nat
  PROVE  IsFiniteSet({x} \X (0..n)) /\ Cardinality({x} \X (0..n)) = n + 1
<1>1. IsFiniteSet(0..n) /\ Cardinality(0..n) = n + 1
  BY FS_Interval
<1>2. IsFiniteSet({x}) /\ Cardinality({x}) = 1
  BY FS_Singleton
<1>3. Cardinality({x} \X (0..n)) = 1 * (n + 1)
  BY <1>1, <1>2, FS_Product
<1> QED BY <1>1, <1>2, <1>3, FS_Product

\* A source has three tasks.
LEMMA PastFinite ==
  ASSUME NEW s \in SourceIds
  PROVE  IsFiniteSet({p \in Procs : p[1] = s})
<1>1. {p \in Procs : p[1] = s} = {s} \X {"boot", "ingest", "probe"}
  BY DEF Procs
<1>2. IsFiniteSet({"boot"})
  BY FS_Singleton
<1>3. IsFiniteSet({"boot"} \cup {"ingest"} \cup {"probe"})
  BY <1>2, FS_AddElement
<1>4. IsFiniteSet({"boot", "ingest", "probe"})
  <2>1. {"boot", "ingest", "probe"} = {"boot"} \cup {"ingest"} \cup {"probe"}
    OBVIOUS
  <2> QED BY <1>3, <2>1
<1>5. IsFiniteSet({s})
  BY FS_Singleton
<1>6. IsFiniteSet({s} \X {"boot", "ingest", "probe"})
  BY <1>4, <1>5, FS_Product
<1> QED BY <1>1, <1>6

\* Events that are about to be logged can be counted, and one more or one
\* less counts for one.
LEMMA PastCount ==
  ASSUME NEW s \in SourceIds, NEW S, NEW T, NEW p,
         S \subseteq {q \in Procs : q[1] = s}, T \subseteq {q \in Procs : q[1] = s}
  PROVE  /\ IsFiniteSet(S) /\ Cardinality(S) \in Nat
         /\ p \notin S /\ T = S \cup {p} => Cardinality(T) = Cardinality(S) + 1
<1>1. IsFiniteSet(S) /\ IsFiniteSet(T)
  BY PastFinite, FS_Subset
<1>2. Cardinality(S) \in Nat
  BY <1>1, FS_CardinalityType
<1>3. ASSUME p \notin S, T = S \cup {p} PROVE Cardinality(T) = Cardinality(S) + 1
  BY <1>1, <1>3, FS_AddElement
<1> QED BY <1>1, <1>2, <1>3

LEMMA LoggedFinite ==
  BusInv => \A s \in SourceIds : IsFiniteSet(Logged(s)) /\ Cardinality(Logged(s)) \in Nat
<1> SUFFICES ASSUME BusInv, NEW s \in SourceIds
             PROVE  IsFiniteSet(Logged(s)) /\ Cardinality(Logged(s)) \in Nat
  OBVIOUS
<1>1. Len(log) \in Nat /\ DOMAIN log = 1..Len(log)
  BY DEF BusInv, BusTypes
<1>2. IsFiniteSet(1..Len(log)) /\ Logged(s) \subseteq 1..Len(log)
  BY <1>1, FS_Interval DEF Logged
<1>3. IsFiniteSet(Logged(s))
  BY <1>2, FS_Subset
<1> QED BY <1>3, FS_CardinalityType

LEMMA LoggedAppend ==
  ASSUME BusInv, NEW s \in SourceIds, NEW e \in Recorded, log' = Append(log, e)
  PROVE  Cardinality(Logged(s)') = Cardinality(Logged(s)) + IF e.source = s THEN 1 ELSE 0
<1>1. /\ Len(log) \in Nat /\ DOMAIN log = 1..Len(log) /\ DOMAIN log' = 1..(Len(log) + 1)
      /\ log'[Len(log) + 1] = e /\ \A i \in 1..Len(log) : log'[i] = log[i]
  BY DEF BusInv, BusTypes
<1>2. DOMAIN log' = DOMAIN log \cup {Len(log) + 1} /\ Len(log) + 1 \notin DOMAIN log
  BY <1>1
<1>3. \A i \in DOMAIN log : log'[i] = log[i]
  BY <1>1
<1>4. CASE e.source = s
  <2>1. Logged(s)' = Logged(s) \cup {Len(log) + 1} /\ Len(log) + 1 \notin Logged(s)
    BY <1>1, <1>2, <1>3, <1>4 DEF Logged
  <2>2. IsFiniteSet(Logged(s))
    BY LoggedFinite
  <2> QED BY <1>4, <2>1, <2>2, FS_AddElement
<1>5. CASE e.source # s
  <2>1. Logged(s)' = Logged(s)
    BY <1>1, <1>2, <1>3, <1>5 DEF Logged
  <2>2. Cardinality(Logged(s)) \in Nat
    BY LoggedFinite
  <2> QED BY <1>5, <2>1, <2>2
<1> QED BY <1>4, <1>5

\* Of a message of the source the bus tells as many events as were folded
\* into it and one more; of any other message, none.
LEMMA ToldAppend ==
  ASSUME BusInv, NEW s \in SourceIds, IsFiniteSet(Told(s)), NEW m \in Messages,
         bus' = Append(bus, m)
  PROVE  /\ IsFiniteSet(Told(s)')
         /\ Cardinality(Told(s)') =
              Cardinality(Told(s)) + IF m.source = s THEN m.coalesced + 1 ELSE 0
<1> DEFINE n == Len(bus) + 1
           fold == {n} \X (0 .. m.coalesced)
<1>1. /\ DOMAIN bus' = DOMAIN bus \cup {n} /\ n \notin DOMAIN bus
      /\ bus'[n] = m /\ \A i \in DOMAIN bus : bus'[i] = bus[i]
  BY DEF BusInv, BusTypes
<1>2. Cardinality(Told(s)) \in Nat /\ m.coalesced \in Nat
  BY FS_CardinalityType DEF Messages
<1> HIDE DEF n
<1>3. CASE m.source = s
  <2>1. Told(s)' = Told(s) \cup fold
    BY <1>1, <1>3 DEF Told
  <2>2. Told(s) \cap fold = {}
    BY <1>1 DEF Told
  <2>3. IsFiniteSet(fold) /\ Cardinality(fold) = m.coalesced + 1
    BY <1>2, IntervalFromZero
  <2>4. Cardinality({}) = 0
    BY FS_EmptySet
  <2> HIDE DEF fold
  <2>5. IsFiniteSet(Told(s) \cup fold)
        /\ Cardinality(Told(s) \cup fold) = Cardinality(Told(s)) + Cardinality(fold) - 0
    BY <2>2, <2>3, <2>4, FS_Union
  <2> QED BY <1>2, <1>3, <2>1, <2>3, <2>5
<1>4. CASE m.source # s
  <2>1. Told(s)' = Told(s)
    BY <1>1, <1>4 DEF Told
  <2> QED BY <1>2, <1>4, <2>1
<1> QED BY <1>3, <1>4

\* At most one task is about to send, and it tells of its event and of those
\* folded into it.
TellingRight ==
  /\ \A p \in Procs : task[p].pc = "send" =>
       Telling(p[1]) = {p} \X (0 .. task[p].coalesced) /\ task[p].coalesced \in Nat
  /\ \A s \in SourceIds :
       (\A p \in Procs : p[1] = s => task[p].pc # "send") => Telling(s) = {}

LEMMA TellingCount == BusInv => TellingRight
<1> SUFFICES ASSUME BusInv PROVE TellingRight
  OBVIOUS
<1>1. ASSUME NEW p \in Procs, task[p].pc = "send"
      PROVE  Telling(p[1]) = {p} \X (0 .. task[p].coalesced) /\ task[p].coalesced \in Nat
  <2>1. {q \in Procs : q[1] = p[1] /\ task[q].pc = "send"} = {p}
    BY <1>1 DEF BusInv, BusTypeInv
  <2>2. task[p].coalesced \in Nat
    BY DEF BusInv, BusTypes, Tasks
  <2> QED BY <2>1, <2>2 DEF Telling
<1>2. ASSUME NEW s \in SourceIds, \A p \in Procs : p[1] = s => task[p].pc # "send"
      PROVE  Telling(s) = {}
  <2>1. {q \in Procs : q[1] = s /\ task[q].pc = "send"} = {}
    BY <1>2
  <2> QED BY <2>1 DEF Telling
<1> QED BY <1>1, <1>2 DEF TellingRight

TellingNumbers == \A s \in SourceIds : Cardinality(Telling(s)) \in Nat /\ Held(s) \in Nat

LEMMA TellingNumber == BusInv => TellingNumbers
<1> SUFFICES ASSUME BusInv, NEW s \in SourceIds
             PROVE  Cardinality(Telling(s)) \in Nat /\ Held(s) \in Nat
  BY DEF TellingNumbers
<1>1. TellingRight
  BY TellingCount
<1>h. Held(s) \in Nat
  BY DEF Held, BusInv, BusTypeInv
<1>2. CASE \A p \in Procs : p[1] = s => task[p].pc # "send"
  <2>1. Telling(s) = {}
    BY <1>1, <1>2 DEF TellingRight
  <2> QED BY <2>1, FS_EmptySet, <1>h
<1>3. ASSUME NEW p \in Procs, p[1] = s, task[p].pc = "send"
      PROVE  Cardinality(Telling(s)) \in Nat
  <2>1. Telling(s) = {p} \X (0 .. task[p].coalesced) /\ task[p].coalesced \in Nat
    BY <1>1, <1>3 DEF TellingRight
  <2>2. Cardinality({p} \X (0 .. task[p].coalesced)) = task[p].coalesced + 1
    BY <2>1, IntervalFromZero
  <2> QED BY <2>1, <2>2
<1> QED BY <1>2, <1>3, <1>h

\* A step of task p: the account of the other sources stands.
LEMMA OtherAccounts ==
  ASSUME BusInv, BusInv', NEW p \in Procs, NEW s \in SourceIds, s # p[1], SourceAccount(s),
         \A q \in Procs : q # p => task'[q] = task[q],
         throttle'[s] = throttle[s],
         UNCHANGED bus \/ \E m \in Messages : m.source = p[1] /\ bus' = Append(bus, m),
         UNCHANGED log \/ \E e \in Recorded : e.source = p[1] /\ log' = Append(log, e)
  PROVE  SourceAccount(s)'
<1>1. IsFiniteSet(Told(s)') /\ Cardinality(Told(s)') = Cardinality(Told(s))
  <2>1. CASE UNCHANGED bus
    <3>1. Told(s)' = Told(s)
      BY <2>1 DEF Told
    <3> QED BY <3>1 DEF SourceAccount
  <2>2. ASSUME NEW m \in Messages, m.source = p[1], bus' = Append(bus, m)
        PROVE  IsFiniteSet(Told(s)') /\ Cardinality(Told(s)') = Cardinality(Told(s))
    <3>1. IsFiniteSet(Told(s)) /\ Cardinality(Told(s)) \in Nat
      BY FS_CardinalityType DEF SourceAccount
    <3> QED BY <2>2, <3>1, ToldAppend
  <2> QED BY <2>1, <2>2
<1>2. Cardinality(Logged(s)') = Cardinality(Logged(s))
  <2>1. CASE UNCHANGED log
    <3>1. Logged(s)' = Logged(s)
      BY <2>1 DEF Logged
    <3> QED BY <3>1
  <2>2. ASSUME NEW e \in Recorded, e.source = p[1], log' = Append(log, e)
        PROVE  Cardinality(Logged(s)') = Cardinality(Logged(s))
    <3>1. Cardinality(Logged(s)) \in Nat
      BY LoggedFinite
    <3> QED BY <2>2, <3>1, LoggedAppend
  <2> QED BY <2>1, <2>2
<1>3. \A q \in Procs : q[1] = s => task'[q] = task[q]
  OBVIOUS
<1>4. Past(s)' = Past(s)
  BY <1>3 DEF Past
<1>5. Telling(s)' = Telling(s)
  <2>1. {q \in Procs : q[1] = s /\ task[q].pc = "send"}'
          = {q \in Procs : q[1] = s /\ task[q].pc = "send"}
    BY <1>3
  <2> QED BY <1>3, <2>1 DEF Telling
<1>6. Held(s)' = Held(s)
  BY DEF Held
<1> QED BY <1>1, <1>2, <1>4, <1>5, <1>6 DEF SourceAccount

\* A step that neither takes an event on its way nor off it.
LEMMA SameAccounts ==
  ASSUME BusInv, AccountInv, UNCHANGED <<throttle, log>>,
         UNCHANGED bus \/ \E m \in Messages : m.source = None /\ bus' = Append(bus, m),
         \A q \in Procs : \/ task'[q] = task[q]
                          \/ {task[q].pc, task'[q].pc} \cap {"send", "push"} = {}
  PROVE  AccountInv'
<1> SUFFICES ASSUME NEW s \in SourceIds PROVE SourceAccount(s)'
  BY DEF AccountInv
<1>1. SourceAccount(s)
  BY DEF AccountInv
<1>2. IsFiniteSet(Told(s)') /\ Cardinality(Told(s)') = Cardinality(Told(s))
  <2>1. CASE UNCHANGED bus
    <3>1. Told(s)' = Told(s)
      BY <2>1 DEF Told
    <3> QED BY <1>1, <3>1 DEF SourceAccount
  <2>2. ASSUME NEW m \in Messages, m.source = None, bus' = Append(bus, m)
        PROVE  IsFiniteSet(Told(s)') /\ Cardinality(Told(s)') = Cardinality(Told(s))
    <3>1. IsFiniteSet(Told(s)) /\ Cardinality(Told(s)) \in Nat
      BY <1>1, FS_CardinalityType DEF SourceAccount
    <3>2. m.source # s
      BY <2>2, NoneAssumption
    <3> QED BY <2>2, <3>1, <3>2, ToldAppend
  <2> QED BY <2>1, <2>2
<1>3. Logged(s)' = Logged(s) /\ Held(s)' = Held(s)
  BY DEF Logged, Held
<1>4. Past(s)' = Past(s)
  BY DEF Past
<1>5. Telling(s)' = Telling(s)
  <2>1. {q \in Procs : q[1] = s /\ task'[q].pc = "send"} = {q \in Procs : q[1] = s /\ task[q].pc = "send"}
    OBVIOUS
  <2>2. \A q \in Procs : task[q].pc = "send" => task'[q] = task[q]
    OBVIOUS
  <2> QED BY <2>1, <2>2 DEF Telling
<1> QED BY <1>1, <1>2, <1>3, <1>4, <1>5 DEF SourceAccount

\* The counts of a source are numbers.
LEMMA AccountNumbers ==
  BusInv /\ AccountInv => \A s \in SourceIds :
    /\ Cardinality(Logged(s)) \in Nat /\ Cardinality(Past(s)) \in Nat
    /\ Cardinality(Told(s)) \in Nat /\ Held(s) \in Nat
<1> SUFFICES ASSUME BusInv, AccountInv, NEW s \in SourceIds
             PROVE  /\ Cardinality(Logged(s)) \in Nat /\ Cardinality(Past(s)) \in Nat
                    /\ Cardinality(Told(s)) \in Nat /\ Held(s) \in Nat
  OBVIOUS
<1>1. Cardinality(Past(s)) \in Nat
  <2>1. Past(s) \subseteq {q \in Procs : q[1] = s}
    BY DEF Past
  <2> QED BY <2>1, PastCount
<1>2. Cardinality(Told(s)) \in Nat
  BY FS_CardinalityType DEF AccountInv, SourceAccount
<1>3. Held(s) \in Nat
  BY DEF Held, BusInv, BusTypeInv
<1> QED BY <1>1, <1>2, <1>3, LoggedFinite

LEMMA PublishAccount ==
  ASSUME BusInv, BusInv', AccountInv, NEW p \in Procs, Publish(p)
  PROVE  AccountInv'
<1> DEFINE s == p[1]
<1>1. /\ task[p].pc = "stamped" /\ holder = None /\ UNCHANGED <<bus, log>>
      /\ task'[p].pc \in {"send", "push"} /\ \A q \in Procs : q # p => task'[q] = task[q]
      /\ \A r \in SourceIds : r # s => throttle'[r] = throttle[r]
  BY DEF Publish, Admit, Suppress, BusInv, BusTypes, Tasks
<1>2. s \in SourceIds /\ p # None
  BY ProcSource
<1>t. TellingRight /\ TellingRight'
  <2>1. BusInv' => TellingRight'
    BY TellingCount, PTL
  <2> QED BY <2>1, TellingCount
<1>3. \A r \in SourceIds : r # s => SourceAccount(r)'
  BY <1>1, OtherAccounts DEF AccountInv
<1>4. Told(s)' = Told(s) /\ Logged(s)' = Logged(s)
  BY <1>1 DEF Told, Logged
<1>5. Cardinality(Past(s)') = Cardinality(Past(s)) + 1
  <2>1. Past(s)' = Past(s) \cup {p} /\ p \notin Past(s)
    BY <1>1, <1>2 DEF Past
  <2>2. Past(s) \subseteq {q \in Procs : q[1] = s} /\ Past(s)' \subseteq {q \in Procs : q[1] = s}
    BY DEF Past
  <2> QED BY <1>2, <2>1, <2>2, PastCount
<1>6. Cardinality(Telling(s)) = 0
  <2>1. \A q \in Procs : task[q].pc # "send"
    BY <1>1, ProcSource DEF BusInv, BusTypeInv
  <2> QED BY <1>2, <1>t, <2>1, FS_EmptySet DEF TellingRight
<1>7. Cardinality(Telling(s)') + Held(s)' = Held(s) + 1
  <2>1. CASE Admit(p)
    <3>1. task'[p].pc = "send" /\ task'[p].coalesced = Held(s) /\ Held(s)' = 0
          /\ Held(s) \in Nat
      <4>1. /\ task \in [Procs -> Tasks] /\ task[p] \in Tasks
            /\ throttle \in [SourceIds -> [last : Nat, suppressed : Nat] \cup {None}]
            /\ clock \in Nat
        BY DEF BusInv, BusTypes
      <4>2. throttle' = [throttle EXCEPT ![s] = [last |-> clock, suppressed |-> 0]]
        BY <2>1 DEF Admit
      <4>3. Held(s)' = 0
        BY <1>2, <4>1, <4>2 DEF Held
      <4>4. task'[p].pc = "send"
            /\ task'[p].coalesced = IF throttle[s] = None THEN 0 ELSE throttle[s].suppressed
        BY <2>1, <4>1 DEF Admit, Tasks
      <4> QED BY <1>2, <4>3, <4>4, AccountNumbers DEF Held
    <3>2. Telling(s)' = {p} \X (0 .. Held(s))
      BY <1>t, <3>1 DEF TellingRight
    <3>3. Cardinality(Telling(s)') = Held(s) + 1
      BY <3>1, <3>2, IntervalFromZero
    <3> QED BY <3>1, <3>3
  <2>2. CASE Suppress(p) /\ throttle[s] # None
    <3>1. task'[p].pc = "push"
      BY <2>2 DEF Suppress, BusInv, BusTypes, Tasks
    <3>2. \A q \in Procs : task'[q].pc # "send"
      BY <1>1, <3>1, ProcSource DEF BusInv, BusTypeInv
    <3>3. Cardinality(Telling(s)') = 0
      BY <1>2, <1>t, <3>2, FS_EmptySet DEF TellingRight
    <3>4. Held(s)' = Held(s) + 1
      <4>1. throttle[s] \in [last : Nat, suppressed : Nat]
        BY <1>2, <2>2 DEF BusInv, BusTypes
      <4>2. throttle'[s] = [throttle[s] EXCEPT !.suppressed = @ + 1]
        BY <1>2, <2>2 DEF Suppress, BusInv, BusTypes
      <4>3. throttle'[s].suppressed = throttle[s].suppressed + 1 /\ throttle'[s] # None
        BY <4>1, <4>2, NoneAssumption
      <4> QED BY <2>2, <4>3 DEF Held
    <3> QED BY <1>2, <3>3, <3>4, AccountNumbers
  <2> QED BY <2>1, <2>2 DEF Publish, TooSoon
<1>w. Cardinality(Telling(s)') \in Nat /\ Held(s)' \in Nat
  <2>1. BusInv' => TellingNumbers'
    BY TellingNumber, PTL
  <2> QED BY <1>2, <2>1 DEF TellingNumbers
<1>8. SourceAccount(s)'
  <2>1. SourceAccount(s) /\ Cardinality(Logged(s)) \in Nat /\ Cardinality(Past(s)) \in Nat
        /\ Cardinality(Told(s)) \in Nat /\ Held(s) \in Nat
    BY <1>2, AccountNumbers DEF AccountInv
  <2>2. IsFiniteSet(Told(s)')
    BY <1>4, <2>1 DEF SourceAccount
  <2>3. Cardinality(Logged(s)') + Cardinality(Past(s)')
          = Cardinality(Told(s)') + (Cardinality(Telling(s)') + Held(s)')
    BY <1>4, <1>5, <1>6, <1>7, <2>1 DEF SourceAccount
  <2>4. Cardinality(Telling(s)') \in Nat /\ Held(s)' \in Nat
    BY <1>w
  <2> HIDE DEF s
  <2> QED BY <1>4, <2>1, <2>2, <2>3, <2>4 DEF SourceAccount
<1> QED BY <1>3, <1>8 DEF AccountInv

LEMMA SendAccount ==
  ASSUME BusInv, BusInv', AccountInv, NEW p \in Procs, Send(p)
  PROVE  AccountInv'
<1> DEFINE s == p[1]
           m == Message(task[p])
<1>1. /\ task[p].pc = "send" /\ task[p] \in Tasks /\ task[p].event \in Recorded
      /\ task[p].event.source = s
  BY DEF Send, BusInv, BusTypes, TaskHolds
<1>2. m \in Messages /\ m.source = s /\ m.coalesced = task[p].coalesced
  BY <1>1, MessageType
<1>3. /\ bus' = Append(bus, m) /\ holder' = None /\ UNCHANGED <<throttle, log>>
      /\ task'[p].pc = "push" /\ \A q \in Procs : q # p => task'[q] = task[q]
  BY <1>1 DEF Send, BusInv, BusTypes, Tasks
<1>4. s \in SourceIds /\ p # None
  BY ProcSource
<1> HIDE DEF m
<1>5. \A r \in SourceIds : r # s => SourceAccount(r)'
  BY <1>2, <1>3, OtherAccounts DEF AccountInv
<1>6. /\ SourceAccount(s) /\ Cardinality(Logged(s)) \in Nat /\ Cardinality(Past(s)) \in Nat
      /\ Cardinality(Told(s)) \in Nat /\ Held(s) \in Nat
  BY <1>4, AccountNumbers DEF AccountInv
<1>7. Logged(s)' = Logged(s) /\ Held(s)' = Held(s) /\ Past(s)' = Past(s)
  BY <1>1, <1>3 DEF Logged, Held, Past
<1>8. /\ IsFiniteSet(Told(s)')
      /\ Cardinality(Told(s)') = Cardinality(Told(s)) + task[p].coalesced + 1
  <2>1. task[p].coalesced \in Nat /\ IsFiniteSet(Told(s))
    BY <1>1, <1>6 DEF Tasks, SourceAccount
  <2>2. /\ IsFiniteSet(Told(s)')
        /\ Cardinality(Told(s)') = Cardinality(Told(s)) + IF m.source = s THEN m.coalesced + 1 ELSE 0
    BY <1>2, <1>3, <1>4, <2>1, ToldAppend
  <2> QED BY <1>2, <1>6, <2>1, <2>2
<1>9. Cardinality(Telling(s)) = task[p].coalesced + 1 /\ task[p].coalesced \in Nat
  <2>1. Telling(s) = {p} \X (0 .. task[p].coalesced) /\ task[p].coalesced \in Nat
    BY <1>1, TellingCount DEF TellingRight
  <2> QED BY <2>1, IntervalFromZero
<1>10. Cardinality(Telling(s)') = 0
  <2>1. BusInv' => TellingRight'
    BY TellingCount, PTL
  <2>2. \A q \in Procs : task'[q].pc # "send"
    BY <1>3, ProcSource DEF BusInv, BusTypeInv
  <2>3. Telling(s)' = {}
    BY <1>4, <2>1, <2>2 DEF TellingRight
  <2> QED BY <2>3, FS_EmptySet
<1>11. SourceAccount(s)'
  <2> HIDE DEF s
  <2> QED BY <1>6, <1>7, <1>8, <1>9, <1>10 DEF SourceAccount
<1> QED BY <1>5, <1>11 DEF AccountInv

LEMMA PushAccount ==
  ASSUME BusInv, BusInv', AccountInv, NEW p \in Procs, Push(p)
  PROVE  AccountInv'
<1> DEFINE s == p[1]
           e == task[p].event
<1>1. /\ task[p].pc = "push" /\ task[p] \in Tasks /\ e \in Recorded /\ e.source = s
  BY DEF Push, BusInv, BusTypes, TaskHolds
<1>2. /\ log' = Append(log, e) /\ UNCHANGED <<throttle, bus>>
      /\ task'[p].pc \notin {"send", "push"} /\ \A q \in Procs : q # p => task'[q] = task[q]
  BY <1>1 DEF Push, BusInv, BusTypes, Tasks
<1>3. s \in SourceIds
  BY ProcSource
<1> HIDE DEF e
<1>4. \A r \in SourceIds : r # s => SourceAccount(r)'
  BY <1>1, <1>2, OtherAccounts DEF AccountInv
<1>5. /\ SourceAccount(s) /\ Cardinality(Logged(s)) \in Nat /\ Cardinality(Past(s)) \in Nat
      /\ Cardinality(Told(s)) \in Nat /\ Held(s) \in Nat
  BY <1>3, AccountNumbers DEF AccountInv
<1>6. Told(s)' = Told(s) /\ Held(s)' = Held(s)
  BY <1>2 DEF Told, Held
<1>7. Telling(s)' = Telling(s)
  <2>1. {q \in Procs : q[1] = s /\ task'[q].pc = "send"}
          = {q \in Procs : q[1] = s /\ task[q].pc = "send"}
    BY <1>1, <1>2
  <2>2. \A q \in Procs : task[q].pc = "send" => task'[q] = task[q]
    BY <1>1, <1>2
  <2> QED BY <2>1, <2>2 DEF Telling
<1>8. Cardinality(Logged(s)') = Cardinality(Logged(s)) + 1
  <2>1. Cardinality(Logged(s)') = Cardinality(Logged(s)) + IF e.source = s THEN 1 ELSE 0
    BY <1>1, <1>2, <1>3, LoggedAppend
  <2> QED BY <1>1, <2>1
<1>9. Cardinality(Past(s)) = Cardinality(Past(s)') + 1 /\ Cardinality(Past(s)') \in Nat
  <2>1. Past(s) = Past(s)' \cup {p} /\ p \notin Past(s)'
    BY <1>1, <1>2 DEF Past
  <2>2. Past(s) \subseteq {q \in Procs : q[1] = s} /\ Past(s)' \subseteq {q \in Procs : q[1] = s}
    BY DEF Past
  <2> QED BY <1>3, <2>1, <2>2, PastCount
<1>10. Cardinality(Telling(s)) \in Nat
  BY <1>3, TellingNumber DEF TellingNumbers
<1>11. SourceAccount(s)'
  <2> HIDE DEF s
  <2> QED BY <1>5, <1>6, <1>7, <1>8, <1>9, <1>10 DEF SourceAccount
<1> QED BY <1>4, <1>11 DEF AccountInv

LEMMA AccountStep == BusInv /\ BusInv' /\ AccountInv /\ [BusNext]_busVars => AccountInv'
<1> SUFFICES ASSUME BusInv, BusInv', AccountInv, [BusNext]_busVars PROVE AccountInv'
  OBVIOUS
<1>0. task \in [Procs -> Tasks]
  BY DEF BusInv, BusTypes
<1>1. ASSUME NEW s \in SourceIds, Start(s) \/ IngestLoop(s) \/ CheckCredential(s) \/ Probe(s)
      PROVE  AccountInv'
  <2>1. UNCHANGED <<throttle, log, bus>> /\ \E p \in Procs : \E t :
           /\ task[p].pc \in {"idle", "probe"} /\ t.pc = "stamped"
           /\ task' = [task EXCEPT ![p] = t]
    BY <1>1 DEF Start, IngestLoop, CheckCredential, Probe, Observe, Procs
  <2>2. \A q \in Procs : \/ task'[q] = task[q]
                         \/ {task[q].pc, task'[q].pc} \cap {"send", "push"} = {}
    BY <1>0, <2>1
  <2> QED BY <2>1, <2>2, SameAccounts
<1>2. ASSUME NEW p \in Procs, Publish(p) \/ Send(p) \/ Push(p)
      PROVE  AccountInv'
  BY <1>2, PublishAccount, SendAccount, PushAccount
<1>3. ASSUME NEW r \in Renders, TakeId(r) \/ SendTrace(r)
      PROVE  AccountInv'
  <2>1. UNCHANGED <<task, throttle, log>>
    BY <1>3 DEF TakeId, SendTrace
  <2>2. UNCHANGED bus \/ \E m \in Messages : m.source = None /\ bus' = Append(bus, m)
    <3>1. CASE TakeId(r)
      BY <3>1 DEF TakeId
    <3>2. CASE SendTrace(r)
      <4>1. render[r] \in Nat /\ clock \in Nat
        BY <3>2 DEF SendTrace, BusInv, BusTypes
      <4> QED BY <3>2, <4>1, TraceType DEF SendTrace
    <3> QED BY <1>3, <3>1, <3>2
  <2> QED BY <2>1, <2>2, SameAccounts
<1>4. CASE UNCHANGED <<task, throttle, log, bus>>
  BY <1>4, SameAccounts
<1>5. CASE (\E c \in Subscribers : Subscribe(c) \/ Recv(c) \/ Disconnect(c)) \/ Tick
           \/ UNCHANGED busVars
  BY <1>4, <1>5 DEF Subscribe, Recv, Disconnect, Tick, busVars
<1> QED BY <1>1, <1>2, <1>3, <1>5 DEF BusNext

LEMMA InitAccount == BusInit => AccountInv
<1> SUFFICES ASSUME BusInit, NEW s \in SourceIds PROVE SourceAccount(s)
  BY DEF AccountInv
<1>1. Logged(s) = {} /\ Told(s) = {}
  BY DEF BusInit, Logged, Told
<1>2. \A p \in Procs : task[p].pc = "idle"
  BY DEF BusInit
<1>3. Past(s) = {} /\ {p \in Procs : p[1] = s /\ task[p].pc = "send"} = {}
  BY <1>2 DEF Past
<1>4. Telling(s) = {} /\ Held(s) = 0
  BY <1>3 DEF Telling, Held, BusInit
<1> QED BY <1>1, <1>3, <1>4, FS_EmptySet DEF SourceAccount

\* Whatever the two loops of a source, its start-up, the throttle and the
\* renders do, and in whatever order they meet at the mutex, no event logged
\* is missing from the news: it was sent, or folded into one that says so, or
\* is held to be told with the next one.
THEOREM BusKeepsAccount == BusSpec => []BusAccountsForLog
<1>1. BusInv /\ AccountInv => BusAccountsForLog
  BY DEF AccountInv, SourceAccount, BusAccountsForLog, Logged, Past
<1> QED BY <1>1, InitAccount, TypesKept, AccountStep, PTL DEF BusSpec

------------------------------------------------------------------------------
(* What a pass over events computes *)

\* After each step of the pass, what is kept are the events of the source so far.
Keeps(own, es, s, n) ==
  /\ own \in Seq(Recorded)
  /\ \A i \in DOMAIN own : own[i].source = s /\ \E j \in 1..n : es[j] = own[i]
  /\ \A j \in 1..n : es[j].source = s => \E i \in DOMAIN own : own[i] = es[j]

LEMMA KeepsAppend ==
  ASSUME NEW es \in Seq(Recorded), NEW s, NEW n \in 1..Len(es), NEW own, Keeps(own, es, s, n - 1),
         NEW more, more = IF es[n].source = s THEN Append(own, es[n]) ELSE own
  PROVE  Keeps(more, es, s, n)
<1>1. es[n] \in Recorded /\ own \in Seq(Recorded) /\ n \in Nat
  BY DEF Keeps
<1>2. \A j \in 1..n : j = n \/ j \in 1..(n - 1)
  BY <1>1
<1>3. \A j \in 1..(n - 1) : j \in 1..n
  BY <1>1
<1>4. CASE es[n].source = s
  <2>1. /\ more \in Seq(Recorded) /\ DOMAIN own = 1..Len(own) /\ DOMAIN more = 1..(Len(own) + 1)
        /\ Len(own) \in Nat /\ more[Len(own) + 1] = es[n] /\ \A i \in 1..Len(own) : more[i] = own[i]
    BY <1>1, <1>4
  <2>2. ASSUME NEW i \in DOMAIN more PROVE more[i].source = s /\ \E j \in 1..n : es[j] = more[i]
    <3>1. CASE i = Len(own) + 1
      BY <1>4, <2>1, <3>1
    <3>2. CASE i # Len(own) + 1
      <4>1. i \in DOMAIN own /\ more[i] = own[i]
        BY <2>1, <2>2, <3>2
      <4> QED BY <1>3, <4>1 DEF Keeps
    <3> QED BY <3>1, <3>2
  <2>3. ASSUME NEW j \in 1..n, es[j].source = s PROVE \E i \in DOMAIN more : more[i] = es[j]
    <3>1. CASE j = n
      <4>1. Len(own) + 1 \in DOMAIN more
        BY <2>1
      <4> QED BY <2>1, <3>1, <4>1
    <3>2. CASE j # n
      <4>1. PICK i \in DOMAIN own : own[i] = es[j]
        BY <1>2, <2>3, <3>2 DEF Keeps
      <4>2. i \in DOMAIN more /\ more[i] = own[i]
        BY <2>1, <4>1
      <4> QED BY <4>1, <4>2
    <3> QED BY <3>1, <3>2
  <2> QED BY <2>1, <2>2, <2>3 DEF Keeps
<1>5. CASE es[n].source # s
  <2>1. more = own
    BY <1>5
  <2>2. \A i \in DOMAIN own : own[i].source = s /\ \E j \in 1..n : es[j] = own[i]
    BY <1>3 DEF Keeps
  <2>3. \A j \in 1..n : es[j].source = s => \E i \in DOMAIN own : own[i] = es[j]
    BY <1>2, <1>5 DEF Keeps
  <2> QED BY <1>1, <2>1, <2>2, <2>3 DEF Keeps
<1> QED BY <1>4, <1>5

LEMMA OfSourceKeeps ==
  ASSUME NEW es \in Seq(Recorded), NEW s
  PROVE  Keeps(OfSource(es, s), es, s, Len(es))
<1> DEFINE D == Seq(Recorded)
           next(n, own) == IF es[n].source = s THEN Append(own, es[n]) ELSE own
           step == [x \in (1..Len(es)) \X D |-> next(x[1], x[2])]
           pass(f) == [n \in 0..Len(es) |-> IF n = 0 THEN <<>> ELSE next(n, f[n - 1])]
<1>1. Len(es) \in Nat /\ \A n \in 1..Len(es) : es[n] \in Recorded
  OBVIOUS
<1>2. step \in [(1..Len(es)) \X D -> D] /\ <<>> \in D
  BY <1>1
<1>3. \A n \in 1..Len(es), own \in D : step[<<n, own>>] = next(n, own)
  OBVIOUS
<1> HIDE DEF step
<1>4. PICK f : Passes(f, Len(es), D, <<>>, step)
  BY <1>1, <1>2, PassExists
<1>5. f = pass(f)
  <2>1. f \in [0..Len(es) -> D] /\ f[0] = <<>>
    BY <1>4 DEF Passes
  <2>2. \A n \in 1..Len(es) : f[n] = next(n, f[n - 1])
    <3> SUFFICES ASSUME NEW n \in 1..Len(es) PROVE f[n] = next(n, f[n - 1])
      OBVIOUS
    <3>1. f[n - 1] \in D
      BY <1>1, <2>1
    <3>2. f[n] = step[<<n, f[n - 1]>>]
      BY <1>4 DEF Passes
    <3> QED BY <1>3, <3>1, <3>2
  <2>3. \A n \in 0..Len(es) : n = 0 \/ n \in 1..Len(es)
    BY <1>1
  <2>4. \A n \in 0..Len(es) : f[n] = IF n = 0 THEN <<>> ELSE next(n, f[n - 1])
    BY <2>1, <2>2, <2>3
  <2> HIDE DEF next, D
  <2> QED BY <2>1, <2>4
<1> DEFINE own == CHOOSE h : h = pass(h)
<1>6. own = pass(own)
  <2> HIDE DEF pass
  <2> QED BY <1>5
<1>7. OfSource(es, s) = own[Len(es)]
  BY DEF OfSource
<1> HIDE DEF own
<1>8. own[0] = <<>> /\ \A n \in 1..Len(es) : own[n] = next(n, own[n - 1])
  <2>1. \A n \in 0..Len(es) : own[n] = IF n = 0 THEN <<>> ELSE next(n, own[n - 1])
    <3> HIDE DEF next
    <3> QED BY <1>6
  <2>2. 0 \in 0..Len(es) /\ \A n \in 1..Len(es) : n \in 0..Len(es) /\ n # 0
    BY <1>1
  <2> HIDE DEF next
  <2> QED BY <2>1, <2>2
<1> DEFINE Wrong == {n \in 0..Len(es) : ~Keeps(own[n], es, s, n)}
<1>9. Wrong = {}
  <2>1. SUFFICES ASSUME Wrong # {} PROVE FALSE
    OBVIOUS
  <2>2. PICK n \in Wrong : \A m \in Wrong : n <= m
    <3>1. Wrong \subseteq Nat
      OBVIOUS
    <3> HIDE DEF Wrong
    <3> QED BY <2>1, <3>1, LowestNumber, Zenon
  <2>3. n \in 0..Len(es) /\ ~Keeps(own[n], es, s, n)
    OBVIOUS
  <2>4. n # 0
    <3>1. Keeps(<<>>, es, s, 0)
      BY DEF Keeps
    <3> QED BY <1>8, <2>3, <3>1
  <2>5. n \in 1..Len(es) /\ n - 1 \in 0..Len(es) /\ n - 1 < n
    BY <1>1, <2>3, <2>4
  <2>6. Keeps(own[n - 1], es, s, n - 1)
    BY <2>2, <2>5
  <2> HIDE DEF Wrong
  <2>7. own[n] = IF es[n].source = s THEN Append(own[n - 1], es[n]) ELSE own[n - 1]
    BY <1>8, <2>5
  <2>8. Keeps(own[n], es, s, n)
    BY <2>5, <2>6, <2>7, KeepsAppend
  <2> QED BY <2>3, <2>8
<1>10. Len(es) \in 0..Len(es)
  BY <1>1
<1> QED BY <1>7, <1>9, <1>10

\* Of two events none of which is newer than a third the same is true after
\* either takes the place of the other.
LEMMA NewerOrders ==
  ASSUME NEW a \in Recorded, NEW b \in Recorded, NEW c \in Recorded, Newer(a, b), ~Newer(c, b)
  PROVE  ~Newer(c, a)
<1>1. /\ a.at \in Nat /\ b.at \in Nat /\ c.at \in Nat
      /\ a.detail \in Nat /\ b.detail \in Nat /\ c.detail \in Nat
  BY DEF Recorded
<1>2. Rank(a.kind) \in Nat /\ Rank(b.kind) \in Nat /\ Rank(c.kind) \in Nat
  BY DEF Rank
<1> QED BY <1>1, <1>2 DEF Newer

LEMMA NewerThanItself ==
  ASSUME NEW a \in Recorded
  PROVE  ~Newer(a, a)
<1>1. a.at \in Nat /\ a.detail \in Nat /\ Rank(a.kind) \in Nat
  BY DEF Recorded, Rank
<1> QED BY <1>1 DEF Newer

\* After each step of the pass, what is kept is the newest of the kinds so far.
IsNewest(x, es, kinds, n) ==
  \/ x = Nothing /\ \A j \in 1..n : es[j].kind \notin kinds
  \/ /\ x \in Recorded /\ x.kind \in kinds
     /\ \E j \in 1..n : es[j] = x
     /\ \A j \in 1..n : es[j].kind \in kinds => ~Newer(es[j], x)

LEMMA NothingRecorded == Nothing \notin Recorded
<1> SUFFICES ASSUME Nothing \in Recorded PROVE FALSE
  OBVIOUS
<1>1. Nothing.at \in Nat
  BY DEF Recorded
<1>2. Nothing.at = -1
  BY DEF Nothing
<1> QED BY <1>1, <1>2

Newest(e, x, kinds) == e.kind \in kinds /\ (x = Nothing \/ Newer(e, x))

LEMMA NewestStep ==
  ASSUME NEW es \in Seq(Recorded), NEW kinds, NEW n \in 1..Len(es), NEW x, IsNewest(x, es, kinds, n - 1),
         NEW y, y = IF Newest(es[n], x, kinds) THEN es[n] ELSE x
  PROVE  IsNewest(y, es, kinds, n)
<1>1. /\ es[n] \in Recorded /\ n \in Nat
      /\ \A j \in 1..n : es[j] \in Recorded /\ (j = n \/ j \in 1..(n - 1))
      /\ \A j \in 1..(n - 1) : j \in 1..n
  OBVIOUS
<1>2. CASE Newest(es[n], x, kinds)
  <2>1. y = es[n] /\ es[n].kind \in kinds
    BY <1>2 DEF Newest
  <2>2. ASSUME NEW j \in 1..n, es[j].kind \in kinds PROVE ~Newer(es[j], y)
    <3>1. CASE j = n
      BY <1>1, <2>1, <3>1, NewerThanItself
    <3>2. CASE j # n
      <4>1. j \in 1..(n - 1) /\ es[j] \in Recorded
        BY <1>1, <3>2
      <4>2. x \in Recorded /\ ~Newer(es[j], x)
        BY <2>2, <4>1 DEF IsNewest
      <4>3. Newer(es[n], x)
        BY <1>2, <4>2, NothingRecorded DEF Newest
      <4> QED BY <1>1, <2>1, <4>1, <4>2, <4>3, NewerOrders
    <3> QED BY <3>1, <3>2
  <2>3. n \in 1..n
    BY <1>1
  <2> QED BY <1>1, <2>1, <2>2, <2>3 DEF IsNewest
<1>3. CASE ~Newest(es[n], x, kinds)
  <2>1. y = x
    BY <1>3
  <2>2. CASE x = Nothing
    <3>1. x \notin Recorded /\ es[n].kind \notin kinds
      BY <1>3, <2>2, NothingRecorded DEF Newest
    <3>2. \A j \in 1..n : es[j].kind \notin kinds
      BY <1>1, <3>1 DEF IsNewest
    <3> QED BY <2>1, <2>2, <3>2 DEF IsNewest
  <2>3. CASE x # Nothing
    <3>1. /\ x \in Recorded /\ x.kind \in kinds /\ \E j \in 1..(n - 1) : es[j] = x
          /\ \A j \in 1..(n - 1) : es[j].kind \in kinds => ~Newer(es[j], x)
      BY <2>3 DEF IsNewest
    <3>2. es[n].kind \in kinds => ~Newer(es[n], x)
      BY <1>3 DEF Newest
    <3>3. \A j \in 1..n : es[j].kind \in kinds => ~Newer(es[j], x)
      BY <1>1, <3>1, <3>2
    <3>4. \E j \in 1..n : es[j] = x
      BY <1>1, <3>1
    <3> QED BY <2>1, <3>1, <3>3, <3>4 DEF IsNewest
  <2> QED BY <2>2, <2>3
<1> QED BY <1>2, <1>3

LEMMA NewestOfIsNewest ==
  ASSUME NEW es \in Seq(Recorded), NEW kinds
  PROVE  IsNewest(NewestOf(es, kinds), es, kinds, Len(es))
<1> DEFINE D == Recorded \cup {Nothing}
           next(n, x) == IF Newest(es[n], x, kinds) THEN es[n] ELSE x
           step == [x \in (1..Len(es)) \X D |-> next(x[1], x[2])]
           pass(f) == [n \in 0..Len(es) |-> IF n = 0 THEN Nothing ELSE next(n, f[n - 1])]
<1>1. Len(es) \in Nat /\ \A n \in 1..Len(es) : es[n] \in Recorded
  OBVIOUS
<1>2. step \in [(1..Len(es)) \X D -> D] /\ Nothing \in D
  <2>1. \A n \in 1..Len(es), x \in D : next(n, x) \in D
    BY <1>1
  <2> HIDE DEF next, D
  <2>2. step \in [(1..Len(es)) \X D -> D]
    BY <2>1
  <2> QED BY <2>2 DEF D
<1>3. \A n \in 1..Len(es), x \in D : step[<<n, x>>] = next(n, x)
  <2> HIDE DEF next, D
  <2> QED OBVIOUS
<1> HIDE DEF step
<1>4. PICK f : Passes(f, Len(es), D, Nothing, step)
  <2> HIDE DEF D
  <2> QED BY <1>1, <1>2, PassExists
<1>5. f = pass(f)
  <2> HIDE DEF next, D
  <2>1. f \in [0..Len(es) -> D] /\ f[0] = Nothing
    BY <1>4 DEF Passes
  <2>2. \A n \in 1..Len(es) : f[n] = next(n, f[n - 1])
    <3> SUFFICES ASSUME NEW n \in 1..Len(es) PROVE f[n] = next(n, f[n - 1])
      OBVIOUS
    <3>1. f[n - 1] \in D
      BY <1>1, <2>1
    <3>2. f[n] = step[<<n, f[n - 1]>>]
      BY <1>4 DEF Passes
    <3> QED BY <1>3, <3>1, <3>2
  <2>3. \A n \in 0..Len(es) : n = 0 \/ n \in 1..Len(es)
    BY <1>1
  <2>4. \A n \in 0..Len(es) : f[n] = IF n = 0 THEN Nothing ELSE next(n, f[n - 1])
    BY <1>1, <2>1, <2>2, <2>3
  <2> QED BY <2>1, <2>4
<1> DEFINE newest == CHOOSE h : h = pass(h)
<1>6. newest = pass(newest)
  <2> HIDE DEF pass
  <2> QED BY <1>5
<1>7. NewestOf(es, kinds) = newest[Len(es)]
  BY DEF NewestOf, Newest
<1> HIDE DEF newest
<1>8. newest[0] = Nothing /\ \A n \in 1..Len(es) : newest[n] = next(n, newest[n - 1])
  <2> HIDE DEF next
  <2>1. \A n \in 0..Len(es) : newest[n] = IF n = 0 THEN Nothing ELSE next(n, newest[n - 1])
    BY <1>6
  <2>2. 0 \in 0..Len(es) /\ \A n \in 1..Len(es) : n \in 0..Len(es) /\ n # 0
    BY <1>1
  <2> QED BY <2>1, <2>2
<1> DEFINE Wrong == {n \in 0..Len(es) : ~IsNewest(newest[n], es, kinds, n)}
<1>9. Wrong = {}
  <2>1. SUFFICES ASSUME Wrong # {} PROVE FALSE
    OBVIOUS
  <2>2. PICK n \in Wrong : \A m \in Wrong : n <= m
    <3>1. Wrong \subseteq Nat
      OBVIOUS
    <3> HIDE DEF Wrong
    <3> QED BY <2>1, <3>1, LowestNumber, Zenon
  <2>3. n \in 0..Len(es) /\ ~IsNewest(newest[n], es, kinds, n)
    OBVIOUS
  <2>4. n # 0
    <3>1. IsNewest(Nothing, es, kinds, 0)
      BY DEF IsNewest
    <3> QED BY <1>8, <2>3, <3>1
  <2>5. n \in 1..Len(es) /\ n - 1 \in 0..Len(es) /\ n - 1 < n
    BY <1>1, <2>3, <2>4
  <2>6. IsNewest(newest[n - 1], es, kinds, n - 1)
    BY <2>2, <2>5
  <2> HIDE DEF Wrong
  <2>7. newest[n] = IF Newest(es[n], newest[n - 1], kinds) THEN es[n] ELSE newest[n - 1]
    BY <1>8, <2>5
  <2>8. IsNewest(newest[n], es, kinds, n)
    BY <2>5, <2>6, <2>7, NewestStep
  <2> QED BY <2>3, <2>8
<1>10. Len(es) \in 0..Len(es)
  BY <1>1
<1> QED BY <1>7, <1>9, <1>10

------------------------------------------------------------------------------
(* The row of a source *)

\* What an event says of its source's credential is so, and no task stops.
Truthful(e) ==
  /\ e.kind # "stopped"
  /\ e.kind = "credential_resolved" => e.source \in resolves
  /\ e.kind = "credential_missing" => e.source \notin resolves

Pending == {"stamped", "send", "push"}

\* What RowIsNewest needs of the log, and of the events about to be logged.
TruthInv ==
  /\ \A i \in DOMAIN log : Truthful(log[i])
  /\ \A p \in Procs : task[p].pc \in Pending => Truthful(task[p].event)

\* An event is recorded as it was observed.
LEMMA ObserveTruth ==
  ASSUME BusInv, TruthInv, NEW p \in Procs, NEW kind, NEW detail, Observe(p, kind, detail),
         kind # "stopped", kind = "credential_resolved" => p[1] \in resolves,
         kind = "credential_missing" => p[1] \notin resolves
  PROVE  TruthInv'
<1> DEFINE e == [source |-> p[1], at |-> clock, kind |-> kind, detail |-> detail]
           t == [pc |-> "stamped", id |-> 0, coalesced |-> 0, event |-> e]
<1>1. task' = [task EXCEPT ![p] = t] /\ UNCHANGED <<log, resolves>>
  BY DEF Observe
<1>2. t.event = e /\ e.kind = kind /\ e.source = p[1]
  OBVIOUS
<1> HIDE DEF t, e
<1>3. task'[p] = t /\ \A q \in Procs : q # p => task'[q] = task[q]
  BY <1>1 DEF BusInv, BusTypes
<1>4. ASSUME NEW q \in Procs, task'[q].pc \in Pending PROVE Truthful(task[q].event)'
  <2>1. CASE q = p
    BY <1>1, <1>2, <1>3, <2>1 DEF Truthful
  <2>2. CASE q # p
    BY <1>1, <1>3, <1>4, <2>2 DEF TruthInv, Truthful
  <2> QED BY <2>1, <2>2
<1>5. \A i \in DOMAIN log' : Truthful(log[i])'
  BY <1>1 DEF TruthInv, Truthful
<1> QED BY <1>4, <1>5 DEF TruthInv

LEMMA TruthStep == BusInv /\ TruthInv /\ [BusNext]_busVars => TruthInv'
<1> SUFFICES ASSUME BusInv, TruthInv, [BusNext]_busVars PROVE TruthInv'
  OBVIOUS
<1>0. task \in [Procs -> Tasks]
  BY DEF BusInv, BusTypes
<1>1. ASSUME NEW s \in SourceIds, Start(s) \/ IngestLoop(s) \/ CheckCredential(s) \/ Probe(s)
      PROVE  TruthInv'
  <2>1. /\ <<s, "boot">> \in Procs /\ <<s, "ingest">> \in Procs /\ <<s, "probe">> \in Procs
        /\ <<s, "boot">>[1] = s /\ <<s, "ingest">>[1] = s /\ <<s, "probe">>[1] = s
    BY DEF Procs
  <2>2. CASE Start(s)
    BY <2>1, <2>2, ObserveTruth DEF Start
  <2>3. CASE IngestLoop(s)
    BY <2>1, <2>3, ObserveTruth DEF IngestLoop
  <2>4. CASE CheckCredential(s)
    <3> DEFINE kind == IF s \in resolves THEN "credential_resolved" ELSE "credential_missing"
    <3>1. Observe(<<s, "probe">>, kind, 0)
      BY <2>4 DEF CheckCredential
    <3>2. /\ kind # "stopped" /\ (kind = "credential_resolved" => s \in resolves)
          /\ (kind = "credential_missing" => s \notin resolves)
      OBVIOUS
    <3> HIDE DEF kind
    <3> QED BY <2>1, <3>1, <3>2, ObserveTruth
  <2>5. CASE Probe(s)
    BY <2>1, <2>5, ObserveTruth DEF Probe
  <2> QED BY <1>1, <2>2, <2>3, <2>4, <2>5
<1>2. ASSUME NEW p \in Procs, Publish(p) \/ Send(p)
      PROVE  TruthInv'
  <2>1. UNCHANGED <<log, resolves>> /\ task[p].pc \in Pending
    BY <1>2 DEF Publish, Send, Admit, Suppress, Pending
  <2>2. task'[p].event = task[p].event /\ \A q \in Procs : q # p => task'[q] = task[q]
    BY <1>0, <1>2 DEF Publish, Send, Admit, Suppress, Tasks
  <2>3. \A q \in Procs : task'[q].pc \in Pending => Truthful(task[q].event)'
    BY <2>1, <2>2 DEF TruthInv, Truthful
  <2> QED BY <2>1, <2>3 DEF TruthInv, Truthful
<1>3. ASSUME NEW p \in Procs, Push(p)
      PROVE  TruthInv'
  <2> DEFINE e == task[p].event
  <2>1. /\ task[p].pc = "push" /\ log' = Append(log, e) /\ UNCHANGED resolves
        /\ \A q \in Procs : task'[q].pc \in Pending => task'[q] = task[q]
    BY <1>0, <1>3 DEF Push, Tasks, Pending
  <2>2. e \in Recorded /\ Truthful(e)
    BY <2>1 DEF BusInv, BusTypes, TaskHolds, TruthInv, Pending
  <2> HIDE DEF e
  <2>3. ASSUME NEW i \in DOMAIN log' PROVE Truthful(log[i])'
    <3>1. \/ i \in DOMAIN log /\ log'[i] = log[i]
          \/ log'[i] = e
      BY <2>1, <2>2 DEF BusInv, BusTypes
    <3> QED BY <2>1, <2>2, <3>1 DEF TruthInv, Truthful
  <2>4. \A q \in Procs : task'[q].pc \in Pending => Truthful(task[q].event)'
    BY <2>1 DEF TruthInv, Truthful
  <2> QED BY <2>3, <2>4 DEF TruthInv
<1>4. CASE UNCHANGED <<task, log, resolves>>
  BY <1>4 DEF TruthInv, Truthful
<1>5. CASE (\E r \in Renders : TakeId(r) \/ SendTrace(r)) \/ Tick \/ UNCHANGED busVars
           \/ (\E c \in Subscribers : Subscribe(c) \/ Recv(c) \/ Disconnect(c))
  BY <1>4, <1>5 DEF TakeId, SendTrace, Subscribe, Recv, Disconnect, Tick, busVars
<1> QED BY <1>1, <1>2, <1>3, <1>5 DEF BusNext

Bad == {"failed", "credential_missing"}

\* The indices of the latest events.
Latest(own) == {i \in DOMAIN own : \A j \in DOMAIN own : own[j].at <= own[i].at}

\* The event that the pass keeps is one of the latest, and a failure if any
\* of these is one: of the failures it is then the one with the last wording.
LEMMA KeptIsLatest ==
  ASSUME NEW own \in Seq(Recorded), NEW last, last = NewestOf(own, EventKinds)
  PROVE  /\ last = Nothing <=> own = <<>>
         /\ last # Nothing =>
              /\ last \in Recorded /\ \E i \in Latest(own) : own[i] = last
              /\ \A i \in Latest(own) : own[i].kind \in Bad =>
                   last.kind \in Bad /\ own[i].detail <= last.detail
<1>1. IsNewest(last, own, EventKinds, Len(own))
  BY NewestOfIsNewest
<1>2. /\ DOMAIN own = 1..Len(own) /\ Len(own) \in Nat
      /\ \A i \in DOMAIN own : own[i] \in Recorded /\ own[i].kind \in EventKinds
  <2>1. DOMAIN own = 1..Len(own) /\ Len(own) \in Nat /\ \A i \in DOMAIN own : own[i] \in Recorded
    OBVIOUS
  <2>2. \A e \in Recorded : e.kind \in EventKinds
    BY DEF Recorded
  <2> QED BY <2>1, <2>2
<1>3. CASE last = Nothing
  <2>1. \A i \in 1..Len(own) : FALSE
    BY <1>1, <1>2, <1>3, NothingRecorded DEF IsNewest
  <2>2. Len(own) = 0
    BY <1>2, <2>1
  <2> QED BY <1>3, <2>2
<1>4. CASE last # Nothing
  <2>1. PICK k \in DOMAIN own : own[k] = last
    BY <1>1, <1>2, <1>4 DEF IsNewest
  <2>2. last \in Recorded /\ \A j \in DOMAIN own : ~Newer(own[j], last)
    BY <1>1, <1>2, <1>4 DEF IsNewest
  <2>3. \A j \in DOMAIN own : /\ own[j].at \in Nat /\ own[j].detail \in Nat
                              /\ Rank(own[j].kind) \in Nat
    BY <1>2 DEF Recorded, Rank
  <2>4. /\ last.at \in Nat /\ last.detail \in Nat /\ Rank(last.kind) \in Nat /\ last.kind \in EventKinds
    BY <2>2 DEF Recorded, Rank
  <2>5. \A j \in DOMAIN own : own[j].at <= last.at
    BY <2>2, <2>3, <2>4 DEF Newer
  <2>6. k \in Latest(own)
    BY <2>1, <2>5 DEF Latest
  <2>7. ASSUME NEW i \in Latest(own), own[i].kind \in Bad
        PROVE  last.kind \in Bad /\ own[i].detail <= last.detail
    <3>1. i \in DOMAIN own /\ last.at <= own[i].at
      BY <2>1, <2>7 DEF Latest
    <3>2. own[i].at = last.at
      BY <2>3, <2>4, <2>5, <3>1
    <3>3. Rank(own[i].kind) = 4 /\ \A kind \in EventKinds : Rank(kind) <= 4 /\ (Rank(kind) = 4 => kind \in Bad)
      BY <2>7 DEF Bad, Rank, EventKinds
    <3>4. Rank(last.kind) = 4
      BY <2>2, <2>3, <2>4, <3>1, <3>2, <3>3 DEF Newer
    <3>5. own[i].detail <= last.detail
      BY <2>2, <2>3, <2>4, <3>1, <3>2, <3>3, <3>4 DEF Newer
    <3> QED BY <2>4, <3>3, <3>4, <3>5
  <2>8. own # <<>>
    BY <2>1
  <2> QED BY <1>4, <2>1, <2>2, <2>6, <2>7, <2>8
<1> QED BY <1>3, <1>4

\* What the row says of the newest event.
LEMMA RowOfLast ==
  ASSUME NEW own \in Seq(Recorded), NEW last, last = NewestOf(own, EventKinds), last.kind # "stopped",
         NEW row, NEW s, row = Item(own, s \in Credentialed)
  PROVE  /\ row.status.state = IF last = Nothing THEN "unknown"
                               ELSE IF last.kind \in Bad THEN "failing" ELSE "watching"
         /\ row.reachable = IF last = Nothing THEN "null" ELSE IF last.kind \in Bad THEN "false" ELSE "true"
         /\ last # Nothing /\ last.kind \in Bad => row.status.lastError = last.detail
         /\ row.credential = IF s \in Credentialed THEN CredentialResolution(own) ELSE "omitted"
<1>1. last = Nothing => last.kind \notin Bad
  BY DEF Nothing, Bad
<1> DEFINE name == CASE last = Nothing -> "unknown"
                     [] last.kind \in {"failed", "credential_missing"} -> "failing"
                     [] last.kind = "stopped" -> "stopped"
                     [] OTHER -> "watching"
<1>2. name = IF last = Nothing THEN "unknown" ELSE IF last.kind \in Bad THEN "failing" ELSE "watching"
  BY <1>1 DEF Bad
<1>3. /\ StateOf(own).state = name
      /\ StateOf(own).lastError = IF name = "failing" THEN last.detail ELSE 0
  BY DEF StateOf
<1> HIDE DEF name
<1>4. /\ row.status = StateOf(own)
      /\ row.reachable = (CASE row.status.state = "unknown" -> "null"
                            [] row.status.state = "watching" -> "true"
                            [] OTHER -> "false")
      /\ row.credential = IF s \in Credentialed THEN CredentialResolution(own) ELSE "omitted"
  BY DEF Item
<1>5. row.status.state = name /\ (name = "failing" => row.status.lastError = last.detail)
  BY <1>3, <1>4
<1>6. row.reachable = IF last = Nothing THEN "null" ELSE IF last.kind \in Bad THEN "false" ELSE "true"
  BY <1>2, <1>4, <1>5
<1> QED BY <1>2, <1>4, <1>5, <1>6

LEMMA RowShown ==
  ASSUME BusInv, TruthInv
  PROVE  RowIsNewest
<1> SUFFICES ASSUME NEW s \in SourceIds
    PROVE LET own == OfSource(log, s)
              newest == {i \in DOMAIN own : \A j \in DOMAIN own : own[j].at <= own[i].at}
              bad == {i \in newest : own[i].kind \in {"failed", "credential_missing"}}
              row == Row(s)
          IN /\ (row.status.state = "unknown") <=> own = <<>>
             /\ (row.status.state = "failing") <=> bad # {}
             /\ (row.reachable = "true") <=> own # <<>> /\ bad = {}
             /\ bad # {} => /\ \A i \in bad : own[i].detail <= row.status.lastError
                            /\ \E i \in bad : own[i].detail = row.status.lastError
             /\ row.credential \in {"credential_resolved", "credential_missing"} =>
                  ((row.credential = "credential_resolved") <=> s \in resolves)
  BY DEF RowIsNewest
<1> DEFINE own == OfSource(log, s)
           last == NewestOf(own, EventKinds)
           bad == {i \in Latest(own) : own[i].kind \in Bad}
           row == Row(s)
<1>1. log \in Seq(Recorded)
  BY DEF BusInv, BusTypes
<1>2. Keeps(own, log, s, Len(log))
  BY <1>1, OfSourceKeeps
<1>3. own \in Seq(Recorded) /\ \A i \in DOMAIN own : own[i].source = s /\ Truthful(own[i])
  <2>1. \A j \in 1..Len(log) : j \in DOMAIN log
    BY <1>1
  <2> HIDE DEF own
  <2> QED BY <1>2, <2>1 DEF Keeps, TruthInv
<1>4. row = Item(own, s \in Credentialed)
  BY DEF Row
<1> HIDE DEF own, row
<1>5. /\ last = Nothing <=> own = <<>>
      /\ last # Nothing =>
           /\ last \in Recorded /\ \E i \in Latest(own) : own[i] = last
           /\ \A i \in Latest(own) : own[i].kind \in Bad =>
                last.kind \in Bad /\ own[i].detail <= last.detail
  BY <1>3, KeptIsLatest
<1>6. last.kind # "stopped"
  <2>1. CASE last = Nothing
    BY <2>1 DEF Nothing
  <2>2. CASE last # Nothing
    BY <1>3, <1>5, <2>2 DEF Latest, Truthful
  <2> QED BY <2>1, <2>2
<1>8. /\ row.status.state = IF last = Nothing THEN "unknown"
                            ELSE IF last.kind \in Bad THEN "failing" ELSE "watching"
      /\ row.reachable = IF last = Nothing THEN "null" ELSE IF last.kind \in Bad THEN "false" ELSE "true"
      /\ last # Nothing /\ last.kind \in Bad => row.status.lastError = last.detail
      /\ row.credential = IF s \in Credentialed THEN CredentialResolution(own) ELSE "omitted"
  BY <1>3, <1>4, <1>6, RowOfLast
<1> HIDE DEF last
<1>9. bad # {} <=> last # Nothing /\ last.kind \in Bad
  <2>1. ASSUME bad # {} PROVE last # Nothing /\ last.kind \in Bad
    <3>1. PICK i \in Latest(own) : own[i].kind \in Bad
      BY <2>1
    <3>2. own # <<>>
      BY <3>1 DEF Latest
    <3> QED BY <1>5, <3>1, <3>2
  <2>2. ASSUME last # Nothing, last.kind \in Bad PROVE bad # {}
    BY <1>5, <2>2
  <2> QED BY <2>1, <2>2
<1>10. bad # {} => /\ \A i \in bad : own[i].detail <= row.status.lastError
                   /\ \E i \in bad : own[i].detail = row.status.lastError
  BY <1>5, <1>8, <1>9
<1>11. ASSUME row.credential \in {"credential_resolved", "credential_missing"}
       PROVE  (row.credential = "credential_resolved") <=> s \in resolves
  <2> DEFINE checks == {"credential_resolved", "credential_missing"}
             check == NewestOf(own, checks)
  <2>1. IsNewest(check, own, checks, Len(own))
    BY <1>3, NewestOfIsNewest
  <2>2. row.credential = check.kind
    BY <1>8, <1>11 DEF CredentialResolution
  <2> HIDE DEF check
  <2>3. check # Nothing
    BY <1>11, <2>2 DEF Nothing
  <2>4. PICK j \in 1..Len(own) : own[j] = check
    BY <2>1, <2>3 DEF IsNewest
  <2>5. Truthful(check) /\ check.source = s
    BY <1>3, <2>4
  <2> QED BY <1>11, <2>2, <2>5 DEF Truthful
<1>12. bad = {i \in {k \in DOMAIN own : \A j \in DOMAIN own : own[j].at <= own[k].at} :
                own[i].kind \in {"failed", "credential_missing"}}
  BY DEF Latest, Bad
<1> HIDE DEF bad
<1>13. /\ (row.status.state = "unknown") <=> own = <<>>
       /\ (row.status.state = "failing") <=> bad # {}
       /\ (row.reachable = "true") <=> own # <<>> /\ bad = {}
  BY <1>5, <1>8, <1>9
<1> QED BY <1>10, <1>11, <1>12, <1>13 DEF own, row

\* What the API says of a source is what its newest events say, in whatever
\* order its tasks pushed them: failing exactly if one of the latest is a
\* failure, and with the last wording of these; and a credential resolves
\* exactly if the profile is set.
THEOREM RowsShowTheNewest == BusSpec => []RowIsNewest
<1>1. BusInit => TruthInv
  <2>1. BusInit => DOMAIN log = {} /\ \A p \in Procs : task[p].pc = "idle"
    BY DEF BusInit
  <2> QED BY <2>1 DEF TruthInv, Pending
<1>2. BusInv /\ TruthInv => RowIsNewest
  BY RowShown
<1> QED BY <1>1, <1>2, TypesKept, TruthStep, PTL DEF BusSpec

------------------------------------------------------------------------------
(* Sequences of anything *)

Sequential(s) == Len(s) \in Nat /\ s = [i \in 1..Len(s) |-> s[i]]

LEMMA NothingAsked == Sequential(<<>>) /\ Len(<<>>) = 0
  BY DEF Sequential

LEMMA OneMore ==
  ASSUME NEW s, Sequential(s), NEW e
  PROVE  /\ Sequential(Append(s, e)) /\ Len(Append(s, e)) = Len(s) + 1
         /\ Append(s, e)[Len(s) + 1] = e
         /\ \A i \in 1..Len(s) : Append(s, e)[i] = s[i]
         /\ DOMAIN Append(s, e) = 1..(Len(s) + 1)
         /\ Append(s, e) # <<>>
<1> DEFINE S == {s[i] : i \in 1..Len(s)} \cup {e}
<1>1. s \in Seq(S)
  <2>1. s \in [1..Len(s) -> S]
    BY DEF Sequential
  <2> QED BY <2>1 DEF Sequential
<1>2. /\ Append(s, e) \in Seq(S) /\ Len(Append(s, e)) = Len(s) + 1
      /\ \A i \in 1..Len(s) : Append(s, e)[i] = s[i]
      /\ Append(s, e)[Len(s) + 1] = e
  BY <1>1, AppendProperties
<1>3. ASSUME NEW t \in Seq(S), Len(t) = Len(s) + 1
      PROVE  Sequential(t) /\ DOMAIN t = 1..(Len(s) + 1) /\ t # <<>>
  <2>1. Len(s) \in Nat
    BY DEF Sequential
  <2>2. Len(<<>>) = 0
    OBVIOUS
  <2>3. t = [i \in 1..Len(t) |-> t[i]] /\ DOMAIN t = 1..Len(t)
    OBVIOUS
  <2> HIDE DEF S
  <2> QED BY <1>3, <2>1, <2>2, <2>3 DEF Sequential
<1> QED BY <1>2, <1>3

LEMMA SomethingAsked ==
  ASSUME NEW s, Sequential(s)
  PROVE  DOMAIN s = 1..Len(s) /\ (s # <<>> <=> Len(s) > 0)
  BY DEF Sequential

------------------------------------------------------------------------------
(* Checked URLs *)

\* A URL that may be asked by an order.
Admitted(url, order) ==
  /\ url.scheme \in {"http", "https"}
  /\ \E k \in DOMAIN order.egress : order.egress[k].name = url.host.name /\ url.host.name # ""

LEMMA CheckedIsAdmitted ==
  ASSUME NEW order, NEW url, Check(Allowing(order.egress), url).error = "none"
  PROVE  Admitted(Check(Allowing(order.egress), url).value, order)
<1>1. /\ url # Junk /\ url.scheme # None /\ url.scheme \in {"http", "https"} /\ url.host # None
      /\ Allows(Allowing(order.egress), url.host)
      /\ Check(Allowing(order.egress), url) = Answer(Parsed(url))
  BY DEF Check, Failure
<1>2. Parsed(url).scheme = url.scheme /\ Parsed(url).host.name = url.host.name
  BY DEF Parsed
<1>3. url.host.name \in Allowing(order.egress)
  BY <1>1 DEF Allows
<1>4. \E k \in DOMAIN order.egress : order.egress[k].name = url.host.name /\ url.host.name # ""
  BY <1>3 DEF Allowing
<1>5. Answer(Parsed(url)).value = Parsed(url)
  BY DEF Answer
<1>6. Admitted(Parsed(url), order)
  BY <1>1, <1>2, <1>4 DEF Admitted
<1> QED BY <1>1, <1>5, <1>6

LEMMA HopIsAdmitted ==
  ASSUME NEW order, NEW at, NEW page, NextHop(Allowing(order.egress), at, page).error = "none"
  PROVE  Admitted(NextHop(Allowing(order.egress), at, page).value, order)
<1>1. /\ Check(Allowing(order.egress), Joined(at, page.to)).error = "none"
      /\ NextHop(Allowing(order.egress), at, page) = Check(Allowing(order.egress), Joined(at, page.to))
  BY DEF NextHop, Failure
<1> QED BY <1>1, CheckedIsAdmitted

LEMMA HopErrors ==
  ASSUME NEW policy, NEW at, NEW page, NextHop(policy, at, page).error # "none"
  PROVE  NextHop(policy, at, page).error \in {"Transport", "RedirectOffHost"}
  BY DEF NextHop, Failure

LEMMA CheckErrors ==
  ASSUME NEW policy, NEW url
  PROVE  Check(policy, url).error \in {"NotAUrl", "Scheme", "HostNotAllowed", "none"}
  BY DEF Check, Failure, Answer

\* What an item of the register says of a URL, against what is checked.
LEMMA RegisterForetells ==
  ASSUME NEW policy, NEW entry
  PROVE  LET allowed == RegisterItem(policy, entry).allowed
             error == Check(policy, entry.url).error
         IN /\ error = "none" => allowed
            /\ error \in {"NotAUrl", "HostNotAllowed"} => ~allowed
            /\ policy = {} => ~allowed
<1> DEFINE host == EntryHost(entry.url)
           open == Allows(policy, host)
<1>1. RegisterItem(policy, entry).allowed = IF host = None THEN FALSE ELSE open
  BY DEF RegisterItem
<1>2. Check(policy, entry.url).error = "none" => host = entry.url.host /\ host # None /\ open
  BY DEF Check, Failure, EntryHost
<1>3. Check(policy, entry.url).error = "NotAUrl" => host = None
  BY DEF Check, Failure, Answer, EntryHost
<1>4. Check(policy, entry.url).error = "HostNotAllowed" => ~open
  BY DEF Check, Failure, Answer, EntryHost
<1>5. policy = {} => ~open
  BY DEF Allows
<1> HIDE DEF host, open
<1> QED BY <1>1, <1>2, <1>3, <1>4, <1>5, Zenon

------------------------------------------------------------------------------
(* Consent *)

Named(order) == {i \in DOMAIN order.sources : order.sources[i].id = order.id}

LEMMA FoundIsNamed ==
  ASSUME NEW order \in Orders, FindSource(order.sources, order.id).error = "none"
  PROVE  \E i \in Named(order) :
           /\ FindSource(order.sources, order.id).value.source = order.sources[i]
           /\ order.sources[i].consented_by = None =>
                FindSource(order.sources, order.id).value.events = <<>>
<1>1. Named(order) # {} /\ Named(order) \subseteq Nat
  BY FetchAssumption DEF FindSource, Failure, Named
<1>2. Min(Named(order)) \in Named(order)
  BY <1>1, LowestNumber, Zenon DEF Min
<1> DEFINE source == order.sources[Min(Named(order))]
           events == IF source.consented_by = None THEN <<>>
                     ELSE <<[source |-> order.id, at |-> 0, kind |-> "consented", detail |-> source.consented_by]>>
<1>3. FindSource(order.sources, order.id) = Answer([source |-> source, events |-> events])
  BY <1>1, Zenon DEF FindSource, Named
<1>4. Answer([source |-> source, events |-> events]).value = [source |-> source, events |-> events]
  BY DEF Answer
<1>5. [source |-> source, events |-> events].source = source /\ [source |-> source, events |-> events].events = events
  BY Zenon
<1>6. source.consented_by = None => events = <<>>
  OBVIOUS
<1> QED BY <1>2, <1>3, <1>4, <1>5, <1>6, Zenon

LEMMA NobodyConsented == ConsentOf(<<>>) = Nothing
<1>1. <<>> \in Seq(Recorded) /\ Len(<<>>) = 0
  OBVIOUS
<1>2. IsNewest(NewestOf(<<>>, {"consented"}), <<>>, {"consented"}, 0)
  BY <1>1, NewestOfIsNewest, Zenon
<1>3. NewestOf(<<>>, {"consented"}) = Nothing
  BY <1>2 DEF IsNewest
<1> QED BY <1>3 DEF ConsentOf

LEMMA FindErrors ==
  ASSUME NEW sources, NEW id
  PROVE  FindSource(sources, id).error \in {"none", "NoSuchSource"}
  BY DEF FindSource, Failure, Answer
------------------------------------------------------------------------------
(* A command and its read *)

Refusals == {"NotAUrl", "HostNotAllowed", "FederationOff"}

\* What an order may make the process ask for.
MayAsk(order) ==
  /\ Allowing(order.egress) # {}
  /\ Check(Allowing(order.egress), order.url).error = "none"
  /\ \/ order.run = "fetch"
     \/ /\ order.run = "prove"
        /\ \E i \in Named(order) : order.sources[i].requester_pays => order.sources[i].consented_by # None

\* The parts of `fetch', each as the program could hold it.
FetchShape ==
  /\ fetch = [order |-> fetch.order, pc |-> fetch.pc, asked |-> fetch.asked, held |-> fetch.held,
              error |-> fetch.error, cost |-> fetch.cost]
  /\ fetch.order \in Orders /\ fetch.pc \in {"ordered", "answer", "body", "done"}
  /\ Sequential(fetch.asked) /\ fetch.held \in 0..MaxBytes

\* What has been asked was allowed to be, and a wait is for something asked;
\* a refusal of the order is a reason not to ask.
Sound ==
  /\ Len(fetch.asked) <= MaxRedirects + 1
  /\ fetch.error = "TooManyRedirects" => Len(fetch.asked) = MaxRedirects + 1
  /\ \A i \in 1..Len(fetch.asked) : Admitted(fetch.asked[i], fetch.order)
  /\ fetch.asked # <<>> => MayAsk(fetch.order)
  /\ fetch.pc = "ordered" => fetch.asked = <<>>
  /\ fetch.pc \in {"answer", "body"} => fetch.asked # <<>>
  /\ fetch.pc # "done" => fetch.error = "none" /\ fetch.cost = None
  /\ fetch.error \in Refusals =>
       Allowing(fetch.order.egress) = {} \/ Check(Allowing(fetch.order.egress), fetch.order.url).error = fetch.error

FetchInv == FetchShape /\ Sound /\ Measured

\* The end without a document.
LEMMA EndKeeps ==
  ASSUME FetchInv, NEW error, End(error), fetch.pc # "done",
         error = "none" => fetch.asked = <<>>,
         error = "TooManyRedirects" => Len(fetch.asked) = MaxRedirects + 1,
         error \in Refusals =>
           Allowing(fetch.order.egress) = {} \/ Check(Allowing(fetch.order.egress), fetch.order.url).error = error
  PROVE  FetchInv'
<1>1. fetch' = [order |-> fetch.order, pc |-> "done", asked |-> fetch.asked, held |-> 0, error |-> error,
                cost |-> fetch.cost]
  BY DEF FetchInv, FetchShape, End
<1>2. /\ fetch'.order = fetch.order /\ fetch'.pc = "done" /\ fetch'.asked = fetch.asked /\ fetch'.held = 0
      /\ fetch'.error = error /\ fetch'.cost = fetch.cost
  BY <1>1
<1>3. FetchShape'
  BY <1>1, <1>2, FetchAssumption DEF FetchInv, FetchShape
<1>4. Sound'
  BY <1>2 DEF FetchInv, Sound
<1>5. Measured'
  BY <1>2, FetchAssumption DEF FetchInv, Sound, Measured
<1> QED BY <1>3, <1>4, <1>5 DEF FetchInv

\* One more request, if it may be asked.
LEMMA RequestKeeps ==
  ASSUME FetchInv, NEW url, Request(url), fetch.pc \in {"ordered", "answer"},
         Admitted(url, fetch.order), MayAsk(fetch.order)
  PROVE  FetchInv'
<1>1. CASE Len(fetch.asked) > MaxRedirects
  <2>1. End("TooManyRedirects") /\ Len(fetch.asked) = MaxRedirects + 1
    BY <1>1, FetchAssumption DEF Request, FetchInv, FetchShape, Sound, Sequential
  <2> QED BY <2>1, EndKeeps DEF Refusals
<1>2. CASE ~(Len(fetch.asked) > MaxRedirects)
  <2> DEFINE asked == Append(fetch.asked, url)
  <2>1. fetch' = [order |-> fetch.order, pc |-> "answer", asked |-> asked, held |-> fetch.held,
                  error |-> fetch.error, cost |-> fetch.cost]
    BY <1>2 DEF FetchInv, FetchShape, Request
  <2>2. /\ Sequential(asked) /\ Len(asked) = Len(fetch.asked) + 1 /\ asked # <<>>
        /\ asked[Len(fetch.asked) + 1] = url
        /\ \A i \in 1..Len(fetch.asked) : asked[i] = fetch.asked[i]
    BY OneMore DEF FetchInv, FetchShape
  <2> HIDE DEF asked
  <2>3. /\ fetch'.order = fetch.order /\ fetch'.pc = "answer" /\ fetch'.asked = asked
        /\ fetch'.held = fetch.held /\ fetch'.error = fetch.error /\ fetch'.cost = fetch.cost
    BY <2>1
  <2>4. FetchShape'
    BY <2>1, <2>2, <2>3 DEF FetchInv, FetchShape
  <2>5. Len(fetch.asked) \in Nat /\ fetch.error = "none" /\ fetch.cost = None
    BY DEF FetchInv, FetchShape, Sound, Sequential
  <2>6. \A i \in 1..Len(asked) : Admitted(asked[i], fetch.order)
    <3> TAKE i \in 1..Len(asked)
    <3>1. CASE i = Len(fetch.asked) + 1
      BY <2>2, <3>1
    <3>2. CASE i # Len(fetch.asked) + 1
      <4>1. i \in 1..Len(fetch.asked)
        BY <2>2, <2>5, <3>2
      <4>2. asked[i] = fetch.asked[i] /\ Admitted(fetch.asked[i], fetch.order)
        BY <2>2, <4>1 DEF FetchInv, Sound
      <4> QED BY <4>2
    <3> QED BY <3>1, <3>2
  <2>7. Sound'
    <3>1. Len(asked) <= MaxRedirects + 1
      BY <1>2, <2>2, <2>5, FetchAssumption
    <3> QED BY <2>2, <2>3, <2>5, <2>6, <3>1 DEF Sound, Refusals
  <2>8. Measured'
    BY <2>3, <2>5, FetchAssumption DEF FetchInv, FetchShape, Measured
  <2> QED BY <2>4, <2>7, <2>8 DEF FetchInv
<1> QED BY <1>1, <1>2

\* The beginning of a read that the command agrees to.
LEMMA ReadKeeps ==
  ASSUME FetchInv, Read, fetch.pc = "ordered",
         \/ fetch.order.run = "fetch"
         \/ /\ fetch.order.run = "prove"
            /\ \E i \in Named(fetch.order) :
                 fetch.order.sources[i].requester_pays => fetch.order.sources[i].consented_by # None
  PROVE  FetchInv'
<1> DEFINE policy == Allowing(fetch.order.egress)
           first == Check(policy, fetch.order.url)
<1>1. CASE policy = {}
  <2>1. End("FederationOff")
    BY <1>1 DEF Read, Policy
  <2> QED BY <1>1, <2>1, EndKeeps DEF Refusals
<1>2. CASE policy # {} /\ first.error # "none"
  <2>1. End(first.error)
    BY <1>2 DEF Read, Policy
  <2>2. first.error \in {"NotAUrl", "Scheme", "HostNotAllowed"}
    BY <1>2, CheckErrors
  <2> QED BY <2>1, <2>2, EndKeeps DEF Refusals
<1>3. CASE policy # {} /\ first.error = "none"
  <2>1. Request(first.value)
    BY <1>3 DEF Read, Policy
  <2>2. Admitted(first.value, fetch.order)
    BY <1>3, CheckedIsAdmitted
  <2>3. MayAsk(fetch.order)
    BY <1>3 DEF MayAsk
  <2> QED BY <2>1, <2>2, <2>3, RequestKeeps
<1> QED BY <1>1, <1>2, <1>3

LEMMA FetchKept == FetchInv /\ [FetchNext]_fetch => FetchInv'
<1> SUFFICES ASSUME FetchInv, [FetchNext]_fetch PROVE FetchInv'
  OBVIOUS
<1>1. CASE Allowlist
  BY <1>1, EndKeeps DEF Allowlist, Ordered, FetchInv, Sound, Refusals
<1>2. CASE Consent
  <2>1. fetch.pc = "ordered" /\ fetch.asked = <<>>
    BY <1>2 DEF Consent, Ordered, FetchInv, Sound
  <2> QED BY <1>2, <2>1, FindErrors, EndKeeps DEF Consent, Refusals
<1>3. CASE Prove
  <2> DEFINE found == FindSource(fetch.order.sources, fetch.order.id)
             agreed == MayRead(found.value.source.requester_pays, found.value.events)
  <2>1. fetch.pc = "ordered" /\ fetch.order.run = "prove" /\ fetch.order \in Orders
    BY <1>3 DEF Prove, Ordered, FetchInv, FetchShape
  <2>2. CASE found.error # "none"
    <3>1. End(found.error) /\ found.error = "NoSuchSource"
      BY <1>3, <2>2, FindErrors DEF Prove
    <3> QED BY <2>1, <3>1, EndKeeps DEF Refusals
  <2>3. CASE found.error = "none" /\ ~agreed
    <3>1. End("NoConsent")
      BY <1>3, <2>3 DEF Prove
    <3> QED BY <2>1, <3>1, EndKeeps DEF Refusals
  <2>4. CASE found.error = "none" /\ agreed
    <3>1. Read
      BY <1>3, <2>4 DEF Prove
    <3>2. PICK i \in Named(fetch.order) :
            /\ found.value.source = fetch.order.sources[i]
            /\ fetch.order.sources[i].consented_by = None => found.value.events = <<>>
      BY <2>1, <2>4, FoundIsNamed
    <3>3. ASSUME fetch.order.sources[i].requester_pays, fetch.order.sources[i].consented_by = None
          PROVE  FALSE
      <4>1. found.value.events = <<>> /\ found.value.source.requester_pays
        BY <3>2, <3>3
      <4>2. ConsentOf(found.value.events) = Nothing
        BY <4>1, NobodyConsented
      <4> QED BY <2>4, <4>1, <4>2 DEF MayRead
    <3> QED BY <2>1, <3>1, <3>3, ReadKeeps
  <2> QED BY <2>2, <2>3, <2>4
<1>4. CASE Fetch
  BY <1>4, ReadKeeps DEF Fetch, Ordered
<1>5. ASSUME NEW page \in Pages, Moved(page) PROVE FetchInv'
  <2> DEFINE next == NextHop(Policy, fetch.asked[Len(fetch.asked)], page)
  <2>1. fetch.pc = "answer" /\ MayAsk(fetch.order) /\ Policy = Allowing(fetch.order.egress)
    BY <1>5 DEF Moved, FetchInv, Sound, Policy
  <2>2. CASE next.error # "none"
    <3>1. End(next.error) /\ next.error \in {"Transport", "RedirectOffHost"}
      BY <1>5, <2>2, HopErrors DEF Moved
    <3> QED BY <2>1, <3>1, EndKeeps DEF Refusals
  <2>3. CASE next.error = "none"
    <3>1. Request(next.value)
      BY <1>5, <2>3 DEF Moved
    <3>2. Admitted(next.value, fetch.order)
      BY <2>1, <2>3, HopIsAdmitted
    <3> QED BY <2>1, <3>1, <3>2, RequestKeeps
  <2> QED BY <2>2, <2>3
<1>6. ASSUME NEW page \in Pages, Denied(page) PROVE FetchInv'
  BY <1>6, EndKeeps DEF Denied, Refusals
<1>7. ASSUME NEW page \in Pages, Found(page) PROVE FetchInv'
  <2>1. CASE End("TooLarge")
    BY <1>7, <2>1, EndKeeps DEF Found, Refusals
  <2>2. CASE fetch' = [fetch EXCEPT !.pc = "body"]
    <3>1. /\ fetch' = [order |-> fetch.order, pc |-> "body", asked |-> fetch.asked, held |-> fetch.held,
                       error |-> fetch.error, cost |-> fetch.cost]
          /\ fetch.pc = "answer"
      BY <1>7, <2>2 DEF FetchInv, FetchShape, Found
    <3>2. /\ fetch'.order = fetch.order /\ fetch'.pc = "body" /\ fetch'.asked = fetch.asked
          /\ fetch'.held = fetch.held /\ fetch'.error = fetch.error /\ fetch'.cost = fetch.cost
      BY <3>1
    <3>3. FetchShape'
      BY <3>1, <3>2 DEF FetchInv, FetchShape
    <3>4. Sound' /\ Measured'
      BY <3>1, <3>2 DEF FetchInv, Sound, Measured
    <3> QED BY <3>3, <3>4 DEF FetchInv
  <2> QED BY <1>7, <2>1, <2>2 DEF Found
<1>8. ASSUME NEW size \in Chunks, ReadCapped(size) PROVE FetchInv'
  <2>1. CASE End("TooLarge")
    BY <1>8, <2>1, EndKeeps DEF ReadCapped, Refusals
  <2>2. CASE ~(fetch.held + size > MaxBytes)
    <3>1. /\ fetch' = [order |-> fetch.order, pc |-> "body", asked |-> fetch.asked, held |-> fetch.held + size,
                       error |-> fetch.error, cost |-> fetch.cost]
          /\ fetch.pc = "body"
      BY <1>8, <2>2 DEF FetchInv, FetchShape, ReadCapped
    <3>2. /\ fetch'.order = fetch.order /\ fetch'.pc = "body" /\ fetch'.asked = fetch.asked
          /\ fetch'.held = fetch.held + size /\ fetch'.error = fetch.error /\ fetch'.cost = fetch.cost
      BY <3>1
    <3>3. fetch.held + size \in 0..MaxBytes
      BY <2>2, FetchAssumption DEF FetchInv, FetchShape
    <3>4. FetchShape'
      BY <3>1, <3>2, <3>3 DEF FetchInv, FetchShape
    <3>5. Sound' /\ Measured'
      BY <3>1, <3>2, <3>3, FetchAssumption DEF FetchInv, Sound, Measured
    <3> QED BY <3>4, <3>5 DEF FetchInv
  <2> QED BY <1>8, <2>1, <2>2 DEF ReadCapped
<1>9. ASSUME NEW json \in BOOLEAN, Whole(json) PROVE FetchInv'
  <2>1. CASE End("Transport")
    BY <1>9, <2>1, EndKeeps DEF Whole, Refusals
  <2>2. CASE ~End("Transport")
    <3> DEFINE cost == [bytes |-> fetch.held, requests |-> Len(fetch.asked)]
    <3>1. /\ fetch' = [order |-> fetch.order, pc |-> "done", asked |-> fetch.asked, held |-> fetch.held,
                       error |-> fetch.error, cost |-> cost]
          /\ fetch.pc = "body"
      BY <1>9, <2>2 DEF FetchInv, FetchShape, Whole
    <3>2. cost \in [bytes : Nat, requests : Nat]
      BY FetchAssumption DEF FetchInv, FetchShape, Sequential
    <3>3. cost # None
      BY <3>2, FetchAssumption
    <3>4. /\ fetch'.order = fetch.order /\ fetch'.pc = "done" /\ fetch'.asked = fetch.asked
          /\ fetch'.held = fetch.held /\ fetch'.error = fetch.error /\ fetch'.cost = cost
      BY <3>1
    <3>5. FetchShape'
      BY <3>1, <3>4 DEF FetchInv, FetchShape
    <3>6. Sound'
      BY <3>1, <3>4 DEF FetchInv, Sound
    <3>7. Measured'
      BY <3>1, <3>3, <3>4 DEF FetchInv, Sound, Measured
    <3> QED BY <3>5, <3>6, <3>7 DEF FetchInv
  <2> QED BY <2>1, <2>2
<1>10. CASE Broken
  BY <1>10, EndKeeps DEF Broken, Refusals
<1>11. CASE Timeout
  BY <1>11, EndKeeps DEF Timeout, Refusals
<1>12. CASE UNCHANGED fetch
  <2>1. FetchShape' /\ Sound' /\ Measured'
    BY <1>12 DEF FetchInv, FetchShape, Sound, Measured
  <2> QED BY <2>1 DEF FetchInv
<1> QED
  BY <1>1, <1>2, <1>3, <1>4, <1>5, <1>6, <1>7, <1>8, <1>9, <1>10, <1>11, <1>12 DEF FetchNext

LEMMA FetchBegins == FetchInit => FetchInv
<1> SUFFICES ASSUME NEW order \in Orders,
                    fetch = [order |-> order, pc |-> "ordered", asked |-> <<>>, held |-> 0, error |-> "none",
                             cost |-> None]
             PROVE  FetchInv
  BY DEF FetchInit
<1>1. FetchShape
  BY NothingAsked, FetchAssumption DEF FetchShape
<1>2. Sound
  BY NothingAsked, FetchAssumption DEF Sound, Refusals
<1>3. Measured
  BY FetchAssumption DEF Measured
<1> QED BY <1>1, <1>2, <1>3 DEF FetchInv

LEMMA FetchIsAllowed == FetchInv => FetchesStayAllowed
<1> SUFFICES ASSUME FetchInv PROVE FetchesStayAllowed
  OBVIOUS
<1>1. HopsAllowed
  BY SomethingAsked DEF FetchInv, FetchShape, Sound, Admitted, HopsAllowed
<1>2. ReadAfterConsent
  BY DEF FetchInv, Sound, MayAsk, Named, ReadAfterConsent
<1>3. Foretold
  <2> DEFINE entry == [id |-> 0, url |-> fetch.order.url, requester_pays |-> FALSE]
             says == Register(Policy, <<entry>>)
             item == RegisterItem(Policy, entry)
  <2>1. says.federation_off = (Policy = {}) /\ says.register[1] = item
    <3> DEFINE items == [i \in DOMAIN <<entry>> |-> RegisterItem(Policy, <<entry>>[i])]
    <3>1. items[1] = item
      <4> HIDE DEF entry
      <4>1. 1 \in DOMAIN <<entry>> /\ <<entry>>[1] = entry
        OBVIOUS
      <4> QED BY <4>1, Zenon
    <3> HIDE DEF items
    <3>2. \A b : [register |-> items, federation_off |-> b].federation_off = b
      BY Zenon
    <3>3. \A b : [register |-> items, federation_off |-> b].register = items
      BY Zenon
    <3> QED BY <3>1, <3>2, <3>3, Zenon DEF Register, items
  <2>2. entry.url = fetch.order.url
    OBVIOUS
  <2> HIDE DEF entry
  <2>3. /\ Check(Policy, fetch.order.url).error = "none" => item.allowed
        /\ Check(Policy, fetch.order.url).error \in {"NotAUrl", "HostNotAllowed"} => ~item.allowed
        /\ Policy = {} => ~item.allowed
    BY <2>2, RegisterForetells
  <2>4. fetch.asked # <<>> => Policy # {} /\ Check(Policy, fetch.order.url).error = "none"
    BY DEF FetchInv, Sound, MayAsk, Policy
  <2>5. fetch.error \in {"NotAUrl", "HostNotAllowed", "FederationOff"} =>
          Policy = {} \/ Check(Policy, fetch.order.url).error = fetch.error
    BY DEF FetchInv, Sound, Refusals, Policy
  <2>6. Check(Policy, fetch.order.url).error # "FederationOff"
    BY CheckErrors
  <2>7. fetch.error \in {"NotAUrl", "HostNotAllowed", "FederationOff"} => ~item.allowed
    BY <2>3, <2>5, <2>6
  <2>8. fetch.asked # <<>> => item.allowed /\ ~(Policy = {})
    BY <2>3, <2>4
  <2>9. /\ fetch.asked # <<>> => says.register[1].allowed /\ ~says.federation_off
        /\ fetch.error \in {"NotAUrl", "HostNotAllowed", "FederationOff"} => ~says.register[1].allowed
    <3> HIDE DEF says, item
    <3> QED BY <2>1, <2>7, <2>8, Zenon
  <2> QED BY <2>9, Zenon DEF Foretold, entry
<1> QED BY <1>1, <1>2, <1>3 DEF FetchInv, FetchesStayAllowed

\* For any list of hosts, any file of sources, any caps and a web that answers
\* as it likes: no hop of a read leaves the hosts allowed, no more is held or
\* asked than the caps say, nothing that bills its reader is read unagreed,
\* and the register foretells what is refused.
THEOREM ReadsStayAllowed == FetchSpec => []FetchesStayAllowed
  BY FetchBegins, FetchKept, FetchIsAllowed, PTL DEF FetchSpec
===============================================================================
