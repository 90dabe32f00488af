------------------------------ MODULE SourceBus ------------------------------
(***************************************************************************)
(* What a running deployment says of its sources (swath-cli sources.rs,    *)
(* swath-api traces.rs and sources.rs, swath-core sources.rs).             *)
(*                                                                         *)
(* Each source has an ingest loop and a probe loop.  Whatever they observe *)
(* they stamp, publish on the trace bus under the publisher's mutex, where *)
(* a throttle folds routine events into the next one, and push on the      *)
(* event log, from which the API derives the source's status.  Tile        *)
(* renders publish on the same bus without the mutex; subscribers read the *)
(* bus through a ring of Capacity events.                                  *)
(***************************************************************************)
EXTENDS Integers, FiniteSets, Sequences, SourceStatus, Outcome

CONSTANTS
  SourceIds,    \* configured sources
  Credentialed, \* those that name a credential profile
  Renders,      \* tile requests that may be under way together
  Subscribers,  \* `GET /traces' streams
  Capacity,     \* of the broadcast ring
  Window,       \* the throttle's window, in clock units
  MaxClock,     \* bound on the clock
  MaxEvents,    \* bound on the events recorded
  MaxTraces     \* bound on the traces published

ASSUME SourceBusAssumption ==
  /\ Credentialed \subseteq SourceIds
  /\ Capacity \in Nat \ {0} /\ Window \in Nat
  /\ MaxClock \in Nat /\ MaxEvents \in Nat /\ MaxTraces \in Nat

VARIABLES
  clock,     \* wall clock and monotonic clock, in the unit the stamps have
  resolves,  \* the sources whose profile is set in the process environment
  task,      \* the start-up, ingest and probe task of each source
  holder,    \* the task inside the publisher's mutex, or None
  throttle,  \* per source: last admission and events suppressed since
  nextId,    \* the counter ids are taken from
  bus,       \* every event sent, oldest first
  log,       \* the event log, in the order of the pushes
  render,    \* the id each tile request holds, or None
  stream     \* each subscriber: where it joined and reads, heard and missed

busVars == <<clock, resolves, task, holder, throttle, nextId, bus, log, render, stream>>

Procs == SourceIds \X {"boot", "ingest", "probe"}

\* What stands for an absent value is no value.
ASSUME NoneAssumption ==
  /\ None \notin Procs /\ None \notin SourceIds
  /\ None \notin [last : Nat, suppressed : Nat]

------------------------------------------------------------------------------
(* Recording an event *)

\* Credential kinds have no wire name of their own; only "failed" is urgent.
WireName(kind) ==
  IF kind \in {"started", "ingested", "polled", "failed", "stopped"} THEN kind ELSE "unknown"

Urgent(kind) == WireName(kind) = "failed"

\* `record' begins: the event is stamped with the time it was observed.
Observe(p, kind, detail) ==
  /\ Len(log) + Cardinality({q \in Procs : task[q].pc \in {"stamped", "send", "push"}}) < MaxEvents
  /\ task' = [task EXCEPT ![p] =
       [pc |-> "stamped", id |-> 0, coalesced |-> 0,
        event |-> [source |-> p[1], at |-> clock, kind |-> kind, detail |-> detail]]]
  /\ UNCHANGED <<clock, resolves, holder, throttle, nextId, bus, log, render, stream>>

\* Variant: the count of what was folded in is not reset.
AdmitKeepsCount(p) ==
  LET s == p[1] IN
  /\ throttle' = [throttle EXCEPT ![s] =
       [last |-> clock, suppressed |-> IF @ = None THEN 0 ELSE @.suppressed]]
  /\ task' = [task EXCEPT ![p].pc = "send", ![p].id = nextId,
       ![p].coalesced = IF throttle[s] = None THEN 0 ELSE throttle[s].suppressed]
  /\ nextId' = nextId + 1
  /\ holder' = p
  /\ UNCHANGED <<clock, resolves, bus, log, render, stream>>

\* The event goes out, with the number of those folded into it, and takes
\* its id; the mutex is held until it is sent.
Admit(p) ==
  LET s == p[1] IN
  /\ throttle' = [throttle EXCEPT ![s] = [last |-> clock, suppressed |-> 0]]
  /\ task' = [task EXCEPT ![p].pc = "send", ![p].id = nextId,
       ![p].coalesced = IF throttle[s] = None THEN 0 ELSE throttle[s].suppressed]
  /\ nextId' = nextId + 1
  /\ holder' = p
  /\ UNCHANGED <<clock, resolves, bus, log, render, stream>>

\* The event is counted and not sent.
Suppress(p) ==
  /\ throttle' = [throttle EXCEPT ![p[1]].suppressed = @ + 1]
  /\ task' = [task EXCEPT ![p].pc = "push"]
  /\ UNCHANGED <<clock, resolves, holder, nextId, bus, log, render, stream>>

\* Variant: failures are throttled like everything else.
TooSoonForAny(kind, state) == state # None /\ clock - state.last < Window

\* A routine event of a source that was admitted within the window.
TooSoon(kind, state) == ~Urgent(kind) /\ state # None /\ clock - state.last < Window

\* Variant: tasks publish side by side.
PublishUnlocked(p) ==
  /\ task[p].pc = "stamped"
  /\ IF TooSoon(task[p].event.kind, throttle[p[1]]) THEN Suppress(p) ELSE Admit(p)

\* `publish_at', one task at a time.
Publish(p) ==
  /\ task[p].pc = "stamped"
  /\ holder = None
  /\ IF TooSoon(task[p].event.kind, throttle[p[1]]) THEN Suppress(p) ELSE Admit(p)

Message(t) == [id |-> t.id, source |-> t.event.source, at |-> t.event.at,
               kind |-> WireName(t.event.kind), coalesced |-> t.coalesced]

\* `sender.send', and the mutex is released.
Send(p) ==
  /\ task[p].pc = "send"
  /\ bus' = Append(bus, Message(task[p]))
  /\ task' = [task EXCEPT ![p].pc = "push"]
  /\ holder' = None
  /\ UNCHANGED <<clock, resolves, throttle, nextId, log, render, stream>>

\* The registry's own count, last.  A credential check is followed by the
\* probe of the directory.
Push(p) ==
  /\ task[p].pc = "push"
  /\ log' = Append(log, task[p].event)
  /\ task' = [task EXCEPT ![p].pc =
       IF p[2] = "boot" THEN "done"
       ELSE IF task[p].event.kind \in {"credential_resolved", "credential_missing"}
            THEN "probe" ELSE "idle"]
  /\ UNCHANGED <<clock, resolves, holder, throttle, nextId, bus, render, stream>>

------------------------------------------------------------------------------
(* What is recorded *)

Started(s) == task[<<s, "boot">>].pc = "done"

\* Start-up records each source in turn, then spawns its two loops.
Start(s) ==
  /\ \A r \in SourceIds : task[<<r, "boot">>].pc \in {"idle", "done"}
  /\ task[<<s, "boot">>].pc = "idle"
  /\ Observe(<<s, "boot">>, "started", 0)

\* `ingest_loop': a granule is registered, or the directory or the catalog
\* refused.  A drop directory never runs dry.
IngestLoop(s) ==
  /\ Started(s) /\ task[<<s, "ingest">>].pc = "idle"
  /\ \/ Observe(<<s, "ingest">>, "ingested", 0)
     \/ Observe(<<s, "ingest">>, "failed", 1)

\* `check_credential', first thing after the probe loop's sleep.
CheckCredential(s) ==
  /\ Started(s) /\ s \in Credentialed
  /\ task[<<s, "probe">>].pc = "idle"
  /\ Observe(<<s, "probe">>,
             IF s \in resolves THEN "credential_resolved" ELSE "credential_missing", 0)

\* `probe_once': the directory is read, or is not, within the timeout.
Probe(s) ==
  /\ Started(s)
  /\ task[<<s, "probe">>].pc = IF s \in Credentialed THEN "probe" ELSE "idle"
  /\ \/ Observe(<<s, "probe">>, "polled", 0)
     \/ Observe(<<s, "probe">>, "failed", 2)

------------------------------------------------------------------------------
(* Tile renders and subscribers *)

Trace(i) == [id |-> i, source |-> None, at |-> clock, kind |-> "trace", coalesced |-> 0]

TakeId(r) ==
  /\ render[r] = None
  /\ Cardinality({i \in DOMAIN bus : bus[i].source = None})
       + Cardinality({q \in Renders : render[q] # None}) < MaxTraces
  /\ render' = [render EXCEPT ![r] = nextId]
  /\ nextId' = nextId + 1
  /\ UNCHANGED <<clock, resolves, task, holder, throttle, bus, log, stream>>

SendTrace(r) ==
  /\ render[r] # None
  /\ bus' = Append(bus, Trace(render[r]))
  /\ render' = [render EXCEPT ![r] = None]
  /\ UNCHANGED <<clock, resolves, task, holder, throttle, nextId, log, stream>>

\* The router is up once every source was started.
Subscribe(c) ==
  /\ \A s \in SourceIds : Started(s)
  /\ stream[c] = None
  /\ stream' = [stream EXCEPT ![c] =
       [joined |-> Len(bus), cursor |-> Len(bus), heard |-> 0, missed |-> 0]]
  /\ UNCHANGED <<clock, resolves, task, holder, throttle, nextId, bus, log, render>>

\* Variant: after a lag the stream goes on with what is sent from then on.
LaggedToTail(t) ==
  LET missed == Len(bus) - Capacity - t.cursor
  IN [t EXCEPT !.cursor = Len(bus), !.missed = @ + missed]

\* Variant: the lag is reported, and reported again by the next read.
LaggedInPlace(t) == [t EXCEPT !.missed = Len(bus) - Capacity - t.cursor]

\* `Lagged': the count of the events evicted, and the stream goes on with
\* the oldest one the ring still holds.
Lagged(t) ==
  LET missed == Len(bus) - Capacity - t.cursor
  IN [t EXCEPT !.cursor = t.cursor + missed, !.missed = t.missed + missed]

\* The next event of the ring.
Heard(t) == [t EXCEPT !.cursor = t.cursor + 1, !.heard = t.heard + 1]

\* `poll_next' of one subscriber's stream.
Recv(c) ==
  /\ stream[c] # None
  /\ stream[c].cursor < Len(bus)
  /\ stream' = [stream EXCEPT ![c] =
       IF Len(bus) - stream[c].cursor > Capacity THEN Lagged(stream[c]) ELSE Heard(stream[c])]
  /\ UNCHANGED <<clock, resolves, task, holder, throttle, nextId, bus, log, render>>

\* The client goes: the receiver is dropped with the stream.
Disconnect(c) ==
  /\ stream[c] # None
  /\ stream' = [stream EXCEPT ![c] = None]
  /\ UNCHANGED <<clock, resolves, task, holder, throttle, nextId, bus, log, render>>

Tick ==
  /\ clock < MaxClock
  /\ clock' = clock + 1
  /\ UNCHANGED <<resolves, task, holder, throttle, nextId, bus, log, render, stream>>

------------------------------------------------------------------------------
BusInit ==
  /\ clock = 0
  /\ resolves \in SUBSET Credentialed
  /\ task = [p \in Procs |-> [pc |-> "idle", event |-> None, id |-> 0, coalesced |-> 0]]
  /\ holder = None
  /\ throttle = [s \in SourceIds |-> None]
  /\ nextId = 0
  /\ bus = <<>>
  /\ log = <<>>
  /\ render = [r \in Renders |-> None]
  /\ stream = [c \in Subscribers |-> None]

BusNext ==
  \/ \E s \in SourceIds : Start(s) \/ IngestLoop(s) \/ CheckCredential(s) \/ Probe(s)
  \/ \E p \in Procs : Publish(p) \/ Send(p) \/ Push(p)
  \/ \E r \in Renders : TakeId(r) \/ SendTrace(r)
  \/ \E c \in Subscribers : Subscribe(c) \/ Recv(c) \/ Disconnect(c)
  \/ Tick

\* A client that stays keeps reading its stream: the body is polled as long
\* as the connection takes what it yields.
BusFairness == \A c \in Subscribers : WF_busVars(Recv(c))

BusSpec == BusInit /\ [][BusNext]_busVars /\ BusFairness

------------------------------------------------------------------------------
(* Properties *)

OfSource(events, s) ==
  LET own[n \in 0..Len(events)] ==
        IF n = 0 THEN <<>>
        ELSE IF events[n].source = s THEN Append(own[n - 1], events[n]) ELSE own[n - 1]
  IN own[Len(events)]

\* The rows the API would serve now.
Row(s) == Item(OfSource(log, s), s \in Credentialed)

Messages == [id : Nat, source : SourceIds \cup {None}, at : Nat,
             kind : {"trace"} \cup {WireName(k) : k \in EventKinds}, coalesced : Nat]

\* Every variable holds what the program could hold there, and the mutex is
\* held by exactly the task that has an id and has not sent.
BusTypeInv ==
  /\ clock \in 0..MaxClock /\ nextId \in Nat
  /\ \A p \in Procs : /\ task[p].pc \in {"idle", "stamped", "send", "push", "probe", "done"}
                      /\ task[p].pc = "send" <=> holder = p
  /\ \A s \in SourceIds : throttle[s] # None =>
       throttle[s].last \in 0..clock /\ throttle[s].suppressed \in Nat
  /\ \A i \in DOMAIN bus : bus[i] \in Messages /\ bus[i].id < nextId
  /\ \A i \in DOMAIN log : log[i].source \in SourceIds /\ log[i].at \in 0..clock
  /\ \A c \in Subscribers : stream[c] # None => stream[c].cursor \in stream[c].joined..Len(bus)

\* An event of source s on the bus stands for itself and for those folded
\* into it; so does one that a task is about to send.
Told(s) ==
  UNION {{i} \X (0 .. bus[i].coalesced) : i \in {j \in DOMAIN bus : bus[j].source = s}}
Telling(s) ==
  UNION {{p} \X (0 .. task[p].coalesced) : p \in {q \in Procs : q[1] = s /\ task[q].pc = "send"}}

\* What the throttle has folded and not reported yet.
Held(s) == IF throttle[s] = None THEN 0 ELSE throttle[s].suppressed

\* The registry is the count and the bus is the news (sources.rs:32-37): at
\* every moment the events logged of a source, and those about to be, are
\* as many as those the bus carried or reported folded, plus those the
\* throttle holds.
BusAccountsForLog ==
  \A s \in SourceIds :
    Cardinality({i \in DOMAIN log : log[i].source = s})
      + Cardinality({p \in Procs : p[1] = s /\ task[p].pc \in {"send", "push"}})
    = Cardinality(Told(s)) + Cardinality(Telling(s)) + Held(s)

\* Failures are never throttled (traces.rs:199-206): each one logged was on
\* the bus before, with the instant the log has.
FailuresAreNews ==
  \A i \in DOMAIN log : log[i].kind = "failed" =>
    \E j \in DOMAIN bus : /\ bus[j].source = log[i].source
                          /\ bus[j].kind = "failed" /\ bus[j].at = log[i].at

\* The row says what the newest instant decides, whatever order the two
\* loops pushed in (sources.rs of swath-core, 444-458): failing exactly if
\* something failed then, and reachable only if nothing did.
RowIsNewest ==
  \A s \in SourceIds :
    LET own == OfSource(log, s)
        newest == {i \in DOMAIN own : \A j \in DOMAIN own : own[j].at <= own[i].at}
        bad == {i \in newest : own[i].kind \in {"failed", "credential_missing"}}
        row == Row(s)
    IN /\ (row.status.state = "unknown") <=> own = <<>>
       /\ (row.status.state = "failing") <=> bad # {}
       /\ (row.reachable = "true") <=> own # <<>> /\ bad = {}
       /\ bad # {} => /\ \A i \in bad : own[i].detail <= row.status.lastError
                      /\ \E i \in bad : own[i].detail = row.status.lastError
       /\ row.credential \in {"credential_resolved", "credential_missing"} =>
            ((row.credential = "credential_resolved") <=> s \in resolves)

\* A subscriber that fell behind is told of exactly what it lost
\* (traces.rs:14-19): every event since it joined was heard, was reported
\* missed, or is in its reach.
ToldOfLoss ==
  \A c \in Subscribers : stream[c] # None =>
    stream[c].heard + stream[c].missed = stream[c].cursor - stream[c].joined

\* A stream that stays open gets past every event: no lag ends or stalls it.
\* As no more than MaxEvents and MaxTraces are sent, to get past each of them
\* is to come up with the bus.
StreamsCatchUp ==
  \A c \in Subscribers : stream[c] # None ~> (stream[c] = None \/ stream[c].cursor = Len(bus))

------------------------------------------------------------------------------
(* What the documentation says and the code does not keep *)

\* The id of an event is a monotonic sequence number, by which a client
\* detects its own gaps (traces.rs:31-32).
IdsMonotonic == \A i, j \in DOMAIN bus : i < j => bus[i].id < bus[j].id
==============================================================================
