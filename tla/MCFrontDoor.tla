----------------------------- MODULE MCFrontDoor -----------------------------
(***************************************************************************)
(* What is at the door of a deployment, for TLC, one scene at a time: the  *)
(* drop directories with their loops (FileDrop); what is said of the       *)
(* sources (SourceBus); one `swath sources' command over a file of four    *)
(* entries and a list of hosts, on a web of three hosts (StacFetch); or    *)
(* one question to a part that a server is fitted with: its routes, a      *)
(* preview of a graph, its configuration, the levels of a pyramid.  What   *)
(* is not of the scene rests.                                              *)
(***************************************************************************)
EXTENDS FileDrop, SourceBus, StacFetch, TLC

CONSTANTS
  drop1, drop2, MaxTileMatrix, WordMax, ByteMax, SamplesPerEdge, ModuleMax, GraphBodyLimit, MaxUploadBytes,
  MaxZoom, Half, PreviewMaxZoom, TileSizes, PreviewTileSize, PreviewCeiling, NotAnObject,
  U64Max, NaN, LayoutVersion, Chunk, MinDim

VARIABLES
  scene,    \* "drop", "read" or "unread", "command" or "question"
  question, \* what is asked, or NoQuestion
  answer    \* what is answered, or None

asking == <<question, answer>>
all == <<vars, busVars, fetch, asking, scene>>

------------------------------------------------------------------------------
(* Drop directories *)

\* Manifests 1 and 2 go to one directory, 3 to the other.
MCHome == [n \in Names |-> IF n = 3 THEN drop2 ELSE drop1]

Bounds(drop, read, reference, catalog, outage, crash) ==
  [kind \in Happenings |->
     CASE kind = "drop" -> drop [] kind = "read" -> read [] kind = "reference" -> reference
       [] kind = "catalog" -> catalog [] kind = "outage" -> outage [] kind = "crash" -> crash]

MCFaulty == Bounds(2, 1, 1, 1, 1, 1)
MCOneOutage == Bounds(1, 0, 0, 0, 1, 0)

------------------------------------------------------------------------------
(* A web, and the commands over it *)

Host(name, as) == [name |-> name, as |-> as]
Url(scheme, host, page) == [scheme |-> scheme, user |-> FALSE, host |-> Host(host, "plain"), page |-> page]
Path(page) == [scheme |-> None, user |-> FALSE, host |-> None, page |-> page]

Head200(declared) == [status |-> "ok", to |-> None, declared |-> declared]
MCPages ==
  {Head200(declared) : declared \in {None, 2, MaxBytes + 1}}
  \cup {[status |-> "error", to |-> None, declared |-> None]}
  \cup [status : {"moved"}, declared : {None},
        to : {None, Junk, Path(2), Url("http", "b", 1), Url("https", "c", 1), Url("ftp", "a", 1),
              [Url("https", "a", 2) EXCEPT !.host.as = "capital"], [Url("http", "b", 1) EXCEPT !.host = None]}]

Given ==
  { Url("http", "a", 1), [Url("https", "a", 1) EXCEPT !.host.as = "capital", !.user = TRUE], Url("http", "c", 1),
    Url("ftp", "a", 1), Path(1), Junk, [Url("http", "a", 1) EXCEPT !.host = None] }

Lists == {<<>>, <<Host("", "plain")>>, <<Host("a", "plain")>>, <<Host("d", "plain"), Host("b", "padded"), Host("a", "capital")>>}

\* An id may be declared twice: the first one counts.
Source(id, billed, by) == [id |-> id, requester_pays |-> billed, consented_by |-> by]
Declared ==
  <<Source("free", FALSE, None), Source("billed", TRUE, None), Source("agreed", TRUE, 7), Source("billed", TRUE, 7)>>

Commands ==
  [run : {"fetch"}, id : {None}, url : Given]
  \cup [run : {"prove"}, id : {"free", "billed", "agreed", "gone"}, url : {Url("http", "a", 1)}]
  \cup [run : {"consent", "allowlist"}, id : {"free", "gone"}, url : {None}]

MCOrders ==
  {[run |-> command.run, id |-> command.id, url |-> command.url, egress |-> hosts, sources |-> Declared] :
     command \in Commands, hosts \in Lists}

\* A process that has come to its end, having looked at an empty list.
Idle ==
  [order |-> [run |-> "allowlist", id |-> "free", url |-> None, egress |-> <<>>, sources |-> Declared],
   pc |-> "done", asked |-> <<>>, held |-> 0, error |-> "none", cost |-> None]

------------------------------------------------------------------------------
(* Questions *)

Api == INSTANCE MCApi
Command == INSTANCE MCCommands

ASSUME Api!GridAssumption

NoQuestion == [kind |-> "none", of |-> None]

Question ==
  \/ \E i \in DOMAIN Api!RouteAsked : \E q \in Api!RouteAsked[i] : question = [kind |-> "route", of |-> q]
  \/ \E i \in DOMAIN Api!PreviewAsked : \E q \in Api!PreviewAsked[i] : question = [kind |-> "preview", of |-> q]
  \/ \E i \in DOMAIN Command!ConfigAsked : \E q \in Command!ConfigAsked[i] : question = [kind |-> "config", of |-> q]
  \/ \E q \in Command!Buildings \cup Command!Batches : question = [kind |-> "level", of |-> q]

Answered(kind, reply) == question.kind = kind /\ answer = None /\ answer' = reply /\ UNCHANGED question

AnswerRoute == question.kind = "route" /\ Answered("route", Api!RouteAnswer(question.of))
AnswerPreview == question.kind = "preview" /\ Answered("preview", Api!PreviewAnswer(question.of))
AnswerConfig == question.kind = "config" /\ Answered("config", Command!ConfigAnswer(question.of))
AnswerLevel == question.kind = "level" /\ Answered("level", Command!LevelAnswer(question.of))

Replied(kind) == question.kind = kind /\ answer # None

------------------------------------------------------------------------------
(* One scene *)

DropRests == Init /\ \A s \in Sources : health[s] = "missing"
BusRests == BusInit /\ resolves = {}
FetchRests == fetch = Idle
NothingAsked == question = NoQuestion /\ answer = None

DropInit == scene = "drop" /\ Init /\ BusRests /\ FetchRests /\ NothingAsked

\* Either a stream is read while tiles are rendered, over one event fewer and
\* with no credential set; or nobody subscribes and nothing is rendered.
ServerInit ==
  /\ scene \in {"read", "unread"} /\ BusInit
  /\ DropRests /\ FetchRests /\ NothingAsked

CommandInit == scene = "command" /\ FetchInit /\ DropRests /\ BusRests /\ NothingAsked

QuestionInit == scene = "question" /\ Question /\ answer = None /\ DropRests /\ BusRests /\ FetchRests

\* What failed so far: at most MaxTroubles of the five things that may.
Troubles == MapThenSumSet(LAMBDA kind : used[kind], Happenings \ {"drop"})
MaxTroubles == 2

DropNext == scene = "drop" /\ Next /\ Troubles' <= MaxTroubles /\ UNCHANGED <<busVars, fetch, asking, scene>>

\* What is on its way or was sent: events of the tasks and tiles' traces.
Carried ==
  Cardinality({p \in Procs : task[p].pc \in {"stamped", "send", "push"}}) + Len(log)
    + Cardinality({r \in Renders : render[r] # None}) + Cardinality({i \in DOMAIN bus : bus[i].source = None})

ServerNext ==
  /\ scene \in {"read", "unread"} /\ BusNext
  /\ IF scene = "read" THEN Carried' < MaxEvents ELSE stream' = stream /\ render' = render
  /\ UNCHANGED <<vars, fetch, asking, scene>>

CommandNext == scene = "command" /\ FetchNext /\ UNCHANGED <<vars, busVars, asking, scene>>

QuestionNext == (AnswerRoute \/ AnswerPreview \/ AnswerConfig \/ AnswerLevel) /\ UNCHANGED <<vars, busVars, fetch, scene>>

DoorNext == DropNext \/ ServerNext \/ CommandNext \/ QuestionNext

\* The fairness of the drop directories, while they are the scene.
Dropping(A) == scene = "drop" /\ A
DropFairness ==
  \A s \in Sources :
    /\ WF_vars(Dropping(Watch(s))) /\ WF_vars(Dropping(Wake(s))) /\ WF_vars(Dropping(Ingest(s)))
    /\ SF_vars(Dropping(Acquire(s)))

DoorSpec ==
  /\ DropInit \/ ServerInit \/ CommandInit \/ QuestionInit
  /\ [][DoorNext]_all /\ DropFairness /\ BusFairness

DropOnly == DropInit /\ [][DoorNext]_all /\ DropFairness
BusOnly == ServerInit /\ [][DoorNext]_all /\ BusFairness

------------------------------------------------------------------------------
\* What a server says of itself is what it serves, of every operation that
\* changes something and of none that read-only serving leaves out; a tile,
\* the bounds of a layer and the list of the sources answer what was asked,
\* or with a fault there is.
ServesAsAdvertised == Replied("route") => Api!RouteSound(question.of, answer)

\* A preview refuses what publishing refuses and shows what it would serve,
\* framed by what its graph names, within the operator's ceilings; and the
\* module and the tiles that are kept of it are found as they were kept, or
\* not at all.
PreviewsAsPublished == Replied("preview") => Api!PreviewSound(question.of, answer)

\* Each knob is heard from the most specific place that gives it, refusals
\* are for faults that are there, and what the catalog keeps of a layer makes
\* the rendering that is served of it.
ConfiguredAsGiven == Replied("config") => Command!ConfigSound(question.of, answer)

\* A window of a level shows the blocks under it, to a reader of Zarr too, or
\* is refused; a run over what a killed one left ends as one that was never
\* interrupted; and a batch over layers makes of each asset what its own run
\* would.
LevelsShowBlocks == Replied("level") => Command!LevelSound(question.of, answer)
==============================================================================
