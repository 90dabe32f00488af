--------------------------- MODULE TileServingProofs ---------------------------
(* Proofs about TileServing, for any number of requests, layers and granules,  *)
(* any windows and instants, and any definitions a layer may be given; and     *)
(* about the planner, for all questions and any width of a byte count.         *)
EXTENDS TileServing, MCPlanner, Passes, TLAPS

Points == {"idle", "find", "probe", "render", "put", "done"}

Entries == [time : Instants, revision : UNION {Revisions[g] : g \in Granules}]

Drawn == UNION {TilesOf(l) : l \in Layers}

Request == [pc : Points, layer : Layers \cup {Absent}, coord : Coords \cup {Absent},
            window : Asked \cup {Absent}, def : Definition \cup {Absent},
            frame : Seq(Granule), tile : Drawn \cup {Absent}, reply : Replies \cup {Absent}]

Good(q) == q \in Request /\ RequestShape(q)

\* What TypeInv needs to be inductive: each variable is a function, on the
\* whole of its domain.
TileTypes ==
  /\ catalog \in [Granules -> Entries \cup {Absent}]
  /\ layers \in [Layers -> Definition \cup {Absent}]
  /\ req \in [Requests -> Request]

Found == {g \in Granules : catalog[g] # Absent}

\* And that among granules that were registered there is always a newest.
NewestInv ==
  \A found \in SUBSET Found :
    found # {} => \E g \in found : \A h \in found : NotBefore(g, h)

TileInv == TypeInv /\ TileTypes /\ NewestInv

------------------------------------------------------------------------------
(* Windows *)

LEMMA ExtremesOfTwo ==
  ASSUME NEW S, NEW a, NEW b, S \subseteq {a, b}, S \subseteq Int, S # {}
  PROVE  /\ \E x \in S : \A y \in S : x >= y
         /\ \E x \in S : \A y \in S : x <= y
<1>1. CASE a \in S /\ b \in S
  <2>1. a \in Int /\ b \in Int /\ \A y \in S : y = a \/ y = b
    BY <1>1
  <2>2. CASE a <= b
    <3>1. \A y \in S : b >= y /\ a <= y
      BY <2>1, <2>2
    <3> QED BY <1>1, <3>1
  <2>3. CASE b <= a
    <3>1. \A y \in S : a >= y /\ b <= y
      BY <2>1, <2>3
    <3> QED BY <1>1, <3>1
  <2> QED BY <2>1, <2>2, <2>3
<1>2. ASSUME NEW x \in S, \A y \in S : y = x
      PROVE  /\ \E m \in S : \A y \in S : m >= y
             /\ \E m \in S : \A y \in S : m <= y
  BY <1>2
<1>3. CASE ~(a \in S /\ b \in S)
  <2>1. PICK x \in S : TRUE
    OBVIOUS
  <2>2. \A y \in S : y = x
    BY <1>3
  <2> QED BY <1>2, <2>2
<1> QED BY <1>1, <1>3

\* The intersection admits what both windows admit.
LEMMA IntersectWithin ==
  ASSUME NEW a \in Windows, NEW b \in Windows, NEW t \in Int
  PROVE  /\ Intersect(a, b) \in Windows
         /\ Within(Intersect(a, b), t) <=> Within(a, t) /\ Within(b, t)
<1> DEFINE starts == {a.start, b.start} \ {Open}
           ends == {a.end, b.end} \ {Open}
           start == CHOOSE x \in starts : \A y \in starts : x >= y
           end == CHOOSE x \in ends : \A y \in ends : x <= y
           w == Intersect(a, b)
<1>1. starts \subseteq Instants /\ ends \subseteq Instants /\ Instants \subseteq Int
  BY TileAssumption DEF Windows, Bounds
<1>2. starts # {} => start \in starts /\ \A y \in starts : start >= y
  <2>1. starts # {} => \E x \in starts : \A y \in starts : x >= y
    BY <1>1, ExtremesOfTwo
  <2> QED BY <2>1
<1>3. ends # {} => end \in ends /\ \A y \in ends : end <= y
  <2>1. ends # {} => \E x \in ends : \A y \in ends : x <= y
    BY <1>1, ExtremesOfTwo
  <2> QED BY <2>1
<1>4. /\ w.start = IF starts = {} THEN Open ELSE start
      /\ w.end = IF ends = {} THEN Open ELSE end
      /\ w = [start |-> w.start, end |-> w.end]
  BY DEF Intersect
<1> HIDE DEF start, end, w
<1>5. w \in Windows
  BY <1>1, <1>2, <1>3, <1>4 DEF Windows, Bounds
<1>6. (w.start = Open \/ w.start <= t)
        <=> (a.start = Open \/ a.start <= t) /\ (b.start = Open \/ b.start <= t)
  BY <1>1, <1>2, <1>4, OpenAssumption
<1>7. (w.end = Open \/ t <= w.end)
        <=> (a.end = Open \/ t <= a.end) /\ (b.end = Open \/ t <= b.end)
  BY <1>1, <1>3, <1>4, OpenAssumption
<1> QED BY <1>5, <1>6, <1>7 DEF Within, w

\* The catalog finds, for a window, what lies in it.
LEMMA SearchWithin ==
  ASSUME Apart, TypeInv, NEW w \in Windows, NEW g \in Granules, catalog[g] # Absent
  PROVE  /\ Within(w, catalog[g].time) => ~Inverted(w)
         /\ ~Inverted(w) => (g \in Search(DatetimeFilter(w)) <=> Within(w, catalog[g].time))
<1>1. catalog[g].time \in Instants /\ Instants \subseteq Int
  BY TileAssumption DEF TypeInv
<1>2. w.start \in Instants \cup {Open} /\ w.end \in Instants \cup {Open}
  BY DEF Windows, Bounds
<1>3. Within(w, catalog[g].time) => ~Inverted(w)
  <2> SUFFICES ASSUME Within(w, catalog[g].time), w.start # Open, w.end # Open
               PROVE  ~(w.start > w.end)
    BY DEF Inverted
  <2>1. w.start \in Int /\ w.end \in Int /\ catalog[g].time \in Int
    BY <1>1, <1>2
  <2>2. w.start <= catalog[g].time /\ catalog[g].time <= w.end
    BY DEF Within
  <2> QED BY <2>1, <2>2
<1> DEFINE f == DatetimeFilter(w)
           time == catalog[g].time
<1>4. g \in Search(f) <=>
        /\ f.start = Open \/ f.start # f.end
        /\ f.start = Open \/ f.start <= time
        /\ f.end = Open \/ time <= f.end
  BY DEF Search
<1>5. CASE w.start # Open /\ w.start = w.end
  <2>1. f.start = w.start /\ f.end = w.start + 1
    BY <1>5 DEF DatetimeFilter
  <2>2. w.start \in Int /\ time \in Int /\ w.start + 1 # time
    BY <1>1, <1>2, <1>5 DEF Apart
  <2>3. Within(w, time) <=> time = w.start
    BY <1>5, <2>2, OpenAssumption DEF Within
  <2>4. g \in Search(f) <=> w.start <= time /\ time <= w.start + 1
    <3> HIDE DEF f, time
    <3>1. f.start # Open /\ f.end # Open /\ f.start # f.end
      BY <1>5, <2>1, <2>2, OpenAssumption
    <3> QED BY <1>4, <2>1, <3>1
  <2>5. g \in Search(f) <=> time = w.start
    <3> HIDE DEF f, time
    <3> QED BY <2>2, <2>4
  <2> QED BY <1>3, <2>3, <2>5
<1>6. CASE ~(w.start # Open /\ w.start = w.end)
  <2>1. f = w
    BY <1>6 DEF DatetimeFilter
  <2>2. g \in Search(w) <=> Within(w, time)
    BY <1>4, <1>6, <2>1 DEF Within
  <2> QED BY <1>3, <2>1, <2>2
<1> QED BY <1>5, <1>6

------------------------------------------------------------------------------
(* Requests *)

LEMMA EndedGood ==
  ASSUME NEW reply \in Replies \ {"tile"}
  PROVE  Good(Ended(reply)) /\ Ended(reply).reply = reply /\ Ended(reply).frame = <<>>
         /\ Ended(reply).pc = "done"
<1>1. /\ NoRequest \in Request
      /\ NoRequest.layer = Absent /\ NoRequest.coord = Absent /\ NoRequest.window = Absent
      /\ NoRequest.def = Absent /\ NoRequest.frame = <<>> /\ NoRequest.tile = Absent
  BY DEF NoRequest, Request, Points
<1>2. /\ Ended(reply) \in Request
      /\ Ended(reply).pc = "done" /\ Ended(reply).reply = reply /\ Ended(reply).frame = <<>>
  BY <1>1 DEF Ended, Request, Points
<1>3. DOMAIN Ended(reply) = DOMAIN NoRequest
  BY <1>1, <1>2 DEF Request
<1> QED BY <1>2, <1>3 DEF Good, RequestShape

LEMMA NoRequestGood == Good(NoRequest)
<1>1. NoRequest \in Request
  BY DEF NoRequest, Request, Points
<1>2. NoRequest.pc = "idle" /\ NoRequest.reply = Absent
  BY DEF NoRequest
<1>3. Absent # "tile"
  BY AbsentAssumption DEF Replies
<1> QED BY <1>1, <1>2, <1>3 DEF Good, RequestShape

LEMMA DefinitionType ==
  ASSUME NEW l \in Layers, NEW d \in Definitions[l]
  PROVE  d \in Definition /\ Len(d.branches) \in 1..2
BY TileAssumption

LEMMA FrameAppend ==
  ASSUME NEW n \in Nat, NEW f \in [1..n -> Granule], NEW g \in Granule
  PROVE  Append(f, g) \in [1..(n + 1) -> Granule] /\ Len(Append(f, g)) = n + 1
         /\ Append(f, g)[n + 1] = g /\ f \in Seq(Granule) /\ Append(f, g) \in Seq(Granule)
<1>1. f \in Seq(Granule) /\ Len(f) = n
  OBVIOUS
<1> DEFINE s == Append(f, g)
<1>2. s \in Seq(Granule) /\ Len(s) = n + 1
  BY <1>1
<1>3. s[n + 1] = g
  BY <1>1
<1> HIDE DEF s
<1>4. DOMAIN s = 1..(n + 1) /\ s = [i \in 1..(n + 1) |-> s[i]]
  BY <1>2
<1>5. \A i \in 1..(n + 1) : s[i] \in Granule
  BY <1>2
<1>6. s \in [1..(n + 1) -> Granule]
  BY <1>4, <1>5
<1> QED BY <1>1, <1>2, <1>3, <1>6 DEF s

LEMMA RenderedType ==
  ASSUME NEW l \in Layers, NEW d \in Definitions[l], NEW f \in Frames({Len(d.branches)}),
         NEW c \in Coords, NEW factor \in {1} \cup Factors
  PROVE  Rendered(d, f, c, factor) \in TilesOf(l)
<1>1. f \in [1..Len(d.branches) -> Granule]
  BY DEF Frames
<1> QED BY <1>1 DEF Rendered, TilesOf

\* What the handler holds once the frame is resolved, whatever comes next.
LEMMA ResolvedGood ==
  ASSUME NEW q \in Request, RequestShape(q), q.pc \in {"probe", "render", "put"},
         NEW v \in Request, v.layer = q.layer, v.coord = q.coord, v.def = q.def,
         v.frame = q.frame,
         \/ v.pc = "render" /\ v.window = q.window /\ v.reply = Absent
         \/ v.pc = "put" /\ v.window = q.window /\ v.reply = Absent /\ v.def.cached
            /\ v.tile \in TilesOf(v.layer)
         \/ v.pc = "done" /\ v.reply = "tile" /\ v.tile \in TilesOf(v.layer)
  PROVE  Good(v)
<1>1. /\ q.layer \in Layers /\ q.coord \in Coords /\ q.def \in Definitions[q.layer]
      /\ q.window \in Asked /\ q.frame \in Frames({Len(q.def.branches)})
  BY DEF RequestShape
<1>2. DOMAIN v = DOMAIN NoRequest
  BY DEF Request, NoRequest
<1>3. Absent # "tile"
  BY AbsentAssumption DEF Replies
<1> QED BY <1>1, <1>2, <1>3 DEF Good, RequestShape

\* A step that changes one request only.
LEMMA RequestStep ==
  ASSUME TileInv, NEW r \in Requests, NEW v, Good(v), Becomes(r, v)
  PROVE  /\ req' \in [Requests -> Request]
         /\ \A q \in Requests : req'[q].pc \in Points /\ RequestShape(req'[q])
         /\ req'[r] = v /\ \A q \in Requests : q # r => req'[q] = req[q]
<1>1. v \in Request /\ RequestShape(v) /\ v.pc \in Points
  BY DEF Good, Request
<1>2. req \in [Requests -> Request]
  BY DEF TileInv, TileTypes
<1>3. /\ req' \in [Requests -> Request]
      /\ req'[r] = v /\ \A q \in Requests : q # r => req'[q] = req[q]
  BY <1>1, <1>2 DEF Becomes
<1>4. \A q \in Requests : req'[q].pc \in Points /\ RequestShape(req'[q])
  BY <1>1, <1>3 DEF TileInv, TypeInv, Points
<1> QED BY <1>3, <1>4

\* What changes neither the catalog nor the layers, and of the cache at most
\* one entry.
LEMMA RequestTypes ==
  ASSUME TileInv, NEW r \in Requests, NEW v, Good(v), Becomes(r, v),
         UNCHANGED <<catalog, layers>>, happened' \subseteq Happenings,
         UNCHANGED cache
         \/ \E key, tile : tile \in TilesOf(key.layer) /\ cache' = Stored(key, tile)
  PROVE  TileInv'
<1>1. /\ req' \in [Requests -> Request]
      /\ \A q \in Requests : req'[q].pc \in Points /\ RequestShape(req'[q])
  BY RequestStep
<1>2. \A key \in DOMAIN cache' : cache'[key] \in TilesOf(key.layer) \cup {Garbage}
  <2>1. CASE UNCHANGED cache
    BY <2>1 DEF TileInv, TypeInv
  <2>2. ASSUME NEW k, NEW tile, tile \in TilesOf(k.layer), cache' = Stored(k, tile)
        PROVE  \A key \in DOMAIN cache' : cache'[key] \in TilesOf(key.layer) \cup {Garbage}
    BY <2>2 DEF TileInv, TypeInv, Stored
  <2> QED BY <2>1, <2>2
<1>3. NewestInv'
  BY DEF TileInv, NewestInv, Found, NotBefore
<1>4. TypeInv'
  <2>1. \A key \in DOMAIN cache' : cache'[key] \in (TilesOf(key.layer))' \cup {Garbage}
    BY <1>2 DEF TilesOf
  <2> QED BY <1>1, <2>1 DEF TileInv, TypeInv, Points
<1> QED BY <1>1, <1>3, <1>4 DEF TileInv, TileTypes

LEMMA AskTypes == ASSUME TileInv, NEW r \in Requests, Ask(r) PROVE TileInv'
<1>1. UNCHANGED <<catalog, layers, cache, happened>>
  BY DEF Ask
<1>2. PICK l \in Layers, c \in Coords, w \in Asked :
        Becomes(r, IF layers[l] = Absent THEN Ended("notfound")
                   ELSE [NoRequest EXCEPT !.pc = "find", !.layer = l, !.coord = c,
                                          !.window = w, !.def = layers[l]])
  BY DEF Ask
<1>3. happened' \subseteq Happenings
  BY <1>1 DEF TileInv, TypeInv
<1>4. CASE layers[l] = Absent
  <2>1. Good(Ended("notfound"))
    BY EndedGood DEF Replies
  <2> QED BY <1>1, <1>2, <1>3, <1>4, <2>1, RequestTypes
<1>5. CASE layers[l] # Absent
  <2> DEFINE v == [NoRequest EXCEPT !.pc = "find", !.layer = l, !.coord = c,
                                    !.window = w, !.def = layers[l]]
  <2>1. NoRequest \in Request /\ NoRequest.frame = <<>> /\ NoRequest.reply = Absent
    BY NoRequestGood DEF Good, NoRequest
  <2>2. layers[l] \in Definitions[l] /\ layers[l] \in Definition
        /\ Len(layers[l].branches) \in 1..2
    BY <1>5, DefinitionType DEF TileInv, TypeInv
  <2>3. /\ v \in Request /\ v.pc = "find" /\ v.layer = l /\ v.coord = c /\ v.window = w
        /\ v.def = layers[l] /\ v.frame = <<>> /\ v.reply = Absent
    BY <2>1, <2>2 DEF Request, Points
  <2> HIDE DEF v
  <2>4. v.frame \in Frames(0 .. Len(v.def.branches) - 1)
    <3>1. 0 \in 0 .. Len(v.def.branches) - 1
      BY <2>2, <2>3
    <3>2. <<>> \in [1..0 -> Granule]
      OBVIOUS
    <3> QED BY <2>3, <3>1, <3>2 DEF Frames
  <2>5. DOMAIN v = DOMAIN NoRequest
    BY <2>1, <2>3 DEF Request
  <2>6. Absent # "tile"
    BY AbsentAssumption DEF Replies
  <2>7. Good(v)
    BY <2>2, <2>3, <2>4, <2>5, <2>6 DEF Good, RequestShape
  <2> QED BY <1>1, <1>2, <1>3, <1>5, <2>7, RequestTypes DEF v
<1> QED BY <1>4, <1>5

LEMMA HappensType ==
  ASSUME TileInv, NEW kind \in Happenings, Happens(kind)
  PROVE  happened' \subseteq Happenings
BY DEF TileInv, TypeInv, Happens

\* The newest of the granules found is one of them.
LEMMA LatestFound ==
  ASSUME TileInv, NEW found \in SUBSET Found, found # {}
  PROVE  LatestOf(found) \in found /\ \A h \in found : NotBefore(LatestOf(found), h)
<1>1. \E g \in found : \A h \in found : NotBefore(g, h)
  BY DEF TileInv, NewestInv
<1> QED BY <1>1 DEF LatestOf

LEMMA CandidatesFound ==
  ASSUME NEW r \in Requests
  PROVE  Candidates(r) \subseteq Found
BY DEF Candidates, Search, Found

LEMMA ResolvedType ==
  ASSUME TileInv, NEW r \in Requests, Candidates(r) # {}
  PROVE  Resolved(r) \in Granule
<1> DEFINE g == LatestOf(Candidates(r))
<1>1. g \in Candidates(r) /\ Candidates(r) \subseteq Found
  BY LatestFound, CandidatesFound
<1> HIDE DEF g
<1>2. g \in Granules /\ catalog[g].revision \in Revisions[g]
  BY <1>1 DEF Found, TileInv, TypeInv
<1>3. Resolved(r) = [id |-> g, revision |-> catalog[g].revision]
  BY DEF Resolved, g
<1> QED BY <1>2, <1>3 DEF Granule

\* A request after one more branch.
LEMMA BranchGood ==
  ASSUME NEW q \in Request, RequestShape(q), q.pc = "find", NEW g \in Granule
  PROVE  /\ Good(WithBranch(q, g))
         /\ \/ WithBranch(q, g) = Ended("bandless")
            \/ /\ WithBranch(q, g).frame = Append(q.frame, g)
               /\ WithBranch(q, g).reply = Absent
               /\ WithBranch(q, g).pc \in {"find", "probe", "render"}
               /\ WithBranch(q, g).pc # "find" =>
                    \A i \in DOMAIN Append(q.frame, g) :
                      Append(q.frame, g)[i].revision \notin Lacking
<1> DEFINE f == Append(q.frame, g)
           m == Len(q.def.branches)
           next == [q EXCEPT !.frame = f]
           v == WithBranch(q, g)
<1>1. /\ q.layer \in Layers /\ q.coord \in Coords /\ q.def \in Definitions[q.layer]
      /\ q.window \in Asked /\ q.reply = Absent /\ q.frame \in Frames(0 .. m - 1)
  BY DEF RequestShape
<1>2. m \in 1..2 /\ q.def \in Definition
  BY <1>1, DefinitionType
<1>3. PICK n \in 0 .. m - 1 : q.frame \in [1..n -> Granule]
  BY <1>1 DEF Frames
<1>4. n \in Nat /\ f \in [1..(n + 1) -> Granule] /\ f \in Seq(Granule) /\ Len(f) = n + 1
  BY <1>2, <1>3, FrameAppend
<1>5. /\ next \in Request /\ next.frame = f /\ next.pc = "find" /\ next.layer = q.layer
      /\ next.coord = q.coord /\ next.window = q.window /\ next.def = q.def
      /\ next.reply = Absent
  BY <1>1, <1>4 DEF Request
<1>6. Absent # "tile"
  BY AbsentAssumption DEF Replies
<1> HIDE DEF f, m
<1>7. CASE Len(f) < m
  <2>1. v = next
    BY <1>7 DEF WithBranch, f, m
  <2> HIDE DEF v, next
  <2>2. n + 1 \in 0 .. m - 1
    BY <1>2, <1>4, <1>7
  <2>3. next.frame \in Frames(0 .. Len(next.def.branches) - 1)
    BY <1>4, <1>5, <2>2 DEF Frames, m
  <2>4. Good(next)
    <3>1. DOMAIN next = DOMAIN NoRequest
      BY <1>5 DEF Request, NoRequest
    <3> QED BY <1>1, <1>5, <1>6, <2>3, <3>1 DEF Good, RequestShape
  <2> QED BY <1>5, <2>1, <2>4 DEF v, f
<1>8. CASE Len(f) = m /\ \E i \in DOMAIN f : f[i].revision \in Lacking
  <2>1. v = Ended("bandless")
    BY <1>2, <1>8 DEF WithBranch, f, m
  <2> QED BY <2>1, EndedGood DEF Replies, v
<1>9. CASE Len(f) = m /\ \A i \in DOMAIN f : f[i].revision \notin Lacking
  <2> DEFINE pc == IF q.def.cached THEN "probe" ELSE "render"
  <2>1. v = [next EXCEPT !.pc = pc]
    BY <1>2, <1>9 DEF WithBranch, f, m
  <2> HIDE DEF next, v
  <2>2. /\ v \in Request /\ v.pc = pc /\ v.layer = q.layer
        /\ v.coord = q.coord /\ v.window = q.window /\ v.def = q.def
        /\ v.reply = Absent /\ v.frame = f
    BY <1>5, <2>1 DEF Request, Points
  <2>3. v.frame \in Frames({Len(v.def.branches)})
    BY <1>4, <1>9, <2>2 DEF Frames, m
  <2>4. Good(v)
    <3>1. DOMAIN v = DOMAIN NoRequest
      BY <2>2 DEF Request, NoRequest
    <3> QED BY <1>1, <1>6, <2>2, <2>3, <3>1 DEF Good, RequestShape
  <2> QED BY <1>9, <2>2, <2>4 DEF v, f
<1>10. Len(f) <= m
  BY <1>2, <1>3, <1>4
<1> QED BY <1>2, <1>4, <1>7, <1>8, <1>9, <1>10

LEMMA FindBranchTypes == ASSUME TileInv, NEW r \in Requests, FindBranch(r) PROVE TileInv'
<1>1. req[r].pc = "find" /\ UNCHANGED <<catalog, layers, cache>>
  BY DEF FindBranch
<1>2. req[r] \in Request /\ RequestShape(req[r])
  BY DEF TileInv, TileTypes, TypeInv
<1>3. happened' \subseteq Happenings
  BY HappensType DEF FindBranch, Happenings, TileInv, TypeInv
<1>4. ASSUME Candidates(r) # {}, Becomes(r, WithBranch(req[r], Resolved(r)))
      PROVE  TileInv'
  <2>1. Resolved(r) \in Granule
    BY <1>4, ResolvedType
  <2>2. Good(WithBranch(req[r], Resolved(r)))
    BY <1>1, <1>2, <2>1, BranchGood
  <2> QED BY <1>1, <1>3, <1>4, <2>2, RequestTypes
<1>5. ASSUME NEW reply \in {"notfound", "error"}, Reply(r, reply)
      PROVE  TileInv'
  <2>1. Good(Ended(reply))
    BY EndedGood DEF Replies
  <2> QED BY <1>1, <1>3, <1>5, <2>1, RequestTypes DEF Reply
<1> QED BY <1>4, <1>5 DEF FindBranch

\* Serving a tile of the layer ends the request well.
LEMMA ServeTypes ==
  ASSUME TileInv, NEW r \in Requests, req[r].pc \in {"probe", "render", "put"},
         NEW tile \in TilesOf(req[r].layer), Serve(r, tile)
  PROVE  \E v : /\ Good(v) /\ Becomes(r, v) /\ v.pc = "done" /\ v.reply = "tile"
                /\ v.tile = tile /\ v.def = req[r].def /\ v.frame = req[r].frame
                /\ v.coord = req[r].coord /\ v.layer = req[r].layer
<1> DEFINE q == req[r]
           v == [q EXCEPT !.pc = "done", !.reply = "tile", !.tile = tile, !.window = Absent]
<1>1. q \in Request /\ RequestShape(q)
  BY DEF TileInv, TileTypes, TypeInv
<1>2. q.layer \in Layers
  BY <1>1 DEF RequestShape
<1>3. /\ v \in Request /\ v.pc = "done" /\ v.reply = "tile" /\ v.tile = tile
      /\ v.def = q.def /\ v.frame = q.frame /\ v.coord = q.coord /\ v.layer = q.layer
  <2> HIDE DEF q
  <2>1. tile \in Drawn
    BY <1>2 DEF Drawn, q
  <2> QED BY <1>1, <2>1 DEF Request, Points, Replies
<1>4. Becomes(r, v)
  BY DEF Serve
<1> HIDE DEF v
<1>5. Good(v)
  BY <1>1, <1>3, ResolvedGood
<1> QED BY <1>3, <1>4, <1>5

LEMMA ToRender ==
  ASSUME TileInv, NEW r \in Requests, req[r].pc = "probe"
  PROVE  Good([req[r] EXCEPT !.pc = "render"])
<1> DEFINE q == req[r]
           v == [q EXCEPT !.pc = "render"]
<1>1. q \in Request /\ RequestShape(q) /\ q.pc = "probe"
  BY DEF TileInv, TileTypes, TypeInv
<1>2. q.reply = Absent
  BY <1>1 DEF RequestShape
<1> HIDE DEF q
<1>3. /\ v \in Request /\ v.pc = "render" /\ v.window = q.window /\ v.reply = Absent
      /\ v.def = q.def /\ v.frame = q.frame /\ v.coord = q.coord /\ v.layer = q.layer
  BY <1>1, <1>2 DEF Request, Points
<1> HIDE DEF v
<1>4. Good(v)
  BY <1>1, <1>3, ResolvedGood
<1> QED BY <1>4 DEF q, v

LEMMA ToPut ==
  ASSUME TileInv, NEW r \in Requests, req[r].pc = "render", req[r].def.cached,
         NEW tile \in TilesOf(req[r].layer)
  PROVE  Good([req[r] EXCEPT !.pc = "put", !.tile = tile])
<1> DEFINE q == req[r]
           v == [q EXCEPT !.pc = "put", !.tile = tile]
<1>1. q \in Request /\ RequestShape(q) /\ q.pc = "render" /\ q.def.cached
  BY DEF TileInv, TileTypes, TypeInv
<1>2. q.layer \in Layers /\ q.reply = Absent
  BY <1>1 DEF RequestShape
<1> HIDE DEF q
<1>3. tile \in Drawn /\ tile \in TilesOf(q.layer)
  BY <1>2 DEF Drawn, q
<1>4. /\ v \in Request /\ v.pc = "put" /\ v.window = q.window /\ v.reply = Absent
      /\ v.def = q.def /\ v.frame = q.frame /\ v.coord = q.coord /\ v.layer = q.layer
      /\ v.tile = tile
  BY <1>1, <1>2, <1>3 DEF Request, Points
<1> HIDE DEF v
<1>5. Good(v)
  BY <1>1, <1>3, <1>4, ResolvedGood
<1> QED BY <1>5 DEF q, v

\* What a request in the handler has resolved.
LEMMA InHandler ==
  ASSUME TileInv, NEW r \in Requests, req[r].pc \in {"probe", "render", "put"}
  PROVE  /\ req[r].layer \in Layers /\ req[r].coord \in Coords
         /\ req[r].def \in Definitions[req[r].layer]
         /\ req[r].frame \in Frames({Len(req[r].def.branches)})
         /\ req[r].pc \in {"probe", "put"} => req[r].def.cached
         /\ req[r].pc = "put" => req[r].tile \in TilesOf(req[r].layer)
         /\ Key(r).layer = req[r].layer
BY DEF TileInv, TypeInv, RequestShape, Key, KeyOf

LEMMA ProbeTypes == ASSUME TileInv, NEW r \in Requests, Probe(r) PROVE TileInv'
<1>1. req[r].pc = "probe" /\ UNCHANGED <<catalog, layers, cache>>
  BY DEF Probe
<1>2. happened' \subseteq Happenings
  BY HappensType DEF Probe, Happenings, TileInv, TypeInv
<1>3. CASE Key(r) \in DOMAIN cache /\ cache[Key(r)] # Garbage /\ Serve(r, cache[Key(r)])
  <2>1. cache[Key(r)] \in TilesOf(req[r].layer)
    BY <1>1, <1>3, InHandler DEF TileInv, TypeInv
  <2>2. \E v : Good(v) /\ Becomes(r, v)
    BY <1>1, <1>3, <2>1, ServeTypes
  <2> QED BY <1>1, <1>2, <2>2, RequestTypes
<1>4. CASE Becomes(r, [req[r] EXCEPT !.pc = "render"])
  BY <1>1, <1>2, <1>4, ToRender, RequestTypes
<1> QED BY <1>3, <1>4 DEF Probe

LEMMA RenderTypes == ASSUME TileInv, NEW r \in Requests, Render(r) PROVE TileInv'
<1>1. req[r].pc = "render" /\ UNCHANGED <<catalog, layers, cache>>
  BY DEF Render
<1>2. happened' \subseteq Happenings
  BY HappensType DEF Render, Happenings, TileInv, TypeInv
<1>3. ASSUME NEW factor \in {1} \cup Factors
      PROVE  Rendered(req[r].def, req[r].frame, req[r].coord, factor) \in TilesOf(req[r].layer)
  BY <1>1, InHandler, RenderedType
<1>4. ASSUME NEW tile \in TilesOf(req[r].layer), req[r].def.cached,
             Becomes(r, [req[r] EXCEPT !.pc = "put", !.tile = tile])
      PROVE  TileInv'
  BY <1>1, <1>2, <1>4, ToPut, RequestTypes
<1>5. ASSUME NEW tile \in TilesOf(req[r].layer), Serve(r, tile)
      PROVE  TileInv'
  <2>1. \E v : Good(v) /\ Becomes(r, v)
    BY <1>1, <1>5, ServeTypes
  <2> QED BY <1>1, <1>2, <2>1, RequestTypes
<1>6. ASSUME NEW reply \in {"refused", "error"}, Reply(r, reply)
      PROVE  TileInv'
  <2>1. Good(Ended(reply))
    BY EndedGood DEF Replies
  <2> QED BY <1>1, <1>2, <1>6, <2>1, RequestTypes DEF Reply
<1> QED BY <1>3, <1>4, <1>5, <1>6 DEF Render

LEMMA PutTypes == ASSUME TileInv, NEW r \in Requests, Put(r) PROVE TileInv'
<1>1. req[r].pc = "put" /\ UNCHANGED <<catalog, layers>> /\ Serve(r, req[r].tile)
  BY DEF Put
<1>2. happened' \subseteq Happenings
  BY HappensType DEF Put, Happenings, TileInv, TypeInv
<1>3. req[r].tile \in TilesOf(req[r].layer) /\ Key(r).layer = req[r].layer
  BY <1>1, InHandler
<1>4. \E v : Good(v) /\ Becomes(r, v)
  BY <1>1, <1>3, ServeTypes
<1>5. UNCHANGED cache
      \/ \E key, tile : tile \in TilesOf(key.layer) /\ cache' = Stored(key, tile)
  BY <1>3 DEF Put
<1> QED BY <1>1, <1>2, <1>4, <1>5, RequestTypes

LEMMA CancelTypes == ASSUME TileInv, NEW r \in Requests, Cancel(r) PROVE TileInv'
<1>1. UNCHANGED <<catalog, layers, happened>> /\ Reply(r, "dropped")
  BY DEF Cancel
<1>2. happened' \subseteq Happenings
  BY <1>1 DEF TileInv, TypeInv
<1>3. Good(Ended("dropped"))
  BY EndedGood DEF Replies
<1>4. UNCHANGED cache
      \/ \E key, tile : tile \in TilesOf(key.layer) /\ cache' = Stored(key, tile)
  <2>1. req[r].pc = "put" => req[r].tile \in TilesOf(Key(r).layer)
    BY InHandler
  <2> QED BY <2>1 DEF Cancel
<1> QED BY <1>1, <1>2, <1>3, <1>4, RequestTypes DEF Reply

LEMMA RegisterTypes == ASSUME TileInv, NEW g \in Granules, Register(g) PROVE TileInv'
<1>1. PICK time \in Instants, revision \in Revisions[g] :
        catalog' = [catalog EXCEPT ![g] = [time |-> time, revision |-> revision]]
  BY DEF Register
<1> DEFINE entry == [time |-> time, revision |-> revision]
<1>2. UNCHANGED <<layers, cache, req, happened>>
  BY DEF Register
<1>3. entry \in [time : Instants, revision : Revisions[g]] /\ entry \in Entries
      /\ entry.time = time
  BY DEF Entries
<1> HIDE DEF entry
<1>4. /\ catalog' \in [Granules -> Entries \cup {Absent}]
      /\ catalog'[g] = entry /\ \A h \in Granules : h # g => catalog'[h] = catalog[h]
  BY <1>1, <1>3 DEF TileInv, TileTypes, entry
<1>5. TypeInv'
  BY <1>2, <1>3, <1>4 DEF TileInv, TypeInv, TilesOf
<1>6. NewestInv'
  <2> SUFFICES ASSUME NEW found \in SUBSET Found', found # {}
               PROVE  \E m \in found : \A h \in found : NotBefore(m, h)'
    BY DEF NewestInv
  <2> DEFINE others == found \ {g}
  <2>1. \A m \in others : m \in Granules /\ m # g /\ catalog'[m] = catalog[m] /\ m \in Found
    BY <1>4 DEF Found
  <2>2. \A m, h \in others : NotBefore(m, h)' <=> NotBefore(m, h)
    BY <2>1 DEF NotBefore
  <2>t. \A h \in others : h \in Nat /\ catalog'[h].time \in Nat
    <3> SUFFICES ASSUME NEW h \in others PROVE h \in Nat /\ catalog'[h].time \in Nat
      OBVIOUS
    <3>1. h \in Granules /\ catalog'[h] = catalog[h] /\ catalog[h] # Absent
      BY <2>1 DEF Found
    <3>2. catalog[h].time \in Instants
      BY <3>1 DEF TileInv, TypeInv
    <3>3. Granules \subseteq Nat /\ Instants \subseteq Nat
      BY TileAssumption
    <3> HIDE DEF others
    <3> QED BY <3>1, <3>2, <3>3
  <2>g. g \in Nat /\ catalog'[g].time \in Nat
    <3>1. Granules \subseteq Nat /\ Instants \subseteq Nat
      BY TileAssumption
    <3> QED BY <1>3, <1>4, <3>1
  <2>3. CASE others = {}
    <3>1. found = {g} /\ g \in Nat
      BY <2>3, <2>g
    <3>2. NotBefore(g, g)'
      BY <3>1 DEF NotBefore
    <3> QED BY <3>1, <3>2
  <2>4. CASE others # {}
    <3>1. PICK m \in others : \A h \in others : NotBefore(m, h)
      BY <2>1, <2>4 DEF TileInv, NewestInv
    <3>2. m \in Nat /\ g \in Nat /\ catalog'[m].time \in Nat /\ catalog'[g].time \in Nat
      BY <2>t, <2>g
    <3>3. NotBefore(m, g)' \/ NotBefore(g, m)'
      BY <3>2 DEF NotBefore
    <3>4. CASE NotBefore(m, g)'
      BY <2>2, <3>1, <3>4
    <3>5. CASE NotBefore(g, m)' /\ g \in found
      <4>1. ASSUME NEW h \in others PROVE NotBefore(g, h)'
        <5>1. NotBefore(m, h)'
          BY <2>2, <3>1
        <5>2. h \in Nat /\ catalog'[h].time \in Nat
          BY <2>t
        <5> QED BY <3>2, <3>5, <5>1, <5>2 DEF NotBefore
      <4>2. NotBefore(g, g)'
        BY <3>2 DEF NotBefore
      <4> QED BY <3>5, <4>1, <4>2
    <3>6. CASE g \notin found
      BY <2>2, <3>1, <3>6
    <3> QED BY <3>3, <3>4, <3>5, <3>6
  <2> QED BY <2>3, <2>4
<1> QED BY <1>2, <1>4, <1>5, <1>6 DEF TileInv, TileTypes

\* What changes neither the catalog nor a request: the provider or the cache.
LEMMA ElsewhereTypes ==
  ASSUME TileInv, UNCHANGED <<catalog, req>>, happened' \subseteq Happenings,
         layers' \in [Layers -> Definition \cup {Absent}],
         \A l \in Layers : layers'[l] \in Definitions[l] \cup {Absent},
         \A key \in DOMAIN cache' : cache'[key] \in TilesOf(key.layer) \cup {Garbage}
  PROVE  TileInv'
<1>1. NewestInv'
  BY DEF TileInv, NewestInv, Found, NotBefore
<1>2. TypeInv'
  <2>1. \A key \in DOMAIN cache' : cache'[key] \in (TilesOf(key.layer))' \cup {Garbage}
    BY DEF TilesOf
  <2> QED BY <2>1 DEF TileInv, TypeInv
<1> QED BY <1>1, <1>2 DEF TileInv, TileTypes

LEMMA PublishTypes == ASSUME TileInv, NEW l \in Layers, Publish(l) \/ Remove(l) PROVE TileInv'
<1>1. UNCHANGED <<catalog, cache, req, happened>>
  BY DEF Publish, Remove
<1>2. PICK d \in Definitions[l] \cup {Absent} : layers' = [layers EXCEPT ![l] = d]
  BY DEF Publish, Remove
<1>3. d \in Definition \cup {Absent}
  BY DefinitionType
<1>4. layers \in [Layers -> Definition \cup {Absent}]
      /\ \A k \in Layers : layers[k] \in Definitions[k] \cup {Absent}
  BY DEF TileInv, TileTypes, TypeInv
<1>5. layers' \in [Layers -> Definition \cup {Absent}]
      /\ \A k \in Layers : layers'[k] \in Definitions[k] \cup {Absent}
  BY <1>2, <1>3, <1>4
<1> QED BY <1>1, <1>5, ElsewhereTypes DEF TileInv, TypeInv

LEMMA InterfereTypes ==
  ASSUME TileInv, NEW key \in DOMAIN cache, Interfere(key)
  PROVE  TileInv'
<1>1. UNCHANGED <<catalog, layers, req>> /\ happened' \subseteq Happenings
  BY HappensType DEF Interfere, Happenings
<1>2. \A k \in DOMAIN cache' : cache'[k] \in TilesOf(k.layer) \cup {Garbage}
  BY DEF Interfere, Stored, TileInv, TypeInv
<1> QED BY <1>1, <1>2, ElsewhereTypes DEF TileInv, TileTypes, TypeInv

LEMMA RestartTypes == ASSUME TileInv, Restart PROVE TileInv'
<1>1. UNCHANGED <<catalog, cache>> /\ happened' \subseteq Happenings
  BY HappensType DEF Restart, Happenings
<1>2. layers' \in [Layers -> UNION {Configured(l) : l \in Layers}]
      /\ \A l \in Layers : layers'[l] \in Configured(l)
  BY DEF Restart
<1>3. \A l \in Layers : layers'[l] \in Definitions[l] \cup {Absent}
  BY <1>2 DEF Configured, TileInv, TypeInv
<1>4. layers' \in [Layers -> Definition \cup {Absent}]
  <2>1. \A l \in Layers : layers'[l] \in Definition \cup {Absent}
    BY <1>3, DefinitionType
  <2> QED BY <1>2, <2>1
<1>5. ASSUME NEW r \in Requests
      PROVE  req'[r] \in Request /\ req'[r].pc \in Points /\ RequestShape(req'[r])
  <2>1. req'[r] = IF req[r].pc \in {"idle", "done"} THEN req[r] ELSE Ended("dropped")
    BY <1>5 DEF Restart
  <2>2. req[r] \in Request /\ RequestShape(req[r])
    BY <1>5 DEF TileInv, TileTypes, TypeInv
  <2>3. Good(Ended("dropped"))
    BY EndedGood DEF Replies
  <2>4. req'[r] \in Request /\ RequestShape(req'[r])
    BY <2>1, <2>2, <2>3 DEF Good
  <2> QED BY <2>4 DEF Request
<1>6. req' \in [Requests -> Request]
  <2>1. req' = [r \in Requests |-> req'[r]]
    BY DEF Restart
  <2> QED BY <1>5, <2>1
<1>7. NewestInv'
  BY <1>1 DEF TileInv, NewestInv, Found, NotBefore
<1>8. TypeInv'
  BY <1>1, <1>3, <1>5 DEF TileInv, TypeInv, TilesOf, Points
<1> QED BY <1>4, <1>6, <1>7, <1>8, <1>1 DEF TileInv, TileTypes

LEMMA InitTypes == Init => TileInv
<1> SUFFICES ASSUME Init PROVE TileInv
  OBVIOUS
<1>1. \A g \in Granules : catalog[g] = Absent
  BY DEF Init
<1>2. NewestInv
  BY <1>1 DEF NewestInv, Found
<1>3. \A l \in Layers : layers[l] \in Definitions[l] \cup {Absent}
  BY DEF Init
<1>4. layers \in [Layers -> Definition \cup {Absent}]
  <2>1. \A l \in Layers : layers[l] \in Definition \cup {Absent}
    BY <1>3, DefinitionType
  <2>2. layers = [l \in Layers |-> layers[l]]
    BY DEF Init
  <2> QED BY <2>1, <2>2
<1>5. \A r \in Requests : req[r] = NoRequest
  BY DEF Init
<1>6. req \in [Requests -> Request] /\ \A r \in Requests : req[r].pc \in Points
  <2>1. NoRequest \in Request
    BY NoRequestGood DEF Good
  <2> QED BY <2>1 DEF Init, Request
<1>7. DOMAIN cache = {} /\ happened = {}
  BY DEF Init
<1>8. TypeInv
  BY <1>1, <1>3, <1>5, <1>6, <1>7, NoRequestGood DEF TypeInv, Good, Points
<1> QED BY <1>2, <1>4, <1>6, <1>8 DEF Init, TileInv, TileTypes

LEMMA NextTypes == TileInv /\ [Next]_vars => TileInv'
<1> SUFFICES ASSUME TileInv, [Next]_vars PROVE TileInv'
  OBVIOUS
<1>1. ASSUME NEW r \in Requests,
             Ask(r) \/ FindBranch(r) \/ Probe(r) \/ Render(r) \/ Put(r) \/ Cancel(r)
      PROVE  TileInv'
  BY <1>1, AskTypes, FindBranchTypes, ProbeTypes, RenderTypes, PutTypes, CancelTypes
<1>2. ASSUME NEW g \in Granules, Register(g) PROVE TileInv'
  BY <1>2, RegisterTypes
<1>3. ASSUME NEW l \in Services, Publish(l) \/ Remove(l) PROVE TileInv'
  BY <1>3, PublishTypes, TileAssumption
<1>4. ASSUME NEW key \in DOMAIN cache, Interfere(key) PROVE TileInv'
  BY <1>4, InterfereTypes
<1>5. CASE Restart
  BY <1>5, RestartTypes
<1>6. CASE UNCHANGED vars
  BY <1>6, ElsewhereTypes DEF vars, TileInv, TileTypes, TypeInv
<1> QED BY <1>1, <1>2, <1>3, <1>4, <1>5, <1>6 DEF Next

\* Every state is well-typed: what a request holds is what its handler has
\* read by then, and no cache object is a tile of another layer.
THEOREM ServingTypeCorrect == Spec => []TypeInv
<1>1. TileInv => TypeInv
  BY DEF TileInv
<1> QED BY <1>1, InitTypes, NextTypes, PTL DEF Spec

LEMMA TilesKept == Spec => []TileInv
BY InitTypes, NextTypes, PTL DEF Spec

------------------------------------------------------------------------------
(* The granule a branch resolves to *)

\* The candidates of a branch are the granules in both windows: what is
\* intersected, widened and searched comes to no more and no less.
LEMMA CandidatesExact ==
  ASSUME Apart, TileInv, NEW r \in Requests, req[r].pc = "find", NEW g \in Granules
  PROVE  g \in Candidates(r) <=> InBoth(r, g)
<1> DEFINE q == req[r]
           n == Len(q.frame)
           w == Effective(r)
<1>1. q.def \in Definitions[q.layer] /\ q.layer \in Layers /\ q.window \in Asked
      /\ q.frame \in Frames(0 .. Len(q.def.branches) - 1)
  BY DEF TileInv, TypeInv, RequestShape
<1>2. q.def \in Definition /\ Len(q.def.branches) \in 1..2
  BY <1>1, DefinitionType
<1>3. n \in 0 .. Len(q.def.branches) - 1
  <2>1. PICK k \in 0 .. Len(q.def.branches) - 1 : q.frame \in [1..k -> Granule]
    BY <1>1 DEF Frames
  <2>2. k \in Nat
    BY <1>2
  <2>3. n = k
    BY <2>1, <2>2
  <2> QED BY <2>1, <2>3
<1>4. BranchOf(r) \in Windows
  <2>1. q.def.branches \in Seq(Windows) /\ n + 1 \in 1 .. Len(q.def.branches)
    BY <1>2, <1>3 DEF Definition
  <2> QED BY <2>1 DEF BranchOf
<1>5. q.window \in Windows
  BY <1>1, TileAssumption
<1>6. CASE catalog[g] = Absent
  BY <1>6 DEF Candidates, Search, InBoth
<1>7. CASE catalog[g] # Absent
  <2> DEFINE time == catalog[g].time
  <2>1. time \in Int
    <3>1. catalog[g] \in [time : Instants, revision : Revisions[g]]
      BY <1>7 DEF TileInv, TypeInv
    <3>2. catalog[g].time \in Instants
      BY <3>1
    <3>3. Instants \subseteq Nat
      BY TileAssumption
    <3>4. catalog[g].time \in Nat
      BY <3>2, <3>3
    <3> QED BY <3>4
  <2>2. w \in Windows /\ (Within(w, time) <=> Within(BranchOf(r), time) /\ Within(q.window, time))
    <3>1. w = Intersect(BranchOf(r), q.window)
      BY DEF Effective
    <3> HIDE DEF w, q, time
    <3> QED BY <1>4, <1>5, <2>1, <3>1, IntersectWithin
  <2>3. /\ Within(w, time) => ~Inverted(w)
        /\ ~Inverted(w) => (g \in Search(DatetimeFilter(w)) <=> Within(w, time))
    BY <1>7, <2>2, SearchWithin DEF TileInv
  <2> HIDE DEF w, time
  <2>4. g \in Candidates(r) <=> ~Inverted(w) /\ g \in Search(DatetimeFilter(w))
    BY DEF Candidates, w
  <2>5. InBoth(r, g) <=> Within(BranchOf(r), time) /\ Within(q.window, time)
    BY <1>7 DEF InBoth, time
  <2> QED BY <2>2, <2>3, <2>4, <2>5
<1> QED BY <1>6, <1>7

\* What LatestInBothWindows says of the step of one request.
ResolvesLatest(r) ==
  /\ Len(req'[r].frame) > Len(req[r].frame) =>
       LET g == req'[r].frame[Len(req'[r].frame)].id
       IN InBoth(r, g) /\ \A h \in Granules : InBoth(r, h) => NotBefore(g, h)
  /\ req'[r].reply = "notfound" => \A g \in Granules : ~InBoth(r, g)

\* A step that finds nothing, and does not say that there is nothing.
LEMMA ResolvesNothing ==
  ASSUME TileInv, NEW r \in Requests, req[r].pc = "find",
         \/ req'[r] = req[r]
         \/ \E reply \in Replies \ {"tile", "notfound"} : req'[r] = Ended(reply)
  PROVE  ResolvesLatest(r)
<1>1. req[r] \in Request /\ req[r].reply = Absent /\ Absent # "notfound"
  BY AbsentAssumption DEF TileInv, TileTypes, TypeInv, RequestShape, Replies
<1>2. Len(req[r].frame) \in Nat
  BY <1>1 DEF Request
<1>3. CASE req'[r] = req[r]
  BY <1>1, <1>2, <1>3 DEF ResolvesLatest
<1>4. ASSUME NEW reply \in Replies \ {"tile", "notfound"}, req'[r] = Ended(reply)
      PROVE  ResolvesLatest(r)
  <2>1. req'[r].frame = <<>> /\ req'[r].reply # "notfound"
    BY <1>4, EndedGood
  <2>2. Len(req'[r].frame) = 0
    BY <2>1
  <2> QED BY <1>2, <2>1, <2>2 DEF ResolvesLatest
<1> QED BY <1>3, <1>4

LEMMA FindResolves ==
  ASSUME Apart, TileInv, NEW r \in Requests, FindBranch(r)
  PROVE  ResolvesLatest(r)
<1>1. req[r].pc = "find" /\ req \in [Requests -> Request] /\ RequestShape(req[r])
      /\ req[r] \in Request
  BY DEF FindBranch, TileInv, TileTypes, TypeInv
<1>2. CASE Candidates(r) = {} /\ Reply(r, "notfound")
  <2>1. \A g \in Granules : ~InBoth(r, g)
    BY <1>1, <1>2, CandidatesExact
  <2>2. req'[r] = Ended("notfound")
    BY <1>1, <1>2 DEF Reply, Becomes
  <2>3. Len(req'[r].frame) = 0 /\ Len(req[r].frame) \in Nat
    BY <1>1, <2>2, EndedGood DEF Replies, Request
  <2> QED BY <2>1, <2>3 DEF ResolvesLatest
<1>3. CASE Candidates(r) # {} /\ Becomes(r, WithBranch(req[r], Resolved(r)))
  <2> DEFINE g == LatestOf(Candidates(r))
             v == WithBranch(req[r], Resolved(r))
  <2>1. Resolved(r) \in Granule /\ req'[r] = v
    BY <1>1, <1>3, ResolvedType DEF Becomes
  <2>2. CASE v = Ended("bandless")
    BY <1>1, <2>1, <2>2, ResolvesNothing DEF Replies
  <2>3. CASE v.frame = Append(req[r].frame, Resolved(r)) /\ v.reply = Absent
    <3>1. g \in Candidates(r) /\ Candidates(r) \subseteq Found
          /\ \A h \in Candidates(r) : NotBefore(g, h)
      BY <1>3, LatestFound, CandidatesFound
    <3> HIDE DEF g, v
    <3>2. InBoth(r, g) /\ \A h \in Granules : InBoth(r, h) => NotBefore(g, h)
      BY <1>1, <3>1, CandidatesExact DEF Found
    <3>3. v.frame[Len(v.frame)] = Resolved(r)
      <4>1. req[r].frame \in Seq(Granule)
        BY <1>1 DEF Request
      <4> QED BY <2>1, <2>3, <4>1
    <3>4. Resolved(r).id = g
      BY DEF Resolved, g
    <3>5. Absent # "notfound"
      BY AbsentAssumption DEF Replies
    <3> QED BY <2>1, <2>3, <3>2, <3>3, <3>4, <3>5 DEF ResolvesLatest
  <2> QED BY <1>1, <2>1, <2>2, <2>3, BranchGood
<1>4. CASE Reply(r, "error")
  <2>1. req'[r] = Ended("error")
    BY <1>1, <1>4 DEF Reply, Becomes
  <2> QED BY <1>1, <2>1, ResolvesNothing DEF Replies
<1> QED BY <1>2, <1>3, <1>4 DEF FindBranch

LEMMA StepResolves ==
  ASSUME Apart, TileInv, [Next]_vars, NEW r \in Requests, req[r].pc = "find"
  PROVE  ResolvesLatest(r)
<1>1. req \in [Requests -> Request]
  BY DEF TileInv, TileTypes
<1>2. ASSUME NEW q \in Requests, NEW v, q # r, Becomes(q, v)
      PROVE  ResolvesLatest(r)
  <2>1. req'[r] = req[r]
    BY <1>1, <1>2 DEF Becomes
  <2> QED BY <2>1, ResolvesNothing
<1>3. ASSUME NEW q \in Requests, q # r,
             Ask(q) \/ FindBranch(q) \/ Probe(q) \/ Render(q) \/ Put(q) \/ Cancel(q)
      PROVE  ResolvesLatest(r)
  <2>1. \E v : Becomes(q, v)
    BY <1>3 DEF Ask, FindBranch, Probe, Render, Put, Cancel, Reply, Serve
  <2> QED BY <1>2, <1>3, <2>1
<1>4. CASE Ask(r) \/ FindBranch(r) \/ Probe(r) \/ Render(r) \/ Put(r) \/ Cancel(r)
  <2>1. FindBranch(r) \/ Cancel(r)
    BY <1>4 DEF Ask, Probe, Render, Put
  <2>2. CASE Cancel(r)
    <3>1. req'[r] = Ended("dropped")
      BY <1>1, <2>2 DEF Cancel, Reply, Becomes
    <3> QED BY <3>1, ResolvesNothing DEF Replies
  <2> QED BY <2>1, <2>2, FindResolves
<1>5. CASE Restart
  <2>1. req'[r] = Ended("dropped")
    BY <1>5 DEF Restart
  <2> QED BY <2>1, ResolvesNothing DEF Replies
<1>6. CASE UNCHANGED req
  BY <1>6, ResolvesNothing
<1>7. CASE \/ \E g \in Granules : Register(g)
           \/ \E l \in Services : Publish(l) \/ Remove(l)
           \/ \E key \in DOMAIN cache : Interfere(key)
           \/ UNCHANGED vars
  BY <1>6, <1>7 DEF Register, Publish, Remove, Interfere, vars
<1> QED BY <1>3, <1>4, <1>5, <1>7 DEF Next

\* Where no two acquisitions are a millisecond apart, every branch resolves
\* to the newest of the granules in its window and in the request's, as the
\* catalog has them at that moment, and one that resolves to nothing had none.
THEOREM LatestIsResolved == Apart => (Spec => LatestInBothWindows)
<1> SUFFICES ASSUME Apart PROVE Spec => LatestInBothWindows
  OBVIOUS
<1>1. TileInv /\ [Next]_vars =>
        [\A r \in Requests : req[r].pc = "find" => ResolvesLatest(r)]_vars
  BY StepResolves
<1>2. [\A r \in Requests : req[r].pc = "find" => ResolvesLatest(r)]_vars =>
      [\A r \in Requests : req[r].pc = "find" =>
         /\ Len(req'[r].frame) > Len(req[r].frame) =>
              LET g == req'[r].frame[Len(req'[r].frame)].id
              IN InBoth(r, g) /\ \A h \in Granules : InBoth(r, h) => NotBefore(g, h)
         /\ req'[r].reply = "notfound" => \A g \in Granules : ~InBoth(r, g)]_vars
  BY DEF ResolvesLatest
<1> QED BY <1>1, <1>2, TilesKept, PTL DEF Spec, LatestInBothWindows

------------------------------------------------------------------------------
(* What a cached tile shows *)

\* Every granule of the frame has every band.
Whole(frame) == \A i \in DOMAIN frame : frame[i].revision \notin Lacking

\* A valid entry is the tile of a definition that its layer may have, over
\* a frame, with the key that these have.
Tells(key, entry) ==
  \E l \in Layers, d \in Definition, f \in Seq(Granule), c \in Coords, factor \in {1} \cup Factors :
    /\ d \in Definitions[l] /\ f \in Frames({Len(d.branches)}) /\ d.cached /\ Whole(f)
    /\ key = KeyOf(l, d, f, c) /\ entry = Rendered(d, f, c, factor)

CacheTells == \A key \in DOMAIN cache : cache[key] # Garbage => Tells(key, cache[key])

ShowsItsFrame(q) ==
  /\ q.pc \in {"probe", "render", "put"} \/ q.reply = "tile" => Whole(q.frame)
  /\ q.pc = "put" \/ q.reply = "tile" =>
       /\ q.tile.factor \in {1} \cup Factors
       /\ q.tile = Rendered(q.def, q.frame, q.coord, q.tile.factor)

ShowInv == CacheTells /\ \A r \in Requests : ShowsItsFrame(req[r])

\* Two whole granules of one id are one.
LEMMA SameGranule ==
  ASSUME KeysTell, NEW a \in Granule, NEW b \in Granule, Pieces[a.id] = Pieces[b.id],
         a.revision \notin Lacking, b.revision \notin Lacking
  PROVE  a = b
<1>1. /\ a.id \in Granules /\ a.revision \in Revisions[a.id]
      /\ a = [id |-> a.id, revision |-> a.revision]
  BY DEF Granule
<1>2. /\ b.id \in Granules /\ b.revision \in Revisions[b.id]
      /\ b = [id |-> b.id, revision |-> b.revision]
  BY DEF Granule
<1>3. a.id = b.id
  BY <1>1, <1>2 DEF KeysTell, NoPlusInIds
<1>4. a.revision = b.revision
  BY <1>1, <1>2, <1>3 DEF KeysTell, AssetsStand
<1> QED BY <1>1, <1>2, <1>3, <1>4

LEMMA FrameTells ==
  ASSUME KeysTell, NEW m \in 1..2, NEW n \in 1..2,
         NEW f \in [1..m -> Granule], NEW h \in [1..n -> Granule],
         Whole(f), Whole(h), Joined(f) = Joined(h)
  PROVE  f = h
<1>1. f \in Seq(Granule) /\ Len(f) = m /\ h \in Seq(Granule) /\ Len(h) = n
  OBVIOUS
<1>2. \A g \in Granule : g.id \in Granules
  BY DEF Granule
<1>3. \A g \in Granule : \E x : Pieces[g.id] = <<x>>
  BY <1>2 DEF KeysTell, NoPlusInIds
<1>4. ASSUME NEW k \in 1..2, NEW s \in [1..k -> Granule]
      PROVE  \E x, y : /\ Pieces[s[1].id] = <<x>> /\ (k = 2 => Pieces[s[2].id] = <<y>>)
                       /\ Len(Joined(s)) = k /\ Joined(s)[1] = x /\ (k = 2 => Joined(s)[2] = y)
  <2>1. s \in Seq(Granule) /\ Len(s) = k /\ s[1] \in Granule
    OBVIOUS
  <2>2. PICK x : Pieces[s[1].id] = <<x>>
    BY <1>3, <2>1
  <2>3. CASE k = 1
    <3>1. Joined(s) = <<x>>
      BY <2>1, <2>2, <2>3 DEF Joined
    <3> QED BY <2>2, <2>3, <3>1
  <2>4. CASE k = 2
    <3>1. s[2] \in Granule
      BY <2>4
    <3>2. PICK y : Pieces[s[2].id] = <<y>>
      BY <1>3, <3>1
    <3>3. Joined(s) = <<x>> \o <<y>>
      BY <2>1, <2>2, <2>4, <3>2 DEF Joined
    <3>4. Len(Joined(s)) = 2 /\ Joined(s)[1] = x /\ Joined(s)[2] = y
      <4>1. <<x>> \in Seq({x, y}) /\ <<y>> \in Seq({x, y}) /\ Len(<<x>>) = 1 /\ Len(<<y>>) = 1
        OBVIOUS
      <4> QED BY <3>3, <4>1
    <3> QED BY <2>2, <2>4, <3>2, <3>4
  <2> QED BY <2>3, <2>4
<1>5. PICK x, y : /\ Pieces[f[1].id] = <<x>> /\ (m = 2 => Pieces[f[2].id] = <<y>>)
                  /\ Len(Joined(f)) = m /\ Joined(f)[1] = x /\ (m = 2 => Joined(f)[2] = y)
  BY <1>4
<1>6. PICK u, v : /\ Pieces[h[1].id] = <<u>> /\ (n = 2 => Pieces[h[2].id] = <<v>>)
                  /\ Len(Joined(h)) = n /\ Joined(h)[1] = u /\ (n = 2 => Joined(h)[2] = v)
  BY <1>4
<1>7. m = n
  BY <1>5, <1>6
<1>8. x = u /\ (m = 2 => y = v)
  BY <1>5, <1>6, <1>7
<1>9. \A i \in 1..m : f[i] = h[i]
  <2>1. 1 \in DOMAIN f /\ 1 \in DOMAIN h /\ f[1] \in Granule /\ h[1] \in Granule
    BY <1>7
  <2>2. f[1] = h[1]
    BY <1>5, <1>6, <1>8, <2>1, SameGranule DEF Whole
  <2>3. CASE m = 2
    <3>1. 2 \in DOMAIN f /\ 2 \in DOMAIN h /\ f[2] \in Granule /\ h[2] \in Granule
      BY <1>7, <2>3
    <3>2. f[2] = h[2]
      BY <1>5, <1>6, <1>7, <1>8, <2>3, <3>1, SameGranule DEF Whole
    <3> QED BY <2>2, <2>3, <3>2
  <2>4. CASE m = 1
    BY <2>2, <2>4
  <2> QED BY <2>3, <2>4
<1> QED BY <1>7, <1>9

\* What the cache answers under the key of a request is its tile.
LEMMA HitShows ==
  ASSUME KeysTell, TileInv, ShowInv, NEW r \in Requests, req[r].pc = "probe",
         Key(r) \in DOMAIN cache, cache[Key(r)] # Garbage
  PROVE  \E factor \in {1} \cup Factors :
           cache[Key(r)] = Rendered(req[r].def, req[r].frame, req[r].coord, factor)
<1> DEFINE q == req[r]
           m == Len(q.def.branches)
<1>1. /\ q.layer \in Layers /\ q.def \in Definitions[q.layer] /\ q.def.cached
      /\ q.frame \in Frames({m}) /\ Whole(q.frame)
  BY InHandler DEF ShowInv, ShowsItsFrame
<1>2. PICK l \in Layers, d \in Definition, f \in Seq(Granule), c \in Coords,
           factor \in {1} \cup Factors :
        /\ d \in Definitions[l] /\ f \in Frames({Len(d.branches)}) /\ d.cached /\ Whole(f)
        /\ Key(r) = KeyOf(l, d, f, c) /\ cache[Key(r)] = Rendered(d, f, c, factor)
  <2>1. Tells(Key(r), cache[Key(r)])
    BY DEF ShowInv, CacheTells
  <2> QED BY <2>1 DEF Tells
<1>3. /\ q.layer = l /\ q.def.spec = d.spec /\ q.coord = c /\ Joined(q.frame) = Joined(f)
  BY <1>2 DEF Key, KeyOf
<1>4. q.def.kernel = d.kernel
  BY <1>1, <1>2, <1>3 DEF KeysTell, KernelFollowsSpec
<1>5. q.frame = f
  <2>1. m \in 1..2 /\ Len(d.branches) \in 1..2
    BY <1>1, <1>2, DefinitionType
  <2>2. q.frame \in [1..m -> Granule] /\ f \in [1..Len(d.branches) -> Granule]
    BY <1>1, <1>2 DEF Frames
  <2> QED BY <1>1, <1>2, <1>3, <2>1, <2>2, FrameTells
<1> QED BY <1>2, <1>3, <1>4, <1>5 DEF Rendered

\* What a task writes through tells, as every entry does.
LEMMA StoredTells ==
  ASSUME TileInv, ShowInv, NEW r \in Requests, req[r].pc = "put",
         cache' = Stored(Key(r), req[r].tile)
  PROVE  CacheTells'
<1> DEFINE q == req[r]
<1>1. /\ q.layer \in Layers /\ q.coord \in Coords /\ q.def \in Definitions[q.layer]
      /\ q.frame \in Frames({Len(q.def.branches)}) /\ q.def.cached
  BY InHandler
<1>2. /\ Whole(q.frame) /\ q.tile.factor \in {1} \cup Factors
      /\ q.tile = Rendered(q.def, q.frame, q.coord, q.tile.factor)
  BY DEF ShowInv, ShowsItsFrame
<1>3. Key(r) = KeyOf(q.layer, q.def, q.frame, q.coord)
  BY DEF Key
<1>4. q.def \in Definition /\ q.frame \in Seq(Granule)
  BY <1>1, DefinitionType DEF TileInv, TileTypes, Request
<1>5. Tells(Key(r), q.tile)
  <2> HIDE DEF q
  <2> QED BY <1>1, <1>2, <1>3, <1>4 DEF Tells
<1>6. \A key \in DOMAIN cache' : cache'[key] # Garbage => Tells(key, cache'[key])
  BY <1>5 DEF Stored, ShowInv, CacheTells
<1> QED BY <1>6 DEF CacheTells, Tells, Frames, Granule, Whole, KeyOf, Joined, Rendered

LEMMA EndedShows ==
  ASSUME NEW reply \in Replies \ {"tile"}
  PROVE  ShowsItsFrame(Ended(reply))
BY EndedGood DEF ShowsItsFrame

\* A request whose tile is the one of its frame, served.
LEMMA ServeShows ==
  ASSUME TileInv, ShowInv, NEW r \in Requests, req[r].pc \in {"probe", "render", "put"},
         NEW tile \in TilesOf(req[r].layer), Serve(r, tile), tile.factor \in {1} \cup Factors,
         tile = Rendered(req[r].def, req[r].frame, req[r].coord, tile.factor)
  PROVE  \E v : Becomes(r, v) /\ ShowsItsFrame(v) /\ Good(v)
<1>1. PICK v : /\ Good(v) /\ Becomes(r, v) /\ v.pc = "done" /\ v.reply = "tile"
               /\ v.tile = tile /\ v.def = req[r].def /\ v.frame = req[r].frame
               /\ v.coord = req[r].coord /\ v.layer = req[r].layer
  BY ServeTypes
<1>2. Whole(req[r].frame)
  BY DEF ShowInv, ShowsItsFrame
<1>3. ShowsItsFrame(v)
  BY <1>1, <1>2 DEF ShowsItsFrame
<1> QED BY <1>1, <1>3

\* A step of request r.
LEMMA RequestShows ==
  ASSUME TileInv, ShowInv, NEW r \in Requests, NEW v, Becomes(r, v), ShowsItsFrame(v),
         \/ UNCHANGED cache
         \/ req[r].pc = "put" /\ cache' = Stored(Key(r), req[r].tile)
  PROVE  ShowInv'
<1>1. CacheTells'
  <2>1. CASE UNCHANGED cache
    BY <2>1 DEF ShowInv, CacheTells
  <2> QED BY <2>1, StoredTells
<1>2. \A q \in Requests : ShowsItsFrame(req'[q])
  <2>1. req \in [Requests -> Request]
    BY DEF TileInv, TileTypes
  <2>2. req'[r] = v /\ \A q \in Requests : q # r => req'[q] = req[q]
    BY <2>1 DEF Becomes
  <2> QED BY <2>2 DEF ShowInv
<1> QED BY <1>1, <1>2 DEF ShowInv

LEMMA AskShows == ASSUME TileInv, ShowInv, NEW r \in Requests, Ask(r) PROVE ShowInv'
<1>1. PICK l \in Layers, c \in Coords, w \in Asked :
        Becomes(r, IF layers[l] = Absent THEN Ended("notfound")
                   ELSE [NoRequest EXCEPT !.pc = "find", !.layer = l, !.coord = c,
                                          !.window = w, !.def = layers[l]])
  BY DEF Ask
<1>2. ShowsItsFrame(Ended("notfound"))
  BY EndedShows DEF Replies
<1>3. ShowsItsFrame([NoRequest EXCEPT !.pc = "find", !.layer = l, !.coord = c,
                                      !.window = w, !.def = layers[l]])
  <2> DEFINE v == [NoRequest EXCEPT !.pc = "find", !.layer = l, !.coord = c,
                                    !.window = w, !.def = layers[l]]
  <2>1. NoRequest \in Request /\ NoRequest.reply = Absent
    BY NoRequestGood DEF Good, NoRequest
  <2>2. v.pc = "find" /\ v.reply = Absent
    BY <2>1 DEF Request
  <2>3. Absent # "tile"
    BY AbsentAssumption DEF Replies
  <2> HIDE DEF v
  <2>4. ShowsItsFrame(v)
    BY <2>2, <2>3 DEF ShowsItsFrame
  <2> QED BY <2>4 DEF v
<1> QED BY <1>1, <1>2, <1>3, RequestShows DEF Ask

LEMMA FindShows == ASSUME TileInv, ShowInv, NEW r \in Requests, FindBranch(r) PROVE ShowInv'
<1>1. req[r].pc = "find" /\ req[r] \in Request /\ RequestShape(req[r]) /\ UNCHANGED cache
  BY DEF FindBranch, TileInv, TileTypes, TypeInv
<1>2. ASSUME Candidates(r) # {}, Becomes(r, WithBranch(req[r], Resolved(r)))
      PROVE  ShowInv'
  <2> DEFINE v == WithBranch(req[r], Resolved(r))
  <2>1. \/ v = Ended("bandless")
        \/ /\ v.frame = Append(req[r].frame, Resolved(r)) /\ v.reply = Absent
           /\ v.pc \in {"find", "probe", "render"}
           /\ v.pc # "find" => \A i \in DOMAIN Append(req[r].frame, Resolved(r)) :
                Append(req[r].frame, Resolved(r))[i].revision \notin Lacking
    <3>1. Resolved(r) \in Granule
      BY <1>2, ResolvedType
    <3> QED BY <1>1, <3>1, BranchGood
  <2> HIDE DEF v
  <2>2. ShowsItsFrame(v)
    <3>1. Absent # "tile"
      BY AbsentAssumption DEF Replies
    <3>2. ShowsItsFrame(Ended("bandless"))
      BY EndedShows DEF Replies
    <3> QED BY <2>1, <3>1, <3>2 DEF ShowsItsFrame, Whole
  <2> QED BY <1>1, <1>2, <2>2, RequestShows DEF v
<1>3. ASSUME NEW reply \in {"notfound", "error"}, Reply(r, reply)
      PROVE  ShowInv'
  <2>1. ShowsItsFrame(Ended(reply))
    BY EndedShows DEF Replies
  <2> QED BY <1>1, <1>3, <2>1, RequestShows DEF Reply
<1> QED BY <1>2, <1>3 DEF FindBranch

LEMMA ProbeShows ==
  ASSUME KeysTell, TileInv, ShowInv, NEW r \in Requests, Probe(r)
  PROVE  ShowInv'
<1>1. req[r].pc = "probe" /\ UNCHANGED cache
  BY DEF Probe
<1>2. CASE Key(r) \in DOMAIN cache /\ cache[Key(r)] # Garbage /\ Serve(r, cache[Key(r)])
  <2> DEFINE tile == cache[Key(r)]
  <2>1. tile \in TilesOf(req[r].layer)
    BY <1>1, <1>2, InHandler DEF TileInv, TypeInv
  <2>2. tile.factor \in {1} \cup Factors
        /\ tile = Rendered(req[r].def, req[r].frame, req[r].coord, tile.factor)
    BY <1>1, <1>2, HitShows DEF Rendered
  <2>3. \E v : Becomes(r, v) /\ ShowsItsFrame(v)
    BY <1>1, <1>2, <2>1, <2>2, ServeShows
  <2> QED BY <1>1, <2>3, RequestShows
<1>3. CASE Becomes(r, [req[r] EXCEPT !.pc = "render"])
  <2> DEFINE v == [req[r] EXCEPT !.pc = "render"]
  <2>1. req[r] \in Request /\ req[r].reply = Absent /\ Absent # "tile"
    BY <1>1, AbsentAssumption DEF TileInv, TileTypes, TypeInv, RequestShape, Replies
  <2>2. v.pc = "render" /\ v.reply = Absent /\ v.frame = req[r].frame
    BY <2>1 DEF Request
  <2>3. Whole(req[r].frame)
    BY <1>1 DEF ShowInv, ShowsItsFrame
  <2> HIDE DEF v
  <2>4. ShowsItsFrame(v)
    BY <2>1, <2>2, <2>3 DEF ShowsItsFrame
  <2> QED BY <1>1, <1>3, <2>4, RequestShows DEF v
<1> QED BY <1>2, <1>3 DEF Probe

LEMMA RenderShows == ASSUME TileInv, ShowInv, NEW r \in Requests, Render(r) PROVE ShowInv'
<1>1. req[r].pc = "render" /\ UNCHANGED cache /\ Whole(req[r].frame)
  BY DEF Render, ShowInv, ShowsItsFrame
<1>2. ASSUME NEW factor \in {1} \cup Factors,
             NEW tile, tile = Rendered(req[r].def, req[r].frame, req[r].coord, factor)
      PROVE  /\ tile \in TilesOf(req[r].layer) /\ tile.factor \in {1} \cup Factors
             /\ tile = Rendered(req[r].def, req[r].frame, req[r].coord, tile.factor)
  <2>1. tile \in TilesOf(req[r].layer)
    BY <1>1, <1>2, InHandler, RenderedType
  <2>2. tile.factor = factor
    BY <1>2 DEF Rendered
  <2> QED BY <1>2, <2>1, <2>2
<1>3. ASSUME NEW tile \in TilesOf(req[r].layer), tile.factor \in {1} \cup Factors,
             tile = Rendered(req[r].def, req[r].frame, req[r].coord, tile.factor),
             Becomes(r, [req[r] EXCEPT !.pc = "put", !.tile = tile])
      PROVE  ShowInv'
  <2> DEFINE v == [req[r] EXCEPT !.pc = "put", !.tile = tile]
  <2>1. req[r] \in Request
    BY DEF TileInv, TileTypes
  <2>2. /\ v.pc = "put" /\ v.tile = tile /\ v.def = req[r].def /\ v.frame = req[r].frame
        /\ v.coord = req[r].coord
    BY <2>1 DEF Request
  <2> HIDE DEF v
  <2>3. ShowsItsFrame(v)
    BY <1>1, <1>3, <2>2 DEF ShowsItsFrame
  <2> QED BY <1>1, <1>3, <2>3, RequestShows DEF v
<1>4. ASSUME NEW tile \in TilesOf(req[r].layer), tile.factor \in {1} \cup Factors,
             tile = Rendered(req[r].def, req[r].frame, req[r].coord, tile.factor), Serve(r, tile)
      PROVE  ShowInv'
  <2>1. \E v : Becomes(r, v) /\ ShowsItsFrame(v)
    BY <1>1, <1>4, ServeShows
  <2> QED BY <1>1, <2>1, RequestShows
<1>5. ASSUME NEW reply \in {"refused", "error"}, Reply(r, reply)
      PROVE  ShowInv'
  <2>1. ShowsItsFrame(Ended(reply))
    BY EndedShows DEF Replies
  <2> QED BY <1>1, <1>5, <2>1, RequestShows DEF Reply
<1> QED BY <1>2, <1>3, <1>4, <1>5 DEF Render

LEMMA PutShows == ASSUME TileInv, ShowInv, NEW r \in Requests, Put(r) PROVE ShowInv'
<1>1. req[r].pc = "put" /\ Serve(r, req[r].tile)
      /\ (UNCHANGED cache \/ cache' = Stored(Key(r), req[r].tile))
  BY DEF Put
<1>2. req[r].tile \in TilesOf(req[r].layer)
  BY <1>1, InHandler
<1>3. /\ req[r].tile.factor \in {1} \cup Factors
      /\ req[r].tile = Rendered(req[r].def, req[r].frame, req[r].coord, req[r].tile.factor)
  BY <1>1 DEF ShowInv, ShowsItsFrame
<1>4. \E v : Becomes(r, v) /\ ShowsItsFrame(v)
  BY <1>1, <1>2, <1>3, ServeShows
<1> QED BY <1>1, <1>4, RequestShows

LEMMA CancelShows == ASSUME TileInv, ShowInv, NEW r \in Requests, Cancel(r) PROVE ShowInv'
<1>1. ShowsItsFrame(Ended("dropped"))
  BY EndedShows DEF Replies
<1> QED BY <1>1, RequestShows DEF Cancel, Reply

LEMMA ShowStep == KeysTell /\ TileInv /\ ShowInv /\ [Next]_vars => ShowInv'
<1> SUFFICES ASSUME KeysTell, TileInv, ShowInv, [Next]_vars PROVE ShowInv'
  OBVIOUS
<1>1. ASSUME NEW r \in Requests,
             Ask(r) \/ FindBranch(r) \/ Probe(r) \/ Render(r) \/ Put(r) \/ Cancel(r)
      PROVE  ShowInv'
  BY <1>1, AskShows, FindShows, ProbeShows, RenderShows, PutShows, CancelShows
<1>2. CASE UNCHANGED <<req, cache>>
  BY <1>2 DEF ShowInv, CacheTells
<1>3. ASSUME NEW key \in DOMAIN cache, Interfere(key) PROVE ShowInv'
  <2>1. UNCHANGED req /\ \A k \in DOMAIN cache' : cache'[k] # Garbage =>
          k \in DOMAIN cache /\ cache'[k] = cache[k]
    BY <1>3 DEF Interfere, Stored
  <2> QED BY <2>1 DEF ShowInv, CacheTells
<1>4. CASE Restart
  <2>1. UNCHANGED cache
    BY <1>4 DEF Restart
  <2>2. ASSUME NEW r \in Requests PROVE ShowsItsFrame(req'[r])
    <3>1. req'[r] = req[r] \/ req'[r] = Ended("dropped")
      BY <1>4 DEF Restart
    <3> QED BY <3>1, EndedShows DEF ShowInv, Replies
  <2> QED BY <2>1, <2>2 DEF ShowInv, CacheTells
<1>5. CASE \/ \E g \in Granules : Register(g)
           \/ \E l \in Services : Publish(l) \/ Remove(l)
           \/ UNCHANGED vars
  BY <1>2, <1>5 DEF Register, Publish, Remove, vars
<1> QED BY <1>1, <1>3, <1>4, <1>5 DEF Next

LEMMA InitShows == Init => ShowInv
<1> SUFFICES ASSUME Init PROVE ShowInv
  OBVIOUS
<1>1. DOMAIN cache = {} /\ \A r \in Requests : req[r] = NoRequest
  BY DEF Init
<1>2. NoRequest.pc = "idle" /\ NoRequest.reply = Absent /\ Absent # "tile"
  BY AbsentAssumption DEF NoRequest, Replies
<1> QED BY <1>1, <1>2 DEF ShowInv, CacheTells, ShowsItsFrame

\* Where ids contain no "+", a layer's kernel is not edited alone and a granule
\* keeps its assets, every tile served, from the cache too, is the one its
\* request resolved, across registrations, publications, edits, restarts, lost
\* and foreign objects.
THEOREM TilesShowTheirFrames == KeysTell => (Spec => []TileShowsItsFrame)
<1> SUFFICES ASSUME KeysTell PROVE Spec => []TileShowsItsFrame
  OBVIOUS
<1>1. ShowInv => TileShowsItsFrame
  BY DEF ShowInv, ShowsItsFrame, TileShowsItsFrame
<1>2. TileInv /\ ShowInv /\ [Next]_vars => ShowInv'
  BY ShowStep
<1> QED BY <1>1, <1>2, InitShows, TilesKept, PTL DEF Spec

------------------------------------------------------------------------------
(* No cache to be seen *)

\* What a step may do to the view of request r.
Turned(r) ==
  View(req'[r]) = View(req[r]) \/ Route!Moves(View(req[r]), View(req'[r]))

LEMMA ViewEnded ==
  ASSUME NEW reply \in Replies \ {"tile"}
  PROVE  View(Ended(reply)) = Route!Over(reply)
<1> DEFINE q == Ended(reply)
           to == Route!Over(reply)
<1>1. /\ q.pc = "done" /\ q.layer = Absent /\ q.coord = Absent /\ q.window = Absent /\ q.def = Absent
      /\ q.frame = <<>> /\ q.tile = Absent /\ q.reply = reply
  BY DEF Ended, NoRequest
<1>2. to = [[phase |-> "idle", layer |-> Absent, coord |-> Absent, window |-> Absent, def |-> Absent,
             frame |-> <<>>, tile |-> Absent, reply |-> Absent] EXCEPT !.phase = "done", !.reply = reply]
  BY DEF Route!Over, Route!Waiting
<1> HIDE DEF q, to
<1>3. /\ to.phase = "done" /\ to.layer = Absent /\ to.coord = Absent /\ to.window = Absent
      /\ to.def = Absent /\ to.frame = <<>> /\ to.tile = Absent /\ to.reply = reply
  BY <1>2
<1>4. to = [phase |-> "done", layer |-> Absent, coord |-> Absent, window |-> Absent, def |-> Absent,
            frame |-> <<>>, tile |-> Absent, reply |-> reply]
  BY <1>2, <1>3
<1>5. View(q) = to
  BY <1>1, <1>4 DEF View, Phase
<1> QED BY <1>5 DEF q, to

LEMMA ViewNone == View(NoRequest) = Route!Waiting
BY DEF View, Phase, NoRequest, Route!Waiting

\* In a step of request r the others' views stay.
LEMMA OneTurns ==
  ASSUME TileInv, NEW r \in Requests, NEW v, Becomes(r, v),
         View(v) = View(req[r]) \/ Route!Moves(View(req[r]), View(v))
  PROVE  \A q \in Requests : Turned(q)
<1>1. req \in [Requests -> Request]
  BY DEF TileInv, TileTypes
<1>2. req'[r] = v /\ \A q \in Requests : q # r => req'[q] = req[q]
  BY <1>1 DEF Becomes
<1> QED BY <1>2 DEF Turned

\* A request in the handler may come to nothing, at any point.
LEMMA FailTurns ==
  ASSUME TileInv, NEW r \in Requests, NEW reply,
         \/ req[r].pc \in {"find", "probe", "render", "put"} /\ reply \in {"error", "dropped"}
         \/ req[r].pc \in {"probe", "render", "put"} /\ reply = "refused"
  PROVE  Route!Moves(View(req[r]), View(Ended(reply)))
<1>1. View(req[r]).phase = Phase(req[r])
  BY DEF View
<1>2. View(Ended(reply)) = Route!Over(reply)
  BY ViewEnded DEF Replies
<1>3. Route!Fail(View(req[r]), View(Ended(reply)))
  BY <1>1, <1>2 DEF Phase, Route!Fail
<1> QED BY <1>3 DEF Route!Moves

\* A tile served is one that is drawn without a cache.
LEMMA ServeTurns ==
  ASSUME TileInv, NEW r \in Requests, req[r].pc \in {"probe", "render", "put"},
         NEW factor \in {1} \cup Factors,
         Serve(r, Rendered(req[r].def, req[r].frame, req[r].coord, factor))
  PROVE  \A q \in Requests : Turned(q)
<1> DEFINE q == req[r]
           tile == Rendered(q.def, q.frame, q.coord, factor)
           v == [q EXCEPT !.pc = "done", !.reply = "tile", !.tile = tile, !.window = Absent]
<1>1. q \in Request
  BY DEF TileInv, TileTypes
<1>2. /\ v.pc = "done" /\ v.reply = "tile" /\ v.tile = tile /\ v.window = Absent
      /\ v.layer = q.layer /\ v.coord = q.coord /\ v.def = q.def /\ v.frame = q.frame
  BY <1>1 DEF Request
<1>3. Becomes(r, v)
  BY DEF Serve
<1> HIDE DEF v, q
<1>4. View(v) = [phase |-> "done", layer |-> q.layer, coord |-> q.coord, window |-> Absent, def |-> q.def,
                 frame |-> q.frame, tile |-> tile, reply |-> "tile"]
  BY <1>2 DEF View, Phase
<1> DEFINE old == View(q)
<1>5. /\ old.phase = "drawing" /\ old.def = q.def /\ old.frame = q.frame /\ old.coord = q.coord
      /\ old = [phase |-> "drawing", layer |-> q.layer, coord |-> q.coord, window |-> q.window,
               def |-> q.def, frame |-> q.frame, tile |-> Absent, reply |-> q.reply]
  BY DEF View, Phase, q
<1> DEFINE drawn == [spec |-> old.def.spec, kernel |-> old.def.kernel, frame |-> old.frame,
                     coord |-> old.coord, factor |-> factor]
<1>6. Route!Draw(View(q), View(v))
  <2> HIDE DEF old
  <2>1. tile = drawn
    BY <1>5 DEF Rendered
  <2> HIDE DEF tile, drawn
  <2> DEFINE to == [old EXCEPT !.phase = "done", !.reply = "tile", !.window = Absent, !.tile = drawn]
  <2>2. View(v) = to
    <3>1. to = [[phase |-> "drawing", layer |-> q.layer, coord |-> q.coord, window |-> q.window,
                 def |-> q.def, frame |-> q.frame, tile |-> Absent, reply |-> q.reply]
                EXCEPT !.phase = "done", !.reply = "tile", !.window = Absent, !.tile = drawn]
      BY <1>5
    <3> HIDE DEF to
    <3>2. /\ to.phase = "done" /\ to.layer = q.layer /\ to.coord = q.coord /\ to.window = Absent
          /\ to.def = q.def /\ to.frame = q.frame /\ to.tile = drawn /\ to.reply = "tile"
      BY <3>1
    <3>3. to = [phase |-> "done", layer |-> q.layer, coord |-> q.coord, window |-> Absent,
                def |-> q.def, frame |-> q.frame, tile |-> drawn, reply |-> "tile"]
      BY <3>1, <3>2
    <3> QED BY <1>4, <2>1, <3>3
  <2>3. old.phase = "drawing"
    BY <1>5
  <2> QED BY <2>2, <2>3, Zenon DEF Route!Draw, drawn, old
<1>7. Route!Moves(View(q), View(v))
  BY <1>6 DEF Route!Moves
<1> QED BY <1>3, <1>7, OneTurns DEF q

LEMMA AskTurns ==
  ASSUME TileInv, NEW r \in Requests, Ask(r)
  PROVE  \A q \in Requests : Turned(q)
<1>1. PICK l \in Layers, c \in Coords, w \in Asked :
        Becomes(r, IF layers[l] = Absent THEN Ended("notfound")
                   ELSE [NoRequest EXCEPT !.pc = "find", !.layer = l, !.coord = c,
                                          !.window = w, !.def = layers[l]])
  BY DEF Ask
<1>2. View(req[r]).phase = "idle"
  BY DEF Ask, View, Phase
<1>3. CASE layers[l] = Absent
  <2>1. View(Ended("notfound")) = Route!Over("notfound")
    BY ViewEnded DEF Replies
  <2>2. Route!Ask(View(req[r]), View(Ended("notfound")))
    BY <1>2, <1>3, <2>1 DEF Route!Ask
  <2> QED BY <1>1, <1>3, <2>2, OneTurns DEF Route!Moves
<1>4. CASE layers[l] # Absent
  <2> DEFINE v == [NoRequest EXCEPT !.pc = "find", !.layer = l, !.coord = c,
                                    !.window = w, !.def = layers[l]]
  <2>1. View(v) = [phase |-> "resolving", layer |-> l, coord |-> c, window |-> w, def |-> layers[l],
                   frame |-> <<>>, tile |-> Absent, reply |-> Absent]
    BY DEF View, Phase, NoRequest
  <2>2. Becomes(r, v)
    BY <1>1, <1>4
  <2> HIDE DEF v
  <2> DEFINE to == View(v)
  <2>3. to.layer \in Layers /\ to.coord \in Coords /\ to.window \in Asked /\ layers[to.layer] # Absent
    BY <1>4, <2>1
  <2>4. to = [Route!Waiting EXCEPT !.phase = "resolving", !.layer = to.layer, !.coord = to.coord,
                                   !.window = to.window, !.def = layers[to.layer]]
    <3> DEFINE asked == [Route!Waiting EXCEPT !.phase = "resolving", !.layer = to.layer,
                           !.coord = to.coord, !.window = to.window, !.def = layers[to.layer]]
    <3>1. to.layer = l /\ to.coord = c /\ to.window = w /\ layers[to.layer] = layers[l]
      BY <2>1
    <3> HIDE DEF to
    <3>2. asked = [[phase |-> "idle", layer |-> Absent, coord |-> Absent, window |-> Absent, def |-> Absent,
                    frame |-> <<>>, tile |-> Absent, reply |-> Absent]
                   EXCEPT !.phase = "resolving", !.layer = l, !.coord = c, !.window = w, !.def = layers[l]]
      BY <3>1 DEF Route!Waiting
    <3> HIDE DEF asked
    <3>3. /\ asked.phase = "resolving" /\ asked.layer = l /\ asked.coord = c /\ asked.window = w
          /\ asked.def = layers[l] /\ asked.frame = <<>> /\ asked.tile = Absent /\ asked.reply = Absent
      BY <3>2
    <3>4. asked = [phase |-> "resolving", layer |-> l, coord |-> c, window |-> w, def |-> layers[l],
                   frame |-> <<>>, tile |-> Absent, reply |-> Absent]
      BY <3>2, <3>3
    <3> QED BY <2>1, <3>4 DEF asked, to
  <2>5. Route!Ask(View(req[r]), View(v))
    <3> HIDE DEF to
    <3> QED BY <1>2, <2>3, <2>4, Zenon DEF Route!Ask, to
  <2> QED BY <2>2, <2>5, OneTurns DEF Route!Moves
<1> QED BY <1>3, <1>4

\* The catalog's search finds what the route promises.
LEMMA EligibleInBoth ==
  ASSUME NEW r \in Requests, NEW g \in Granules
  PROVE  InBoth(r, g) <=> Route!Eligible(View(req[r]), g)
BY DEF InBoth, BranchOf, Within, View, Route!Eligible, Route!Within

\* A branch is resolved to the newest.
LEMMA BranchTurns ==
  ASSUME Apart, TileInv, NEW r \in Requests, req[r].pc = "find", Candidates(r) # {}
  PROVE  Route!Resolve(View(req[r]), View(WithBranch(req[r], Resolved(r))))
<1> DEFINE q == req[r]
           g == LatestOf(Candidates(r))
           f == Append(q.frame, Resolved(r))
           m == Len(q.def.branches)
           v == WithBranch(q, Resolved(r))
<1>1. /\ q \in Request /\ q.layer \in Layers /\ q.def \in Definitions[q.layer]
      /\ q.reply = Absent /\ q.frame \in Frames(0 .. m - 1)
  BY DEF TileInv, TileTypes, TypeInv, RequestShape
<1>2. m \in 1..2
  BY <1>1, DefinitionType
<1>3. PICK n \in 0 .. m - 1 : q.frame \in [1..n -> Granule]
  BY <1>1 DEF Frames
<1>4. n \in Nat /\ Len(f) = n + 1
  <2>1. Resolved(r) \in Granule /\ n \in Nat
    BY <1>2, ResolvedType
  <2> QED BY <1>3, <2>1, FrameAppend
<1>5. Resolved(r) = [id |-> g, revision |-> catalog[g].revision]
  BY DEF Resolved
<1>6. g \in Granules /\ Route!Newest(View(q), g)
  <2>1. g \in Candidates(r) /\ Candidates(r) \subseteq Found
        /\ \A h \in Candidates(r) : NotBefore(g, h)
    BY LatestFound, CandidatesFound
  <2> HIDE DEF g
  <2>2. g \in Granules /\ Route!Eligible(View(q), g)
    BY <2>1, CandidatesExact, EligibleInBoth DEF Found
  <2>3. ASSUME NEW h \in Granules, Route!Eligible(View(q), h)
        PROVE  catalog[h].time < catalog[g].time \/ (catalog[h].time = catalog[g].time /\ h <= g)
    <3>1. NotBefore(g, h)
      BY <2>1, <2>3, CandidatesExact, EligibleInBoth
    <3>2. g \in Nat /\ h \in Nat
      BY <2>2, TileAssumption
    <3>3. catalog[g] # Absent /\ catalog[h] # Absent
      BY <2>2, <2>3 DEF Route!Eligible
    <3>4. catalog[g].time \in Nat /\ catalog[h].time \in Nat
      BY <2>2, <3>3, TileAssumption DEF TileInv, TypeInv
    <3> QED BY <3>1, <3>2, <3>4 DEF NotBefore
  <2> QED BY <2>2, <2>3 DEF Route!Newest
<1>7. /\ View(q).phase = "resolving" /\ View(q).frame = q.frame /\ View(q).def = q.def
      /\ View(q) = [phase |-> "resolving", layer |-> q.layer, coord |-> q.coord, window |-> q.window,
                    def |-> q.def, frame |-> q.frame, tile |-> Absent, reply |-> Absent]
  BY <1>1 DEF View, Phase
<1> DEFINE to == IF Len(f) = m /\ \E i \in DOMAIN f : f[i].revision \in Lacking
                 THEN Route!Over("bandless")
                 ELSE [View(q) EXCEPT !.frame = f, !.phase = IF Len(f) = m THEN "drawing" ELSE @]
<1>8. View(v) = to
  <2> HIDE DEF q, f, m
  <2>1. CASE Len(f) < m
    <3>1. v = [q EXCEPT !.frame = f]
      BY <2>1 DEF WithBranch, f, m
    <3>2. /\ v.pc = "find" /\ v.frame = f /\ v.layer = q.layer /\ v.coord = q.coord
          /\ v.window = q.window /\ v.def = q.def /\ v.reply = Absent
      BY <1>1, <3>1 DEF Request, q
    <3>3. to = [View(q) EXCEPT !.frame = f, !.phase = "resolving"]
      <4>1. Len(f) # m
        BY <1>2, <1>4, <2>1
      <4>2. to = [View(q) EXCEPT !.frame = f, !.phase = View(q).phase]
        BY <4>1
      <4> QED BY <1>7, <4>2
    <3> HIDE DEF v, to
    <3> QED BY <1>7, <3>2, <3>3 DEF View, Phase
  <2>2. CASE Len(f) = m /\ \E i \in DOMAIN f : f[i].revision \in Lacking
    <3>1. v = Ended("bandless")
      BY <1>2, <2>2 DEF WithBranch, f, m
    <3> QED BY <2>2, <3>1, ViewEnded DEF Replies
  <2>3. CASE Len(f) = m /\ ~(\E i \in DOMAIN f : f[i].revision \in Lacking)
    <3> DEFINE pc == IF q.def.cached THEN "probe" ELSE "render"
    <3>1. v = [[q EXCEPT !.frame = f] EXCEPT !.pc = pc]
      BY <1>2, <2>3 DEF WithBranch, f, m
    <3>2. /\ v.pc = pc /\ v.frame = f /\ v.layer = q.layer /\ v.coord = q.coord
          /\ v.window = q.window /\ v.def = q.def /\ v.reply = Absent
      BY <1>1, <3>1 DEF Request, q
    <3>3. to = [View(q) EXCEPT !.frame = f, !.phase = "drawing"]
      BY <2>3
    <3> HIDE DEF v, to
    <3> QED BY <1>7, <3>2, <3>3 DEF View, Phase
  <2> QED BY <1>2, <1>3, <1>4, <2>1, <2>2, <2>3
<1> HIDE DEF v, q, g, m
<1>9. Append(View(q).frame, [id |-> g, revision |-> catalog[g].revision]) = f
  BY <1>5, <1>7
<1>10. Len(View(q).def.branches) = m
  BY <1>7 DEF m
<1>11. View(v) = LET frame == Append(View(q).frame, [id |-> g, revision |-> catalog[g].revision])
                     whole == Len(frame) = Len(View(q).def.branches)
                 IN IF whole /\ \E i \in DOMAIN frame : frame[i].revision \in Lacking
                    THEN Route!Over("bandless")
                    ELSE [View(q) EXCEPT !.frame = frame, !.phase = IF whole THEN "drawing" ELSE @]
  BY <1>8, <1>9, <1>10, Zenon
<1> QED BY <1>6, <1>7, <1>11, Zenon DEF Route!Resolve, v, q

LEMMA FindTurns ==
  ASSUME Apart, TileInv, NEW r \in Requests, FindBranch(r)
  PROVE  \A q \in Requests : Turned(q)
<1>1. req[r].pc = "find"
  BY DEF FindBranch
<1>2. CASE Candidates(r) = {} /\ Reply(r, "notfound")
  <2>1. \A g \in Granules : ~Route!Eligible(View(req[r]), g)
    BY <1>1, <1>2, CandidatesExact, EligibleInBoth
  <2>2. View(req[r]).phase = "resolving"
    BY <1>1 DEF View, Phase
  <2>3. View(Ended("notfound")) = Route!Over("notfound")
    BY ViewEnded DEF Replies
  <2>4. Route!Moves(View(req[r]), View(Ended("notfound")))
    BY <2>1, <2>2, <2>3 DEF Route!Miss, Route!Moves
  <2> QED BY <1>2, <2>4, OneTurns DEF Reply
<1>3. CASE Candidates(r) # {} /\ Becomes(r, WithBranch(req[r], Resolved(r)))
  <2>1. Route!Resolve(View(req[r]), View(WithBranch(req[r], Resolved(r))))
    BY <1>1, <1>3, BranchTurns
  <2> QED BY <1>3, <2>1, OneTurns DEF Route!Moves
<1>4. CASE Reply(r, "error")
  BY <1>1, <1>4, FailTurns, OneTurns DEF Reply
<1> QED BY <1>2, <1>3, <1>4 DEF FindBranch

\* Asking the cache in vain cannot be seen, and what it answers is the tile.
LEMMA ProbeTurns ==
  ASSUME KeysTell, TileInv, ShowInv, NEW r \in Requests, Probe(r)
  PROVE  \A q \in Requests : Turned(q)
<1>1. req[r].pc = "probe" /\ req[r] \in Request
  BY DEF Probe, TileInv, TileTypes
<1>2. CASE Key(r) \in DOMAIN cache /\ cache[Key(r)] # Garbage /\ Serve(r, cache[Key(r)])
  BY <1>1, <1>2, HitShows, ServeTurns
<1>3. CASE Becomes(r, [req[r] EXCEPT !.pc = "render"])
  <2> DEFINE q == req[r]
             v == [q EXCEPT !.pc = "render"]
  <2>1. /\ v.pc = "render" /\ v.layer = q.layer /\ v.coord = q.coord /\ v.window = q.window
        /\ v.def = q.def /\ v.frame = q.frame /\ v.reply = q.reply
    BY <1>1 DEF Request
  <2> HIDE DEF v, q
  <2>2. View(v) = View(q)
    BY <1>1, <2>1 DEF View, Phase, q
  <2> QED BY <1>3, <2>2, OneTurns DEF v, q
<1> QED BY <1>2, <1>3 DEF Probe

LEMMA RenderTurns ==
  ASSUME TileInv, NEW r \in Requests, Render(r)
  PROVE  \A q \in Requests : Turned(q)
<1>1. req[r].pc = "render" /\ req[r] \in Request
  BY DEF Render, TileInv, TileTypes
<1>2. ASSUME NEW tile, Becomes(r, [req[r] EXCEPT !.pc = "put", !.tile = tile])
      PROVE  \A q \in Requests : Turned(q)
  <2> DEFINE q == req[r]
             v == [q EXCEPT !.pc = "put", !.tile = tile]
  <2>1. /\ v.pc = "put" /\ v.layer = q.layer /\ v.coord = q.coord /\ v.window = q.window
        /\ v.def = q.def /\ v.frame = q.frame /\ v.reply = q.reply
    BY <1>1 DEF Request
  <2> HIDE DEF v, q
  <2>2. View(v) = View(q)
    BY <1>1, <2>1 DEF View, Phase, q
  <2> QED BY <1>2, <2>2, OneTurns DEF v, q
<1>3. ASSUME NEW factor \in {1} \cup Factors,
             Serve(r, Rendered(req[r].def, req[r].frame, req[r].coord, factor))
      PROVE  \A q \in Requests : Turned(q)
  BY <1>1, <1>3, ServeTurns
<1>4. ASSUME NEW reply \in {"refused", "error"}, Reply(r, reply)
      PROVE  \A q \in Requests : Turned(q)
  BY <1>1, <1>4, FailTurns, OneTurns DEF Reply
<1> QED BY <1>2, <1>3, <1>4 DEF Render

LEMMA PutTurns ==
  ASSUME TileInv, ShowInv, NEW r \in Requests, Put(r)
  PROVE  \A q \in Requests : Turned(q)
<1>1. req[r].pc = "put" /\ Serve(r, req[r].tile)
  BY DEF Put
<1>2. /\ req[r].tile.factor \in {1} \cup Factors
      /\ req[r].tile = Rendered(req[r].def, req[r].frame, req[r].coord, req[r].tile.factor)
  BY <1>1 DEF ShowInv, ShowsItsFrame
<1> QED BY <1>1, <1>2, ServeTurns

LEMMA CancelTurns ==
  ASSUME TileInv, NEW r \in Requests, Cancel(r)
  PROVE  \A q \in Requests : Turned(q)
<1>1. req[r].pc \in {"find", "probe", "render", "put"}
  BY DEF Cancel, TileInv, TypeInv
<1> QED BY <1>1, FailTurns, OneTurns DEF Cancel, Reply

LEMMA RestartTurns ==
  ASSUME TileInv, Restart, NEW q \in Requests
  PROVE  Turned(q)
<1>1. CASE req[q].pc \in {"idle", "done"}
  BY <1>1 DEF Restart, Turned
<1>2. CASE req[q].pc \notin {"idle", "done"}
  <2>1. req'[q] = Ended("dropped") /\ req[q].pc \in {"find", "probe", "render", "put"}
    BY <1>2 DEF Restart, TileInv, TypeInv
  <2> QED BY <2>1, FailTurns DEF Turned
<1> QED BY <1>1, <1>2

LEMMA StepTurns ==
  ASSUME KeysTell, Apart, TileInv, ShowInv, [Next]_vars
  PROVE  \A q \in Requests : Turned(q)
<1>1. ASSUME NEW r \in Requests,
             Ask(r) \/ FindBranch(r) \/ Probe(r) \/ Render(r) \/ Put(r) \/ Cancel(r)
      PROVE  \A q \in Requests : Turned(q)
  BY <1>1, AskTurns, FindTurns, ProbeTurns, RenderTurns, PutTurns, CancelTurns
<1>2. CASE UNCHANGED req
  BY <1>2 DEF Turned
<1>3. CASE \/ \E g \in Granules : Register(g)
           \/ \E l \in Services : Publish(l) \/ Remove(l)
           \/ \E key \in DOMAIN cache : Interfere(key)
           \/ UNCHANGED vars
  BY <1>2, <1>3 DEF Register, Publish, Remove, Interfere, vars
<1> QED BY <1>1, <1>3, RestartTurns DEF Next

\* Where ids contain no "+", a layer's kernel is not edited alone, a granule
\* keeps its assets and no two acquisitions are a millisecond apart, a server
\* with a cache answers every request as one without: each branch with what
\* is newest at its moment, the tile with what was resolved, whatever the
\* cache held, lost or was given, and across restarts.
THEOREM TheCacheIsUnseen == KeysTell /\ Apart => (Spec => CacheUnseen)
<1> SUFFICES ASSUME KeysTell, Apart PROVE Spec => CacheUnseen
  OBVIOUS
<1>1. Init => Route!Init
  BY ViewNone DEF Init, Route!Init
<1>2. TileInv /\ ShowInv /\ [Next]_vars => [Route!Next]_([r \in Requests |-> View(req[r])])
  <2> SUFFICES ASSUME TileInv, ShowInv, [Next]_vars PROVE Route!Next
    OBVIOUS
  <2> DEFINE views == [r \in Requests |-> View(req[r])]
  <2>1. views' = [r \in Requests |-> View(req'[r])]
    BY DEF View, Phase
  <2>2. \A r \in Requests : views'[r] = views[r] \/ Route!Moves(views[r], views'[r])
    BY <2>1, StepTurns DEF Turned
  <2> QED BY <2>1, <2>2 DEF Route!Next
<1>3. TileInv /\ ShowInv /\ [Next]_vars => ShowInv'
  BY ShowStep
<1> QED BY <1>1, <1>2, <1>3, InitShows, TilesKept, PTL DEF Spec, CacheUnseen, Route!Spec

--------------------------------------------------------------------------------
(* The planner *)

------------------------------------------------------------------------------
(* Rounding and wrapping *)

LEMMA Quotient ==
  ASSUME NEW a \in Int, NEW b \in Nat \ {0}
  PROVE  a \div b \in Int /\ b * (a \div b) <= a /\ a < b * (a \div b) + b
  OBVIOUS

\* A number below the modulus is its own remainder.
LEMMA NoWrap ==
  ASSUME NEW x \in Nat, NEW m \in Nat, x < m
  PROVE  x % m = x
  OBVIOUS

LEMMA Wrapped ==
  ASSUME NEW x \in Nat, NEW m \in Nat \ {0}
  PROVE  x % m \in Nat
  OBVIOUS

LEMMA ProductOfNats ==
  ASSUME NEW x \in Nat, NEW y \in Nat
  PROVE  x * y \in Nat
  OBVIOUS

\* Factors that grow make a product grow.
LEMMA ProductGrows ==
  ASSUME NEW a \in Nat, NEW b \in Nat, NEW x \in Nat, NEW y \in Nat, a <= x, b <= y
  PROVE  a * b <= x * y
  OBVIOUS

\* Dividing by more makes fewer whole pixels.
LEMMA FewerPixels ==
  ASSUME NEW a \in Nat, NEW b \in Nat \ {0}, NEW f \in Nat \ {0}
  PROVE  /\ Ceil(<<a, b>>) \in Nat /\ Ceil(<<a, b * f>>) \in Nat
         /\ Ceil(<<a, b * f>>) <= Ceil(<<a, b>>)
<1> DEFINE d == b * f
           p == (-a) \div b
           q == (-a) \div d
<1>1. p \in Int /\ b * p <= -a /\ -a < b * p + b
  BY Quotient
<1>2. d \in Nat \ {0}
  OBVIOUS
<1>3. q \in Int /\ d * q <= -a /\ -a < d * q + d
  <2> HIDE DEF d
  <2>1. -a \in Int
    OBVIOUS
  <2> QED BY <1>2, <2>1, Quotient
<1>4. Ceil(<<a, b>>) = -p /\ Ceil(<<a, b * f>>) = -q
  BY DEF Ceil
<1> HIDE DEF p, q
<1>5. p <= 0 /\ q <= 0
  <2>1. ASSUME NEW e \in Nat \ {0}, NEW r \in Int, e * r <= -a PROVE r <= 0
    BY <2>1
  <2> HIDE DEF d
  <2> QED BY <1>1, <1>2, <1>3, <2>1
<1>6. p <= q
  <2>1. d * p <= b * p
    BY <1>1, <1>5
  <2> HIDE DEF d
  <2>2. d * p < d * (q + 1)
    BY <1>1, <1>2, <1>3, <2>1
  <2>3. ASSUME NEW e \in Nat \ {0}, e * p < e * (q + 1) PROVE p < q + 1
    BY <1>1, <1>3, <2>3
  <2>4. p < q + 1
    BY <1>2, <2>2, <2>3
  <2> QED BY <1>1, <1>3, <2>4
<1> QED BY <1>1, <1>3, <1>4, <1>5, <1>6

------------------------------------------------------------------------------
(* The estimate of a band *)

LEMMA PixelsAtFactor ==
  ASSUME NEW len, IsSize(len), NEW f \in Nat \ {0}
  PROVE  /\ Ceil(len) \in Nat /\ Ceil(Over(len, Num(f))) \in Nat
         /\ Ceil(Over(len, Num(f))) <= Ceil(len)
         /\ f = 1 => Ceil(Over(len, Num(f))) = Ceil(len)
<1> DEFINE a == len[1]
           b == len[2]
<1>1. a \in Nat /\ b \in Nat \ {0}
  BY DEF IsSize
<1>2. Over(len, Num(f)) = <<a, b * f>>
  BY <1>1 DEF Over, Num
<1>3. Ceil(len) = Ceil(<<a, b>>)
  BY DEF Ceil
<1>4. f = 1 => b * f = b
  BY <1>1
<1> HIDE DEF a, b
<1> QED BY <1>1, <1>2, <1>3, <1>4, FewerPixels

\* The bytes of a full read of one band.
FullBytes(band) == Ceil(band.cols) * Ceil(band.rows) * band.bytes

LEMMA EstimateIsNat ==
  ASSUME NEW band, IsBand(band), NEW f \in Nat \ {0}
  PROVE  EstimatedBytes(band, f) \in Nat /\ FullBytes(band) \in Nat
<1> DEFINE pixels == Ceil(Over(band.cols, Num(f))) * Ceil(Over(band.rows, Num(f)))
<1>1. pixels \in Nat
  BY PixelsAtFactor, ProductOfNats DEF IsBand
<1>2. Saturating(pixels) \in Nat /\ band.bytes \in Nat /\ Width \in Nat \ {0}
  BY <1>1, WidthAssumption DEF Saturating, Width, IsBand
<1>3. EstimatedBytes(band, f) = (Saturating(pixels) * band.bytes) % Width
  BY DEF EstimatedBytes
<1>4. FullBytes(band) \in Nat
  BY <1>2, PixelsAtFactor, ProductOfNats DEF IsBand, FullBytes
<1> HIDE DEF pixels
<1> QED BY <1>2, <1>3, <1>4, ProductOfNats, Wrapped

\* Where a full read fits into a byte count, no read at a factor is estimated
\* at more, and at factor 1 it is that read.
LEMMA EstimateWithinFull ==
  ASSUME NEW band, IsBand(band), NEW f \in Nat \ {0}, FullBytes(band) <= U64Max
  PROVE  /\ EstimatedBytes(band, f) <= FullBytes(band)
         /\ f = 1 => EstimatedBytes(band, f) = FullBytes(band)
<1> DEFINE full == Ceil(band.cols) * Ceil(band.rows)
           pixels == Ceil(Over(band.cols, Num(f))) * Ceil(Over(band.rows, Num(f)))
<1>1. full \in Nat /\ pixels \in Nat /\ pixels <= full /\ (f = 1 => pixels = full)
  <2>1. IsSize(band.cols) /\ IsSize(band.rows)
    BY DEF IsBand
  <2>2. /\ Ceil(Over(band.cols, Num(f))) <= Ceil(band.cols)
        /\ Ceil(Over(band.rows, Num(f))) <= Ceil(band.rows)
        /\ Ceil(band.cols) \in Nat /\ Ceil(Over(band.cols, Num(f))) \in Nat
        /\ Ceil(band.rows) \in Nat /\ Ceil(Over(band.rows, Num(f))) \in Nat
        /\ f = 1 => /\ Ceil(Over(band.cols, Num(f))) = Ceil(band.cols)
                    /\ Ceil(Over(band.rows, Num(f))) = Ceil(band.rows)
    BY <2>1, PixelsAtFactor
  <2>3. full \in Nat /\ pixels \in Nat
    BY <2>2, ProductOfNats
  <2>4. pixels <= full
    BY <2>2, ProductGrows
  <2> QED BY <2>2, <2>3, <2>4
<1>2. /\ EstimatedBytes(band, f) = (Saturating(pixels) * band.bytes) % Width
      /\ FullBytes(band) = full * band.bytes
  BY DEF EstimatedBytes, FullBytes
<1> HIDE DEF full, pixels
<1>3. band.bytes \in Nat /\ U64Max \in Nat
  BY WidthAssumption DEF IsBand
<1>4. pixels * band.bytes \in Nat /\ full * band.bytes \in Nat /\ pixels * band.bytes <= full * band.bytes
  BY <1>1, <1>3, ProductOfNats, ProductGrows
<1>5. Saturating(pixels) * band.bytes = pixels * band.bytes
  <2>1. CASE band.bytes = 0
    <3>1. Saturating(pixels) \in Nat
      BY <1>1, <1>3 DEF Saturating
    <3> QED BY <1>1, <2>1, <3>1
  <2>2. CASE band.bytes # 0
    <3>1. pixels * 1 <= pixels * band.bytes
      BY <1>1, <1>3, <2>2, ProductGrows
    <3>2. pixels <= U64Max
      BY <1>1, <1>2, <1>3, <1>4, <3>1
    <3> QED BY <1>1, <1>3, <3>2 DEF Saturating
  <2> QED BY <2>1, <2>2
<1>6. pixels * band.bytes < Width /\ Width \in Nat
  BY <1>2, <1>3, <1>4 DEF Width
<1>7. EstimatedBytes(band, f) = pixels * band.bytes
  BY <1>2, <1>4, <1>5, <1>6, NoWrap
<1> QED BY <1>1, <1>2, <1>4, <1>7

------------------------------------------------------------------------------
(* Sums over the bands *)

LEMMA TotalSums ==
  ASSUME NEW bands, AreBands(bands), NEW f \in Nat \ {0}
  PROVE  \E s \in [0..Len(bands) -> Nat] :
           /\ s[0] = 0 /\ \A n \in 1..Len(bands) : s[n] = (s[n - 1] + EstimatedBytes(bands[n], f)) % Width
           /\ Total(bands, f) = s[Len(bands)]
<1> DEFINE size == Len(bands)
           next(n, x) == (x + EstimatedBytes(bands[n], f)) % Width
           step == [p \in (1..size) \X Nat |-> next(p[1], p[2])]
           pass(g) == [n \in 0..size |-> IF n = 0 THEN 0 ELSE next(n, g[n - 1])]
<1>1. size \in Nat /\ \A n \in 1..size : IsBand(bands[n])
  BY DEF AreBands
<1>2. \A n \in 1..size, x \in Nat : next(n, x) \in Nat
  BY <1>1, EstimateIsNat, Wrapped, WidthAssumption DEF Width
<1> HIDE DEF next
<1>3. step \in [(1..size) \X Nat -> Nat] /\ \A n \in 1..size, x \in Nat : step[<<n, x>>] = next(n, x)
  BY <1>2
<1> HIDE DEF step
<1>4. PICK g : Passes(g, size, Nat, 0, step)
  BY <1>1, <1>3, PassExists
<1>5. g = pass(g)
  <2>1. g \in [0..size -> Nat] /\ g[0] = 0
    BY <1>4 DEF Passes
  <2>2. \A n \in 1..size : g[n] = next(n, g[n - 1])
    <3> SUFFICES ASSUME NEW n \in 1..size PROVE g[n] = next(n, g[n - 1])
      OBVIOUS
    <3>1. g[n - 1] \in Nat
      BY <1>1, <2>1
    <3>2. g[n] = step[<<n, g[n - 1]>>]
      BY <1>4 DEF Passes
    <3> QED BY <1>3, <3>1, <3>2
  <2>3. \A n \in 0..size : n = 0 \/ n \in 1..size
    BY <1>1
  <2>4. \A n \in 0..size : g[n] = IF n = 0 THEN 0 ELSE next(n, g[n - 1])
    BY <2>1, <2>2, <2>3
  <2> QED BY <2>1, <2>4
<1> DEFINE s == CHOOSE h : h = pass(h)
<1>6. s = pass(s)
  <2> HIDE DEF pass
  <2> QED BY <1>5
<1>7. Total(bands, f) = s[size]
  BY DEF Total, next
<1> HIDE DEF s
<1>8. DOMAIN s = 0..size /\ s = [n \in DOMAIN s |-> s[n]]
  BY <1>6
<1>9. s[0] = 0 /\ \A n \in 1..size : s[n] = next(n, s[n - 1])
  <2>1. \A n \in 0..size : s[n] = IF n = 0 THEN 0 ELSE next(n, s[n - 1])
    BY <1>6
  <2> QED BY <1>1, <2>1
<1>10. Passes(s, size, Nat, 0, step)
  <2>1. \A n \in 1..size : s[n - 1] \in Nat => s[n] = step[<<n, s[n - 1]>>]
    BY <1>3, <1>9
  <2>2. 0 \in Nat /\ s[0] = 0
    BY <1>9
  <2> HIDE DEF size
  <2> QED BY <1>1, <1>3, <1>8, <2>1, <2>2, PassKept, Zenon
<1>11. s \in [0..size -> Nat]
  BY <1>10 DEF Passes
<1> QED BY <1>7, <1>9, <1>11 DEF next

LEMMA FullReadSums ==
  ASSUME NEW bands, AreBands(bands)
  PROVE  \E s \in [0..Len(bands) -> Nat] :
           /\ s[0] = 0 /\ \A n \in 1..Len(bands) : s[n] = s[n - 1] + FullBytes(bands[n])
           /\ FullRead(bands) = s[Len(bands)]
<1> DEFINE size == Len(bands)
           next(n, x) == x + FullBytes(bands[n])
           step == [p \in (1..size) \X Nat |-> next(p[1], p[2])]
           pass(g) == [n \in 0..size |-> IF n = 0 THEN 0 ELSE next(n, g[n - 1])]
<1>1. size \in Nat /\ \A n \in 1..size : IsBand(bands[n])
  BY DEF AreBands
<1>2. \A n \in 1..size, x \in Nat : next(n, x) \in Nat
  <2>1. \A n \in 1..size : FullBytes(bands[n]) \in Nat
    <3>1. 1 \in Nat \ {0}
      OBVIOUS
    <3> QED BY <1>1, <3>1, EstimateIsNat
  <2> QED BY <2>1
<1> HIDE DEF next
<1>3. step \in [(1..size) \X Nat -> Nat] /\ \A n \in 1..size, x \in Nat : step[<<n, x>>] = next(n, x)
  BY <1>2
<1> HIDE DEF step
<1>4. PICK g : Passes(g, size, Nat, 0, step)
  BY <1>1, <1>3, PassExists
<1>5. g = pass(g)
  <2>1. g \in [0..size -> Nat] /\ g[0] = 0
    BY <1>4 DEF Passes
  <2>2. \A n \in 1..size : g[n] = next(n, g[n - 1])
    <3> SUFFICES ASSUME NEW n \in 1..size PROVE g[n] = next(n, g[n - 1])
      OBVIOUS
    <3>1. g[n - 1] \in Nat
      BY <1>1, <2>1
    <3>2. g[n] = step[<<n, g[n - 1]>>]
      BY <1>4 DEF Passes
    <3> QED BY <1>3, <3>1, <3>2
  <2>3. \A n \in 0..size : n = 0 \/ n \in 1..size
    BY <1>1
  <2>4. \A n \in 0..size : g[n] = IF n = 0 THEN 0 ELSE next(n, g[n - 1])
    BY <2>1, <2>2, <2>3
  <2> QED BY <2>1, <2>4
<1> DEFINE s == CHOOSE h : h = pass(h)
<1>6. s = pass(s)
  <2> HIDE DEF pass
  <2> QED BY <1>5
<1>7. FullRead(bands) = s[size]
  BY DEF FullRead, FullBytes, next
<1> HIDE DEF s
<1>8. DOMAIN s = 0..size /\ s = [n \in DOMAIN s |-> s[n]]
  BY <1>6
<1>9. s[0] = 0 /\ \A n \in 1..size : s[n] = next(n, s[n - 1])
  <2>1. \A n \in 0..size : s[n] = IF n = 0 THEN 0 ELSE next(n, s[n - 1])
    BY <1>6
  <2> QED BY <1>1, <2>1
<1>10. Passes(s, size, Nat, 0, step)
  <2>1. \A n \in 1..size : s[n - 1] \in Nat => s[n] = step[<<n, s[n - 1]>>]
    BY <1>3, <1>9
  <2>2. 0 \in Nat /\ s[0] = 0
    BY <1>9
  <2> HIDE DEF size
  <2> QED BY <1>1, <1>3, <1>8, <2>1, <2>2, PassKept, Zenon
<1>11. s \in [0..size -> Nat]
  BY <1>10 DEF Passes
<1> QED BY <1>7, <1>9, <1>11 DEF next

\* Where the full read of all bands fits into a byte count, reading them at a
\* factor is estimated at no more, and at factor 1 at just that.
LEMMA TotalWithinFull ==
  ASSUME NEW bands, AreBands(bands), NEW f \in Nat \ {0}, FullRead(bands) <= U64Max
  PROVE  /\ FullRead(bands) \in Nat /\ Total(bands, f) \in Nat
         /\ Total(bands, f) <= FullRead(bands)
         /\ f = 1 => Total(bands, f) = FullRead(bands)
<1> DEFINE size == Len(bands)
<1>1. size \in Nat /\ U64Max \in Nat /\ \A n \in 1..size : IsBand(bands[n])
  BY WidthAssumption DEF AreBands
<1>2. PICK t \in [0..size -> Nat] :
        /\ t[0] = 0 /\ \A n \in 1..size : t[n] = (t[n - 1] + EstimatedBytes(bands[n], f)) % Width
        /\ Total(bands, f) = t[size]
  BY TotalSums
<1>3. PICK u \in [0..size -> Nat] :
        /\ u[0] = 0 /\ \A n \in 1..size : u[n] = u[n - 1] + FullBytes(bands[n])
        /\ FullRead(bands) = u[size]
  BY FullReadSums
<1> HIDE DEF size
<1>4. \A n \in 1..size : EstimatedBytes(bands[n], f) \in Nat /\ FullBytes(bands[n]) \in Nat
  BY <1>1, EstimateIsNat
<1>5. \A n \in 0..size : u[n] <= U64Max
  <2> DEFINE Beyond == {k \in 0..size : ~(u[size - k] <= U64Max)}
  <2>1. SUFFICES ASSUME Beyond # {} PROVE FALSE
    <3>1. SUFFICES ASSUME NEW n \in 0..size, ~(u[n] <= U64Max) PROVE Beyond # {}
      OBVIOUS
    <3>2. size - n \in 0..size /\ size - (size - n) = n
      BY <1>1
    <3> QED BY <3>1, <3>2
  <2>2. PICK k \in Beyond : \A m \in Beyond : k <= m
    <3>1. Beyond \subseteq Nat
      OBVIOUS
    <3> HIDE DEF Beyond
    <3> QED BY <2>1, <3>1, LowestNumber, Zenon
  <2>3. k # 0
    BY <1>1, <1>3, <2>2
  <2>4. k - 1 \in 0..size /\ k - 1 \notin Beyond /\ size - k \in 0..size /\ size - (k - 1) \in 1..size
    <3>1. k \in 0..size /\ k - 1 < k
      BY <1>1, <2>2
    <3>2. k - 1 \in 0..size /\ size - k \in 0..size /\ size - (k - 1) \in 1..size
      BY <1>1, <2>3, <3>1
    <3>3. k - 1 \notin Beyond
      <4> HIDE DEF Beyond
      <4>1. ~(k <= k - 1)
        BY <1>1, <3>1
      <4> QED BY <2>2, <4>1
    <3> QED BY <3>2, <3>3
  <2>5. u[size - (k - 1)] <= U64Max
    BY <2>4
  <2>6. size - (k - 1) - 1 = size - k
    BY <1>1, <2>4
  <2>7. u[size - (k - 1)] = u[size - k] + FullBytes(bands[size - (k - 1)])
    BY <1>3, <2>4, <2>6
  <2>8. u[size - k] \in Nat /\ FullBytes(bands[size - (k - 1)]) \in Nat
    BY <1>3, <1>4, <2>4
  <2>9. u[size - k] <= U64Max
    BY <1>1, <2>5, <2>7, <2>8
  <2> QED BY <2>2, <2>9
<1> DEFINE Wrong == {n \in 0..size : ~(t[n] <= u[n] /\ (f = 1 => t[n] = u[n]))}
<1>6. Wrong = {}
  <2>1. SUFFICES ASSUME Wrong # {} PROVE FALSE
    OBVIOUS
  <2>2. PICK n \in Wrong : \A m \in Wrong : n <= m
    <3>1. Wrong \subseteq Nat
      OBVIOUS
    <3> HIDE DEF Wrong
    <3> QED BY <2>1, <3>1, LowestNumber, Zenon
  <2>3. n \in 0..size /\ ~(t[n] <= u[n] /\ (f = 1 => t[n] = u[n]))
    OBVIOUS
  <2>4. n # 0
    BY <1>2, <1>3, <2>3
  <2>5. n \in 1..size /\ n - 1 \in 0..size /\ n - 1 \notin Wrong
    BY <1>1, <2>2, <2>3, <2>4
  <2>6. t[n - 1] <= u[n - 1] /\ (f = 1 => t[n - 1] = u[n - 1])
    BY <2>5
  <2> DEFINE e == EstimatedBytes(bands[n], f)
             full == FullBytes(bands[n])
  <2>7. /\ t[n - 1] \in Nat /\ u[n - 1] \in Nat /\ u[n] \in Nat /\ e \in Nat /\ full \in Nat
        /\ u[n] = u[n - 1] + full /\ t[n] = (t[n - 1] + e) % Width /\ u[n] <= U64Max
    BY <1>2, <1>3, <1>4, <1>5, <2>3, <2>5
  <2>8. full <= U64Max
    BY <1>1, <2>7
  <2>9. e <= full /\ (f = 1 => e = full)
    BY <1>1, <2>5, <2>8, EstimateWithinFull
  <2> HIDE DEF e, full, Wrong
  <2>10. t[n - 1] + e \in Nat /\ t[n - 1] + e < Width /\ Width \in Nat
    <3>1. ASSUME NEW x \in Nat, NEW y \in Nat, NEW w \in Nat, x <= w, y + w <= U64Max, NEW z \in Nat, z <= y
          PROVE  x + z < Width
      BY <1>1, <3>1 DEF Width
    <3>2. full + u[n - 1] <= U64Max
      BY <2>7
    <3>3. t[n - 1] + e < Width
      BY <2>6, <2>7, <2>9, <3>1, <3>2
    <3>4. \A x, z \in Nat : x + z \in Nat
      OBVIOUS
    <3>5. t[n - 1] + e \in Nat
      BY <2>7, <3>4, Zenon
    <3>6. Width \in Nat
      BY <1>1 DEF Width
    <3> QED BY <3>3, <3>5, <3>6
  <2>11. t[n] = t[n - 1] + e
    BY <2>7, <2>10, NoWrap
  <2> QED BY <2>3, <2>6, <2>7, <2>9, <2>11
<1>7. size \in 0..size /\ t[size] \in Nat /\ u[size] \in Nat
  BY <1>1
<1> QED BY <1>2, <1>3, <1>6, <1>7

------------------------------------------------------------------------------
(* Overviews sharp enough *)

\* The ratio that the planner takes on an axis bounds a factor exactly if the
\* axis is sharp at it.
LEMMA AxisSharp ==
  ASSUME NEW len, IsSize(len), NEW size \in Nat \ {0}, NEW slack, slack[1] \in Int, slack[2] \in Nat \ {0},
         NEW f \in Nat
  PROVE  AtMost(Num(f), Times(Over(len, Num(size)), slack)) <=> AtMost(Num(f * size), Times(len, slack))
<1> DEFINE a == len[1]
           b == len[2]
           c == slack[1]
           d == slack[2]
<1>1. a \in Nat /\ b \in Nat \ {0} /\ c \in Int /\ d \in Nat \ {0}
  BY DEF IsSize
<1>2. Over(len, Num(size)) = <<a, b * size>>
  BY <1>1 DEF Over, Num
<1>3. Times(Over(len, Num(size)), slack) = <<a * c, (b * size) * d>>
  BY <1>2 DEF Times
<1>4. AtMost(Num(f), Times(Over(len, Num(size)), slack)) <=> ~((a * c) * 1 < f * ((b * size) * d))
  BY <1>3 DEF AtMost, Less, Num
<1>5. AtMost(Num(f * size), Times(len, slack)) <=> ~((a * c) * 1 < (f * size) * (b * d))
  BY DEF AtMost, Less, Num, Times
<1> HIDE DEF a, b, c, d
<1>6. f * ((b * size) * d) = (f * size) * (b * d)
  BY <1>1
<1> QED BY <1>4, <1>5, <1>6

\* Where the lesser of two axes is sharp, so is the other.
LEMMA LesserDecides ==
  ASSUME NEW x, IsSize(x), NEW y, IsSize(y), ~Less(y, x), NEW slack, slack[1] \in Int, slack[2] \in Nat \ {0},
         NEW n \in Nat \ {0}, AtMost(Num(n), Times(x, slack))
  PROVE  AtMost(Num(n), Times(y, slack))
<1> DEFINE a == x[1]
           b == x[2]
           p == y[1]
           q == y[2]
           c == slack[1]
           d == slack[2]
<1>1. /\ a \in Nat /\ b \in Nat \ {0} /\ p \in Nat /\ q \in Nat \ {0}
      /\ c \in Int /\ d \in Nat \ {0}
  BY DEF IsSize
<1>2. ~(p * b < a * q)
  BY DEF Less
<1>3. ~((a * c) * 1 < n * (b * d))
  BY DEF AtMost, Less, Num, Times
<1>4. AtMost(Num(n), Times(y, slack)) <=> ~((p * c) * 1 < n * (q * d))
  BY DEF AtMost, Less, Num, Times
<1> HIDE DEF a, b, c, d, p, q
<1> DEFINE m == n * d
<1>5. m \in Nat \ {0} /\ n * (b * d) = m * b /\ n * (q * d) = m * q
  BY <1>1
<1> HIDE DEF m
<1>6. m * b <= a * c
  BY <1>1, <1>3, <1>5
<1>7. c \in Nat
  <2>1. SUFFICES ASSUME c < 0 PROVE FALSE
    BY <1>1
  <2>2. a * c <= 0
    BY <1>1, <2>1
  <2>3. m * b > 0
    BY <1>1, <1>5
  <2> QED BY <1>1, <1>5, <1>6, <2>2, <2>3
<1>8. (m * q) * b <= (p * c) * b
  <2>1. (m * b) * q <= (a * c) * q
    BY <1>1, <1>5, <1>6, <1>7
  <2>2. a * q <= p * b
    BY <1>1, <1>2
  <2>3. (a * q) * c <= (p * b) * c
    BY <1>1, <1>7, <2>2
  <2>4. (m * b) * q = (m * q) * b /\ (a * c) * q = (a * q) * c /\ (p * b) * c = (p * c) * b
    BY <1>1, <1>5, <1>7
  <2> QED BY <1>1, <1>5, <1>7, <2>1, <2>3, <2>4
<1>9. m * q <= p * c
  <2>1. ASSUME NEW s \in Int, NEW t \in Int, s * b <= t * b PROVE s <= t
    BY <1>1, <2>1
  <2>2. m * q \in Int /\ p * c \in Int
    BY <1>1, <1>5
  <2> QED BY <1>8, <2>1, <2>2
<1> QED BY <1>1, <1>4, <1>5, <1>9

\* The smaller ratio bounds a factor exactly if the band is sharp at it.
LEMMA EligibleIsSharp ==
  ASSUME NEW asked, asked.tileSize \in Nat \ {0}, IsBudget(asked.budget), NEW band, IsBand(band),
         NEW f \in Nat \ {0}
  PROVE  AtMost(Num(f), DesiredRatio(band, asked.tileSize, asked.budget.oversample)) <=> Sharp(asked, band, f)
<1> DEFINE size == asked.tileSize
           slack == asked.budget.oversample
           least == Lesser(band.cols, band.rows)
           sharp(len) == AtMost(Num(f * size), Times(len, slack))
<1>1. /\ IsSize(band.cols) /\ IsSize(band.rows) /\ slack[1] \in Int /\ slack[2] \in Nat \ {0}
      /\ size \in Nat \ {0} /\ f * size \in Nat \ {0}
  BY DEF IsBand, IsBudget
<1>2. \/ least = band.cols /\ ~Less(band.rows, band.cols)
      \/ least = band.rows /\ ~Less(band.cols, band.rows)
  <2>1. ~Less(band.rows, band.cols) \/ ~Less(band.cols, band.rows)
    <3>1. ASSUME NEW m \in Int, NEW n \in Int PROVE ~(m < n) \/ ~(n < m)
      OBVIOUS
    <3>2. band.rows[1] * band.cols[2] \in Int /\ band.cols[1] * band.rows[2] \in Int
      BY <1>1 DEF IsSize
    <3> QED BY <3>1, <3>2 DEF Less
  <2> QED BY <2>1 DEF Lesser
<1>3. AtMost(Num(f), DesiredRatio(band, size, slack)) <=> sharp(least)
  <2>1. IsSize(least)
    BY <1>1, <1>2
  <2> HIDE DEF least
  <2>2. AtMost(Num(f), Times(Over(least, Num(size)), slack)) <=> sharp(least)
    BY <1>1, <2>1, AxisSharp
  <2> QED BY <2>2 DEF DesiredRatio, least
<1>4. Sharp(asked, band, f) <=> sharp(band.cols) /\ sharp(band.rows)
  BY DEF Sharp
<1>5. sharp(least) => sharp(band.cols) /\ sharp(band.rows)
  <2> HIDE DEF least, size, slack
  <2> QED BY <1>1, <1>2, LesserDecides
<1> HIDE DEF sharp, least
<1> QED BY <1>2, <1>3, <1>4, <1>5

------------------------------------------------------------------------------
(* The overview that is taken *)

IsAsked(asked) == asked.tileSize \in Nat /\ IsBudget(asked.budget) /\ AreBands(asked.bands)

LEMMA OverviewsAreNats ==
  ASSUME NEW band, IsBand(band)
  PROVE  Range(band.overviews) \subseteq Nat
<1>1. \A s \in Seq(Nat) : \A i \in DOMAIN s : s[i] \in Nat
  OBVIOUS
<1> QED BY <1>1 DEF IsBand, Range

\* What the bands have in common is what the design calls usable.
LEMMA CommonIsUsable ==
  ASSUME NEW asked, IsAsked(asked), asked.tileSize > 0
  PROVE  Usable(asked) =
           {f \in UNION {Range(asked.bands[i].overviews) : i \in DOMAIN asked.bands} :
              \A i \in DOMAIN asked.bands :
                f \in EligibleFactors(asked.bands[i], asked.tileSize, asked.budget.oversample)}
<1> DEFINE bands == asked.bands
           All == UNION {Range(bands[i].overviews) : i \in DOMAIN bands}
           eligible(i) == EligibleFactors(bands[i], asked.tileSize, asked.budget.oversample)
<1>1. ASSUME NEW f \in All, NEW i \in DOMAIN bands, f > 1
      PROVE  f \in eligible(i) <=> f \in Range(bands[i].overviews) /\ Sharp(asked, bands[i], f)
  <2>1. f \in Nat
    <3>1. \A j \in DOMAIN bands : Range(bands[j].overviews) \subseteq Nat
      BY OverviewsAreNats DEF IsAsked, AreBands
    <3> QED BY <3>1
  <2>2. f \in Nat \ {0} /\ asked.tileSize \in Nat \ {0} /\ IsBand(bands[i]) /\ IsBudget(asked.budget)
    BY <1>1, <2>1 DEF IsAsked, AreBands
  <2>3. AtMost(Num(f), DesiredRatio(bands[i], asked.tileSize, asked.budget.oversample)) <=> Sharp(asked, bands[i], f)
    BY <2>2, EligibleIsSharp, Zenon
  <2> QED BY <1>1, <2>3, Zenon DEF EligibleFactors
<1>2. ASSUME NEW f \in All, NEW i \in DOMAIN bands, f \in eligible(i) PROVE f > 1
  BY <1>2, Zenon DEF EligibleFactors
<1>3. ASSUME NEW f \in All
      PROVE  (\A i \in DOMAIN bands : f \in eligible(i)) <=>
             /\ f > 1
             /\ \A i \in DOMAIN bands : f \in Range(bands[i].overviews) /\ Sharp(asked, bands[i], f)
  <2>1. PICK j \in DOMAIN bands : TRUE
    OBVIOUS
  <2> HIDE DEF eligible, All
  <2> QED BY <1>1, <1>2, <2>1, Zenon
<1> HIDE DEF eligible
<1>4. Usable(asked) = {f \in All : \A i \in DOMAIN bands : f \in eligible(i)}
  BY <1>3, Zenon DEF Usable
<1> QED BY <1>4 DEF eligible

\* The coarsest of the usable overviews is one of them.
LEMMA CoarsestIsUsable ==
  ASSUME NEW asked, IsAsked(asked), asked.tileSize > 0, Usable(asked) # {}
  PROVE  Max(Usable(asked)) \in Usable(asked) /\ Max(Usable(asked)) \in Nat \ {0}
<1>1. PICK some \in Usable(asked) : TRUE
  OBVIOUS
<1>2. PICK j \in DOMAIN asked.bands : some \in Range(asked.bands[j].overviews)
  BY <1>1 DEF Usable
<1>3. IsBand(asked.bands[j])
  BY <1>2 DEF IsAsked, AreBands
<1> DEFINE len == asked.bands[j].cols
           slack == asked.budget.oversample
           a == len[1]
           b == len[2]
           c == slack[1]
           d == slack[2]
           size == asked.tileSize
<1>4. /\ a \in Nat /\ b \in Nat \ {0} /\ c \in Int /\ d \in Nat \ {0} /\ size \in Nat \ {0}
  BY <1>3 DEF IsBand, IsSize, IsAsked, IsBudget
<1>5. ASSUME NEW f \in Usable(asked) PROVE f \in Nat /\ f > 1 /\ ~((a * c) * 1 < (f * size) * (b * d))
  <2>1. f > 1 /\ f \in Range(asked.bands[j].overviews) /\ Sharp(asked, asked.bands[j], f)
    BY <1>2, <1>5 DEF Usable
  <2>2. AtMost(Num(f * size), Times(len, slack))
    BY <2>1, Zenon DEF Sharp
  <2>3. f \in Nat
    BY <1>3, <2>1, OverviewsAreNats
  <2>4. Num(f * size) = <<f * size, 1>> /\ Times(len, slack) = <<a * c, b * d>>
    BY DEF Num, Times
  <2>5. ~((a * c) * 1 < (f * size) * (b * d))
    BY <2>2, <2>4 DEF AtMost, Less
  <2> QED BY <2>1, <2>3, <2>5
<1> HIDE DEF a, b, c, d, size
<1>6. ASSUME NEW f \in Nat, f > 1, ~((a * c) * 1 < (f * size) * (b * d)) PROVE f <= a * c
  <2>1. size * (b * d) \in Nat \ {0} /\ (f * size) * (b * d) = f * (size * (b * d))
    BY <1>4
  <2>2. ASSUME NEW m \in Nat \ {0} PROVE f <= f * m
    BY <2>2
  <2>3. f <= f * (size * (b * d))
    BY <2>1, <2>2
  <2>4. a * c \in Int
    BY <1>4
  <2> QED BY <1>6, <2>1, <2>3, <2>4
<1>7. /\ Usable(asked) \subseteq Nat /\ \A f \in Usable(asked) : f <= a * c /\ f > 1
  BY <1>5, <1>6
<1>8. a * c \in Nat
  BY <1>1, <1>4, <1>7
<1>9. \E f \in Usable(asked) : \A g \in Usable(asked) : f >= g
  BY <1>7, <1>8, GreatestNumber
<1>10. Max(Usable(asked)) \in Usable(asked)
  BY <1>9 DEF Max
<1> QED BY <1>7, <1>10

LEMMA CommonFactorIs ==
  ASSUME NEW asked, IsAsked(asked)
  PROVE  CommonFactor(asked.bands, asked.tileSize, asked.budget.oversample) =
           IF asked.tileSize > 0 /\ Usable(asked) # {} THEN Max(Usable(asked)) ELSE None
<1>1. CASE asked.tileSize = 0
  BY <1>1 DEF CommonFactor
<1>2. CASE asked.tileSize # 0
  <2>1. asked.tileSize > 0
    BY <1>2 DEF IsAsked
  <2> QED BY <1>2, <2>1, CommonIsUsable, Zenon DEF CommonFactor
<1> QED BY <1>1, <1>2

------------------------------------------------------------------------------
(* The choice *)

\* A candidate that is admissible, and not dearer than those after it and the
\* first that is admissible, is the choice.
LEMMA FirstOfTheCheapest ==
  ASSUME NEW c, DOMAIN c = 1..3, NEW k \in 1..3, c[k].admissible,
         \A j \in 1..3 : c[j].admissible /\ j # k =>
           k < j /\ c[k].cost \in Int /\ c[j].cost \in Int /\ c[k].cost <= c[j].cost
  PROVE  LET open == {i \in DOMAIN c : c[i].admissible}
         IN /\ open # {}
            /\ k = CHOOSE i \in open : \A j \in open :
                     c[i].cost < c[j].cost \/ (c[i].cost = c[j].cost /\ i <= j)
<1> DEFINE open == {i \in DOMAIN c : c[i].admissible}
           first(i) == \A j \in open : c[i].cost < c[j].cost \/ (c[i].cost = c[j].cost /\ i <= j)
<1>1. k \in open /\ open \subseteq 1..3
  OBVIOUS
<1>2. \A j \in open : j # k =>
        k < j /\ c[k].cost \in Int /\ c[j].cost \in Int /\ c[k].cost <= c[j].cost
  OBVIOUS
<1> HIDE DEF open
<1>3. first(k)
  <2> SUFFICES ASSUME NEW j \in open PROVE c[k].cost < c[j].cost \/ (c[k].cost = c[j].cost /\ k <= j)
    OBVIOUS
  <2>1. k \in Int
    OBVIOUS
  <2>2. CASE j = k
    BY <2>1, <2>2
  <2>3. CASE j # k
    <3>1. k < j /\ c[k].cost \in Int /\ c[j].cost \in Int /\ c[k].cost <= c[j].cost
      BY <1>2, <2>3
    <3>2. j \in Int /\ k <= j
      BY <1>1, <2>1, <3>1
    <3> QED BY <3>1, <3>2
  <2> QED BY <2>2, <2>3
<1>4. ASSUME NEW i \in open, first(i) PROVE i = k
  <2>1. SUFFICES ASSUME i # k PROVE FALSE
    OBVIOUS
  <2>2. k < i /\ c[k].cost \in Int /\ c[i].cost \in Int /\ c[k].cost <= c[i].cost
    BY <1>2, <2>1
  <2>3. c[i].cost < c[k].cost \/ (c[i].cost = c[k].cost /\ i <= k)
    BY <1>1, <1>4
  <2>4. i \in Int /\ k \in Int
    BY <1>1
  <2> QED BY <2>2, <2>3, <2>4
<1> HIDE DEF first
<1>5. k = CHOOSE i \in open : first(i)
  BY <1>1, <1>3, <1>4
<1> QED BY <1>1, <1>5 DEF open, first

LEMMA PlanIsChoice ==
  ASSUME NEW budget, NEW probe, NEW tileSize, NEW bands, NEW c, c = Considered(budget, probe, tileSize, bands),
         DOMAIN c = 1..3, NEW k \in 1..3, c[k].admissible,
         \A j \in 1..3 : c[j].admissible /\ j # k =>
           k < j /\ c[k].cost \in Int /\ c[j].cost \in Int /\ c[k].cost <= c[j].cost
  PROVE  Plan(budget, probe, tileSize, bands) =
           [choice |-> c[k].kind, factor |-> c[k].factor, estimate |-> c[k].cost]
<1> HIDE DEF Considered
<1> QED BY FirstOfTheCheapest, Zenon DEF Plan

\* Whatever is asked, the weighing comes to the procedure of the design.
LEMMA PlansRight ==
  ASSUME NEW asked \in Plannings
  PROVE  PlanAsSpecified(asked, Plan(asked.budget, asked.probe, asked.tileSize, asked.bands))
<1> DEFINE cost == FullRead(asked.bands)
           hit == asked.probe.probe = "hit"
           plan == Plan(asked.budget, asked.probe, asked.tileSize, asked.bands)
           c == Considered(asked.budget, asked.probe, asked.tileSize, asked.bands)
           served == asked.tileSize > 0 /\ Usable(asked) # {}
           ceiling == asked.budget.ceiling
           factor == CommonFactor(asked.bands, asked.tileSize, asked.budget.oversample)
           live == Total(asked.bands, 1)
           full == ceiling = None \/ live <= ceiling
<1>1. /\ IsAsked(asked) /\ AreBands(asked.bands) /\ None \notin Nat
      /\ ceiling = None \/ ceiling \in Nat
  BY PlanningsAssumption DEF IsAsked, IsBudget
<1>2. SUFFICES ASSUME cost <= U64Max
      PROVE  IF hit /\ asked.budget.cache THEN plan.choice = "cache_hit"
             ELSE IF served THEN /\ plan.choice = "overview" /\ plan.factor = Max(Usable(asked))
                                 /\ plan.estimate <= cost
             ELSE IF ceiling = None \/ cost <= ceiling THEN plan.choice = "live" /\ plan.estimate = cost
             ELSE plan.choice = "refuse" /\ plan.estimate = cost
  BY Zenon DEF PlanAsSpecified
<1>3. live = cost /\ cost \in Nat
  <2>1. 1 \in Nat \ {0}
    OBVIOUS
  <2> QED BY <1>1, <1>2, <2>1, TotalWithinFull
<1>4. CASE hit /\ asked.budget.cache
  <2>1. c = << Candidate("cache_hit", 0, asked.probe.bytes, TRUE), Candidate("overview", 0, 0, FALSE),
               Candidate("live", 0, 0, FALSE) >>
    BY <1>4, Zenon DEF Considered
  <2> HIDE DEF c
  <2>2. /\ DOMAIN c = 1..3 /\ c[1].admissible /\ c[1].kind = "cache_hit"
        /\ ~c[2].admissible /\ ~c[3].admissible
    BY <2>1 DEF Candidate
  <2>3. \A j \in 1..3 : c[j].admissible => j = 1
    BY <2>2
  <2>4. plan = [choice |-> c[1].kind, factor |-> c[1].factor, estimate |-> c[1].cost]
    <3>1. DOMAIN c = 1..3 /\ c = Considered(asked.budget, asked.probe, asked.tileSize, asked.bands)
      BY <2>2 DEF c
    <3>2. 1 \in 1..3 /\ c[1].admissible
      BY <2>2
    <3> QED BY <2>3, <3>1, <3>2, PlanIsChoice, SMT
  <2> QED BY <1>4, <2>2, <2>4
<1>5. CASE ~(hit /\ asked.budget.cache)
  <2> DEFINE first == Candidate("cache_hit", 0, IF hit THEN asked.probe.bytes ELSE 0, FALSE)
             second == IF factor = None THEN Candidate("overview", 0, 0, FALSE)
                       ELSE Candidate("overview", factor, Total(asked.bands, factor), TRUE)
             third == Candidate("live", 0, live, full)
  <2>1. c = <<first, second, third>>
    BY <1>5, Zenon DEF Considered
  <2> HIDE DEF c
  <2>2. DOMAIN c = 1..3 /\ c[1] = first /\ c[2] = second /\ c[3] = third
    <3> HIDE DEF first, second, third
    <3> QED BY <2>1
  <2>3. ~c[1].admissible
    BY <2>2 DEF Candidate
  <2>4. c[3].kind = "live" /\ c[3].cost = cost /\ (c[3].admissible <=> full)
    <3>1. c[3].kind = "live" /\ c[3].cost = live
      BY <2>2 DEF Candidate
    <3>2. c[3].admissible = full
      <4>1. \A a : Candidate("live", 0, live, a).admissible = a
        BY DEF Candidate
      <4> QED BY <2>2, <4>1, Zenon
    <3> QED BY <1>3, <3>1, <3>2, Zenon
  <2> HIDE DEF first, second, third, full
  <2>5. CASE served
    <3> DEFINE f == Max(Usable(asked))
    <3>1. factor = f /\ f \in Nat \ {0}
      <4>1. factor = f
        BY <1>1, <2>5, CommonFactorIs
      <4>2. f \in Nat \ {0}
        BY <1>1, <2>5, CoarsestIsUsable
      <4> QED BY <4>1, <4>2
    <3>2. factor # None
      BY <1>1, <3>1
    <3>3. Total(asked.bands, f) \in Nat /\ Total(asked.bands, f) <= cost
      BY <1>1, <1>2, <3>1, TotalWithinFull
    <3>4. c[2] = Candidate("overview", f, Total(asked.bands, f), TRUE)
      BY <2>2, <3>1, <3>2 DEF second
    <3> HIDE DEF f
    <3>5. c[2].kind = "overview" /\ c[2].factor = f /\ c[2].cost = Total(asked.bands, f) /\ c[2].admissible
      BY <3>4 DEF Candidate
    <3>6. \A j \in 1..3 : c[j].admissible /\ j # 2 =>
            2 < j /\ c[2].cost \in Int /\ c[j].cost \in Int /\ c[2].cost <= c[j].cost
      <4> SUFFICES ASSUME NEW j \in 1..3, c[j].admissible, j # 2
                   PROVE  2 < j /\ c[2].cost \in Int /\ c[j].cost \in Int /\ c[2].cost <= c[j].cost
        OBVIOUS
      <4>1. j = 3
        BY <2>3
      <4> QED BY <1>3, <2>4, <3>3, <3>5, <4>1
    <3>7. plan = [choice |-> c[2].kind, factor |-> c[2].factor, estimate |-> c[2].cost]
      <4>1. DOMAIN c = 1..3 /\ c = Considered(asked.budget, asked.probe, asked.tileSize, asked.bands)
        BY <2>2 DEF c
      <4>2. 2 \in 1..3 /\ c[2].admissible
        BY <3>5
      <4> QED BY <3>6, <4>1, <4>2, PlanIsChoice, SMT
    <3>8. plan.choice = "overview" /\ plan.factor = f /\ plan.estimate = Total(asked.bands, f)
      BY <3>5, <3>7
    <3> QED BY <1>5, <2>5, <3>3, <3>8 DEF f
  <2>6. CASE ~served
    <3>1. factor = None
      BY <1>1, <2>6, CommonFactorIs
    <3>2. ~c[2].admissible
      BY <2>2, <3>1 DEF Candidate, second
    <3>3. full <=> ceiling = None \/ cost <= ceiling
      BY <1>3 DEF full
    <3>4. CASE full
      <4>1. c[3].admissible
        BY <2>4, <3>4, Zenon
      <4>2. \A j \in 1..3 : c[j].admissible => j = 3
        BY <2>3, <3>2
      <4>3. 3 \in 1..3
        OBVIOUS
      <4>4. plan = [choice |-> c[3].kind, factor |-> c[3].factor, estimate |-> c[3].cost]
        <5>1. PICK last \in 1..3 : last = 3
          BY <4>3
        <5>2. c[last].admissible /\ \A j \in 1..3 : c[j].admissible => j = last
          BY <4>1, <4>2, <5>1
        <5>3. plan = [choice |-> c[last].kind, factor |-> c[last].factor, estimate |-> c[last].cost]
          <6>1. DOMAIN c = 1..3 /\ c = Considered(asked.budget, asked.probe, asked.tileSize, asked.bands)
            BY <2>2 DEF c
          <6> HIDE DEF plan
          <6>2. Plan(asked.budget, asked.probe, asked.tileSize, asked.bands) =
                  [choice |-> c[last].kind, factor |-> c[last].factor, estimate |-> c[last].cost]
            BY <5>2, <6>1, PlanIsChoice, SMT
          <6> QED BY <6>2 DEF plan
        <5> QED BY <5>1, <5>3
      <4>5. plan.choice = "live" /\ plan.estimate = cost
        BY <2>4, <4>4
      <4> QED BY <1>5, <2>6, <3>3, <3>4, <4>5
    <3>5. CASE ~full
      <4>1. {i \in DOMAIN c : c[i].admissible} = {}
        <5>1. ~c[3].admissible
          BY <2>4, <3>5, Zenon
        <5>2. \A i \in 1..3 : ~c[i].admissible
          BY <2>3, <3>2, <5>1
        <5> QED BY <2>2, <5>2, Zenon
      <4>2. plan = [choice |-> "refuse", factor |-> 0, estimate |-> c[3].cost]
        BY <4>1, Zenon DEF Plan, c
      <4>3. plan.choice = "refuse" /\ plan.estimate = cost
        BY <2>4, <4>2
      <4> QED BY <1>5, <2>6, <3>3, <3>5, <4>3
    <3> QED BY <3>4, <3>5
  <2> QED BY <2>5, <2>6
<1> QED BY <1>4, <1>5

\* For all sizes of bands, overviews, slacks, ceilings and tiles, and any width
\* of a byte count that holds a full read: what the planner chooses by weighing
\* estimates is what the design's procedure says without any.
THEOREM PlannerDecides == PlannerSpec => []PlansAsSpecified
<1> DEFINE Questioned == /\ question \in [kind : {"plan"}, of : Plannings]
                         /\ answer # None => PlanAsSpecified(question.of, answer)
<1>1. PlannerInit => Questioned
  BY DEF PlannerInit
<1>2. Questioned /\ [PlannerNext]_<<question, answer>> => Questioned'
  <2> SUFFICES ASSUME Questioned, [PlannerNext]_<<question, answer>> PROVE Questioned'
    OBVIOUS
  <2>1. CASE PlannerNext
    <3>1. question' = question /\ question.of \in Plannings
      BY <2>1, Zenon DEF PlannerNext
    <3>2. answer' = Plan(question.of.budget, question.of.probe, question.of.tileSize, question.of.bands)
      BY <2>1 DEF PlannerNext, AnswerPlan
    <3>3. PlanAsSpecified(question.of, answer')
      BY <3>1, <3>2, PlansRight
    <3> QED BY <3>1, <3>3
  <2>2. CASE UNCHANGED <<question, answer>>
    BY <2>2
  <2> QED BY <2>1, <2>2
<1>3. Questioned => PlansAsSpecified
  BY Zenon DEF PlansAsSpecified, Replied
<1> QED BY <1>1, <1>2, <1>3, PTL DEF PlannerSpec
================================================================================
