----------------------------- MODULE TileServing -----------------------------
(***************************************************************************)
(* The tile route of one server with a tile cache: a request resolves the  *)
(* granules its layer is to show, one catalog query per branch, asks the   *)
(* cache under a key made of what it resolved, and renders and writes      *)
(* through on a miss.  Meanwhile granules are registered, services         *)
(* published and removed, cache objects lost or foreign, and the server    *)
(* restarted with an edited configuration; the cache outlives all of it.   *)
(*                                                                         *)
(* A tile is reduced to what decides its pixels.  Of a layer's definition  *)
(* the cache key contains the `spec' (render plan and tile size) and not   *)
(* the `kernel' (resampling; planner budget; for a static layer, assets).  *)
(* Which overviews exist at a render, and what the planner chooses among   *)
(* them, is left open here.                                                *)
(***************************************************************************)
EXTENDS Integers, Sequences, FiniteSets

CONSTANTS
  Requests,      \* tile requests
  Layers,        \* layer ids
  Services,      \* those of them that are published at run time
  Specs, Kernels,
  Definitions,   \* the definitions each layer may be given
  Granules,      \* granule ids, numbered in id order
  Pieces,        \* of each id: its parts between the "+" signs
  Instants,      \* acquisition times, in milliseconds
  Revisions,     \* of each granule: what its assets may be
  Lacking,       \* revisions without a band that a layer needs
  Coords,        \* tile addresses
  Asked,         \* windows that requests may carry
  Factors,       \* overview factors that a render may find and use
  Open,          \* an open side of a window
  Absent,        \* nothing there
  Garbage,       \* a cache object that is not a valid entry
  Most           \* bound: how many of Happenings may happen, each once

\* A failing catalog call, source or cache; a foreign cache object or a lost
\* one; a restart.
Happenings == {"catalog", "source", "cache", "foreign", "restart"}

Bounds == Instants \cup {Open}
Windows == [start : Bounds, end : Bounds]

Replies == {"tile", "notfound", "error", "bandless", "refused", "dropped"}

\* One branch per source of the layer; `cached' is the budget's cache knob.
Definition == [spec : Specs, kernel : Kernels, branches : Seq(Windows), cached : BOOLEAN]

ASSUME TileAssumption ==
  /\ Granules \subseteq Nat /\ Instants \subseteq Nat
  /\ Services \subseteq Layers
  /\ Definitions \in [Layers -> SUBSET Definition]
  /\ \A l \in Layers : \A d \in Definitions[l] : Len(d.branches) \in 1..2
  /\ Asked \subseteq Windows
  /\ Most \in Nat

ASSUME OpenAssumption == Open \notin Int

\* What stands for an absent value is none of the replies.
ASSUME AbsentAssumption == Absent \notin Replies

VARIABLES
  catalog,   \* of each granule: acquisition time and revision, or Absent
  layers,    \* the provider: the definition of each layer, or Absent
  cache,     \* the cache objects: a function from keys
  req,       \* of each request: what it has read, and what it does next
  happened   \* which of Happenings happened

vars == <<catalog, layers, cache, req, happened>>

Happens(kind) ==
  /\ kind \notin happened /\ Cardinality(happened) < Most
  /\ happened' = happened \cup {kind}

NoRequest == [pc |-> "idle", layer |-> Absent, coord |-> Absent, window |-> Absent,
              def |-> Absent, frame |-> <<>>, tile |-> Absent, reply |-> Absent]

------------------------------------------------------------------------------
(* Frame selection *)

\* Variant: the window of the request wins, where it has a bound.
IntersectRequest(a, b) ==
  [start |-> IF b.start = Open THEN a.start ELSE b.start,
   end |-> IF b.end = Open THEN a.end ELSE b.end]

\* The later start, the earlier end; an open side gives way.
Intersect(a, b) ==
  LET starts == {a.start, b.start} \ {Open}
      ends == {a.end, b.end} \ {Open}
  IN [start |-> IF starts = {} THEN Open ELSE CHOOSE x \in starts : \A y \in starts : x >= y,
      end |-> IF ends = {} THEN Open ELSE CHOOSE x \in ends : \A y \in ends : x <= y]

Inverted(w) == w.start # Open /\ w.end # Open /\ w.start > w.end

\* The interval sent to the catalog: one that is a single instant ends a
\* millisecond later.
DatetimeFilter(w) == IF w.start # Open /\ w.start = w.end THEN [start |-> w.start, end |-> w.start + 1] ELSE w

\* The catalog's search: an interval without width matches nothing, any
\* other its two ends as well.
Search(w) ==
  {g \in Granules :
     /\ catalog[g] # Absent
     /\ w.start = Open \/ w.start # w.end
     /\ w.start = Open \/ w.start <= catalog[g].time
     /\ w.end = Open \/ catalog[g].time <= w.end}

\* Granule g is at least as new as h; ties go by id.
NotBefore(g, h) ==
  \/ catalog[g].time > catalog[h].time
  \/ catalog[g].time = catalog[h].time /\ g >= h

LatestOf(found) == CHOOSE g \in found : \A h \in found : NotBefore(g, h)

\* The window that decides the branch a request resolves next.
BranchOf(r) == req[r].def.branches[Len(req[r].frame) + 1]
Effective(r) == Intersect(BranchOf(r), req[r].window)

\* The granules found for it.
Candidates(r) == IF Inverted(Effective(r)) THEN {} ELSE Search(DatetimeFilter(Effective(r)))

------------------------------------------------------------------------------
(* Tiles and cache keys *)

\* What decides the pixels of a tile.
Rendered(def, frame, coord, factor) ==
  [spec |-> def.spec, kernel |-> def.kernel, frame |-> frame, coord |-> coord, factor |-> factor]

\* The granule part of the layer version: the ids, joined with "+".
Joined(frame) ==
  IF Len(frame) = 1 THEN Pieces[frame[1].id]
                    ELSE Pieces[frame[1].id] \o Pieces[frame[2].id]

\* Variant: the version of the frame's first granule alone.
KeyOfPrimary(layer, def, frame, coord) ==
  [layer |-> layer, version |-> Pieces[frame[1].id], spec |-> def.spec, coord |-> coord]

KeyOf(layer, def, frame, coord) ==
  [layer |-> layer, version |-> Joined(frame), spec |-> def.spec, coord |-> coord]

Key(r) == KeyOf(req[r].layer, req[r].def, req[r].frame, req[r].coord)

Stored(key, entry) == [k \in DOMAIN cache \cup {key} |-> IF k = key THEN entry ELSE cache[k]]

------------------------------------------------------------------------------
(* A request *)

\* The request goes on as `to' says.
Becomes(r, to) == req' = [req EXCEPT ![r] = to]

\* A request ends: with a tile, of which the answer's trace says what it
\* shows, or without one.
Serve(r, tile) ==
  Becomes(r, [req[r] EXCEPT !.pc = "done", !.reply = "tile", !.tile = tile, !.window = Absent])
Ended(reply) == [NoRequest EXCEPT !.pc = "done", !.reply = reply]
Reply(r, reply) == Becomes(r, Ended(reply))

\* The layer is looked up, and its definition copied out of the lock.
Ask(r) ==
  /\ req[r].pc = "idle"
  /\ \E l \in Layers, c \in Coords, w \in Asked :
       Becomes(r, IF layers[l] = Absent THEN Ended("notfound")
                  ELSE [NoRequest EXCEPT !.pc = "find", !.layer = l, !.coord = c,
                                         !.window = w, !.def = layers[l]])
  /\ UNCHANGED <<catalog, layers, cache, happened>>

\* The granule that backs the next branch.
Resolved(r) ==
  LET g == LatestOf(Candidates(r)) IN [id |-> g, revision |-> catalog[g].revision]

\* Variant: the budget's cache knob is not looked at.
WithBranchCached(request, granule) ==
  LET frame == Append(request.frame, granule)
      next == [request EXCEPT !.frame = frame]
  IN CASE Len(frame) < Len(request.def.branches) -> next
       [] Len(frame) = Len(request.def.branches)
          /\ \E i \in DOMAIN frame : frame[i].revision \in Lacking ->
            Ended("bandless")
       [] OTHER -> [next EXCEPT !.pc = "probe"]

\* After the last branch the assets of the whole frame are looked up, and a
\* band that a granule lacks is an error.
WithBranch(request, granule) ==
  LET frame == Append(request.frame, granule)
      next == [request EXCEPT !.frame = frame]
  IN CASE Len(frame) < Len(request.def.branches) -> next
       [] Len(frame) = Len(request.def.branches)
          /\ \E i \in DOMAIN frame : frame[i].revision \in Lacking ->
            Ended("bandless")
       [] OTHER -> [next EXCEPT !.pc = IF request.def.cached THEN "probe" ELSE "render"]

\* One branch is resolved.
FindBranch(r) ==
  /\ req[r].pc = "find"
  /\ \/ /\ Candidates(r) = {}
        /\ Reply(r, "notfound")
        /\ UNCHANGED happened
     \/ /\ Candidates(r) # {}
        /\ Becomes(r, WithBranch(req[r], Resolved(r)))
        /\ UNCHANGED happened
     \/ /\ ~Inverted(Effective(r))
        /\ Happens("catalog")
        /\ Reply(r, "error")
  /\ UNCHANGED <<catalog, layers, cache>>

\* The cache is asked: a valid entry is the answer, anything else a miss.
Probe(r) ==
  /\ req[r].pc = "probe"
  /\ \/ /\ Key(r) \in DOMAIN cache /\ cache[Key(r)] # Garbage
        /\ Serve(r, cache[Key(r)])
        /\ UNCHANGED happened
     \/ /\ Key(r) \in DOMAIN cache => cache[Key(r)] = Garbage
        /\ Becomes(r, [req[r] EXCEPT !.pc = "render"])
        /\ UNCHANGED happened
     \/ /\ Happens("cache")
        /\ Becomes(r, [req[r] EXCEPT !.pc = "render"])
  /\ UNCHANGED <<catalog, layers, cache>>

\* The bands are described, the planner chooses full resolution, a factor or
\* a refusal, and the tile is rendered.
Render(r) ==
  /\ req[r].pc = "render"
  /\ \/ /\ \E factor \in {1} \cup Factors :
             LET tile == Rendered(req[r].def, req[r].frame, req[r].coord, factor)
             IN IF req[r].def.cached
                THEN Becomes(r, [req[r] EXCEPT !.pc = "put", !.tile = tile])
                ELSE Serve(r, tile)
        /\ UNCHANGED happened
     \/ Reply(r, "refused") /\ UNCHANGED happened
     \/ Happens("source") /\ Reply(r, "error")
  /\ UNCHANGED <<catalog, layers, cache>>

\* Write-through: the tile is served whether or not it could be stored.
Put(r) ==
  /\ req[r].pc = "put"
  /\ Serve(r, req[r].tile)
  /\ \/ cache' = Stored(Key(r), req[r].tile) /\ UNCHANGED happened
     \/ Happens("cache") /\ UNCHANGED cache
  /\ UNCHANGED <<catalog, layers>>

\* The client goes away; a write under way may have arrived.
Cancel(r) ==
  /\ req[r].pc \notin {"idle", "done"}
  /\ Reply(r, "dropped")
  /\ \/ UNCHANGED cache
     \/ req[r].pc = "put" /\ cache' = Stored(Key(r), req[r].tile)
  /\ UNCHANGED <<catalog, layers, happened>>

------------------------------------------------------------------------------
(* What happens meanwhile *)

\* A granule is registered, or registered again under its id.
Register(g) ==
  /\ \E time \in Instants, revision \in Revisions[g] :
       catalog' = [catalog EXCEPT ![g] = [time |-> time, revision |-> revision]]
  /\ UNCHANGED <<layers, cache, req, happened>>

Publish(l) ==
  /\ \E d \in Definitions[l] : layers' = [layers EXCEPT ![l] = d]
  /\ UNCHANGED <<catalog, cache, req, happened>>

Remove(l) ==
  /\ layers[l] # Absent
  /\ layers' = [layers EXCEPT ![l] = Absent]
  /\ UNCHANGED <<catalog, cache, req, happened>>

\* Somebody else writes or deletes a cache object.
Interfere(key) ==
  /\ Happens("foreign")
  /\ \/ cache' = Stored(key, Garbage)
     \/ cache' = [k \in DOMAIN cache \ {key} |-> cache[k]]
  /\ UNCHANGED <<catalog, layers, req>>

\* What the configuration may say of each layer; services are rehydrated.
Configured(l) == IF l \in Services THEN {layers[l]} ELSE Definitions[l] \cup {Absent}

\* The server is restarted, with a configuration that may have been edited.
Restart ==
  /\ Happens("restart")
  /\ \E config \in [Layers -> UNION {Configured(l) : l \in Layers}] :
       /\ \A l \in Layers : config[l] \in Configured(l)
       /\ layers' = config
  /\ req' = [r \in Requests |->
               IF req[r].pc \in {"idle", "done"} THEN req[r]
               ELSE Ended("dropped")]
  /\ UNCHANGED <<catalog, cache>>

------------------------------------------------------------------------------
Init ==
  /\ catalog = [g \in Granules |-> Absent]
  /\ layers \in [Layers -> UNION {Definitions[l] \cup {Absent} : l \in Layers}]
  /\ \A l \in Layers : layers[l] \in IF l \in Services THEN {Absent} ELSE Definitions[l]
  /\ cache = <<>>
  /\ req = [r \in Requests |-> NoRequest]
  /\ happened = {}

Next ==
  \/ \E r \in Requests : Ask(r) \/ FindBranch(r) \/ Probe(r) \/ Render(r) \/ Put(r) \/ Cancel(r)
  \/ \E g \in Granules : Register(g)
  \/ \E l \in Services : Publish(l) \/ Remove(l)
  \/ \E key \in DOMAIN cache : Interfere(key)
  \/ Restart

Spec == Init /\ [][Next]_vars

------------------------------------------------------------------------------
(* Properties *)

Granule == UNION {[id : {g}, revision : Revisions[g]] : g \in Granules}
Frames(lengths) == UNION {[1..n -> Granule] : n \in lengths}

\* Tiles of the definitions of layer l.
TilesOf(l) ==
  UNION {[spec : {d.spec}, kernel : {d.kernel}, frame : [1..Len(d.branches) -> Granule],
          coord : Coords, factor : {1} \cup Factors] : d \in Definitions[l]}

\* What a request holds at each point of the handler.
RequestShape(q) ==
  /\ DOMAIN q = DOMAIN NoRequest
  /\ q.pc = "idle" => q = NoRequest
  /\ q.pc \in {"find", "probe", "render", "put"} \/ q.reply = "tile" =>
       /\ q.layer \in Layers /\ q.coord \in Coords
       /\ q.def \in Definitions[q.layer]
  /\ q.pc \in {"find", "probe", "render", "put"} => q.window \in Asked /\ q.reply = Absent
  /\ q.pc = "find" => q.frame \in Frames(0 .. Len(q.def.branches) - 1)
  /\ q.pc \in {"probe", "render", "put"} \/ q.reply = "tile" =>
       q.frame \in Frames({Len(q.def.branches)})
  /\ q.pc \in {"probe", "put"} => q.def.cached
  /\ q.pc = "put" \/ q.reply = "tile" => q.tile \in TilesOf(q.layer)
  /\ q.pc = "done" /\ q.reply # "tile" =>
       \E reply \in Replies \ {"tile"} : q = Ended(reply)

\* Every variable holds what the program could hold there, and every request
\* what its handler has read by then.
TypeInv ==
  /\ \A g \in Granules : catalog[g] \in [time : Instants, revision : Revisions[g]] \cup {Absent}
  /\ \A l \in Layers : layers[l] \in Definitions[l] \cup {Absent}
  /\ \A key \in DOMAIN cache : cache[key] \in TilesOf(key.layer) \cup {Garbage}
  /\ \A r \in Requests : /\ req[r].pc \in {"idle", "find", "probe", "render", "put", "done"}
                          /\ RequestShape(req[r])
  /\ happened \subseteq Happenings

\* A tile shows the granules its request resolved, drawn as the definition
\* it resolved says - from the cache as from a render: an entry under the
\* same key is never another tile (`cache.rs': "same key => same bytes"),
\* whatever was registered, published or edited since it was written.
TileShowsItsFrame ==
  \A r \in Requests : req[r].reply = "tile" =>
    LET q == req[r] IN q.tile = Rendered(q.def, q.frame, q.coord, q.tile.factor)

\* Granule g is in the window of the branch resolved next, and in the one
\* the request carries (ADR 0015: both ends belong to a window).
Within(w, time) == (w.start = Open \/ w.start <= time) /\ (w.end = Open \/ time <= w.end)
InBoth(r, g) ==
  /\ catalog[g] # Absent
  /\ Within(BranchOf(r), catalog[g].time) /\ Within(req[r].window, catalog[g].time)

\* A branch resolves to a granule of both windows, none of which is newer;
\* and not to be found means that there is none.
LatestInBothWindows ==
  [][\A r \in Requests : req[r].pc = "find" =>
       /\ Len(req'[r].frame) > Len(req[r].frame) =>
            LET g == req'[r].frame[Len(req'[r].frame)].id
            IN InBoth(r, g) /\ \A h \in Granules : InBoth(r, h) => NotBefore(g, h)
       /\ req'[r].reply = "notfound" => \A g \in Granules : ~InBoth(r, g)]_vars

\* What a request is to its client: asking the cache, rendering and writing
\* through are one phase, and the tile is there when it is answered.
Phase(q) == CASE q.pc = "find" -> "resolving"
              [] q.pc \in {"probe", "render", "put"} -> "drawing"
              [] OTHER -> q.pc
View(q) == [phase |-> Phase(q), layer |-> q.layer, coord |-> q.coord, window |-> q.window, def |-> q.def,
            frame |-> q.frame, tile |-> IF q.pc = "done" THEN q.tile ELSE Absent, reply |-> q.reply]

Route == INSTANCE TileRoute WITH view <- [r \in Requests |-> View(req[r])]

\* The cache cannot be seen: whatever it holds, loses or is given by others,
\* a request is answered as a server without one answers it, step by step
\* (cache.rs: "same key => same bytes").
CacheUnseen == Route!Spec

------------------------------------------------------------------------------
(* What the theorems ask of a deployment: what the catalog's filter and the *)
(* cache key leave to those who run it                                      *)

\* No two instants are a millisecond apart.
Apart == \A t \in Instants : t + 1 \notin Instants

\* No granule id contains a "+", and they differ.
NoPlusInIds ==
  /\ \A g \in Granules : Pieces[g] = <<Pieces[g][1]>>
  /\ \A g, h \in Granules : Pieces[g] = Pieces[h] => g = h

\* A cached layer keeps its kernel, unless its plan or tile size changes too.
KernelFollowsSpec ==
  \A l \in Layers : \A d, e \in Definitions[l] :
    d.cached /\ e.cached /\ d.spec = e.spec => d.kernel = e.kernel

\* A granule that has every band keeps its assets.
AssetsStand == \A g \in Granules : \A a, b \in Revisions[g] \ Lacking : a = b

KeysTell == NoPlusInIds /\ KernelFollowsSpec /\ AssetsStand
==============================================================================
