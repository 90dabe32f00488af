------------------------------ MODULE TileRoute ------------------------------
(***************************************************************************)
(* What the tile route promises: a request resolves the branches of a      *)
(* layer one by one, each to the newest granule within the branch's window *)
(* and its own at that moment, and is answered with a tile of just these,  *)
(* drawn as the layer was defined when it was asked; or it is refused.     *)
(* There is no cache, and no store that could fail: only the catalog and   *)
(* the layers, which others change at any time.                            *)
(***************************************************************************)
EXTENDS Integers, Sequences

CONSTANTS
  Requests, Layers, Granules, Coords, Asked, Factors,
  Lacking,  \* revisions of a granule without a band that a layer needs
  Open,     \* an open side of a window
  Absent    \* nothing there

VARIABLES
  catalog,  \* of each granule: acquisition time and revision, or Absent
  layers,   \* the definition of each layer, or Absent
  view      \* of each request: what it stands for, and its answer

\* A request that waits, and one that is over without a tile.
Waiting == [phase |-> "idle", layer |-> Absent, coord |-> Absent, window |-> Absent, def |-> Absent,
            frame |-> <<>>, tile |-> Absent, reply |-> Absent]
Over(reply) == [Waiting EXCEPT !.phase = "done", !.reply = reply]

\* What follows says how the view q of a request turns into another one, to.

\* A layer that is there, at the moment of asking.
Ask(q, to) ==
  /\ q.phase = "idle"
  /\ \/ to = Over("notfound") /\ \E l \in Layers : layers[l] = Absent
     \/ /\ to.layer \in Layers /\ to.coord \in Coords /\ to.window \in Asked
        /\ layers[to.layer] # Absent
        /\ to = [Waiting EXCEPT !.phase = "resolving", !.layer = to.layer, !.coord = to.coord,
                                !.window = to.window, !.def = layers[to.layer]]

\* Both ends belong to a window.
Within(w, time) == (w.start = Open \/ w.start <= time) /\ (w.end = Open \/ time <= w.end)

\* Granule g is in the window of the next branch and in the request's own.
Eligible(q, g) ==
  /\ catalog[g] # Absent
  /\ Within(q.def.branches[Len(q.frame) + 1], catalog[g].time)
  /\ Within(q.window, catalog[g].time)

\* The newest of them; ties go by id.
Newest(q, g) ==
  /\ Eligible(q, g)
  /\ \A h \in Granules : Eligible(q, h) =>
       catalog[h].time < catalog[g].time \/ (catalog[h].time = catalog[g].time /\ h <= g)

\* A branch is resolved; with the last one the frame is complete, and may
\* turn out to lack a band.
Resolve(q, to) ==
  /\ q.phase = "resolving"
  /\ \E g \in Granules :
       /\ Newest(q, g)
       /\ LET frame == Append(q.frame, [id |-> g, revision |-> catalog[g].revision])
              whole == Len(frame) = Len(q.def.branches)
          IN IF whole /\ \E i \in DOMAIN frame : frame[i].revision \in Lacking
             THEN to = Over("bandless")
             ELSE to = [q EXCEPT !.frame = frame, !.phase = IF whole THEN "drawing" ELSE @]

\* There is nothing to resolve a branch to.
Miss(q, to) ==
  /\ q.phase = "resolving"
  /\ \A g \in Granules : ~Eligible(q, g)
  /\ to = Over("notfound")

\* The tile, drawn from full resolution or an overview.
Draw(q, to) ==
  /\ q.phase = "drawing"
  /\ \E factor \in {1} \cup Factors :
       to = [q EXCEPT !.phase = "done", !.reply = "tile", !.window = Absent,
                      !.tile = [spec |-> q.def.spec, kernel |-> q.def.kernel, frame |-> q.frame,
                                coord |-> q.coord, factor |-> factor]]

\* A request comes to nothing: a failure, or nobody waits for it any more;
\* only a tile that is to be drawn can be too costly.
Fail(q, to) ==
  \/ q.phase \in {"resolving", "drawing"} /\ \E reply \in {"error", "dropped"} : to = Over(reply)
  \/ q.phase = "drawing" /\ to = Over("refused")

Moves(q, to) == Ask(q, to) \/ Resolve(q, to) \/ Miss(q, to) \/ Draw(q, to) \/ Fail(q, to)

------------------------------------------------------------------------------
Init == view = [r \in Requests |-> Waiting]

\* A restart ends many requests at once.
Next ==
  /\ DOMAIN view' = Requests
  /\ \A r \in Requests : view'[r] = view[r] \/ Moves(view[r], view'[r])

Spec == Init /\ [][Next]_view
==============================================================================
