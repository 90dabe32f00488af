----------------------------- MODULE MCCompiler ------------------------------
(***************************************************************************)
(* What a process graph says, read without the compiler: the pixel it      *)
(* denotes, process by process, and the instants its branches admit.  The  *)
(* compiler is checked against this reading.                               *)
(*                                                                         *)
(* A scene gives each load node a sample for each dataset band.            *)
(*                                                                         *)
(* Bounded process graphs: chains of one and two processes over one load,  *)
(* joins of two branches, every wiring of a filter, an ndvi and a join,    *)
(* and good graphs with one argument spoiled.                              *)
(***************************************************************************)
EXTENDS ProcessCompiler, TLC

------------------------------------------------------------------------------
(* What a graph means *)

\* Planes, each a sample, and whether a palette may apply.
Gray(s) == [gray |-> TRUE, bands |-> <<[label |-> None, dataset |-> None, sample |-> s]>>]

\* The sample of arithmetic: nothing where an operand or the quotient is.
Meet(op, a, b) ==
  IF ~a.valid \/ ~b.valid \/ (op = "divide" /\ b.value[1] = 0) THEN Invalid
  ELSE Sample(CASE op = "add" -> Plus(a.value, b.value)
                [] op = "subtract" -> Minus(a.value, b.value)
                [] op = "multiply" -> Times(a.value, b.value)
                [] op = "divide" -> Over(a.value, b.value))

\* The band of a loaded cube that a name means.
Meant(ctx, bands, name) ==
  LET own == {i \in DOMAIN bands : bands[i].dataset = Binding(ctx, name)}
  IN bands[CHOOSE i \in own : \A j \in own : i <= j].sample

\* A child graph at one pixel, with what its parameters mean.
RECURSIVE ChildMeaning(_, _, _, _)
ChildMeaning(ctx, nodes, params, id) ==
  LET args == nodes[id].args
      operand(arg) == CASE arg.t = "num" -> Sample(Num(arg.n))
                        [] arg.t = "param" -> params[arg.name]
                        [] arg.t = "node" -> ChildMeaning(ctx, nodes, params, arg.id)
      bands == params["data"]
  IN IF nodes[id].process # "array_element"
     THEN Meet(nodes[id].process, operand(args["x"]), operand(args["y"]))
     ELSE IF "index" \in DOMAIN args THEN bands[args["index"].n + 1].sample
          ELSE Meant(ctx, bands, args["label"].s)

ChildResult(ctx, graph, params) ==
  ChildMeaning(ctx, graph.nodes, params, CHOOSE r \in Results(graph) : TRUE)

\* What a module makes of its planes, valid or not: the first plane, and
\* the last and the first again if it answers three.
Executed(module, planes, samples) ==
  LET plane(i) == Sample(samples[i].value)
  IN IF planes = 1 THEN <<plane(1)>> ELSE <<plane(1), plane(Len(samples)), plane(1)>>

Distinct(bands) ==
  FoldLeft(LAMBDA seen, b : IF \E i \in DOMAIN seen : seen[i].dataset = b.dataset
                            THEN seen ELSE Append(seen, b), <<>>, bands)

\* The planes a cube node denotes at one pixel of a scene.
RECURSIVE Meaning(_, _, _, _)
Meaning(graph, ctx, scene, id) ==
  LET process == graph.nodes[id].process
      args == graph.nodes[id].args
      of(name) == Meaning(graph, ctx, scene, args[name].id)
      spelt(name, default) == IF name \in DOMAIN args THEN args[name].s ELSE default
  IN CASE process = "load_collection" ->
            LET labels == args["bands"].items
                dataset(i) == Binding(ctx, labels[i].s)
            IN [gray |-> FALSE,
                bands |-> [i \in DOMAIN labels |->
                  [label |-> labels[i].s, dataset |-> dataset(i), sample |-> scene[id][dataset(i)]]]]
       [] process \in {"filter_temporal", "save_result"} -> of("data")
       [] process = "reduce_dimension" ->
            Gray(ChildResult(ctx, args["reducer"], [data |-> of("data").bands]))
       [] process = "ndvi" ->
            LET nir == Meant(ctx, of("data").bands, spelt("nir", <<"nir">>))
                red == Meant(ctx, of("data").bands, spelt("red", <<"red">>))
            IN Gray(Meet("divide", Meet("subtract", nir, red), Meet("add", nir, red)))
       [] process = "merge_cubes" ->
            Gray(ChildResult(ctx, args["overlap_resolver"],
                             [x |-> of("cube1").bands[1].sample, y |-> of("cube2").bands[1].sample]))
       [] process = "linear_scale_range" ->
            LET lo == Num(args["inputMin"].n)
                hi == Num(args["inputMax"].n)
                scaled(v) == Times(Over(Minus(Clamp(v, lo, hi), lo), Minus(hi, lo)), Num(255))
                cube == of("x")
            IN [cube EXCEPT !.bands = [i \in DOMAIN @ |->
                  [@[i] EXCEPT !.sample.value = scaled(@)]]]
       [] process = "run_udf" ->
            LET bands == Distinct(of("data").bands)
                module == ModuleOf(ctx, args["udf"])
                planes == Executed(module, Arity(module, Len(bands)),
                                   [i \in DOMAIN bands |-> bands[i].sample])
                valid == \A i \in DOMAIN bands : bands[i].sample.valid
            IN [gray |-> FALSE,
                bands |-> [i \in DOMAIN planes |->
                  [label |-> None, dataset |-> None, sample |-> [planes[i] EXCEPT !.valid = valid]]]]

\* The bytes of that pixel under the palette the result asks for.
Denoted(graph, ctx, scene) ==
  LET result == CHOOSE id \in Results(graph) : TRUE
      value == Meaning(graph, ctx, scene, result)
      args == graph.nodes[result].args
      map == IF "options" \in DOMAIN args THEN args["options"].colormap ELSE None
      plane(i) == value.bands[IF Len(value.bands) = 1 THEN 1 ELSE i].sample
      bytes == IF value.gray /\ map \notin {None, "grayscale"}
               THEN Lut(map, Byte(plane(1).value))
               ELSE [i \in 1..3 |-> plane(i).value]
  IN IF \E i \in 1..3 : ~plane(i).valid THEN <<0, 0, 0, 0>>
     ELSE <<Byte(bytes[1]), Byte(bytes[2]), Byte(bytes[3]), 255>>

------------------------------------------------------------------------------
(* The instants of a branch *)

\* The nodes a node refers to, in its own graph.
Refs(nodes, id) ==
  {nodes[id].args[a].id : a \in {b \in DOMAIN nodes[id].args : nodes[id].args[b].t = "node"}}
    \cap DOMAIN nodes

RECURSIVE Reached(_, _)
Reached(nodes, ids) ==
  LET more == ids \cup UNION {Refs(nodes, id) : id \in ids}
  IN IF more = ids THEN ids ELSE Reached(nodes, more)

\* The nodes of a graph, and those that its result is computed from.
Everything(graph) == DOMAIN graph.nodes
Evaluated(graph) == Reached(graph.nodes, Results(graph))

\* A graph and the child graphs of those of its nodes that are looked at.
WithChildren(graph, nodes(_)) ==
  {graph} \cup {Arg(graph, p[1], p[2]) :
                  p \in {q \in nodes(graph) \X {"reducer", "overlap_resolver"} :
                           Arg(graph, q[1], q[2]).t = "graph"}}

OnCycle(nodes, id) == id \in Reached(nodes, Refs(nodes, id))

Dangles(nodes, id) ==
  \E a \in DOMAIN nodes[id].args : nodes[id].args[a].t = "node" /\ nodes[id].args[a].id \notin DOMAIN nodes

\* Among the nodes looked at, one comes back to itself or refers to nothing.
Miswired(graph, nodes(_)) ==
  \E g \in WithChildren(graph, nodes) : \E id \in nodes(g) : OnCycle(g.nodes, id) \/ Dangles(g.nodes, id)

\* Exemption: every fault of the wiring is off the way to the result.  The
\* compiler's text (process.rs:96-99, :1690-1693) refuses any cyclic graph
\* and any dangling reference; `compile' looks only at what it evaluates.
\* MCDocuments asks such a graph.
FaultOffPath(graph) == Miswired(graph, Everything) /\ ~Miswired(graph, Evaluated)

InInterval(arg, t) ==
  /\ arg.items[1].t = "time" => arg.items[1].at <= t
  /\ arg.items[2].t = "time" => t < arg.items[2].at

\* An instant is admitted by the load node's extent and by every filter on
\* the way from it to the result.
Admitted(graph, load, t) ==
  LET nodes == graph.nodes
      onTheWay == {id \in Reached(nodes, Results(graph)) : load \in Reached(nodes, {id})}
      extents == {nodes[id].args["extent"] :
                    id \in {f \in onTheWay : nodes[f].process = "filter_temporal"}}
      own == Arg([nodes |-> nodes], load, "temporal_extent")
  IN /\ Given(own) => InInterval(own, t)
     /\ \A extent \in extents : InInterval(extent, t)

InWindow(w, t) == (w.start = None \/ w.start <= t) /\ (w.end = None \/ t <= w.end)

------------------------------------------------------------------------------
(* What holds of a graph and the compiler's answer *)

\* The buffers of a plan: each input is read through the source it names.
Buffers(product, scene) ==
  [i \in DOMAIN product.plan.inputs |->
     LET input == product.plan.inputs[i]
         node == IF input.source = None THEN product.sources[1].node ELSE input.source
     IN scene[node][IF input.source = None THEN input.name ELSE Front(input.name)]]

\* Evaluating the compiled plan gives the pixel the graph denotes.
PixelAsWritten(graph, ctx, product, scene) ==
  product.plan.inputs # <<>> =>
    LET buffers == Buffers(product, scene)
        stages == {i \in DOMAIN product.plan.ops : product.plan.ops[i].op = "udf"}
        ran == IF stages = {} THEN <<>>
               ELSE Executed(product.module,
                             product.plan.ops[CHOOSE i \in stages : TRUE].stage.output_planes,
                             buffers)
        evaluated == EvalPlan(product.plan, buffers, ran)
    IN evaluated.error = "none" /\ evaluated.rgba = Denoted(graph, ctx, scene)

\* The window of each source admits what its branch admits, and the hull
\* is the least interval around them.
FramesWithin(graph, product, instants) ==
  /\ \A i \in DOMAIN product.sources : \A t \in instants :
       InWindow(product.sources[i].window, t) <=> Admitted(graph, product.sources[i].node, t)
  /\ \A i \in DOMAIN product.sources : \E t \in instants : InWindow(product.sources[i].window, t)
  /\ \A t \in instants :
       (\E i \in DOMAIN product.sources : InWindow(product.sources[i].window, t))
         => InWindow(product.window, t)

\* The inputs of a plan are read through sources of the product, and no two
\* sources are one node.
SourcesApart(product) ==
  /\ \A i, j \in DOMAIN product.sources : i # j => product.sources[i].node # product.sources[j].node
  /\ \A i \in DOMAIN product.plan.inputs :
       LET source == product.plan.inputs[i].source
       IN \/ source = None /\ Len(product.sources) = 1
          \/ \E j \in DOMAIN product.sources : product.sources[j].node = source

\* No product of a graph that is not wired to be a DAG, and an error about
\* the wiring names a node that is on a cycle, or that refers to nothing.
WiringFound(graph, answer) ==
  LET parts == WithChildren(graph, Everything)
      named(fault(_, _)) == \E g \in parts : answer.node \in DOMAIN g.nodes /\ fault(g.nodes, answer.node)
  IN /\ answer.v = "product" => ~Miswired(graph, Everything) \/ FaultOffPath(graph)
     /\ answer.v = "error" /\ answer.error = "Cycle" => named(OnCycle)
     /\ answer.v = "error" /\ answer.error = "DanglingReference" => named(Dangles)

\* The arguments a process can do without.
Optional(process) ==
  CASE process = "load_collection" -> {"temporal_extent"}
    [] process = "filter_temporal" -> {"dimension"}
    [] process = "ndvi" -> {"nir", "red", "target_band"}
    [] process = "run_udf" -> {"version", "context"}
    [] process = "save_result" -> {"options"}
    [] OTHER -> {}

\* A good graph with one argument spoilt compiles exactly if it was optional
\* and is now missing or null (options may only be missing); else the error
\* names the node it is of.
FaultNamed(graph, spoil, answer) ==
  LET harmless == /\ spoil.arg \in Optional(graph.nodes[spoil.id].process)
                  /\ spoil.how \in {"taken"} \cup (IF spoil.arg = "options" THEN {} ELSE {"null"})
  IN IF harmless THEN answer.v = "product" ELSE answer.v = "error" /\ answer.node = spoil.id

------------------------------------------------------------------------------
(* Graphs *)

N(process, args) == [process |-> process, args |-> args, result |-> FALSE]
Ref(id) == [t |-> "node", id |-> id]
Str(s) == [t |-> "str", s |-> s]
Number(n) == [t |-> "num", n |-> n]
Time(t) == [t |-> "time", at |-> t]
Null == [t |-> "null"]
Items(seq) == [t |-> "list", items |-> seq]
NoArgs == [a \in {} |-> Null]
Result(node) == [node EXCEPT !.result = TRUE]
Graph(nodes) == [t |-> "graph", nodes |-> nodes]

nir == <<"nir">>
red == <<"red">>
b04 == <<"b04">>
b08 == <<"b08">>

Module1 == [hash |-> "m1", oversized |-> FALSE, arity |-> [n \in 1..2 |-> 1]]
Module3 == [hash |-> "m3", oversized |-> FALSE, arity |-> [n \in 1..3 |-> IF n = 3 THEN 2 ELSE 3]]

Context == [collection |-> "s2", udf |-> TRUE, modules |-> [u \in {"u3"} |-> Module3],
            bands |-> << [name |-> b04, aliases |-> {red}], [name |-> b08, aliases |-> {nir}] >>]

L1 == <<"l1">>
L2 == <<"l2">>
A == <<"a">>
B == <<"b">>
C == <<"c">>
M == <<"m">>
S == <<"s">>

Load(bands, extent) ==
  N("load_collection", [id |-> Str("s2"), bands |-> Items([i \in DOMAIN bands |-> Str(bands[i])]),
                        temporal_extent |-> extent])
Bands == {<<nir, red>>, <<b04, nir, red>>, <<b04>>}
Extents == {Null, Items(<<Time(1), Time(3)>>), Items(<<Null, Time(2)>>)}
Loads == {Load(b, e) : b \in Bands, e \in Extents}

Param(name) == [t |-> "param", name |-> name]
Element(key, value) == N("array_element", [a \in {"data", key} |-> IF a = "data" THEN Param("data") ELSE value])
Pair(process, x, y) == N(process, [x |-> x, y |-> y])
R1 == <<"r1">>
R2 == <<"r2">>
R3 == <<"r3">>

Reducers ==
  { Graph(R1 :> Result(Element("index", Number(0)))),
    Graph(R1 :> Element("label", Str(b08)) @@ R2 :> Element("label", Str(red))
          @@ R3 :> Result(Pair("divide", Ref(R1), Ref(R2)))),
    Graph(R1 :> Element("index", Number(1)) @@ R3 :> Result(Pair("subtract", Ref(R1), Number(2)))),
    Graph(R1 :> Pair("add", Ref(R3), Number(2)) @@ R3 :> Result(Pair("multiply", Ref(R1), Number(2)))) }

\* a unary process over the node before it
Unary(prev) ==
  {N("filter_temporal", [data |-> Ref(prev), extent |-> e]) :
      e \in {Items(<<Time(2), Null>>), Items(<<Time(0), Time(4)>>), Items(<<Time(2), Time(2)>>)}}
  \cup {N("reduce_dimension", [data |-> Ref(prev), dimension |-> Str("bands"), reducer |-> r]) : r \in Reducers}
  \cup {N("ndvi", [data |-> Ref(prev)]),
        N("ndvi", [data |-> Ref(prev), nir |-> Str(b08), red |-> Str(b04)]),
        N("linear_scale_range", [x |-> Ref(prev), inputMin |-> Number(-1), inputMax |-> Number(6), outputMax |-> Number(255)]),
        N("run_udf", [data |-> Ref(prev), runtime |-> Str("wasm"), udf |-> [t |-> "inline", module |-> Module1]]),
        N("run_udf", [data |-> Ref(prev), runtime |-> Str("wasm"), udf |-> [t |-> "url", url |-> "u3"]])}

Saves(prev) ==
  {Result(N("save_result", [data |-> Ref(prev), format |-> Str("png")])),
   Result(N("save_result", [data |-> Ref(prev), format |-> Str("png"), options |-> [t |-> "options", colormap |-> "magma"]]))}

Chains ==
  {Graph(L1 :> l @@ S :> s) : l \in Loads, s \in Saves(L1)}
  \cup {Graph(L1 :> l @@ A :> a @@ S :> s) : l \in Loads, a \in Unary(L1), s \in Saves(A)}
  \cup {Graph(L1 :> l @@ A :> a @@ B :> b @@ S :> s) : l \in Loads, a \in Unary(L1), b \in Unary(A), s \in Saves(B)}

Resolvers ==
  { Graph(R1 :> Result(Pair("subtract", Param("x"), Param("y")))),
    Graph(R1 :> Pair("add", Param("x"), Number(1)) @@ R2 :> Result(Pair("divide", Ref(R1), Param("y")))),
    Graph(R1 :> Result(Element("index", Number(0)))) }

Branches(load) == {n \in Unary(load) : n.process \in {"ndvi", "reduce_dimension", "filter_temporal"}}

Joins ==
  {Graph(L1 :> l1 @@ L2 :> l2 @@ A :> a @@ B :> b
         @@ M :> N("merge_cubes", [cube1 |-> Ref(A), cube2 |-> Ref(B), overlap_resolver |-> r])
         @@ C :> c @@ S :> s) :
     l1 \in {l \in Loads : l.args["bands"].items # <<Str(b04)>>}, l2 \in {Load(<<nir, red>>, e) : e \in Extents},
     a \in Branches(L1), b \in Branches(L2) \cup Branches(L1),
     r \in Resolvers, c \in {n \in Unary(M) : n.process \in {"filter_temporal", "linear_scale_range"}},
     s \in {CHOOSE x \in Saves(C) : DOMAIN x.args = {"data", "format"}}}

\* any wiring of two filters and a join over two loads
Targets == {L1, A, B, M, S, <<"z">>}
Wirings ==
  {Graph(L1 :> Load(<<nir, red>>, Null)
         @@ A :> N("filter_temporal", [data |-> Ref(p), extent |-> Items(<<Time(1), Null>>)])
         @@ B :> N("ndvi", [data |-> Ref(q)])
         @@ M :> N("merge_cubes", [cube1 |-> Ref(u), cube2 |-> Ref(w), overlap_resolver |-> Graph(R1 :> Result(Pair("add", Param("x"), Param("y"))))])
         @@ S :> Result(N("save_result", [data |-> Ref(d), format |-> Str("png")]))) :
     p \in Targets, q \in Targets, u \in Targets, w \in Targets, d \in Targets}

\* Samples of two bands at two loads.
V(n) == Sample(Num(n))
SceneOf(a, b) == [l \in {L1, L2} |-> [n \in {b04, b08} |->
   IF l = L1 THEN (IF n = b04 THEN a ELSE b) ELSE (IF n = b04 THEN b ELSE V(3))]]
Scenes == {SceneOf(V(1), V(4)), SceneOf(V(2), V(-2)), SceneOf([V(1) EXCEPT !.valid = FALSE], V(5)), SceneOf(V(0), V(300))}

\* Graphs that compile, and those with one argument of one node taken away,
\* null or of no type a process takes.
Candidates ==
  {Graph(L1 :> l @@ A :> a @@ B :> b @@ S :> s) :
     l \in {x \in Loads : x.args["bands"].items = <<Str(nir), Str(red)>>},
     a \in {n \in Unary(L1) : n.process \in {"ndvi", "run_udf", "filter_temporal"}},
     b \in {n \in Unary(A) : n.process \in {"linear_scale_range", "filter_temporal"}}, s \in Saves(B)}
Good == {g \in Candidates : Compile(g, Context).v = "product"}

Spoilt(graph, id, arg, how) ==
  LET args == graph.nodes[id].args
  IN [graph EXCEPT !.nodes[id].args =
        IF how = "taken" THEN [x \in DOMAIN args \ {arg} |-> args[x]]
        ELSE [args EXCEPT ![arg] = IF how = "null" THEN Null ELSE [t |-> "junk"]]]

Spoils ==
  UNION {UNION {{[graph |-> g, id |-> id, arg |-> arg, how |-> how] :
                   arg \in DOMAIN g.nodes[id].args, how \in {"taken", "null", "junk"}} :
                 id \in DOMAIN g.nodes} : g \in Good}
==============================================================================
