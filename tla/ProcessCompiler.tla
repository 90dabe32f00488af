--------------------------- MODULE ProcessCompiler ---------------------------
(***************************************************************************)
(* The process compiler: an openEO process graph lowered to a render plan  *)
(* (swath-render process.rs, and the `udf' argument of udf.rs).            *)
(*                                                                         *)
(* A graph is [t |-> "graph", nodes |-> function from node ids to records  *)
(* of process, args and result].  An argument, like any JSON value, is a   *)
(* record with a tag: node and param refer, num, str, list, graph, null    *)
(* and junk are literals, time is a string that denotes an instant (in     *)
(* milliseconds, from the first representable one, 0).  Names are          *)
(* sequences of parts, as in RenderIR.  Evaluation is memoized in the      *)
(* code; a node's value depends on nothing but the node, so here it is     *)
(* evaluated again and `path' stands for the nodes in progress.            *)
(***************************************************************************)
EXTENDS RenderIR, FiniteSets

------------------------------------------------------------------------------
(* Results *)

Fail(error, node) == [v |-> "error", error |-> error, node |-> node]
Failed(r) == r.v = "error"

\* The first check that holds refuses; otherwise the result stands.
Checked(node, checks, result) ==
  LET bad == SelectSeq(checks, LAMBDA check : check[1])
  IN IF bad = <<>> THEN result ELSE Fail(Head(bad)[2], node)

\* The continuation of a result that is not an error.
Then(r, f(_)) == IF Failed(r) THEN r ELSE f(r)

Scalar(expr) == [v |-> "scalar", expr |-> expr]
BandArray(bands) == [v |-> "bands", bands |-> bands]
Cube(kind, content, sources) ==
  [v |-> "cube", kind |-> kind, content |-> content, rescale |-> None, colormap |-> None,
   sources |-> sources]

------------------------------------------------------------------------------
(* Graphs and scopes *)

Results(graph) == {id \in DOMAIN graph.nodes : graph.nodes[id].result}

\* `Graph::parse': an object of nodes with exactly one result.
ParseFault(graph) ==
  CASE graph.t # "graph" -> "Malformed"
    [] graph.t = "graph" /\ Results(graph) = {} -> "NoResult"
    [] graph.t = "graph" /\ Cardinality(Results(graph)) > 1 -> "MultipleResults"
    [] OTHER -> "none"

\* What a node is evaluated in: its graph, the parameters its nodes may
\* name, the compile context, and whether bands are qualified.
Scope(graph, params, ctx, multi) ==
  [nodes |-> graph.nodes, params |-> params, ctx |-> ctx, multi |-> multi]

Ungiven == [t |-> "absent"]
Arg(scope, id, name) ==
  LET args == scope.nodes[id].args IN IF name \in DOMAIN args THEN args[name] ELSE Ungiven

\* A null argument is as good as none, where the code says so.
Given(arg) == arg.t \notin {"absent", "null"}
IsStr(arg, s) == arg.t = "str" /\ arg.s = s

RECURSIVE EvalNode(_, _, _)

\* `resolve_ref': a reference is evaluated, a literal is itself.
ResolveRef(scope, path, id, arg) ==
  CASE arg.t = "node" ->
         IF arg.id \notin DOMAIN scope.nodes THEN Fail("DanglingReference", id)
         ELSE EvalNode(scope, path, arg.id)
    [] arg.t = "param" ->
         IF arg.name \notin DOMAIN scope.params THEN Fail("UnknownParameter", id)
         ELSE scope.params[arg.name]
    [] OTHER -> [v |-> "literal"]

\* `cube_arg': a required argument that is a cube.
CubeArg(scope, path, id, name) ==
  LET arg == Arg(scope, id, name)
  IN IF arg = Ungiven THEN Fail("MissingArgument", id)
     ELSE Then(ResolveRef(scope, path, id, arg), LAMBDA r :
            IF r.v = "cube" THEN r ELSE Fail("TypeMismatch", id))

\* `scalar_arg': a required argument that is a number or an expression.
ScalarArg(scope, path, id, name) ==
  LET arg == Arg(scope, id, name)
  IN IF arg = Ungiven THEN Fail("MissingArgument", id)
     ELSE Then(ResolveRef(scope, path, id, arg), LAMBDA r :
            CASE r.v = "scalar" -> r
              [] r.v = "literal" /\ arg.t = "num" -> Scalar(Const(Num(arg.n)))
              [] OTHER -> Fail("TypeMismatch", id))

------------------------------------------------------------------------------
(* Bands *)

\* `CompileContext::resolve': the first binding whose name or alias it is.
Binding(ctx, label) ==
  LET fits == SelectSeq(ctx.bands, LAMBDA b : label \in {b.name} \cup b.aliases)
  IN IF fits = <<>> THEN None ELSE Head(fits).name

\* `find_band': by the label it was loaded under, or else by the dataset
\* band the context resolves the name to.
FindBand(ctx, bands, name) ==
  LET direct == SelectSeq(bands, LAMBDA b : b.label = name)
      dataset == Binding(ctx, name)
      unqualified(b) == IF Len(b.dataset) > 1 THEN Front(b.dataset) ELSE b.dataset
      via == SelectSeq(bands, LAMBDA b : dataset # None /\ unqualified(b) = dataset)
  IN CASE direct # <<>> -> Head(direct).dataset
       [] direct = <<>> /\ via # <<>> -> Head(via).dataset
       [] OTHER -> None

\* `unscaled_multi' and `gray_unscaled': what a process demands of its cube.
UnscaledMulti(cube) == cube.rescale = None /\ cube.kind = "multi"
UnscaledGray(cube) == cube.rescale = None /\ cube.kind = "gray"

------------------------------------------------------------------------------
(* Temporal windows: closed intervals, None where open *)

OpenWindow == [start |-> None, end |-> None]

Later(a, b) == CASE a = None -> b [] b = None -> a [] OTHER -> IF a >= b THEN a ELSE b
Earlier(a, b) == CASE a = None -> b [] b = None -> a [] OTHER -> IF a <= b THEN a ELSE b

BoundOf(arg) == IF arg.t = "time" THEN arg.at ELSE None

\* Why `temporal_interval' refuses an argument.
IntervalFault(arg) ==
  IF arg.t # "list" \/ (arg.t = "list" /\ Len(arg.items) # 2) THEN "InvalidArgument"
  ELSE LET b == arg.items
           start == BoundOf(b[1])
           end == BoundOf(b[2])
       IN CASE \/ {b[1].t, b[2].t} \ {"time", "null"} # {}
               \/ b[1].t = "null" /\ b[2].t = "null" -> "InvalidArgument"
            [] {b[1].t, b[2].t} = {"time"} /\ start >= end -> "EmptyTemporalWindow"
            [] b[1].t = "null" /\ b[2].t = "time" /\ end = 0 -> "EmptyTemporalWindow"
            [] OTHER -> "none"

\* Variant: the exclusive end is taken as it is.
IntervalInclusive(arg) ==
  [start |-> BoundOf(arg.items[1]), end |-> BoundOf(arg.items[2])]

\* `temporal_interval': left-closed, so the end steps back a millisecond.
Interval(arg) ==
  LET end == BoundOf(arg.items[2])
  IN [start |-> BoundOf(arg.items[1]), end |-> IF end = None THEN None ELSE end - 1]

IntersectWindows(a, b) == [start |-> Later(a.start, b.start), end |-> Earlier(a.end, b.end)]
Empty(w) == w.start # None /\ w.end # None /\ w.start > w.end

\* `hull': open on a side as soon as one window is.
Hull(windows) ==
  [start |-> IF \E w \in windows : w.start = None THEN None
             ELSE CHOOSE t \in {w.start : w \in windows} : \A w \in windows : t <= w.start,
   end |-> IF \E w \in windows : w.end = None THEN None
           ELSE CHOOSE t \in {w.end : w \in windows} : \A w \in windows : t >= w.end]

------------------------------------------------------------------------------
(* Processes, each with its checks in the order of the code *)

LoadFault(ctx, band) ==
  CASE band.t # "str" -> "InvalidArgument"
    [] band.t = "str" /\ Len(band.s) > 1 -> "InvalidArgument"
    [] band.t = "str" /\ Len(band.s) = 1 /\ Binding(ctx, band.s) = None -> "UnknownBand"
    [] OTHER -> "none"

LoadCollection(scope, id) ==
  LET name == Arg(scope, id, "id")
      bands == Arg(scope, id, "bands")
      extent == Arg(scope, id, "temporal_extent")
      faults == IF bands.t # "list" THEN <<>>
                ELSE SelectSeq([i \in DOMAIN bands.items |-> LoadFault(scope.ctx, bands.items[i])],
                               LAMBDA f : f # "none")
      dataset(label) == Binding(scope.ctx, label) \o (IF scope.multi THEN id ELSE <<>>)
      loaded == [i \in DOMAIN bands.items |->
                   [label |-> bands.items[i].s, dataset |-> dataset(bands.items[i].s)]]
      window == IF Given(extent) THEN Interval(extent) ELSE OpenWindow
  IN Checked(id, << <<name = Ungiven, "MissingArgument">>,
                    <<name.t # "str", "InvalidArgument">>,
                    <<~IsStr(name, scope.ctx.collection), "UnknownCollection">>,
                    <<~Given(bands), "MissingArgument">>,
                    <<bands.t # "list", "InvalidArgument">>,
                    <<faults # <<>>, IF faults # <<>> THEN Head(faults) ELSE "none">>,
                    <<Given(extent) /\ IntervalFault(extent) # "none",
                      IF Given(extent) THEN IntervalFault(extent) ELSE "none">> >>,
             Cube("multi", loaded, << [node |-> id, window |-> window] >>))

FilterTemporal(scope, path, id) ==
  Then(CubeArg(scope, path, id, "data"), LAMBDA cube :
    LET dimension == Arg(scope, id, "dimension")
        extent == Arg(scope, id, "extent")
        filter == Interval(extent)
        narrowed == [i \in DOMAIN cube.sources |->
                       [cube.sources[i] EXCEPT !.window = IntersectWindows(@, filter)]]
    IN Checked(id, << <<Given(dimension) /\ dimension.t # "str", "InvalidArgument">>,
                      <<Given(dimension) /\ ~IsStr(dimension, "t"), "DimensionNotAvailable">>,
                      <<extent = Ungiven, "MissingArgument">>,
                      <<IntervalFault(extent) # "none", IntervalFault(extent)>> >>,
               IF \E i \in DOMAIN narrowed : Empty(narrowed[i].window)
               THEN Fail("EmptyTemporalWindow", id)
               ELSE [cube EXCEPT !.sources = narrowed]))

\* The child graph of a reducer or a resolver, over its own parameters.
\* Its nodes cannot name nodes of the parent.  Only a malformed child is an
\* error of the node that has it.
Child(scope, id, graph, params) ==
  LET fault == ParseFault(graph)
  IN CASE fault = "Malformed" -> Fail("InvalidArgument", id)
       [] fault \in {"NoResult", "MultipleResults"} -> Fail(fault, None)
       [] OTHER -> Then(EvalNode(Scope(graph, params, scope.ctx, scope.multi), {},
                               CHOOSE r \in Results(graph) : TRUE), LAMBDA r :
                          IF r.v = "scalar" THEN r ELSE Fail("TypeMismatch", id))

ReduceDimension(scope, path, id) ==
  Then(CubeArg(scope, path, id, "data"), LAMBDA cube :
    LET dimension == Arg(scope, id, "dimension")
        reducer == Arg(scope, id, "reducer")
        checks == << <<~UnscaledMulti(cube), "TypeMismatch">>,
                     <<dimension = Ungiven, "MissingArgument">>,
                     <<~IsStr(dimension, "bands"), "InvalidArgument">>,
                     <<reducer = Ungiven, "MissingArgument">> >>
    IN Then(Checked(id, checks, cube), LAMBDA c :
       Then(Child(scope, id, reducer, [data |-> BandArray(cube.content)]), LAMBDA r :
         Cube("gray", r.expr, cube.sources))))

Ndvi(scope, path, id) ==
  Then(CubeArg(scope, path, id, "data"), LAMBDA cube :
    LET named(arg, default) == IF Given(arg) THEN arg ELSE [t |-> "str", s |-> default]
        nir == named(Arg(scope, id, "nir"), <<"nir">>)
        red == named(Arg(scope, id, "red"), <<"red">>)
        found(arg) == IF arg.t # "str" THEN None ELSE FindBand(scope.ctx, cube.content, arg.s)
    IN Checked(id, << <<~UnscaledMulti(cube), "TypeMismatch">>,
                      <<Given(Arg(scope, id, "target_band")), "InvalidArgument">>,
                      <<nir.t # "str", "InvalidArgument">>,
                      <<UnscaledMulti(cube) /\ found(nir) = None, "UnknownBand">>,
                      <<red.t # "str", "InvalidArgument">>,
                      <<UnscaledMulti(cube) /\ found(red) = None, "UnknownBand">> >>,
               Cube("gray", NdviExpr(found(nir), found(red)), cube.sources)))

\* Variant: the same load node may back both cubes.
SharedNever(a, b) == FALSE

\* The cubes of a join must be loaded by different nodes.
Shared(a, b) ==
  \E i \in DOMAIN a.sources : \E j \in DOMAIN b.sources : a.sources[i].node = b.sources[j].node

MergeCubes(scope, path, id) ==
  IF Given(Arg(scope, id, "context")) THEN Fail("InvalidArgument", id)
  ELSE Then(CubeArg(scope, path, id, "cube1"), LAMBDA cube1 :
       Then(CubeArg(scope, path, id, "cube2"), LAMBDA cube2 :
         LET resolver == Arg(scope, id, "overlap_resolver")
             checks == << <<~UnscaledGray(cube1), "InvalidArgument">>,
                          <<~UnscaledGray(cube2), "InvalidArgument">>,
                          <<Shared(cube1, cube2), "InvalidArgument">>,
                          <<~Given(resolver), "MissingResolver">> >>
         IN Then(Checked(id, checks, cube1), LAMBDA c :
            Then(Child(scope, id, resolver,
                       [x |-> Scalar(cube1.content), y |-> Scalar(cube2.content)]), LAMBDA r :
              Cube("gray", r.expr, cube1.sources \o cube2.sources)))))

LinearScaleRange(scope, path, id) ==
  Then(CubeArg(scope, path, id, "x"), LAMBDA cube :
    LET min == Arg(scope, id, "inputMin")
        max == Arg(scope, id, "inputMax")
        out(name, default) == LET arg == Arg(scope, id, name)
                              IN IF arg = Ungiven THEN [t |-> "num", n |-> default] ELSE arg
        lo == out("outputMin", 0)
        hi == out("outputMax", 1)
    IN Checked(id, << <<cube.rescale # None, "InvalidArgument">>,
                      <<min = Ungiven, "MissingArgument">>,
                      <<min.t # "num", "InvalidArgument">>,
                      <<max = Ungiven, "MissingArgument">>,
                      <<max.t # "num", "InvalidArgument">>,
                      <<min.t = "num" /\ max.t = "num" /\ min.n >= max.n, "InvalidArgument">>,
                      <<lo.t # "num" \/ hi.t # "num", "InvalidArgument">>,
                      <<lo.t = "num" /\ hi.t = "num" /\ <<lo.n, hi.n>> # <<0, 255>>,
                        "InvalidArgument">> >>,
               [cube EXCEPT !.rescale = <<Num(min.n), Num(max.n)>>]))

\* `UdfSource::parse' and the module it names: inline bytes, or what the
\* caller fetched for this URL before compiling.
ModuleOf(ctx, arg) ==
  CASE arg.t = "inline" -> arg.module
    [] arg.t = "url" /\ arg.url \in DOMAIN ctx.modules -> ctx.modules[arg.url]
    [] OTHER -> None

\* What a registrar answers for a module: the planes it gives for so many
\* planes in, or 0 when it rejects it.
Arity(module, planes) == IF planes \in DOMAIN module.arity THEN module.arity[planes] ELSE 0

RunUdf(scope, path, id) ==
  Then(CubeArg(scope, path, id, "data"), LAMBDA cube :
    LET runtime == Arg(scope, id, "runtime")
        version == Arg(scope, id, "version")
        udf == Arg(scope, id, "udf")
        module == ModuleOf(scope.ctx, udf)
        bands == Deduplicated([i \in DOMAIN cube.content |-> cube.content[i].dataset])
        planes == Arity(module, Len(bands))
        checks == << <<~UnscaledMulti(cube), "TypeMismatch">>,
                     <<runtime = Ungiven, "MissingArgument">>,
                     <<~IsStr(runtime, "wasm"), "InvalidArgument">>,
                     <<Given(version) /\ ~IsStr(version, "1"), "InvalidArgument">>,
                     <<~scope.ctx.udf, "UdfUnavailable">>,
                     <<udf = Ungiven, "MissingArgument">>,
                     <<udf.t \notin {"inline", "url"}, "InvalidArgument">>,
                     <<module = None, "InvalidArgument">>,
                     <<module # None /\ module.oversized, "InvalidArgument">> >>
    IN Then(Checked(id, checks, cube), LAMBDA c :
         Checked(id, << <<planes = 0, "UdfModule">>,
                        <<planes \notin {1, 3}, "UdfOutputPlanes">> >>,
                 Cube("udf", [bands |-> bands, module |-> module,
                              stage |-> [code_hash |-> module.hash, output_planes |-> planes]],
                      cube.sources))))

Colormaps == {"grayscale", "viridis", "magma", "rdylgn"}

SaveResult(scope, path, id) ==
  Then(CubeArg(scope, path, id, "data"), LAMBDA cube :
    LET format == Arg(scope, id, "format")
        options == Arg(scope, id, "options")
        asks == options.t = "options" /\ options.colormap # None
    IN Checked(id, << <<format = Ungiven, "MissingArgument">>,
                      <<~IsStr(format, "png"), "InvalidArgument">>,
                      <<options # Ungiven /\ options.t # "options", "InvalidArgument">>,
                      <<asks /\ options.colormap \notin Colormaps, "InvalidArgument">>,
                      <<asks /\ cube.kind # "gray", "InvalidArgument">> >>,
               IF options = Ungiven THEN cube ELSE [cube EXCEPT !.colormap = options.colormap]))

ArrayElement(scope, path, id) ==
  LET data == Arg(scope, id, "data")
  IN IF data = Ungiven THEN Fail("MissingArgument", id)
     ELSE Then(ResolveRef(scope, path, id, data), LAMBDA r :
       LET index == Arg(scope, id, "index")
           label == Arg(scope, id, "label")
           found == IF r.v = "bands" /\ label.t = "str"
                    THEN FindBand(scope.ctx, r.bands, label.s) ELSE None
       IN Checked(id, << <<r.v # "bands", "TypeMismatch">>,
                         <<Given(index) /\ Given(label), "InvalidArgument">>,
                         <<~Given(index) /\ ~Given(label), "MissingArgument">>,
                         <<Given(index) /\ ~(index.t = "num" /\ index.n >= 0), "InvalidArgument">>,
                         <<r.v = "bands" /\ index.t = "num" /\ index.n >= Len(r.bands),
                           "InvalidArgument">>,
                         <<Given(label) /\ label.t # "str", "InvalidArgument">>,
                         <<Given(label) /\ found = None, "UnknownBand">> >>,
                  Scalar(Band(IF Given(index) THEN r.bands[index.n + 1].dataset ELSE found))))

Arithmetic(scope, path, id, process) ==
  Then(ScalarArg(scope, path, id, "x"), LAMBDA x :
  Then(ScalarArg(scope, path, id, "y"), LAMBDA y :
    Scalar(Binary(process, x.expr, y.expr))))

------------------------------------------------------------------------------
(* Evaluation *)

\* `eval_node' and `eval_process': a node already in progress is a cycle.
EvalNode(scope, path, id) ==
  LET process == scope.nodes[id].process
      under == path \cup {id}
  IN IF id \in path THEN Fail("Cycle", id)
     ELSE CASE process = "load_collection" -> LoadCollection(scope, id)
            [] process = "filter_temporal" -> FilterTemporal(scope, under, id)
            [] process = "reduce_dimension" -> ReduceDimension(scope, under, id)
            [] process = "ndvi" -> Ndvi(scope, under, id)
            [] process = "merge_cubes" -> MergeCubes(scope, under, id)
            [] process = "linear_scale_range" -> LinearScaleRange(scope, under, id)
            [] process = "run_udf" -> RunUdf(scope, under, id)
            [] process = "save_result" -> SaveResult(scope, under, id)
            [] process = "array_element" -> ArrayElement(scope, under, id)
            [] process \in {"add", "subtract", "multiply", "divide"} ->
                 Arithmetic(scope, under, id, process)
            [] OTHER -> Fail("UnsupportedProcess", id)

\* The spec a result cube lowers to.
SpecOf(cube) ==
  CASE cube.kind = "gray" ->
         [shape |-> "math", expr |-> cube.content, rescale |-> cube.rescale,
          colormap |-> IF cube.colormap = None THEN "grayscale" ELSE cube.colormap]
    [] cube.kind = "udf" ->
         [shape |-> "udf", bands |-> cube.content.bands, stage |-> cube.content.stage,
          rescale |-> cube.rescale]
    [] cube.kind = "multi" ->
         [shape |-> "composite", rescale |-> cube.rescale,
          bands |-> [i \in DOMAIN cube.content |-> cube.content[i].dataset]]

\* Whether bands are qualified: any two loads of the graph, also loads the
\* result does not read.
MultiSource(graph) ==
  Cardinality({id \in DOMAIN graph.nodes : graph.nodes[id].process = "load_collection"}) > 1

Product(cube) ==
  LET plan == PlanFor(SpecOf(cube))
  IN [v |-> "product", plan |-> plan,
      bands |-> [i \in DOMAIN plan.inputs |-> plan.inputs[i].name],
      sources |-> cube.sources,
      window |-> Hull({cube.sources[i].window : i \in DOMAIN cube.sources}),
      module |-> IF cube.kind = "udf" THEN cube.content.module ELSE None]

\* `compile'.
Compile(graph, ctx) ==
  LET fault == ParseFault(graph)
  IN IF fault # "none" THEN Fail(fault, None)
     ELSE LET result == CHOOSE id \in Results(graph) : TRUE
              noParams == [name \in {} |-> None]
          IN IF graph.nodes[result].process # "save_result" THEN Fail("UnsavedResult", result)
             ELSE Then(EvalNode(Scope(graph, noParams, ctx, MultiSource(graph)), {}, result),
                       LAMBDA cube :
               IF cube.kind = "multi" /\ Len(cube.content) # 3 THEN Fail("TypeMismatch", result)
               ELSE Product(cube))
=============================================================================
