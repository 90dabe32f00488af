------------------------------ MODULE RenderIR ------------------------------
(***************************************************************************)
(* Render plans: how a product's shape becomes a plan (swath-render        *)
(* plan.rs), and what a plan makes of one pixel (swath-render ir.rs).      *)
(*                                                                         *)
(* Pixels do not see each other, so a tile is modelled as one pixel.  A    *)
(* sample is an exact rational (module Exact).  A name is the sequence of its      *)
(* parts between "@": <<"b04">>, or <<"b04", "load1">> when qualified.     *)
(***************************************************************************)
EXTENDS Exact, Sequences, SequencesExt

------------------------------------------------------------------------------
(* Plans *)

\* `BandInput::new': a qualified name carries the load node it is read through.
BandInput(name) ==
  [name |-> name, source |-> IF Len(name) > 1 THEN <<Last(name)>> ELSE None]

Band(name) == [op |-> "band", name |-> name]
Const(c) == [op |-> "const", value |-> c]
Binary(op, x, y) == [op |-> op, lhs |-> x, rhs |-> y]

NdviExpr(nir, red) ==
  Binary("divide", Binary("subtract", Band(nir), Band(red)), Binary("add", Band(nir), Band(red)))

Deduplicated(names) ==
  FoldLeft(LAMBDA seen, name : IF Contains(seen, name) THEN seen ELSE Append(seen, name),
           <<>>, names)

\* `band_refs': the bands of an expression, left to right.
RECURSIVE BandRefs(_)
BandRefs(expr) ==
  CASE expr.op = "band" -> <<expr.name>>
    [] expr.op = "const" -> <<>>
    [] OTHER -> BandRefs(expr.lhs) \o BandRefs(expr.rhs)

\* The bands a spec names, in the order it names them.
Named(spec) ==
  CASE spec.shape = "composite" -> spec.bands
    [] spec.shape = "math" -> BandRefs(spec.expr)
    [] spec.shape = "udf" -> spec.bands

\* The operations of a spec: pixels, then the scale, then the palette.
Ops(spec) ==
  LET rescale == IF spec.rescale = None THEN <<>>
                 ELSE <<[op |-> "rescale", min |-> spec.rescale[1], max |-> spec.rescale[2]]>>
  IN CASE spec.shape = "composite" -> <<[op |-> "composite", bands |-> spec.bands]>> \o rescale
       [] spec.shape = "math" -> <<[op |-> "math", expr |-> spec.expr]>> \o rescale
                                 \o <<[op |-> "colormap", map |-> spec.colormap]>>
       [] spec.shape = "udf" -> <<[op |-> "udf", stage |-> spec.stage]>> \o rescale

\* `plan_for': inputs are the referenced bands, once each.
PlanFor(spec) ==
  [inputs |-> LET names == Deduplicated(Named(spec)) IN [i \in DOMAIN names |-> BandInput(names[i])],
   ops |-> Ops(spec)]

------------------------------------------------------------------------------
(* Evaluation of one pixel *)

Invalid == [valid |-> FALSE, value |-> Num(0)]
Sample(v) == [valid |-> TRUE, value |-> v]

\* `eval_at': no value where a denominator is exactly zero.
RECURSIVE EvalAt(_, _)
EvalAt(expr, sample) ==
  IF expr.op = "band" THEN Sample(sample[expr.name].value)
  ELSE IF expr.op = "const" THEN Sample(expr.value)
  ELSE LET l == EvalAt(expr.lhs, sample)
           r == EvalAt(expr.rhs, sample)
       IN IF ~l.valid \/ ~r.valid THEN Invalid
          ELSE CASE expr.op = "add" -> Sample(Plus(l.value, r.value))
                 [] expr.op = "subtract" -> Sample(Minus(l.value, r.value))
                 [] expr.op = "multiply" -> Sample(Times(l.value, r.value))
                 [] expr.op = "divide" ->
                      IF r.value[1] = 0 THEN Invalid ELSE Sample(Over(l.value, r.value))

\* The vendored tables, as far as they are told apart; grayscale has none.
Lut(map, q) ==
  CASE map = "viridis" -> <<Num(q), Num(255 - q), Num(1)>>
    [] map = "magma" -> <<Num(q), Num(255 - q), Num(2)>>
    [] map = "rdylgn" -> <<Num(q), Num(255 - q), Num(3)>>

Byte(v) == Floor(Clamp(v, Num(0), Num(255)))

\* What evaluation carries from one operation to the next.
Fresh(valid) == [error |-> "none", valid |-> valid, planes |-> None, gray |-> FALSE]

MathOp(op, sample, st) ==
  IF \E name \in ToSet(BandRefs(op.expr)) : name \notin DOMAIN sample
  THEN [st EXCEPT !.error = "UnknownBand"]
  ELSE LET v == IF st.valid THEN EvalAt(op.expr, sample) ELSE Invalid
       IN [st EXCEPT !.valid = v.valid, !.planes = <<v.value, v.value, v.value>>, !.gray = TRUE]

CompositeOp(op, sample, st) ==
  IF \E name \in ToSet(op.bands) : name \notin DOMAIN sample
  THEN [st EXCEPT !.error = "UnknownBand"]
  ELSE [st EXCEPT !.planes = [i \in 1..3 |-> sample[op.bands[i]].value], !.gray = FALSE]

RescaleOp(op, st) ==
  IF ~Less(op.min, op.max) THEN [st EXCEPT !.error = "DegenerateRescale"]
  ELSE IF st.planes = None THEN [st EXCEPT !.error = "NothingToTransform"]
  ELSE [st EXCEPT !.planes = [i \in DOMAIN @ |->
          Times(Over(Minus(Clamp(@[i], op.min, op.max), op.min), Minus(op.max, op.min)),
                Num(255))]]

ColormapOp(op, st) ==
  IF st.planes = None THEN [st EXCEPT !.error = "NothingToTransform"]
  ELSE IF op.map = "grayscale" THEN st
  ELSE IF ~st.gray THEN [st EXCEPT !.error = "ColormapNeedsGray"]
  ELSE [st EXCEPT !.planes = Lut(op.map, Byte(@[1])), !.gray = FALSE]

\* Variant: what the module says of validity replaces what the bands said.
UdfOpResurrects(op, ran, st) ==
  IF op.stage.output_planes \notin {1, 3} THEN [st EXCEPT !.error = "UdfOutputPlanes"]
  ELSE IF Len(ran) # op.stage.output_planes THEN [st EXCEPT !.error = "UdfOutputShape"]
  ELSE [st EXCEPT !.valid = \A i \in DOMAIN ran : ran[i].valid,
                  !.planes = [i \in 1..3 |-> ran[IF Len(ran) = 1 THEN 1 ELSE i].value],
                  !.gray = Len(ran) = 1]

\* `udf_planes': a module can invalidate pixels and never resurrect them.
UdfOp(op, ran, st) ==
  IF op.stage.output_planes \notin {1, 3} THEN [st EXCEPT !.error = "UdfOutputPlanes"]
  ELSE IF Len(ran) # op.stage.output_planes THEN [st EXCEPT !.error = "UdfOutputShape"]
  ELSE [st EXCEPT !.valid = @ /\ \A i \in DOMAIN ran : ran[i].valid,
                  !.planes = [i \in 1..3 |-> ran[IF Len(ran) = 1 THEN 1 ELSE i].value],
                  !.gray = Len(ran) = 1]

\* One operation; `ran' is what the executor answers for this pixel.
Apply(op, sample, ran, st) ==
  IF st.error # "none" THEN st
  ELSE CASE op.op = "math" -> MathOp(op, sample, st)
         [] op.op = "composite" -> CompositeOp(op, sample, st)
         [] op.op = "rescale" -> RescaleOp(op, st)
         [] op.op = "colormap" -> ColormapOp(op, st)
         [] op.op = "udf" -> UdfOp(op, ran, st)

\* `quantize': four bytes, transparent black where nothing is valid.
Quantize(st) ==
  IF ~st.valid THEN <<0, 0, 0, 0>>
  ELSE <<Byte(st.planes[1]), Byte(st.planes[2]), Byte(st.planes[3]), 255>>

\* `eval_with': buffers are the samples of the plan's inputs, in order.
EvalPlan(plan, buffers, ran) ==
  IF Len(buffers) # Len(plan.inputs) THEN [error |-> "InputCount", rgba |-> None]
  ELSE LET sample == [name \in {plan.inputs[i].name : i \in DOMAIN buffers} |->
                        buffers[CHOOSE i \in DOMAIN buffers : plan.inputs[i].name = name]]
           start == Fresh(\A i \in DOMAIN buffers : buffers[i].valid)
           st == FoldLeft(LAMBDA acc, op : Apply(op, sample, ran, acc), start, plan.ops)
       IN IF st.error # "none" THEN [error |-> st.error, rgba |-> None]
          ELSE IF st.planes = None THEN [error |-> "NothingToTransform", rgba |-> None]
          ELSE [error |-> "none", rgba |-> Quantize(st)]
=============================================================================
