------------------------------- MODULE Planner -------------------------------
(***************************************************************************)
(* How a tile is going to be made (swath-planner): the stored payload, an  *)
(* embedded overview that every band has, a full-resolution read, or a     *)
(* refusal when that read is over the layer's ceiling.                     *)
(*                                                                         *)
(* Sizes are exact rationals <<num, den>> where the code has f64; byte     *)
(* counts keep the width of u64, whose largest value is U64Max: they       *)
(* saturate, and then wrap as release builds do.                           *)
(***************************************************************************)
EXTENDS Exact, Sequences, FiniteSetsExt

CONSTANT U64Max

\* The largest byte count.
ASSUME WidthAssumption == U64Max \in Nat

Width == U64Max + 1

\* `desired_ratio' times the slack: the smaller of the two axes.
DesiredRatio(band, tileSize, oversample) ==
  Times(Over(Lesser(band.cols, band.rows), Num(tileSize)), oversample)

Saturating(n) == IF n > U64Max THEN U64Max ELSE n

\* `estimated_bytes': whole pixels of the extent at a factor, in bytes.
EstimatedBytes(band, factor) ==
  LET pixels(len) == Ceil(Over(len, Num(factor)))
  IN (Saturating(pixels(band.cols) * pixels(band.rows)) * band.bytes) % Width

Total(bands, factor) ==
  LET sum[n \in 0..Len(bands)] ==
        IF n = 0 THEN 0 ELSE (sum[n - 1] + EstimatedBytes(bands[n], factor)) % Width
  IN sum[Len(bands)]

EligibleFactors(band, tileSize, oversample) ==
  {f \in Range(band.overviews) :
     f > 1 /\ AtMost(Num(f), DesiredRatio(band, tileSize, oversample))}

\* Variant: the coarsest factor of the first band.
CommonFactorOfFirst(bands, tileSize, oversample) ==
  LET common == IF bands = <<>> THEN {} ELSE EligibleFactors(Head(bands), tileSize, oversample)
  IN IF tileSize = 0 \/ common = {} THEN None ELSE Max(common)

\* `common_overview_factor': the coarsest factor eligible for every band.
CommonFactor(bands, tileSize, oversample) ==
  LET common == {f \in UNION {Range(bands[i].overviews) : i \in DOMAIN bands} :
                   \A i \in DOMAIN bands : f \in EligibleFactors(bands[i], tileSize, oversample)}
  IN IF tileSize = 0 \/ common = {} THEN None ELSE Max(common)

\* A strategy weighed: what it is, its bytes, and whether the budget has it.
Candidate(kind, factor, cost, admissible) ==
  [kind |-> kind, factor |-> factor, cost |-> cost, admissible |-> admissible]

\* The candidates in their fixed order; a usable hit ends the weighing.
Considered(budget, probe, tileSize, bands) ==
  LET hit == probe.probe = "hit"
      factor == CommonFactor(bands, tileSize, budget.oversample)
      live == Total(bands, 1)
  IN IF hit /\ budget.cache
     THEN << Candidate("cache_hit", 0, probe.bytes, TRUE), Candidate("overview", 0, 0, FALSE),
             Candidate("live", 0, 0, FALSE) >>
     ELSE << Candidate("cache_hit", 0, IF hit THEN probe.bytes ELSE 0, FALSE),
             IF factor = None THEN Candidate("overview", 0, 0, FALSE)
             ELSE Candidate("overview", factor, Total(bands, factor), TRUE),
             Candidate("live", 0, live, budget.ceiling = None \/ live <= budget.ceiling) >>

\* `plan': the cheapest admissible candidate, the earlier one of two as cheap,
\* or the refusal with the estimate that broke the ceiling.
Plan(budget, probe, tileSize, bands) ==
  LET considered == Considered(budget, probe, tileSize, bands)
      open == {i \in DOMAIN considered : considered[i].admissible}
      cheapest == considered[CHOOSE i \in open : \A j \in open :
                    considered[i].cost < considered[j].cost
                    \/ (considered[i].cost = considered[j].cost /\ i <= j)]
  IN IF open = {}
     THEN [choice |-> "refuse", factor |-> 0, estimate |-> considered[3].cost]
     ELSE [choice |-> cheapest.kind, factor |-> cheapest.factor, estimate |-> cheapest.cost]
==============================================================================
