------------------------------ MODULE MCPlanner ------------------------------
(***************************************************************************)
(* The planner asked one question: what it answers is compared with the    *)
(* procedure of the design, which weighs nothing.                          *)
(***************************************************************************)
EXTENDS Planner

CONSTANT Plannings  \* questions: [budget, probe, tileSize, bands]

\* A size is a fraction, none below zero; what counts pixels, bytes or factors
\* is a natural number.
IsSize(len) == len[1] \in Nat /\ len[2] \in Nat \ {0}

IsBand(band) ==
  IsSize(band.cols) /\ IsSize(band.rows) /\ band.bytes \in Nat /\ band.overviews \in Seq(Nat)

AreBands(bands) ==
  Len(bands) \in Nat /\ DOMAIN bands = 1..Len(bands) /\ \A i \in DOMAIN bands : IsBand(bands[i])

IsBudget(budget) ==
  /\ budget.cache \in BOOLEAN /\ (budget.ceiling = None \/ budget.ceiling \in Nat)
  /\ budget.oversample[1] \in Int /\ budget.oversample[2] \in Nat \ {0}

ASSUME PlanningsAssumption ==
  /\ None \notin Nat
  /\ \A p \in Plannings : p.tileSize \in Nat /\ IsBudget(p.budget) /\ AreBands(p.bands)

VARIABLES question, answer

Replied(kind) == answer # None /\ question.kind = kind

AnswerPlan ==
  /\ question.kind = "plan"
  /\ LET q == question.of IN answer' = Plan(q.budget, q.probe, q.tileSize, q.bands)

------------------------------------------------------------------------------
\* The bytes of a full read of all bands, however many they are.
FullRead(bands) ==
  LET sum[n \in 0..Len(bands)] ==
        IF n = 0 THEN 0
        ELSE sum[n - 1] + Ceil(bands[n].cols) * Ceil(bands[n].rows) * bands[n].bytes
  IN sum[Len(bands)]

\* A band read at a factor has a pixel for each of the tile's, but for the slack.
Sharp(asked, band, factor) ==
  \A len \in {band.cols, band.rows} :
    AtMost(Num(factor * asked.tileSize), Times(len, asked.budget.oversample))

\* The overviews that all bands have and that are sharp enough for each.
Usable(asked) ==
  {f \in UNION {Range(asked.bands[i].overviews) : i \in DOMAIN asked.bands} :
     /\ f > 1
     /\ \A i \in DOMAIN asked.bands :
          f \in Range(asked.bands[i].overviews) /\ Sharp(asked, asked.bands[i], f)}

\* The plan of the design: a hit, or the coarsest overview all bands share
\* within the slack, or a full read within the ceiling, or a refusal; where
\* no byte count outgrows its type.  Nothing is read that was estimated at
\* more than a full read.
PlanAsSpecified(asked, plan) ==
  LET cost == FullRead(asked.bands)
  IN cost <= U64Max =>
       IF asked.probe.probe = "hit" /\ asked.budget.cache THEN plan.choice = "cache_hit"
       ELSE IF asked.tileSize > 0 /\ Usable(asked) # {}
       THEN plan.choice = "overview" /\ plan.factor = Max(Usable(asked)) /\ plan.estimate <= cost
       ELSE IF asked.budget.ceiling = None \/ cost <= asked.budget.ceiling
       THEN plan.choice = "live" /\ plan.estimate = cost
       ELSE plan.choice = "refuse" /\ plan.estimate = cost

\* Weighing the estimates comes to the procedure of the design: the coarsest
\* overview the bands share, and a full read only within the ceiling.
PlansAsSpecified == Replied("plan") => PlanAsSpecified(question.of, answer)

------------------------------------------------------------------------------
PlannerInit == question \in [kind : {"plan"}, of : Plannings] /\ answer = None

PlannerNext == answer = None /\ AnswerPlan /\ UNCHANGED question

PlannerSpec == PlannerInit /\ [][PlannerNext]_<<question, answer>>
==============================================================================
