------------------------------ MODULE UsageLedger ------------------------------
(***************************************************************************)
(* The content of the aggregate usage store: its validation, the update of *)
(* each operation, and what the report derives from it.                    *)
(***************************************************************************)
EXTENDS Integers, FiniteSets, Functions

CONSTANTS Agents,      \* built-in agent ids
          Models,      \* model labels, NoModel (JSON null) among them
          NoModel,
          Efforts,     \* effort labels, "medium" (BASELINE_EFFORT) among them
          Tiers,
          ExitCodes,   \* child return codes, negative for a signal
          MaxCounter,  \* MAX_COUNTER
          MaxBuckets,  \* MAX_BUCKETS
          MaxWeights,  \* MAX_WEIGHTS
          MaxEntries,  \* stands for MAX_STORE_BYTES: buckets and weights that fit
          Scale,       \* WEIGHT_SCALE: the micros of one unit
          MaxWeight    \* MAX_WEIGHT_MICROS

ASSUME UsageLedgerAssumption ==
  /\ NoModel \in Models /\ "medium" \in Efforts
  /\ ExitCodes \subseteq Int /\ IsFiniteSet(ExitCodes)
  /\ {MaxCounter, MaxBuckets, MaxWeights, MaxEntries} \subseteq Nat
  /\ {Scale, MaxWeight} \subseteq Nat \ {0}

Dimensions == [agent : Agents, model : Models, effort : Efforts, tier : Tiers]
WeightKeys == Agents \X Models \X Efforts

WeightKey(d) == <<d.agent, d.model, d.effort>>
BaselineKey(agent) == <<agent, NoModel, "medium">>

Runs == [dimensions : Dimensions, source : Agents, status : ExitCodes,
         rework : BOOLEAN, escalation : BOOLEAN]

NoRuns == [runs |-> 0, succeeded |-> 0, failed |-> 0, weighted |-> 0, unweighted |-> 0,
           lower |-> 0, cost |-> 0, reworks |-> 0, escalations |-> 0,
           statuses |-> [c \in ExitCodes |-> 0]]

EmptyBaseline == [tasks |-> 0, counted |-> 0, total |-> 0]

EmptyStore == [weights |-> [k \in {} |-> 0], buckets |-> [d \in {} |-> NoRuns],
               baseline |-> EmptyBaseline]

\* The tasks a store's buckets show: a retry is a run of the same task.
RecordedTasks(buckets) == SumFunction([d \in DOMAIN buckets |-> buckets[d].runs - buckets[d].reworks])

-------------------------------------------------------------------------------
(* Validation, on every read and before every write *)

Counter == 0..MaxCounter

Feasible(total, count) == count <= total /\ total <= count * MaxWeight

ValidBucket(b) ==
  /\ {b.runs, b.succeeded, b.failed, b.weighted, b.unweighted, b.lower, b.cost,
      b.reworks, b.escalations} \subseteq Counter
  /\ \A c \in ExitCodes : b.statuses[c] \in Counter
  /\ b.succeeded + b.failed = b.runs
  /\ b.weighted + b.unweighted = b.runs
  /\ b.lower <= b.weighted
  /\ b.reworks <= b.runs
  /\ b.escalations <= b.runs
  /\ Feasible(b.cost, b.weighted)
  /\ SumFunction(b.statuses) = b.runs

ValidBaseline(baseline, tasks) ==
  /\ baseline.tasks = tasks
  /\ tasks \in Counter
  /\ {baseline.counted, baseline.total} \subseteq Counter
  /\ baseline.counted <= baseline.tasks
  /\ Feasible(baseline.total, baseline.counted)

ValidStore(s) ==
  /\ Cardinality(DOMAIN s.weights) <= MaxWeights
  /\ Cardinality(DOMAIN s.buckets) <= MaxBuckets
  /\ Cardinality(DOMAIN s.weights) + Cardinality(DOMAIN s.buckets) <= MaxEntries
  /\ DOMAIN s.weights \subseteq WeightKeys /\ DOMAIN s.buckets \subseteq Dimensions
  /\ \A k \in DOMAIN s.weights : s.weights[k] \in 1..MaxWeight
  /\ \A d \in DOMAIN s.buckets : ValidBucket(s.buckets[d])
  /\ ValidBaseline(s.baseline, RecordedTasks(s.buckets))

\* A schema-1 store has no baseline: the tasks are recovered, the evidence is not.
Promoted(weights, buckets) ==
  [weights |-> weights, buckets |-> buckets,
   baseline |-> [EmptyBaseline EXCEPT !.tasks = RecordedTasks(buckets)]]

-------------------------------------------------------------------------------
(* The updates *)

Put(f, x, v) == [y \in DOMAIN f \cup {x} |-> IF y = x THEN v ELSE f[y]]

\* Each update is the new content; _replace_store takes it only if it is valid.
WithWeight(s, k, micros) == [s EXCEPT !.weights = Put(s.weights, k, micros)]

One(condition) == IF condition THEN 1 ELSE 0

\* The run is counted, its verdict is not (seeded fault).
UncountedVerdict(b, r) == b

\* A finished run counts as a success or a failure, and under its status.
CountVerdict(b, r) ==
  [b EXCEPT !.succeeded = @ + One(r.status = 0),
            !.failed = @ + One(r.status # 0),
            !.statuses[r.status] = @ + 1]

\* The run is priced with the weight configured now, if there is one.
CountCost(b, r, weights) ==
  LET k == WeightKey(r.dimensions) IN
  IF k \in DOMAIN weights
  THEN [b EXCEPT !.weighted = @ + 1, !.cost = @ + weights[k],
                 !.lower = @ + One(weights[k] < Scale)]
  ELSE [b EXCEPT !.unweighted = @ + 1]

CountRun(b, r, weights) ==
  CountCost(CountVerdict([b EXCEPT !.runs = @ + 1,
                                   !.reworks = @ + One(r.rework),
                                   !.escalations = @ + One(r.escalation)], r),
            r, weights)

\* Every run enlarges the baseline, a retry too (seeded fault).
CountEveryRun(baseline, r, weights) ==
  LET k == BaselineKey(r.source) IN
  IF k \in DOMAIN weights
  THEN [tasks |-> baseline.tasks + One(~r.rework), counted |-> baseline.counted + One(~r.rework),
        total |-> baseline.total + weights[k]]
  ELSE [baseline EXCEPT !.tasks = @ + One(~r.rework)]

\* The baseline is one unit per task whatever the weights say (seeded fault).
CountUnit(baseline, r, weights) ==
  IF r.rework THEN baseline
  ELSE [tasks |-> baseline.tasks + 1, counted |-> baseline.counted + 1,
        total |-> baseline.total + Scale]

\* Only a first attempt is a task; its baseline is the medium route of the
\* source vendor without a model.
CountTask(baseline, r, weights) ==
  LET k == BaselineKey(r.source) IN
  IF r.rework THEN baseline
  ELSE IF k \in DOMAIN weights
  THEN [tasks |-> baseline.tasks + 1, counted |-> baseline.counted + 1,
        total |-> baseline.total + weights[k]]
  ELSE [baseline EXCEPT !.tasks = @ + 1]

Recorded(s, r) ==
  LET d == r.dimensions
      b == IF d \in DOMAIN s.buckets THEN s.buckets[d] ELSE NoRuns
  IN  [weights |-> s.weights,
       buckets |-> Put(s.buckets, d, CountRun(b, r, s.weights)),
       baseline |-> CountTask(s.baseline, r, s.weights)]

-------------------------------------------------------------------------------
(* The report *)

Measured(s) == SumFunction([d \in DOMAIN s.buckets |-> s.buckets[d].cost])
Unweighted(s) == SumFunction([d \in DOMAIN s.buckets |-> s.buckets[d].unweighted])

\* Some baseline evidence is enough (seeded fault).
PartialReasonCode(s) ==
  IF s.baseline.tasks = 0 THEN "no_tasks"
  ELSE IF Unweighted(s) > 0 THEN "unweighted_runs"
  ELSE IF s.baseline.total = 0 THEN "missing_baseline_weight"
  ELSE "computed"

SavingsReasonCode(s) ==
  IF s.baseline.tasks = 0 THEN "no_tasks"
  ELSE IF Unweighted(s) > 0 THEN "unweighted_runs"
  ELSE IF s.baseline.counted # s.baseline.tasks \/ s.baseline.total = 0
  THEN "missing_baseline_weight"
  ELSE "computed"

Savings(s) == s.baseline.total - Measured(s)

\* Baseline evidence is complete once there is any (seeded fault).
SomeEvidence(s) == s.baseline.counted > 0 \/ s.baseline.tasks = 0

EvidenceComplete(s) == s.baseline.counted = s.baseline.tasks

NextAction(s) ==
  LET baselineAgents == {a \in Agents : BaselineKey(a) \in DOMAIN s.weights} IN
  IF baselineAgents = {} THEN "configure_baseline_weight"
  ELSE IF \E d \in DOMAIN s.buckets : WeightKey(d) \notin DOMAIN s.weights
  THEN "configure_execution_weights"
  ELSE IF (\E d \in DOMAIN s.buckets : s.buckets[d].unweighted > 0) \/ ~EvidenceComplete(s)
  THEN "collect_new_weighted_tasks"
  ELSE IF s.baseline.tasks = 0 THEN "collect_usage"
  ELSE "review_metrics"

\* The totals over all buckets are counters too: a report whose totals leave the
\* range is refused.
Renders(s) == {SumFunction([d \in DOMAIN s.buckets |-> s.buckets[d].runs]), Measured(s)} \subseteq Counter

\* What `usage report` prints, as far as the properties look at it.
Report(s) ==
  [reason |-> SavingsReasonCode(s),
   savings |-> IF SavingsReasonCode(s) = "computed" THEN Savings(s) ELSE 0,
   next_action |-> NextAction(s)]

===============================================================================
