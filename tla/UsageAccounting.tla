---------------------------- MODULE UsageAccounting ----------------------------
(***************************************************************************)
(* The usage store under the operations of `usage enable`, `usage weight`  *)
(* and the recording of schema-3 runs, each atomic here (UsageStoreFile    *)
(* models how they become atomic).  `books` is what an auditor who sees    *)
(* every run would note down.                                              *)
(***************************************************************************)
EXTENDS UsageLedger

CONSTANTS MaxRuns,       \* bound on the runs recorded in a behaviour
          WeightValues,  \* the micros `usage weight` is called with
          RunsTried      \* the runs that are recorded

ASSUME UsageAccountingAssumption ==
  MaxRuns \in Nat /\ WeightValues \subseteq 1..MaxWeight /\ RunsTried \subseteq Runs

VARIABLES store,   \* the store's content, NoStore when there is none
          books    \* history: the auditor's totals

vars == <<store, books>>

NoStore == [weights |-> {}]
Enabled == store # NoStore

NoBooks == [runs |-> 0, spent |-> 0, unpriced |-> 0, tasks |-> 0, uncounted |-> 0,
            forgone |-> 0, retries |-> 0, promoted |-> FALSE]

\* A store an earlier build left behind: one bucket of n runs, priced or not.  It was
\* valid when it was written.
LegacyBucket(n, micros) ==
  [NoRuns EXCEPT !.runs = n, !.succeeded = n, !.weighted = IF micros > 0 THEN n ELSE 0,
                 !.unweighted = IF micros > 0 THEN 0 ELSE n, !.cost = n * micros,
                 !.lower = IF micros > 0 /\ micros < Scale THEN n ELSE 0,
                 !.statuses = [c \in ExitCodes |-> One(c = 0) * n]]

InitFresh == store = NoStore /\ books = NoBooks

InitLegacy ==
  \E d \in {r.dimensions : r \in RunsTried}, n \in 1..2, micros \in {0} \cup WeightValues :
    /\ store = Promoted([k \in IF micros > 0 THEN {WeightKey(d)} ELSE {} |-> micros],
                        [e \in {d} |-> LegacyBucket(n, micros)])
    /\ books = [NoBooks EXCEPT !.runs = n, !.spent = n * micros, !.tasks = n,
                               !.unpriced = IF micros > 0 THEN 0 ELSE n,
                               !.uncounted = n, !.promoted = TRUE]
    /\ ValidStore(store)

Init == InitFresh \/ InitLegacy

\* ensure_usage_store: creates the store, or validates the one there is.
EnsureUsageStore ==
  /\ ~Enabled
  /\ store' = EmptyStore
  /\ UNCHANGED books

\* The new content is written unchecked (seeded fault).
ReplaceUnchecked(s) == store' = s

\* _replace_store: an invalid new content leaves the old one in place.
Replace(s) == ValidStore(s) /\ store' = s

SetRelativeCostWeight(k, micros) ==
  /\ Enabled
  /\ Replace(WithWeight(store, k, micros))
  /\ UNCHANGED books

RecordUsage(r) ==
  LET priced == WeightKey(r.dimensions) \in DOMAIN store.weights
      counted == BaselineKey(r.source) \in DOMAIN store.weights
  IN
  /\ Enabled /\ books.runs < MaxRuns
  /\ Replace(Recorded(store, r))
  /\ books' =
       [books EXCEPT
          !.runs = @ + 1,
          !.retries = @ + One(r.rework),
          !.spent = @ + IF priced THEN store.weights[WeightKey(r.dimensions)] ELSE 0,
          !.unpriced = @ + One(~priced),
          !.tasks = @ + One(~r.rework),
          !.uncounted = @ + One(~r.rework /\ ~counted),
          !.forgone = @ + IF ~r.rework /\ counted THEN store.weights[BaselineKey(r.source)] ELSE 0]

Next ==
  \/ EnsureUsageStore
  \/ \E k \in {WeightKey(r.dimensions) : r \in RunsTried}, micros \in WeightValues : SetRelativeCostWeight(k, micros)
  \/ \E r \in RunsTried : RecordUsage(r)

Spec == Init /\ [][Next]_vars

-------------------------------------------------------------------------------
(* Properties *)

\* A run is refused only for a limit the README names: a full table, the store
\* size, or a counter at its end.  No sequence of accepted updates leads to a
\* store that refuses the next run for any other reason.
AtLimit(s, r) ==
  \/ /\ r.dimensions \notin DOMAIN s.buckets
     /\ \/ Cardinality(DOMAIN s.buckets) = MaxBuckets
        \/ Cardinality(DOMAIN s.buckets) + Cardinality(DOMAIN s.weights) = MaxEntries
  \/ r.dimensions \in DOMAIN s.buckets /\ s.buckets[r.dimensions].runs = MaxCounter
  \/ s.baseline.tasks = MaxCounter
  \/ \E k \in DOMAIN s.weights :
       \/ s.baseline.total + s.weights[k] > MaxCounter
       \/ \E d \in DOMAIN s.buckets : s.buckets[d].cost + s.weights[k] > MaxCounter
       \/ s.weights[k] > MaxCounter

RefusedOnlyAtLimit ==
  Enabled => \A r \in RunsTried : ~AtLimit(store, r) => ValidStore(Recorded(store, r))

\* A savings figure is shown only when every run had a weight and every first
\* attempt a baseline when it was recorded, and it is then exactly what the
\* tasks would have cost minus what all runs, retries included, did cost.
SavingsAreHonest ==
  Enabled /\ Renders(store) /\ Report(store).reason = "computed"
    => /\ books.unpriced = 0 /\ books.uncounted = 0 /\ books.tasks > 0
       /\ Report(store).savings = books.forgone - books.spent

\* A declared retry never makes the comparison look better: "a retry costs
\* extra without enlarging the baseline".
RetryNeverImproves ==
  [][Enabled /\ books'.retries > books.retries => Savings(store') <= Savings(store)]_vars

\* The closed next_action says "review_metrics" only when there is a figure to
\* review, and asks for new tasks only when old runs stand in the way.
GuidanceMatchesReport ==
  Enabled /\ Renders(store) =>
    /\ NextAction(store) = "review_metrics" => Report(store).reason = "computed"
    /\ NextAction(store) = "collect_new_weighted_tasks" => Report(store).reason # "computed"

\* What the README says of a store from an earlier build: it abstains until new
\* evidence accumulates.
NewEvidenceEndsAbstention ==
  /\ Enabled /\ books.promoted /\ Renders(store)
  /\ books.unpriced = 0 /\ store.baseline.counted > 0
  => Report(store).reason # "missing_baseline_weight"

===============================================================================
