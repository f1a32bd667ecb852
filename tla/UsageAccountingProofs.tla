------------------------- MODULE UsageAccountingProofs -------------------------
(***************************************************************************)
(* The books are exact: what the store holds and what its report says is   *)
(* what an auditor who saw every run would say, for all weights, runs,     *)
(* limits and numbers of runs.                                             *)
(***************************************************************************)
EXTENDS UsageAccounting, FiniteSetTheorems, WellFoundedInduction, TLAPS

-------------------------------------------------------------------------------
(* Sums over finite sets.  A recursive definition is a CHOOSE, so that there is  *)
(* a function it chooses has to be proved before anything about it can be.       *)

\* Induction over the subsets of a finite set: a smallest counterexample.
LEMMA Smallest ==
  ASSUME NEW D, IsFiniteSet(D), NEW T, T \subseteq SUBSET D, T # {}
  PROVE  \E x \in T : \A y \in T : y \subseteq x => y = x
<1>1. IsWellFoundedOn(StrictSubsetOrdering(D), SUBSET D)
  BY FS_FiniteSubsetsOfFinite, FS_StrictSubsetOrderingWellFounded
<1>2. PICK x \in T : \A y \in T : ~ (<<y, x>> \in StrictSubsetOrdering(D))
  BY <1>1, WFMin
<1> QED
  BY <1>2 DEF StrictSubsetOrdering

Chosen(s) == CHOOSE x \in s : TRUE

\* g holds the sums of f over all subsets of S.
Sums(f, S, g) ==
  g = [s \in SUBSET S |-> IF s = {} THEN 0 ELSE f[Chosen(s)] + g[s \ {Chosen(s)}]]

\* A sum depends on nothing but the values that are summed.
LEMMA SumsAgree ==
  ASSUME NEW S1, NEW S2, NEW f1, NEW f2, NEW g1, NEW g2, IsFiniteSet(S1),
         Sums(f1, S1, g1), Sums(f2, S2, g2),
         NEW s \in SUBSET (S1 \cap S2), \A x \in s : f1[x] = f2[x]
  PROVE  g1[s] = g2[s]
<1> DEFINE Bad == {t \in SUBSET s : g1[t] # g2[t]}
<1> SUFFICES ASSUME Bad # {} PROVE FALSE
  OBVIOUS
<1>1. IsFiniteSet(s) /\ Bad \subseteq SUBSET s
  BY FS_Subset
<1>2. PICK t \in Bad : \A u \in Bad : u \subseteq t => u = t
  <2> HIDE DEF Bad
  <2> QED BY <1>1, Smallest
<1>3. t # {}
  BY DEF Sums
<1>4. Chosen(t) \in t
  BY <1>3 DEF Chosen
<1>5. t \ {Chosen(t)} \notin Bad
  BY <1>2, <1>4
<1>6. g1[t \ {Chosen(t)}] = g2[t \ {Chosen(t)}]
  BY <1>5
<1>7. g1[t] = f1[Chosen(t)] + g1[t \ {Chosen(t)}] /\ g2[t] = f2[Chosen(t)] + g2[t \ {Chosen(t)}]
  BY <1>3 DEF Sums
<1> QED
  BY <1>4, <1>6, <1>7

\* There are sums: those of a set are put together from those of its subsets.
LEMMA SumsExist ==
  ASSUME NEW S, IsFiniteSet(S), NEW f
  PROVE  \E g : Sums(f, S, g)
<1> DEFINE Bad == {t \in SUBSET S : ~ \E g : Sums(f, t, g)}
<1> SUFFICES ASSUME Bad # {} PROVE FALSE
  OBVIOUS
<1>1. PICK t \in Bad : \A u \in Bad : u \subseteq t => u = t
  <2>1. Bad \subseteq SUBSET S
    OBVIOUS
  <2> HIDE DEF Bad
  <2> QED BY <2>1, Smallest
<1> DEFINE h(u) == CHOOSE g : Sums(f, u, g)
           g == [s \in SUBSET t |-> IF s = {} THEN 0
                                    ELSE f[Chosen(s)] + h(s \ {Chosen(s)})[s \ {Chosen(s)}]]
<1>2. \A u \in SUBSET t : u # t => Sums(f, u, h(u))
  BY <1>1
<1>3. ASSUME NEW s \in SUBSET t, s # {}
      PROVE  g[s \ {Chosen(s)}] = h(s \ {Chosen(s)})[s \ {Chosen(s)}]
  <2> DEFINE u == s \ {Chosen(s)}
             v == u \ {Chosen(u)}
  <2>1. Chosen(s) \in s /\ u \in SUBSET t /\ u # t
    BY <1>3 DEF Chosen
  <2>2. Sums(f, u, h(u))
    BY <1>2, <2>1
  <2>3. CASE u = {}
    <3>1. h(u)[u] = 0
      BY <2>2, <2>3 DEF Sums
    <3> QED
      BY <2>1, <2>3, <3>1
  <2>4. CASE u # {}
    <3>1. Chosen(u) \in u /\ v \in SUBSET t /\ v # t /\ v \in SUBSET u
      BY <2>1, <2>4 DEF Chosen
    <3>2. Sums(f, v, h(v))
      BY <1>2, <3>1
    <3>3. h(u)[v] = h(v)[v]
      <4>1. IsFiniteSet(u)
        BY <2>1, FS_Subset
      <4> HIDE DEF h, u, v
      <4> QED
        BY <2>2, <3>1, <3>2, <4>1, SumsAgree
    <3>4. h(u)[u] = f[Chosen(u)] + h(u)[v]
      BY <2>2, <2>4 DEF Sums
    <3>5. g[u] = f[Chosen(u)] + h(v)[v]
      BY <2>1, <2>4
    <3> QED
      BY <3>3, <3>4, <3>5
  <2> QED
    BY <2>3, <2>4
<1>4. Sums(f, t, g)
  <2> HIDE DEF h
  <2>1. g = [s \in SUBSET t |-> IF s = {} THEN 0 ELSE f[Chosen(s)] + g[s \ {Chosen(s)}]]
    BY <1>3
  <2> QED
    BY <2>1 DEF Sums
<1> QED
  BY <1>1, <1>4

LEMMA SumIsOfSums ==
  ASSUME NEW S, IsFiniteSet(S), NEW f
  PROVE  \E g : Sums(f, S, g) /\ SumFunctionOnSet(f, S) = g[S]
<1> DEFINE iter == CHOOSE g : g = [s \in SUBSET S |-> IF s = {} THEN 0
                                                      ELSE f[Chosen(s)] + g[s \ {Chosen(s)}]]
<1>1. Sums(f, S, iter)
  <2>1. PICK g : Sums(f, S, g)
    BY SumsExist
  <2>2. g = [s \in SUBSET S |-> IF s = {} THEN 0 ELSE f[Chosen(s)] + g[s \ {Chosen(s)}]]
    BY <2>1 DEF Sums
  <2>3. iter = [s \in SUBSET S |-> IF s = {} THEN 0 ELSE f[Chosen(s)] + iter[s \ {Chosen(s)}]]
    BY <2>2, Zenon
  <2> QED BY <2>3, Zenon DEF Sums
<1>2. SumFunctionOnSet(f, S) = iter[S]
  BY DEF SumFunctionOnSet, FoldFunctionOnSet, MapThenFoldSet, Chosen
<1> QED
  BY <1>1, <1>2

LEMMA SumSame ==
  ASSUME NEW S, IsFiniteSet(S), NEW f, NEW g, \A x \in S : f[x] = g[x]
  PROVE  SumFunctionOnSet(f, S) = SumFunctionOnSet(g, S)
BY SumIsOfSums, SumsAgree

LEMMA SumOfNothing == ASSUME NEW f PROVE SumFunctionOnSet(f, {}) = 0
BY SumIsOfSums, FS_EmptySet DEF Sums

LEMMA SumOfChosen ==
  ASSUME NEW S, IsFiniteSet(S), S # {}, NEW f
  PROVE  SumFunctionOnSet(f, S) = f[Chosen(S)] + SumFunctionOnSet(f, S \ {Chosen(S)})
<1> DEFINE T == S \ {Chosen(S)}
<1>1. IsFiniteSet(T) /\ T \in SUBSET (S \cap T)
  BY FS_Subset
<1>2. PICK g : Sums(f, S, g) /\ SumFunctionOnSet(f, S) = g[S]
  BY SumIsOfSums
<1>3. PICK h : Sums(f, T, h) /\ SumFunctionOnSet(f, T) = h[T]
  BY <1>1, SumIsOfSums
<1>4. g[T] = h[T]
  <2> HIDE DEF T
  <2> QED BY <1>1, <1>2, <1>3, SumsAgree
<1>5. g[S] = f[Chosen(S)] + g[T]
  BY <1>2 DEF Sums
<1> QED
  BY <1>2, <1>3, <1>4, <1>5

\* Sums of integers are integers, and any element may be taken out first.
LEMMA SumTakeOut ==
  ASSUME NEW S, IsFiniteSet(S), NEW f, \A x \in S : f[x] \in Int
  PROVE  /\ SumFunctionOnSet(f, S) \in Int
         /\ \A x \in S : SumFunctionOnSet(f, S) = f[x] + SumFunctionOnSet(f, S \ {x})
<1> DEFINE Sum(t) == SumFunctionOnSet(f, t)
<1>1. ASSUME NEW t \in SUBSET S PROVE IsFiniteSet(t)
  BY FS_Subset
<1>2. \A t \in SUBSET S : Sum(t) \in Int
  <2> DEFINE Bad == {t \in SUBSET S : Sum(t) \notin Int}
  <2> SUFFICES ASSUME Bad # {} PROVE FALSE
    OBVIOUS
  <2>1. PICK t \in Bad : \A u \in Bad : u \subseteq t => u = t
    <3>1. Bad \subseteq SUBSET S
      OBVIOUS
    <3> HIDE DEF Bad
    <3> QED BY <3>1, Smallest
  <2>2. t # {}
    <3>1. Sum({}) = 0
      BY SumOfNothing, Zenon
    <3>2. Sum(t) \notin Int
      BY <2>1
    <3> HIDE DEF Sum
    <3> QED BY <3>1, <3>2
  <2>3. Chosen(t) \in t /\ t \ {Chosen(t)} \notin Bad
    BY <2>1, <2>2 DEF Chosen
  <2>4. Sum(t) = f[Chosen(t)] + Sum(t \ {Chosen(t)})
    BY <1>1, <2>1, <2>2, SumOfChosen
  <2> QED
    BY <2>1, <2>3, <2>4
<1>3. \A t \in SUBSET S : \A x \in t : Sum(t) = f[x] + Sum(t \ {x})
  <2> DEFINE Bad == {t \in SUBSET S : \E x \in t : Sum(t) # f[x] + Sum(t \ {x})}
  <2> SUFFICES ASSUME Bad # {} PROVE FALSE
    OBVIOUS
  <2>1. PICK t \in Bad : \A u \in Bad : u \subseteq t => u = t
    <3>1. Bad \subseteq SUBSET S
      OBVIOUS
    <3> HIDE DEF Bad
    <3> QED BY <3>1, Smallest
  <2>2. PICK x \in t : Sum(t) # f[x] + Sum(t \ {x})
    BY <2>1
  <2> DEFINE c == Chosen(t)
  <2>3. c \in t /\ Sum(t) = f[c] + Sum(t \ {c})
    BY <1>1, <2>1, <2>2, SumOfChosen DEF Chosen
  <2>4. c # x
    BY <2>2, <2>3
  <2>5. t \ {c} \notin Bad /\ t \ {x} \notin Bad
    BY <2>1, <2>2, <2>3
  <2> DEFINE u == (t \ {c}) \ {x}
  <2>6. Sum(t \ {c}) = f[x] + Sum(u) /\ Sum(t \ {x}) = f[c] + Sum((t \ {x}) \ {c})
    BY <2>1, <2>2, <2>3, <2>4, <2>5
  <2>7. u = (t \ {x}) \ {c} /\ u \in SUBSET S
    BY <2>1
  <2>8. f[c] \in Int /\ f[x] \in Int /\ Sum(u) \in Int
    BY <1>2, <2>1, <2>2, <2>3, <2>7
  <2>9. Sum(t) # f[x] + Sum(t \ {x})
    BY <2>2
  <2> HIDE DEF c, Sum, u
  <2>10. Sum(t) = f[c] + (f[x] + Sum(u)) /\ Sum(t \ {x}) = f[c] + Sum(u)
    BY <2>3, <2>6, <2>7
  <2> QED
    BY <2>8, <2>9, <2>10
<1> QED
  BY <1>2, <1>3

\* No summand is larger than a sum of natural numbers.
LEMMA SumBound ==
  ASSUME NEW S, IsFiniteSet(S), NEW f, \A x \in S : f[x] \in Nat
  PROVE  /\ SumFunctionOnSet(f, S) \in Nat
         /\ \A x \in S : f[x] <= SumFunctionOnSet(f, S)
<1> DEFINE Sum(t) == SumFunctionOnSet(f, t)
<1>1. \A t \in SUBSET S : Sum(t) \in Nat
  <2> DEFINE Bad == {t \in SUBSET S : Sum(t) \notin Nat}
  <2> SUFFICES ASSUME Bad # {} PROVE FALSE
    OBVIOUS
  <2>1. PICK t \in Bad : \A u \in Bad : u \subseteq t => u = t
    <3>1. Bad \subseteq SUBSET S
      OBVIOUS
    <3> HIDE DEF Bad
    <3> QED BY <3>1, Smallest
  <2>2. t # {}
    <3>1. Sum({}) \in Nat
      BY SumOfNothing
    <3> QED BY <2>1, <3>1
  <2>3. Chosen(t) \in t /\ t \ {Chosen(t)} \notin Bad
    BY <2>1, <2>2 DEF Chosen
  <2>4. Sum(t) = f[Chosen(t)] + Sum(t \ {Chosen(t)})
    BY <2>1, <2>2, SumOfChosen, FS_Subset
  <2> QED
    BY <2>1, <2>3, <2>4
<1>2. ASSUME NEW x \in S PROVE f[x] <= Sum(S)
  <2>1. Sum(S) = f[x] + Sum(S \ {x})
    BY SumTakeOut
  <2>2. Sum(S \ {x}) \in Nat /\ f[x] \in Nat
    BY <1>1
  <2> HIDE DEF Sum
  <2> QED BY <2>1, <2>2
<1> QED
  BY <1>1, <1>2

\* A sum of zeros is zero.
LEMMA SumOfZeros ==
  ASSUME NEW S, IsFiniteSet(S), NEW f, \A x \in S : f[x] = 0
  PROVE  SumFunctionOnSet(f, S) = 0
<1> DEFINE Sum(t) == SumFunctionOnSet(f, t)
           Bad == {t \in SUBSET S : Sum(t) # 0}
<1> SUFFICES ASSUME Bad # {} PROVE FALSE
  OBVIOUS
<1>1. PICK t \in Bad : \A u \in Bad : u \subseteq t => u = t
  <2>1. Bad \subseteq SUBSET S
    OBVIOUS
  <2> HIDE DEF Bad
  <2> QED BY <2>1, Smallest
<1>2. t # {}
  BY <1>1, SumOfNothing
<1>3. Chosen(t) \in t /\ t \ {Chosen(t)} \notin Bad
  BY <1>1, <1>2 DEF Chosen
<1>4. Sum(t) = f[Chosen(t)] + Sum(t \ {Chosen(t)})
  BY <1>1, <1>2, SumOfChosen, FS_Subset
<1> QED
  BY <1>1, <1>3, <1>4

\* A function that differs at one point: the sum moves by the difference.
LEMMA SumUpdate ==
  ASSUME NEW D, IsFiniteSet(D), NEW x, NEW f, NEW g, DOMAIN f = D, DOMAIN g = D \cup {x},
         \A y \in D : f[y] \in Int, g[x] \in Int, \A y \in D : y # x => g[y] = f[y]
  PROVE  /\ SumFunction(f) \in Int
         /\ x \in D => SumFunction(g) = SumFunction(f) + (g[x] - f[x])
         /\ x \notin D => SumFunction(g) = SumFunction(f) + g[x]
<1> DEFINE E == D \cup {x}
           R == D \ {x}
<1>1. IsFiniteSet(E) /\ IsFiniteSet(R) /\ E \ {x} = R
  BY FS_AddElement, FS_RemoveElement
<1>2. SumFunction(f) = SumFunctionOnSet(f, D) /\ SumFunction(g) = SumFunctionOnSet(g, E)
  BY DEF SumFunction
<1>3. SumFunctionOnSet(f, R) = SumFunctionOnSet(g, R)
  <2> HIDE DEF E
  <2>1. \A y \in R : f[y] = g[y]
    OBVIOUS
  <2> HIDE DEF R
  <2> QED BY <1>1, <2>1, SumSame
<1>4. SumFunctionOnSet(g, E) = g[x] + SumFunctionOnSet(g, R)
  <2>1. \A y \in E : g[y] \in Int
    OBVIOUS
  <2>2. x \in E
    OBVIOUS
  <2> HIDE DEF E, R
  <2> QED BY <1>1, <2>1, <2>2, SumTakeOut
<1>5. /\ SumFunctionOnSet(f, R) \in Int /\ SumFunctionOnSet(f, D) \in Int
      /\ x \in D => SumFunctionOnSet(f, D) = f[x] + SumFunctionOnSet(f, R)
  <2>1. \A y \in R : f[y] \in Int
    OBVIOUS
  <2>2. SumFunctionOnSet(f, R) \in Int
    <3> HIDE DEF R
    <3> QED BY <1>1, <2>1, SumTakeOut
  <2> QED BY <2>2, SumTakeOut
<1>6. x \notin D => R = D
  OBVIOUS
<1>7. x \in D => f[x] \in Int
  OBVIOUS
<1> HIDE DEF E, R
<1> QED
  BY <1>2, <1>3, <1>4, <1>5, <1>6, <1>7

-------------------------------------------------------------------------------
(* The content of the store *)

Baselines == [tasks : Nat, counted : Nat, total : Nat]

Counts == {"runs", "succeeded", "failed", "weighted", "unweighted", "lower", "cost",
           "reworks", "escalations"}

Bucket(b) ==
  /\ DOMAIN b = Counts \cup {"statuses"} /\ b = [x \in DOMAIN b |-> b[x]]
  /\ \A x \in Counts : b[x] \in Nat
  /\ b.statuses \in [ExitCodes -> Nat]

Typed(s) ==
  /\ s = [weights |-> s.weights, buckets |-> s.buckets, baseline |-> s.baseline]
  /\ IsFiniteSet(DOMAIN s.weights) /\ s.weights \in [DOMAIN s.weights -> Nat]
  /\ IsFiniteSet(DOMAIN s.buckets) /\ s.buckets = [d \in DOMAIN s.buckets |-> s.buckets[d]]
  /\ \A d \in DOMAIN s.buckets : Bucket(s.buckets[d])
  /\ s.baseline \in Baselines

\* What one run costs, and what it adds to the counters of its bucket.
Price(s, r) == IF WeightKey(r.dimensions) \in DOMAIN s.weights THEN s.weights[WeightKey(r.dimensions)] ELSE 0
Weighted(s, r) == One(WeightKey(r.dimensions) \in DOMAIN s.weights)
Unpriced(s, r) == One(WeightKey(r.dimensions) \notin DOMAIN s.weights)
Lower(s, r) == One(/\ WeightKey(r.dimensions) \in DOMAIN s.weights
                   /\ s.weights[WeightKey(r.dimensions)] < Scale)
Success(r) == One(r.status = 0)
Failure(r) == One(r.status # 0)
Rework(r) == One(r.rework)
FirstAttempt(r) == One(~r.rework)
Escalation(r) == One(r.escalation)
OneMore(statuses, c) == [statuses EXCEPT ![c] = @ + 1]
BucketOf(s, r) == IF r.dimensions \in DOMAIN s.buckets THEN s.buckets[r.dimensions] ELSE NoRuns

LEMMA OnesAreSmall ==
  ASSUME NEW s, NEW r
  PROVE  /\ Weighted(s, r) \in 0..1 /\ Unpriced(s, r) = 1 - Weighted(s, r)
         /\ Lower(s, r) \in 0..Weighted(s, r)
         /\ Success(r) \in 0..1 /\ Failure(r) = 1 - Success(r)
         /\ Rework(r) \in 0..1 /\ FirstAttempt(r) = 1 - Rework(r)
         /\ Escalation(r) \in 0..1
BY DEF One, Weighted, Unpriced, Lower, Success, Failure, Rework, FirstAttempt, Escalation

LEMMA BucketTyped ==
  ASSUME NEW s, Typed(s), NEW r \in Runs
  PROVE  Bucket(BucketOf(s, r)) /\ Price(s, r) \in Nat
<1>1. Bucket(NoRuns)
  BY DEF NoRuns, Bucket, Counts
<1> QED
  BY <1>1 DEF BucketOf, Price, Typed

\* What recording a run does to its bucket, field by field.
LEMMA CountRunIs ==
  ASSUME NEW s, Typed(s), NEW r \in Runs, NEW b, Bucket(b), NEW c,
         c = CountRun(b, r, s.weights)
  PROVE  /\ Bucket(c)
         /\ c.runs = b.runs + 1
         /\ c.succeeded = b.succeeded + Success(r)
         /\ c.failed = b.failed + Failure(r)
         /\ c.reworks = b.reworks + Rework(r)
         /\ c.escalations = b.escalations + Escalation(r)
         /\ c.cost = b.cost + Price(s, r)
         /\ c.weighted = b.weighted + Weighted(s, r)
         /\ c.unweighted = b.unweighted + Unpriced(s, r)
         /\ c.lower = b.lower + Lower(s, r)
         /\ c.statuses = OneMore(b.statuses, r.status)
<1> DEFINE k == WeightKey(r.dimensions)
           b1 == [b EXCEPT !.runs = @ + 1, !.reworks = @ + One(r.rework),
                           !.escalations = @ + One(r.escalation)]
           b2 == CountVerdict(b1, r)
           Form(x) == DOMAIN x = Counts \cup {"statuses"} /\ x = [y \in DOMAIN x |-> x[y]]
<1>1. Form(b) /\ b.statuses \in [ExitCodes -> Nat]
      /\ b.runs \in Nat /\ b.succeeded \in Nat /\ b.failed \in Nat /\ b.weighted \in Nat
      /\ b.unweighted \in Nat /\ b.lower \in Nat /\ b.cost \in Nat /\ b.reworks \in Nat
      /\ b.escalations \in Nat
  BY DEF Bucket, Counts
<1>2. /\ Form(b1)
      /\ b1.runs = b.runs + 1 /\ b1.reworks = b.reworks + Rework(r)
      /\ b1.escalations = b.escalations + Escalation(r)
      /\ b1.succeeded = b.succeeded /\ b1.failed = b.failed /\ b1.weighted = b.weighted
      /\ b1.unweighted = b.unweighted /\ b1.lower = b.lower /\ b1.cost = b.cost
      /\ b1.statuses = b.statuses
  BY <1>1 DEF Counts, Rework, Escalation
<1> HIDE DEF b1
<1>3. /\ Form(b2)
      /\ b2.succeeded = b1.succeeded + Success(r)
      /\ b2.failed = b1.failed + Failure(r)
      /\ b2.statuses = OneMore(b1.statuses, r.status)
      /\ b2.runs = b1.runs /\ b2.reworks = b1.reworks /\ b2.escalations = b1.escalations
      /\ b2.weighted = b1.weighted /\ b2.unweighted = b1.unweighted /\ b2.lower = b1.lower
      /\ b2.cost = b1.cost
  BY <1>2 DEF Counts, CountVerdict, Success, Failure, OneMore
<1> HIDE DEF b2
<1>4. c = CountCost(b2, r, s.weights)
  BY DEF CountRun, b1, b2
<1>5. /\ Form(c)
      /\ c.succeeded = b2.succeeded /\ c.failed = b2.failed /\ c.statuses = b2.statuses
      /\ c.runs = b2.runs /\ c.reworks = b2.reworks /\ c.escalations = b2.escalations
  BY <1>3, <1>4 DEF Counts, CountCost
<1>6. /\ c.cost = b2.cost + Price(s, r)
      /\ c.weighted = b2.weighted + Weighted(s, r)
      /\ c.unweighted = b2.unweighted + Unpriced(s, r)
      /\ c.lower = b2.lower + Lower(s, r)
  <2>1. /\ b2.cost \in Nat /\ b2.weighted \in Nat /\ b2.unweighted \in Nat /\ b2.lower \in Nat
        /\ b2.cost + 0 = b2.cost /\ b2.weighted + 0 = b2.weighted
        /\ b2.unweighted + 0 = b2.unweighted /\ b2.lower + 0 = b2.lower
    BY <1>1, <1>2, <1>3
  <2>2. CASE k \in DOMAIN s.weights
    <3>1. c = [b2 EXCEPT !.weighted = @ + 1, !.cost = @ + s.weights[k], !.lower = @ + One(s.weights[k] < Scale)]
      BY <1>4, <2>2 DEF CountCost
    <3>2. c.weighted = b2.weighted + 1 /\ c.cost = b2.cost + s.weights[k]
          /\ c.lower = b2.lower + One(s.weights[k] < Scale) /\ c.unweighted = b2.unweighted
      BY <1>3, <3>1 DEF Counts
    <3> QED
      BY <2>1, <2>2, <3>2 DEF One, Price, Weighted, Unpriced, Lower
  <2>3. CASE k \notin DOMAIN s.weights
    <3>1. c = [b2 EXCEPT !.unweighted = @ + 1]
      BY <1>4, <2>3 DEF CountCost
    <3>2. c.weighted = b2.weighted /\ c.cost = b2.cost
          /\ c.lower = b2.lower /\ c.unweighted = b2.unweighted + 1
      BY <1>3, <3>1 DEF Counts
    <3> QED
      BY <2>1, <2>3, <3>2 DEF One, Price, Weighted, Unpriced, Lower
  <2> QED
    BY <2>2, <2>3
<1>7. Bucket(c)
  <2>1. /\ Weighted(s, r) \in Nat /\ Unpriced(s, r) \in Nat /\ Lower(s, r) \in Nat
        /\ Price(s, r) \in Nat /\ Success(r) \in Nat /\ Failure(r) \in Nat /\ Rework(r) \in Nat
        /\ Escalation(r) \in Nat /\ r.status \in ExitCodes
    BY OnesAreSmall, BucketTyped DEF Runs
  <2>2. /\ c.runs \in Nat /\ c.succeeded \in Nat /\ c.failed \in Nat /\ c.reworks \in Nat
        /\ c.escalations \in Nat
    BY <1>1, <1>2, <1>3, <1>5, <2>1
  <2>3. c.weighted \in Nat /\ c.unweighted \in Nat /\ c.lower \in Nat /\ c.cost \in Nat
    BY <1>1, <1>2, <1>3, <1>6, <2>1
  <2>4. c.statuses \in [ExitCodes -> Nat]
    <3>1. c.statuses = [b.statuses EXCEPT ![r.status] = @ + 1]
      BY <1>2, <1>3, <1>5 DEF OneMore
    <3> HIDE DEF Form, k
    <3> QED BY <1>1, <2>1, <3>1
  <2> QED
    BY <1>5, <2>2, <2>3, <2>4 DEF Bucket, Counts
<1> QED
  BY <1>2, <1>3, <1>5, <1>6, <1>7

\* Recording a run changes the bucket of its dimensions and the baseline.
LEMMA RecordedIs ==
  ASSUME NEW s, Typed(s), NEW r \in Runs, NEW t, t = Recorded(s, r)
  PROVE  /\ Typed(t)
         /\ t.weights = s.weights
         /\ DOMAIN t.buckets = DOMAIN s.buckets \cup {r.dimensions}
         /\ t.buckets[r.dimensions] = CountRun(BucketOf(s, r), r, s.weights)
         /\ \A d \in DOMAIN s.buckets \ {r.dimensions} : t.buckets[d] = s.buckets[d]
         /\ t.baseline = CountTask(s.baseline, r, s.weights)
<1> DEFINE b == BucketOf(s, r)
           c == CountRun(b, r, s.weights)
<1>1. Bucket(b) /\ Bucket(c)
  BY BucketTyped, CountRunIs
<1>2. t = [weights |-> s.weights, buckets |-> Put(s.buckets, r.dimensions, c),
           baseline |-> CountTask(s.baseline, r, s.weights)]
  BY DEF Recorded, BucketOf
<1> HIDE DEF c, b
<1>3. /\ DOMAIN t.buckets = DOMAIN s.buckets \cup {r.dimensions}
      /\ t.buckets = [d \in DOMAIN t.buckets |-> t.buckets[d]]
      /\ t.buckets[r.dimensions] = c
      /\ \A d \in DOMAIN s.buckets \ {r.dimensions} : t.buckets[d] = s.buckets[d]
  BY <1>2 DEF Put
<1>4. IsFiniteSet(DOMAIN t.buckets)
  BY <1>3, FS_AddElement DEF Typed
<1>5. \A d \in DOMAIN t.buckets : Bucket(t.buckets[d])
  BY <1>1, <1>3 DEF Typed
<1>6. CountTask(s.baseline, r, s.weights) \in Baselines
  <2> DEFINE k == BaselineKey(r.source)
  <2>1. s.baseline.tasks \in Nat /\ s.baseline.counted \in Nat /\ s.baseline.total \in Nat
    BY DEF Typed, Baselines
  <2>2. k \in DOMAIN s.weights => s.weights[k] \in Nat
    BY DEF Typed
  <2>3. s.baseline \in Baselines
    BY DEF Typed
  <2> HIDE DEF k
  <2>4. CASE r.rework
    BY <2>3, <2>4 DEF CountTask
  <2>5. CASE ~r.rework /\ k \in DOMAIN s.weights
    BY <2>1, <2>2, <2>5 DEF CountTask, Baselines, k
  <2>6. CASE ~r.rework /\ k \notin DOMAIN s.weights
    BY <2>1, <2>3, <2>6 DEF CountTask, Baselines, k
  <2> QED BY <2>4, <2>5, <2>6
<1>7. t = [weights |-> t.weights, buckets |-> t.buckets, baseline |-> t.baseline]
      /\ t.weights = s.weights /\ t.baseline = CountTask(s.baseline, r, s.weights)
  BY <1>2
<1>8. Typed(t)
  <2>1. IsFiniteSet(DOMAIN t.weights) /\ t.weights \in [DOMAIN t.weights -> Nat]
    BY <1>7 DEF Typed
  <2> QED BY <1>3, <1>4, <1>5, <1>6, <1>7, <2>1 DEF Typed
<1> QED
  BY <1>3, <1>7, <1>8 DEF c, b

\* The sums move by what the run adds to its bucket.
LEMMA RecordedSums ==
  ASSUME NEW s, Typed(s), NEW r \in Runs, NEW t, t = Recorded(s, r)
  PROVE  /\ Measured(s) \in Int /\ Unweighted(s) \in Int /\ RecordedTasks(s.buckets) \in Int
         /\ Measured(t) = Measured(s) + Price(s, r)
         /\ Unweighted(t) = Unweighted(s) + Unpriced(s, r)
         /\ RecordedTasks(t.buckets) = RecordedTasks(s.buckets) + FirstAttempt(r)
<1> DEFINE d == r.dimensions
           D == DOMAIN s.buckets
           b == BucketOf(s, r)
           c == t.buckets[d]
<1>1. /\ DOMAIN t.buckets = D \cup {d}
      /\ c = CountRun(b, r, s.weights)
      /\ \A e \in D \ {d} : t.buckets[e] = s.buckets[e]
      /\ Typed(t)
  BY RecordedIs
<1>2. IsFiniteSet(D) /\ (\A e \in D : Bucket(s.buckets[e])) /\ \A e \in D \cup {d} : Bucket(t.buckets[e])
  BY <1>1 DEF Typed
<1>3. Bucket(b) /\ Bucket(c) /\ (d \in D => b = s.buckets[d]) /\ (d \notin D => b = NoRuns)
  BY <1>1, <1>2, BucketTyped DEF BucketOf
<1> HIDE DEF D, b, c
<1>4. /\ c.runs = b.runs + 1 /\ c.reworks = b.reworks + Rework(r)
      /\ c.cost = b.cost + Price(s, r)
      /\ c.unweighted = b.unweighted + Unpriced(s, r)
  <2>1. Bucket(b) /\ c = CountRun(b, r, s.weights)
    BY <1>1, <1>3, Zenon
  <2> HIDE DEF d
  <2> QED BY <2>1, CountRunIs
<1>5. /\ b.cost \in Nat /\ b.unweighted \in Nat /\ b.runs \in Nat /\ b.reworks \in Nat
      /\ c.cost \in Nat /\ c.unweighted \in Nat /\ c.runs \in Nat /\ c.reworks \in Nat
      /\ \A e \in D : /\ s.buckets[e].cost \in Nat /\ s.buckets[e].unweighted \in Nat
                      /\ s.buckets[e].runs \in Nat /\ s.buckets[e].reworks \in Nat
  <2>1. ASSUME NEW x, Bucket(x)
        PROVE  x.cost \in Nat /\ x.unweighted \in Nat /\ x.runs \in Nat /\ x.reworks \in Nat
    BY <2>1 DEF Bucket, Counts
  <2> HIDE DEF c, b, D
  <2> QED BY <1>2, <1>3, <2>1
<1>6. d \notin D => b.cost = 0 /\ b.unweighted = 0 /\ b.runs = 0 /\ b.reworks = 0
  BY <1>3 DEF NoRuns
<1>7. /\ Rework(r) \in 0..1 /\ FirstAttempt(r) = 1 - Rework(r) /\ Price(s, r) \in Nat
      /\ Unpriced(s, r) \in 0..1
  BY BucketTyped, OnesAreSmall
<1> HIDE DEF d, D, b, c
<1>8. Measured(s) \in Int /\ Measured(t) = Measured(s) + Price(s, r)
  <2> DEFINE f == [e \in D |-> s.buckets[e].cost]
             g == [e \in D \cup {d} |-> t.buckets[e].cost]
  <2>1. DOMAIN f = D /\ DOMAIN g = D \cup {d} /\ (\A e \in D : f[e] \in Int) /\ g[d] \in Int
        /\ (\A e \in D : e # d => g[e] = f[e])
        /\ g[d] = c.cost /\ (d \in D => f[d] = b.cost)
    BY <1>1, <1>3, <1>5 DEF c
  <2>2. Measured(s) = SumFunction(f) /\ Measured(t) = SumFunction(g)
    BY <1>1 DEF Measured, D
  <2> HIDE DEF f, g
  <2>3. /\ SumFunction(f) \in Int
        /\ d \in D => SumFunction(g) = SumFunction(f) + (g[d] - f[d])
        /\ d \notin D => SumFunction(g) = SumFunction(f) + g[d]
    <3>1. IsFiniteSet(D)
      BY <1>2
    <3> QED BY <2>1, <3>1, SumUpdate
  <2>4. c.cost = b.cost + Price(s, r) /\ b.cost \in Int /\ c.cost \in Int /\ Price(s, r) \in Int
    BY <1>4, <1>5, <1>7
  <2>5. d \notin D => b.cost = 0
    BY <1>5, <1>6
  <2>6. g[d] = c.cost /\ (d \in D => f[d] = b.cost)
    BY <2>1
  <2>7. CASE d \in D
    BY <2>2, <2>3, <2>4, <2>6, <2>7
  <2>8. CASE d \notin D
    BY <2>2, <2>3, <2>4, <2>5, <2>6, <2>8
  <2> QED BY <2>7, <2>8
<1>9. Unweighted(s) \in Int /\ Unweighted(t) = Unweighted(s) + Unpriced(s, r)
  <2> DEFINE f == [e \in D |-> s.buckets[e].unweighted]
             g == [e \in D \cup {d} |-> t.buckets[e].unweighted]
  <2>1. DOMAIN f = D /\ DOMAIN g = D \cup {d} /\ (\A e \in D : f[e] \in Int) /\ g[d] \in Int
        /\ (\A e \in D : e # d => g[e] = f[e])
        /\ g[d] = c.unweighted /\ (d \in D => f[d] = b.unweighted)
    BY <1>1, <1>3, <1>5 DEF c
  <2>2. Unweighted(s) = SumFunction(f) /\ Unweighted(t) = SumFunction(g)
    BY <1>1 DEF Unweighted, D
  <2> HIDE DEF f, g
  <2>3. /\ SumFunction(f) \in Int
        /\ d \in D => SumFunction(g) = SumFunction(f) + (g[d] - f[d])
        /\ d \notin D => SumFunction(g) = SumFunction(f) + g[d]
    <3>1. IsFiniteSet(D)
      BY <1>2
    <3> QED BY <2>1, <3>1, SumUpdate
  <2>4. c.unweighted = b.unweighted + Unpriced(s, r) /\ b.unweighted \in Int /\ c.unweighted \in Int /\ Unpriced(s, r) \in Int
    BY <1>4, <1>5, <1>7
  <2>5. d \notin D => b.unweighted = 0
    BY <1>5, <1>6
  <2>6. g[d] = c.unweighted /\ (d \in D => f[d] = b.unweighted)
    BY <2>1
  <2>7. CASE d \in D
    BY <2>2, <2>3, <2>4, <2>6, <2>7
  <2>8. CASE d \notin D
    BY <2>2, <2>3, <2>4, <2>5, <2>6, <2>8
  <2> QED BY <2>7, <2>8
<1>10. RecordedTasks(s.buckets) \in Int /\ RecordedTasks(t.buckets) = RecordedTasks(s.buckets) + FirstAttempt(r)
  <2> DEFINE f == [e \in D |-> s.buckets[e].runs - s.buckets[e].reworks]
             g == [e \in D \cup {d} |-> t.buckets[e].runs - t.buckets[e].reworks]
  <2>1. DOMAIN f = D /\ DOMAIN g = D \cup {d} /\ (\A e \in D : f[e] \in Int) /\ g[d] \in Int
        /\ (\A e \in D : e # d => g[e] = f[e])
        /\ g[d] = c.runs - c.reworks /\ (d \in D => f[d] = b.runs - b.reworks)
    BY <1>1, <1>3, <1>5 DEF c
  <2>2. RecordedTasks(s.buckets) = SumFunction(f) /\ RecordedTasks(t.buckets) = SumFunction(g)
    BY <1>1 DEF RecordedTasks, D
  <2> HIDE DEF f, g
  <2>3. /\ SumFunction(f) \in Int
        /\ d \in D => SumFunction(g) = SumFunction(f) + (g[d] - f[d])
        /\ d \notin D => SumFunction(g) = SumFunction(f) + g[d]
    <3>1. IsFiniteSet(D)
      BY <1>2
    <3> DEFINE p == c.runs - c.reworks
               q == b.runs - b.reworks
    <3>2. /\ DOMAIN f = D /\ DOMAIN g = D \cup {d} /\ (\A e \in D : f[e] \in Int) /\ g[d] \in Int
          /\ (\A e \in D : e # d => g[e] = f[e])
          /\ g[d] = p /\ (d \in D => f[d] = q)
      BY <2>1
    <3> HIDE DEF p, q
    <3> QED BY <3>1, <3>2, SumUpdate
  <2>4. (c.runs - c.reworks) = (b.runs - b.reworks) + FirstAttempt(r) /\ (b.runs - b.reworks) \in Int /\ (c.runs - c.reworks) \in Int /\ FirstAttempt(r) \in Int
    BY <1>4, <1>5, <1>7
  <2>5. d \notin D => (b.runs - b.reworks) = 0
    BY <1>5, <1>6
  <2>6. g[d] = (c.runs - c.reworks) /\ (d \in D => f[d] = (b.runs - b.reworks))
    BY <2>1
  <2>7. CASE d \in D
    BY <2>2, <2>3, <2>4, <2>6, <2>7
  <2>8. CASE d \notin D
    BY <2>2, <2>3, <2>4, <2>5, <2>6, <2>8
  <2> QED BY <2>7, <2>8
<1> QED
  BY <1>8, <1>9, <1>10 DEF d

-------------------------------------------------------------------------------
(* A run that meets no limit leaves a valid store *)

LEMMA Bounds == {MaxCounter, MaxBuckets, MaxWeights, MaxEntries, Scale, MaxWeight} \subseteq Nat
BY UsageLedgerAssumption

LEMMA OneMoreUnit == \A x, y \in Nat : (x + 1) * y = x * y + y
OBVIOUS

\* Pricing keeps an average cost possible: one more unit count, one more weight.
LEMMA FeasibleAdds ==
  ASSUME NEW total \in Nat, NEW count \in Nat, Feasible(total, count), NEW w \in 1..MaxWeight
  PROVE  Feasible(total + w, count + 1)
<1>1. count * MaxWeight \in Nat /\ MaxWeight \in Nat
  BY Bounds
<1>2. (count + 1) * MaxWeight = count * MaxWeight + MaxWeight
  BY <1>1, OneMoreUnit
<1>3. count <= total /\ total <= count * MaxWeight
  BY DEF Feasible
<1>4. count + 1 <= total + w
  BY <1>3
<1>5. total + w <= count * MaxWeight + MaxWeight
  BY <1>1, <1>3
<1> QED
  BY <1>2, <1>4, <1>5 DEF Feasible

LEMMA NoRunsValid == ValidBucket(NoRuns)
<1>1. SumFunction(NoRuns.statuses) = 0
  <2>1. SumFunction(NoRuns.statuses) = SumFunctionOnSet(NoRuns.statuses, ExitCodes)
    BY DEF NoRuns, SumFunction
  <2>2. \A c \in ExitCodes : NoRuns.statuses[c] = 0
    BY DEF NoRuns
  <2> QED BY <2>1, <2>2, SumOfZeros, UsageLedgerAssumption
<1>2. 0 * MaxWeight = 0
  BY Bounds
<1>3. 0 \in Counter
  BY Bounds DEF Counter
<1>4. /\ NoRuns.runs = 0 /\ NoRuns.succeeded = 0 /\ NoRuns.failed = 0 /\ NoRuns.weighted = 0
      /\ NoRuns.unweighted = 0 /\ NoRuns.lower = 0 /\ NoRuns.cost = 0 /\ NoRuns.reworks = 0
      /\ NoRuns.escalations = 0 /\ \A c \in ExitCodes : NoRuns.statuses[c] = 0
  BY DEF NoRuns
<1> QED
  BY <1>1, <1>2, <1>3, <1>4 DEF ValidBucket, Feasible

LEMMA CountRunValid ==
  ASSUME NEW s, Typed(s), NEW r \in Runs, NEW b, Bucket(b), ValidBucket(b), NEW c,
         c = CountRun(b, r, s.weights),
         b.runs < MaxCounter, b.cost + Price(s, r) <= MaxCounter,
         Weighted(s, r) = 1 => Price(s, r) \in 1..MaxWeight,
         Weighted(s, r) = 0 => Price(s, r) = 0
  PROVE  ValidBucket(c)
<1>1. /\ Bucket(c)
      /\ c.runs = b.runs + 1
      /\ c.succeeded = b.succeeded + Success(r)
      /\ c.failed = b.failed + Failure(r)
      /\ c.reworks = b.reworks + Rework(r)
      /\ c.escalations = b.escalations + Escalation(r)
      /\ c.cost = b.cost + Price(s, r)
      /\ c.weighted = b.weighted + Weighted(s, r)
      /\ c.unweighted = b.unweighted + Unpriced(s, r)
      /\ c.lower = b.lower + Lower(s, r)
      /\ c.statuses = OneMore(b.statuses, r.status)
  BY CountRunIs
<1>2. /\ Weighted(s, r) \in 0..1 /\ Unpriced(s, r) = 1 - Weighted(s, r)
      /\ Lower(s, r) \in 0..Weighted(s, r)
      /\ Success(r) \in 0..1 /\ Failure(r) = 1 - Success(r)
      /\ Rework(r) \in 0..1 /\ Escalation(r) \in 0..1
  BY OnesAreSmall
<1>3. /\ b.runs \in Nat /\ b.succeeded \in Nat /\ b.failed \in Nat /\ b.weighted \in Nat
      /\ b.unweighted \in Nat /\ b.lower \in Nat /\ b.cost \in Nat /\ b.reworks \in Nat
      /\ b.escalations \in Nat /\ b.statuses \in [ExitCodes -> Nat]
  BY DEF Bucket, Counts
<1>4. /\ b.succeeded + b.failed = b.runs /\ b.weighted + b.unweighted = b.runs
      /\ b.lower <= b.weighted /\ b.reworks <= b.runs /\ b.escalations <= b.runs
      /\ Feasible(b.cost, b.weighted) /\ SumFunction(b.statuses) = b.runs
  BY DEF ValidBucket
<1>5. /\ c.succeeded + c.failed = c.runs /\ c.weighted + c.unweighted = c.runs
      /\ c.lower <= c.weighted /\ c.reworks <= c.runs /\ c.escalations <= c.runs
  BY <1>1, <1>2, <1>3, <1>4
<1>6. Feasible(c.cost, c.weighted)
  <2>1. CASE Weighted(s, r) = 1
    BY <1>1, <1>3, <1>4, <2>1, FeasibleAdds
  <2>2. CASE Weighted(s, r) = 0
    <3>1. c.cost = b.cost /\ c.weighted = b.weighted
      BY <1>1, <1>3, <2>2
    <3> QED BY <1>4, <3>1
  <2> QED BY <1>2, <2>1, <2>2
<1>7. SumFunction(c.statuses) = c.runs
  <2>1. r.status \in ExitCodes
    BY DEF Runs
  <2>2. /\ DOMAIN b.statuses = ExitCodes /\ DOMAIN c.statuses = ExitCodes \cup {r.status}
        /\ c.statuses[r.status] = b.statuses[r.status] + 1
        /\ \A y \in ExitCodes : b.statuses[y] \in Int
        /\ \A y \in ExitCodes : y # r.status => c.statuses[y] = b.statuses[y]
    BY <1>1, <1>3, <2>1 DEF OneMore
  <2> DEFINE f == b.statuses
             g == c.statuses
             x == r.status
             p == g[x]
             q == f[x]
  <2>3. /\ DOMAIN f = ExitCodes /\ DOMAIN g = ExitCodes \cup {x} /\ x \in ExitCodes
        /\ (\A y \in ExitCodes : f[y] \in Int) /\ g[x] \in Int
        /\ (\A y \in ExitCodes : y # x => g[y] = f[y])
        /\ g[x] = p /\ (x \in ExitCodes => f[x] = q)
    BY <2>1, <2>2
  <2>3a. p - q = 1
    BY <2>1, <2>2
  <2>4. SumFunction(f) = b.runs /\ b.runs \in Int
    BY <1>3, <1>4
  <2> HIDE DEF f, g, x, p, q
  <2>5. SumFunction(g) = SumFunction(f) + (p - q)
    <3>1. IsFiniteSet(ExitCodes)
      BY UsageLedgerAssumption
    <3> QED BY <2>3, <3>1, SumUpdate
  <2>6. SumFunction(g) = b.runs + 1
    BY <2>3a, <2>4, <2>5
  <2> QED BY <1>1, <2>6 DEF g
<1>8. /\ c.runs \in Nat /\ c.succeeded \in Nat /\ c.failed \in Nat /\ c.weighted \in Nat
      /\ c.unweighted \in Nat /\ c.lower \in Nat /\ c.cost \in Nat /\ c.reworks \in Nat
      /\ c.escalations \in Nat /\ c.statuses \in [ExitCodes -> Nat]
  BY <1>1 DEF Bucket, Counts
<1>9. \A y \in ExitCodes : c.statuses[y] <= c.runs
  <2>1. SumFunction(c.statuses) = SumFunctionOnSet(c.statuses, ExitCodes)
    BY <1>8 DEF SumFunction
  <2>2. \A y \in ExitCodes : c.statuses[y] \in Nat
    BY <1>8
  <2> QED BY <1>7, <2>1, <2>2, SumBound, UsageLedgerAssumption
<1>10. c.runs <= MaxCounter /\ c.cost <= MaxCounter /\ MaxCounter \in Nat
  BY <1>1, <1>3, Bounds
<1>11. {c.runs, c.succeeded, c.failed, c.weighted, c.unweighted, c.lower, c.cost,
        c.reworks, c.escalations} \subseteq Counter
  <2>1. /\ c.succeeded <= MaxCounter /\ c.failed <= MaxCounter /\ c.weighted <= MaxCounter
        /\ c.unweighted <= MaxCounter /\ c.lower <= MaxCounter /\ c.reworks <= MaxCounter
        /\ c.escalations <= MaxCounter
    BY <1>5, <1>8, <1>10
  <2> QED BY <1>8, <1>10, <2>1 DEF Counter
<1>12. \A y \in ExitCodes : c.statuses[y] \in Counter
  BY <1>8, <1>9, <1>10 DEF Counter
<1> QED
  BY <1>5, <1>6, <1>7, <1>11, <1>12 DEF ValidBucket

\* No sequence of accepted updates leads to a store that refuses the next run for
\* anything but a limit: a valid store below its limits takes every run.
LEMMA RecordedValid ==
  ASSUME NEW s, Typed(s), ValidStore(s), NEW r \in Runs, ~AtLimit(s, r)
  PROVE  ValidStore(Recorded(s, r))
<1> DEFINE t == Recorded(s, r)
           d == r.dimensions
           D == DOMAIN s.buckets
           b == BucketOf(s, r)
           k == WeightKey(d)
           m == BaselineKey(r.source)
<1>1. /\ Typed(t) /\ t.weights = s.weights
      /\ DOMAIN t.buckets = D \cup {d}
      /\ t.buckets[d] = CountRun(b, r, s.weights)
      /\ \A e \in D \ {d} : t.buckets[e] = s.buckets[e]
      /\ t.baseline = CountTask(s.baseline, r, s.weights)
  BY RecordedIs
<1>2. /\ Cardinality(DOMAIN s.weights) <= MaxWeights
      /\ Cardinality(D) <= MaxBuckets
      /\ Cardinality(DOMAIN s.weights) + Cardinality(D) <= MaxEntries
      /\ DOMAIN s.weights \subseteq WeightKeys /\ D \subseteq Dimensions
      /\ \A x \in DOMAIN s.weights : s.weights[x] \in 1..MaxWeight
      /\ \A e \in D : ValidBucket(s.buckets[e])
      /\ ValidBaseline(s.baseline, RecordedTasks(s.buckets))
  BY DEF ValidStore
<1>3. d \in Dimensions
  BY DEF Runs
<1>4. /\ s.baseline.tasks \in 0..MaxCounter /\ s.baseline.counted \in Nat
      /\ s.baseline.total \in Nat /\ s.baseline.counted <= s.baseline.tasks
      /\ s.baseline.tasks = RecordedTasks(s.buckets)
      /\ Feasible(s.baseline.total, s.baseline.counted)
      /\ s.baseline.counted <= MaxCounter /\ s.baseline.total <= MaxCounter
      /\ s.baseline \in Baselines
  BY <1>2 DEF ValidBaseline, Counter, Typed, Baselines
<1>5. s.baseline.tasks < MaxCounter
  BY <1>4, Bounds DEF AtLimit
<1>6. /\ Cardinality(D \cup {d}) <= MaxBuckets
      /\ Cardinality(DOMAIN s.weights) + Cardinality(D \cup {d}) <= MaxEntries
  <2>1. /\ IsFiniteSet(D) /\ Cardinality(D) \in Nat
        /\ Cardinality(DOMAIN s.weights) \in Nat
    BY FS_CardinalityType DEF Typed
  <2>2. CASE d \in D
    <3>1. D \cup {d} = D
      BY <2>2
    <3> QED BY <1>2, <3>1
  <2>3. CASE d \notin D
    <3>1. Cardinality(D \cup {d}) = Cardinality(D) + 1
      BY <2>1, <2>3, FS_AddElement
    <3>2. Cardinality(D) # MaxBuckets /\ Cardinality(D) + Cardinality(DOMAIN s.weights) # MaxEntries
      BY <2>3 DEF AtLimit
    <3>3. MaxBuckets \in Nat /\ MaxEntries \in Nat
      BY Bounds
    <3> HIDE DEF D, d
    <3> QED BY <1>2, <2>1, <3>1, <3>2, <3>3
  <2> QED BY <2>2, <2>3
<1>7. ValidBucket(t.buckets[d])
  <2>1. Bucket(b) /\ Price(s, r) \in Nat
    BY BucketTyped
  <2>2. ValidBucket(b)
    BY <1>2, NoRunsValid DEF BucketOf
  <2>3. b.runs \in 0..MaxCounter /\ b.cost \in 0..MaxCounter
    BY <2>2 DEF ValidBucket, Counter
  <2>4. b.runs < MaxCounter
    <3>1. CASE d \in D
      <4>1. b.runs # MaxCounter
        BY <3>1 DEF AtLimit, BucketOf
      <4> QED BY <2>3, <4>1, Bounds
    <3>2. CASE d \notin D
      <4>1. b.runs = 0
        BY <3>2 DEF BucketOf, NoRuns
      <4> QED BY <1>4, <1>5, <4>1, Bounds
    <3> QED BY <3>1, <3>2
  <2>5. CASE k \in DOMAIN s.weights
    <3>1. Weighted(s, r) = 1 /\ Price(s, r) = s.weights[k] /\ s.weights[k] \in 1..MaxWeight
      BY <1>2, <2>5 DEF Weighted, One, Price
    <3>2. b.cost + s.weights[k] <= MaxCounter
      <4>1. CASE d \in D
        <5>1. ~ (b.cost + s.weights[k] > MaxCounter)
          BY <2>5, <4>1 DEF AtLimit, BucketOf
        <5> QED BY <2>3, <3>1, <5>1, Bounds
      <4>2. CASE d \notin D
        <5>1. b.cost = 0
          BY <4>2 DEF BucketOf, NoRuns
        <5>2. ~ (s.weights[k] > MaxCounter)
          BY <2>5 DEF AtLimit
        <5> QED BY <3>1, <5>1, <5>2, Bounds
      <4> QED BY <4>1, <4>2
    <3> HIDE DEF b, k
    <3> QED BY <1>1, <2>1, <2>2, <2>4, <3>1, <3>2, CountRunValid
  <2>6. CASE k \notin DOMAIN s.weights
    <3>1. Weighted(s, r) = 0 /\ Price(s, r) = 0
      BY <2>6 DEF Weighted, One, Price
    <3>2. b.cost + Price(s, r) <= MaxCounter
      BY <2>3, <3>1, Bounds
    <3> HIDE DEF b, k
    <3> QED BY <1>1, <2>1, <2>2, <2>4, <3>1, <3>2, CountRunValid
  <2> QED BY <2>5, <2>6
<1>8. ValidBaseline(t.baseline, RecordedTasks(t.buckets))
  <2>1. RecordedTasks(t.buckets) = s.baseline.tasks + FirstAttempt(r)
    BY <1>4, RecordedSums
  <2>2. CASE r.rework
    <3>1. FirstAttempt(r) = 0 /\ t.baseline = s.baseline
      BY <1>1, <2>2 DEF FirstAttempt, One, CountTask
    <3>2. RecordedTasks(t.buckets) = RecordedTasks(s.buckets)
      BY <1>4, <2>1, <3>1
    <3> QED BY <1>2, <3>1, <3>2
  <2>3. CASE ~r.rework /\ m \in DOMAIN s.weights
    <3>1. FirstAttempt(r) = 1
      BY <2>3 DEF FirstAttempt, One
    <3>2. /\ t.baseline.tasks = s.baseline.tasks + 1
          /\ t.baseline.counted = s.baseline.counted + 1
          /\ t.baseline.total = s.baseline.total + s.weights[m]
      BY <1>1, <2>3 DEF CountTask
    <3>3. s.weights[m] \in 1..MaxWeight /\ ~ (s.baseline.total + s.weights[m] > MaxCounter)
      BY <1>2, <2>3 DEF AtLimit
    <3>4. Feasible(t.baseline.total, t.baseline.counted)
      BY <1>4, <3>2, <3>3, FeasibleAdds
    <3>5. t.baseline.tasks \in Counter /\ t.baseline.counted \in Counter /\ t.baseline.total \in Counter
      BY <1>4, <1>5, <3>2, <3>3, Bounds DEF Counter
    <3>6. t.baseline.tasks = RecordedTasks(t.buckets) /\ t.baseline.counted <= t.baseline.tasks
      BY <1>4, <2>1, <3>1, <3>2
    <3> QED BY <3>4, <3>5, <3>6 DEF ValidBaseline
  <2>4. CASE ~r.rework /\ m \notin DOMAIN s.weights
    <3>1. FirstAttempt(r) = 1
      BY <2>4 DEF FirstAttempt, One
    <3>2. /\ t.baseline.tasks = s.baseline.tasks + 1
          /\ t.baseline.counted = s.baseline.counted
          /\ t.baseline.total = s.baseline.total
      BY <1>1, <1>4, <2>4 DEF CountTask, Baselines
    <3>3. t.baseline.tasks \in Counter /\ t.baseline.counted \in Counter /\ t.baseline.total \in Counter
      BY <1>4, <1>5, <3>2, Bounds DEF Counter
    <3>4. t.baseline.tasks = RecordedTasks(t.buckets) /\ t.baseline.counted <= t.baseline.tasks
      BY <1>4, <2>1, <3>1, <3>2
    <3>5. Feasible(t.baseline.total, t.baseline.counted)
      BY <1>4, <3>2
    <3> QED BY <3>3, <3>4, <3>5 DEF ValidBaseline
  <2> QED BY <2>2, <2>3, <2>4
<1>9. \A e \in DOMAIN t.buckets : ValidBucket(t.buckets[e])
  BY <1>1, <1>2, <1>7
<1> HIDE DEF t, d, D, b, k, m
<1>10. DOMAIN t.buckets \subseteq Dimensions
  BY <1>1, <1>2, <1>3
<1>11. ValidStore(t)
  BY <1>1, <1>2, <1>6, <1>8, <1>9, <1>10 DEF ValidStore, D
<1> QED
  BY <1>11 DEF t

-------------------------------------------------------------------------------
(* The auditor's books *)

Books == [runs : Nat, spent : Int, unpriced : Int, tasks : Int, uncounted : Int,
          forgone : Int, retries : Int, promoted : BOOLEAN]

\* What the store holds and what the auditor noted down agree, and the store is
\* one that validation accepts; before `usage enable` there is nothing to note.
Agree ==
  /\ Typed(store) /\ ValidStore(store)
  /\ Measured(store) = books.spent
  /\ Unweighted(store) = books.unpriced
  /\ store.baseline.tasks = books.tasks
  /\ store.baseline.tasks - store.baseline.counted = books.uncounted
  /\ store.baseline.total = books.forgone

Audited ==
  /\ books \in Books
  /\ Enabled => Agree
  /\ ~Enabled => books = NoBooks

LEMMA EmptySums ==
  Measured(EmptyStore) = 0 /\ Unweighted(EmptyStore) = 0 /\ RecordedTasks(EmptyStore.buckets) = 0
<1>1. DOMAIN EmptyStore.buckets = {}
  BY DEF EmptyStore
<1>2. ASSUME NEW f, DOMAIN f = {} PROVE SumFunction(f) = 0
  BY <1>2, SumOfNothing DEF SumFunction
<1> QED
  BY <1>1, <1>2 DEF Measured, Unweighted, RecordedTasks

LEMMA EmptyIsValid == Typed(EmptyStore) /\ ValidStore(EmptyStore)
<1>1. /\ DOMAIN EmptyStore.weights = {} /\ DOMAIN EmptyStore.buckets = {}
      /\ EmptyStore.baseline = EmptyBaseline
      /\ EmptyStore = [weights |-> EmptyStore.weights, buckets |-> EmptyStore.buckets,
                       baseline |-> EmptyStore.baseline]
      /\ EmptyStore.weights \in [{} -> Nat] /\ EmptyStore.buckets = [d \in {} |-> EmptyStore.buckets[d]]
  BY DEF EmptyStore
<1>2. EmptyBaseline \in Baselines /\ EmptyBaseline.tasks = 0 /\ EmptyBaseline.counted = 0 /\ EmptyBaseline.total = 0
  BY DEF EmptyBaseline, Baselines
<1>3. IsFiniteSet({}) /\ Cardinality({}) = 0
  BY FS_EmptySet
<1>4. Typed(EmptyStore)
  BY <1>1, <1>2, <1>3 DEF Typed
<1>5. 0 * MaxWeight = 0 /\ 0 \in Counter
  BY Bounds DEF Counter
<1>6. ValidBaseline(EmptyStore.baseline, RecordedTasks(EmptyStore.buckets))
  BY <1>1, <1>2, <1>5, EmptySums DEF ValidBaseline, Feasible
<1>7. 0 <= MaxWeights /\ 0 <= MaxBuckets /\ 0 + 0 <= MaxEntries
  BY Bounds
<1> QED
  BY <1>1, <1>3, <1>4, <1>6, <1>7 DEF ValidStore

\* The bucket an earlier build left behind.
LEMMA LegacyBucketIs ==
  ASSUME NEW n \in 1..2, NEW micros \in Nat
  PROVE  /\ Bucket(LegacyBucket(n, micros))
         /\ LegacyBucket(n, micros).runs = n /\ LegacyBucket(n, micros).reworks = 0
         /\ LegacyBucket(n, micros).cost = n * micros
         /\ LegacyBucket(n, micros).unweighted = IF micros > 0 THEN 0 ELSE n
<1> DEFINE b == LegacyBucket(n, micros)
           Form(x) == DOMAIN x = Counts \cup {"statuses"} /\ x = [y \in DOMAIN x |-> x[y]]
<1>1. Form(NoRuns) /\ NoRuns.reworks = 0 /\ NoRuns.escalations = 0 /\ NoRuns.failed = 0
  BY DEF NoRuns, Counts
<1>2. /\ Form(b) /\ b.runs = n /\ b.succeeded = n
      /\ b.weighted = (IF micros > 0 THEN n ELSE 0)
      /\ b.unweighted = (IF micros > 0 THEN 0 ELSE n) /\ b.cost = n * micros
      /\ b.lower = (IF micros > 0 /\ micros < Scale THEN n ELSE 0)
      /\ b.statuses = [c \in ExitCodes |-> One(c = 0) * n]
      /\ b.reworks = 0 /\ b.escalations = 0 /\ b.failed = 0
  BY <1>1 DEF LegacyBucket, Counts
<1>3. n * micros \in Nat /\ n \in Nat
  OBVIOUS
<1>4. b.statuses \in [ExitCodes -> Nat]
  <2>1. \A c \in ExitCodes : One(c = 0) * n \in Nat
    BY DEF One
  <2> HIDE DEF b
  <2> QED BY <1>2, <2>1
<1> HIDE DEF b
<1>5. /\ b.runs \in Nat /\ b.succeeded \in Nat /\ b.weighted \in Nat /\ b.unweighted \in Nat
      /\ b.cost \in Nat /\ b.lower \in Nat /\ b.reworks \in Nat /\ b.escalations \in Nat
      /\ b.failed \in Nat
  BY <1>2, <1>3
<1>6. Bucket(b)
  BY <1>2, <1>4, <1>5 DEF Bucket, Counts
<1> QED
  BY <1>2, <1>6 DEF b

LEMMA SumOfOne ==
  ASSUME NEW d, NEW f, DOMAIN f = {d}, f[d] \in Int
  PROVE  SumFunction(f) = f[d]
<1>1. SumFunction(f) = SumFunctionOnSet(f, {d})
  BY DEF SumFunction
<1>2. IsFiniteSet({d}) /\ \A x \in {d} : f[x] \in Int
  BY FS_Singleton
<1>3. SumFunctionOnSet(f, {d}) = f[d] + SumFunctionOnSet(f, {d} \ {d})
  BY <1>2, SumTakeOut
<1>4. {d} \ {d} = {}
  OBVIOUS
<1> QED
  BY <1>1, <1>3, <1>4, SumOfNothing

LEMMA LegacyAgrees ==
  ASSUME InitLegacy
  PROVE  Agree /\ books \in Books
<1>1. PICK d \in {r.dimensions : r \in RunsTried}, n \in 1..2, micros \in {0} \cup WeightValues :
        /\ store = Promoted([k \in IF micros > 0 THEN {WeightKey(d)} ELSE {} |-> micros],
                            [e \in {d} |-> LegacyBucket(n, micros)])
        /\ books = [NoBooks EXCEPT !.runs = n, !.spent = n * micros, !.tasks = n,
                                   !.unpriced = IF micros > 0 THEN 0 ELSE n,
                                   !.uncounted = n, !.promoted = TRUE]
        /\ ValidStore(store)
  BY DEF InitLegacy
<1> DEFINE b == LegacyBucket(n, micros)
<1>2. micros \in Nat /\ n \in Nat /\ n * micros \in Nat
  BY UsageAccountingAssumption, Bounds
<1>3. /\ Bucket(b) /\ b.runs = n /\ b.reworks = 0 /\ b.cost = n * micros
      /\ b.unweighted = IF micros > 0 THEN 0 ELSE n
  BY <1>2, LegacyBucketIs
<1> HIDE DEF b
<1>4. /\ store.weights = [k \in IF micros > 0 THEN {WeightKey(d)} ELSE {} |-> micros]
      /\ store.buckets = [e \in {d} |-> b]
      /\ store.baseline = [EmptyBaseline EXCEPT !.tasks = RecordedTasks(store.buckets)]
      /\ store = [weights |-> store.weights, buckets |-> store.buckets, baseline |-> store.baseline]
  BY <1>1 DEF Promoted, b
<1>5. RecordedTasks(store.buckets) = n
  <2> DEFINE f == [e \in DOMAIN store.buckets |-> store.buckets[e].runs - store.buckets[e].reworks]
  <2>1. DOMAIN f = {d} /\ f[d] = n /\ f[d] \in Int
    BY <1>2, <1>3, <1>4
  <2>2. RecordedTasks(store.buckets) = SumFunction(f)
    BY DEF RecordedTasks
  <2> HIDE DEF f
  <2> QED BY <2>1, <2>2, SumOfOne
<1>6. Measured(store) = n * micros
  <2> DEFINE f == [e \in DOMAIN store.buckets |-> store.buckets[e].cost]
  <2>1. DOMAIN f = {d} /\ f[d] = n * micros /\ f[d] \in Int
    BY <1>2, <1>3, <1>4
  <2>2. Measured(store) = SumFunction(f)
    BY DEF Measured
  <2> HIDE DEF f
  <2> QED BY <2>1, <2>2, SumOfOne
<1>7. Unweighted(store) = IF micros > 0 THEN 0 ELSE n
  <2> DEFINE f == [e \in DOMAIN store.buckets |-> store.buckets[e].unweighted]
  <2>1. DOMAIN f = {d} /\ f[d] = (IF micros > 0 THEN 0 ELSE n) /\ f[d] \in Int
    BY <1>2, <1>3, <1>4
  <2>2. Unweighted(store) = SumFunction(f)
    BY DEF Unweighted
  <2> HIDE DEF f
  <2> QED BY <2>1, <2>2, SumOfOne
<1>8. store.baseline = [tasks |-> n, counted |-> 0, total |-> 0]
  BY <1>4, <1>5 DEF EmptyBaseline
<1>9. Typed(store)
  <2>1. store.baseline \in Baselines
    BY <1>2, <1>8 DEF Baselines
  <2>2. IsFiniteSet(DOMAIN store.weights) /\ store.weights \in [DOMAIN store.weights -> Nat]
    BY <1>2, <1>4, FS_EmptySet, FS_Singleton
  <2>3. /\ IsFiniteSet(DOMAIN store.buckets) /\ store.buckets = [e \in DOMAIN store.buckets |-> store.buckets[e]]
        /\ \A e \in DOMAIN store.buckets : Bucket(store.buckets[e])
    BY <1>3, <1>4, FS_Singleton
  <2> QED BY <1>4, <2>1, <2>2, <2>3 DEF Typed
<1>10. /\ books.runs = n /\ books.spent = n * micros /\ books.tasks = n
       /\ books.unpriced = (IF micros > 0 THEN 0 ELSE n)
       /\ books.uncounted = n /\ books.forgone = 0
  BY <1>1 DEF NoBooks
<1>11. books \in Books
  <2> DEFINE u == IF micros > 0 THEN 0 ELSE n
             spent == n * micros
  <2>1. books = [runs |-> n, spent |-> spent, unpriced |-> u, tasks |-> n, uncounted |-> n,
                 forgone |-> 0, retries |-> 0, promoted |-> TRUE]
    BY <1>1 DEF NoBooks
  <2>2. u \in Int /\ spent \in Int
    BY <1>2
  <2> HIDE DEF u, spent
  <2> QED BY <1>2, <2>1, <2>2 DEF Books
<1> QED
  <2>1. /\ store.baseline.tasks = n /\ store.baseline.counted = 0 /\ store.baseline.total = 0
        /\ n - 0 = n
    BY <1>2, <1>8
  <2>2. ValidStore(store)
    BY <1>1
  <2>3. Measured(store) = books.spent /\ Unweighted(store) = books.unpriced
    BY <1>6, <1>7, <1>10
  <2> QED
    BY <1>9, <1>10, <1>11, <2>1, <2>2, <2>3 DEF Agree

\* Recording moves the store's sums and the auditor's totals alike.
LEMMA RecordAgrees ==
  ASSUME Audited, NEW r \in RunsTried, RecordUsage(r)
  PROVE  /\ Agree' /\ books' \in Books
         /\ store' = Recorded(store, r)
         /\ books'.retries = books.retries + Rework(r)
<1> DEFINE d == r.dimensions
           k == WeightKey(d)
           m == BaselineKey(r.source)
           t == Recorded(store, r)
           counted == IF ~r.rework /\ m \in DOMAIN store.weights THEN store.weights[m] ELSE 0
           uncounted == One(~r.rework /\ ~ (m \in DOMAIN store.weights))
<1>1. r \in Runs /\ Enabled /\ store' = t /\ ValidStore(t)
  BY UsageAccountingAssumption DEF RecordUsage, Replace
<1>2. Agree /\ books \in Books
  BY <1>1 DEF Audited
<1>3. Typed(store) /\ ValidStore(store)
  BY <1>2 DEF Agree
<1>4. books' = [books EXCEPT !.runs = @ + 1, !.retries = @ + Rework(r),
                             !.spent = @ + Price(store, r), !.unpriced = @ + Unpriced(store, r),
                             !.tasks = @ + FirstAttempt(r), !.uncounted = @ + uncounted,
                             !.forgone = @ + counted]
  BY DEF RecordUsage, Rework, Price, Unpriced, FirstAttempt
<1>5. /\ Rework(r) \in 0..1 /\ Unpriced(store, r) \in 0..1 /\ FirstAttempt(r) \in 0..1
      /\ uncounted \in 0..1 /\ Price(store, r) \in Nat
      /\ counted \in Nat
  <2>1. uncounted \in 0..1
    BY DEF One
  <2>2. counted \in Nat
    BY <1>3 DEF Typed
  <2> QED BY <1>1, <1>3, <2>1, <2>2, OnesAreSmall, BucketTyped
<1>6. /\ Typed(t) /\ t.baseline = CountTask(store.baseline, r, store.weights)
      /\ Measured(t) = Measured(store) + Price(store, r)
      /\ Unweighted(t) = Unweighted(store) + Unpriced(store, r)
  BY <1>1, <1>3, RecordedIs, RecordedSums
<1>7. /\ t.baseline.tasks = store.baseline.tasks + FirstAttempt(r)
      /\ t.baseline.tasks - t.baseline.counted = (store.baseline.tasks - store.baseline.counted) + uncounted
      /\ t.baseline.total = store.baseline.total + counted
  <2>1. /\ store.baseline.tasks \in Nat /\ store.baseline.counted \in Nat /\ store.baseline.total \in Nat
        /\ store.baseline \in Baselines
    BY <1>3 DEF Typed, Baselines
  <2>2. CASE r.rework
    <3>1. FirstAttempt(r) = 0 /\ uncounted = 0 /\ counted = 0 /\ t.baseline = store.baseline
      BY <1>6, <2>2 DEF FirstAttempt, One, CountTask
    <3> HIDE DEF t, counted, uncounted
    <3> QED BY <2>1, <3>1
  <2>3. CASE ~r.rework /\ m \in DOMAIN store.weights
    <3>1. FirstAttempt(r) = 1 /\ uncounted = 0 /\ counted = store.weights[m]
      BY <2>3 DEF FirstAttempt, One
    <3>2. /\ t.baseline.tasks = store.baseline.tasks + 1
          /\ t.baseline.counted = store.baseline.counted + 1
          /\ t.baseline.total = store.baseline.total + store.weights[m]
      BY <1>6, <2>3 DEF CountTask
    <3> HIDE DEF t, counted, uncounted, m
    <3> QED BY <2>1, <3>1, <3>2
  <2>4. CASE ~r.rework /\ m \notin DOMAIN store.weights
    <3>1. FirstAttempt(r) = 1 /\ uncounted = 1 /\ counted = 0
      BY <2>4 DEF FirstAttempt, One
    <3>2. /\ t.baseline.tasks = store.baseline.tasks + 1
          /\ t.baseline.counted = store.baseline.counted
          /\ t.baseline.total = store.baseline.total
      BY <1>6, <2>1, <2>4 DEF CountTask, Baselines
    <3> HIDE DEF t, counted, uncounted, m
    <3> QED BY <2>1, <3>1, <3>2
  <2> QED BY <2>2, <2>3, <2>4
<1> HIDE DEF t, counted, uncounted
<1>8. /\ books'.spent = books.spent + Price(store, r)
      /\ books'.unpriced = books.unpriced + Unpriced(store, r)
      /\ books'.tasks = books.tasks + FirstAttempt(r)
      /\ books'.uncounted = books.uncounted + uncounted
      /\ books'.forgone = books.forgone + counted
      /\ books'.retries = books.retries + Rework(r)
  BY <1>2, <1>4 DEF Books
<1>9. books' \in Books
  <2>1. /\ books.runs + 1 \in Nat /\ books.retries + Rework(r) \in Int
        /\ books.spent + Price(store, r) \in Int /\ books.unpriced + Unpriced(store, r) \in Int
        /\ books.tasks + FirstAttempt(r) \in Int /\ books.uncounted + uncounted \in Int
        /\ books.forgone + counted \in Int
    BY <1>2, <1>5 DEF Books
  <2>2. books' = [runs |-> books.runs + 1, spent |-> books.spent + Price(store, r),
                  unpriced |-> books.unpriced + Unpriced(store, r),
                  tasks |-> books.tasks + FirstAttempt(r), uncounted |-> books.uncounted + uncounted,
                  forgone |-> books.forgone + counted, retries |-> books.retries + Rework(r),
                  promoted |-> books.promoted]
    BY <1>2, <1>4 DEF Books
  <2> QED BY <1>2, <2>1, <2>2 DEF Books
<1>10. Agree'
  <2>1. /\ Measured(t) = books'.spent /\ Unweighted(t) = books'.unpriced
        /\ t.baseline.tasks = books'.tasks
        /\ t.baseline.tasks - t.baseline.counted = books'.uncounted
        /\ t.baseline.total = books'.forgone
    BY <1>2, <1>6, <1>7, <1>8 DEF Agree
  <2> QED BY <1>1, <1>6, <2>1 DEF Agree
<1> QED
  BY <1>1, <1>8, <1>9, <1>10 DEF t

LEMMA WithWeightTyped ==
  ASSUME NEW s, Typed(s), NEW k, NEW micros \in Nat
  PROVE  /\ Typed(WithWeight(s, k, micros))
         /\ WithWeight(s, k, micros).buckets = s.buckets
         /\ WithWeight(s, k, micros).baseline = s.baseline
<1> DEFINE t == WithWeight(s, k, micros)
           w == Put(s.weights, k, micros)
<1>1. t = [weights |-> w, buckets |-> s.buckets, baseline |-> s.baseline]
  BY DEF WithWeight, Typed
<1>2. IsFiniteSet(DOMAIN w) /\ w \in [DOMAIN w -> Nat]
  <2>1. DOMAIN w = DOMAIN s.weights \cup {k}
    BY DEF Put
  <2>2. IsFiniteSet(DOMAIN s.weights \cup {k})
    BY FS_AddElement DEF Typed
  <2> QED BY <2>1, <2>2 DEF Put, Typed
<1> HIDE DEF w, t
<1> QED
  BY <1>1, <1>2 DEF Typed, t

\* The total of the unweighted runs is zero exactly when every bucket's count is.
LEMMA UnweightedIsNat ==
  ASSUME NEW s, Typed(s)
  PROVE  /\ Unweighted(s) \in Nat
         /\ \A d \in DOMAIN s.buckets :
              s.buckets[d].unweighted \in Nat /\ s.buckets[d].unweighted <= Unweighted(s)
<1> DEFINE f == [d \in DOMAIN s.buckets |-> s.buckets[d].unweighted]
<1>1. IsFiniteSet(DOMAIN s.buckets) /\ \A d \in DOMAIN s.buckets : f[d] \in Nat
  BY DEF Typed, Bucket, Counts
<1>2. Unweighted(s) = SumFunctionOnSet(f, DOMAIN s.buckets)
  BY DEF Unweighted, SumFunction
<1>3. \A d \in DOMAIN s.buckets : f[d] = s.buckets[d].unweighted
  OBVIOUS
<1> HIDE DEF f
<1> QED
  BY <1>1, <1>2, <1>3, SumBound

LEMMA UnweightedOfNone ==
  ASSUME NEW s, Typed(s), \A d \in DOMAIN s.buckets : ~ (s.buckets[d].unweighted > 0)
  PROVE  Unweighted(s) = 0
<1> DEFINE f == [d \in DOMAIN s.buckets |-> s.buckets[d].unweighted]
<1>1. IsFiniteSet(DOMAIN s.buckets) /\ \A d \in DOMAIN s.buckets : f[d] = 0
  BY UnweightedIsNat DEF Typed
<1>2. Unweighted(s) = SumFunctionOnSet(f, DOMAIN s.buckets)
  BY DEF Unweighted, SumFunction
<1> HIDE DEF f
<1> QED
  BY <1>1, <1>2, SumOfZeros

\* The invariant everything else follows from.
THEOREM BooksAreExact == Spec => []Audited
<1>1. Init => Audited
  <2>1. ASSUME InitFresh PROVE Audited
    <3>1. NoBooks \in Books
      BY DEF NoBooks, Books
    <3> QED BY <2>1, <3>1 DEF InitFresh, Audited, Enabled
  <2>2. ASSUME InitLegacy PROVE Audited
    <3>1. Agree /\ books \in Books
      BY <2>2, LegacyAgrees
    <3>2. store # NoStore
      <4>1. PICK w, b : store = Promoted(w, b)
        BY <2>2 DEF InitLegacy
      <4>2. DOMAIN store = {"weights", "buckets", "baseline"} /\ DOMAIN NoStore = {"weights"}
        BY <4>1 DEF Promoted, NoStore
      <4> QED BY <4>2
    <3> QED BY <3>1, <3>2 DEF Audited, Enabled
  <2> QED BY <2>1, <2>2 DEF Init
<1>2. Audited /\ [Next]_vars => Audited'
  <2> SUFFICES ASSUME Audited, [Next]_vars PROVE Audited'
    OBVIOUS
  <2>1. CASE EnsureUsageStore
    <3>1. books' = NoBooks /\ store' = EmptyStore /\ books' \in Books
      BY <2>1 DEF EnsureUsageStore, Audited
    <3>2. Agree'
      <4>1. EmptyStore.baseline = EmptyBaseline
        BY DEF EmptyStore
      <4>2. NoBooks.spent = 0 /\ NoBooks.unpriced = 0 /\ NoBooks.tasks = 0 /\ NoBooks.uncounted = 0
            /\ NoBooks.forgone = 0 /\ EmptyBaseline.tasks = 0 /\ EmptyBaseline.counted = 0
            /\ EmptyBaseline.total = 0
        BY DEF NoBooks, EmptyBaseline
      <4> QED BY <3>1, <4>1, <4>2, EmptySums, EmptyIsValid DEF Agree
    <3> QED BY <3>1, <3>2 DEF Audited
  <2>2. ASSUME NEW r \in RunsTried, NEW micros \in WeightValues,
               SetRelativeCostWeight(WeightKey(r.dimensions), micros)
        PROVE  Audited'
    <3> DEFINE k == WeightKey(r.dimensions)
               t == WithWeight(store, k, micros)
    <3>1. Enabled /\ store' = t /\ ValidStore(t) /\ books' = books
      BY <2>2 DEF SetRelativeCostWeight, Replace
    <3>2. Agree /\ books \in Books
      BY <3>1 DEF Audited
    <3>3. micros \in Nat
      BY UsageAccountingAssumption, Bounds
    <3>4. Typed(t) /\ t.buckets = store.buckets /\ t.baseline = store.baseline
      BY <3>2, <3>3, WithWeightTyped DEF Agree
    <3> HIDE DEF t, k
    <3>5. Measured(t) = Measured(store) /\ Unweighted(t) = Unweighted(store)
      BY <3>4 DEF Measured, Unweighted
    <3>6. Agree'
      BY <3>1, <3>2, <3>4, <3>5 DEF Agree
    <3>7. store' # NoStore
      <4>1. t = [weights |-> t.weights, buckets |-> t.buckets, baseline |-> t.baseline]
        BY <3>4 DEF Typed
      <4>2. DOMAIN t = {"weights", "buckets", "baseline"} /\ DOMAIN NoStore = {"weights"}
        BY <4>1 DEF NoStore
      <4> QED BY <3>1, <4>2
    <3> QED BY <3>1, <3>2, <3>6, <3>7 DEF Audited, Enabled
  <2>3. ASSUME NEW r \in RunsTried, RecordUsage(r) PROVE Audited'
    <3>1. Agree' /\ books' \in Books
      BY <2>3, RecordAgrees
    <3>2. store' = [weights |-> store'.weights, buckets |-> store'.buckets, baseline |-> store'.baseline]
      BY <3>1 DEF Agree, Typed
    <3>3. store' # NoStore
      <4>1. DOMAIN store' = {"weights", "buckets", "baseline"} /\ DOMAIN NoStore = {"weights"}
        BY <3>2 DEF NoStore
      <4> QED BY <4>1
    <3> QED BY <3>1, <3>3 DEF Audited, Enabled
  <2>4. CASE UNCHANGED vars
    BY <2>4 DEF vars, Audited, Agree, Enabled
  <2> QED
    BY <2>1, <2>2, <2>3, <2>4 DEF Next
<1> QED
  BY <1>1, <1>2, PTL DEF Spec

-------------------------------------------------------------------------------
(* What follows from exact books *)

\* `usage report` and the recording of the next run, for every reachable store: a run
\* is refused for a named limit only.
THEOREM LimitsAreTheOnlyRefusal == Spec => []RefusedOnlyAtLimit
<1>1. Audited => RefusedOnlyAtLimit
  <2> SUFFICES ASSUME Audited, Enabled, NEW r \in RunsTried, ~AtLimit(store, r)
               PROVE  ValidStore(Recorded(store, r))
    BY DEF RefusedOnlyAtLimit
  <2>1. r \in Runs /\ Typed(store) /\ ValidStore(store)
    BY UsageAccountingAssumption DEF Audited, Agree
  <2> QED BY <2>1, RecordedValid
<1> QED
  BY <1>1, BooksAreExact, PTL

\* The figure `usage report` shows is what the tasks would have cost minus what all
\* runs did cost, and it is shown only with complete evidence.
THEOREM FiguresAreHonest == Spec => []SavingsAreHonest
<1>1. Audited => SavingsAreHonest
  <2> SUFFICES ASSUME Audited, Enabled, Renders(store), Report(store).reason = "computed"
               PROVE  /\ books.unpriced = 0 /\ books.uncounted = 0 /\ books.tasks > 0
                      /\ Report(store).savings = books.forgone - books.spent
    BY DEF SavingsAreHonest
  <2>1. SavingsReasonCode(store) = "computed"
    BY DEF Report
  <2>2. Agree /\ books \in Books
    BY DEF Audited
  <2>3. /\ store.baseline.tasks # 0 /\ ~ (Unweighted(store) > 0)
        /\ store.baseline.counted = store.baseline.tasks
    BY <2>1 DEF SavingsReasonCode
  <2>4. store.baseline.tasks \in Nat /\ store.baseline.counted \in Nat
    BY <2>2 DEF Agree, Typed, Baselines
  <2>5. Unweighted(store) \in Nat
    BY <2>2, UnweightedIsNat DEF Agree
  <2>6. Report(store).savings = store.baseline.total - Measured(store)
    BY <2>1 DEF Report, Savings
  <2> QED BY <2>2, <2>3, <2>4, <2>5, <2>6 DEF Agree
<1> QED
  BY <1>1, BooksAreExact, PTL

\* The closed next_action agrees with the figure beside it.
THEOREM GuidanceIsConsistent == Spec => []GuidanceMatchesReport
<1>1. Audited => GuidanceMatchesReport
  <2> SUFFICES ASSUME Audited, Enabled
               PROVE  /\ NextAction(store) = "review_metrics" => Report(store).reason = "computed"
                      /\ NextAction(store) = "collect_new_weighted_tasks" => Report(store).reason # "computed"
    BY DEF GuidanceMatchesReport
  <2>1. Typed(store) /\ ValidStore(store)
    BY DEF Audited, Agree
  <2>2. Unweighted(store) \in Nat /\ \A d \in DOMAIN store.buckets :
          store.buckets[d].unweighted \in Nat /\ store.buckets[d].unweighted <= Unweighted(store)
    BY <2>1, UnweightedIsNat
  <2>3. store.baseline.tasks \in Nat /\ store.baseline.counted \in Nat /\ store.baseline.total \in Nat
    BY <2>1 DEF Typed, Baselines
  <2>4. Report(store).reason = SavingsReasonCode(store)
    BY DEF Report
  <2>5. ASSUME NextAction(store) = "review_metrics" PROVE Report(store).reason = "computed"
    <3>1. /\ \A d \in DOMAIN store.buckets : ~ (store.buckets[d].unweighted > 0)
          /\ EvidenceComplete(store) /\ store.baseline.tasks # 0
      BY <2>5 DEF NextAction
    <3>2. Unweighted(store) = 0
      BY <2>1, <2>2, <3>1, UnweightedOfNone
    <3>3. store.baseline.total # 0
      <4>1. store.baseline.counted <= store.baseline.total
        BY <2>1 DEF ValidStore, ValidBaseline, Feasible
      <4> QED BY <2>3, <3>1, <4>1 DEF EvidenceComplete
    <3> QED BY <2>4, <3>1, <3>2, <3>3 DEF SavingsReasonCode, EvidenceComplete
  <2>6. ASSUME NextAction(store) = "collect_new_weighted_tasks" PROVE Report(store).reason # "computed"
    <3>1. (\E d \in DOMAIN store.buckets : store.buckets[d].unweighted > 0) \/ ~EvidenceComplete(store)
      BY <2>6 DEF NextAction
    <3>2. CASE \E d \in DOMAIN store.buckets : store.buckets[d].unweighted > 0
      <4>1. Unweighted(store) > 0
        BY <2>2, <3>2
      <4> QED BY <2>4, <4>1 DEF SavingsReasonCode
    <3>3. CASE ~EvidenceComplete(store)
      BY <2>4, <3>3 DEF SavingsReasonCode, EvidenceComplete
    <3> QED BY <3>1, <3>2, <3>3
  <2> QED BY <2>5, <2>6
<1> QED
  BY <1>1, BooksAreExact, PTL

\* "a retry costs extra without enlarging the baseline", whatever is recorded when.
THEOREM RetriesCostExtra == Spec => RetryNeverImproves
<1> DEFINE Retry == Enabled /\ books'.retries > books.retries => Savings(store') <= Savings(store)
<1>1. Audited /\ [Next]_vars => [Retry]_vars
  <2> SUFFICES ASSUME Audited, Next, Enabled, books'.retries > books.retries
               PROVE  Savings(store') <= Savings(store)
    BY DEF vars
  <2>1. books \in Books /\ ~ (books.retries > books.retries)
    BY DEF Audited, Books
  <2>2. PICK r \in RunsTried : RecordUsage(r)
    BY <2>1 DEF Next, EnsureUsageStore, SetRelativeCostWeight
  <2>3. store' = Recorded(store, r) /\ books'.retries = books.retries + Rework(r)
    BY <2>2, RecordAgrees
  <2>4. r \in Runs /\ Typed(store)
    BY UsageAccountingAssumption DEF Audited, Agree
  <2>5. r.rework
    <3>1. CASE ~r.rework
      <4>1. Rework(r) = 0
        BY <3>1 DEF Rework, One
      <4> QED BY <2>1, <2>3, <4>1 DEF Books
    <3> QED BY <3>1
  <2>6. /\ store'.baseline = store.baseline
        /\ Measured(store') = Measured(store) + Price(store, r) /\ Measured(store) \in Int
    <3>1. CountTask(store.baseline, r, store.weights) = store.baseline
      BY <2>5 DEF CountTask
    <3>2. store'.baseline = CountTask(store.baseline, r, store.weights)
      BY <2>3, <2>4, RecordedIs
    <3> QED BY <2>3, <2>4, <3>1, <3>2, RecordedSums
  <2>7. Price(store, r) \in Nat /\ store.baseline.total \in Nat
    BY <2>4, BucketTyped DEF Typed, Baselines
  <2> QED BY <2>6, <2>7 DEF Savings
<1> QED
  BY <1>1, BooksAreExact, PTL DEF Spec, RetryNeverImproves
===============================================================================
