---------------------------- MODULE TaskClassifier -----------------------------
(***************************************************************************)
(* classify_task_with_reason for a task that grows word by word.  A word   *)
(* is what one pattern of the classifier sees: its kind, where it lies in  *)
(* the normalized task and where it lies once each run of whitespace is    *)
(* one space.  A word that the edge of a window cuts is not seen there.    *)
(***************************************************************************)
EXTENDS Naturals, Sequences

CONSTANT Scripts   \* the texts that are written, as sequences of Pieces

\* The longest vocabulary entry of an outcome pattern is "more than once".
MaxOutcomeWidth == 16

Multiplicity == {"twice", "multiple times"}
Qualifiers == {"again", "sometimes", "multiple times"}

Outcome(first, near, second, far, third) ==
  [first |-> first, near |-> near, second |-> second, far |-> far, third |-> third]

\* _HIGH_RISK_OUTCOME_PATTERNS: three words, each within reach of the one before.
HighRiskOutcomes ==
  {Outcome({"account"}, 80, {"charged"}, 32, Multiplicity),
   Outcome({"balance"}, 80, {"turns"}, 32, {"negative"}),
   Outcome({"same work"}, 80, {"duplicate"}, 40, {"executed"}),
   Outcome({"funds"}, 40, {"sometimes"}, 40, {"below zero"}),
   Outcome({"funds"}, 40, {"below zero"}, 32, {"falls"})}

OutcomeKinds == UNION {o.first \cup o.second \cup o.third : o \in HighRiskOutcomes}

DuplicateKinds == {"same", "job", "runs", "again", "integration test"}

\* An "imperative" is an action word that begins a sentence.
SignalKinds == {"floor", "high signal", "cause", "flaky", "low signal", "action", "imperative",
                "object", "substitution", "from to", "from to number", "connective"}
WordKinds == OutcomeKinds \cup DuplicateKinds \cup SignalKinds \cup {"other"}

Pieces == {p \in [kind : WordKinds, width : Nat \ {0}, gap : Nat] :
             p.kind \in OutcomeKinds \cup DuplicateKinds => p.width <= MaxOutcomeWidth}

ASSUME ScriptsAssumption == Scripts \subseteq Seq(Pieces)

VARIABLES script,   \* what is still to be written
          words,    \* the words of the task so far
          length,   \* len(normalized_task)
          compact   \* its length once whitespace is collapsed

classifierVars == <<script, words, length, compact>>

MaxTaskCharacters == 20000
HighTaskCharacters == 1200
LowTaskCharacters == 240
MechanicalPairDistance == 30
PatternScanCharacters == 1200

\* The overlap holds the context of a description, not the description (seeded fault).
ContextOverlap == 160

PatternScanOverlap == 400
DuplicateWorkContext == 160
SuppressorReach == 80

PlacedWords == [kind : WordKinds, starts : Nat, ends : Nat, cstarts : Nat, cends : Nat]

-------------------------------------------------------------------------------
(* The whole task *)

Has(kinds) == \E i \in DOMAIN words : words[i].kind \in kinds
Of(kinds) == {i \in DOMAIN words : words[i].kind \in kinds}

HasUncertainDiagnostic == Has({"cause"}) /\ Has({"flaky", "sometimes"})

\* A connective, or two sentences that begin with an imperative verb.
HasMultipleInstructions ==
  \/ Has({"connective"})
  \/ \E i, j \in Of({"imperative"}) : i # j

HasMechanicalPair ==
  \E a \in Of({"action", "imperative"}), o \in Of({"object"}) :
    \/ a < o /\ words[o].starts <= words[a].ends + MechanicalPairDistance
    \/ o < a /\ words[a].starts <= words[o].ends + MechanicalPairDistance

\* Only the first "from A to B" is looked at: it must name a number, or an action.
HasLowSubstitution ==
  \/ Has({"substitution"})
  \/ \E i \in Of({"from to", "from to number"}) :
       /\ \A j \in Of({"from to", "from to number"}) : i <= j
       /\ words[i].kind = "from to number" \/ Has({"action", "imperative"})

-------------------------------------------------------------------------------
(* The costly outcomes, among the words of a window.  Distances are those of *)
(* the collapsed text.                                                       *)

Within(x, y, reach) ==
  words[x].cends <= words[y].cstarts /\ words[y].cstarts <= words[x].cends + reach

Describes(seen, pattern) ==
  \E x, y, z \in seen :
    /\ words[x].kind \in pattern.first /\ words[y].kind \in pattern.second
    /\ words[z].kind \in pattern.third
    /\ Within(x, y, pattern.near) /\ Within(y, z, pattern.far)

Same(seen, i) == /\ {i, i + 1} \subseteq seen
                 /\ words[i].kind = "same" /\ words[i + 1].kind = "job"

RunsIn(seen) == {r \in seen : words[r].kind = "runs"}
TimesIn(seen) == {t \in seen : words[t].kind \in Multiplicity}

\* The two _DUPLICATE_WORK_PATTERNS: the words they may match from word i on.
SameJobRuns(seen, i) ==
  {m \in RunsIn(seen) \X TimesIn(seen) :
     Same(seen, i) /\ Within(i + 1, m[1], 80) /\ Within(m[1], m[2], 32)}

JobRunsSame(seen, i) ==
  {m \in RunsIn(seen) \X seen \X TimesIn(seen) :
     /\ words[i].kind = "job" /\ Same(seen, m[2])
     /\ Within(i, m[1], 80) /\ Within(m[1], m[2], 32) /\ Within(m[2] + 1, m[3], 32)}

MatchesAt(pattern, seen, i) ==
  IF pattern = "same job runs" THEN SameJobRuns(seen, i) ELSE JobRunsSame(seen, i)

\* A greedy wildcard takes the last word it can reach, the first one before the next.
Greedy(matches) ==
  CHOOSE m \in matches : \A n \in matches \ {m} :
    \E k \in DOMAIN m : n[k] < m[k] /\ \A j \in 1..(k - 1) : n[j] = m[j]

StartsIn(pattern, seen) == {i \in seen : MatchesAt(pattern, seen, i) # {}}

LastOf(pattern, seen, i) == LET m == Greedy(MatchesAt(pattern, seen, i)) IN m[Len(m)]

\* finditer: the leftmost match, and on from its end.  A match begins at every start
\* that the matches before it have not gone beyond.
Candidates(pattern, seen) ==
  LET taken == CHOOSE taken \in SUBSET StartsIn(pattern, seen) :
                 \A i \in StartsIn(pattern, seen) :
                   i \in taken <=> \A j \in taken : j < i => LastOf(pattern, seen, j) < i
  IN  {[first |-> i, last |-> LastOf(pattern, seen, i)] : i \in taken}

\* An integration test repeats its work on purpose.
Intended(c, seen) ==
  \E i \in seen : /\ words[i].kind = "integration test"
                  /\ words[c.first].cstarts <= words[i].cstarts
                  /\ words[i].cends <= words[c.last].cends + SuppressorReach

\* Independent evidence of instability: a qualifier that is not the multiplicity.
Unstable(c, seen) ==
  \E q \in seen \ {c.last} : /\ words[q].kind \in Qualifiers
                             /\ words[c.first].cstarts <= words[q].cstarts + DuplicateWorkContext
                             /\ words[q].cends <= words[c.last].cends + DuplicateWorkContext

HasDuplicateWorkOutcome(seen) ==
  \E pattern \in {"same job runs", "job runs same"} :
    \E c \in Candidates(pattern, seen) : ~Intended(c, seen) /\ Unstable(c, seen)

Costly(seen) == (\E p \in HighRiskOutcomes : Describes(seen, p)) \/ HasDuplicateWorkOutcome(seen)

Step == PatternScanCharacters - PatternScanOverlap

\* _scan_windows stops with the first window that reaches the end.
WindowStarts(n) ==
  {Step * k : k \in {k \in 0..(n \div Step) : k = 0 \/ Step * (k - 1) + PatternScanCharacters < n}}

\* The windows are cut from the task as it was typed (seeded fault).
TypedView(start) ==
  {i \in DOMAIN words : start <= words[i].starts /\ words[i].ends <= start + PatternScanCharacters}

View(start) ==
  {i \in DOMAIN words : start <= words[i].cstarts /\ words[i].cends <= start + PatternScanCharacters}

HasHighRiskOutcome == \E start \in WindowStarts(compact) : Costly(View(start))

-------------------------------------------------------------------------------
(* classify_task_with_reason *)

Valid == words # <<>> /\ length <= MaxTaskCharacters

Decision(tier, reason) == [tier |-> tier, reason |-> reason]

\* The cheap signals of a short task with one instruction.
LowReason ==
  IF Has({"low signal"}) THEN {"low.mechanical"}
  ELSE IF HasMechanicalPair THEN {"low.mechanical_pair"}
  ELSE IF HasLowSubstitution THEN {"low.substitution"} ELSE {}

Classified ==
  IF Has({"floor"}) THEN Decision("high", "high.risk_floor")
  ELSE IF Has({"high signal"}) THEN Decision("high", "high.complexity_signal")
  ELSE IF HasHighRiskOutcome THEN Decision("high", "high.harmful_outcome")
  ELSE IF HasUncertainDiagnostic THEN Decision("high", "high.uncertain_diagnostic")
  ELSE IF length <= LowTaskCharacters /\ ~HasMultipleInstructions /\ LowReason # {}
  THEN Decision("low", CHOOSE r \in LowReason : TRUE)
  ELSE IF length >= HighTaskCharacters THEN Decision("standard", "standard.length_floor")
  ELSE Decision("standard", "standard.not_clearly_mechanical")

-------------------------------------------------------------------------------
(* Writing the task *)

ClassifierInit == script \in Scripts /\ words = <<>> /\ length = 0 /\ compact = 0

\* Leading whitespace is stripped; a run of whitespace collapses to one space.
Gap(gap) == IF words = <<>> THEN 0 ELSE gap
Collapsed(gap) == IF Gap(gap) = 0 THEN 0 ELSE 1

Placed(p) ==
  [kind |-> p.kind, starts |-> length + Gap(p.gap), ends |-> length + Gap(p.gap) + p.width,
   cstarts |-> compact + Collapsed(p.gap), cends |-> compact + Collapsed(p.gap) + p.width]

Write ==
  /\ script # <<>>
  /\ words' = Append(words, Placed(Head(script)))
  /\ length' = length + Gap(Head(script).gap) + Head(script).width
  /\ compact' = compact + Collapsed(Head(script).gap) + Head(script).width
  /\ script' = Tail(script)

ClassifierNext == Write

ClassifierSpec == ClassifierInit /\ [][ClassifierNext]_classifierVars

-------------------------------------------------------------------------------
(* Properties *)

\* Wherever a task of whatever length names a security failure, a hard subject, an
\* unexplained intermittent fault or an outcome that costs money, it is high: no
\* cheap word, no filler and no run of spaces around the description hides it.
DangerIsHigh ==
  Valid /\ \/ Has({"floor", "high signal"}) \/ HasUncertainDiagnostic
           \/ \E p \in HighRiskOutcomes : Describes(DOMAIN words, p)
  => Classified.tier = "high"

\* Work that is done twice by accident is high when the task has one place where its
\* description may begin, wherever the windows cut the text around it.
LoneDuplicateIsHigh ==
  \A pattern \in {"same job runs", "job runs same"} :
    /\ Valid /\ \A i, j \in StartsIn(pattern, DOMAIN words) : i = j
    /\ \E c \in Candidates(pattern, DOMAIN words) :
         ~Intended(c, DOMAIN words) /\ Unstable(c, DOMAIN words)
    => Classified.tier = "high"

===============================================================================
