------------------------------- MODULE AnswersProofs ---------------------------
(***************************************************************************)
(* What weightclass answers, for every text, request and dialogue: no      *)
(* description of danger escapes the classifier, a command says what was   *)
(* asked and takes the task once, a policy that was accepted compiles for  *)
(* its own selectors, and the selector's own output is accepted and is     *)
(* what its user answered.                                                 *)
(***************************************************************************)
EXTENDS TaskClassifier, RouteArgv, Selector, FiniteSetTheorems, WellFoundedInduction, TLAPS

-------------------------------------------------------------------------------
(* The classifier *)

\* What writing preserves: words lie inside the text, and those of an outcome are short.
Placement ==
  /\ script \in Seq(Pieces) /\ words \in Seq(PlacedWords)
  /\ length \in Nat /\ compact \in Nat
  /\ \A i \in DOMAIN words :
       /\ words[i].cstarts < words[i].cends /\ words[i].cends <= compact
       /\ words[i].kind \in OutcomeKinds \cup DuplicateKinds
            => words[i].cends <= words[i].cstarts + MaxOutcomeWidth
  /\ \A i, j \in DOMAIN words : i < j => words[i].cends <= words[j].cstarts
  \* Between two words there is a space at most, and behind the last one nothing.
  /\ \A i \in DOMAIN words : i + 1 \in DOMAIN words => words[i + 1].cstarts <= words[i].cends + 1
  /\ words # <<>> => words[Len(words)].cends = compact

\* Whatever is no longer than the overlap lies within one window of the scan.
LEMMA SomeWindowCovers ==
  ASSUME NEW n \in Nat, NEW a \in Nat, NEW b \in Nat,
         a < b, b <= n, b <= a + PatternScanOverlap
  PROVE  \E start \in WindowStarts(n) : start \in Nat /\ start <= a /\ b <= start + PatternScanCharacters
<1> DEFINE k == a \div 800
<1>1. k \in Nat /\ 800 * k <= a /\ a < 800 * k + 800 /\ k <= n \div 800
  BY SMT DEF PatternScanOverlap
<1>2. CASE k = 0 \/ 800 * (k - 1) + 1200 < n
  <2>1. 800 * k \in WindowStarts(n)
    <3>1. k \in {j \in 0..(n \div Step) : j = 0 \/ Step * (j - 1) + PatternScanCharacters < n}
      BY <1>1, <1>2, SMT DEF Step, PatternScanCharacters, PatternScanOverlap
    <3> QED BY <3>1 DEF WindowStarts, Step, PatternScanCharacters, PatternScanOverlap
  <2>2. 800 * k <= a /\ b <= 800 * k + PatternScanCharacters /\ 800 * k \in Nat
    BY <1>1, SMT DEF PatternScanCharacters, PatternScanOverlap
  <2> QED BY <2>1, <2>2
\* Otherwise the window before already reaches the end of the text.
<1>3. CASE k # 0 /\ ~(800 * (k - 1) + 1200 < n)
  <2> DEFINE j == k - 1
  <2>1. j \in 0..(n \div 800) /\ (j = 0 \/ 800 * (j - 1) + 1200 < n)
    BY <1>1, <1>3, SMT
  <2>2. 800 * j \in WindowStarts(n)
    <3>1. j \in {i \in 0..(n \div Step) : i = 0 \/ Step * (i - 1) + PatternScanCharacters < n}
      BY <2>1, SMT DEF Step, PatternScanCharacters, PatternScanOverlap
    <3> QED BY <3>1 DEF WindowStarts, Step, PatternScanCharacters, PatternScanOverlap
  <2>3. 800 * j <= a /\ b <= 800 * j + PatternScanCharacters /\ 800 * j \in Nat
    BY <1>1, <1>3, SMT DEF PatternScanCharacters
  <2> QED BY <2>2, <2>3
<1> QED BY <1>1, <1>2, <1>3

\* The three words of an outcome are seen together in some window.
LEMMA OutcomeIsSeen ==
  ASSUME Placement, NEW p \in HighRiskOutcomes, Describes(DOMAIN words, p)
  PROVE  HasHighRiskOutcome
<1>1. PICK x \in DOMAIN words, y \in DOMAIN words, z \in DOMAIN words :
        /\ words[x].kind \in p.first /\ words[y].kind \in p.second /\ words[z].kind \in p.third
        /\ Within(x, y, p.near) /\ Within(y, z, p.far)
  BY DEF Describes
<1>2. p.near \in Nat /\ p.far \in Nat /\ p.near + p.far <= 120
  <2>1. CASE p = Outcome({"account"}, 80, {"charged"}, 32, Multiplicity)
    <3>1. p.near = 80 /\ p.far = 32
      BY <2>1, Zenon DEF Outcome
    <3> QED BY <3>1
  <2>2. CASE p = Outcome({"balance"}, 80, {"turns"}, 32, {"negative"})
    <3>1. p.near = 80 /\ p.far = 32
      BY <2>2, Zenon DEF Outcome
    <3> QED BY <3>1
  <2>3. CASE p = Outcome({"same work"}, 80, {"duplicate"}, 40, {"executed"})
    <3>1. p.near = 80 /\ p.far = 40
      BY <2>3, Zenon DEF Outcome
    <3> QED BY <3>1
  <2>4. CASE p = Outcome({"funds"}, 40, {"sometimes"}, 40, {"below zero"})
    <3>1. p.near = 40 /\ p.far = 40
      BY <2>4, Zenon DEF Outcome
    <3> QED BY <3>1
  <2>5. CASE p = Outcome({"funds"}, 40, {"below zero"}, 32, {"falls"})
    <3>1. p.near = 40 /\ p.far = 32
      BY <2>5, Zenon DEF Outcome
    <3> QED BY <3>1
  <2> QED BY <2>1, <2>2, <2>3, <2>4, <2>5, Zenon DEF HighRiskOutcomes
<1>kinds. /\ words[x].kind \in OutcomeKinds /\ words[y].kind \in OutcomeKinds
       /\ words[z].kind \in OutcomeKinds
  BY <1>1, Zenon DEF OutcomeKinds
<1>3. words[x] \in PlacedWords /\ words[y] \in PlacedWords /\ words[z] \in PlacedWords
  <2>1. words \in [1..Len(words) -> PlacedWords] /\ DOMAIN words = 1..Len(words)
    BY DEF Placement
  <2> QED BY <1>1, <2>1
<1> DEFINE a == words[x].cstarts
           b == words[z].cends
<1>4. /\ a \in Nat /\ words[x].cends \in Nat /\ words[y].cstarts \in Nat /\ words[y].cends \in Nat
      /\ words[z].cstarts \in Nat /\ b \in Nat /\ compact \in Nat
  BY <1>3 DEF PlacedWords, Placement
<1>5. /\ a < words[x].cends /\ words[x].cends <= a + 16
      /\ words[y].cstarts < words[y].cends /\ words[y].cends <= words[y].cstarts + 16
      /\ words[z].cstarts < b /\ b <= words[z].cstarts + 16 /\ b <= compact
  BY <1>1, <1>kinds DEF Placement, MaxOutcomeWidth
<1>6. /\ words[x].cends <= words[y].cstarts /\ words[y].cstarts <= words[x].cends + p.near
      /\ words[y].cends <= words[z].cstarts /\ words[z].cstarts <= words[y].cends + p.far
  BY <1>1 DEF Within
<1>7. a < b /\ b <= a + PatternScanOverlap
  BY <1>2, <1>4, <1>5, <1>6, SMT DEF PatternScanOverlap
<1>8. PICK start \in WindowStarts(compact) :
        start \in Nat /\ start <= a /\ b <= start + PatternScanCharacters
  BY <1>4, <1>5, <1>7, SomeWindowCovers
<1>9. x \in View(start) /\ y \in View(start) /\ z \in View(start)
  BY <1>1, <1>4, <1>5, <1>6, <1>8, SMT DEF View, PatternScanCharacters
<1>11. Describes(View(start), p)
  BY <1>1, <1>9 DEF Describes
<1> QED BY <1>8, <1>11 DEF HasHighRiskOutcome, Costly

\* The verdict is high as soon as one of the four checks fires.
LEMMA PlacementImpliesDangerIsHigh == ASSUME Placement PROVE DangerIsHigh
<1> SUFFICES ASSUME \/ Has({"floor", "high signal"}) \/ HasUncertainDiagnostic
                    \/ \E p \in HighRiskOutcomes : Describes(DOMAIN words, p)
             PROVE  Classified.tier = "high"
  BY DEF DangerIsHigh
<1>1. CASE Has({"floor", "high signal"})
  <2>1. Has({"floor"}) \/ Has({"high signal"})
    BY <1>1 DEF Has
  <2> QED BY <2>1 DEF Classified, Decision
<1>2. CASE HasUncertainDiagnostic
  BY <1>2 DEF Classified, Decision
<1>3. CASE \E p \in HighRiskOutcomes : Describes(DOMAIN words, p)
  <2>1. HasHighRiskOutcome
    BY <1>3, OutcomeIsSeen
  <2> QED BY <2>1 DEF Classified, Decision
<1> QED BY <1>1, <1>2, <1>3

\* Each word is placed behind the ones before it.
LEMMA WritingPlaces == ASSUME Placement, [ClassifierNext]_classifierVars PROVE Placement'
<1>1. CASE UNCHANGED classifierVars
  BY <1>1 DEF Placement, classifierVars
<1>2. CASE Write
  <2> DEFINE p == Head(script)
  <2>1. p \in Pieces /\ Tail(script) \in Seq(Pieces)
    BY <1>2 DEF Write, Placement
  <2>2. /\ p.kind \in WordKinds /\ p.width \in Nat /\ p.width > 0 /\ p.gap \in Nat
        /\ p.kind \in OutcomeKinds \cup DuplicateKinds => p.width <= MaxOutcomeWidth
    BY <2>1 DEF Pieces
  <2>3. Gap(p.gap) \in Nat /\ Collapsed(p.gap) \in Nat
    BY <2>2 DEF Gap, Collapsed
  <2>4. Placed(p) \in PlacedWords
    <3> DEFINE a == length + Gap(p.gap)
               b == length + Gap(p.gap) + p.width
               c == compact + Collapsed(p.gap)
               d == compact + Collapsed(p.gap) + p.width
    <3>1. p.width \in Nat /\ length \in Nat /\ compact \in Nat
      BY <2>2 DEF Placement
    <3>2. a \in Nat /\ b \in Nat /\ c \in Nat /\ d \in Nat
      <4> HIDE DEF p
      <4> QED BY <2>3, <3>1
    <3>3. Placed(p) = [kind |-> p.kind, starts |-> a, ends |-> b, cstarts |-> c, cends |-> d]
      BY Zenon DEF Placed
    <3>4. p.kind \in WordKinds
      BY <2>2
    <3> HIDE DEF p, a, b, c, d
    <3> QED BY <3>2, <3>3, <3>4 DEF PlacedWords
  <2>5. words' \in Seq(PlacedWords) /\ length' \in Nat /\ compact' \in Nat /\ script' \in Seq(Pieces)
    <3>1. words' = Append(words, Placed(p)) /\ script' = Tail(script)
      BY <1>2 DEF Write
    <3>2. /\ length' = length + Gap(p.gap) + p.width
          /\ compact' = compact + Collapsed(p.gap) + p.width
      BY <1>2 DEF Write
    <3>3. p.width \in Nat /\ length \in Nat /\ compact \in Nat
      BY <2>2 DEF Placement
    <3>4. words \in Seq(PlacedWords)
      BY DEF Placement
    <3> HIDE DEF p
    <3>5. words' \in Seq(PlacedWords)
      BY <2>4, <3>1, <3>4
    <3>6. length' \in Nat /\ compact' \in Nat
      BY <2>3, <3>2, <3>3
    <3> QED
      BY <2>1, <3>1, <3>5, <3>6
  <2>6. compact <= compact' /\ Placed(p).cstarts < Placed(p).cends /\ Placed(p).cends <= compact'
        /\ Placed(p).cends = Placed(p).cstarts + p.width /\ Placed(p).kind = p.kind
    <3>1. compact \in Nat /\ compact' = compact + Collapsed(p.gap) + p.width
      BY <1>2 DEF Write, Placement
    <3>2. /\ Placed(p).cstarts = compact + Collapsed(p.gap) /\ Placed(p).kind = p.kind
          /\ Placed(p).cends = compact + Collapsed(p.gap) + p.width
      BY DEF Placed
    <3> HIDE DEF p
    <3> QED BY <2>2, <2>3, <3>1, <3>2
  <2>7. ASSUME NEW i \in DOMAIN words'
        PROVE  /\ words'[i].cstarts < words'[i].cends /\ words'[i].cends <= compact'
               /\ words'[i].kind \in OutcomeKinds \cup DuplicateKinds
                    => words'[i].cends <= words'[i].cstarts + MaxOutcomeWidth
    <3>1. /\ Len(words) \in Nat /\ DOMAIN words = 1..Len(words)
          /\ DOMAIN words' = 1..(Len(words) + 1)
          /\ \A j \in 1..Len(words) : words'[j] = words[j] /\ words[j] \in PlacedWords
          /\ words'[Len(words) + 1] = Placed(p)
      BY <1>2, <2>4 DEF Write, Placement
    <3>2. CASE i = Len(words) + 1
      BY <2>2, <2>4, <2>6, <3>1, <3>2 DEF PlacedWords, MaxOutcomeWidth
    <3>3. CASE i \in 1..Len(words)
      <4>1. words'[i] = words[i] /\ words[i] \in PlacedWords /\ i \in DOMAIN words
        BY <3>1, <3>3
      <4>2. /\ words[i].cstarts < words[i].cends /\ words[i].cends <= compact
            /\ words[i].kind \in OutcomeKinds \cup DuplicateKinds
                 => words[i].cends <= words[i].cstarts + MaxOutcomeWidth
        BY <4>1 DEF Placement
      <4>3. words[i].cends \in Nat /\ compact \in Nat
        BY <4>1 DEF PlacedWords, Placement
      <4> QED BY <4>1, <4>2, <4>3, <2>5, <2>6
    <3> QED BY <3>1, <3>2, <3>3
  <2>8. /\ Len(words) \in Nat /\ DOMAIN words = 1..Len(words) /\ Len(words') = Len(words) + 1
        /\ DOMAIN words' = 1..(Len(words) + 1)
        /\ \A j \in 1..Len(words) : words'[j] = words[j] /\ words[j] \in PlacedWords
        /\ words'[Len(words) + 1] = Placed(p)
    BY <1>2, <2>4 DEF Write, Placement
  <2>9. /\ compact \in Nat /\ compact <= Placed(p).cstarts /\ Placed(p).cstarts <= compact + 1
        /\ Placed(p).cends = compact'
    <3>1. compact \in Nat /\ compact' = compact + Collapsed(p.gap) + p.width
      BY <1>2 DEF Write, Placement
    <3>2. /\ Placed(p).cstarts = compact + Collapsed(p.gap)
          /\ Placed(p).cends = compact + Collapsed(p.gap) + p.width
      BY DEF Placed
    <3>3. Collapsed(p.gap) \in {0, 1}
      BY DEF Collapsed
    <3> HIDE DEF p
    <3> QED BY <2>2, <3>1, <3>2, <3>3
  <2> HIDE DEF p
  <2>10. ASSUME NEW i \in DOMAIN words', NEW j \in DOMAIN words', i < j
         PROVE  words'[i].cends <= words'[j].cstarts
    <3>1. i \in DOMAIN words /\ words'[i] = words[i] /\ words[i].cends <= compact /\ words[i] \in PlacedWords
      BY <2>8, <2>10 DEF Placement
    <3>2. CASE j \in DOMAIN words
      BY <2>8, <2>10, <3>1, <3>2 DEF Placement
    <3>3. CASE j \notin DOMAIN words
      <4>1. words'[j] = Placed(p)
        BY <2>8, <3>3
      <4>2. words[i].cends \in Nat /\ Placed(p).cstarts \in Nat
        BY <2>4, <3>1 DEF PlacedWords
      <4> QED BY <2>9, <3>1, <4>1, <4>2
    <3> QED BY <3>2, <3>3
  <2>11. ASSUME NEW i \in DOMAIN words', i + 1 \in DOMAIN words'
         PROVE  words'[i + 1].cstarts <= words'[i].cends + 1
    <3>1. i \in DOMAIN words /\ words'[i] = words[i]
      BY <2>8, <2>11
    <3>2. CASE i + 1 \in DOMAIN words
      BY <2>8, <3>1, <3>2 DEF Placement
    <3>3. CASE i + 1 \notin DOMAIN words
      <4>1. i = Len(words) /\ words # <<>>
        BY <2>8, <3>1, <3>3
      <4>2. words[i].cends = compact /\ words'[i + 1] = Placed(p)
        BY <2>8, <4>1 DEF Placement
      <4> QED BY <2>9, <3>1, <4>2
    <3> QED BY <3>2, <3>3
  <2>12. words'[Len(words')].cends = compact'
    BY <2>8, <2>9
  <2> QED BY <2>5, <2>7, <2>10, <2>11, <2>12 DEF Placement
<1> QED BY <1>1, <1>2 DEF ClassifierNext

LEMMA WordsArePlaced == ClassifierSpec => []Placement
<1>1. ClassifierInit => Placement
  BY ScriptsAssumption DEF ClassifierInit, Placement
<1>2. Placement /\ [ClassifierNext]_classifierVars => Placement'
  BY WritingPlaces
<1> QED
  BY <1>1, <1>2, PTL DEF ClassifierSpec

\* A text that names a security failure, a hard subject, an unexplained intermittent
\* fault or a costly outcome is high, whatever surrounds it and however long it is.
THEOREM DangerIsAlwaysHigh == ClassifierSpec => []DangerIsHigh
<1>1. Placement => DangerIsHigh
  BY PlacementImpliesDangerIsHigh
<1> QED
  BY <1>1, WordsArePlaced, PTL

\* Induction over the subsets of a finite set: a smallest one of a kind.
LEMMA SmallestSet ==
  ASSUME NEW D, IsFiniteSet(D), NEW T, T \subseteq SUBSET D, T # {}
  PROVE  \E x \in T : \A y \in T : y \subseteq x => y = x
<1>1. IsWellFoundedOn(StrictSubsetOrdering(D), SUBSET D)
  BY FS_FiniteSubsetsOfFinite, FS_StrictSubsetOrderingWellFounded
<1>2. PICK x \in T : \A y \in T : ~ (<<y, x>> \in StrictSubsetOrdering(D))
  BY <1>1, WFMin
<1> QED
  BY <1>2 DEF StrictSubsetOrdering

\* The last of some words.
LEMMA LastWord ==
  ASSUME NEW L \in Nat, NEW X \in SUBSET (1..L), X # {}
  PROVE  \E m \in X : \A n \in X : n <= m
<1> DEFINE T == {m..L : m \in X}
<1>1. IsFiniteSet(1..L) /\ T \subseteq SUBSET (1..L) /\ T # {}
  <2>1. IsFiniteSet(1..L)
    BY FS_Interval
  <2>2. \A m \in X : m..L \subseteq 1..L
    OBVIOUS
  <2> QED
    BY <2>1, <2>2
<1>2. PICK x \in T : \A y \in T : y \subseteq x => y = x
  <2> DEFINE D == 1..L
  <2>1. IsFiniteSet(D) /\ T \subseteq SUBSET D /\ T # {}
    BY <1>1
  <2> HIDE DEF D, T
  <2> QED
    BY <2>1, SmallestSet
<1>3. PICK m \in X : x = m..L
  BY <1>2
<1>4. ASSUME NEW n \in X, n > m
      PROVE  FALSE
  <2>1. n..L \in T /\ n..L \subseteq x
    BY <1>3, <1>4
  <2>2. n..L = m..L
    BY <1>2, <1>3, <2>1
  <2>3. m \in m..L /\ m \notin n..L
    BY <1>4
  <2> QED
    BY <2>2, <2>3
<1>5. \A n \in X : n \in Nat
  OBVIOUS
<1> QED
  BY <1>4, <1>5

\* Of two matches, the one a greedy pattern prefers.
Beats(m, n) == \E k \in DOMAIN m : n[k] < m[k] /\ \A j \in 1..(k - 1) : n[j] = m[j]

Preferred(m, matches) == m \in matches /\ \A n \in matches \ {m} : Beats(m, n)

LEMMA GreedyIsPreferred ==
  ASSUME NEW matches
  PROVE  Greedy(matches) = CHOOSE m : Preferred(m, matches)
BY DEF Greedy, Preferred, Beats

\* There is one that is preferred among the pairs, and among the triples.
LEMMA PreferredPair ==
  ASSUME NEW L \in Nat, NEW M \in SUBSET ((1..L) \X (1..L)), M # {}
  PROVE  \E m \in M : Preferred(m, M)
<1> DEFINE A == {m[1] : m \in M}
<1>1. PICK a \in A : \A x \in A : x <= a
  <2>1. A \in SUBSET (1..L) /\ A # {}
    OBVIOUS
  <2> HIDE DEF A
  <2> QED
    BY <2>1, LastWord
<1> DEFINE B == {m[2] : m \in {n \in M : n[1] = a}}
<1>2. PICK b \in B : \A x \in B : x <= b
  <2>1. B \in SUBSET (1..L) /\ B # {}
    OBVIOUS
  <2> HIDE DEF A, B
  <2> QED
    BY <2>1, LastWord
<1>3. PICK m \in M : m[1] = a /\ m[2] = b
  OBVIOUS
<1>4. ASSUME NEW n \in M, n # m
      PROVE  Beats(m, n)
  <2>1. /\ DOMAIN m = 1..2 /\ n[1] \in 1..L /\ n[2] \in 1..L /\ m[1] \in 1..L /\ m[2] \in 1..L
        /\ m = <<m[1], m[2]>> /\ n = <<n[1], n[2]>>
    OBVIOUS
  <2>2. n[1] <= m[1] /\ (n[1] = m[1] => n[2] <= m[2])
    BY <1>1, <1>2, <1>3, <1>4
  <2>3. n[1] # m[1] \/ n[2] # m[2]
    BY <1>4, <2>1
  <2>4. CASE n[1] # m[1]
    BY <2>1, <2>2, <2>4 DEF Beats
  <2>5. CASE n[1] = m[1]
    <3>1. n[2] < m[2] /\ 2 \in DOMAIN m /\ \A j \in 1..(2 - 1) : n[j] = m[j]
      BY <2>1, <2>2, <2>3, <2>5
    <3> QED
      BY <3>1 DEF Beats
  <2> QED
    BY <2>4, <2>5
<1> QED
  BY <1>4 DEF Preferred

LEMMA PreferredTriple ==
  ASSUME NEW L \in Nat, NEW M \in SUBSET ((1..L) \X (1..L) \X (1..L)), M # {}
  PROVE  \E m \in M : Preferred(m, M)
<1> DEFINE A == {m[1] : m \in M}
<1>1. PICK a \in A : \A x \in A : x <= a
  <2>1. A \in SUBSET (1..L) /\ A # {}
    OBVIOUS
  <2> HIDE DEF A
  <2> QED
    BY <2>1, LastWord
<1> DEFINE B == {m[2] : m \in {n \in M : n[1] = a}}
<1>2. PICK b \in B : \A x \in B : x <= b
  <2>1. B \in SUBSET (1..L) /\ B # {}
    OBVIOUS
  <2> HIDE DEF A, B
  <2> QED
    BY <2>1, LastWord
<1> DEFINE C == {m[3] : m \in {n \in M : n[1] = a /\ n[2] = b}}
<1>3. PICK c \in C : \A x \in C : x <= c
  <2>1. C \in SUBSET (1..L) /\ C # {}
    OBVIOUS
  <2> HIDE DEF A, B, C
  <2> QED
    BY <2>1, LastWord
<1>4. PICK m \in M : m[1] = a /\ m[2] = b /\ m[3] = c
  OBVIOUS
<1>5. ASSUME NEW n \in M, n # m
      PROVE  Beats(m, n)
  <2>1. /\ DOMAIN m = 1..3 /\ n[1] \in 1..L /\ n[2] \in 1..L /\ n[3] \in 1..L
        /\ m[1] \in 1..L /\ m[2] \in 1..L /\ m[3] \in 1..L
        /\ m = <<m[1], m[2], m[3]>> /\ n = <<n[1], n[2], n[3]>>
    OBVIOUS
  <2>2. /\ n[1] <= m[1] /\ (n[1] = m[1] => n[2] <= m[2])
        /\ (n[1] = m[1] /\ n[2] = m[2] => n[3] <= m[3])
    BY <1>1, <1>2, <1>3, <1>4, <1>5
  <2>3. n[1] # m[1] \/ n[2] # m[2] \/ n[3] # m[3]
    BY <1>5, <2>1
  <2>4. CASE n[1] # m[1]
    BY <2>1, <2>2, <2>4 DEF Beats
  <2>5. CASE n[1] = m[1] /\ n[2] # m[2]
    <3>1. n[2] < m[2] /\ 2 \in DOMAIN m /\ \A j \in 1..(2 - 1) : n[j] = m[j]
      BY <2>1, <2>2, <2>5
    <3> QED
      BY <3>1 DEF Beats
  <2>6. CASE n[1] = m[1] /\ n[2] = m[2]
    <3>1. n[3] < m[3] /\ 3 \in DOMAIN m /\ \A j \in 1..(3 - 1) : n[j] = m[j]
      BY <2>1, <2>2, <2>3, <2>6
    <3> QED
      BY <3>1 DEF Beats
  <2> QED
    BY <2>4, <2>5, <2>6
<1> QED
  BY <1>5 DEF Preferred

\* There is no other: of two matches, one does not beat the other and is beaten by it.
LEMMA BeatsOneWay ==
  ASSUME NEW K \in {2, 3}, NEW m, NEW n, DOMAIN m = 1..K, DOMAIN n = 1..K,
         \A k \in 1..K : m[k] \in Nat /\ n[k] \in Nat, Beats(m, n)
  PROVE  ~Beats(n, m)
<1>1. PICK k \in 1..K : n[k] < m[k] /\ \A j \in 1..(k - 1) : n[j] = m[j]
  BY DEF Beats
<1>2. ASSUME NEW i \in 1..K, m[i] < n[i], \A j \in 1..(i - 1) : m[j] = n[j]
      PROVE  FALSE
  <2>1. i < k \/ k < i \/ i = k
    OBVIOUS
  <2>2. CASE i < k
    BY <1>1, <1>2, <2>2
  <2>3. CASE k < i
    BY <1>1, <1>2, <2>3
  <2>4. CASE i = k
    BY <1>1, <1>2, <2>4
  <2> QED
    BY <2>1, <2>2, <2>3, <2>4
<1> QED
  BY <1>2 DEF Beats

-------------------------------------------------------------------------------
(* Work that is done twice by accident *)

DuplicatePatterns == {"same job runs", "job runs same"}

\* Where a word lies, and how long one is that says that work is done twice.
LEMMA WordFacts ==
  ASSUME Placement, NEW i \in DOMAIN words
  PROVE  /\ words[i].cstarts \in Nat /\ words[i].cends \in Nat /\ words[i].cstarts < words[i].cends
         /\ words[i].cends <= compact /\ compact \in Nat /\ i \in 1..Len(words) /\ Len(words) \in Nat
         /\ words[i].kind \in {"same", "job", "runs", "again", "sometimes", "twice", "multiple times"} =>
              words[i].cends <= words[i].cstarts + 16
<1>1. words \in Seq(PlacedWords) /\ words[i] \in PlacedWords
  BY DEF Placement
<1>2. {"same", "job", "runs", "again"} \subseteq DuplicateKinds
  BY DEF DuplicateKinds
<1>3. {"sometimes", "twice", "multiple times"} \subseteq OutcomeKinds
  <2>1. Outcome({"account"}, 80, {"charged"}, 32, Multiplicity).third = Multiplicity
        /\ Outcome({"funds"}, 40, {"sometimes"}, 40, {"below zero"}).second = {"sometimes"}
    BY DEF Outcome
  <2> DEFINE o == Outcome({"account"}, 80, {"charged"}, 32, Multiplicity)
             f == Outcome({"funds"}, 40, {"sometimes"}, 40, {"below zero"})
  <2>2. o \in HighRiskOutcomes /\ f \in HighRiskOutcomes
    BY DEF HighRiskOutcomes
  <2>3. o.third = Multiplicity /\ f.second = {"sometimes"}
    BY <2>1
  <2> HIDE DEF o, f
  <2>4. Multiplicity \subseteq OutcomeKinds /\ {"sometimes"} \subseteq OutcomeKinds
    BY <2>2, <2>3 DEF OutcomeKinds
  <2> QED
    BY <2>4 DEF Multiplicity
<1>4. words[i].kind \in {"same", "job", "runs", "again", "sometimes", "twice", "multiple times"} =>
        words[i].kind \in OutcomeKinds \cup DuplicateKinds
  BY <1>2, <1>3
<1>5. words[i].cstarts \in Nat /\ words[i].cends \in Nat /\ compact \in Nat
      /\ i \in 1..Len(words) /\ Len(words) \in Nat
  <2>1. words[i].cstarts \in Nat /\ words[i].cends \in Nat
    BY <1>1 DEF PlacedWords
  <2>2. compact \in Nat
    BY DEF Placement
  <2>3. i \in 1..Len(words) /\ Len(words) \in Nat
    BY <1>1
  <2> QED
    BY <2>1, <2>2, <2>3
<1>6. /\ words[i].cstarts < words[i].cends /\ words[i].cends <= compact
      /\ words[i].kind \in OutcomeKinds \cup DuplicateKinds => words[i].cends <= words[i].cstarts + 16
  BY DEF Placement, MaxOutcomeWidth
<1> QED
  BY <1>4, <1>5, <1>6

LEMMA WordRange == Placement => DOMAIN words = 1..Len(words) /\ Len(words) \in Nat
BY DEF Placement

\* A match lies between its first and its last word, and it is not long.
LEMMA SameJobRunsSpan ==
  ASSUME Placement, NEW i \in DOMAIN words, NEW m \in SameJobRuns(DOMAIN words, i)
  PROVE  /\ DOMAIN m = 1..2 /\ Len(m) = 2 /\ m[1] \in 1..Len(words) /\ m[2] \in 1..Len(words)
         /\ i + 1 \in DOMAIN words
         /\ \A w \in {i, i + 1, m[1], m[2]} :
              words[i].cstarts <= words[w].cstarts /\ words[w].cends <= words[m[2]].cends
         /\ words[m[2]].cends <= words[i].cstarts + 225
<1>1. /\ m \in RunsIn(DOMAIN words) \X TimesIn(DOMAIN words)
      /\ Same(DOMAIN words, i) /\ Within(i + 1, m[1], 80) /\ Within(m[1], m[2], 32)
  BY DEF SameJobRuns
<1>2. /\ m[1] \in DOMAIN words /\ m[2] \in DOMAIN words /\ words[m[1]].kind = "runs"
      /\ words[m[2]].kind \in Multiplicity /\ DOMAIN m = 1..2 /\ Len(m) = 2
  BY <1>1 DEF RunsIn, TimesIn
<1>3. /\ i + 1 \in DOMAIN words /\ words[i].kind = "same" /\ words[i + 1].kind = "job"
      /\ words[i].cends <= words[i + 1].cstarts /\ words[i + 1].cstarts <= words[i].cends + 1
  BY <1>1 DEF Same, Placement
<1> DEFINE p == m[1]
           q == m[2]
           j == i + 1
<1>4. /\ words[p].cstarts \in Nat /\ words[p].cends \in Nat /\ words[p].cstarts < words[p].cends
      /\ words[p].cends <= words[p].cstarts + 16
  BY <1>2, WordFacts
<1>5. /\ words[q].cstarts \in Nat /\ words[q].cends \in Nat /\ words[q].cstarts < words[q].cends
      /\ words[q].cends <= words[q].cstarts + 16
  BY <1>2, WordFacts DEF Multiplicity
<1>6. /\ words[i].cstarts \in Nat /\ words[i].cends \in Nat /\ words[i].cstarts < words[i].cends
      /\ words[i].cends <= words[i].cstarts + 16
  BY <1>3, WordFacts
<1>7. /\ words[j].cstarts \in Nat /\ words[j].cends \in Nat /\ words[j].cstarts < words[j].cends
      /\ words[j].cends <= words[j].cstarts + 16
  BY <1>3, WordFacts
<1>8. /\ words[j].cends <= words[p].cstarts /\ words[p].cstarts <= words[j].cends + 80
      /\ words[p].cends <= words[q].cstarts /\ words[q].cstarts <= words[p].cends + 32
  BY <1>1 DEF Within
<1>9. /\ words[i].cends <= words[j].cstarts /\ words[j].cstarts <= words[i].cends + 1
  BY <1>3
<1>10. p \in 1..Len(words) /\ q \in 1..Len(words)
  BY <1>2 DEF Placement
<1>11. DOMAIN m = 1..2 /\ Len(m) = 2 /\ p = m[1] /\ q = m[2] /\ j = i + 1 /\ j \in DOMAIN words
  BY <1>2, <1>3
<1> HIDE DEF p, q, j
<1>12. /\ words[i].cstarts <= words[j].cstarts /\ words[i].cstarts <= words[p].cstarts
       /\ words[i].cstarts <= words[q].cstarts /\ words[i].cends <= words[q].cends
       /\ words[j].cends <= words[q].cends /\ words[p].cends <= words[q].cends
       /\ words[q].cends <= words[i].cstarts + 225
  BY <1>4, <1>5, <1>6, <1>7, <1>8, <1>9
<1>13. \A w \in {i, j, p, q} : words[i].cstarts <= words[w].cstarts /\ words[w].cends <= words[q].cends
  <2>1. words[i].cstarts <= words[i].cstarts /\ words[q].cends <= words[q].cends
    BY <1>5, <1>6
  <2> QED
    BY <1>12, <2>1
<1> QED
  BY <1>10, <1>11, <1>12, <1>13

LEMMA JobRunsSameSpan ==
  ASSUME Placement, NEW i \in DOMAIN words, NEW m \in JobRunsSame(DOMAIN words, i)
  PROVE  /\ DOMAIN m = 1..3 /\ Len(m) = 3
         /\ m[1] \in 1..Len(words) /\ m[2] \in 1..Len(words) /\ m[3] \in 1..Len(words)
         /\ m[2] + 1 \in DOMAIN words
         /\ \A w \in {i, m[1], m[2], m[2] + 1, m[3]} :
              words[i].cstarts <= words[w].cstarts /\ words[w].cends <= words[m[3]].cends
         /\ words[m[3]].cends <= words[i].cstarts + 225
<1>1. /\ m \in RunsIn(DOMAIN words) \X (DOMAIN words) \X TimesIn(DOMAIN words)
      /\ words[i].kind = "job" /\ Same(DOMAIN words, m[2])
      /\ Within(i, m[1], 80) /\ Within(m[1], m[2], 32) /\ Within(m[2] + 1, m[3], 32)
  BY DEF JobRunsSame
<1>2. /\ m[1] \in DOMAIN words /\ m[2] \in DOMAIN words /\ m[3] \in DOMAIN words
      /\ words[m[1]].kind = "runs" /\ words[m[3]].kind \in Multiplicity /\ DOMAIN m = 1..3 /\ Len(m) = 3
  BY <1>1 DEF RunsIn, TimesIn
<1>3. /\ m[2] + 1 \in DOMAIN words /\ words[m[2]].kind = "same" /\ words[m[2] + 1].kind = "job"
      /\ words[m[2]].cends <= words[m[2] + 1].cstarts /\ words[m[2] + 1].cstarts <= words[m[2]].cends + 1
  BY <1>1, <1>2 DEF Same, Placement
<1> DEFINE p == m[1]
           q == m[2]
           j == m[2] + 1
           t == m[3]
<1>4. /\ words[p].cstarts \in Nat /\ words[p].cends \in Nat /\ words[p].cstarts < words[p].cends
      /\ words[p].cends <= words[p].cstarts + 16
  BY <1>2, WordFacts
<1>5. /\ words[q].cstarts \in Nat /\ words[q].cends \in Nat /\ words[q].cstarts < words[q].cends
      /\ words[q].cends <= words[q].cstarts + 16
  BY <1>2, <1>3, WordFacts
<1>6. /\ words[i].cstarts \in Nat /\ words[i].cends \in Nat /\ words[i].cstarts < words[i].cends
      /\ words[i].cends <= words[i].cstarts + 16
  BY <1>1, WordFacts
<1>7. /\ words[j].cstarts \in Nat /\ words[j].cends \in Nat /\ words[j].cstarts < words[j].cends
      /\ words[j].cends <= words[j].cstarts + 16
  BY <1>3, WordFacts
<1>8. /\ words[t].cstarts \in Nat /\ words[t].cends \in Nat /\ words[t].cstarts < words[t].cends
      /\ words[t].cends <= words[t].cstarts + 16
  BY <1>2, WordFacts DEF Multiplicity
<1>9. /\ words[i].cends <= words[p].cstarts /\ words[p].cstarts <= words[i].cends + 80
      /\ words[p].cends <= words[q].cstarts /\ words[q].cstarts <= words[p].cends + 32
      /\ words[j].cends <= words[t].cstarts /\ words[t].cstarts <= words[j].cends + 32
  BY <1>1 DEF Within
<1>10. /\ words[q].cends <= words[j].cstarts /\ words[j].cstarts <= words[q].cends + 1
  BY <1>3
<1>11. p \in 1..Len(words) /\ q \in 1..Len(words) /\ t \in 1..Len(words)
  BY <1>2 DEF Placement
<1>12. /\ DOMAIN m = 1..3 /\ Len(m) = 3 /\ p = m[1] /\ q = m[2] /\ j = m[2] + 1 /\ t = m[3]
       /\ j \in DOMAIN words
  BY <1>2, <1>3
<1> HIDE DEF p, q, j, t
<1>13. /\ words[i].cstarts <= words[j].cstarts /\ words[i].cstarts <= words[p].cstarts
       /\ words[i].cstarts <= words[q].cstarts /\ words[i].cstarts <= words[t].cstarts
       /\ words[i].cends <= words[t].cends /\ words[j].cends <= words[t].cends
       /\ words[p].cends <= words[t].cends /\ words[q].cends <= words[t].cends
       /\ words[t].cends <= words[i].cstarts + 225
  BY <1>4, <1>5, <1>6, <1>7, <1>8, <1>9, <1>10
<1>14. \A w \in {i, p, q, j, t} :
         words[i].cstarts <= words[w].cstarts /\ words[w].cends <= words[t].cends
  BY <1>6, <1>8, <1>13
<1> QED
  BY <1>11, <1>12, <1>13, <1>14

\* What a window shows of a match is a match, and the words of a match in a window are one.
LEMMA MatchesGrow ==
  ASSUME NEW pattern, NEW seen, seen \subseteq DOMAIN words, NEW i
  PROVE  MatchesAt(pattern, seen, i) \subseteq MatchesAt(pattern, DOMAIN words, i)
BY DEF MatchesAt, SameJobRuns, JobRunsSame, Same, RunsIn, TimesIn

Ends(pattern, m) == IF pattern = "same job runs" THEN m[2] ELSE m[3]

LEMMA MatchSpan ==
  ASSUME Placement, NEW pattern \in DuplicatePatterns, NEW i \in DOMAIN words,
         NEW m \in MatchesAt(pattern, DOMAIN words, i)
  PROVE  /\ m[Len(m)] = Ends(pattern, m) /\ Ends(pattern, m) \in DOMAIN words
         /\ words[i].cstarts < words[Ends(pattern, m)].cends
         /\ words[Ends(pattern, m)].cends <= words[i].cstarts + 225
<1>1. CASE pattern = "same job runs"
  <2>1. m \in SameJobRuns(DOMAIN words, i)
    BY <1>1 DEF MatchesAt
  <2>2. /\ Len(m) = 2 /\ m[2] \in 1..Len(words)
        /\ \A w \in {i, i + 1, m[1], m[2]} :
             words[i].cstarts <= words[w].cstarts /\ words[w].cends <= words[m[2]].cends
        /\ words[m[2]].cends <= words[i].cstarts + 225
    BY <2>1, SameJobRunsSpan
  <2>3. Ends(pattern, m) = m[2] /\ m[Len(m)] = m[2] /\ m[2] \in DOMAIN words
        /\ words[i].cends <= words[m[2]].cends /\ words[m[2]].cends <= words[i].cstarts + 225
    BY <1>1, <2>2, WordRange DEF Ends
  <2> DEFINE e == m[2]
  <2>4. Ends(pattern, m) = e /\ m[Len(m)] = e /\ e \in DOMAIN words
        /\ words[i].cends <= words[e].cends /\ words[e].cends <= words[i].cstarts + 225
    BY <2>3
  <2>5. words[i].cstarts < words[i].cends /\ words[i].cstarts \in Nat /\ words[i].cends \in Nat
    BY WordFacts
  <2> HIDE DEF e
  <2>6. words[e].cends \in Nat
    BY <2>4, WordFacts
  <2> QED
    BY <2>4, <2>5, <2>6
<1>2. CASE pattern = "job runs same"
  <2>1. m \in JobRunsSame(DOMAIN words, i)
    BY <1>2 DEF MatchesAt
  <2>2. /\ Len(m) = 3 /\ m[3] \in 1..Len(words)
        /\ \A w \in {i, m[1], m[2], m[2] + 1, m[3]} :
             words[i].cstarts <= words[w].cstarts /\ words[w].cends <= words[m[3]].cends
        /\ words[m[3]].cends <= words[i].cstarts + 225
    BY <2>1, JobRunsSameSpan
  <2>3. Ends(pattern, m) = m[3] /\ m[Len(m)] = m[3] /\ m[3] \in DOMAIN words
        /\ words[i].cends <= words[m[3]].cends /\ words[m[3]].cends <= words[i].cstarts + 225
    BY <1>2, <2>2, WordRange DEF Ends
  <2> DEFINE e == m[3]
  <2>4. Ends(pattern, m) = e /\ m[Len(m)] = e /\ e \in DOMAIN words
        /\ words[i].cends <= words[e].cends /\ words[e].cends <= words[i].cstarts + 225
    BY <2>3
  <2>5. words[i].cstarts < words[i].cends /\ words[i].cstarts \in Nat /\ words[i].cends \in Nat
    BY WordFacts
  <2> HIDE DEF e
  <2>6. words[e].cends \in Nat
    BY <2>4, WordFacts
  <2> QED
    BY <2>4, <2>5, <2>6
<1> QED
  BY <1>1, <1>2 DEF DuplicatePatterns

LEMMA MatchIsSeen ==
  ASSUME Placement, NEW pattern \in DuplicatePatterns, NEW i \in DOMAIN words,
         NEW m \in MatchesAt(pattern, DOMAIN words, i), NEW start \in Nat,
         start <= words[i].cstarts, words[Ends(pattern, m)].cends <= start + PatternScanCharacters
  PROVE  i \in View(start) /\ m \in MatchesAt(pattern, View(start), i)
<1> DEFINE seen == View(start)
           last == Ends(pattern, m)
<1>1. ASSUME NEW w \in DOMAIN words, words[i].cstarts <= words[w].cstarts, words[w].cends <= words[last].cends
      PROVE  w \in seen
  <2>1. words[last].cends \in Nat
    BY MatchSpan, WordFacts
  <2>2. /\ words[i].cstarts \in Nat /\ words[w].cstarts \in Nat /\ words[w].cends \in Nat
        /\ start + PatternScanCharacters \in Nat
    <3>1. words[i].cstarts \in Nat
      BY WordFacts
    <3>2. words[w].cstarts \in Nat /\ words[w].cends \in Nat
      BY WordFacts
    <3> QED
      BY <3>1, <3>2 DEF PatternScanCharacters
  <2>3. start <= words[w].cstarts /\ words[w].cends <= start + PatternScanCharacters
    <3> HIDE DEF last
    <3>1. words[last].cends <= start + PatternScanCharacters
      BY DEF last
    <3> QED
      BY <1>1, <2>1, <2>2, <3>1
  <2> QED
    BY <2>3 DEF View
<1>2. CASE pattern = "same job runs"
  <2>1. m \in SameJobRuns(DOMAIN words, i) /\ last = m[2]
    BY <1>2 DEF MatchesAt, Ends
  <2>2. i \in seen /\ i + 1 \in seen /\ m[1] \in seen /\ m[2] \in seen
    <3>1. /\ i + 1 \in DOMAIN words /\ m[1] \in DOMAIN words /\ m[2] \in DOMAIN words
          /\ \A w \in {i, i + 1, m[1], m[2]} :
               words[i].cstarts <= words[w].cstarts /\ words[w].cends <= words[last].cends
      BY <2>1, SameJobRunsSpan DEF Placement
    <3> HIDE DEF seen, last
    <3> QED
      BY <1>1, <3>1
  <2> HIDE DEF seen
  <2>3. m \in SameJobRuns(seen, i)
    <3>1. m \in RunsIn(DOMAIN words) \X TimesIn(DOMAIN words) /\ Same(DOMAIN words, i)
          /\ Within(i + 1, m[1], 80) /\ Within(m[1], m[2], 32)
      BY <2>1 DEF SameJobRuns
    <3>2. Same(seen, i)
      BY <2>2, <3>1 DEF Same
    <3>3. m \in RunsIn(seen) \X TimesIn(seen)
      BY <2>2, <3>1 DEF RunsIn, TimesIn
    <3> QED
      BY <3>1, <3>2, <3>3 DEF SameJobRuns
  <2> QED
    BY <1>2, <2>2, <2>3 DEF MatchesAt, seen
<1>3. CASE pattern = "job runs same"
  <2>1. m \in JobRunsSame(DOMAIN words, i) /\ last = m[3]
    BY <1>3 DEF MatchesAt, Ends
  <2>2. i \in seen /\ m[1] \in seen /\ m[2] \in seen /\ m[2] + 1 \in seen /\ m[3] \in seen
    <3>1. /\ m[2] + 1 \in DOMAIN words /\ m[1] \in DOMAIN words /\ m[2] \in DOMAIN words /\ m[3] \in DOMAIN words
          /\ \A w \in {i, m[1], m[2], m[2] + 1, m[3]} :
               words[i].cstarts <= words[w].cstarts /\ words[w].cends <= words[last].cends
      BY <2>1, JobRunsSameSpan DEF Placement
    <3> HIDE DEF seen, last
    <3> QED
      BY <1>1, <3>1
  <2> HIDE DEF seen
  <2>3. m \in JobRunsSame(seen, i)
    <3>1. /\ m \in RunsIn(DOMAIN words) \X (DOMAIN words) \X TimesIn(DOMAIN words)
          /\ words[i].kind = "job" /\ Same(DOMAIN words, m[2])
          /\ Within(i, m[1], 80) /\ Within(m[1], m[2], 32) /\ Within(m[2] + 1, m[3], 32)
      BY <2>1 DEF JobRunsSame
    <3>2. Same(seen, m[2])
      BY <2>2, <3>1 DEF Same
    <3>3. m \in RunsIn(seen) \X seen \X TimesIn(seen)
      BY <2>2, <3>1 DEF RunsIn, TimesIn
    <3> QED
      BY <3>1, <3>2, <3>3 DEF JobRunsSame
  <2> QED
    BY <1>3, <2>2, <2>3 DEF MatchesAt, seen
<1> QED
  BY <1>2, <1>3 DEF DuplicatePatterns

\* The pattern takes one match, and the same one from fewer that still have it.
LEMMA GreedyTakesOne ==
  ASSUME Placement, NEW pattern \in DuplicatePatterns, NEW i \in DOMAIN words,
         MatchesAt(pattern, DOMAIN words, i) # {}
  PROVE  Preferred(Greedy(MatchesAt(pattern, DOMAIN words, i)), MatchesAt(pattern, DOMAIN words, i))
<1> DEFINE M == MatchesAt(pattern, DOMAIN words, i)
           L == Len(words)
<1>1. L \in Nat /\ DOMAIN words = 1..L
  BY DEF Placement
<1>2. \E m \in M : Preferred(m, M)
  <2>1. CASE pattern = "same job runs"
    <3>1. M \in SUBSET ((1..L) \X (1..L))
      BY <1>1, <2>1 DEF MatchesAt, SameJobRuns, RunsIn, TimesIn
    <3> HIDE DEF M, L
    <3>2. M # {}
      BY DEF M
    <3> QED
      BY <1>1, <3>1, <3>2, PreferredPair
  <2>2. CASE pattern = "job runs same"
    <3>1. M \in SUBSET ((1..L) \X (1..L) \X (1..L))
      BY <1>1, <2>2 DEF MatchesAt, JobRunsSame, RunsIn, TimesIn
    <3> HIDE DEF M, L
    <3>2. M # {}
      BY DEF M
    <3> QED
      BY <1>1, <3>1, <3>2, PreferredTriple
  <2> QED
    BY <2>1, <2>2 DEF DuplicatePatterns
<1> HIDE DEF M
<1>3. Preferred(Greedy(M), M)
  BY <1>2, GreedyIsPreferred
<1> QED
  BY <1>3 DEF M

LEMMA OnePreferred ==
  ASSUME Placement, NEW pattern \in DuplicatePatterns, NEW i \in DOMAIN words,
         NEW g, NEW n, NEW M \in SUBSET MatchesAt(pattern, DOMAIN words, i), Preferred(g, M), Preferred(n, M)
  PROVE  g = n
<1> SUFFICES ASSUME g # n PROVE FALSE
  OBVIOUS
<1>1. /\ g \in MatchesAt(pattern, DOMAIN words, i) /\ n \in MatchesAt(pattern, DOMAIN words, i)
      /\ Beats(g, n) /\ Beats(n, g)
  BY DEF Preferred
<1>2. CASE pattern = "same job runs"
  <2>1. /\ DOMAIN g = 1..2 /\ DOMAIN n = 1..2 /\ g[1] \in Nat /\ g[2] \in Nat /\ n[1] \in Nat /\ n[2] \in Nat
    <3>1. g \in SameJobRuns(DOMAIN words, i) /\ n \in SameJobRuns(DOMAIN words, i)
      BY <1>1, <1>2 DEF MatchesAt
    <3>2. DOMAIN g = 1..2 /\ g[1] \in 1..Len(words) /\ g[2] \in 1..Len(words)
      BY <3>1, SameJobRunsSpan
    <3>3. DOMAIN n = 1..2 /\ n[1] \in 1..Len(words) /\ n[2] \in 1..Len(words)
      BY <3>1, SameJobRunsSpan
    <3> QED
      BY <3>2, <3>3, WordRange
  <2>2. \A k \in 1..2 : g[k] \in Nat /\ n[k] \in Nat
    BY <2>1
  <2> QED
    BY <1>1, <2>1, <2>2, BeatsOneWay
<1>3. CASE pattern = "job runs same"
  <2>1. /\ DOMAIN g = 1..3 /\ DOMAIN n = 1..3 /\ g[1] \in Nat /\ g[2] \in Nat /\ g[3] \in Nat
        /\ n[1] \in Nat /\ n[2] \in Nat /\ n[3] \in Nat
    <3>1. g \in JobRunsSame(DOMAIN words, i) /\ n \in JobRunsSame(DOMAIN words, i)
      BY <1>1, <1>3 DEF MatchesAt
    <3>2. DOMAIN g = 1..3 /\ g[1] \in 1..Len(words) /\ g[2] \in 1..Len(words) /\ g[3] \in 1..Len(words)
      BY <3>1, JobRunsSameSpan
    <3>3. DOMAIN n = 1..3 /\ n[1] \in 1..Len(words) /\ n[2] \in 1..Len(words) /\ n[3] \in 1..Len(words)
      BY <3>1, JobRunsSameSpan
    <3> QED
      BY <3>2, <3>3, WordRange
  <2>2. \A k \in 1..3 : g[k] \in Nat /\ n[k] \in Nat
    BY <2>1
  <2> QED
    BY <1>1, <2>1, <2>2, BeatsOneWay
<1> QED
  BY <1>2, <1>3 DEF DuplicatePatterns

LEMMA SameGreedy ==
  ASSUME Placement, NEW pattern \in DuplicatePatterns, NEW i \in DOMAIN words,
         NEW M, M \subseteq MatchesAt(pattern, DOMAIN words, i),
         Greedy(MatchesAt(pattern, DOMAIN words, i)) \in M
  PROVE  Greedy(M) = Greedy(MatchesAt(pattern, DOMAIN words, i))
<1> DEFINE A == MatchesAt(pattern, DOMAIN words, i)
           g == Greedy(A)
<1>1. Preferred(g, A) /\ g \in M
  BY GreedyTakesOne
<1>2. Preferred(g, M)
  BY <1>1 DEF Preferred
<1> HIDE DEF g
<1>3. Preferred(Greedy(M), M)
  BY <1>2, GreedyIsPreferred
<1>4. Greedy(M) = g
  BY <1>2, <1>3, OnePreferred
<1> QED
  BY <1>4 DEF g

\* What is left of finditer when there is one start at most.
LEMMA OneStart ==
  ASSUME NEW pattern, NEW seen, NEW s \in Nat, StartsIn(pattern, seen) \subseteq {s}
  PROVE  Candidates(pattern, seen)
           = {[first |-> i, last |-> LastOf(pattern, seen, i)] : i \in StartsIn(pattern, seen)}
<1> DEFINE S == StartsIn(pattern, seen)
           Ok(taken) == \A i \in S : i \in taken <=> \A j \in taken : j < i => LastOf(pattern, seen, j) < i
           taken == CHOOSE taken \in SUBSET S : Ok(taken)
<1>1. Ok(S)
  OBVIOUS
<1>2. \A t \in SUBSET S : Ok(t) => t = S
  OBVIOUS
<1>3. taken \in SUBSET S /\ Ok(taken)
  BY <1>1
<1>4. taken = S
  BY <1>2, <1>3
<1>5. Candidates(pattern, seen) = {[first |-> i, last |-> LastOf(pattern, seen, i)] : i \in taken}
  BY DEF Candidates
<1> QED
  BY <1>4, <1>5

\* A description with its qualifier lies in one window, which takes it for one too.
LEMMA LoneDuplicateIsSeen ==
  ASSUME Placement, NEW pattern \in DuplicatePatterns,
         \A i, j \in StartsIn(pattern, DOMAIN words) : i = j,
         NEW c \in Candidates(pattern, DOMAIN words),
         ~Intended(c, DOMAIN words), Unstable(c, DOMAIN words)
  PROVE  HasHighRiskOutcome
<1> DEFINE all == DOMAIN words
           M(i) == MatchesAt(pattern, all, i)
<1>1. PICK s \in all : StartsIn(pattern, all) = {s} /\ c = [first |-> s, last |-> LastOf(pattern, all, s)]
  <2>1. StartsIn(pattern, all) \subseteq all /\ all \subseteq Nat
    BY WordRange DEF StartsIn
  <2>2. StartsIn(pattern, all) # {}
    <3>1. ASSUME StartsIn(pattern, all) = {} PROVE Candidates(pattern, all) = {}
      BY <3>1, OneStart
    <3> QED
      BY <3>1
  <2>3. PICK s \in all : StartsIn(pattern, all) = {s}
    BY <2>1, <2>2
  <2>4. Candidates(pattern, all) = {[first |-> i, last |-> LastOf(pattern, all, i)] : i \in {s}}
    BY <2>1, <2>3, OneStart
  <2> QED
    BY <2>3, <2>4
<1> DEFINE g == Greedy(M(s))
           last == LastOf(pattern, all, s)
<1>2. /\ g \in M(s) /\ last = Ends(pattern, g) /\ last \in all
      /\ words[s].cstarts < words[last].cends /\ words[last].cends <= words[s].cstarts + 225
  <2>1. M(s) # {}
    BY <1>1 DEF StartsIn
  <2>2. g \in M(s)
    BY <2>1, GreedyTakesOne DEF Preferred
  <2>3. last = g[Len(g)]
    BY DEF LastOf
  <2> HIDE DEF g
  <2> QED
    BY <2>2, <2>3, MatchSpan
<1>3. c.first = s /\ c.last = last
  BY <1>1
<1> HIDE DEF g, last
<1>4. PICK q \in all \ {last} :
        /\ words[q].kind \in Qualifiers
        /\ words[s].cstarts <= words[q].cstarts + 160 /\ words[q].cends <= words[last].cends + 160
  BY <1>3 DEF Unstable, DuplicateWorkContext
<1>5. /\ words[q].cstarts \in Nat /\ words[q].cends \in Nat /\ words[q].cstarts < words[q].cends
      /\ words[q].cends <= words[q].cstarts + 16 /\ words[q].cends <= compact /\ compact \in Nat
  BY <1>4, WordFacts DEF Qualifiers
<1>6. words[s].cstarts \in Nat /\ words[last].cends \in Nat /\ words[last].cends <= compact
  <2>1. words[s].cstarts \in Nat
    BY <1>1, WordFacts
  <2>2. words[last].cends \in Nat /\ words[last].cends <= compact
    BY <1>2, WordFacts
  <2> QED
    BY <2>1, <2>2
<1> DEFINE a == IF words[q].cstarts < words[s].cstarts THEN words[q].cstarts ELSE words[s].cstarts
           b == IF words[last].cends < words[q].cends THEN words[q].cends ELSE words[last].cends
<1>7. /\ a \in Nat /\ b \in Nat /\ a < b /\ b <= compact /\ b <= a + PatternScanOverlap
      /\ a <= words[s].cstarts /\ a <= words[q].cstarts /\ words[last].cends <= b /\ words[q].cends <= b
  BY <1>2, <1>4, <1>5, <1>6 DEF PatternScanOverlap
<1> HIDE DEF a, b
<1>8. PICK start \in WindowStarts(compact) :
        start \in Nat /\ start <= a /\ b <= start + PatternScanCharacters
  BY <1>5, <1>7, SomeWindowCovers
<1> DEFINE seen == View(start)
<1>9. /\ start <= words[s].cstarts /\ words[last].cends <= start + PatternScanCharacters
      /\ start <= words[q].cstarts /\ words[q].cends <= start + PatternScanCharacters
  <2>1. start + PatternScanCharacters \in Nat
    BY <1>8 DEF PatternScanCharacters
  <2> QED
    BY <1>5, <1>6, <1>7, <1>8, <2>1
<1>10. seen \subseteq all /\ q \in seen /\ s \in seen /\ g \in MatchesAt(pattern, seen, s)
  <2>1. seen \subseteq all /\ q \in seen
    BY <1>4, <1>9 DEF View
  <2>2. words[Ends(pattern, g)].cends <= start + PatternScanCharacters
    BY <1>2, <1>9
  <2>3. s \in seen /\ g \in MatchesAt(pattern, seen, s)
    BY <1>1, <1>2, <1>8, <1>9, <2>2, MatchIsSeen
  <2> QED
    BY <2>1, <2>3
<1> HIDE DEF seen
<1>11. StartsIn(pattern, seen) = {s}
  <2>1. StartsIn(pattern, seen) \subseteq StartsIn(pattern, all)
    BY <1>10, MatchesGrow DEF StartsIn
  <2>2. s \in StartsIn(pattern, seen)
    BY <1>10 DEF StartsIn
  <2> QED
    BY <1>1, <2>1, <2>2
<1>12. LastOf(pattern, seen, s) = last
  <2>1. MatchesAt(pattern, seen, s) \subseteq M(s)
    BY <1>10, MatchesGrow
  <2>2. Greedy(MatchesAt(pattern, seen, s)) = Greedy(M(s))
    BY <1>1, <1>10, <2>1, SameGreedy DEF g
  <2> QED
    BY <2>2 DEF LastOf, last
<1>13. c \in Candidates(pattern, seen)
  <2>1. s \in Nat
    BY <1>1, WordRange
  <2>2. Candidates(pattern, seen) = {[first |-> i, last |-> LastOf(pattern, seen, i)] : i \in {s}}
    BY <1>11, <2>1, OneStart
  <2> QED
    BY <1>1, <1>12, <2>2 DEF last
<1>14. ~Intended(c, seen)
  BY <1>10 DEF Intended
<1>15. Unstable(c, seen)
  BY <1>3, <1>4, <1>10 DEF Unstable, DuplicateWorkContext
<1>16. Costly(seen)
  BY <1>13, <1>14, <1>15 DEF Costly, HasDuplicateWorkOutcome, DuplicatePatterns
<1> QED
  BY <1>8, <1>16 DEF HasHighRiskOutcome, seen

\* Work that is done twice by accident is high wherever the scan windows cut the text
\* around its one description (_scan_windows, _has_duplicate_work_outcome): the overlap
\* of the windows holds the longest description with its qualifier.
THEOREM LoneDuplicateIsAlwaysHigh == ClassifierSpec => []LoneDuplicateIsHigh
<1>1. Placement => LoneDuplicateIsHigh
  <2>1. HasHighRiskOutcome => Classified.tier = "high"
    BY DEF Classified, Decision
  <2> QED
    BY <2>1, LoneDuplicateIsSeen DEF LoneDuplicateIsHigh, DuplicatePatterns
<1> QED
  BY <1>1, WordsArePlaced, PTL

-------------------------------------------------------------------------------
(* The parser of a schema-3 policy and its compiler *)

SelectorOf(policy, route) ==
  [vendor |-> Source(policy, route).vendor, profile |-> route.source_profile_id,
   tier |-> route.tier]

\* In an accepted policy the entries a route names are there, and looking them
\* up by id finds them.
LEMMA Lookups ==
  ASSUME NEW policy, ValidPolicy(policy), NEW route \in policy.routes
  PROVE  /\ Source(policy, route) \in policy.profiles
         /\ Source(policy, route).id = route.source_profile_id
         /\ TargetOf(policy, route) \in policy.targets
         /\ TargetOf(policy, route).id = route.target_id
         /\ Destination(policy, route) \in policy.profiles
         /\ Destination(policy, route).id = TargetOf(policy, route).profile_id
         /\ Destination(policy, route).vendor = TargetOf(policy, route).vendor
         /\ <<route.model, route.effort>> \in TargetOf(policy, route).pairs
<1>1. RouteResolves(policy, route) /\ IdsDistinct(policy.profiles) /\ IdsDistinct(policy.targets)
  BY DEF ValidPolicy, UniqueIds
<1>2. Source(policy, route) \in policy.profiles /\ Source(policy, route).id = route.source_profile_id
  BY <1>1 DEF RouteResolves, Source, ById
<1>3. PICK t \in policy.targets :
        /\ t.id = route.target_id
        /\ \E p \in policy.profiles : p.id = t.profile_id /\ p.vendor = t.vendor
        /\ <<route.model, route.effort>> \in t.pairs
  BY <1>1 DEF RouteResolves
<1>4. TargetOf(policy, route) \in policy.targets /\ TargetOf(policy, route).id = route.target_id
  BY <1>3 DEF TargetOf, ById
<1>5. TargetOf(policy, route) = t
  BY <1>1, <1>3, <1>4 DEF IdsDistinct
<1>6. PICK p \in policy.profiles : p.id = t.profile_id /\ p.vendor = t.vendor
  BY <1>3
<1>7. /\ Destination(policy, route) \in policy.profiles
      /\ Destination(policy, route).id = t.profile_id
  BY <1>5, <1>6 DEF Destination, ById
<1>8. Destination(policy, route) = p
  BY <1>1, <1>6, <1>7 DEF IdsDistinct
<1> QED
  BY <1>2, <1>3, <1>4, <1>5, <1>6, <1>7, <1>8

\* In an accepted policy each crossing of a route has exactly one grant.
LEMMA Grants ==
  ASSUME NEW policy, ValidPolicy(policy), NEW route \in policy.routes
  PROVE  Authorized(policy, route)
<1>1. ASSUME CrossesProfile(policy, route)
      PROVE  \E g \in policy.profile_grants : ProfileGrantsFor(policy, route) = {g}
  <2>1. ProfileCrossing(policy, route) \in {<<g.from, g.to>> : g \in policy.profile_grants}
    BY <1>1 DEF ValidPolicy, GrantsExact
  <2>2. PICK g \in policy.profile_grants : <<g.from, g.to>> = ProfileCrossing(policy, route)
    BY <2>1
  <2>3. ASSUME NEW h \in policy.profile_grants, <<h.from, h.to>> = ProfileCrossing(policy, route)
        PROVE  h = g
    <3>1. h.from = g.from /\ h.to = g.to
      BY <2>2, <2>3
    <3> QED
      BY <3>1 DEF ValidPolicy, GrantsWellFormed
  <2> QED
    BY <2>2, <2>3 DEF ProfileGrantsFor
<1>2. ASSUME CrossesVendor(policy, route)
      PROVE  \E g \in policy.vendor_grants : VendorGrantsFor(policy, route) = {g}
  <2>1. VendorCrossing(policy, route) \in {<<g.from, g.to>> : g \in policy.vendor_grants}
    BY <1>2 DEF ValidPolicy, GrantsExact
  <2>2. PICK g \in policy.vendor_grants : <<g.from, g.to>> = VendorCrossing(policy, route)
    BY <2>1
  <2>3. ASSUME NEW h \in policy.vendor_grants, <<h.from, h.to>> = VendorCrossing(policy, route)
        PROVE  h = g
    <3>1. h.from = g.from /\ h.to = g.to
      BY <2>2, <2>3
    <3> QED
      BY <3>1 DEF ValidPolicy, GrantsWellFormed
  <2> QED
    BY <2>2, <2>3 DEF VendorGrantsFor
<1> QED
  BY <1>1, <1>2 DEF Authorized

\* Every route of a policy parse_native_policy_v3 accepts is compiled by
\* compile_static_native_policy_v3 for its own selector, unless its model label
\* is the task placeholder.
THEOREM ValidPolicyCompiles ==
  ASSUME NEW policy, ValidPolicy(policy), NEW route \in policy.routes,
         route.model # TaskPlaceholder
  PROVE  Compiles(policy, SelectorOf(policy, route))
<1> DEFINE selector == SelectorOf(policy, route)
<1>1. Matches(policy, selector) = {route}
  BY DEF Matches, SelectorOf, ValidPolicy, SelectorsUnique
<1>2. ArgvBuilds(policy, route)
  <2>1. TargetOf(policy, route) \in policy.targets
        /\ <<route.model, route.effort>> \in TargetOf(policy, route).pairs
    BY Lookups
  <2>2. /\ TargetOf(policy, route).builder = TargetOf(policy, route).vendor
        /\ TargetOf(policy, route).vendor = "agy"
             => \A pair \in TargetOf(policy, route).pairs : pair[1] = NoModel
    BY <2>1 DEF ValidPolicy, TargetsBuildable
  <2>3. TargetOf(policy, route).vendor = "agy" => <<route.model, route.effort>>[1] = NoModel
    BY <2>1, <2>2
  <2> QED
    BY <2>2, <2>3 DEF ArgvBuilds
<1>3. RouteCompiles(policy, route, selector.vendor)
  BY Lookups, Grants, <1>2 DEF RouteCompiles, SelectorOf
<1> QED
  BY <1>1, <1>3 DEF Compiles

\* And no authority lies idle: every grant of an accepted policy is the one some
\* route of it needs.
THEOREM NoIdleGrant ==
  ASSUME NEW policy, ValidPolicy(policy)
  PROVE  /\ \A g \in policy.profile_grants : \E r \in policy.routes :
              CrossesProfile(policy, r) /\ ProfileGrantsFor(policy, r) = {g}
         /\ \A g \in policy.vendor_grants : \E r \in policy.routes :
              CrossesVendor(policy, r) /\ VendorGrantsFor(policy, r) = {g}
<1>1. ASSUME NEW g \in policy.profile_grants
      PROVE  \E r \in policy.routes : CrossesProfile(policy, r) /\ ProfileGrantsFor(policy, r) = {g}
  <2>1. <<g.from, g.to>> \in
          {ProfileCrossing(policy, r) : r \in {s \in policy.routes : CrossesProfile(policy, s)}}
    BY DEF ValidPolicy, GrantsExact
  <2>2. PICK r \in policy.routes :
          CrossesProfile(policy, r) /\ <<g.from, g.to>> = ProfileCrossing(policy, r)
    BY <2>1
  <2>3. g \in ProfileGrantsFor(policy, r)
    BY <2>2 DEF ProfileGrantsFor
  <2> QED
    BY <2>2, <2>3, Grants DEF Authorized
<1>2. ASSUME NEW g \in policy.vendor_grants
      PROVE  \E r \in policy.routes : CrossesVendor(policy, r) /\ VendorGrantsFor(policy, r) = {g}
  <2>1. <<g.from, g.to>> \in
          {VendorCrossing(policy, r) : r \in {s \in policy.routes : CrossesVendor(policy, s)}}
    BY DEF ValidPolicy, GrantsExact
  <2>2. PICK r \in policy.routes :
          CrossesVendor(policy, r) /\ <<g.from, g.to>> = VendorCrossing(policy, r)
    BY <2>1
  <2>3. g \in VendorGrantsFor(policy, r)
    BY <2>2 DEF VendorGrantsFor
  <2> QED
    BY <2>2, <2>3, Grants DEF Authorized
<1> QED
  BY <1>1, <1>2

-------------------------------------------------------------------------------
(* The dialogue: the policy it builds is one that the parser accepts *)

Chosen == ToSet(selections)

Selection == [tier : Tiers, vendor : Installed, account : Accounts \cup {"none"},
              effort : Efforts \cup {"none"}, model : Models]

\* What the answers are by the time they are put together.
Answered ==
  /\ source = [vendor |-> source.vendor, account |-> source.account]
  /\ \A s \in Chosen : s.vendor = "agy" => s.model = NoModel
  /\ selections \in Seq(Selection) /\ \E n \in 0..3 : DOMAIN selections = 1..n
  /\ \A i, j \in DOMAIN selections : selections[i].tier = selections[j].tier => i = j
  /\ ~troubled => \A s \in Chosen : s.model # TaskPlaceholder /\ PathOf[s.vendor] \notin OddPaths

\* The entries of the policy, by name.
SourceProfile == [id |-> SourceId, vendor |-> source.vendor, account_profile |-> source.account]
OtherProfile(i) == [id |-> OtherId(i), vendor |-> selections[i].vendor,
                    account_profile |-> selections[i].account]
TargetFor(s) == [id |-> TargetId(s), profile_id |-> ProfileId(s), vendor |-> s.vendor,
                 executable |-> PathOf[s.vendor], builder |-> s.vendor,
                 pairs |-> {<<s.model, s.effort>>}]
RouteFor(s) == [id |-> <<"route", s.tier, s.vendor>>, source_profile_id |-> SourceId,
                tier |-> s.tier, target_id |-> TargetId(s), model |-> s.model, effort |-> s.effort]
ProfileGrant(i) == [id |-> <<"to_profile", OtherId(i)>>, from |-> SourceId, to |-> OtherId(i)]
VendorGrant(v) == [id |-> <<"to_vendor", v>>, from |-> source.vendor, to |-> v]

LEMMA BuiltEntries ==
  /\ BuiltPolicy.profiles = {SourceProfile} \cup {OtherProfile(i) : i \in Others}
  /\ BuiltPolicy.targets = {TargetFor(s) : s \in Chosen}
  /\ BuiltPolicy.routes = {RouteFor(s) : s \in Chosen}
  /\ BuiltPolicy.profile_grants = {ProfileGrant(i) : i \in Others}
  /\ BuiltPolicy.vendor_grants = {VendorGrant(v) : v \in GrantedVendors}
BY DEF BuiltPolicy, SourceProfile, OtherProfile, TargetFor, RouteFor, ProfileGrant, VendorGrant, Chosen

\* An image is no larger than what it is of.
LEMMA ImageSize ==
  ASSUME NEW S, IsFiniteSet(S), NEW n \in Nat, Cardinality(S) <= n,
         NEW f, NEW T, T = {f[x] : x \in S}
  PROVE  IsFiniteSet(T) /\ Cardinality(T) \in 0..n
<1> DEFINE g == [x \in S |-> f[x]]
<1>1. g \in Surjection(S, T)
  BY DEF Surjection
<1> HIDE DEF g
<1>2. IsFiniteSet(T) /\ Cardinality(T) <= Cardinality(S)
  BY <1>1, FS_Surjection
<1>3. Cardinality(T) \in Nat /\ Cardinality(S) \in Nat
  BY <1>2, FS_CardinalityType
<1> QED
  BY <1>2, <1>3

\* What is not empty has a member to count.
LEMMA NotEmptySize ==
  ASSUME NEW S, IsFiniteSet(S), S # {}
  PROVE  Cardinality(S) >= 1
BY FS_CardinalityType, FS_EmptySet

\* A selection is known by its tier.
LEMMA ChosenByTier ==
  ASSUME Answered, NEW s \in Chosen, NEW t \in Chosen, s.tier = t.tier
  PROVE  s = t
BY DEF Answered, Chosen, ToSet

LEMMA ChosenFacts ==
  ASSUME Answered, NEW s \in Chosen
  PROVE  /\ s.tier \in Tiers /\ s.vendor \in Installed /\ s.vendor \in Vendors
         /\ s.vendor = "agy" => s.model = NoModel
<1>1. s \in Selection
  BY DEF Answered, Chosen, ToSet
<1> QED
  BY <1>1, SelectorAssumption DEF Selection, Answered

\* Each endpoint has a first selection, and no two selections of Others share one.
LEMMA FirstOfEndpoint ==
  ASSUME Answered, NEW s \in Chosen, ~SameEndpoint(s, source)
  PROVE  \E i \in Others : /\ SameEndpoint(s, selections[i])
                           /\ \A j \in Others : SameEndpoint(s, selections[j]) => j = i
<1>1. PICK n \in 0..3 : DOMAIN selections = 1..n
  BY DEF Answered
<1>2. PICK k \in 1..n : s = selections[k]
  BY <1>1 DEF Chosen, ToSet
<1>3. PICK i \in 1..n : /\ SameEndpoint(s, selections[i])
                        /\ \A j \in 1..(i - 1) : ~SameEndpoint(s, selections[j])
  <2>1. SameEndpoint(s, selections[k])
    BY <1>2 DEF SameEndpoint
  <2>2. CASE SameEndpoint(s, selections[1])
    BY <2>2, <1>1, <1>2
  <2>3. CASE ~SameEndpoint(s, selections[1]) /\ k >= 2 /\ SameEndpoint(s, selections[2])
    <3>1. 2 \in 1..n /\ 1..(2 - 1) = {1}
      BY <1>1, <1>2, <2>3
    <3> QED
      BY <2>3, <3>1
  <2>4. CASE ~SameEndpoint(s, selections[1]) /\ k = 3 /\ ~SameEndpoint(s, selections[2])
    <3>1. 3 \in 1..n /\ 1..(3 - 1) = {1, 2}
      BY <1>1, <1>2, <2>4
    <3> QED
      BY <2>1, <2>4, <3>1
  <2> QED
    BY <1>1, <1>2, <2>1, <2>2, <2>3, <2>4
<1>4. i \in Others
  BY <1>1, <1>3 DEF Others, SameEndpoint
<1>5. ASSUME NEW j \in Others, SameEndpoint(s, selections[j]) PROVE j = i
  <2>1. j \in 1..n /\ \A m \in 1..(j - 1) : ~SameEndpoint(selections[j], selections[m])
    BY <1>1, <1>5 DEF Others
  <2>2. ~(j < i)
    BY <1>1, <1>3, <1>5, <2>1
  <2>3. ~(i < j)
    <3>1. i < j => i \in 1..(j - 1)
      BY <1>1, <1>3, <2>1
    <3> QED
      BY <1>3, <1>5, <2>1, <3>1 DEF SameEndpoint
  <2> QED
    BY <1>1, <1>3, <2>1, <2>2, <2>3
<1> QED
  BY <1>3, <1>4, <1>5

\* The numbers of the profiles tell them apart.
LEMMA NumbersDiffer ==
  ASSUME Answered, NEW i \in Others, NEW j \in Others, OtherId(i) = OtherId(j)
  PROVE  i = j
<1>1. PICK n \in 0..3 : DOMAIN selections = 1..n
  BY DEF Answered
<1>2. Others \subseteq 1..n
  BY <1>1 DEF Others
<1> DEFINE Upto(k) == {m \in Others : m <= k}
<1>3. ASSUME NEW k \in Others, NEW l \in Others, k < l
      PROVE  Cardinality(Upto(k)) # Cardinality(Upto(l))
  <2>1. IsFiniteSet(Upto(l)) /\ Upto(k) \subseteq Upto(l) /\ l \notin Upto(k) /\ l \in Upto(l)
    <3>1. 1 \in Int /\ n \in Int /\ k \in Nat /\ l \in Nat /\ Others \subseteq Nat
      BY <1>1, <1>2
    <3>2. IsFiniteSet(1..n)
      BY <3>1, FS_Interval
    <3>3. Upto(l) \in SUBSET (1..n)
      BY <1>2
    <3>4. IsFiniteSet(Upto(l))
      BY <3>2, <3>3, FS_Subset
    <3>5. ASSUME NEW m \in Upto(k) PROVE m \in Upto(l)
      <4>1. m \in Others /\ m \in Nat /\ m <= k
        BY <3>1
      <4> QED
        BY <1>3, <3>1, <4>1
    <3>6. l \notin Upto(k) /\ l \in Upto(l)
      BY <1>3, <3>1
    <3> QED
      BY <3>4, <3>5, <3>6
  <2> HIDE DEF Upto
  <2> QED
    BY <2>1, FS_Subset
<1>4. Cardinality(Upto(i)) = Cardinality(Upto(j))
  <2>1. OtherId(i) = <<"profile", Cardinality(Upto(i))>> /\ OtherId(j) = <<"profile", Cardinality(Upto(j))>>
    BY DEF OtherId
  <2> HIDE DEF Upto
  <2>2. \A a, b : <<"profile", a>> = <<"profile", b>> => a = b
    OBVIOUS
  <2> QED
    BY <2>1, <2>2
<1> HIDE DEF Upto
<1> QED
  BY <1>1, <1>2, <1>3, <1>4

\* The profile of a selection's endpoint.
ProfileFor(s) ==
  IF SameEndpoint(s, source) THEN SourceProfile
  ELSE OtherProfile(CHOOSE i \in Others : SameEndpoint(s, selections[i]))

LEMMA ProfileForFacts ==
  ASSUME Answered, NEW s \in Chosen
  PROVE  /\ ProfileFor(s) \in BuiltPolicy.profiles /\ ProfileFor(s).id = ProfileId(s)
         /\ ProfileFor(s).vendor = s.vendor /\ ProfileFor(s).account_profile = s.account
         /\ ~SameEndpoint(s, source) =>
              \E i \in Others : ProfileId(s) = OtherId(i) /\ SameEndpoint(s, selections[i])
<1>1. CASE SameEndpoint(s, source)
  BY <1>1, BuiltEntries DEF ProfileFor, ProfileId, SourceProfile, SameEndpoint
<1>2. CASE ~SameEndpoint(s, source)
  <2> DEFINE i == CHOOSE i \in Others : SameEndpoint(s, selections[i])
  <2>1. i \in Others /\ SameEndpoint(s, selections[i])
    BY <1>2, FirstOfEndpoint
  <2>2. ProfileFor(s) = OtherProfile(i) /\ ProfileId(s) = OtherId(i)
    BY <1>2 DEF ProfileFor, ProfileId
  <2> HIDE DEF i
  <2> QED
    BY <2>1, <2>2, BuiltEntries DEF OtherProfile, SameEndpoint
<1> QED
  BY <1>1, <1>2

\* Looking the entries of a selection's route up finds the selection's own.
LEMMA BuiltIds ==
  ASSUME Answered
  PROVE  IdsDistinct(BuiltPolicy.profiles) /\ IdsDistinct(BuiltPolicy.targets)
         /\ IdsDistinct(BuiltPolicy.routes)
<1>0. \A i : SourceId # OtherId(i)
  BY DEF SourceId, OtherId
<1>1. IdsDistinct(BuiltPolicy.profiles)
  <2> SUFFICES ASSUME NEW e \in BuiltPolicy.profiles, NEW g \in BuiltPolicy.profiles, e.id = g.id
               PROVE  e = g
    BY DEF IdsDistinct
  <2>1. e = SourceProfile \/ \E i \in Others : e = OtherProfile(i)
    BY BuiltEntries
  <2>2. g = SourceProfile \/ \E i \in Others : g = OtherProfile(i)
    BY BuiltEntries
  <2>3. SourceProfile.id = SourceId /\ \A i : OtherProfile(i).id = OtherId(i)
    BY DEF SourceProfile, OtherProfile
  <2> QED
    BY <1>0, <2>1, <2>2, <2>3, NumbersDiffer
<1>2. IdsDistinct(BuiltPolicy.targets)
  <2> SUFFICES ASSUME NEW s \in Chosen, NEW t \in Chosen, TargetFor(s).id = TargetFor(t).id
               PROVE  TargetFor(s) = TargetFor(t)
    BY BuiltEntries DEF IdsDistinct
  <2>1. s.tier = t.tier
    BY DEF TargetFor, TargetId
  <2> QED
    BY <2>1, ChosenByTier
<1>3. IdsDistinct(BuiltPolicy.routes)
  <2> SUFFICES ASSUME NEW s \in Chosen, NEW t \in Chosen, RouteFor(s).id = RouteFor(t).id
               PROVE  RouteFor(s) = RouteFor(t)
    BY BuiltEntries DEF IdsDistinct
  <2>1. s.tier = t.tier
    BY DEF RouteFor
  <2> QED
    BY <2>1, ChosenByTier
<1> QED
  BY <1>1, <1>2, <1>3

LEMMA FoundById ==
  ASSUME NEW entries, IdsDistinct(entries), NEW e \in entries
  PROVE  ById(entries, e.id) = e
BY DEF ById, IdsDistinct

LEMMA RouteFacts ==
  ASSUME Answered, NEW s \in Chosen
  PROVE  /\ RouteFor(s) \in BuiltPolicy.routes
         /\ SourceProfile \in BuiltPolicy.profiles /\ TargetFor(s) \in BuiltPolicy.targets
         /\ Source(BuiltPolicy, RouteFor(s)) = SourceProfile
         /\ TargetOf(BuiltPolicy, RouteFor(s)) = TargetFor(s)
         /\ Destination(BuiltPolicy, RouteFor(s)) = ProfileFor(s)
<1>1. /\ RouteFor(s) \in BuiltPolicy.routes /\ SourceProfile \in BuiltPolicy.profiles
      /\ TargetFor(s) \in BuiltPolicy.targets
  BY BuiltEntries
<1>2. /\ RouteFor(s).source_profile_id = SourceProfile.id
      /\ RouteFor(s).target_id = TargetFor(s).id /\ TargetFor(s).profile_id = ProfileFor(s).id
  BY ProfileForFacts DEF RouteFor, SourceProfile, TargetFor
<1>3. Source(BuiltPolicy, RouteFor(s)) = SourceProfile
  BY <1>1, <1>2, BuiltIds, FoundById DEF Source
<1>4. TargetOf(BuiltPolicy, RouteFor(s)) = TargetFor(s)
  BY <1>1, <1>2, BuiltIds, FoundById DEF TargetOf
<1>5. Destination(BuiltPolicy, RouteFor(s)) = ProfileFor(s)
  BY <1>2, <1>4, ProfileForFacts, BuiltIds, FoundById DEF Destination
<1> QED
  BY <1>1, <1>3, <1>4, <1>5

\* The grants are exactly for what the routes cross.
LEMMA Crossings ==
  ASSUME Answered, NEW s \in Chosen
  PROVE  /\ CrossesProfile(BuiltPolicy, RouteFor(s)) <=> ~SameEndpoint(s, source)
         /\ CrossesVendor(BuiltPolicy, RouteFor(s)) <=> s.vendor # source.vendor
         /\ ProfileCrossing(BuiltPolicy, RouteFor(s)) = <<SourceId, ProfileId(s)>>
         /\ VendorCrossing(BuiltPolicy, RouteFor(s)) = <<source.vendor, s.vendor>>
<1>1. /\ Source(BuiltPolicy, RouteFor(s)) = SourceProfile
      /\ Destination(BuiltPolicy, RouteFor(s)) = ProfileFor(s)
  BY RouteFacts
<1>2. /\ SourceProfile.id = SourceId /\ SourceProfile.vendor = source.vendor
      /\ ProfileFor(s).id = ProfileId(s) /\ ProfileFor(s).vendor = s.vendor
  BY ProfileForFacts DEF SourceProfile
<1>3. SourceId = ProfileId(s) <=> SameEndpoint(s, source)
  <2>1. \A i : SourceId # OtherId(i)
    BY DEF SourceId, OtherId
  <2> QED
    BY <2>1 DEF ProfileId
<1> QED
  BY <1>1, <1>2, <1>3 DEF CrossesProfile, CrossesVendor, ProfileCrossing, VendorCrossing

LEMMA BuiltGrantsExact == ASSUME Answered PROVE GrantsExact(BuiltPolicy)
<1> DEFINE P == BuiltPolicy
<1>1. {<<g.from, g.to>> : g \in P.profile_grants} = {<<SourceId, OtherId(i)>> : i \in Others}
  <2>1. \A i : <<ProfileGrant(i).from, ProfileGrant(i).to>> = <<SourceId, OtherId(i)>>
    BY DEF ProfileGrant
  <2>2. P.profile_grants = {ProfileGrant(i) : i \in Others}
    BY BuiltEntries
  <2> HIDE DEF P
  <2> QED
    BY <2>1, <2>2
<1>2. {<<g.from, g.to>> : g \in P.vendor_grants} = {<<source.vendor, v>> : v \in GrantedVendors}
  <2>1. \A v : <<VendorGrant(v).from, VendorGrant(v).to>> = <<source.vendor, v>>
    BY DEF VendorGrant
  <2>2. P.vendor_grants = {VendorGrant(v) : v \in GrantedVendors}
    BY BuiltEntries
  <2> HIDE DEF P
  <2> QED
    BY <2>1, <2>2
<1>3. {ProfileCrossing(P, r) : r \in {q \in P.routes : CrossesProfile(P, q)}}
        = {<<SourceId, OtherId(i)>> : i \in Others}
  <2>1. ASSUME NEW r \in P.routes, CrossesProfile(P, r)
        PROVE  \E i \in Others : ProfileCrossing(P, r) = <<SourceId, OtherId(i)>>
    <3>1. PICK s \in Chosen : r = RouteFor(s)
      BY BuiltEntries
    <3> QED
      BY <2>1, <3>1, Crossings, ProfileForFacts
  <2>2. ASSUME NEW i \in Others
        PROVE  \E r \in P.routes : CrossesProfile(P, r) /\ ProfileCrossing(P, r) = <<SourceId, OtherId(i)>>
    <3> DEFINE s == selections[i]
    <3>1. s \in Chosen /\ ~SameEndpoint(s, source) /\ SameEndpoint(s, selections[i])
      BY DEF Others, Chosen, ToSet, SameEndpoint
    <3> HIDE DEF s
    <3>2. PICK j \in Others : /\ SameEndpoint(s, selections[j])
                              /\ \A k \in Others : SameEndpoint(s, selections[k]) => k = j
      BY <3>1, FirstOfEndpoint
    <3>3. i = j
      BY <3>1, <3>2
    <3>4. ProfileId(s) = OtherId(i)
      BY <3>1, <3>2, <3>3, ProfileForFacts
    <3>5. RouteFor(s) \in P.routes
      BY <3>1, RouteFacts
    <3> QED
      BY <3>1, <3>4, <3>5, Crossings
  <2> HIDE DEF P
  <2> QED
    BY <2>1, <2>2
<1>4. {VendorCrossing(P, r) : r \in {q \in P.routes : CrossesVendor(P, q)}}
        = {<<source.vendor, v>> : v \in GrantedVendors}
  <2>1. ASSUME NEW r \in P.routes, CrossesVendor(P, r)
        PROVE  \E v \in GrantedVendors : VendorCrossing(P, r) = <<source.vendor, v>>
    <3>1. PICK s \in Chosen : r = RouteFor(s)
      BY BuiltEntries
    <3>2. s.vendor \in GrantedVendors
      BY <2>1, <3>1, Crossings DEF GrantedVendors, Chosen
    <3> QED
      BY <3>1, <3>2, Crossings
  <2>2. ASSUME NEW v \in GrantedVendors
        PROVE  \E r \in P.routes : CrossesVendor(P, r) /\ VendorCrossing(P, r) = <<source.vendor, v>>
    <3>1. PICK s \in Chosen : s.vendor = v /\ v # source.vendor
      BY DEF GrantedVendors, Chosen
    <3>2. RouteFor(s) \in P.routes
      BY RouteFacts
    <3> QED
      BY <3>1, <3>2, Crossings
  <2> HIDE DEF P
  <2> QED
    BY <2>1, <2>2
<1> QED
  BY <1>1, <1>2, <1>3, <1>4 DEF GrantsExact

\* Three tiers stay far below the parser's limits.
LEMMA BuiltWithinLimits ==
  ASSUME Answered, selections # <<>> PROVE WithinLimits(BuiltPolicy)
<1>1. PICK n \in 0..3 : DOMAIN selections = 1..n
  BY DEF Answered
<1> DEFINE Places3 == DOMAIN selections
<1>2. IsFiniteSet(Places3) /\ Cardinality(Places3) <= 3
  <2>1. 1 \in Int /\ n \in Int
    BY <1>1
  <2>2. IsFiniteSet(1..n) /\ Cardinality(1..n) = IF 1 > n THEN 0 ELSE n - 1 + 1
    BY <2>1, FS_Interval
  <2> QED
    BY <1>1, <2>2
<1>3. Chosen = {selections[i] : i \in Places3}
  BY DEF Chosen, ToSet
<1>4. IsFiniteSet(Others) /\ Cardinality(Others) <= 3
  <2>1. Others \in SUBSET Places3
    BY DEF Others
  <2> HIDE DEF Places3
  <2>2. IsFiniteSet(Others) /\ Cardinality(Others) <= Cardinality(Places3)
    BY <1>2, <2>1, FS_Subset
  <2>3. Cardinality(Others) \in Nat /\ Cardinality(Places3) \in Nat
    BY <1>2, <2>2, FS_CardinalityType
  <2> QED
    BY <1>2, <2>2, <2>3
<1>5. IsFiniteSet(Chosen) /\ Cardinality(Chosen) <= 3
  <2> HIDE DEF Places3
  <2>1. Cardinality(Chosen) \in 0..3 /\ IsFiniteSet(Chosen)
    BY <1>2, <1>3, ImageSize
  <2> QED
    BY <2>1
<1>6. Chosen # {}
  <2>1. n # 0
    <3>1. Len(selections) = 0 /\ DOMAIN selections = {} => selections = <<>>
      BY DEF Answered
    <3> QED
      BY <1>1, <3>1
  <2>2. 1 \in DOMAIN selections
    BY <1>1, <2>1
  <2> QED
    BY <2>2, <1>3
<1> HIDE DEF Places3
<1>7. Cardinality(BuiltPolicy.profiles) \in 1..4
  <2> DEFINE g == [i \in Others |-> OtherProfile(i)]
             T == {g[i] : i \in Others}
  <2>1. BuiltPolicy.profiles = T \cup {SourceProfile}
    BY BuiltEntries
  <2> HIDE DEF g
  <2>2. IsFiniteSet(T) /\ Cardinality(T) \in 0..3
    BY <1>4, ImageSize
  <2> HIDE DEF T
  <2>3. /\ IsFiniteSet(BuiltPolicy.profiles) /\ Cardinality(BuiltPolicy.profiles) >= 1
        /\ Cardinality(BuiltPolicy.profiles) \in {Cardinality(T), Cardinality(T) + 1}
    <3>1. IsFiniteSet(T \cup {SourceProfile})
          /\ Cardinality(T \cup {SourceProfile}) =
               IF SourceProfile \in T THEN Cardinality(T) ELSE Cardinality(T) + 1
      BY <2>2, FS_AddElement
    <3> QED
      BY <2>1, <3>1, NotEmptySize
  <2> QED
    BY <2>2, <2>3
<1>8. Cardinality(BuiltPolicy.targets) \in 1..3
  <2> DEFINE g == [s \in Chosen |-> TargetFor(s)]
  <2>1. BuiltPolicy.targets = {g[s] : s \in Chosen} /\ BuiltPolicy.targets # {}
    BY <1>6, BuiltEntries
  <2> HIDE DEF g
  <2>2. IsFiniteSet(BuiltPolicy.targets) /\ Cardinality(BuiltPolicy.targets) \in 0..3
    BY <1>5, <2>1, ImageSize
  <2>3. Cardinality(BuiltPolicy.targets) >= 1
    BY <2>1, <2>2, NotEmptySize
  <2> QED
    BY <2>2, <2>3
<1>9. Cardinality(BuiltPolicy.routes) \in 1..3
  <2> DEFINE g == [s \in Chosen |-> RouteFor(s)]
  <2>1. BuiltPolicy.routes = {g[s] : s \in Chosen} /\ BuiltPolicy.routes # {}
    BY <1>6, BuiltEntries
  <2> HIDE DEF g
  <2>2. IsFiniteSet(BuiltPolicy.routes) /\ Cardinality(BuiltPolicy.routes) \in 0..3
    BY <1>5, <2>1, ImageSize
  <2>3. Cardinality(BuiltPolicy.routes) >= 1
    BY <2>1, <2>2, NotEmptySize
  <2> QED
    BY <2>2, <2>3
<1>10. Cardinality(BuiltPolicy.profile_grants) \in 0..3
  <2> DEFINE g == [i \in Others |-> ProfileGrant(i)]
  <2>1. BuiltPolicy.profile_grants = {g[i] : i \in Others}
    BY BuiltEntries
  <2> HIDE DEF g
  <2> QED
    BY <1>4, <2>1, ImageSize
<1>11. Cardinality(BuiltPolicy.vendor_grants) \in 0..3
  <2> DEFINE g == [s \in Chosen |-> s.vendor]
             V == {g[s] : s \in Chosen}
  <2>1. GrantedVendors \subseteq V
    BY DEF GrantedVendors, Chosen
  <2> HIDE DEF g
  <2>2. IsFiniteSet(V) /\ Cardinality(V) \in 0..3
    BY <1>5, ImageSize
  <2> HIDE DEF V
  <2>3. IsFiniteSet(GrantedVendors) /\ Cardinality(GrantedVendors) <= Cardinality(V)
    BY <2>1, <2>2, FS_Subset
  <2>4. Cardinality(GrantedVendors) <= 3
    BY <2>2, <2>3, FS_CardinalityType
  <2> DEFINE h == [v \in GrantedVendors |-> VendorGrant(v)]
             G == BuiltPolicy.vendor_grants
  <2>5. G = {h[v] : v \in GrantedVendors}
    BY BuiltEntries
  <2>6. IsFiniteSet(GrantedVendors) /\ 3 \in Nat
    BY <2>3
  <2> HIDE DEF h, G
  <2>7. Cardinality(G) \in 0..3
    BY <2>4, <2>5, <2>6, ImageSize
  <2> QED
    BY <2>7 DEF G
<1>12. \A t \in BuiltPolicy.targets : Cardinality(t.pairs) = 1
  <2>1. \A t \in BuiltPolicy.targets : \E x : t.pairs = {x}
    <3>1. \A s : TargetFor(s).pairs = {<<s.model, s.effort>>}
      BY DEF TargetFor
    <3> QED
      BY <3>1, BuiltEntries
  <2> QED
    BY <2>1, FS_Singleton
<1> QED
  BY <1>7, <1>8, <1>9, <1>10, <1>11, <1>12, SelectorAssumption, NativePolicyAssumption
     DEF WithinLimits

\* An entry says by its id of what sort it is.
LEMMA BuiltIdsUnique == ASSUME Answered PROVE UniqueIds(BuiltPolicy)
<1> DEFINE P == BuiltPolicy
<1>1. \A e \in P.profiles : e.id = SourceId \/ \E i : e.id = OtherId(i)
  BY BuiltEntries DEF SourceProfile, OtherProfile
<1>2. \A e \in P.targets : \E a, b : e.id = <<"target", a, b>>
  BY BuiltEntries DEF TargetFor, TargetId
<1>3. \A e \in P.routes : \E a, b : e.id = <<"route", a, b>>
  BY BuiltEntries DEF RouteFor
<1>4. \A e \in P.profile_grants : \E a : e.id = <<"to_profile", a>>
  BY BuiltEntries DEF ProfileGrant
<1>5. \A e \in P.vendor_grants : \E a : e.id = <<"to_vendor", a>>
  BY BuiltEntries DEF VendorGrant
<1>6. IdsDistinct(P.profile_grants)
  <2> SUFFICES ASSUME NEW i \in Others, NEW j \in Others, ProfileGrant(i).id = ProfileGrant(j).id
               PROVE  ProfileGrant(i) = ProfileGrant(j)
    BY BuiltEntries DEF IdsDistinct
  <2>1. OtherId(i) = OtherId(j)
    BY DEF ProfileGrant
  <2> QED
    BY <2>1, NumbersDiffer
<1>7. IdsDistinct(P.vendor_grants)
  <2> SUFFICES ASSUME NEW v, NEW w, VendorGrant(v).id = VendorGrant(w).id
               PROVE  VendorGrant(v) = VendorGrant(w)
    BY BuiltEntries DEF IdsDistinct
  <2>1. v = w
    BY DEF VendorGrant
  <2> QED
    BY <2>1
<1>12. \A e \in P.profiles : e.id = <<"source">> \/ \E n : e.id = <<"profile", n>>
  BY <1>1 DEF SourceId, OtherId
<1> HIDE DEF P
<1>13. \A a, b : <<"source">> # <<"target", a, b>> /\ <<"source">> # <<"route", a, b>>
  OBVIOUS
<1>14. \A a : <<"source">> # <<"to_profile", a>> /\ <<"source">> # <<"to_vendor", a>>
  OBVIOUS
<1>15. \A n, a, b : <<"profile", n>> # <<"target", a, b>> /\ <<"profile", n>> # <<"route", a, b>>
  OBVIOUS
<1>16. \A n, a : <<"profile", n>> # <<"to_profile", a>> /\ <<"profile", n>> # <<"to_vendor", a>>
  OBVIOUS
<1>8. IdsApart(P.profiles, P.targets) /\ IdsApart(P.profiles, P.routes)
  <2>1. IdsApart(P.profiles, P.targets)
    <3>1. ASSUME NEW e \in P.profiles, NEW f \in P.targets PROVE e.id # f.id
      BY <1>2, <1>12, <1>13, <1>15
    <3> QED
      BY <3>1 DEF IdsApart
  <2>2. IdsApart(P.profiles, P.routes)
    <3>1. ASSUME NEW e \in P.profiles, NEW f \in P.routes PROVE e.id # f.id
      BY <1>3, <1>12, <1>13, <1>15
    <3> QED
      BY <3>1 DEF IdsApart
  <2> QED
    BY <2>1, <2>2
<1>9. IdsApart(P.profiles, P.profile_grants) /\ IdsApart(P.profiles, P.vendor_grants)
  <2>1. IdsApart(P.profiles, P.profile_grants)
    <3>1. ASSUME NEW e \in P.profiles, NEW f \in P.profile_grants PROVE e.id # f.id
      BY <1>4, <1>12, <1>14, <1>16
    <3> QED
      BY <3>1 DEF IdsApart
  <2>2. IdsApart(P.profiles, P.vendor_grants)
    <3>1. ASSUME NEW e \in P.profiles, NEW f \in P.vendor_grants PROVE e.id # f.id
      BY <1>5, <1>12, <1>14, <1>16
    <3> QED
      BY <3>1 DEF IdsApart
  <2> QED
    BY <2>1, <2>2
<1>10. IdsApart(P.targets, P.routes) /\ IdsApart(P.targets, P.profile_grants)
       /\ IdsApart(P.targets, P.vendor_grants)
  BY <1>2, <1>3, <1>4, <1>5 DEF IdsApart
<1>11. IdsApart(P.routes, P.profile_grants) /\ IdsApart(P.routes, P.vendor_grants)
       /\ IdsApart(P.profile_grants, P.vendor_grants)
  BY <1>3, <1>4, <1>5 DEF IdsApart
<1> QED
  BY <1>6, <1>7, <1>8, <1>9, <1>10, <1>11, BuiltIds DEF UniqueIds, P

\* The parser accepts what the dialogue builds, and the compiler compiles it.
LEMMA BuiltIsValid ==
  ASSUME Answered, selections # <<>> PROVE ValidPolicy(BuiltPolicy)
<1>1. TargetsBuildable(BuiltPolicy)
  <2> SUFFICES ASSUME NEW s \in Chosen
               PROVE  /\ TargetFor(s).builder = TargetFor(s).vendor
                      /\ TargetFor(s).vendor = "agy" => \A pair \in TargetFor(s).pairs : pair[1] = NoModel
    BY BuiltEntries DEF TargetsBuildable
  <2>1. /\ TargetFor(s).builder = s.vendor /\ TargetFor(s).vendor = s.vendor
        /\ TargetFor(s).pairs = {<<s.model, s.effort>>}
    BY DEF TargetFor
  <2> QED
    BY <2>1, ChosenFacts
<1>2. GrantsWellFormed(BuiltPolicy)
  <2>1. \A g, h \in BuiltPolicy.profile_grants : g.from = h.from /\ g.to = h.to => g = h
    <3> SUFFICES ASSUME NEW i \in Others, NEW j \in Others, ProfileGrant(i).to = ProfileGrant(j).to
                 PROVE  ProfileGrant(i) = ProfileGrant(j)
      BY BuiltEntries
    <3>1. OtherId(i) = OtherId(j)
      BY DEF ProfileGrant
    <3> QED
      BY <3>1, NumbersDiffer
  <2>2. \A g, h \in BuiltPolicy.vendor_grants : g.from = h.from /\ g.to = h.to => g = h
    BY BuiltEntries DEF VendorGrant
  <2>3. ASSUME NEW g \in BuiltPolicy.profile_grants
        PROVE  /\ g.from # g.to
               /\ {g.from, g.to} \subseteq {p.id : p \in BuiltPolicy.profiles}
    <3>1. PICK i \in Others : g = ProfileGrant(i)
      BY BuiltEntries
    <3>2. g.from = SourceId /\ g.to = OtherId(i) /\ SourceId # OtherId(i)
      BY <3>1 DEF ProfileGrant, SourceId, OtherId
    <3>3. SourceProfile \in BuiltPolicy.profiles /\ OtherProfile(i) \in BuiltPolicy.profiles
      BY BuiltEntries
    <3>4. SourceProfile.id = SourceId /\ OtherProfile(i).id = OtherId(i)
      BY DEF SourceProfile, OtherProfile
    <3> QED
      BY <3>2, <3>3, <3>4
  <2>4. \A g \in BuiltPolicy.vendor_grants : g.from # g.to
    BY BuiltEntries DEF VendorGrant, GrantedVendors
  <2> QED
    BY <2>1, <2>2, <2>3, <2>4 DEF GrantsWellFormed
<1>3. ASSUME NEW r \in BuiltPolicy.routes PROVE RouteResolves(BuiltPolicy, r)
  <2>1. PICK s \in Chosen : r = RouteFor(s)
    BY BuiltEntries
  <2>2. /\ SourceProfile \in BuiltPolicy.profiles /\ SourceProfile.id = r.source_profile_id
        /\ TargetFor(s) \in BuiltPolicy.targets /\ TargetFor(s).id = r.target_id
        /\ <<r.model, r.effort>> \in TargetFor(s).pairs
        /\ TargetFor(s).profile_id = ProfileId(s) /\ TargetFor(s).vendor = s.vendor
    BY <2>1, RouteFacts DEF SourceProfile, RouteFor, TargetFor
  <2> QED
    BY <2>2, ProfileForFacts DEF RouteResolves
<1>4. SelectorsUnique(BuiltPolicy)
  <2> SUFFICES ASSUME NEW s \in Chosen, NEW t \in Chosen, RouteFor(s).tier = RouteFor(t).tier
               PROVE  RouteFor(s) = RouteFor(t)
    BY BuiltEntries DEF SelectorsUnique
  <2>1. s.tier = t.tier
    BY DEF RouteFor
  <2> QED
    BY <2>1, ChosenByTier
<1> QED
  BY <1>1, <1>2, <1>3, <1>4, BuiltWithinLimits, BuiltIdsUnique, BuiltGrantsExact DEF ValidPolicy

LEMMA BuiltIsAcceptable ==
  ASSUME Answered, selections # <<>>, ~troubled PROVE Acceptable(BuiltPolicy)
<1>1. ValidPolicy(BuiltPolicy)
  BY BuiltIsValid
<1>2. ASSUME NEW t \in BuiltPolicy.targets PROVE t.executable \notin OddPaths
  BY <1>2, BuiltEntries DEF Answered, TargetFor
<1>3. ASSUME NEW r \in BuiltPolicy.routes PROVE Compiles(BuiltPolicy, SourceSelector(r.tier))
  <2>1. PICK s \in Chosen : r = RouteFor(s)
    BY BuiltEntries
  <2>2. r.model = s.model /\ r.tier = s.tier /\ r.source_profile_id = SourceId
    BY <2>1 DEF RouteFor
  <2>3. r.model # TaskPlaceholder
    BY <2>2 DEF Answered
  <2>4. Compiles(BuiltPolicy, SelectorOf(BuiltPolicy, r))
    BY <1>1, <2>3, ValidPolicyCompiles
  <2>5. Source(BuiltPolicy, r).vendor = source.vendor
    BY <2>1, RouteFacts DEF SourceProfile
  <2> QED
    BY <2>2, <2>4, <2>5 DEF SelectorOf, SourceSelector
<1> QED
  BY <1>1, <1>2, <1>3 DEF Acceptable

\* What an accepted policy of the dialogue routes is what was chosen, and with no
\* more authority than its transitions give.
LEMMA BuiltAsChosen ==
  ASSUME Answered, Acceptable(BuiltPolicy), NEW s \in Chosen
  PROVE  LET d == Descriptor(BuiltPolicy, SourceSelector(s.tier), "native_route") IN
         /\ Compiles(BuiltPolicy, SourceSelector(s.tier))
         /\ d.destination.vendor = s.vendor /\ d.destination.account_profile = s.account
         /\ d.target.executable = PathOf[s.vendor]
         /\ d.route.model = s.model /\ d.route.effort = s.effort
         /\ "profile" \in d.changed_dimensions <=> Endpoint(s) # source
         /\ d.authorizations \subseteq {g.id : g \in Transitions(BuiltPolicy)}
<1> DEFINE P == BuiltPolicy
           r == RouteFor(s)
           d == Descriptor(P, SourceSelector(s.tier), "native_route")
<1>1. r \in P.routes /\ r.source_profile_id = SourceId /\ r.tier = s.tier
      /\ r.model = s.model /\ r.effort = s.effort
  BY RouteFacts DEF RouteFor
<1>2. Compiles(P, SourceSelector(s.tier))
  BY <1>1 DEF Acceptable
<1>3. Matches(P, SourceSelector(s.tier)) = {r}
  <2>1. r \in Matches(P, SourceSelector(s.tier))
    BY <1>1 DEF Matches, SourceSelector
  <2> QED
    BY <1>2, <2>1 DEF Compiles
<1>4. SelectedRoute(P, SourceSelector(s.tier)) = r
  BY <1>3 DEF SelectedRoute
<1>5. /\ TargetOf(P, r) = TargetFor(s) /\ Destination(P, r) = ProfileFor(s)
      /\ CrossesProfile(P, r) <=> ~SameEndpoint(s, source)
  BY RouteFacts, Crossings
<1>6. /\ d.route = r /\ d.target = TargetOf(P, r) /\ d.destination = Destination(P, r)
      /\ d.changed_dimensions = ChangedDimensions(P, r)
      /\ d.authorizations =
           {g.id : g \in IF "profile" \in ChangedDimensions(P, r) THEN ProfileGrantsFor(P, r) ELSE {}}
             \cup {g.id : g \in IF "vendor" \in ChangedDimensions(P, r) THEN VendorGrantsFor(P, r) ELSE {}}
  BY <1>4 DEF Descriptor
<1>7. d.authorizations \subseteq {g.id : g \in Transitions(P)}
  <2>1. ProfileGrantsFor(P, r) \subseteq P.profile_grants /\ VendorGrantsFor(P, r) \subseteq P.vendor_grants
    BY DEF ProfileGrantsFor, VendorGrantsFor
  <2> HIDE DEF P, r, d
  <2> QED
    BY <1>6, <2>1 DEF Transitions
<1>8. "profile" \in d.changed_dimensions <=> Endpoint(s) # source
  <2>1. "profile" \in ChangedDimensions(P, r) <=> CrossesProfile(P, r)
    BY DEF ChangedDimensions
  <2>2. SameEndpoint(s, source) <=> Endpoint(s) = source
    <3>1. source = [vendor |-> source.vendor, account |-> source.account]
      BY DEF Answered
    <3> QED
      BY <3>1 DEF SameEndpoint, Endpoint
  <2> QED
    BY <1>5, <1>6, <2>1, <2>2
<1>9. /\ d.destination.vendor = s.vendor /\ d.destination.account_profile = s.account
      /\ d.target.executable = PathOf[s.vendor]
  BY <1>5, <1>6, ProfileForFacts DEF TargetFor
<1> HIDE DEF P, r, d
<1> QED
  BY <1>1, <1>2, <1>6, <1>7, <1>8, <1>9 DEF P, d

LEMMA OthersCompileNot ==
  ASSUME Answered, NEW t \in Tiers \ {s.tier : s \in Chosen}
  PROVE  ~Compiles(BuiltPolicy, SourceSelector(t))
<1>1. \A r \in BuiltPolicy.routes : r.tier # t
  BY BuiltEntries DEF RouteFor
<1>2. Matches(BuiltPolicy, SourceSelector(t)) = {}
  BY <1>1 DEF Matches, SourceSelector
<1> QED
  BY <1>2 DEF Compiles

-------------------------------------------------------------------------------
(* The dialogue as it goes *)

\* The answers for a tier, so far.
ChoicesSoFar == [vendor : Installed \cup {"none"}, account : Accounts \cup {"none"},
            effort : Efforts \cup {"none"}]

\* Tiers are asked for in their order, each once.
InOrder ==
  /\ tier \in 1..3 /\ choice \in ChoicesSoFar
  /\ place \in {"account", "effort", "model"} => choice.vendor \in Installed
  /\ place \in Prompts =>
       /\ Len(selections) < tier
       /\ \A i \in DOMAIN selections : \E k \in 1..(tier - 1) : selections[i].tier = TierAt[k]

\* What is consented to, accepted and emitted is the policy of these very answers.
AboutThis ==
  /\ place \in {"consent", "emit"} \/ outcome = "emitted" =>
       selections # <<>> /\ Transitions(BuiltPolicy) \subseteq pending \cup consented
  /\ place = "emit" \/ outcome = "emitted" => pending = {} /\ Acceptable(BuiltPolicy)

Ended ==
  /\ place \in Prompts \cup {"build", "consent", "emit", "done"}
  /\ place # "done" => outcome = "none"
  /\ outcome = "invalid_input" => troubled

DialogueInv == Answered /\ InOrder /\ AboutThis /\ Ended

\* Nothing of this looks at more than the answers.
LEMMA SameAnswers ==
  ASSUME source' = source, selections' = selections
  PROVE  BuiltPolicy' = BuiltPolicy /\ Transitions(BuiltPolicy)' = Transitions(BuiltPolicy)
         /\ Acceptable(BuiltPolicy)' = Acceptable(BuiltPolicy)
<1>1. Others' = Others
  BY DEF Others, SameEndpoint
<1>2. \A i : OtherId(i)' = OtherId(i)
  BY <1>1 DEF OtherId
<1>3. \A s : ProfileId(s)' = ProfileId(s)
  <2> SUFFICES ASSUME NEW s PROVE ProfileId(s)' = ProfileId(s)
    OBVIOUS
  <2>1. (CHOOSE i \in Others : SameEndpoint(s, selections[i]))' = (CHOOSE i \in Others : SameEndpoint(s, selections[i]))
    BY <1>1 DEF SameEndpoint
  <2> QED
    BY <1>1, <2>1 DEF ProfileId, OtherId, SameEndpoint, SourceId
<1>4. \A i : OtherProfile(i)' = OtherProfile(i) /\ ProfileGrant(i)' = ProfileGrant(i)
  BY <1>2 DEF OtherProfile, ProfileGrant, SourceId
<1>5. \A s : TargetFor(s)' = TargetFor(s) /\ RouteFor(s)' = RouteFor(s)
  BY <1>3 DEF TargetFor, RouteFor, TargetId, SourceId
<1>6. SourceProfile' = SourceProfile /\ \A v : VendorGrant(v)' = VendorGrant(v)
  BY DEF SourceProfile, VendorGrant, SourceId
<1>7. Chosen' = Chosen /\ GrantedVendors' = GrantedVendors
  BY DEF Chosen, GrantedVendors
<1>8. BuiltPolicy = [profiles |-> {SourceProfile} \cup {OtherProfile(i) : i \in Others},
                     targets |-> {TargetFor(s) : s \in Chosen}, routes |-> {RouteFor(s) : s \in Chosen},
                     profile_grants |-> {ProfileGrant(i) : i \in Others},
                     vendor_grants |-> {VendorGrant(v) : v \in GrantedVendors}]
  BY DEF BuiltPolicy, SourceProfile, OtherProfile, TargetFor, RouteFor, ProfileGrant, VendorGrant, Chosen
<1>9. BuiltPolicy' = [profiles |-> {SourceProfile'} \cup {OtherProfile(i)' : i \in Others'},
                     targets |-> {TargetFor(s)' : s \in Chosen'}, routes |-> {RouteFor(s)' : s \in Chosen'},
                     profile_grants |-> {ProfileGrant(i)' : i \in Others'},
                     vendor_grants |-> {VendorGrant(v)' : v \in GrantedVendors'}]
  BY DEF BuiltPolicy, SourceProfile, OtherProfile, TargetFor, RouteFor, ProfileGrant, VendorGrant, Chosen
<1>10. BuiltPolicy' = BuiltPolicy
  BY <1>1, <1>4, <1>5, <1>6, <1>7, <1>8, <1>9
<1> QED
  BY <1>10 DEF Transitions, Acceptable, SourceSelector

LEMMA AnsweredStays ==
  ASSUME Answered, source' = source, selections' = selections, troubled => troubled'
  PROVE  Answered'
BY DEF Answered, Chosen

LEMMA DialogueStart == DialogueInit => DialogueInv
<1> SUFFICES ASSUME DialogueInit PROVE DialogueInv
  OBVIOUS
<1> USE DEF DialogueInit
<1>1. Answered
  <2>1. selections \in Seq(Selection) /\ DOMAIN selections = 1..0
    OBVIOUS
  <2>2. Chosen = {}
    BY <2>1 DEF Chosen, ToSet
  <2> QED
    BY <2>1, <2>2 DEF Answered
<1>2. InOrder
  BY DEF InOrder, NoChoice, ChoicesSoFar, Prompts
<1> QED
  BY <1>1, <1>2 DEF DialogueInv, AboutThis, Ended, Prompts

\* The answer to the last prompt of a tier completes that tier.
LEMMA TierAnswered ==
  ASSUME DialogueInv, NEW m \in Models, AnswerModel(m)
  PROVE  DialogueInv'
<1> DEFINE new == [tier |-> TierAt[tier], vendor |-> choice.vendor, account |-> choice.account,
                   effort |-> choice.effort, model |-> m]
<1>1. place = "model" /\ selections' = Append(selections, new) /\ source' = source /\ m \in ModelsFor(choice.vendor)
      /\ troubled' = (troubled \/ m = TaskPlaceholder \/ PathOf[choice.vendor] \in OddPaths)
      /\ choice' = NoChoice /\ outcome' = outcome
      /\ \/ tier < 3 /\ tier' = tier + 1 /\ place' = "destination"
         \/ ~(tier < 3) /\ place' = "build" /\ tier' = tier
  BY DEF AnswerModel, Ask
<1>2. /\ tier \in 1..3 /\ choice \in ChoicesSoFar /\ choice.vendor \in Installed
      /\ Len(selections) < tier
      /\ \A i \in DOMAIN selections : \E k \in 1..(tier - 1) : selections[i].tier = TierAt[k]
  BY <1>1 DEF DialogueInv, InOrder, Prompts
<1>3. selections \in Seq(Selection)
  BY DEF DialogueInv, Answered
<1>4. /\ \A k \in 1..3 : TierAt[k] \in Tiers
      /\ \A k \in 1..(tier - 1) : TierAt[k] # TierAt[tier]
  <2>1. TierAt[1] = "low" /\ TierAt[2] = "standard" /\ TierAt[3] = "high"
    BY DEF TierAt
  <2> QED
    BY <1>2, <2>1 DEF Tiers
<1>5. new \in Selection
  <2>1. choice.account \in Accounts \cup {"none"} /\ choice.effort \in Efforts \cup {"none"}
    BY <1>2 DEF ChoicesSoFar
  <2> QED
    BY <1>2, <1>4, <2>1 DEF Selection
<1>6. new.tier = TierAt[tier] /\ new.vendor = choice.vendor /\ new.model = m
  OBVIOUS
<1>7. new.vendor = "agy" => new.model = NoModel
  BY <1>1, <1>6 DEF ModelsFor
<1> HIDE DEF new
<1> DEFINE n == Len(selections)
<1>8. /\ n \in Nat /\ n < tier /\ DOMAIN selections = 1..n /\ DOMAIN selections' = 1..(n + 1)
      /\ selections' \in Seq(Selection)
      /\ \A i \in 1..n : selections'[i] = selections[i]
      /\ selections'[n + 1] = new
  BY <1>1, <1>2, <1>3, <1>5
<1>9. Chosen' = Chosen \cup {new}
  <2>1. Chosen = {selections[i] : i \in 1..n} /\ Chosen' = {selections'[i] : i \in 1..(n + 1)}
    BY <1>8 DEF Chosen, ToSet
  <2> HIDE DEF n
  <2>2. 1..(n + 1) = 1..n \cup {n + 1}
    BY <1>8
  <2> QED
    BY <1>8, <2>1, <2>2
<1> HIDE DEF n
<1>10. Answered'
  <2>1. source' = [vendor |-> source'.vendor, account |-> source'.account]
    BY <1>1 DEF DialogueInv, Answered
  <2>2. \A s \in Chosen' : s.vendor = "agy" => s.model = NoModel
    BY <1>7, <1>9 DEF DialogueInv, Answered
  <2>3. n + 1 \in 0..3
    BY <1>2, <1>8
  <2>4. ASSUME NEW i \in 1..(n + 1), NEW j \in 1..(n + 1), selections'[i].tier = selections'[j].tier
        PROVE  i = j
    <3>1. \A k \in 1..n : selections'[k].tier # new.tier
      BY <1>2, <1>4, <1>6, <1>8
    <3>2. CASE i \in 1..n /\ j \in 1..n
      BY <1>8, <2>4, <3>2 DEF DialogueInv, Answered
    <3>3. CASE i = n + 1 \/ j = n + 1
      BY <1>8, <2>4, <3>1, <3>3
    <3> QED
      BY <1>8, <3>2, <3>3
  <2>5. ~troubled' => \A s \in Chosen' : s.model # TaskPlaceholder /\ PathOf[s.vendor] \notin OddPaths
    BY <1>1, <1>6, <1>9 DEF DialogueInv, Answered
  <2> QED
    BY <1>8, <2>1, <2>2, <2>3, <2>4, <2>5 DEF Answered
<1>11. InOrder'
  <2>1. tier' \in 1..3
    BY <1>1, <1>2
  <2>2. choice' \in ChoicesSoFar
    BY <1>1 DEF ChoicesSoFar, NoChoice
  <2>3. ASSUME place' = "destination"
        PROVE  /\ Len(selections') < tier'
               /\ \A i \in DOMAIN selections' : \E k \in 1..(tier' - 1) : selections'[i].tier = TierAt[k]
    <3>1. tier' = tier + 1 /\ Len(selections') = n + 1
      BY <1>1, <1>2, <1>8, <2>3
    <3>2. ASSUME NEW i \in 1..(n + 1) PROVE \E k \in 1..tier : selections'[i].tier = TierAt[k]
      <4>1. CASE i \in 1..n
        BY <1>2, <1>8, <4>1
      <4>2. CASE i = n + 1
        BY <1>2, <1>6, <1>8, <4>2
      <4> QED
        BY <1>8, <4>1, <4>2
    <3> QED
      BY <1>2, <1>8, <3>1, <3>2
  <2> QED
    BY <1>1, <2>1, <2>2, <2>3 DEF InOrder, Prompts
<1>12. AboutThis' /\ Ended'
  BY <1>1 DEF DialogueInv, AboutThis, Ended, Prompts
<1> QED
  BY <1>10, <1>11, <1>12 DEF DialogueInv

LEMMA DialogueStep == DialogueInv /\ [DialogueNext]_dialogueVars => DialogueInv'
<1> SUFFICES ASSUME DialogueInv, [DialogueNext]_dialogueVars PROVE DialogueInv'
  OBVIOUS
<1>0. Answered /\ InOrder /\ AboutThis /\ Ended
  BY DEF DialogueInv
\* Most actions touch neither the answers nor what is consented to.
<1>1. ASSUME source' = source, selections' = selections, troubled => troubled'
      PROVE  /\ Answered' /\ BuiltPolicy' = BuiltPolicy
             /\ Transitions(BuiltPolicy)' = Transitions(BuiltPolicy)
             /\ Acceptable(BuiltPolicy)' = Acceptable(BuiltPolicy)
  BY <1>0, <1>1, AnsweredStays, SameAnswers
<1>2. ASSUME place \in Prompts, place' \in Prompts, selections' = selections, tier' = tier,
             choice' \in ChoicesSoFar, troubled' = troubled, outcome' = outcome,
             place' \in {"account", "effort", "model"} => choice'.vendor \in Installed,
             source' = [vendor |-> source'.vendor, account |-> source'.account]
      PROVE  DialogueInv'
  <2>1. Answered'
    BY <1>0, <1>2 DEF Answered, Chosen
  <2>2. InOrder'
    BY <1>0, <1>2 DEF InOrder
  <2> QED
    BY <1>0, <1>2, <2>1, <2>2 DEF DialogueInv, AboutThis, Ended, Prompts
<1>3. source = [vendor |-> source.vendor, account |-> source.account] /\ choice \in ChoicesSoFar
  BY <1>0 DEF Answered, InOrder
<1>4. ASSUME NEW v \in Installed, AnswerSource(v) PROVE DialogueInv'
  <2>1. source' = [vendor |-> v, account |-> source.account]
    BY <1>3, <1>4 DEF AnswerSource
  <2> QED
    BY <1>2, <1>3, <1>4, <2>1 DEF AnswerSource, Ask, Prompts
<1>5. ASSUME NEW a \in Accounts, AnswerSourceAccount(a) PROVE DialogueInv'
  <2>1. source' = [vendor |-> source.vendor, account |-> a]
    BY <1>3, <1>5 DEF AnswerSourceAccount
  <2> QED
    BY <1>2, <1>3, <1>5, <2>1 DEF AnswerSourceAccount, Ask, Prompts
<1>6. ASSUME NEW v \in Installed, AnswerDestination(v) PROVE DialogueInv'
  <2>1. choice' \in ChoicesSoFar /\ choice'.vendor = v
    BY <1>3, <1>6 DEF AnswerDestination, ChoicesSoFar
  <2> QED
    BY <1>2, <1>3, <1>6, <2>1 DEF AnswerDestination, Ask, Prompts
<1>7. ASSUME NEW a \in Accounts, AnswerAccount(a) PROVE DialogueInv'
  <2>1. choice' \in ChoicesSoFar /\ choice'.vendor = choice.vendor
    BY <1>3, <1>7 DEF AnswerAccount, ChoicesSoFar
  <2>2. choice.vendor \in Installed
    BY <1>0, <1>7 DEF InOrder, AnswerAccount
  <2> QED
    BY <1>2, <1>3, <1>7, <2>1, <2>2 DEF AnswerAccount, Ask, Prompts
<1>8. ASSUME NEW e \in EffortsTried, AnswerEffort(e) PROVE DialogueInv'
  <2>1. choice' \in ChoicesSoFar /\ choice'.vendor = choice.vendor
    BY <1>3, <1>8, SelectorAssumption DEF AnswerEffort, ChoicesSoFar
  <2>2. choice.vendor \in Installed
    BY <1>0, <1>8 DEF InOrder, AnswerEffort
  <2> QED
    BY <1>2, <1>3, <1>8, <2>1, <2>2 DEF AnswerEffort, Ask, Prompts
<1>9. ASSUME NEW m \in Models, AnswerModel(m) PROVE DialogueInv'
  BY <1>9, TierAnswered
<1>10. CASE SkipTier
  <2>1. /\ source' = source /\ selections' = selections /\ choice' = choice /\ troubled' = troubled
        /\ outcome' = outcome /\ place = "destination"
        /\ \/ tier < 3 /\ tier' = tier + 1 /\ place' = place
           \/ ~(tier < 3) /\ place' = "build" /\ tier' = tier
    BY <1>10 DEF SkipTier, Ask
  <2>2. InOrder'
    <3>1. /\ tier \in 1..3 /\ Len(selections) < tier
          /\ \A i \in DOMAIN selections : \E k \in 1..(tier - 1) : selections[i].tier = TierAt[k]
      BY <1>0, <2>1 DEF InOrder, Prompts
    <3>2. Len(selections) \in Nat
      BY <1>0 DEF Answered
    <3>3. /\ tier' \in 1..3 /\ Len(selections) < tier'
          /\ place' \in Prompts => \A k \in 1..(tier - 1) : k \in 1..(tier' - 1)
      BY <2>1, <3>1, <3>2 DEF Prompts
    <3>4. place' \in Prompts =>
            \A i \in DOMAIN selections : \E k \in 1..(tier' - 1) : selections[i].tier = TierAt[k]
      BY <3>1, <3>3
    <3> QED
      BY <1>3, <2>1, <3>3, <3>4 DEF InOrder, Prompts
  <2>3. Answered'
    BY <1>1, <2>1
  <2> QED
    BY <1>0, <2>1, <2>2, <2>3 DEF DialogueInv, AboutThis, Ended, Prompts
<1>11. CASE Build
  <2>1. source' = source /\ selections' = selections /\ tier' = tier /\ choice' = choice
        /\ place = "build" /\ consented' = consented
    BY <1>11 DEF Build
  <2>2. \/ selections = <<>> /\ place' = "done" /\ outcome' = "invalid_input" /\ troubled'
        \/ selections # <<>> /\ pending' = Transitions(BuiltPolicy) /\ place' = "consent"
           /\ troubled' = troubled /\ outcome' = outcome
    BY <1>11 DEF Build, Ask, Finish
  <2>3. Answered' /\ Transitions(BuiltPolicy)' = Transitions(BuiltPolicy)
    BY <1>1, <2>1, <2>2
  <2>4. InOrder'
    BY <1>0, <2>1, <2>2 DEF InOrder, Prompts
  <2> QED
    BY <1>0, <2>1, <2>2, <2>3, <2>4 DEF DialogueInv, AboutThis, Ended, Prompts
<1>12. ASSUME NEW g \in pending, Consent(g) PROVE DialogueInv'
  <2>1. /\ source' = source /\ selections' = selections /\ tier' = tier /\ choice' = choice
        /\ place = "consent" /\ place' = place /\ troubled' = troubled /\ outcome' = outcome
        /\ pending' = pending \ {g} /\ consented' = consented \cup {g}
    BY <1>12 DEF Consent
  <2>2. Answered' /\ Transitions(BuiltPolicy)' = Transitions(BuiltPolicy)
    BY <1>1, <2>1
  <2>3. InOrder'
    BY <1>0, <2>1 DEF InOrder
  <2> QED
    BY <1>0, <2>1, <2>2, <2>3 DEF DialogueInv, AboutThis, Ended
<1>13. CASE Preview
  <2>1. /\ source' = source /\ selections' = selections /\ tier' = tier /\ choice' = choice
        /\ place = "consent" /\ pending = {} /\ pending' = pending /\ consented' = consented
        /\ troubled' = troubled
        /\ \/ Acceptable(BuiltPolicy) /\ place' = "emit" /\ outcome' = outcome
           \/ ~Acceptable(BuiltPolicy) /\ place' = "done" /\ outcome' = "invalid_input"
    BY <1>13 DEF Preview, Ask, Finish
  <2>2. /\ Answered' /\ Transitions(BuiltPolicy)' = Transitions(BuiltPolicy)
        /\ Acceptable(BuiltPolicy)' = Acceptable(BuiltPolicy)
    BY <1>1, <2>1
  <2>3. InOrder'
    BY <1>0, <2>1 DEF InOrder, Prompts
  <2>4. selections # <<>> /\ Transitions(BuiltPolicy) \subseteq pending \cup consented
    BY <1>0, <2>1 DEF AboutThis
  <2>5. Acceptable(BuiltPolicy) \/ troubled
    BY <1>0, <2>4, BuiltIsAcceptable
  <2> QED
    BY <1>0, <2>1, <2>2, <2>3, <2>4, <2>5 DEF DialogueInv, AboutThis, Ended, Prompts
<1>14. CASE Emit
  <2>1. /\ source' = source /\ selections' = selections /\ tier' = tier /\ choice' = choice
        /\ place = "emit" /\ pending' = pending /\ consented' = consented
        /\ troubled' = troubled /\ place' = "done" /\ outcome' = "emitted"
    BY <1>14 DEF Emit, Finish
  <2>2. /\ Answered' /\ Transitions(BuiltPolicy)' = Transitions(BuiltPolicy)
        /\ Acceptable(BuiltPolicy)' = Acceptable(BuiltPolicy)
    BY <1>1, <2>1
  <2>3. InOrder'
    BY <1>0, <2>1 DEF InOrder, Prompts
  <2> QED
    BY <1>0, <2>1, <2>2, <2>3 DEF DialogueInv, AboutThis, Ended, Prompts
<1>15. CASE ObservationFails \/ InvalidAnswer \/ Cancel
  <2>1. /\ source' = source /\ selections' = selections /\ tier' = tier /\ choice' = choice
        /\ troubled => troubled'
        /\ place' = "done" /\ \/ outcome' = "invalid_input" /\ troubled'
                              \/ outcome' = "cancelled"
    BY <1>15 DEF ObservationFails, InvalidAnswer, Cancel, Finish
  <2>2. Answered'
    BY <1>1, <2>1
  <2>3. InOrder'
    BY <1>0, <2>1 DEF InOrder, Prompts
  <2> QED
    BY <2>1, <2>2, <2>3 DEF DialogueInv, AboutThis, Ended
<1>16. CASE UNCHANGED dialogueVars
  <2>1. /\ source' = source /\ selections' = selections /\ tier' = tier /\ choice' = choice
        /\ place' = place /\ pending' = pending /\ consented' = consented
        /\ troubled' = troubled /\ outcome' = outcome
    BY <1>16 DEF dialogueVars
  <2>2. /\ Answered' /\ Transitions(BuiltPolicy)' = Transitions(BuiltPolicy)
        /\ Acceptable(BuiltPolicy)' = Acceptable(BuiltPolicy)
    BY <1>1, <2>1
  <2>3. InOrder'
    BY <1>0, <2>1 DEF InOrder
  <2> QED
    BY <1>0, <2>1, <2>2, <2>3 DEF DialogueInv, AboutThis, Ended
<1> QED
  BY <1>4, <1>5, <1>6, <1>7, <1>8, <1>9, <1>10, <1>11, <1>12, <1>13, <1>14, <1>15, <1>16
     DEF DialogueNext

LEMMA DialogueInvariant == DialogueSpec => []DialogueInv
BY DialogueStart, DialogueStep, PTL DEF DialogueSpec

\* run_interactive_selector refuses for a reason only: whatever is answered, the parser and
\* the compiler accept the policy that _build_policy makes of the answers.
THEOREM OwnPolicyIsAccepted == DialogueSpec => []OnlyTroubleFails
<1>1. DialogueInv => OnlyTroubleFails
  BY DEF DialogueInv, Ended, OnlyTroubleFails
<1> QED
  BY <1>1, DialogueInvariant, PTL

\* The policy that is emitted routes every tier as it was answered, and no other, under
\* grants that were all consented to.
THEOREM PolicyIsAsAnswered == DialogueSpec => []EmittedAsAnswered
<1>1. DialogueInv => EmittedAsAnswered
  <2> SUFFICES ASSUME DialogueInv, outcome = "emitted"
               PROVE  ChosenIsRouted /\ CrossingsConsented
    BY DEF EmittedAsAnswered, ChosenIsRouted, CrossingsConsented
  <2>1. /\ Answered /\ Acceptable(BuiltPolicy)
        /\ Transitions(BuiltPolicy) \subseteq consented
    BY DEF DialogueInv, AboutThis
  <2>2. ChosenIsRouted
    BY <2>1, BuiltAsChosen, OthersCompileNot DEF ChosenIsRouted, Chosen
  <2>3. CrossingsConsented
    BY <2>1, BuiltAsChosen DEF CrossingsConsented, Chosen
  <2> QED
    BY <2>2, <2>3
<1> QED
  BY <1>1, DialogueInvariant, PTL

-------------------------------------------------------------------------------
(* Commands, argument by argument *)

Two(a, b) == <<a, b>>
Three(a, b, c) == <<a, b, c>>
Four(a, b, c, d) == <<a, b, c, d>>
Five(a, b, c, d, e) == <<a, b, c, d, e>>
Six(a, b, c, d, e, f) == <<a, b, c, d, e, f>>
Seven(a, b, c, d, e, f, g) == <<a, b, c, d, e, f, g>>
Eight(a, b, c, d, e, f, g, h) == <<a, b, c, d, e, f, g, h>>

LEMMA JoinedIs ==
  ASSUME NEW S, NEW s \in Seq(S), NEW t \in Seq(S), NEW u \in Seq(S), Len(u) = Len(s) + Len(t),
         \A i \in 1..Len(s) : u[i] = s[i], \A i \in 1..Len(t) : u[Len(s) + i] = t[i]
  PROVE  s \o t = u
<1>1. s \o t \in Seq(S) /\ Len(s \o t) = Len(u)
  OBVIOUS
<1>2. ASSUME NEW i \in 1..Len(u) PROVE (s \o t)[i] = u[i]
  <2>1. CASE i <= Len(s)
    BY <2>1
  <2>2. CASE i > Len(s)
    <3>1. i - Len(s) \in 1..Len(t) /\ Len(s) + (i - Len(s)) = i
      BY <2>2
    <3>2. u[i] = t[i - Len(s)]
      BY <3>1
    <3> QED
      BY <2>2, <3>1, <3>2
  <2> QED
    BY <2>1, <2>2
<1> QED
  BY <1>1, <1>2

LEMMA CutIs ==
  ASSUME NEW S, NEW s \in Seq(S), NEW u \in Seq(S), NEW m \in 1..Len(s), NEW n \in m..Len(s),
         Len(u) = n - m + 1, \A i \in 1..Len(u) : u[i] = s[m + i - 1]
  PROVE  SubSeq(s, m, n) = u
<1>1. SubSeq(s, m, n) \in Seq(S) /\ Len(SubSeq(s, m, n)) = Len(u)
  OBVIOUS
<1>2. \A i \in 1..Len(u) : SubSeq(s, m, n)[i] = u[i]
  OBVIOUS
<1> QED
  BY <1>1, <1>2

LEMMA TwoAndTwo ==
  ASSUME NEW a, NEW b, NEW c, NEW d
  PROVE  Two(a, b) \o Two(c, d) = Four(a, b, c, d)
<1> DEFINE S == {a, b, c, d}
           s == <<a, b>>
           t == <<c, d>>
           u == <<a, b, c, d>>
<1>1. s \in Seq(S) /\ Len(s) = 2 /\ s[1] = a /\ s[2] = b
  OBVIOUS
<1>2. t \in Seq(S) /\ Len(t) = 2 /\ t[1] = c /\ t[2] = d
  OBVIOUS
<1>3. u \in Seq(S) /\ Len(u) = 4 /\ u[1] = a /\ u[2] = b /\ u[3] = c /\ u[4] = d
  OBVIOUS
<1> HIDE DEF S, s, t, u
<1>4. Len(u) = Len(s) + Len(t) /\ \A i \in 1..Len(s) : u[i] = s[i]
  BY <1>1, <1>2, <1>3
<1>5. \A i \in 1..Len(t) : u[Len(s) + i] = t[i]
  BY <1>1, <1>2, <1>3
<1>6. s \o t = u
  BY <1>1, <1>2, <1>3, <1>4, <1>5, JoinedIs
<1> QED
  BY <1>6 DEF s, t, u, Two, Four

LEMMA TwoAndThree ==
  ASSUME NEW a, NEW b, NEW c, NEW d, NEW e
  PROVE  Two(a, b) \o Three(c, d, e) = Five(a, b, c, d, e)
<1> DEFINE S == {a, b, c, d, e}
           s == <<a, b>>
           t == <<c, d, e>>
           u == <<a, b, c, d, e>>
<1>1. s \in Seq(S) /\ Len(s) = 2 /\ s[1] = a /\ s[2] = b
  OBVIOUS
<1>2. t \in Seq(S) /\ Len(t) = 3 /\ t[1] = c /\ t[2] = d /\ t[3] = e
  OBVIOUS
<1>3. u \in Seq(S) /\ Len(u) = 5 /\ u[1] = a /\ u[2] = b /\ u[3] = c /\ u[4] = d /\ u[5] = e
  OBVIOUS
<1> HIDE DEF S, s, t, u
<1>4. Len(u) = Len(s) + Len(t) /\ \A i \in 1..Len(s) : u[i] = s[i]
  BY <1>1, <1>2, <1>3
<1>5. \A i \in 1..Len(t) : u[Len(s) + i] = t[i]
  BY <1>1, <1>2, <1>3
<1>6. s \o t = u
  BY <1>1, <1>2, <1>3, <1>4, <1>5, JoinedIs
<1> QED
  BY <1>6 DEF s, t, u, Two, Three, Five

LEMMA FourAndTwo ==
  ASSUME NEW a, NEW b, NEW c, NEW d, NEW e, NEW f
  PROVE  Four(a, b, c, d) \o Two(e, f) = Six(a, b, c, d, e, f)
<1> DEFINE S == {a, b, c, d, e, f}
           s == <<a, b, c, d>>
           t == <<e, f>>
           u == <<a, b, c, d, e, f>>
<1>1. s \in Seq(S) /\ Len(s) = 4 /\ s[1] = a /\ s[2] = b /\ s[3] = c /\ s[4] = d
  OBVIOUS
<1>2. t \in Seq(S) /\ Len(t) = 2 /\ t[1] = e /\ t[2] = f
  OBVIOUS
<1>3. u \in Seq(S) /\ Len(u) = 6 /\ u[1] = a /\ u[2] = b /\ u[3] = c /\ u[4] = d /\ u[5] = e /\ u[6] = f
  OBVIOUS
<1> HIDE DEF S, s, t, u
<1>4. Len(u) = Len(s) + Len(t) /\ \A i \in 1..Len(s) : u[i] = s[i]
  BY <1>1, <1>2, <1>3
<1>5. \A i \in 1..Len(t) : u[Len(s) + i] = t[i]
  BY <1>1, <1>2, <1>3
<1>6. s \o t = u
  BY <1>1, <1>2, <1>3, <1>4, <1>5, JoinedIs
<1> QED
  BY <1>6 DEF s, t, u, Two, Four, Six

LEMMA FourAndThree ==
  ASSUME NEW a, NEW b, NEW c, NEW d, NEW e, NEW f, NEW g
  PROVE  Four(a, b, c, d) \o Three(e, f, g) = Seven(a, b, c, d, e, f, g)
<1> DEFINE S == {a, b, c, d, e, f, g}
           s == <<a, b, c, d>>
           t == <<e, f, g>>
           u == <<a, b, c, d, e, f, g>>
<1>1. s \in Seq(S) /\ Len(s) = 4 /\ s[1] = a /\ s[2] = b /\ s[3] = c /\ s[4] = d
  OBVIOUS
<1>2. t \in Seq(S) /\ Len(t) = 3 /\ t[1] = e /\ t[2] = f /\ t[3] = g
  OBVIOUS
<1>3. u \in Seq(S) /\ Len(u) = 7 /\ u[1] = a /\ u[2] = b /\ u[3] = c /\ u[4] = d /\ u[5] = e /\ u[6] = f /\ u[7] = g
  OBVIOUS
<1> HIDE DEF S, s, t, u
<1>4. Len(u) = Len(s) + Len(t) /\ \A i \in 1..Len(s) : u[i] = s[i]
  BY <1>1, <1>2, <1>3
<1>5. \A i \in 1..Len(t) : u[Len(s) + i] = t[i]
  BY <1>1, <1>2, <1>3
<1>6. s \o t = u
  BY <1>1, <1>2, <1>3, <1>4, <1>5, JoinedIs
<1> QED
  BY <1>6 DEF s, t, u, Three, Four, Seven

LEMMA SixAndTwo ==
  ASSUME NEW a, NEW b, NEW c, NEW d, NEW e, NEW f, NEW g, NEW h
  PROVE  Six(a, b, c, d, e, f) \o Two(g, h) = Eight(a, b, c, d, e, f, g, h)
<1> DEFINE S == {a, b, c, d, e, f, g, h}
           s == <<a, b, c, d, e, f>>
           t == <<g, h>>
           u == <<a, b, c, d, e, f, g, h>>
<1>1. s \in Seq(S) /\ Len(s) = 6 /\ s[1] = a /\ s[2] = b /\ s[3] = c /\ s[4] = d /\ s[5] = e /\ s[6] = f
  OBVIOUS
<1>2. t \in Seq(S) /\ Len(t) = 2 /\ t[1] = g /\ t[2] = h
  OBVIOUS
<1>3. u \in Seq(S) /\ Len(u) = 8 /\ u[1] = a /\ u[2] = b /\ u[3] = c /\ u[4] = d /\ u[5] = e /\ u[6] = f /\ u[7] = g /\ u[8] = h
  OBVIOUS
<1> HIDE DEF S, s, t, u
<1>4. Len(u) = Len(s) + Len(t) /\ \A i \in 1..Len(s) : u[i] = s[i]
  BY <1>1, <1>2, <1>3
<1>5. \A i \in 1..Len(t) : u[Len(s) + i] = t[i]
  BY <1>1, <1>2, <1>3
<1>6. s \o t = u
  BY <1>1, <1>2, <1>3, <1>4, <1>5, JoinedIs
<1> QED
  BY <1>6 DEF s, t, u, Two, Six, Eight

\* The option and its value go in front of an argument.
LEMMA NothingJoined ==
  /\ \A a, b : Two(a, b) \o <<>> = Two(a, b)
  /\ \A a, b, c, d : Four(a, b, c, d) \o <<>> = Four(a, b, c, d)
<1>1. \A a, b : Two(a, b) \o <<>> = Two(a, b)
  BY DEF Two
<1>2. \A a, b, c, d : Four(a, b, c, d) \o <<>> = Four(a, b, c, d)
  BY DEF Four
<1> QED
  BY <1>1, <1>2

LEMMA IntoFour ==
  ASSUME NEW a, NEW b, NEW c, NEW d, NEW x, NEW y
  PROVE  InsertBefore(Four(a, b, c, d), 3, Two(x, y))
           = Six(a, b, x, y, c, d)
<1> DEFINE S == {a, b, c, d}
           s == Four(a, b, c, d)
           t == Two(a, b)
           u == Two(c, d)
<1>1. s \in Seq(S) /\ Len(s) = 4 /\ s[1] = a /\ s[2] = b /\ s[3] = c /\ s[4] = d
  BY DEF Four
<1>2. t \in Seq(S) /\ Len(t) = 2 /\ t[1] = a /\ t[2] = b
  BY DEF Two
<1>3. u \in Seq(S) /\ Len(u) = 2 /\ u[1] = c /\ u[2] = d
  BY DEF Two
<1> HIDE DEF S, s, t, u
<1>4. SubSeq(s, 1, 2) = t
  BY <1>1, <1>2, CutIs
<1>5. SubSeq(s, 3, 4) = u
  <2>1. \A i \in 1..Len(u) : u[i] = s[3 + i - 1]
    BY <1>1, <1>3
  <2> QED
    BY <1>1, <1>3, <2>1, CutIs
<1>6. (t \o Two(x, y)) \o u = Six(a, b, x, y, c, d)
  BY FourAndTwo, TwoAndTwo DEF t, u
<1>7. InsertBefore(s, 3, Two(x, y)) = (SubSeq(s, 1, 2) \o Two(x, y)) \o SubSeq(s, 3, 4)
  BY <1>1 DEF InsertBefore
<1> QED
  BY <1>4, <1>5, <1>6, <1>7 DEF s

LEMMA IntoFive ==
  ASSUME NEW a, NEW b, NEW c, NEW d, NEW e, NEW x, NEW y
  PROVE  InsertBefore(Five(a, b, c, d, e), 3, Two(x, y))
           = Seven(a, b, x, y, c, d, e)
<1> DEFINE S == {a, b, c, d, e}
           s == Five(a, b, c, d, e)
           t == Two(a, b)
           u == Three(c, d, e)
<1>1. s \in Seq(S) /\ Len(s) = 5 /\ s[1] = a /\ s[2] = b /\ s[3] = c /\ s[4] = d /\ s[5] = e
  BY DEF Five
<1>2. t \in Seq(S) /\ Len(t) = 2 /\ t[1] = a /\ t[2] = b
  BY DEF Two
<1>3. u \in Seq(S) /\ Len(u) = 3 /\ u[1] = c /\ u[2] = d /\ u[3] = e
  BY DEF Three
<1> HIDE DEF S, s, t, u
<1>4. SubSeq(s, 1, 2) = t
  BY <1>1, <1>2, CutIs
<1>5. SubSeq(s, 3, 5) = u
  <2>1. \A i \in 1..Len(u) : u[i] = s[3 + i - 1]
    BY <1>1, <1>3
  <2> QED
    BY <1>1, <1>3, <2>1, CutIs
<1>6. (t \o Two(x, y)) \o u = Seven(a, b, x, y, c, d, e)
  <2>1. t \o Two(x, y) = Four(a, b, x, y)
    BY TwoAndTwo DEF t
  <2>2. Four(a, b, x, y) \o u = Seven(a, b, x, y, c, d, e)
    BY FourAndThree DEF u
  <2> QED
    BY <2>1, <2>2
<1>7. InsertBefore(s, 3, Two(x, y)) = (SubSeq(s, 1, 2) \o Two(x, y)) \o SubSeq(s, 3, 5)
  BY <1>1 DEF InsertBefore
<1> QED
  BY <1>4, <1>5, <1>6, <1>7 DEF s

LEMMA IntoSix ==
  ASSUME NEW a, NEW b, NEW c, NEW d, NEW e, NEW f, NEW x, NEW y
  PROVE  InsertBefore(Six(a, b, c, d, e, f), 5, Two(x, y))
           = Eight(a, b, c, d, x, y, e, f)
<1> DEFINE S == {a, b, c, d, e, f}
           s == Six(a, b, c, d, e, f)
           t == Four(a, b, c, d)
           u == Two(e, f)
<1>1. s \in Seq(S) /\ Len(s) = 6 /\ s[1] = a /\ s[2] = b /\ s[3] = c /\ s[4] = d /\ s[5] = e /\ s[6] = f
  BY DEF Six
<1>2. t \in Seq(S) /\ Len(t) = 4 /\ t[1] = a /\ t[2] = b /\ t[3] = c /\ t[4] = d
  BY DEF Four
<1>3. u \in Seq(S) /\ Len(u) = 2 /\ u[1] = e /\ u[2] = f
  BY DEF Two
<1> HIDE DEF S, s, t, u
<1>4. SubSeq(s, 1, 4) = t
  BY <1>1, <1>2, CutIs
<1>5. SubSeq(s, 5, 6) = u
  <2>1. \A i \in 1..Len(u) : u[i] = s[5 + i - 1]
    BY <1>1, <1>3
  <2> QED
    BY <1>1, <1>3, <2>1, CutIs
<1>6. (t \o Two(x, y)) \o u = Eight(a, b, c, d, x, y, e, f)
  <2>1. t \o Two(x, y) = Six(a, b, c, d, x, y)
    BY FourAndTwo DEF t
  <2>2. Six(a, b, c, d, x, y) \o u = Eight(a, b, c, d, x, y, e, f)
    BY SixAndTwo DEF u
  <2> QED
    BY <2>1, <2>2
<1>7. InsertBefore(s, 5, Two(x, y)) = (SubSeq(s, 1, 4) \o Two(x, y)) \o SubSeq(s, 5, 6)
  BY <1>1 DEF InsertBefore
<1> QED
  BY <1>4, <1>5, <1>6, <1>7 DEF s

-------------------------------------------------------------------------------
(* The commands of each vendor, written out *)

Plainly == <<"settings">>
Safely == <<"safe settings">>
Haiku == <<"haiku">>

ClaudeLine(o, e) == Four(<<"claude">>, o, <<"--effort">>, e)
ClaudeModelLine(o, m, e) == Six(<<"claude">>, o, <<"--model">>, m, <<"--effort">>, e)
CodexLine(e) == Five(<<"codex">>, <<"settings">>, <<"-c">>, <<Config>> \o e, <<"-">>)
CodexModelLine(m, e) ==
  Seven(<<"codex">>, <<"settings">>, <<"--model">>, m, <<"-c">>, <<Config>> \o e, <<"-">>)
AgyLine(e) == Six(<<"agy">>, <<"--print">>, Slot, <<"settings">>, <<"--effort">>, e)
GrokLine(e) == Six(<<"grok">>, <<"-p">>, Slot, <<"settings">>, <<"--reasoning-effort">>, e)
GrokModelLine(m, e) ==
  Eight(<<"grok">>, <<"-p">>, Slot, <<"settings">>, <<"--model">>, m, <<"--reasoning-effort">>, e)

PlainOpenings == {Plainly, Safely}
PackagedEfforts == {<<"low">>, <<"medium">>, <<"high">>}

LEMMA PlainPair == \A a, b : Plain(<<a, b>>) = Two(<<a>>, <<b>>)
BY DEF Plain, Two

LEMMA Openings ==
  /\ Opening["claude"] = Two(<<"claude">>, Plainly)
  /\ Opening["codex"] = Two(<<"codex">>, <<"settings">>)
  /\ Opening["agy"] = Four(<<"agy">>, <<"--print">>, Slot, <<"settings">>)
  /\ Opening["grok"] = Four(<<"grok">>, <<"-p">>, Slot, <<"settings">>)
<1>1. /\ Plain(<<"claude", "settings">>) = Two(<<"claude">>, Plainly)
      /\ Plain(<<"codex", "settings">>) = Two(<<"codex">>, <<"settings">>)
  BY PlainPair DEF Plainly, Safely, Haiku
<1> QED
  BY <1>1 DEF Opening, Four

LEMMA Endings ==
  ASSUME NEW e
  PROVE  /\ Ending("claude", e) = Two(<<"--effort">>, e) /\ Ending("agy", e) = Two(<<"--effort">>, e)
         /\ Ending("codex", e) = Three(<<"-c">>, <<Config>> \o e, <<"-">>)
         /\ Ending("grok", e) = Two(<<"--reasoning-effort">>, e)
BY DEF Ending, Two, Three

\* A codex command with a model before its settings.
LEMMA CodexInsertion ==
  ASSUME NEW m, NEW e
  PROVE  InsertBefore(CodexLine(e), 3, Two(<<"--model">>, m)) = CodexModelLine(m, e)
<1> DEFINE codex == <<"codex">>
           settings == <<"settings">>
           c == <<"-c">>
           config == <<Config>> \o e
           dash == <<"-">>
           model == <<"--model">>
<1>1. /\ CodexLine(e) = Five(codex, settings, c, config, dash)
      /\ CodexModelLine(m, e) = Seven(codex, settings, model, m, c, config, dash)
  BY DEF CodexLine, CodexModelLine
<1> HIDE DEF codex, settings, c, config, dash, model
<1>2. InsertBefore(CodexLine(e), 3, Two(model, m)) = CodexModelLine(m, e)
  BY <1>1, IntoFive
<1> QED
  BY <1>2 DEF model

LEMMA BuiltInLine ==
  ASSUME NEW e
  PROVE  /\ BuiltIn("claude", e) = ClaudeLine(Plainly, e)
         /\ BuiltIn("codex", e) = CodexLine(e)
         /\ BuiltIn("agy", e) = AgyLine(e) /\ BuiltIn("grok", e) = GrokLine(e)
<1>1. BuiltIn("claude", e) = ClaudeLine(Plainly, e)
  <2>1. BuiltIn("claude", e) = Two(<<"claude">>, Plainly) \o Two(<<"--effort">>, e)
    BY Openings, Endings DEF BuiltIn
  <2> QED
    BY <2>1, TwoAndTwo DEF ClaudeLine
<1>2. BuiltIn("codex", e) = CodexLine(e)
  <2> DEFINE codex == <<"codex">>
             settings == <<"settings">>
             c == <<"-c">>
             config == <<Config>> \o e
             dash == <<"-">>
  <2>1. Opening["codex"] = Two(codex, settings) /\ Ending("codex", e) = Three(c, config, dash)
    BY Openings, Endings
  <2>2. CodexLine(e) = Five(codex, settings, c, config, dash)
    BY DEF CodexLine
  <2> HIDE DEF codex, settings, c, config, dash
  <2> QED
    BY <2>1, <2>2, TwoAndThree DEF BuiltIn
<1>3. BuiltIn("agy", e) = AgyLine(e)
  <2> DEFINE agy == <<"agy">>
             print == <<"--print">>
             settings == <<"settings">>
             effort == <<"--effort">>
  <2>1. Opening["agy"] = Four(agy, print, Slot, settings) /\ Ending("agy", e) = Two(effort, e)
    BY Openings, Endings
  <2>2. AgyLine(e) = Six(agy, print, Slot, settings, effort, e)
    BY DEF AgyLine
  <2> HIDE DEF agy, print, settings, effort
  <2> QED
    BY <2>1, <2>2, FourAndTwo DEF BuiltIn
<1>4. BuiltIn("grok", e) = GrokLine(e)
  <2> DEFINE grok == <<"grok">>
             p == <<"-p">>
             settings == <<"settings">>
             effort == <<"--reasoning-effort">>
  <2>1. Opening["grok"] = Four(grok, p, Slot, settings) /\ Ending("grok", e) = Two(effort, e)
    BY Openings, Endings
  <2>2. GrokLine(e) = Six(grok, p, Slot, settings, effort, e)
    BY DEF GrokLine
  <2> HIDE DEF grok, p, settings, effort
  <2> QED
    BY <2>1, <2>2, FourAndTwo DEF BuiltIn
<1> QED
  BY <1>1, <1>2, <1>3, <1>4

LEMMA PresetLine ==
  ASSUME NEW level \in RouteTiers
  PROVE  /\ level = "low" => Preset("claude", level) =
                              ClaudeModelLine(Safely, Haiku, UsualEffort[level])
         /\ level # "low" => Preset("claude", level) = ClaudeLine(Safely, UsualEffort[level])
<1>1. /\ Plain(<<"claude", "safe settings">>) = Two(<<"claude">>, Safely)
      /\ Plain(<<"--model", "haiku">>) = Two(<<"--model">>, Haiku)
  BY PlainPair DEF Plainly, Safely, Haiku
<1>2. CASE level = "low"
  <2>1. Preset("claude", level) = (Two(<<"claude">>, Safely) \o Two(<<"--model">>, Haiku))
                                   \o Two(<<"--effort">>, UsualEffort[level])
    BY <1>1, <1>2, Endings DEF Preset
  <2>2. Two(<<"claude">>, Safely) \o Two(<<"--model">>, Haiku)
          = Four(<<"claude">>, Safely, <<"--model">>, Haiku)
    BY TwoAndTwo
  <2>3. \A o, m, e : Four(<<"claude">>, o, <<"--model">>, m) \o Two(<<"--effort">>, e) = ClaudeModelLine(o, m, e)
    BY FourAndTwo DEF ClaudeModelLine
  <2> QED
    BY <1>2, <2>1, <2>2, <2>3
<1>3. CASE level # "low"
  <2>1. Preset("claude", level) = (Two(<<"claude">>, Safely) \o <<>>)
                                   \o Two(<<"--effort">>, UsualEffort[level])
    BY <1>1, <1>3, Endings DEF Preset
  <2>2. Two(<<"claude">>, Safely) \o <<>> = Two(<<"claude">>, Safely)
    BY NothingJoined
  <2> QED
    BY <1>3, <2>1, <2>2, TwoAndTwo DEF ClaudeLine
<1> QED
  BY <1>2, <1>3

-------------------------------------------------------------------------------
(* Labels put on them *)

\* One word is told from another one by what it says.
LEMMA OtherWord == \A s, a : s[1] # a => s # <<a>>
<1> SUFFICES ASSUME NEW s, NEW a, s = <<a>> PROVE s[1] = a
  OBVIOUS
<1> QED
  OBVIOUS

LEMMA ValidLabelIsNoOption ==
  ASSUME NEW m, ValidLabel(m)
  PROVE  /\ m # <<"--model">> /\ m # <<"--effort">> /\ m # <<"--reasoning-effort">> /\ m # <<"-c">>
         /\ m # NoLabel
<1>1. m # NoLabel /\ m[1] \notin {"--model", "--effort", "--reasoning-effort", "-c"}
  BY DEF ValidLabel, Dashes
<1> QED
  BY <1>1, OtherWord

LEMMA ConfigIsNoOption ==
  ASSUME NEW S, NEW e \in Seq(S)
  PROVE  /\ <<Config>> \o e # <<>> /\ (<<Config>> \o e)[1] = Config
         /\ <<Config>> \o e # <<"-c">> /\ <<Config>> \o e # <<"--model">>
<1> DEFINE s == <<Config>> \o e
           T == S \cup {Config}
<1>1. <<Config>> \in Seq(T) /\ Len(<<Config>>) = 1 /\ <<Config>>[1] = Config /\ e \in Seq(T)
  OBVIOUS
<1> HIDE DEF T
<1>2. s \in Seq(T) /\ Len(s) = 1 + Len(e) /\ s[1] = Config
  BY <1>1
<1>3. s # <<>>
  BY <1>1, <1>2
<1>4. Config # "-c" /\ Config # "--model"
  BY DEF Config
<1> HIDE DEF s
<1>5. s # <<"-c">> /\ s # <<"--model">>
  BY <1>2, <1>4, OtherWord
<1> QED
  BY <1>2, <1>3, <1>5 DEF s

LEMMA UsualEfforts ==
  ASSUME NEW level \in RouteTiers
  PROVE  UsualEffort[level] \in PackagedEfforts
BY DEF UsualEffort, RouteTiers, PackagedEfforts

LEMMA PackagedEffortsAreNoOptions ==
  ASSUME NEW e \in PackagedEfforts
  PROVE  /\ e \in Seq({"low", "medium", "high"}) /\ e # NoLabel /\ e # Slot /\ e # Task
         /\ e # <<"--model">> /\ e # <<"--effort">> /\ e # <<"--reasoning-effort">>
<1>1. e \in Seq({"low", "medium", "high"}) /\ e # NoLabel /\ e[1] \in {"low", "medium", "high"}
  <2>1. PICK w \in {"low", "medium", "high"} : e = <<w>>
    BY DEF PackagedEfforts
  <2> DEFINE W == {"low", "medium", "high"}
  <2> HIDE DEF W
  <2>2. w \in W => <<w>> \in Seq(W) /\ <<w>> # <<>> /\ <<w>>[1] = w
    OBVIOUS
  <2> QED
    BY <2>1, <2>2 DEF W, NoLabel
<1>2. e[1] # "--model" /\ e[1] # "--effort" /\ e[1] # "--reasoning-effort" /\ e[1] # "{{task}}"
      /\ e[1] # "the task's text"
  BY <1>1
<1> QED
  BY <1>1, <1>2, OtherWord DEF Slot, Task

LEMMA WordsDiffer ==
  ASSUME NEW a, NEW b, a # b
  PROVE  <<a>> # <<b>>
BY OtherWord

\* A model label stands in front of the effort, or in place of the packaged model.
LEMMA ModelOnClaude ==
  ASSUME NEW o \in PlainOpenings, NEW e \in PackagedEfforts, NEW label, label # NoLabel
  PROVE  /\ \A c \in WithModel(ClaudeLine(o, e), "claude", label) :
              c = ClaudeModelLine(o, label, e) /\ ValidLabel(label)
         /\ \A c \in WithModel(ClaudeModelLine(o, Haiku, e), "claude", label) :
              c = ClaudeModelLine(o, label, e) /\ ValidLabel(label)
<1>1. /\ o # <<"--model">> /\ o # <<"--effort">> /\ e # <<"--model">> /\ e # <<"--effort">>
      /\ <<"claude">> # <<"--model">> /\ <<"claude">> # <<"--effort">>
      /\ <<"--model">> # <<"--effort">> /\ Haiku # <<"--model">>
  BY OtherWord, PackagedEffortsAreNoOptions DEF PlainOpenings, Plainly, Safely, Haiku
<1>2. InsertionPoint["claude"] = <<"--effort">> /\ "claude" \in DOMAIN InsertionPoint
  BY DEF InsertionPoint
<1>3. ASSUME NEW c \in WithModel(ClaudeLine(o, e), "claude", label)
      PROVE  c = ClaudeModelLine(o, label, e) /\ ValidLabel(label)
  <2> DEFINE s == ClaudeLine(o, e)
  <2>1. ValidLabel(label) /\ c \in ReplaceOrInsert(s, <<"--model">>, label, <<"--effort">>)
    BY <1>2, <1>3 DEF WithModel
  <2>2. DOMAIN s = 1..4 /\ s[1] = <<"claude">> /\ s[2] = o /\ s[3] = <<"--effort">> /\ s[4] = e
    BY DEF ClaudeLine, Four
  <2> HIDE DEF s
  <2>3. Places(s, <<"--model">>) = {} /\ Places(s, <<"--effort">>) = {3}
    BY <1>1, <2>2 DEF Places
  <2>4. c = InsertBefore(s, 3, Two(<<"--model">>, label))
    BY <2>1, <2>3 DEF ReplaceOrInsert, Two
  <2> QED
    BY <2>1, <2>4, IntoFour DEF s, ClaudeLine, ClaudeModelLine
<1>4. ASSUME NEW c \in WithModel(ClaudeModelLine(o, Haiku, e), "claude", label)
      PROVE  c = ClaudeModelLine(o, label, e) /\ ValidLabel(label)
  <2> DEFINE s == ClaudeModelLine(o, Haiku, e)
  <2>1. ValidLabel(label) /\ c \in ReplaceOrInsert(s, <<"--model">>, label, <<"--effort">>)
    BY <1>2, <1>4 DEF WithModel
  <2>2. /\ DOMAIN s = 1..6 /\ Len(s) = 6 /\ s[1] = <<"claude">> /\ s[2] = o /\ s[3] = <<"--model">>
        /\ s[4] = Haiku /\ s[5] = <<"--effort">> /\ s[6] = e
        /\ [s EXCEPT ![4] = label] = ClaudeModelLine(o, label, e)
    BY DEF ClaudeModelLine, Six
  <2> HIDE DEF s
  <2>3. Places(s, <<"--model">>) = {3}
    BY <1>1, <2>2 DEF Places
  <2>4. c = [s EXCEPT ![4] = label]
    BY <2>1, <2>2, <2>3 DEF ReplaceOrInsert
  <2> QED
    BY <2>1, <2>2, <2>4
<1> QED
  BY <1>3, <1>4

LEMMA CodexSettingAt ==
  ASSUME NEW S, NEW e \in Seq(S)
  PROVE  Places(CodexLine(e), <<"--model">>) = {} /\ Places(CodexLine(e), <<"-c">>) = {3}
<1> DEFINE s == CodexLine(e)
           setting == <<Config>> \o e
<1>1. /\ DOMAIN s = 1..5 /\ s[1] = <<"codex">> /\ s[2] = <<"settings">> /\ s[3] = <<"-c">>
      /\ s[4] = setting /\ s[5] = <<"-">>
  BY DEF CodexLine, Five
<1>2. setting # <<"-c">> /\ setting # <<"--model">>
  BY ConfigIsNoOption
<1>3. /\ <<"codex">> # <<"--model">> /\ <<"settings">> # <<"--model">> /\ <<"-c">> # <<"--model">>
      /\ <<"-">> # <<"--model">> /\ <<"codex">> # <<"-c">> /\ <<"settings">> # <<"-c">> /\ <<"-">> # <<"-c">>
  OBVIOUS
<1> HIDE DEF s, setting
<1>4. s[1] # <<"--model">> /\ s[2] # <<"--model">> /\ s[3] # <<"--model">>
      /\ s[4] # <<"--model">> /\ s[5] # <<"--model">>
  BY <1>1, <1>2, <1>3
<1>5. s[1] # <<"-c">> /\ s[2] # <<"-c">> /\ s[3] = <<"-c">> /\ s[4] # <<"-c">> /\ s[5] # <<"-c">>
  BY <1>1, <1>2, <1>3
<1>6. 1..5 = {1, 2, 3, 4, 5}
  OBVIOUS
<1>7. Places(s, <<"--model">>) = {}
  BY <1>1, <1>4, <1>6, Zenon DEF Places
<1>8. Places(s, <<"-c">>) = {3}
  <2>1. Places(s, <<"-c">>) = {i \in {1, 2, 3, 4, 5} : s[i] = <<"-c">>}
    BY <1>1, <1>6 DEF Places
  <2> QED
    BY <1>5, <2>1
<1> QED
  BY <1>7, <1>8 DEF s

LEMMA ModelOnCodex ==
  ASSUME NEW S, NEW e \in Seq(S), NEW label, label # NoLabel
  PROVE  \A c \in WithModel(CodexLine(e), "codex", label) :
           c = CodexModelLine(label, e) /\ ValidLabel(label)
<1> SUFFICES ASSUME NEW c \in WithModel(CodexLine(e), "codex", label)
             PROVE  c = CodexModelLine(label, e) /\ ValidLabel(label)
  OBVIOUS
<1>1. ValidLabel(label) /\ c \in ReplaceOrInsert(CodexLine(e), <<"--model">>, label, <<"-c">>)
  BY DEF WithModel, InsertionPoint
<1>2. Places(CodexLine(e), <<"--model">>) = {} /\ Places(CodexLine(e), <<"-c">>) = {3}
  BY CodexSettingAt
<1>3. c = InsertBefore(CodexLine(e), 3, Two(<<"--model">>, label))
  BY <1>1, <1>2 DEF ReplaceOrInsert, Two
<1> QED
  BY <1>1, <1>3, IntoFive DEF CodexLine, CodexModelLine

LEMMA ModelOnGrok ==
  ASSUME NEW e \in PackagedEfforts, NEW label, label # NoLabel
  PROVE  \A c \in WithModel(GrokLine(e), "grok", label) : c = GrokModelLine(label, e) /\ ValidLabel(label)
<1> SUFFICES ASSUME NEW c \in WithModel(GrokLine(e), "grok", label)
             PROVE  c = GrokModelLine(label, e) /\ ValidLabel(label)
  OBVIOUS
<1> DEFINE s == GrokLine(e)
<1>1. ValidLabel(label) /\ c \in ReplaceOrInsert(s, <<"--model">>, label, <<"--reasoning-effort">>)
  BY DEF WithModel, InsertionPoint
<1>2. /\ DOMAIN s = 1..6 /\ s[1] = <<"grok">> /\ s[2] = <<"-p">> /\ s[3] = Slot
      /\ s[4] = <<"settings">> /\ s[5] = <<"--reasoning-effort">> /\ s[6] = e
  BY DEF GrokLine, Six
<1>3. e # <<"--reasoning-effort">> /\ e # <<"--model">>
  BY PackagedEffortsAreNoOptions
<1>4. /\ <<"grok">> # <<"--model">> /\ <<"-p">> # <<"--model">> /\ Slot # <<"--model">>
      /\ <<"settings">> # <<"--model">> /\ <<"--reasoning-effort">> # <<"--model">>
      /\ <<"grok">> # <<"--reasoning-effort">> /\ <<"-p">> # <<"--reasoning-effort">>
      /\ Slot # <<"--reasoning-effort">> /\ <<"settings">> # <<"--reasoning-effort">>
  BY WordsDiffer DEF Slot
<1> HIDE DEF s
<1>5. Places(s, <<"--model">>) = {} /\ Places(s, <<"--reasoning-effort">>) = {5}
  BY <1>2, <1>3, <1>4 DEF Places
<1>6. c = InsertBefore(s, 5, Two(<<"--model">>, label))
  BY <1>1, <1>5 DEF ReplaceOrInsert, Two
<1> QED
  BY <1>1, <1>6, IntoSix DEF s, GrokLine, GrokModelLine

LEMMA NoModelOnAgy ==
  ASSUME NEW c, NEW label, label # NoLabel
  PROVE  WithModel(c, "agy", label) = {}
BY DEF WithModel, InsertionPoint

\* An effort label takes the place of the packaged effort.
LEMMA EffortOnClaude ==
  ASSUME NEW o \in PlainOpenings, NEW e \in PackagedEfforts, NEW label, label # NoLabel
  PROVE  /\ \A c \in WithEffort(ClaudeLine(o, e), "claude", label) : c = ClaudeLine(o, label)
         /\ \A m : m # <<"--effort">> =>
              \A c \in WithEffort(ClaudeModelLine(o, m, e), "claude", label) : c = ClaudeModelLine(o, m, label)
<1>1. /\ o # <<"--effort">> /\ e # <<"--effort">> /\ <<"claude">> # <<"--effort">>
      /\ <<"--model">> # <<"--effort">>
  BY OtherWord, PackagedEffortsAreNoOptions DEF PlainOpenings, Plainly, Safely
<1>2. ASSUME NEW c \in WithEffort(ClaudeLine(o, e), "claude", label) PROVE c = ClaudeLine(o, label)
  <2> DEFINE s == ClaudeLine(o, e)
  <2>1. c \in ReplaceOrInsert(s, <<"--effort">>, label, <<"--effort">>)
    BY <1>2 DEF WithEffort
  <2>2. DOMAIN s = 1..4 /\ Len(s) = 4 /\ s[1] = <<"claude">> /\ s[2] = o /\ s[3] = <<"--effort">> /\ s[4] = e
        /\ [s EXCEPT ![4] = label] = ClaudeLine(o, label)
    BY DEF ClaudeLine, Four
  <2> HIDE DEF s
  <2>3. Places(s, <<"--effort">>) = {3}
    BY <1>1, <2>2 DEF Places
  <2>4. c = [s EXCEPT ![4] = label]
    BY <2>1, <2>2, <2>3 DEF ReplaceOrInsert
  <2> QED
    BY <2>2, <2>4
<1>3. ASSUME NEW m, m # <<"--effort">>, NEW c \in WithEffort(ClaudeModelLine(o, m, e), "claude", label)
      PROVE  c = ClaudeModelLine(o, m, label)
  <2> DEFINE s == ClaudeModelLine(o, m, e)
  <2>1. c \in ReplaceOrInsert(s, <<"--effort">>, label, <<"--effort">>)
    BY <1>3 DEF WithEffort
  <2>2. /\ DOMAIN s = 1..6 /\ Len(s) = 6 /\ s[1] = <<"claude">> /\ s[2] = o /\ s[3] = <<"--model">>
        /\ s[4] = m /\ s[5] = <<"--effort">> /\ s[6] = e
        /\ [s EXCEPT ![6] = label] = ClaudeModelLine(o, m, label)
    BY DEF ClaudeModelLine, Six
  <2> HIDE DEF s
  <2>3. Places(s, <<"--effort">>) = {5}
    BY <1>1, <1>3, <2>2 DEF Places
  <2>4. c = [s EXCEPT ![6] = label]
    BY <2>1, <2>2, <2>3 DEF ReplaceOrInsert
  <2> QED
    BY <2>2, <2>4
<1> QED
  BY <1>2, <1>3

LEMMA EffortOnCodex ==
  ASSUME NEW S, NEW e \in Seq(S), NEW label, label # NoLabel
  PROVE  /\ \A c \in WithEffort(CodexLine(e), "codex", label) : c = CodexLine(label)
         /\ \A m : \A c \in WithEffort(CodexModelLine(m, e), "codex", label) : c = CodexModelLine(m, label)
<1> DEFINE setting == <<Config>> \o e
<1>1. setting # <<>> /\ setting[1] = Config
  BY ConfigIsNoOption
<1>2. ASSUME NEW c \in WithEffort(CodexLine(e), "codex", label) PROVE c = CodexLine(label)
  <2> DEFINE s == CodexLine(e)
  <2>1. PICK i : Settings(s) = {i} /\ c = [s EXCEPT ![i] = <<Config>> \o label]
    BY <1>2 DEF WithEffort
  <2>2. /\ DOMAIN s = 1..5 /\ s[4] = setting
        /\ [s EXCEPT ![4] = <<Config>> \o label] = CodexLine(label)
    BY DEF CodexLine, Five
  <2> HIDE DEF s, setting
  <2>3. 4 \in Settings(s)
    BY <1>1, <2>2 DEF Settings
  <2> QED
    BY <2>1, <2>2, <2>3
<1>3. ASSUME NEW m, NEW c \in WithEffort(CodexModelLine(m, e), "codex", label)
      PROVE  c = CodexModelLine(m, label)
  <2> DEFINE s == CodexModelLine(m, e)
  <2>1. PICK i : Settings(s) = {i} /\ c = [s EXCEPT ![i] = <<Config>> \o label]
    BY <1>3 DEF WithEffort
  <2>2. /\ DOMAIN s = 1..7 /\ s[6] = setting
        /\ [s EXCEPT ![6] = <<Config>> \o label] = CodexModelLine(m, label)
    BY DEF CodexModelLine, Seven
  <2> HIDE DEF s, setting
  <2>3. 6 \in Settings(s)
    BY <1>1, <2>2 DEF Settings
  <2> QED
    BY <2>1, <2>2, <2>3
<1> QED
  BY <1>2, <1>3

LEMMA NoEffortOnOthers ==
  ASSUME NEW c, NEW vendor \in {"agy", "grok"}, NEW label, label # NoLabel
  PROVE  WithEffort(c, vendor, label) = {}
BY DEF WithEffort

-------------------------------------------------------------------------------
(* Whatever way a command is put together in, it is the one that was meant *)

LEMMA MeantLine ==
  ASSUME NEW r \in Requests, r.kind # "file", NEW level \in RouteTiers
  PROVE  LET model == MeantModel(r, level)
             effort == MeantEffort(r, level)
             opening == IF r.kind = "preset" THEN Safely ELSE Plainly
         IN /\ r.vendor = "claude" /\ model = NoLabel => Meant(r, level) = ClaudeLine(opening, effort)
            /\ r.vendor = "claude" /\ model # NoLabel => Meant(r, level) = ClaudeModelLine(opening, model, effort)
            /\ r.vendor \in {"codex", NoVendor} /\ model = NoLabel => Meant(r, level) = CodexLine(effort)
            /\ r.vendor = "codex" /\ model # NoLabel => Meant(r, level) = CodexModelLine(model, effort)
            /\ r.vendor = "agy" /\ model = NoLabel => Meant(r, level) = AgyLine(effort)
            /\ r.vendor = "grok" /\ model = NoLabel => Meant(r, level) = GrokLine(effort)
            /\ r.vendor = "grok" /\ model # NoLabel => Meant(r, level) = GrokModelLine(model, effort)
<1> DEFINE model == MeantModel(r, level)
           effort == MeantEffort(r, level)
           opening == IF r.kind = "preset" THEN Safely ELSE Plainly
           named == IF model = NoLabel THEN <<>> ELSE Two(<<"--model">>, model)
<1>1. Plain(<<"claude", "safe settings">>) = Two(<<"claude">>, Safely)
  BY PlainPair DEF Plainly, Safely, Haiku
<1>2. r.vendor = "claude" =>
        Meant(r, level) = (Two(<<"claude">>, opening) \o named) \o Two(<<"--effort">>, effort)
  <2>1. r.vendor = "claude" =>
          Meant(r, level) = ((IF r.kind = "preset" THEN Plain(<<"claude", "safe settings">>) ELSE Opening["claude"])
                             \o named) \o Ending("claude", effort)
    BY DEF Meant, NoVendor, Two
  <2>2. (IF r.kind = "preset" THEN Plain(<<"claude", "safe settings">>) ELSE Opening["claude"])
          = Two(<<"claude">>, opening)
    BY <1>1, Openings
  <2> HIDE DEF opening, named, effort
  <2> QED
    BY <2>1, <2>2, Endings
<1>3. \A v \in {"codex", "agy", "grok"} :
        r.vendor = v \/ (v = "codex" /\ r.vendor = NoVendor) =>
          Meant(r, level) = (Opening[v] \o named) \o Ending(v, effort)
  BY DEF Meant, NoVendor, Two
<1>4. r.vendor \in {"codex", NoVendor} =>
        Meant(r, level) = (Two(<<"codex">>, <<"settings">>) \o named) \o Three(<<"-c">>, <<Config>> \o effort, <<"-">>)
  <2> HIDE DEF named, effort
  <2> QED
    BY <1>3, Openings, Endings
<1>5. r.vendor = "agy" =>
        Meant(r, level) = (Four(<<"agy">>, <<"--print">>, Slot, <<"settings">>) \o named) \o Two(<<"--effort">>, effort)
  <2> HIDE DEF named, effort
  <2> QED
    BY <1>3, Openings, Endings
<1>6. r.vendor = "grok" =>
        Meant(r, level) = (Four(<<"grok">>, <<"-p">>, Slot, <<"settings">>) \o named) \o Two(<<"--reasoning-effort">>, effort)
  <2> HIDE DEF named, effort
  <2> QED
    BY <1>3, Openings, Endings
<1>7. /\ model = NoLabel => named = <<>>
      /\ model # NoLabel => named = Two(<<"--model">>, model)
  OBVIOUS
<1> HIDE DEF model, effort, opening, named
<1>8. r.vendor = "claude" /\ model = NoLabel => Meant(r, level) = ClaudeLine(opening, effort)
  <2>1. Two(<<"claude">>, opening) \o <<>> = Two(<<"claude">>, opening)
    BY NothingJoined
  <2>2. Two(<<"claude">>, opening) \o Two(<<"--effort">>, effort) = ClaudeLine(opening, effort)
    BY TwoAndTwo DEF ClaudeLine
  <2> QED
    BY <1>2, <1>7, <2>1, <2>2
<1>9. r.vendor = "claude" /\ model # NoLabel => Meant(r, level) = ClaudeModelLine(opening, model, effort)
  <2>1. Two(<<"claude">>, opening) \o Two(<<"--model">>, model) = Four(<<"claude">>, opening, <<"--model">>, model)
    BY TwoAndTwo
  <2>2. Four(<<"claude">>, opening, <<"--model">>, model) \o Two(<<"--effort">>, effort)
          = ClaudeModelLine(opening, model, effort)
    BY FourAndTwo DEF ClaudeModelLine
  <2> QED
    BY <1>2, <1>7, <2>1, <2>2
<1>10. r.vendor \in {"codex", NoVendor} /\ model = NoLabel => Meant(r, level) = CodexLine(effort)
  <2>1. Two(<<"codex">>, <<"settings">>) \o <<>> = Two(<<"codex">>, <<"settings">>)
    BY NothingJoined
  <2>2. Two(<<"codex">>, <<"settings">>) \o Three(<<"-c">>, <<Config>> \o effort, <<"-">>) = CodexLine(effort)
    BY TwoAndThree DEF CodexLine
  <2> QED
    BY <1>4, <1>7, <2>1, <2>2
<1>11. r.vendor = "codex" /\ model # NoLabel => Meant(r, level) = CodexModelLine(model, effort)
  <2>1. Two(<<"codex">>, <<"settings">>) \o Two(<<"--model">>, model)
          = Four(<<"codex">>, <<"settings">>, <<"--model">>, model)
    BY TwoAndTwo
  <2>2. Four(<<"codex">>, <<"settings">>, <<"--model">>, model) \o Three(<<"-c">>, <<Config>> \o effort, <<"-">>)
          = CodexModelLine(model, effort)
    BY FourAndThree DEF CodexModelLine
  <2> QED
    BY <1>4, <1>7, <2>1, <2>2
<1>12. r.vendor = "agy" /\ model = NoLabel => Meant(r, level) = AgyLine(effort)
  <2> DEFINE opens == Four(<<"agy">>, <<"--print">>, Slot, <<"settings">>)
  <2>1. opens \o <<>> = opens
    BY NothingJoined
  <2>2. opens \o Two(<<"--effort">>, effort) = AgyLine(effort)
    BY FourAndTwo DEF AgyLine
  <2> QED
    BY <1>5, <1>7, <2>1, <2>2
<1>13. r.vendor = "grok" /\ model = NoLabel => Meant(r, level) = GrokLine(effort)
  <2> DEFINE opens == Four(<<"grok">>, <<"-p">>, Slot, <<"settings">>)
  <2>1. opens \o <<>> = opens
    BY NothingJoined
  <2>2. opens \o Two(<<"--reasoning-effort">>, effort) = GrokLine(effort)
    BY FourAndTwo DEF GrokLine
  <2> QED
    BY <1>6, <1>7, <2>1, <2>2
<1>14. r.vendor = "grok" /\ model # NoLabel => Meant(r, level) = GrokModelLine(model, effort)
  <2>1. Four(<<"grok">>, <<"-p">>, Slot, <<"settings">>) \o Two(<<"--model">>, model)
          = Six(<<"grok">>, <<"-p">>, Slot, <<"settings">>, <<"--model">>, model)
    BY FourAndTwo
  <2>2. Six(<<"grok">>, <<"-p">>, Slot, <<"settings">>, <<"--model">>, model) \o Two(<<"--reasoning-effort">>, effort)
          = GrokModelLine(model, effort)
    BY SixAndTwo DEF GrokModelLine
  <2> QED
    BY <1>6, <1>7, <2>1, <2>2
<1> QED
  BY <1>8, <1>9, <1>10, <1>11, <1>12, <1>13, <1>14 DEF model, effort, opening

LEMMA MeantClaude ==
  ASSUME NEW r \in Requests, r.kind # "file", NEW level \in RouteTiers, r.vendor = "claude",
         NEW model, MeantModel(r, level) = model, NEW effort, MeantEffort(r, level) = effort
  PROVE  /\ r.kind # "preset" /\ model = NoLabel => Meant(r, level) = ClaudeLine(Plainly, effort)
         /\ r.kind # "preset" /\ model # NoLabel => Meant(r, level) = ClaudeModelLine(Plainly, model, effort)
         /\ r.kind = "preset" /\ model = NoLabel => Meant(r, level) = ClaudeLine(Safely, effort)
         /\ r.kind = "preset" /\ model # NoLabel =>
              Meant(r, level) = ClaudeModelLine(Safely, model, effort)
BY MeantLine

LEMMA MeantCodex ==
  ASSUME NEW r \in Requests, r.kind # "file", NEW level \in RouteTiers, r.vendor = "codex" \/ r.vendor = NoVendor,
         NEW model, MeantModel(r, level) = model, NEW effort, MeantEffort(r, level) = effort
  PROVE  /\ model = NoLabel => Meant(r, level) = CodexLine(effort)
         /\ model # NoLabel /\ r.vendor = "codex" => Meant(r, level) = CodexModelLine(model, effort)
BY MeantLine

LEMMA MeantAgy ==
  ASSUME NEW r \in Requests, r.kind # "file", NEW level \in RouteTiers, r.vendor = "agy",
         NEW model, MeantModel(r, level) = model, NEW effort, MeantEffort(r, level) = effort
  PROVE  model = NoLabel => Meant(r, level) = AgyLine(effort)
BY MeantLine

LEMMA MeantGrok ==
  ASSUME NEW r \in Requests, r.kind # "file", NEW level \in RouteTiers, r.vendor = "grok",
         NEW model, MeantModel(r, level) = model, NEW effort, MeantEffort(r, level) = effort
  PROVE  /\ model = NoLabel => Meant(r, level) = GrokLine(effort)
         /\ model # NoLabel => Meant(r, level) = GrokModelLine(model, effort)
BY MeantLine

\* _apply_route_overrides on each of the packaged commands.
LEMMA OverriddenLine ==
  ASSUME NEW e \in PackagedEfforts, NEW level, NEW overrides,
         NEW model, model = overrides.model[level], NEW effort,
         effort = IF overrides.effort[level] = NoLabel THEN e ELSE overrides.effort[level]
  PROVE  /\ \A o \in PlainOpenings : \A c \in Overridden(ClaudeLine(o, e), "claude", level, overrides) :
              /\ model = NoLabel => c = ClaudeLine(o, effort)
              /\ model # NoLabel => c = ClaudeModelLine(o, model, effort)
         /\ \A o \in PlainOpenings :
              \A c \in Overridden(ClaudeModelLine(o, Haiku, e), "claude", level, overrides) :
                /\ model = NoLabel => c = ClaudeModelLine(o, Haiku, effort)
                /\ model # NoLabel => c = ClaudeModelLine(o, model, effort)
         /\ \A c \in Overridden(CodexLine(e), "codex", level, overrides) :
              /\ model = NoLabel => c = CodexLine(effort)
              /\ model # NoLabel => c = CodexModelLine(model, effort)
         /\ model = NoLabel =>
              \A m : \A c \in Overridden(CodexModelLine(m, e), "codex", level, overrides) :
                c = CodexModelLine(m, effort)
         /\ \A c \in Overridden(AgyLine(e), "agy", level, overrides) :
              c = AgyLine(effort) /\ model = NoLabel
         /\ \A c \in Overridden(GrokLine(e), "grok", level, overrides) :
              /\ model = NoLabel => c = GrokLine(effort)
              /\ model # NoLabel => c = GrokModelLine(model, effort)
<1> DEFINE label == overrides.effort[level]
<1>1. ASSUME NEW base, NEW vendor, NEW c \in Overridden(base, vendor, level, overrides)
      PROVE  \E b \in WithModel(base, vendor, model) : c \in WithEffort(b, vendor, label)
  BY <1>1 DEF Overridden
<1>2. ASSUME NEW b, NEW vendor
      PROVE  /\ model = NoLabel => WithModel(b, vendor, model) = {b}
             /\ label = NoLabel => WithEffort(b, vendor, label) = {b}
  BY DEF WithModel, WithEffort
<1>3. e \in Seq({"low", "medium", "high"})
  BY PackagedEffortsAreNoOptions
<1>4. label = NoLabel => effort = e
  OBVIOUS
<1>5. label # NoLabel => effort = label
  OBVIOUS
<1> HIDE DEF label
<1>6. ASSUME NEW o \in PlainOpenings, NEW c \in Overridden(ClaudeLine(o, e), "claude", level, overrides)
      PROVE  /\ model = NoLabel => c = ClaudeLine(o, effort)
             /\ model # NoLabel => c = ClaudeModelLine(o, model, effort)
  <2>1. PICK b \in WithModel(ClaudeLine(o, e), "claude", model) : c \in WithEffort(b, "claude", label)
    BY <1>1, <1>6
  <2>2. CASE model = NoLabel
    <3>1. b = ClaudeLine(o, e)
      BY <1>2, <2>1, <2>2
    <3> QED
      BY <1>2, <1>4, <1>5, <2>1, <2>2, <3>1, EffortOnClaude
  <2>3. CASE model # NoLabel
    <3>1. b = ClaudeModelLine(o, model, e) /\ model # <<"--effort">>
      BY <2>1, <2>3, ModelOnClaude, ValidLabelIsNoOption
    <3>2. label = NoLabel => c = b
      BY <1>2, <2>1
    <3>3. label # NoLabel => c = ClaudeModelLine(o, model, label)
      BY <2>1, <3>1, EffortOnClaude
    <3> QED
      BY <1>4, <1>5, <2>3, <3>1, <3>2, <3>3
  <2> QED
    BY <2>2, <2>3
<1>7. ASSUME NEW o \in PlainOpenings,
             NEW c \in Overridden(ClaudeModelLine(o, Haiku, e), "claude", level, overrides)
      PROVE  /\ model = NoLabel => c = ClaudeModelLine(o, Haiku, effort)
             /\ model # NoLabel => c = ClaudeModelLine(o, model, effort)
  <2>1. PICK b \in WithModel(ClaudeModelLine(o, Haiku, e), "claude", model) :
               c \in WithEffort(b, "claude", label)
    BY <1>1, <1>7
  <2> DEFINE m == IF model = NoLabel THEN Haiku ELSE model
  <2>2. b = ClaudeModelLine(o, m, e) /\ m # <<"--effort">>
    <3>1. Haiku # <<"--effort">>
      BY WordsDiffer DEF Haiku
    <3>2. CASE model = NoLabel
      BY <1>2, <2>1, <3>1, <3>2
    <3>3. CASE model # NoLabel
      BY <2>1, <3>3, ModelOnClaude, ValidLabelIsNoOption
    <3> QED
      BY <3>2, <3>3
  <2> HIDE DEF m
  <2>3. c = ClaudeModelLine(o, m, effort)
    <3>1. label = NoLabel => c = b
      BY <1>2, <2>1
    <3>2. label # NoLabel => c = ClaudeModelLine(o, m, label)
      BY <2>1, <2>2, EffortOnClaude
    <3> QED
      BY <1>4, <1>5, <2>2, <3>1, <3>2
  <2> QED
    BY <2>3 DEF m
<1>8. ASSUME NEW c \in Overridden(CodexLine(e), "codex", level, overrides)
      PROVE  /\ model = NoLabel => c = CodexLine(effort)
             /\ model # NoLabel => c = CodexModelLine(model, effort)
  <2>1. PICK b \in WithModel(CodexLine(e), "codex", model) : c \in WithEffort(b, "codex", label)
    BY <1>1, <1>8
  <2>2. CASE model = NoLabel
    <3>1. b = CodexLine(e)
      BY <1>2, <2>1, <2>2
    <3> QED
      BY <1>2, <1>3, <1>4, <1>5, <2>1, <2>2, <3>1, EffortOnCodex
  <2>3. CASE model # NoLabel
    <3>1. b = CodexModelLine(model, e)
      BY <1>3, <2>1, <2>3, ModelOnCodex
    <3>2. label = NoLabel => c = b
      BY <1>2, <2>1
    <3>3. label # NoLabel => c = CodexModelLine(model, label)
      BY <1>3, <2>1, <3>1, EffortOnCodex
    <3> QED
      BY <1>4, <1>5, <2>3, <3>1, <3>2, <3>3
  <2> QED
    BY <2>2, <2>3
<1>9. ASSUME model = NoLabel, NEW m, NEW c \in Overridden(CodexModelLine(m, e), "codex", level, overrides)
      PROVE  c = CodexModelLine(m, effort)
  <2>1. c \in WithEffort(CodexModelLine(m, e), "codex", label)
    BY <1>1, <1>2, <1>9
  <2>2. label # NoLabel => c = CodexModelLine(m, label)
    BY <1>3, <2>1, EffortOnCodex
  <2> QED
    BY <1>2, <1>4, <1>5, <2>1, <2>2
<1>10. ASSUME NEW c \in Overridden(AgyLine(e), "agy", level, overrides)
       PROVE  c = AgyLine(effort) /\ model = NoLabel
  <2>1. PICK b \in WithModel(AgyLine(e), "agy", model) : c \in WithEffort(b, "agy", label)
    BY <1>1, <1>10
  <2>2. model = NoLabel /\ label = NoLabel
    BY <2>1, NoModelOnAgy, NoEffortOnOthers
  <2> QED
    BY <1>2, <1>4, <2>1, <2>2
<1>11. ASSUME NEW c \in Overridden(GrokLine(e), "grok", level, overrides)
       PROVE  /\ model = NoLabel => c = GrokLine(effort)
              /\ model # NoLabel => c = GrokModelLine(model, effort)
  <2>1. PICK b \in WithModel(GrokLine(e), "grok", model) : c \in WithEffort(b, "grok", label)
    BY <1>1, <1>11
  <2>2. label = NoLabel
    BY <2>1, NoEffortOnOthers
  <2>3. c = b
    BY <1>2, <2>1, <2>2
  <2> QED
    BY <1>2, <1>4, <2>1, <2>2, <2>3, ModelOnGrok
<1> QED
  BY <1>6, <1>7, <1>8, <1>9, <1>10, <1>11

\* An override that names no model leaves the one that a preset put in.
LEMMA PresetModelKept ==
  ASSUME NEW e \in PackagedEfforts, NEW level, NEW overrides, overrides.model[level] = NoLabel, NEW effort,
         effort = IF overrides.effort[level] = NoLabel THEN e ELSE overrides.effort[level],
         NEW m, NEW c \in Overridden(CodexModelLine(m, e), "codex", level, overrides)
  PROVE  c = CodexModelLine(m, effort)
BY OverriddenLine

LEMMA OneOfEvery ==
  ASSUME NEW commands_, NEW c \in Every(commands_)
  PROVE  DOMAIN c = DOMAIN commands_ /\ \A level \in DOMAIN c : c[level] \in commands_[level]
BY DEF Every, The

LEMMA RequestFacts ==
  ASSUME NEW r \in Requests
  PROVE  r.kind \in RequestKinds /\ r.vendor \in RouteVendors \cup {NoVendor} /\ r.tier \in RouteTiers
BY DEF Requests

LEMMA PackagedAsMeant ==
  ASSUME NEW r \in Requests, r.kind = "packaged", NEW c \in Packaged(r)
  PROVE  DOMAIN c = RouteTiers /\ \A level \in RouteTiers : c[level] = Meant(r, level)
<1>1. r.model = NoLabel /\ r.kind # "file" /\ r.vendor \in RouteVendors \cup {NoVendor}
  BY RequestFacts DEF Packaged
<1>2. ASSUME NEW level \in RouteTiers
      PROVE  MeantModel(r, level) = r.overrides.model[level]
  BY <1>1 DEF MeantModel, AskedModel
<1>3. CASE Empty(r.overrides)
  <2>1. c \in Default(r.vendor)
    BY <1>1, <1>3 DEF Packaged
  <2>2. c = [level \in RouteTiers |->
               BuiltIn(IF r.vendor = NoVendor THEN "codex" ELSE r.vendor, UsualEffort[level])]
    BY <2>1 DEF Default
  <2>3. ASSUME NEW level \in RouteTiers PROVE c[level] = Meant(r, level)
    <3>1. MeantModel(r, level) = NoLabel /\ MeantEffort(r, level) = UsualEffort[level]
      BY <1>2, <1>3 DEF Empty, MeantEffort
    <3> DEFINE effort == UsualEffort[level]
               vendor == IF r.vendor = NoVendor THEN "codex" ELSE r.vendor
    <3>2. c[level] = BuiltIn(vendor, effort)
      BY <2>2
    <3>3. /\ r.vendor = "claude" => Meant(r, level) = ClaudeLine(Plainly, effort)
          /\ r.vendor \in {"codex", NoVendor} => Meant(r, level) = CodexLine(effort)
          /\ r.vendor = "agy" => Meant(r, level) = AgyLine(effort)
          /\ r.vendor = "grok" => Meant(r, level) = GrokLine(effort)
      BY <1>1, <3>1, MeantClaude, MeantCodex, MeantAgy, MeantGrok
    <3>4. vendor \in RouteVendors /\ (vendor = r.vendor \/ (vendor = "codex" /\ r.vendor = NoVendor))
      BY <1>1 DEF RouteVendors
    <3> HIDE DEF vendor, effort
    <3> QED
      BY <3>2, <3>3, <3>4, BuiltInLine DEF RouteVendors
  <2> QED
    BY <2>2, <2>3
<1>4. CASE ~Empty(r.overrides)
  <2>1. /\ r.vendor \in RouteVendors
        /\ c \in Every([level \in RouteTiers |->
                          Overridden(BuiltIn(r.vendor, UsualEffort[level]), r.vendor, level, r.overrides)])
    BY <1>1, <1>4 DEF Packaged
  <2>2. /\ DOMAIN c = RouteTiers
        /\ \A level \in RouteTiers :
             c[level] \in Overridden(BuiltIn(r.vendor, UsualEffort[level]), r.vendor, level, r.overrides)
    BY <2>1, OneOfEvery
  <2>3. ASSUME NEW level \in RouteTiers PROVE c[level] = Meant(r, level)
    <3>1. UsualEffort[level] \in PackagedEfforts /\ Plainly \in PlainOpenings
      BY UsualEfforts DEF PlainOpenings
    <3>2. MeantEffort(r, level) = IF r.overrides.effort[level] = NoLabel THEN UsualEffort[level]
                                 ELSE r.overrides.effort[level]
      BY DEF MeantEffort
    <3>3. c[level] \in Overridden(BuiltIn(r.vendor, UsualEffort[level]), r.vendor, level, r.overrides)
      BY <2>2
    <3> DEFINE model == r.overrides.model[level]
               effort == MeantEffort(r, level)
    <3>8. /\ model = r.overrides.model[level] /\ MeantModel(r, level) = model /\ MeantEffort(r, level) = effort
          /\ effort = IF r.overrides.effort[level] = NoLabel THEN UsualEffort[level] ELSE r.overrides.effort[level]
      BY <1>2, <3>2
    <3> HIDE DEF model, effort
    <3>4. CASE r.vendor = "claude"
      <4>1. c[level] \in Overridden(ClaudeLine(Plainly, UsualEffort[level]), "claude", level, r.overrides)
        BY <3>3, <3>4, BuiltInLine
      <4>2. /\ model = NoLabel => c[level] = ClaudeLine(Plainly, effort)
            /\ model # NoLabel => c[level] = ClaudeModelLine(Plainly, model, effort)
        BY <3>1, <3>8, <4>1, OverriddenLine
      <4>3. /\ model = NoLabel => Meant(r, level) = ClaudeLine(Plainly, effort)
            /\ model # NoLabel => Meant(r, level) = ClaudeModelLine(Plainly, model, effort)
        BY <1>1, <3>8, <3>4, MeantClaude
      <4> QED
        BY <4>2, <4>3
    <3>5. CASE r.vendor = "codex"
      <4>1. c[level] \in Overridden(CodexLine(UsualEffort[level]), "codex", level, r.overrides)
        BY <3>3, <3>5, BuiltInLine
      <4>2. /\ model = NoLabel => c[level] = CodexLine(effort)
            /\ model # NoLabel => c[level] = CodexModelLine(model, effort)
        BY <3>1, <3>8, <4>1, OverriddenLine
      <4>3. /\ model = NoLabel => Meant(r, level) = CodexLine(effort)
            /\ model # NoLabel => Meant(r, level) = CodexModelLine(model, effort)
        BY <1>1, <3>8, <3>5, MeantCodex
      <4> QED
        BY <4>2, <4>3
    <3>6. CASE r.vendor = "agy"
      <4>1. c[level] \in Overridden(AgyLine(UsualEffort[level]), "agy", level, r.overrides)
        BY <3>3, <3>6, BuiltInLine
      <4>2. c[level] = AgyLine(effort) /\ model = NoLabel
        BY <3>1, <3>8, <4>1, OverriddenLine
      <4>3. model = NoLabel => Meant(r, level) = AgyLine(effort)
        BY <1>1, <3>8, <3>6, MeantAgy
      <4> QED
        BY <4>2, <4>3
    <3>7. CASE r.vendor = "grok"
      <4>1. c[level] \in Overridden(GrokLine(UsualEffort[level]), "grok", level, r.overrides)
        BY <3>3, <3>7, BuiltInLine
      <4>2. /\ model = NoLabel => c[level] = GrokLine(effort)
            /\ model # NoLabel => c[level] = GrokModelLine(model, effort)
        BY <3>1, <3>8, <4>1, OverriddenLine
      <4>3. /\ model = NoLabel => Meant(r, level) = GrokLine(effort)
            /\ model # NoLabel => Meant(r, level) = GrokModelLine(model, effort)
        BY <1>1, <3>8, <3>7, MeantGrok
      <4> QED
        BY <4>2, <4>3
    <3> QED
      BY <2>1, <3>4, <3>5, <3>6, <3>7 DEF RouteVendors
  <2> QED
    BY <2>2, <2>3
<1> QED
  BY <1>3, <1>4

LEMMA PresetAsMeant ==
  ASSUME NEW r \in Requests, r.kind = "preset", NEW c \in Materialized(r)
  PROVE  DOMAIN c = RouteTiers /\ \A level \in RouteTiers : c[level] = Meant(r, level)
<1>1. /\ r.vendor \in RouteVendors
      /\ \/ r.model = NoLabel
         \/ r.vendor = "codex" /\ \A level \in RouteTiers : r.overrides.model[level] = NoLabel
  BY RequestFacts DEF Materialized
<1>2. /\ DOMAIN c = RouteTiers
      /\ \A level \in RouteTiers :
           \E b \in WithPresetModel(Preset(r.vendor, level), level, r.model) :
             c[level] \in Overridden(b, r.vendor, level, r.overrides)
  <2> DEFINE per == [level \in RouteTiers |->
                       UNION {Overridden(b, r.vendor, level, r.overrides) :
                                b \in WithPresetModel(Preset(r.vendor, level), level, r.model)}]
  <2>1. c \in Every(per)
    BY <1>1 DEF Materialized
  <2>2. DOMAIN per = RouteTiers
    OBVIOUS
  <2>3. \A level \in RouteTiers : \A x \in per[level] :
          \E b \in WithPresetModel(Preset(r.vendor, level), level, r.model) :
            x \in Overridden(b, r.vendor, level, r.overrides)
    OBVIOUS
  <2> HIDE DEF per
  <2> QED
    BY <2>1, <2>2, <2>3, OneOfEvery
<1>3. ASSUME NEW level \in RouteTiers PROVE c[level] = Meant(r, level)
  <2> DEFINE model == r.overrides.model[level]
             meant == MeantModel(r, level)
             usual == UsualEffort[level]
             effort == MeantEffort(r, level)
  <2>1. PICK b \in WithPresetModel(Preset(r.vendor, level), level, r.model) :
               c[level] \in Overridden(b, r.vendor, level, r.overrides)
    BY <1>2, <1>3
  <2>2. usual \in PackagedEfforts /\ usual \in Seq({"low", "medium", "high"})
        /\ Plainly \in PlainOpenings /\ Safely \in PlainOpenings
    BY UsualEfforts, PackagedEffortsAreNoOptions DEF PlainOpenings
  <2>3. /\ effort = IF r.overrides.effort[level] = NoLabel THEN usual ELSE r.overrides.effort[level]
        /\ MeantModel(r, level) = meant /\ MeantEffort(r, level) = effort /\ r.kind # "file"
    BY DEF MeantEffort
  <2>4. /\ model # NoLabel => meant = model
        /\ model = NoLabel /\ r.model = NoLabel =>
             meant = IF r.vendor = "claude" /\ level = "low" THEN Haiku ELSE NoLabel
        /\ model = NoLabel /\ r.model # NoLabel => meant = IF level = "high" THEN NoLabel ELSE r.model
    BY <1>1 DEF MeantModel, AskedModel, Haiku
  <2>5. r.model = NoLabel => b = Preset(r.vendor, level)
    BY <2>1 DEF WithPresetModel
  <2>6. model = r.overrides.model[level]
    OBVIOUS
  <2>7. Haiku # NoLabel
    BY DEF Haiku, NoLabel
  <2> HIDE DEF model, meant, usual, effort
  <2>8. CASE r.vendor = "claude"
    <3>1. r.model = NoLabel
      BY <1>1, <2>8
    <3>2. CASE level = "low"
      <4>1. b = ClaudeModelLine(Safely, Haiku, usual)
        BY <2>5, <2>8, <3>1, <3>2, PresetLine DEF usual
      <4>2. /\ model = NoLabel => c[level] = ClaudeModelLine(Safely, Haiku, effort)
            /\ model # NoLabel => c[level] = ClaudeModelLine(Safely, model, effort)
        BY <2>1, <2>2, <2>3, <2>6, <2>8, <4>1, OverriddenLine
      <4>3. meant # NoLabel => Meant(r, level) = ClaudeModelLine(Safely, meant, effort)
        BY <2>3, <2>8, MeantClaude
      <4> QED
        BY <2>4, <2>7, <2>8, <3>1, <3>2, <4>2, <4>3
    <3>3. CASE level # "low"
      <4>1. b = ClaudeLine(Safely, usual)
        BY <2>5, <2>8, <3>1, <3>3, PresetLine DEF usual
      <4>2. /\ model = NoLabel => c[level] = ClaudeLine(Safely, effort)
            /\ model # NoLabel => c[level] = ClaudeModelLine(Safely, model, effort)
        BY <2>1, <2>2, <2>3, <2>6, <2>8, <4>1, OverriddenLine
      <4>3. /\ meant = NoLabel => Meant(r, level) = ClaudeLine(Safely, effort)
            /\ meant # NoLabel => Meant(r, level) = ClaudeModelLine(Safely, meant, effort)
        BY <2>3, <2>8, MeantClaude
      <4> QED
        BY <2>4, <2>8, <3>1, <3>3, <4>2, <4>3
    <3> QED
      BY <3>2, <3>3
  <2>9. CASE r.vendor = "codex"
    <3>1. Preset(r.vendor, level) = CodexLine(usual)
      BY <2>9, BuiltInLine DEF Preset, usual
    <3>2. /\ meant = NoLabel => Meant(r, level) = CodexLine(effort)
          /\ meant # NoLabel => Meant(r, level) = CodexModelLine(meant, effort)
      BY <2>3, <2>9, MeantCodex
    <3>3. CASE r.model = NoLabel \/ level = "high"
      <4>1. b = CodexLine(usual)
        BY <2>1, <3>1, <3>3 DEF WithPresetModel
      <4>2. /\ model = NoLabel => c[level] = CodexLine(effort)
            /\ model # NoLabel => c[level] = CodexModelLine(model, effort)
        BY <2>1, <2>2, <2>3, <2>6, <2>9, <4>1, OverriddenLine
      <4> QED
        BY <2>4, <2>9, <3>2, <3>3, <4>2
    <3>4. CASE r.model # NoLabel /\ level # "high"
      <4>1. b = CodexModelLine(r.model, usual)
        <5> DEFINE s == CodexLine(usual)
        <5>1. PICK i \in Places(s, <<"-c">>) : b = InsertBefore(s, i, Two(<<"--model">>, r.model))
          BY <2>1, <3>1, <3>4 DEF WithPresetModel, Two
        <5>2. Places(s, <<"-c">>) = {3}
          BY <2>2, CodexSettingAt
        <5>3. i = 3
          BY <5>1, <5>2
        <5> DEFINE x == Two(<<"--model">>, r.model)
        <5> HIDE DEF s, x
        <5>4. b = InsertBefore(s, i, x)
          BY <5>1 DEF x
        <5>5. InsertBefore(s, 3, x) = CodexModelLine(r.model, usual)
          BY CodexInsertion DEF s, x
        <5> QED
          BY <5>3, <5>4, <5>5
      <4>2. model = NoLabel
        BY <1>1, <2>6, <3>4
      <4>3. c[level] = CodexModelLine(r.model, effort)
        <5>1. c[level] \in Overridden(CodexModelLine(r.model, usual), "codex", level, r.overrides)
          BY <2>1, <2>9, <4>1
        <5> QED
          BY <2>2, <2>3, <2>6, <4>2, <5>1, PresetModelKept
      <4> QED
        BY <2>4, <3>2, <3>4, <4>2, <4>3
    <3> QED
      BY <3>3, <3>4
  <2>10. CASE r.vendor = "agy"
    <3>1. b = AgyLine(usual)
      <4>1. Preset(r.vendor, level) = AgyLine(usual)
        BY <2>10, BuiltInLine DEF Preset, usual
      <4> QED
        BY <1>1, <2>5, <2>10, <4>1
    <3>2. c[level] = AgyLine(effort) /\ model = NoLabel
      BY <2>1, <2>2, <2>3, <2>6, <2>10, <3>1, OverriddenLine
    <3>3. meant = NoLabel => Meant(r, level) = AgyLine(effort)
      BY <2>3, <2>10, MeantAgy
    <3> QED
      BY <1>1, <2>4, <2>10, <3>2, <3>3
  <2>11. CASE r.vendor = "grok"
    <3>1. b = GrokLine(usual)
      <4>1. Preset(r.vendor, level) = GrokLine(usual)
        BY <2>11, BuiltInLine DEF Preset, usual
      <4> QED
        BY <1>1, <2>5, <2>11, <4>1
    <3>2. /\ model = NoLabel => c[level] = GrokLine(effort)
          /\ model # NoLabel => c[level] = GrokModelLine(model, effort)
      BY <2>1, <2>2, <2>3, <2>6, <2>11, <3>1, OverriddenLine
    <3>3. /\ meant = NoLabel => Meant(r, level) = GrokLine(effort)
          /\ meant # NoLabel => Meant(r, level) = GrokModelLine(meant, effort)
      BY <2>3, <2>11, MeantGrok
    <3> QED
      BY <1>1, <2>4, <2>11, <3>2, <3>3
  <2> QED
    BY <1>1, <2>8, <2>9, <2>10, <2>11 DEF RouteVendors
<1> QED
  BY <1>2, <1>3

-------------------------------------------------------------------------------
(* `profile` names the program by its path *)

ClaudeAt(p, e) == Four(p, Plainly, <<"--effort">>, e)
ClaudeModelAt(p, m, e) == Six(p, Plainly, <<"--model">>, m, <<"--effort">>, e)
CodexAt(p, e) == Five(p, <<"settings">>, <<"-c">>, <<Config>> \o e, <<"-">>)
CodexModelAt(p, m, e) == Seven(p, <<"settings">>, <<"--model">>, m, <<"-c">>, <<Config>> \o e, <<"-">>)
AgyAt(p, e) == Six(p, <<"--print">>, Slot, <<"settings">>, <<"--effort">>, e)
GrokAt(p, e) == Six(p, <<"-p">>, Slot, <<"settings">>, <<"--reasoning-effort">>, e)
GrokModelAt(p, m, e) ==
  Eight(p, <<"-p">>, Slot, <<"settings">>, <<"--model">>, m, <<"--reasoning-effort">>, e)

\* Replacing the program gives such a line, and all but the program is as it was.
LEMMA OtherPrograms ==
  ASSUME NEW p, NEW e
  PROVE  /\ [ClaudeLine(Plainly, e) EXCEPT ![1] = p] = ClaudeAt(p, e)
         /\ [CodexLine(e) EXCEPT ![1] = p] = CodexAt(p, e)
         /\ [AgyLine(e) EXCEPT ![1] = p] = AgyAt(p, e)
         /\ [GrokLine(e) EXCEPT ![1] = p] = GrokAt(p, e)
<1>1. [ClaudeLine(Plainly, e) EXCEPT ![1] = p] = ClaudeAt(p, e)
  BY DEF ClaudeLine, ClaudeAt, Four
<1>2. [CodexLine(e) EXCEPT ![1] = p] = CodexAt(p, e)
  <2> DEFINE s == <<Config>> \o e
  <2>1. /\ CodexLine(e) = Five(<<"codex">>, <<"settings">>, <<"-c">>, s, <<"-">>)
        /\ CodexAt(p, e) = Five(p, <<"settings">>, <<"-c">>, s, <<"-">>)
    BY DEF CodexLine, CodexAt
  <2> HIDE DEF s
  <2>2. [Five(<<"codex">>, <<"settings">>, <<"-c">>, s, <<"-">>) EXCEPT ![1] = p]
          = Five(p, <<"settings">>, <<"-c">>, s, <<"-">>)
    BY DEF Five
  <2> QED
    BY <2>1, <2>2
<1>3. [AgyLine(e) EXCEPT ![1] = p] = AgyAt(p, e)
  BY DEF AgyLine, AgyAt, Six
<1>4. [GrokLine(e) EXCEPT ![1] = p] = GrokAt(p, e)
  BY DEF GrokLine, GrokAt, Six
<1> QED
  BY <1>1, <1>2, <1>3, <1>4

LEMMA OtherModels ==
  ASSUME NEW p, NEW m, NEW e
  PROVE  /\ [ClaudeModelLine(Plainly, m, e) EXCEPT ![1] = p] = ClaudeModelAt(p, m, e)
         /\ [CodexModelLine(m, e) EXCEPT ![1] = p] = CodexModelAt(p, m, e)
         /\ [GrokModelLine(m, e) EXCEPT ![1] = p] = GrokModelAt(p, m, e)
<1>1. [ClaudeModelLine(Plainly, m, e) EXCEPT ![1] = p] = ClaudeModelAt(p, m, e)
  BY DEF ClaudeModelLine, ClaudeModelAt, Six
<1>2. [CodexModelLine(m, e) EXCEPT ![1] = p] = CodexModelAt(p, m, e)
  <2> DEFINE s == <<Config>> \o e
  <2>1. /\ CodexModelLine(m, e)
             = Seven(<<"codex">>, <<"settings">>, <<"--model">>, m, <<"-c">>, s, <<"-">>)
        /\ CodexModelAt(p, m, e) = Seven(p, <<"settings">>, <<"--model">>, m, <<"-c">>, s, <<"-">>)
    BY DEF CodexModelLine, CodexModelAt
  <2> HIDE DEF s
  <2>2. [Seven(<<"codex">>, <<"settings">>, <<"--model">>, m, <<"-c">>, s, <<"-">>) EXCEPT ![1] = p]
          = Seven(p, <<"settings">>, <<"--model">>, m, <<"-c">>, s, <<"-">>)
    BY DEF Seven
  <2> QED
    BY <2>1, <2>2
<1>3. [GrokModelLine(m, e) EXCEPT ![1] = p] = GrokModelAt(p, m, e)
  BY DEF GrokModelLine, GrokModelAt, Eight
<1> QED
  BY <1>1, <1>2, <1>3

LEMMA SameTails ==
  ASSUME NEW p, NEW m, NEW e
  PROVE  /\ Tail(ClaudeAt(p, e)) = Tail(ClaudeLine(Plainly, e))
         /\ Tail(ClaudeModelAt(p, m, e)) = Tail(ClaudeModelLine(Plainly, m, e))
         /\ Tail(CodexAt(p, e)) = Tail(CodexLine(e))
         /\ Tail(CodexModelAt(p, m, e)) = Tail(CodexModelLine(m, e))
         /\ Tail(AgyAt(p, e)) = Tail(AgyLine(e))
         /\ Tail(GrokAt(p, e)) = Tail(GrokLine(e))
         /\ Tail(GrokModelAt(p, m, e)) = Tail(GrokModelLine(m, e))
<1>1. Tail(ClaudeAt(p, e)) = Tail(ClaudeLine(Plainly, e))
  BY DEF ClaudeAt, ClaudeLine, Four
<1>2. Tail(ClaudeModelAt(p, m, e)) = Tail(ClaudeModelLine(Plainly, m, e))
  BY DEF ClaudeModelAt, ClaudeModelLine, Six
<1>3. \A s : /\ Tail(Five(p, <<"settings">>, <<"-c">>, s, <<"-">>))
                  = Tail(Five(<<"codex">>, <<"settings">>, <<"-c">>, s, <<"-">>))
             /\ Tail(Seven(p, <<"settings">>, <<"--model">>, m, <<"-c">>, s, <<"-">>))
                  = Tail(Seven(<<"codex">>, <<"settings">>, <<"--model">>, m, <<"-c">>, s, <<"-">>))
  BY DEF Five, Seven
<1>4. Tail(CodexAt(p, e)) = Tail(CodexLine(e)) /\ Tail(CodexModelAt(p, m, e)) = Tail(CodexModelLine(m, e))
  BY <1>3 DEF CodexAt, CodexLine, CodexModelAt, CodexModelLine
<1>5. Tail(AgyAt(p, e)) = Tail(AgyLine(e)) /\ Tail(GrokAt(p, e)) = Tail(GrokLine(e))
  BY DEF AgyAt, AgyLine, GrokAt, GrokLine, Six
<1>6. Tail(GrokModelAt(p, m, e)) = Tail(GrokModelLine(m, e))
  BY DEF GrokModelAt, GrokModelLine, Eight
<1> QED
  BY <1>1, <1>2, <1>4, <1>5, <1>6

\* The place a model goes to, and the line that it makes.
LEMMA ModelPlaces ==
  ASSUME NEW p, p[1] = "/", NEW m, NEW e \in PackagedEfforts
  PROVE  /\ Places(ClaudeAt(p, e), <<"--effort">>) = {3}
         /\ InsertBefore(ClaudeAt(p, e), 3, Two(<<"--model">>, m)) = ClaudeModelAt(p, m, e)
         /\ Places(CodexAt(p, e), <<"-c">>) = {3}
         /\ InsertBefore(CodexAt(p, e), 3, Two(<<"--model">>, m)) = CodexModelAt(p, m, e)
         /\ Places(GrokAt(p, e), <<"--reasoning-effort">>) = {5}
         /\ InsertBefore(GrokAt(p, e), 5, Two(<<"--model">>, m)) = GrokModelAt(p, m, e)
<1>1. p # <<"--effort">> /\ p # <<"--reasoning-effort">> /\ p # <<"-c">>
  BY OtherWord
<1>2. e \in Seq({"low", "medium", "high"}) /\ e # <<"--effort">> /\ e # <<"--reasoning-effort">>
  BY PackagedEffortsAreNoOptions
<1>3. /\ Plainly # <<"--effort">> /\ <<"-">> # <<"-c">> /\ <<"settings">> # <<"-c">>
      /\ <<"-p">> # <<"--reasoning-effort">> /\ Slot # <<"--reasoning-effort">>
      /\ <<"settings">> # <<"--reasoning-effort">>
  BY WordsDiffer DEF Plainly, Slot
<1>4. Places(ClaudeAt(p, e), <<"--effort">>) = {3}
  <2> DEFINE s == ClaudeAt(p, e)
  <2>1. DOMAIN s = {1, 2, 3, 4} /\ s[1] = p /\ s[2] = Plainly /\ s[3] = <<"--effort">> /\ s[4] = e
    <3>1. DOMAIN s = 1..4 /\ s[1] = p /\ s[2] = Plainly /\ s[3] = <<"--effort">> /\ s[4] = e
      BY DEF ClaudeAt, Four
    <3> QED
      BY <3>1
  <2> HIDE DEF s
  <2>2. s[1] # <<"--effort">> /\ s[2] # <<"--effort">> /\ s[4] # <<"--effort">>
    BY <1>1, <1>2, <1>3, <2>1
  <2>3. {i \in DOMAIN s : s[i] = <<"--effort">>} = {3}
    BY <2>1, <2>2
  <2> QED
    BY <2>3 DEF Places, s
<1>5. Places(CodexAt(p, e), <<"-c">>) = {3}
  <2> DEFINE s == CodexAt(p, e)
             setting == <<Config>> \o e
  <2>1. DOMAIN s = {1, 2, 3, 4, 5} /\ s[1] = p /\ s[2] = <<"settings">> /\ s[3] = <<"-c">>
        /\ s[4] = setting /\ s[5] = <<"-">>
    <3>1. s = Five(p, <<"settings">>, <<"-c">>, setting, <<"-">>)
      BY DEF CodexAt
    <3> HIDE DEF setting, s
    <3>2. DOMAIN s = 1..5 /\ s[1] = p /\ s[2] = <<"settings">> /\ s[3] = <<"-c">> /\ s[4] = setting
          /\ s[5] = <<"-">>
      BY <3>1 DEF Five
    <3> QED
      BY <3>2
  <2>2. setting # <<"-c">>
    BY <1>2, ConfigIsNoOption
  <2> HIDE DEF s, setting
  <2>3. s[1] # <<"-c">> /\ s[2] # <<"-c">> /\ s[4] # <<"-c">> /\ s[5] # <<"-c">>
    BY <1>1, <1>3, <2>1, <2>2
  <2>4. {i \in DOMAIN s : s[i] = <<"-c">>} = {3}
    BY <2>1, <2>3
  <2> QED
    BY <2>4 DEF Places, s
<1>6. Places(GrokAt(p, e), <<"--reasoning-effort">>) = {5}
  <2> DEFINE s == GrokAt(p, e)
  <2>1. DOMAIN s = {1, 2, 3, 4, 5, 6} /\ s[1] = p /\ s[2] = <<"-p">> /\ s[3] = Slot
        /\ s[4] = <<"settings">> /\ s[5] = <<"--reasoning-effort">> /\ s[6] = e
    <3>1. DOMAIN s = 1..6 /\ s[1] = p /\ s[2] = <<"-p">> /\ s[3] = Slot
          /\ s[4] = <<"settings">> /\ s[5] = <<"--reasoning-effort">> /\ s[6] = e
      BY DEF GrokAt, Six
    <3> QED
      BY <3>1
  <2> HIDE DEF s
  <2>2. /\ s[1] # <<"--reasoning-effort">> /\ s[2] # <<"--reasoning-effort">> /\ s[3] # <<"--reasoning-effort">>
        /\ s[4] # <<"--reasoning-effort">> /\ s[6] # <<"--reasoning-effort">>
    BY <1>1, <1>2, <1>3, <2>1
  <2>3. {i \in DOMAIN s : s[i] = <<"--reasoning-effort">>} = {5}
    BY <2>1, <2>2
  <2> QED
    BY <2>3 DEF Places, s
<1>7. InsertBefore(ClaudeAt(p, e), 3, Two(<<"--model">>, m)) = ClaudeModelAt(p, m, e)
  BY IntoFour DEF ClaudeAt, ClaudeModelAt
<1>8. InsertBefore(CodexAt(p, e), 3, Two(<<"--model">>, m)) = CodexModelAt(p, m, e)
  BY IntoFive DEF CodexAt, CodexModelAt
<1>9. InsertBefore(GrokAt(p, e), 5, Two(<<"--model">>, m)) = GrokModelAt(p, m, e)
  BY IntoSix DEF GrokAt, GrokModelAt
<1> QED
  BY <1>4, <1>5, <1>6, <1>7, <1>8, <1>9

LEMMA SelectedAsMeant ==
  ASSUME NEW r \in Requests, r.kind = "selected", NEW c \in Selected(r)
  PROVE  /\ c = [Meant(r, r.tier) EXCEPT ![1] = <<"/", r.vendor>>]
         /\ Tail(c) = Tail(Meant(r, r.tier)) /\ r.vendor \in RouteVendors
<1> DEFINE effort == r.overrides.effort[r.tier]
           path == <<"/", r.vendor>>
           found == [BuiltIn(r.vendor, effort) EXCEPT ![1] = path]
           model == r.model
<1>1. /\ r.vendor \in RouteVendors /\ effort \in PackagedEfforts /\ r.tier \in RouteTiers
      /\ \/ model = NoLabel /\ c = found
         \/ /\ model # NoLabel /\ r.vendor \in {"claude", "codex", "grok"}
            /\ c = InsertBefore(found, The(Places(found, InsertionPoint[r.vendor])), Two(<<"--model">>, model))
  <2>1. r.vendor # NoVendor /\ effort \in PackagedEfforts
    BY DEF Selected, PackagedEfforts
  <2>2. DOMAIN InsertionPoint = {"claude", "codex", "grok"}
    BY DEF InsertionPoint
  <2>3. \/ model = NoLabel /\ c = found
        \/ /\ model # NoLabel /\ r.vendor \in DOMAIN InsertionPoint
           /\ c = InsertBefore(found, The(Places(found, InsertionPoint[r.vendor])), Two(<<"--model">>, model))
    BY <2>1 DEF Selected, Two
  <2> QED
    BY <2>1, <2>2, <2>3, RequestFacts
<1>2. effort # NoLabel
  BY <1>1, PackagedEffortsAreNoOptions
<1>3. r.kind # "file" /\ r.kind # "preset" /\ MeantModel(r, r.tier) = model /\ MeantEffort(r, r.tier) = effort
  BY <1>2 DEF MeantModel, AskedModel, MeantEffort
<1>4. path[1] = "/"
  OBVIOUS
<1>5. /\ r.vendor = "claude" => found = [BuiltIn("claude", effort) EXCEPT ![1] = path]
      /\ r.vendor = "codex" => found = [BuiltIn("codex", effort) EXCEPT ![1] = path]
      /\ r.vendor = "agy" => found = [BuiltIn("agy", effort) EXCEPT ![1] = path]
      /\ r.vendor = "grok" => found = [BuiltIn("grok", effort) EXCEPT ![1] = path]
  OBVIOUS
<1> HIDE DEF found, effort, path, model
<1> SUFFICES c = [Meant(r, r.tier) EXCEPT ![1] = path] /\ Tail(c) = Tail(Meant(r, r.tier))
  BY <1>1 DEF path
<1>6. /\ InsertionPoint["claude"] = <<"--effort">> /\ InsertionPoint["codex"] = <<"-c">>
      /\ InsertionPoint["grok"] = <<"--reasoning-effort">>
  BY DEF InsertionPoint
<1>7. CASE r.vendor = "claude"
  <2>1. found = ClaudeAt(path, effort)
    BY <1>5, <1>7, BuiltInLine, OtherPrograms
  <2>2. CASE model = NoLabel
    <3>1. Meant(r, r.tier) = ClaudeLine(Plainly, effort)
      BY <1>1, <1>3, <1>7, <2>2, MeantClaude
    <3> QED
      BY <1>1, <2>1, <2>2, <3>1, SameTails, OtherPrograms
  <2>3. CASE model # NoLabel
    <3>1. Meant(r, r.tier) = ClaudeModelLine(Plainly, model, effort)
      BY <1>1, <1>3, <1>7, <2>3, MeantClaude
    <3>2. c = ClaudeModelAt(path, model, effort)
      BY <1>1, <1>4, <1>6, <1>7, <2>1, <2>3, ModelPlaces DEF The
    <3> QED
      BY <3>1, <3>2, SameTails, OtherModels
  <2> QED
    BY <2>2, <2>3
<1>8. CASE r.vendor = "codex"
  <2>1. found = CodexAt(path, effort)
    BY <1>5, <1>8, BuiltInLine, OtherPrograms
  <2>2. CASE model = NoLabel
    <3>1. Meant(r, r.tier) = CodexLine(effort)
      BY <1>1, <1>3, <1>8, <2>2, MeantCodex
    <3>2. c = CodexAt(path, effort)
      BY <1>1, <2>1, <2>2
    <3>3. c = [Meant(r, r.tier) EXCEPT ![1] = path]
      BY <3>1, <3>2, OtherPrograms
    <3>4. Tail(c) = Tail(Meant(r, r.tier))
      BY <3>1, <3>2, SameTails
    <3> QED
      BY <3>3, <3>4
  <2>3. CASE model # NoLabel
    <3>1. Meant(r, r.tier) = CodexModelLine(model, effort)
      BY <1>1, <1>3, <1>8, <2>3, MeantCodex
    <3>2. c = CodexModelAt(path, model, effort)
      BY <1>1, <1>4, <1>6, <1>8, <2>1, <2>3, ModelPlaces DEF The
    <3> QED
      BY <3>1, <3>2, SameTails, OtherModels
  <2> QED
    BY <2>2, <2>3
<1>9. CASE r.vendor = "agy"
  <2>1. found = AgyAt(path, effort)
    BY <1>5, <1>9, BuiltInLine, OtherPrograms
  <2>2. model = NoLabel /\ c = found
    BY <1>1, <1>9
  <2>3. Meant(r, r.tier) = AgyLine(effort)
    BY <1>1, <1>3, <1>9, <2>2, MeantAgy
  <2> QED
    BY <2>1, <2>2, <2>3, SameTails, OtherPrograms
<1>10. CASE r.vendor = "grok"
  <2>1. found = GrokAt(path, effort)
    BY <1>5, <1>10, BuiltInLine, OtherPrograms
  <2>2. CASE model = NoLabel
    <3>1. Meant(r, r.tier) = GrokLine(effort)
      BY <1>1, <1>3, <1>10, <2>2, MeantGrok
    <3> QED
      BY <1>1, <2>1, <2>2, <3>1, SameTails, OtherPrograms
  <2>3. CASE model # NoLabel
    <3>1. Meant(r, r.tier) = GrokModelLine(model, effort)
      BY <1>1, <1>3, <1>10, <2>3, MeantGrok
    <3>2. c = GrokModelAt(path, model, effort)
      BY <1>1, <1>4, <1>6, <1>10, <2>1, <2>3, ModelPlaces DEF The
    <3> QED
      BY <3>1, <3>2, SameTails, OtherModels
  <2> QED
    BY <2>2, <2>3
<1> QED
  BY <1>1, <1>7, <1>8, <1>9, <1>10 DEF RouteVendors

\* Whatever way a command is put together in, it says what was asked.
LEMMA ComposedAsMeant ==
  ASSUME NEW r \in Requests, r.kind # "file", NEW c \in Composed(r)
  PROVE  /\ DOMAIN c \subseteq RouteTiers
         /\ \A level \in DOMAIN c : Tail(c[level]) = Tail(Meant(r, level))
         /\ r.kind \in {"packaged", "preset"} =>
              DOMAIN c = RouteTiers /\ \A level \in DOMAIN c : c[level] = Meant(r, level)
<1>1. CASE r.kind = "packaged"
  BY <1>1, PackagedAsMeant DEF Composed
<1>2. CASE r.kind = "preset"
  BY <1>2, PresetAsMeant DEF Composed
<1>3. CASE r.kind = "selected"
  <2>1. PICK command \in Selected(r) : c = [level \in {r.tier} |-> command]
    BY <1>3 DEF Composed
  <2>2. DOMAIN c = {r.tier} /\ c[r.tier] = command /\ r.tier \in RouteTiers
    BY <2>1, RequestFacts
  <2> QED
    BY <1>3, <2>1, <2>2, SelectedAsMeant
<1> QED
  BY <1>1, <1>2, <1>3, RequestFacts DEF RequestKinds

-------------------------------------------------------------------------------
(* The task is in a command nowhere but where it is put *)

Words == {<<"claude">>, <<"codex">>, <<"agy">>, <<"grok">>, Plainly, Safely, Haiku, Slot, <<"--print">>, <<"-p">>,
          <<"-c">>, <<"-">>, <<"--effort">>, <<"--reasoning-effort">>, <<"--model">>}

Programs == {<<"claude">>, <<"codex">>, <<"agy">>, <<"grok">>}

\* Everything that a meant command is made of.
Material(r, level) ==
  Words \cup {MeantModel(r, level), MeantEffort(r, level), <<Config>> \o MeantEffort(r, level)}

LEMMA NoWordIsTask == Task \notin Words
BY WordsDiffer DEF Task, Words, Plainly, Safely, Haiku, Slot

LEMMA LabelsAsked ==
  ASSUME NEW r \in Requests, NEW level \in RouteTiers
  PROVE  /\ MeantModel(r, level) # Task /\ MeantEffort(r, level) # Task
         /\ \E S : MeantEffort(r, level) \in Seq(S)
<1>1. /\ r.model \in Labels \cup {NoLabel} /\ r.overrides.model[level] \in Labels \cup {NoLabel}
      /\ r.overrides.effort[level] \in Labels \cup {NoLabel}
  <2>1. r.model \in Labels \cup {NoLabel} /\ r.overrides \in Overrides
    BY DEF Requests
  <2> QED
    BY <2>1, RouteArgvAssumption
<1>2. Labels \subseteq Seq(STRING) /\ Task \notin Labels
  BY RouteArgvAssumption
<1>3. NoLabel # Task /\ <<"haiku">> # Task
  BY WordsDiffer DEF NoLabel, Task
<1>4. UsualEffort[level] # Task /\ UsualEffort[level] \in Seq({"low", "medium", "high"})
  BY UsualEfforts, PackagedEffortsAreNoOptions
<1>5. MeantModel(r, level) \in Labels \cup {NoLabel, <<"haiku">>}
  BY <1>1 DEF MeantModel, AskedModel
<1>6. MeantEffort(r, level) \in Labels \/ MeantEffort(r, level) = UsualEffort[level]
  BY <1>1 DEF MeantEffort
<1> QED
  BY <1>2, <1>3, <1>4, <1>5, <1>6

LEMMA ConfigIsNoTask ==
  ASSUME NEW S, NEW e \in Seq(S)
  PROVE  <<Config>> \o e # Task
<1>1. (<<Config>> \o e)[1] = Config /\ Config # "the task's text"
  BY ConfigIsNoOption DEF Config
<1> DEFINE s == <<Config>> \o e
<1> HIDE DEF s
<1>2. s[1] # "the task's text" => s # <<"the task's text">>
  BY OtherWord
<1> QED
  BY <1>1, <1>2 DEF s, Task

LEMMA MaterialIsNoTask ==
  ASSUME NEW r \in Requests, NEW level \in RouteTiers
  PROVE  Task \notin Material(r, level)
<1>1. PICK S : MeantEffort(r, level) \in Seq(S)
  BY LabelsAsked
<1>2. <<Config>> \o MeantEffort(r, level) # Task
  BY <1>1, ConfigIsNoTask
<1> QED
  BY <1>2, LabelsAsked, NoWordIsTask DEF Material

\* A sequence of three parts begins as the first one does.
LEMMA ThreeParts ==
  ASSUME NEW S, NEW a \in Seq(S), NEW b \in Seq(S), NEW c \in Seq(S), Len(a) > 0
  PROVE  /\ (a \o b) \o c \in Seq(S) /\ Len((a \o b) \o c) > 0
         /\ ((a \o b) \o c)[1] = a[1]
<1>1. a \o b \in Seq(S) /\ Len(a \o b) = Len(a) + Len(b) /\ (a \o b)[1] = a[1]
  OBVIOUS
<1> QED
  BY <1>1

LEMMA SeqOfTwo == ASSUME NEW S, NEW a \in S, NEW b \in S
                  PROVE  Two(a, b) \in Seq(S) /\ Len(Two(a, b)) > 0 /\ Two(a, b)[1] = a
BY DEF Two
LEMMA SeqOfThree == ASSUME NEW S, NEW a \in S, NEW b \in S, NEW c \in S
                    PROVE  Three(a, b, c) \in Seq(S)
BY DEF Three
LEMMA SeqOfFour == ASSUME NEW S, NEW a \in S, NEW b \in S, NEW c \in S, NEW d \in S
                   PROVE  /\ Four(a, b, c, d) \in Seq(S) /\ Len(Four(a, b, c, d)) > 0
                          /\ Four(a, b, c, d)[1] = a
BY DEF Four

LEMMA MeantIsMade ==
  ASSUME NEW r \in Requests, NEW level \in RouteTiers
  PROVE  /\ Meant(r, level) \in Seq(Material(r, level)) /\ Len(Meant(r, level)) > 0
         /\ Meant(r, level)[1] \in Programs
<1> DEFINE S == Material(r, level)
           model == MeantModel(r, level)
           effort == MeantEffort(r, level)
           vendor == IF r.vendor = NoVendor THEN "codex" ELSE r.vendor
           first == IF r.kind = "preset" /\ vendor = "claude" THEN Plain(<<"claude", "safe settings">>)
                    ELSE Opening[vendor]
           named == IF model = NoLabel THEN <<>> ELSE Two(<<"--model">>, model)
           last == Ending(vendor, effort)
<1>1. Meant(r, level) = (first \o named) \o last
  BY DEF Meant, Two
<1>2. vendor \in RouteVendors
  BY RequestFacts DEF RouteVendors
<1>3. Words \subseteq S /\ model \in S /\ effort \in S /\ <<Config>> \o effort \in S
  BY DEF Material
<1>4. /\ <<"claude">> \in S /\ <<"codex">> \in S /\ <<"agy">> \in S /\ <<"grok">> \in S /\ Plainly \in S
      /\ <<"settings">> \in S /\ Safely \in S /\ Slot \in S /\ <<"--print">> \in S /\ <<"-p">> \in S
      /\ <<"-c">> \in S /\ <<"-">> \in S /\ <<"--effort">> \in S /\ <<"--reasoning-effort">> \in S
      /\ <<"--model">> \in S
  <2>1. <<"settings">> = Plainly
    BY DEF Plainly
  <2> HIDE DEF S
  <2> QED
    BY <1>3, <2>1 DEF Words
<1>5. first \in Seq(S) /\ Len(first) > 0 /\ first[1] \in Programs
  <2>1. Plain(<<"claude", "safe settings">>) = Two(<<"claude">>, Safely)
    BY PlainPair DEF Safely
  <2>2. first \in {Two(<<"claude">>, Safely), Two(<<"claude">>, Plainly), Two(<<"codex">>, <<"settings">>),
                   Four(<<"agy">>, <<"--print">>, Slot, <<"settings">>),
                   Four(<<"grok">>, <<"-p">>, Slot, <<"settings">>)}
    <3> HIDE DEF vendor
    <3> QED
      BY <1>2, <2>1, Openings DEF RouteVendors
  <2> HIDE DEF S, first
  <2>5. /\ <<"claude">> \in Programs /\ <<"codex">> \in Programs /\ <<"agy">> \in Programs
        /\ <<"grok">> \in Programs
    BY DEF Programs
  <2>3. CASE first = Two(<<"claude">>, Safely) \/ first = Two(<<"claude">>, Plainly)
             \/ first = Two(<<"codex">>, <<"settings">>)
    <3> DEFINE claude == <<"claude">>
               codex == <<"codex">>
               settings == <<"settings">>
    <3>1. claude \in S /\ codex \in S /\ settings \in S /\ claude \in Programs /\ codex \in Programs
      BY <1>4, <2>5
    <3>2. first = Two(claude, Safely) \/ first = Two(claude, Plainly) \/ first = Two(codex, settings)
      BY <2>3
    <3> HIDE DEF claude, codex, settings
    <3>3. Safely \in S /\ Plainly \in S
      BY <1>4
    <3>4. CASE first = Two(claude, Safely)
      BY <3>1, <3>3, <3>4, SeqOfTwo
    <3>5. CASE first = Two(claude, Plainly)
      BY <3>1, <3>3, <3>5, SeqOfTwo
    <3>6. CASE first = Two(codex, settings)
      BY <3>1, <3>6, SeqOfTwo
    <3> QED
      BY <3>2, <3>4, <3>5, <3>6
  <2>4. CASE first = Four(<<"agy">>, <<"--print">>, Slot, <<"settings">>)
             \/ first = Four(<<"grok">>, <<"-p">>, Slot, <<"settings">>)
    <3> DEFINE agy == <<"agy">>
               grok == <<"grok">>
               print == <<"--print">>
               p == <<"-p">>
               settings == <<"settings">>
    <3>1. /\ agy \in S /\ grok \in S /\ print \in S /\ p \in S /\ settings \in S /\ Slot \in S
          /\ agy \in Programs /\ grok \in Programs
      BY <1>4, <2>5
    <3>4. first = Four(agy, print, Slot, settings) \/ first = Four(grok, p, Slot, settings)
      BY <2>4
    <3> HIDE DEF agy, grok, print, p, settings
    <3>2. CASE first = Four(agy, print, Slot, settings)
      <4>1. /\ Four(agy, print, Slot, settings) \in Seq(S) /\ Len(Four(agy, print, Slot, settings)) > 0
            /\ Four(agy, print, Slot, settings)[1] = agy
        BY <3>1, SeqOfFour
      <4> QED
        BY <3>1, <3>2, <4>1
    <3>3. CASE first = Four(grok, p, Slot, settings)
      <4>1. /\ Four(grok, p, Slot, settings) \in Seq(S) /\ Len(Four(grok, p, Slot, settings)) > 0
            /\ Four(grok, p, Slot, settings)[1] = grok
        BY <3>1, SeqOfFour
      <4> QED
        BY <3>1, <3>3, <4>1
    <3> QED
      BY <3>2, <3>3, <3>4
  <2> QED
    BY <2>2, <2>3, <2>4
<1>6. named \in Seq(S)
  <2> HIDE DEF S, model
  <2> QED
    BY <1>3, <1>4, SeqOfTwo
<1>7. last \in Seq(S)
  <2>1. last \in {Two(<<"--effort">>, effort), Three(<<"-c">>, <<Config>> \o effort, <<"-">>),
                  Two(<<"--reasoning-effort">>, effort)}
    <3> HIDE DEF vendor, effort
    <3> QED
      BY <1>2, Endings DEF RouteVendors
  <2> DEFINE setting == <<Config>> \o effort
  <2>2. last \in {Two(<<"--effort">>, effort), Three(<<"-c">>, setting, <<"-">>),
                  Two(<<"--reasoning-effort">>, effort)}
    BY <2>1
  <2>3. setting \in S
    BY <1>3
  <2> HIDE DEF S, last, effort, setting
  <2>4. Two(<<"--effort">>, effort) \in Seq(S) /\ Two(<<"--reasoning-effort">>, effort) \in Seq(S)
    BY <1>3, <1>4, SeqOfTwo
  <2>5. Three(<<"-c">>, setting, <<"-">>) \in Seq(S)
    BY <1>4, <2>3, SeqOfThree
  <2> QED
    BY <2>2, <2>4, <2>5
<1> HIDE DEF S, first, named, last
<1> QED
  BY <1>1, <1>5, <1>6, <1>7, ThreeParts DEF S

\* An argument in which there is no name of the slot is not the slot.
Clean(a) == \A k \in DOMAIN a : a[k] # Slot[1]

LEMMA OneWord == \A w : DOMAIN <<w>> = {1} /\ <<w>>[1] = w
<1>1. \A w : DOMAIN <<w>> = 1..1 /\ <<w>>[1] = w
  OBVIOUS
<1> QED
  BY <1>1

LEMMA TwoWords == ASSUME NEW v, NEW w
                  PROVE  DOMAIN <<v, w>> = {1, 2} /\ <<v, w>>[1] = v /\ <<v, w>>[2] = w
<1>1. DOMAIN <<v, w>> = 1..2
  OBVIOUS
<1>2. 1..2 = {1, 2}
  OBVIOUS
<1> QED
  BY <1>1, <1>2

LEMMA SlotPiece == 1 \in DOMAIN Slot /\ Slot[1] = "{{task}}"
BY OneWord DEF Slot

LEMMA CleanWord == ASSUME NEW w, w # "{{task}}" PROVE Clean(<<w>>) /\ <<w>> # Slot
<1>1. <<w>> # <<"{{task}}">>
  BY WordsDiffer
<1> DEFINE a == <<w>>
<1>2. DOMAIN a = {1} /\ a[1] = w
  BY OneWord
<1> HIDE DEF a
<1>3. Clean(a)
  BY <1>2, SlotPiece DEF Clean
<1> QED
  BY <1>1, <1>3 DEF a, Slot

LEMMA CleanIsNotSlot == \A a : Clean(a) => a # Slot
BY SlotPiece DEF Clean

LEMMA SlotIsNoTask == Slot # Task /\ Task # <<>> /\ Clean(Task)
<1>1. Slot # Task
  BY WordsDiffer DEF Slot, Task
<1>2. Clean(Task)
  BY CleanWord DEF Task
<1>3. Task # <<>>
  <2>1. \A w : <<w>> # <<>>
    OBVIOUS
  <2> QED
    BY <2>1 DEF Task
<1> QED
  BY <1>1, <1>2, <1>3

\* The packaged commands have one slot at most, as the parser would have it.
LEMMA PackagedSlots ==
  ASSUME NEW e \in PackagedEfforts
  PROVE  /\ OneSlotAtMost(ClaudeLine(Plainly, e)) /\ OneSlotAtMost(CodexLine(e))
         /\ OneSlotAtMost(AgyLine(e)) /\ OneSlotAtMost(GrokLine(e))
<1>1. PICK w \in {"low", "medium", "high"} : e = <<w>>
  BY DEF PackagedEfforts
<1>2. Clean(e)
  BY <1>1, CleanWord
<1>3. Clean(<<Config>> \o e)
  <2> DEFINE T == {Config, "low", "medium", "high"}
             s == <<Config>> \o e
  <2>1. e \in Seq({"low", "medium", "high"}) /\ \A x \in T : x # "{{task}}"
    BY PackagedEffortsAreNoOptions DEF Config
  <2>2. \A S : \A x \in S : \A t \in Seq(S) : <<x>> \o t \in Seq(S)
    OBVIOUS
  <2>6. \A S, U : S \subseteq U => Seq(S) \subseteq Seq(U)
    OBVIOUS
  <2>7. {"low", "medium", "high"} \subseteq T /\ Config \in T
    OBVIOUS
  <2>3. e \in Seq(T) /\ Config \in T
    <3> HIDE DEF T
    <3> QED
      BY <2>1, <2>6, <2>7
  <2>4. s \in Seq(T)
    <3> HIDE DEF T
    <3> QED
      BY <2>2, <2>3
  <2> HIDE DEF s
  <2>5. \A k \in DOMAIN s : s[k] \in T
    <3> HIDE DEF T
    <3> QED
      BY <2>4
  <2> QED
    BY <2>1, <2>5, SlotPiece DEF Clean, s
<1>4. /\ Clean(<<"claude">>) /\ Clean(<<"codex">>) /\ Clean(<<"agy">>) /\ Clean(<<"grok">>) /\ Clean(Plainly)
      /\ Clean(<<"settings">>) /\ Clean(<<"--print">>) /\ Clean(<<"-p">>) /\ Clean(<<"-c">>) /\ Clean(<<"-">>)
      /\ Clean(<<"--effort">>) /\ Clean(<<"--reasoning-effort">>)
  BY CleanWord DEF Plainly
<1>5. ASSUME NEW s, \A i \in DOMAIN s : Clean(s[i])
      PROVE  OneSlotAtMost(s)
  BY <1>5, CleanIsNotSlot DEF OneSlotAtMost, Places, Clean
<1>6. ASSUME NEW s, 3 \in DOMAIN s, s[3] = Slot, \A i \in DOMAIN s : i # 3 => Clean(s[i])
      PROVE  OneSlotAtMost(s)
  <2>1. Places(s, Slot) = {3}
    BY <1>6, CleanIsNotSlot DEF Places
  <2> QED
    BY <1>6, <2>1 DEF OneSlotAtMost, Clean
<1>7. OneSlotAtMost(ClaudeLine(Plainly, e))
  <2> DEFINE s == ClaudeLine(Plainly, e)
  <2>1. DOMAIN s = 1..4 /\ s[1] = <<"claude">> /\ s[2] = Plainly /\ s[3] = <<"--effort">> /\ s[4] = e
    BY DEF ClaudeLine, Four
  <2> HIDE DEF s
  <2>2. Clean(s[1]) /\ Clean(s[2]) /\ Clean(s[3]) /\ Clean(s[4])
    BY <1>2, <1>4, <2>1
  <2>3. \A i \in DOMAIN s : Clean(s[i])
    BY <2>1, <2>2
  <2> QED
    BY <1>5, <2>3 DEF s
<1>8. OneSlotAtMost(CodexLine(e))
  <2> DEFINE s == CodexLine(e)
             setting == <<Config>> \o e
  <2>1. s = Five(<<"codex">>, <<"settings">>, <<"-c">>, setting, <<"-">>)
    BY DEF CodexLine
  <2>2. Clean(setting)
    BY <1>3
  <2> HIDE DEF s, setting
  <2>3. DOMAIN s = 1..5 /\ s[1] = <<"codex">> /\ s[2] = <<"settings">> /\ s[3] = <<"-c">> /\ s[4] = setting
        /\ s[5] = <<"-">>
    BY <2>1 DEF Five
  <2>4. Clean(s[1]) /\ Clean(s[2]) /\ Clean(s[3]) /\ Clean(s[4]) /\ Clean(s[5])
    BY <1>4, <2>2, <2>3
  <2>5. \A i \in DOMAIN s : Clean(s[i])
    BY <2>3, <2>4
  <2> QED
    BY <1>5, <2>5 DEF s
<1>9. OneSlotAtMost(AgyLine(e))
  <2> DEFINE s == AgyLine(e)
  <2>1. DOMAIN s = 1..6 /\ s[1] = <<"agy">> /\ s[2] = <<"--print">> /\ s[3] = Slot /\ s[4] = <<"settings">>
        /\ s[5] = <<"--effort">> /\ s[6] = e
    BY DEF AgyLine, Six
  <2> HIDE DEF s
  <2>2. Clean(s[1]) /\ Clean(s[2]) /\ Clean(s[4]) /\ Clean(s[5]) /\ Clean(s[6])
    BY <1>2, <1>4, <2>1
  <2>3. \A i \in DOMAIN s : i # 3 => Clean(s[i])
    BY <2>1, <2>2
  <2> QED
    BY <1>6, <2>1, <2>3 DEF s
<1>10. OneSlotAtMost(GrokLine(e))
  <2> DEFINE s == GrokLine(e)
  <2>1. DOMAIN s = 1..6 /\ s[1] = <<"grok">> /\ s[2] = <<"-p">> /\ s[3] = Slot /\ s[4] = <<"settings">>
        /\ s[5] = <<"--reasoning-effort">> /\ s[6] = e
    BY DEF GrokLine, Six
  <2> HIDE DEF s
  <2>2. Clean(s[1]) /\ Clean(s[2]) /\ Clean(s[4]) /\ Clean(s[5]) /\ Clean(s[6])
    BY <1>2, <1>4, <2>1
  <2>3. \A i \in DOMAIN s : i # 3 => Clean(s[i])
    BY <2>1, <2>2
  <2> QED
    BY <1>6, <2>1, <2>3 DEF s
<1> QED
  BY <1>7, <1>8, <1>9, <1>10

LEMMA UnchangedRouteSlots ==
  ASSUME NEW r \in Requests, r.kind = "packaged", Empty(r.overrides), NEW c \in Packaged(r), NEW level \in RouteTiers
  PROVE  OneSlotAtMost(c[level])
<1>1. c[level] = BuiltIn(IF r.vendor = NoVendor THEN "codex" ELSE r.vendor, UsualEffort[level])
  BY DEF Packaged, Default
<1> DEFINE vendor == IF r.vendor = NoVendor THEN "codex" ELSE r.vendor
<1>2. vendor \in RouteVendors /\ c[level] = BuiltIn(vendor, UsualEffort[level])
  BY <1>1, RequestFacts DEF RouteVendors
<1> HIDE DEF vendor
<1> QED
  BY <1>2, UsualEfforts, PackagedSlots, BuiltInLine DEF RouteVendors

LEMMA Elements ==
  ASSUME NEW S, NEW c \in Seq(S)
  PROVE  (\A i \in DOMAIN c : c[i] \in S) /\ (Len(c) > 0 => 1 \in DOMAIN c)
OBVIOUS

\* The program of a command may be looked up, and the slot is still where it was.
LEMMA ProgramIsNoSlot ==
  ASSUME NEW S, NEW c \in Seq(S), Len(c) > 0, NEW w, w # "{{task}}", OneSlotAtMost(c), Task \notin S
  PROVE  /\ OneSlotAtMost([c EXCEPT ![1] = <<"/", w>>])
         /\ \A i \in DOMAIN [c EXCEPT ![1] = <<"/", w>>] : [c EXCEPT ![1] = <<"/", w>>][i] # Task
<1> DEFINE path == <<"/", w>>
           d == [c EXCEPT ![1] = path]
<1>1. Clean(path) /\ path[1] = "/"
  <2>1. DOMAIN path = {1, 2} /\ path[1] = "/" /\ path[2] = w
    BY TwoWords
  <2> HIDE DEF path
  <2>2. path[1] # Slot[1] /\ path[2] # Slot[1]
    BY <2>1, SlotPiece
  <2> QED
    BY <2>1, <2>2 DEF Clean
<1>2. path # Task
  <2> HIDE DEF path
  <2> QED
    BY <1>1, OtherWord DEF Task
<1> HIDE DEF path
<1>3. DOMAIN d = DOMAIN c /\ d[1] = path /\ \A i \in DOMAIN c : i # 1 => d[i] = c[i]
  <2>1. 1 \in DOMAIN c
    BY Elements
  <2> QED
    BY <2>1
<1>4. \A i \in DOMAIN c : c[i] \in S
  BY Elements
<1> HIDE DEF d
<1>5. \A i \in DOMAIN d : d[i] # Task
  BY <1>2, <1>3, <1>4
<1>6. Places(d, Slot) = Places(c, Slot)
  BY <1>1, <1>3, CleanIsNotSlot DEF OneSlotAtMost, Places
<1>7. OneSlotAtMost(d)
  BY <1>1, <1>3, <1>6 DEF OneSlotAtMost, Clean
<1> QED
  BY <1>5, <1>7 DEF d, path

LEMMA ProgramWords ==
  ASSUME NEW p \in Programs
  PROVE  p[1] # "{{task}}"
<1>1. PICK w \in {"claude", "codex", "agy", "grok"} : p = <<w>>
  BY DEF Programs
<1>2. p[1] = w
  BY <1>1, OneWord
<1> QED
  BY <1>1, <1>2

\* What is delivered has one slot at most, and no argument that is the task already.
LEMMA RouteIsReady ==
  ASSUME request \in Requests, NEW c \in Composed(request),
         request.kind = "packaged" => Empty(request.overrides),
         request.kind # "packaged" => \A level \in DOMAIN c : OneSlotAtMost(c[level])
  PROVE  LET route == Located(c[request.tier])
         IN OneSlotAtMost(route) /\ \A i \in DOMAIN route : route[i] # Task
<1> DEFINE level == request.tier
           command == c[level]
<1>1. level \in RouteTiers /\ request.kind \in RequestKinds
  BY RequestFacts
<1>2. CASE request.kind \in {"packaged", "preset"}
  <2>1. level \in DOMAIN c /\ command = Meant(request, level)
    BY <1>1, <1>2, ComposedAsMeant
  <2>2. OneSlotAtMost(command)
    <3>1. CASE request.kind = "packaged"
      BY <1>1, <3>1, UnchangedRouteSlots DEF Composed
    <3>2. CASE request.kind = "preset"
      BY <2>1, <3>2
    <3> QED
      BY <1>2, <3>1, <3>2
  <2>3. command \in Seq(Material(request, level)) /\ Len(command) > 0 /\ command[1] \in Programs
    BY <1>1, <2>1, MeantIsMade
  <2>4. Task \notin Material(request, level)
    BY <1>1, MaterialIsNoTask
  <2>5. command[1][1] # "{{task}}"
    BY <2>3, ProgramWords
  <2>6. Located(command) = [command EXCEPT ![1] = <<"/", command[1][1]>>]
    BY <1>2 DEF Located
  <2> HIDE DEF command, level
  <2>7. OneSlotAtMost(Located(command)) /\ \A i \in DOMAIN Located(command) : Located(command)[i] # Task
    <3> DEFINE S == Material(request, level)
               w == command[1][1]
    <3>1. command \in Seq(S) /\ Len(command) > 0 /\ Task \notin S /\ w # "{{task}}"
          /\ Located(command) = [command EXCEPT ![1] = <<"/", w>>]
      BY <2>3, <2>4, <2>5, <2>6
    <3> HIDE DEF S, w
    <3>2. /\ OneSlotAtMost([command EXCEPT ![1] = <<"/", w>>])
          /\ \A i \in DOMAIN [command EXCEPT ![1] = <<"/", w>>] :
               [command EXCEPT ![1] = <<"/", w>>][i] # Task
      BY <2>2, <3>1, ProgramIsNoSlot
    <3> QED
      BY <3>1, <3>2
  <2> QED
    BY <2>7 DEF command, level
<1>3. CASE request.kind = "selected"
  <2>1. PICK line \in Selected(request) : c = [t \in {level} |-> line]
    BY <1>3 DEF Composed
  <2>2. /\ command = line /\ OneSlotAtMost(command)
        /\ command = [Meant(request, level) EXCEPT ![1] = <<"/", request.vendor>>]
    BY <1>3, <2>1, SelectedAsMeant
  <2>3. Meant(request, level) \in Seq(Material(request, level)) /\ Len(Meant(request, level)) > 0
    BY <1>1, MeantIsMade
  <2>4. Task \notin Material(request, level)
    BY <1>1, MaterialIsNoTask
  <2> DEFINE path == <<"/", request.vendor>>
  <2>5. path # Task
    <3>1. path[1] = "/"
      OBVIOUS
    <3> HIDE DEF path
    <3> QED
      BY <3>1, OtherWord DEF Task
  <2>6. Located(command) = command
    BY <1>3 DEF Located
  <2>7. \A i \in DOMAIN command : command[i] # Task
    <3> DEFINE meant == Meant(request, level)
    <3>1. command = [meant EXCEPT ![1] = path] /\ meant \in Seq(Material(request, level))
      BY <2>2, <2>3
    <3>2. \A i \in DOMAIN meant : meant[i] \in Material(request, level)
      BY <2>3
    <3> HIDE DEF command, meant, path
    <3> QED
      BY <2>4, <2>5, <3>1, <3>2
  <2> QED
    BY <2>2, <2>6, <2>7
<1>4. CASE request.kind = "file"
  <2>1. c = [t \in {level} |-> request.command]
    BY <1>4 DEF Composed
  <2>2. command = request.command /\ OneSlotAtMost(command)
    BY <1>4, <2>1
  <2>3. request.command \in FileCommands
    BY DEF Requests
  <2>4. command \in Seq(Seq(STRING) \ {Task})
    BY <2>2, <2>3, RouteArgvAssumption
  <2>5. Located(command) = command
    BY <1>4 DEF Located
  <2> HIDE DEF command
  <2>6. \A i \in DOMAIN command : command[i] # Task
    BY <2>4
  <2> QED
    BY <2>2, <2>5, <2>6 DEF command
<1> QED
  BY <1>1, <1>2, <1>3, <1>4 DEF RequestKinds

-------------------------------------------------------------------------------
(* The run *)

RunSteps == {"compose", "parse", "deliver", "run", "refused"}

CommandInv ==
  /\ request \in Requests /\ pc \in RunSteps
  /\ pc \in {"parse", "deliver", "run"} => commands \in Composed(request)
  /\ pc \in {"deliver", "run"} /\ request.kind # "packaged" =>
       \A level \in DOMAIN commands : OneSlotAtMost(commands[level])
  /\ TaskDeliveredOnce

\* What Deliver does with such a route: the task is in the child's hands once.
LEMMA HandedOver ==
  ASSUME NEW route, OneSlotAtMost(route), \A i \in DOMAIN route : route[i] # Task,
         \/ Places(route, Slot) # {} /\ argv' = Substituted(route) /\ stdin' = <<>>
         \/ Places(route, Slot) = {} /\ argv' = route /\ stdin' = Task
  PROVE  /\ Once(Deliveries')
         /\ \A i \in DOMAIN argv' : \A k \in DOMAIN argv'[i] : argv'[i][k] # Slot[1]
<1>1. 1 \notin Places(route, Slot) /\ \A i, j \in Places(route, Slot) : i = j
  BY DEF OneSlotAtMost
<1>2. \A i \in DOMAIN route : route[i] # Slot => \A k \in DOMAIN route[i] : route[i][k] # Slot[1]
  BY DEF OneSlotAtMost
<1>3. Task # <<>> /\ \A k \in DOMAIN Task : Task[k] # Slot[1]
  BY SlotIsNoTask DEF Clean
<1>4. Deliveries' = {i \in DOMAIN argv' : argv'[i] = Task} \cup (IF stdin' = Task THEN {0} ELSE {})
  BY DEF Deliveries
<1>5. CASE Places(route, Slot) # {} /\ argv' = Substituted(route) /\ stdin' = <<>>
  <2>1. /\ DOMAIN argv' = DOMAIN route
        /\ \A i \in DOMAIN route : argv'[i] = IF route[i] = Slot THEN Task ELSE route[i]
    BY <1>5 DEF Substituted
  <2>2. PICK i \in Places(route, Slot) : TRUE
    BY <1>5
  <2>3. {j \in DOMAIN argv' : argv'[j] = Task} = {i}
    BY <1>1, <2>1, <2>2 DEF Places
  <2>4. Deliveries' = {i}
    BY <1>3, <1>4, <1>5, <2>3
  <2>5. i # 1
    BY <1>1, <2>2
  <2> QED
    BY <1>2, <1>3, <2>1, <2>4, <2>5 DEF Once
<1>6. CASE Places(route, Slot) = {} /\ argv' = route /\ stdin' = Task
  <2>1. {j \in DOMAIN argv' : argv'[j] = Task} = {}
    BY <1>6
  <2>2. Deliveries' = {0}
    BY <1>4, <1>6, <2>1
  <2>3. \A i \in DOMAIN route : route[i] # Slot
    BY <1>6 DEF Places
  <2> QED
    BY <1>2, <1>6, <2>2, <2>3 DEF Once
<1> QED
  BY <1>5, <1>6

LEMMA CommandStart == CommandInit => CommandInv
BY DEF CommandInit, CommandInv, RunSteps, TaskDeliveredOnce

LEMMA CommandStep == CommandInv /\ [CommandNext]_commandVars => CommandInv'
<1> SUFFICES ASSUME CommandInv, [CommandNext]_commandVars PROVE CommandInv'
  OBVIOUS
<1>1. CASE Compose
  <2>1. request' = request /\ pc' \in RunSteps \ {"run"}
    BY <1>1 DEF Compose, RunSteps
  <2>2. pc' \in {"parse", "deliver"} => commands' \in Composed(request)
    BY <1>1 DEF Compose
  <2>3. pc' = "deliver" => request.kind = "packaged"
    BY <1>1 DEF Compose
  <2>4. TaskDeliveredOnce'
    BY <2>1 DEF TaskDeliveredOnce
  <2> QED
    BY <2>1, <2>2, <2>3, <2>4 DEF CommandInv
<1>2. CASE Parse
  <2>1. request' = request /\ commands' = commands /\ pc' \in {"deliver", "refused"} /\ pc = "parse"
    BY <1>2 DEF Parse
  <2>2. pc' = "deliver" => \A level \in DOMAIN commands : OneSlotAtMost(commands[level])
    BY <1>2 DEF Parse
  <2>3. TaskDeliveredOnce'
    BY <2>1 DEF TaskDeliveredOnce
  <2> QED
    BY <2>1, <2>2, <2>3 DEF CommandInv, RunSteps
<1>3. CASE Deliver
  <2>1. request' = request /\ commands' = commands /\ pc' \in {"run", "refused"} /\ pc = "deliver"
    BY <1>3 DEF Deliver
  <2> DEFINE route == Located(commands[request.tier])
  <2>2. pc' = "run" =>
          \/ Places(route, Slot) # {} /\ argv' = Substituted(route) /\ stdin' = <<>>
          \/ Places(route, Slot) = {} /\ argv' = route /\ stdin' = Task
    BY <1>3 DEF Deliver
  <2>3. ASSUME request.kind # "packaged" \/ Empty(request.overrides)
        PROVE  OneSlotAtMost(route) /\ \A i \in DOMAIN route : route[i] # Task
    BY <2>1, <2>3, RouteIsReady DEF CommandInv
  <2> HIDE DEF route
  <2>4. ASSUME pc' = "run", request.kind # "packaged" \/ Empty(request.overrides)
        PROVE  /\ Once(Deliveries')
               /\ \A i \in DOMAIN argv' : \A k \in DOMAIN argv'[i] : argv'[i][k] # Slot[1]
    BY <2>2, <2>3, <2>4, HandedOver
  <2>5. TaskDeliveredOnce'
    <3>1. Once(Deliveries)' = Once(Deliveries')
      BY DEF Once
    <3> QED
      BY <2>1, <2>4, <3>1 DEF TaskDeliveredOnce
  <2> QED
    BY <2>1, <2>5 DEF CommandInv, RunSteps
<1>4. CASE UNCHANGED commandVars
  BY <1>4 DEF commandVars, CommandInv, TaskDeliveredOnce, Once, Deliveries
<1> QED
  BY <1>1, <1>2, <1>3, <1>4 DEF CommandNext

LEMMA CommandInvariant == CommandSpec => []CommandInv
BY CommandStart, CommandStep, PTL DEF CommandSpec

\* Whichever of the ways a command is put together in, and whatever labels it is given,
\* every tier of an accepted policy names the model and the effort asked for it and has
\* everything else as packaged (_replace_or_insert_option and the rest of cli.py's
\* overrides): for every set of labels and every combination of overrides.
THEOREM CommandsSayWhatWasAsked == CommandSpec => []SaysWhatWasAsked
<1>1. CommandInv => SaysWhatWasAsked
  BY ComposedAsMeant DEF CommandInv, SaysWhatWasAsked
<1> QED
  BY <1>1, CommandInvariant, PTL

\* A child gets the task once, and never as its program or with the slot's name left
\* over (substitute_task, _require_at_most_one_task_slot): for every command that a
\* policy file may have.
THEOREM TasksAreDeliveredOnce == CommandSpec => []TaskDeliveredOnce
<1>1. CommandInv => TaskDeliveredOnce
  BY DEF CommandInv
<1> QED
  BY <1>1, CommandInvariant, PTL
===============================================================================
