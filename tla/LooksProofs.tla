------------------------------ MODULE LooksProofs ------------------------------
(***************************************************************************)
(* What is asked of the kernel more than once, while others act: a bounded *)
(* document is read whole or refused, from the file that was judged, for   *)
(* every limit, chunk size and set of files; a walk over PATH finds the    *)
(* first entry that stays as it is, and what it or a binding returns was   *)
(* admissible at one moment, for every file system and any changes at one  *)
(* place; and a process group is signalled only while its number is kept,  *)
(* for every order of its leader's exit, a foreign wait and a reuse of it. *)
(***************************************************************************)
EXTENDS BoundedJsonInput, ExecutableDiscovery, ProcessGroupAnchor,
        SequenceTheorems, WellFoundedInduction, TLAPS

-------------------------------------------------------------------------------
(* The document *)

\* What the reader holds is the beginning of the opened file, while nobody rewrites it.
Prefix ==
  /\ Len(contents) <= Len(bytes[opened])
  /\ \A i \in 1..Len(contents) : contents[i] = bytes[opened][i]

\* The reader is past the checks and has not closed the descriptor.
Admitted == pc \in {"read", "parse"}

DocumentInv ==
  /\ TypeOK
  /\ pc = "open" => opened = None /\ contents = <<>> /\ answer = "none"
  /\ pc \in {"fstat", "read", "parse", "close"} => opened \in Files
  /\ pc \in {"fstat", "read", "parse"} => answer = "none"
  /\ pc = "fstat" => contents = <<>>
  /\ Admitted => opened \in approved
  /\ pc = "read" /\ ~rewritten => Prefix
  /\ pc = "parse" => Len(contents) <= MaxBytes /\ (~rewritten => contents = whole)
  /\ NeverCut

\* Nothing is read yet.
LEMMA InitIsSafe == ASSUME DocumentInit PROVE DocumentInv
<1>1. bytes \in [Files -> Seq(Marks)]
  <2>1. bytes \in [Files -> {<<>>} \cup {<<mark>> : mark \in Marks}]
    BY DEF DocumentInit
  <2>2. \A mark \in Marks : <<mark>> \in Seq(Marks)
    OBVIOUS
  <2>3. {<<>>} \cup {<<mark>> : mark \in Marks} \subseteq Seq(Marks)
    <3>1. <<>> \in Seq(Marks)
      OBVIOUS
    <3> QED BY <2>2, <3>1, Zenon
  <2> QED BY <2>1, <2>3, Zenon
<1>2. TypeOK
  <2>1. facts \in Facts
    BY Zenon DEF DocumentInit
  <2>2. contents \in Seq(Marks) /\ whole \in Seq(Marks)
    BY DEF DocumentInit
  <2>3. /\ public \in [Files -> BOOLEAN] /\ at \in Files \cup {None} /\ strict \in BOOLEAN
        /\ opened \in Files \cup {None} /\ approved \subseteq Files /\ rewritten \in BOOLEAN
    BY Zenon DEF DocumentInit
  <2>4. pc \in Steps /\ answer \in Answers
    BY DEF DocumentInit, Steps, Answers
  <2> QED BY <1>1, <2>1, <2>2, <2>3, <2>4, Zenon DEF TypeOK
<1>3. pc = "open" /\ opened = None /\ contents = <<>> /\ answer = "none"
  BY Zenon DEF DocumentInit
<1>4. NeverCut
  BY <1>3 DEF NeverCut
<1> QED BY <1>2, <1>3, <1>4, Zenon DEF DocumentInv, Admitted

\* A request is never empty, and never asks for more than one byte past the limit.
LEMMA RequestIsBounded ==
  ASSUME NEW length \in Nat, length <= MaxBytes
  PROVE  Request(length) \in Nat \ {0} /\ length + Request(length) <= MaxBytes + 1
BY BytesAssumption DEF Request, Least

\* A chunk goes on where the contents end.
LEMMA ReadSomeIsSafe ==
  ASSUME DocumentInv, ReadSome, UNCHANGED <<files, strict, rewritten>> PROVE DocumentInv'
<1>1. pc = "read" /\ pc' = "read" /\ opened \in Files /\ opened' = opened /\ bytes' = bytes
      /\ bytes[opened] \in Seq(Marks) /\ contents \in Seq(Marks) /\ answer = "none"
  BY DEF DocumentInv, TypeOK, ReadSome, files
<1>2. PICK n \in 1..Request(Len(contents)) :
        Len(contents) + n <= Len(bytes[opened]) /\ contents' = contents \o Chunk(n)
  BY DEF ReadSome
<1>3. n \in Nat /\ Len(contents) \in Nat /\ Len(bytes[opened]) \in Nat
  BY <1>1, <1>2, RequestIsBounded DEF ReadSome
<1>4. /\ Chunk(n) \in Seq(Marks) /\ Len(Chunk(n)) = n
      /\ \A i \in 1..n : Chunk(n)[i] = bytes[opened][Len(contents) + i]
  <2> DEFINE m == Len(contents)
  <2>1. /\ m + 1 \in 1..(Len(bytes[opened]) + 1) /\ m + n \in m..Len(bytes[opened])
        /\ m \in Nat /\ (m + n) - (m + 1) + 1 = n
    BY <1>2, <1>3
  <2>2. Chunk(n) = [i \in 1..n |-> bytes[opened][m + i]]
    BY <1>1, <1>3, <2>1 DEF Chunk
  <2>3. \A i \in 1..n : bytes[opened][m + i] \in Marks
    BY <1>1, <1>2, <1>3
  <2> HIDE DEF m
  <2> QED BY <1>3, <2>2, <2>3 DEF m
<1>5. /\ contents' \in Seq(Marks) /\ Len(contents') = Len(contents) + n
      /\ \A i \in 1..Len(contents) : contents'[i] = contents[i]
      /\ \A i \in 1..n : contents'[Len(contents) + i] = Chunk(n)[i]
  <2>1. /\ contents \o Chunk(n) \in Seq(Marks)
        /\ Len(contents \o Chunk(n)) = Len(contents) + Len(Chunk(n))
        /\ \A i \in 1..Len(contents) + Len(Chunk(n)) : (contents \o Chunk(n))[i] =
             IF i <= Len(contents) THEN contents[i] ELSE Chunk(n)[i - Len(contents)]
    BY <1>1, <1>4, ConcatProperties
  <2>2. \A i \in 1..Len(contents) : contents'[i] = contents[i]
    BY <1>2, <1>3, <1>4, <2>1
  <2>3. \A i \in 1..n : contents'[Len(contents) + i] = Chunk(n)[i]
    BY <1>2, <1>3, <1>4, <2>1
  <2> QED BY <1>2, <1>4, <2>1, <2>2, <2>3
<1>6. TypeOK'
  BY <1>5 DEF DocumentInv, TypeOK, ReadSome, files
<1>7. ~rewritten => Prefix'
  <2> SUFFICES ASSUME ~rewritten PROVE Prefix'
    OBVIOUS
  <2>1. Prefix
    BY <1>1 DEF DocumentInv
  <2>2. ASSUME NEW i \in 1..Len(contents') PROVE contents'[i] = bytes[opened][i]
    <3>1. CASE i \in 1..Len(contents)
      BY <1>5, <2>1, <3>1 DEF Prefix
    <3>2. CASE i \notin 1..Len(contents)
      <4>1. i - Len(contents) \in 1..n /\ i = Len(contents) + (i - Len(contents))
        BY <1>3, <1>5, <3>2
      <4> QED BY <1>4, <1>5, <4>1
    <3> QED BY <3>1, <3>2
  <2> QED BY <1>1, <1>2, <1>5, <2>2 DEF Prefix
<1> QED BY <1>1, <1>6, <1>7 DEF DocumentInv, Admitted, NeverCut, ReadSome, files

\* At its end the file is what was read of it.
LEMMA ReadEndIsSafe ==
  ASSUME DocumentInv, ReadEnd, UNCHANGED <<files, strict, rewritten>> PROVE DocumentInv'
<1>1. pc = "read" /\ opened \in Files /\ bytes[opened] \in Seq(Marks) /\ contents \in Seq(Marks)
      /\ Len(contents) <= MaxBytes /\ answer = "none"
  BY DEF DocumentInv, TypeOK, ReadEnd
<1>2. Len(contents) >= Len(bytes[opened])
  BY <1>1, RequestIsBounded DEF ReadEnd
<1>3. ~rewritten => contents = bytes[opened]
  <2> SUFFICES ASSUME ~rewritten PROVE contents = bytes[opened]
    OBVIOUS
  <2>1. Prefix
    BY <1>1 DEF DocumentInv
  <2>2. Len(contents) = Len(bytes[opened])
    BY <1>1, <1>2, <2>1 DEF Prefix
  <2> QED BY <1>1, <2>1, <2>2 DEF Prefix
<1>4. TypeOK'
  BY <1>1 DEF DocumentInv, TypeOK, ReadEnd, files, Steps
<1> QED BY <1>1, <1>3, <1>4 DEF DocumentInv, Admitted, NeverCut, ReadEnd, files

\* What is too much of the file's beginning is too much of the file.
LEMMA ReadTooMuchIsSafe ==
  ASSUME DocumentInv, ReadTooMuch, UNCHANGED <<files, strict, rewritten>> PROVE DocumentInv'
<1>1. pc = "read" /\ pc' = "close" /\ answer' = "too long" /\ Len(contents) > MaxBytes
  BY DEF ReadTooMuch, Refuse
<1>2. opened \in Files /\ bytes[opened] \in Seq(Marks) /\ contents \in Seq(Marks)
  BY <1>1 DEF DocumentInv, TypeOK
<1>3. ~rewritten => Len(bytes[opened]) > MaxBytes
  <2> SUFFICES ASSUME ~rewritten PROVE Len(bytes[opened]) > MaxBytes
    OBVIOUS
  <2>1. Len(contents) <= Len(bytes[opened])
    BY <1>1 DEF DocumentInv, Prefix
  <2>2. Len(contents) \in Nat /\ Len(bytes[opened]) \in Nat
    BY <1>2
  <2> DEFINE m == Len(contents)
             n == Len(bytes[opened])
  <2>3. m \in Nat /\ n \in Nat /\ m <= n /\ m > MaxBytes /\ MaxBytes \in Nat
    BY <1>1, <2>1, <2>2, BytesAssumption, Zenon
  <2>4. n > MaxBytes
    <3> HIDE DEF m, n
    <3> QED BY <2>3
  <2> QED BY <2>4
<1>4. TypeOK'
  BY <1>1 DEF DocumentInv, TypeOK, ReadTooMuch, files, Steps, Answers
<1>5. opened' = opened /\ bytes' = bytes /\ rewritten' = rewritten
  BY DEF ReadTooMuch, files
<1>6. NeverCut'
  <2>1. answer' # "accepted"
    BY <1>1
  <2>2. bytes'[opened'] = bytes[opened]
    BY <1>5
  <2>3. ~rewritten' => Len(bytes'[opened']) > MaxBytes
    BY <1>3, <1>5, <2>2
  <2> QED BY <2>1, <2>3, Zenon DEF NeverCut
<1> QED BY <1>1, <1>2, <1>4, <1>5, <1>6 DEF DocumentInv, Admitted

\* The other steps of the reader.
LEMMA ReadIsSafe ==
  ASSUME DocumentInv, Read, UNCHANGED <<files, strict, rewritten>> PROVE DocumentInv'
<1> USE DEF DocumentInv, TypeOK, Admitted, NeverCut, files, Steps, Answers
<1>1. CASE Open
  BY <1>1 DEF Open
<1>2. CASE Fstat
  <2>1. opened \in Files /\ bytes[opened] \in Seq(Marks)
    BY <1>2 DEF Fstat
  <2>2. CASE Safe(Judged)
    <3>1. pc = "fstat" /\ pc' = "read" /\ approved' = approved \cup {opened} /\ contents = <<>>
      BY <1>2, <2>2 DEF Fstat, Judged
    <3>2. Prefix'
      BY <1>2, <2>1, <3>1 DEF Fstat, Prefix
    <3> QED BY <1>2, <2>1, <2>2, <3>1, <3>2 DEF Fstat
  <2>3. CASE ~Safe(Judged)
    BY <1>2, <2>1, <2>3 DEF Fstat, Refuse
  <2> QED BY <2>2, <2>3
<1>3. CASE ReadSome
  BY <1>3, ReadSomeIsSafe
<1>4. CASE ReadEnd
  BY <1>4, ReadEndIsSafe
<1>5. CASE ReadTooMuch
  BY <1>5, ReadTooMuchIsSafe
<1>6. CASE ReadFails
  BY <1>6 DEF ReadFails, Refuse
<1>7. CASE Parse
  BY <1>7 DEF Parse
<1>8. CASE CloseDocument
  BY <1>8 DEF CloseDocument
<1> QED BY <1>1, <1>2, <1>3, <1>4, <1>5, <1>6, <1>7, <1>8 DEF Read

\* Whatever the others do, what was read stays the beginning of the file, or the file
\* counts as rewritten.
LEMMA OthersAreHarmless ==
  ASSUME DocumentInv, pc \notin {"close", "done"}, Others, UNCHANGED <<reader, strict>> PROVE DocumentInv'
<1>1. CASE Replace
  BY <1>1 DEF Replace, DocumentInv, TypeOK, Admitted, NeverCut, Prefix, reader
<1>2. ASSUME NEW file \in Files, AppendTo(file) PROVE DocumentInv'
  <2>1. PICK mark \in Marks : bytes' = [bytes EXCEPT ![file] = Append(@, mark)]
    BY <1>2 DEF AppendTo
  <2>2. bytes \in [Files -> Seq(Marks)]
    BY DEF DocumentInv, TypeOK
  <2>3. bytes' \in [Files -> Seq(Marks)]
    BY <2>1, <2>2
  <2>4. ASSUME NEW g \in Files
        PROVE /\ Len(bytes[g]) <= Len(bytes'[g])
              /\ \A i \in 1..Len(bytes[g]) : bytes'[g][i] = bytes[g][i]
    BY <2>1, <2>2
  <2>5. pc = "read" /\ ~rewritten => Prefix'
    <3> SUFFICES ASSUME pc = "read", ~rewritten PROVE Prefix'
      OBVIOUS
    <3>1. Prefix /\ opened \in Files /\ contents \in Seq(Marks) /\ contents' = contents /\ opened' = opened
      BY DEF DocumentInv, TypeOK, reader
    <3>2. bytes[opened] \in Seq(Marks) /\ bytes'[opened] \in Seq(Marks)
      BY <2>2, <2>3, <3>1
    <3> QED BY <2>4, <3>1, <3>2 DEF Prefix
  <2> QED BY <1>2, <2>3, <2>5 DEF AppendTo, DocumentInv, TypeOK, Admitted, NeverCut, reader
<1>3. ASSUME NEW file \in Files, Rewrite(file) PROVE DocumentInv'
  <2>1. PICK mark \in Marks, length \in 0..MaxLength :
          bytes' = [bytes EXCEPT ![file] = [i \in 1..length |-> mark]]
    BY <1>3 DEF Rewrite
  <2>2. [i \in 1..length |-> mark] \in Seq(Marks)
    BY <2>1, BytesAssumption
  <2>3. bytes' \in [Files -> Seq(Marks)]
    BY <2>1, <2>2 DEF DocumentInv, TypeOK
  <2>4. ~rewritten' /\ opened \in Files => ~rewritten /\ bytes'[opened] = bytes[opened]
    BY <1>3, <2>1 DEF Rewrite, DocumentInv, TypeOK
  <2>5. pc = "read" /\ ~rewritten' => Prefix'
    BY <2>4 DEF DocumentInv, Prefix, reader
  <2>6. rewritten' \in BOOLEAN
    BY <1>3 DEF Rewrite
  <2> QED BY <1>3, <2>3, <2>4, <2>5, <2>6 DEF Rewrite, DocumentInv, TypeOK, Admitted, NeverCut, reader
<1>4. ASSUME NEW file \in Files, Permit(file) PROVE DocumentInv'
  BY <1>4 DEF Permit, DocumentInv, TypeOK, Admitted, NeverCut, Prefix, reader
<1> QED BY <1>1, <1>2, <1>3, <1>4 DEF Others

\* Each step of anybody keeps the invariant.
LEMMA NextIsSafe == ASSUME DocumentInv, [DocumentNext]_documentVars PROVE DocumentInv'
<1>1. CASE Read /\ UNCHANGED <<files, strict, rewritten>>
  BY <1>1, ReadIsSafe
<1>2. CASE pc \notin {"close", "done"} /\ Others /\ UNCHANGED <<reader, strict>>
  BY <1>2, OthersAreHarmless
<1>3. CASE UNCHANGED documentVars
  BY <1>3 DEF documentVars, files, reader, DocumentInv, TypeOK, Admitted, NeverCut, Prefix
<1> QED BY <1>1, <1>2, <1>3 DEF DocumentNext

\* The invariant holds throughout.
LEMMA AlwaysSafe == DocumentSpec => []DocumentInv
<1>1. DocumentInit => DocumentInv
  BY InitIsSafe
<1>2. DocumentInv /\ [DocumentNext]_documentVars => DocumentInv'
  BY NextIsSafe
<1> QED BY <1>1, <1>2, PTL DEF DocumentSpec

\* A document is never cut, whatever its limit, the chunks and the other writers.
THEOREM DocumentsAreNeverCut == DocumentSpec => []NeverCut
<1>1. DocumentInv => NeverCut
  BY DEF DocumentInv
<1> QED BY <1>1, AlwaysSafe, PTL

\* Nothing is swapped between the check and the read.
THEOREM JudgedIsRead == DocumentSpec => []ReadsWhatWasJudged
<1>1. DocumentInv => ReadsWhatWasJudged
  BY DEF DocumentInv, Admitted, ReadsWhatWasJudged
<1> QED BY <1>1, AlwaysSafe, PTL
-------------------------------------------------------------------------------
(* Where names lead *)

\* Induction over the turns of a walk: a first one of a kind.
LEMMA FirstNumber ==
  ASSUME NEW T, T \subseteq Nat, T # {}
  PROVE  \E m \in T : \A n \in T : m <= n
<1>1. PICK m \in T : \A n \in T : ~ (<<n, m>> \in OpToRel(<, Nat))
  BY NatLessThanWellFounded, WFMin
<1>2. \A n \in T : ~ (n < m)
  BY <1>1 DEF OpToRel
<1>3. \A n \in T : m <= n
  BY <1>2
<1> QED BY <1>3

-------------------------------------------------------------------------------
\* A walk, turn by turn.
Start(names) == [at |-> <<>>, rest |-> names, real |-> TRUE]

Turns(disk, names, n, w) ==
  w = [k \in 0..n |-> IF k = 0 THEN Start(names) ELSE Turn(disk, w[k - 1])]

\* A walk has as many turns as one likes.
LEMMA TurnsExist == ASSUME NEW disk, NEW names, NEW n \in Nat PROVE \E w : Turns(disk, names, n, w)
<1> DEFINE T == {k \in Nat : ~ \E w : Turns(disk, names, k, w)}
<1> SUFFICES ASSUME T # {} PROVE FALSE
  OBVIOUS
<1>1. PICK m \in T : \A k \in T : m <= k
  <2>1. T \subseteq Nat
    OBVIOUS
  <2> HIDE DEF T
  <2> QED BY <2>1, FirstNumber
<1>2. m \in Nat /\ ~ \E w : Turns(disk, names, m, w)
  BY <1>1
<1>3. CASE m = 0
  <2> DEFINE w == [k \in 0..0 |-> Start(names)]
  <2>1. w = [k \in 0..0 |-> IF k = 0 THEN Start(names) ELSE Turn(disk, w[k - 1])]
    OBVIOUS
  <2>2. Turns(disk, names, m, w)
    BY <1>3, <2>1 DEF Turns
  <2> QED BY <1>2, <2>2
<1>4. CASE m # 0
  <2>1. m - 1 \in Nat /\ m - 1 \notin T
    BY <1>1, <1>2, <1>4
  <2>2. PICK u : Turns(disk, names, m - 1, u)
    BY <2>1
  <2> DEFINE w == [k \in 0..m |-> IF k = m THEN Turn(disk, u[m - 1]) ELSE u[k]]
  <2>3. \A k \in 0..(m - 1) : u[k] = IF k = 0 THEN Start(names) ELSE Turn(disk, u[k - 1])
    BY <2>1, <2>2 DEF Turns
  <2>4. \A k \in 0..m : w[k] = IF k = 0 THEN Start(names) ELSE Turn(disk, w[k - 1])
    <3> SUFFICES ASSUME NEW k \in 0..m
                 PROVE  w[k] = IF k = 0 THEN Start(names) ELSE Turn(disk, w[k - 1])
      OBVIOUS
    <3>1. CASE k = m
      <4>1. w[k] = Turn(disk, u[m - 1]) /\ w[k - 1] = u[m - 1]
        BY <1>2, <1>4, <3>1
      <4> QED BY <1>4, <3>1, <4>1
    <3>2. CASE k # m /\ k # 0
      <4>1. w[k] = u[k] /\ w[k - 1] = u[k - 1] /\ k \in 0..(m - 1)
        BY <1>2, <3>2
      <4> QED BY <2>3, <3>2, <4>1
    <3>3. CASE k # m /\ k = 0
      <4>1. w[k] = u[k] /\ k \in 0..(m - 1)
        BY <1>2, <3>3
      <4> QED BY <2>3, <3>3, <4>1
    <3> QED BY <3>1, <3>2, <3>3
  <2>5. Turns(disk, names, m, w)
    <3> DEFINE v == [k \in 0..m |-> IF k = 0 THEN Start(names) ELSE Turn(disk, w[k - 1])]
    <3>1. DOMAIN w = 0..m /\ DOMAIN v = 0..m /\ \A k \in 0..m : w[k] = v[k]
      BY <2>4
    <3>2. w = v
      <4>1. w = [k \in DOMAIN w |-> w[k]] /\ v = [k \in DOMAIN v |-> v[k]]
        OBVIOUS
      <4> HIDE DEF w, v
      <4> QED BY <3>1, <4>1
    <3> HIDE DEF w
    <3> QED BY <3>2 DEF Turns
  <2> QED BY <1>2, <2>5
<1> QED BY <1>3, <1>4

\* What Walk computes is the last of MaxSteps turns.
LEMMA WalkIsTurns ==
  ASSUME NEW disk, NEW names
  PROVE  \E w : Turns(disk, names, MaxSteps, w) /\ Walk(disk, names) = w[MaxSteps]
<1> DEFINE walk == CHOOSE w : w = [n \in 0..MaxSteps |->
                     IF n = 0 THEN [at |-> <<>>, rest |-> names, real |-> TRUE] ELSE Turn(disk, w[n - 1])]
<1>1. PICK w : Turns(disk, names, MaxSteps, w)
  BY TurnsExist, WalkAssumption
<1>2. w = [n \in 0..MaxSteps |->
             IF n = 0 THEN [at |-> <<>>, rest |-> names, real |-> TRUE] ELSE Turn(disk, w[n - 1])]
  BY <1>1, Zenon DEF Turns, Start
<1>3. walk = [n \in 0..MaxSteps |->
                IF n = 0 THEN [at |-> <<>>, rest |-> names, real |-> TRUE] ELSE Turn(disk, walk[n - 1])]
  BY <1>2, Zenon
<1>4. Turns(disk, names, MaxSteps, walk)
  BY <1>3, Zenon DEF Turns, Start
<1>5. Walk(disk, names) = walk[MaxSteps]
  BY Zenon DEF Walk
<1> QED BY <1>4, <1>5, Zenon

\* The beginnings of a path.
LEMMA Beginnings ==
  ASSUME NEW S, NEW p \in Seq(S), NEW n \in 0..Len(p)
  PROVE  /\ SubSeq(p, 1, n) \in Seq(S) /\ Len(SubSeq(p, 1, n)) = n
         /\ \A i \in 1..n : SubSeq(p, 1, n)[i] = p[i]
         /\ \A k \in 0..n : SubSeq(SubSeq(p, 1, n), 1, k) = SubSeq(p, 1, k)
<1>1. \A k \in 0..Len(p) : /\ SubSeq(p, 1, k) \in Seq(S) /\ Len(SubSeq(p, 1, k)) = k
                           /\ \A i \in 1..k : SubSeq(p, 1, k)[i] = p[i]
  <2> SUFFICES ASSUME NEW k \in 0..Len(p)
               PROVE  /\ SubSeq(p, 1, k) \in Seq(S) /\ Len(SubSeq(p, 1, k)) = k
                      /\ \A i \in 1..k : SubSeq(p, 1, k)[i] = p[i]
    OBVIOUS
  <2>1. \A i \in 1..k : p[i] \in S
    BY LenProperties
  <2>2. k \in Int /\ 1 \in Int
    OBVIOUS
  <2> QED BY <2>1, <2>2, SubSeqProperties
<1>2. ASSUME NEW k \in 0..n PROVE SubSeq(SubSeq(p, 1, n), 1, k) = SubSeq(p, 1, k)
  <2> DEFINE s == SubSeq(p, 1, n)
             t == SubSeq(s, 1, k)
             u == SubSeq(p, 1, k)
  <2>1. s \in Seq(S) /\ Len(s) = n /\ \A i \in 1..n : s[i] = p[i]
    BY <1>1
  <2>2. \A i \in 1..k : s[i] \in S
    BY <2>1, LenProperties
  <2>3. t \in Seq(S) /\ Len(t) = k /\ \A i \in 1..k : t[i] = s[i]
    <3> HIDE DEF s
    <3>1. k \in Int /\ 1 \in Int
      OBVIOUS
    <3> QED BY <2>2, <3>1, SubSeqProperties
  <2>4. u \in Seq(S) /\ Len(u) = k /\ \A i \in 1..k : u[i] = p[i]
    BY <1>1
  <2>5. \A i \in 1..Len(t) : t[i] = u[i]
    BY <2>1, <2>3, <2>4
  <2> HIDE DEF t, u
  <2> QED BY <2>3, <2>4, <2>5, SeqEqual DEF t, u
<1> QED BY <1>1, <1>2

\* The last name of a path, and what is before it.
LEMMA LastOfPrefix ==
  ASSUME NEW S, NEW p \in Seq(S), NEW n \in 1..Len(p)
  PROVE  /\ Front(SubSeq(p, 1, n)) = SubSeq(p, 1, n - 1) /\ Last(SubSeq(p, 1, n)) = p[n]
         /\ SubSeq(p, 1, n) # <<>> /\ SubSeq(p, 1, n) = Append(SubSeq(p, 1, n - 1), p[n])
<1>1. n \in 0..Len(p) /\ n - 1 \in 0..Len(p) /\ n - 1 \in 0..n /\ p[n] \in S
  BY LenProperties
<1>2. SubSeq(p, 1, n) \in Seq(S) /\ Len(SubSeq(p, 1, n)) = n /\ \A i \in 1..n : SubSeq(p, 1, n)[i] = p[i]
  BY <1>1, Beginnings
<1>3. /\ SubSeq(p, 1, n - 1) \in Seq(S) /\ Len(SubSeq(p, 1, n - 1)) = n - 1
      /\ \A i \in 1..(n - 1) : SubSeq(p, 1, n - 1)[i] = p[i]
  BY <1>1, Beginnings
<1>4. SubSeq(SubSeq(p, 1, n), 1, n - 1) = SubSeq(p, 1, n - 1)
  BY <1>1, Beginnings
<1>5. Front(SubSeq(p, 1, n)) = SubSeq(p, 1, n - 1)
  BY <1>2, <1>4 DEF Front
<1>6. Last(SubSeq(p, 1, n)) = p[n] /\ SubSeq(p, 1, n) # <<>>
  BY <1>1, <1>2, EmptySeq DEF Last
<1>7. SubSeq(p, 1, n) = Append(SubSeq(p, 1, n - 1), p[n])
  <2> DEFINE s == SubSeq(p, 1, n)
             t == SubSeq(p, 1, n - 1)
             u == Append(t, p[n])
  <2>1. u \in Seq(S) /\ Len(u) = n /\ (\A i \in 1..(n - 1) : u[i] = t[i]) /\ u[n] = p[n]
    <3>1. t \in Seq(S) /\ Len(t) = n - 1 /\ p[n] \in S
      BY <1>1, <1>3
    <3> HIDE DEF t
    <3>2. /\ Append(t, p[n]) \in Seq(S) /\ Len(Append(t, p[n])) = Len(t) + 1
          /\ \A i \in 1..Len(t) : Append(t, p[n])[i] = t[i]
          /\ Append(t, p[n])[Len(t) + 1] = p[n]
      BY <3>1, AppendProperties
    <3> QED BY <1>1, <3>1, <3>2
  <2>2. \A i \in 1..n : s[i] = u[i]
    <3> SUFFICES ASSUME NEW i \in 1..n PROVE s[i] = u[i]
      OBVIOUS
    <3>1. s[i] = p[i]
      BY <1>2
    <3>2. CASE i = n
      BY <2>1, <3>1, <3>2
    <3>3. CASE i # n
      <4>1. i \in 1..(n - 1)
        BY <3>3
      <4> QED BY <1>3, <2>1, <3>1, <4>1
    <3> QED BY <3>2, <3>3
  <2>3. s \in Seq(S) /\ Len(s) = n
    BY <1>2
  <2> HIDE DEF s, u
  <2> QED BY <2>1, <2>2, <2>3, SeqEqual DEF s, u
<1> QED BY <1>5, <1>6, <1>7

-------------------------------------------------------------------------------
Walker == [at : Seq(STRING), rest : Seq(STRING), real : BOOLEAN]

Typed(disk) == \A p \in DOMAIN disk : disk[p] \in Nodes

\* No link on the way to a location, which has no name "..".
Clear(disk, p) ==
  /\ p \in Seq(STRING) /\ \A i \in 1..Len(p) : p[i] # ".."
  /\ \A n \in 1..Len(p) : Node(disk, SubSeq(p, 1, n)).type # "link"

\* A link of a well-typed disk leads along a path, and what is not there is Missing.
LEMMA NodesAreNamed ==
  ASSUME NEW disk, Typed(disk), NEW location
  PROVE  /\ Node(disk, location).type = "link" => Node(disk, location).names \in Seq(STRING)
         /\ Node(disk, location).type = "missing" => Node(disk, location) = Missing
<1>1. ASSUME NEW node \in Nodes
      PROVE  (node.type = "link" => node.names \in Seq(STRING)) /\ node.type # "missing"
  <2>1. CASE node \in [type : {"link"}, absolute : BOOLEAN, names : Seq(STRING)]
    <3>1. node.type = "link" /\ node.names \in Seq(STRING)
      BY <2>1
    <3> QED BY <3>1
  <2>2. ASSUME NEW all, node = Directory(all) PROVE node.type = "directory"
    BY <2>2 DEF Directory
  <2>3. ASSUME NEW mode, node = File(mode) PROVE node.type = "file"
    BY <2>3 DEF File
  <2>4. \/ node \in [type : {"link"}, absolute : BOOLEAN, names : Seq(STRING)]
        \/ \E all : node = Directory(all)
        \/ \E mode : node = File(mode)
    BY <1>1, Zenon DEF Nodes
  <2> QED BY <2>1, <2>2, <2>3, <2>4
<1> QED BY <1>1 DEF Typed, Node, Directory, Missing

\* What is above a clear location is clear.
LEMMA ClearPrefix ==
  ASSUME NEW disk, NEW p, Clear(disk, p), NEW n \in 0..Len(p) PROVE Clear(disk, SubSeq(p, 1, n))
<1>1. p \in Seq(STRING)
  BY DEF Clear
<1>2. /\ SubSeq(p, 1, n) \in Seq(STRING) /\ Len(SubSeq(p, 1, n)) = n
      /\ \A i \in 1..n : SubSeq(p, 1, n)[i] = p[i]
      /\ \A k \in 0..n : SubSeq(SubSeq(p, 1, n), 1, k) = SubSeq(p, 1, k)
  BY <1>1, Beginnings
<1>3. \A k \in 1..n : k \in 1..Len(p) /\ k \in 0..n
  BY <1>1
<1> QED BY <1>2, <1>3 DEF Clear

\* A clear location stays so under one more name that is no link.
LEMMA ClearAppend ==
  ASSUME NEW disk, NEW p, Clear(disk, p), NEW name \in STRING, name # "..",
         Node(disk, Append(p, name)).type # "link"
  PROVE  Clear(disk, Append(p, name)) /\ Len(Append(p, name)) = Len(p) + 1
<1> DEFINE q == Append(p, name)
<1>1. p \in Seq(STRING) /\ Len(p) \in Nat
  BY DEF Clear
<1>2. q \in Seq(STRING) /\ Len(q) = Len(p) + 1 /\ (\A i \in 1..Len(p) : q[i] = p[i]) /\ q[Len(p) + 1] = name
  BY <1>1, AppendProperties
<1>3. \A i \in 1..Len(q) : q[i] # ".."
  <2> SUFFICES ASSUME NEW i \in 1..Len(q) PROVE q[i] # ".."
    OBVIOUS
  <2>1. i \in 1..Len(p) \/ i = Len(p) + 1
    BY <1>1, <1>2
  <2> HIDE DEF q
  <2> QED BY <1>2, <2>1 DEF Clear
<1>4. \A n \in 1..Len(p) : SubSeq(q, 1, n) = SubSeq(p, 1, n)
  <2> SUFFICES ASSUME NEW n \in 1..Len(p) PROVE SubSeq(q, 1, n) = SubSeq(p, 1, n)
    OBVIOUS
  <2>1. /\ n \in 0..Len(p) /\ n \in 0..Len(q) /\ \A i \in 1..n : i \in 1..Len(p)
    BY <1>1, <1>2
  <2>2. /\ SubSeq(p, 1, n) \in Seq(STRING) /\ Len(SubSeq(p, 1, n)) = n
        /\ \A i \in 1..n : SubSeq(p, 1, n)[i] = p[i]
    BY <1>1, <2>1, Beginnings
  <2> HIDE DEF q
  <2>3. /\ SubSeq(q, 1, n) \in Seq(STRING) /\ Len(SubSeq(q, 1, n)) = n
        /\ \A i \in 1..n : SubSeq(q, 1, n)[i] = q[i]
    BY <1>2, <2>1, Beginnings
  <2>4. \A i \in 1..n : SubSeq(q, 1, n)[i] = SubSeq(p, 1, n)[i]
    BY <1>2, <2>1, <2>2, <2>3
  <2> QED BY <2>2, <2>3, <2>4, SeqEqual
<1>5. SubSeq(q, 1, Len(p) + 1) = q
  BY <1>2, SubSeqFull
<1>6. \A n \in 1..Len(q) : Node(disk, SubSeq(q, 1, n)).type # "link"
  <2> SUFFICES ASSUME NEW n \in 1..Len(q) PROVE Node(disk, SubSeq(q, 1, n)).type # "link"
    OBVIOUS
  <2>1. n \in 1..Len(p) \/ n = Len(p) + 1
    BY <1>1, <1>2
  <2>2. Node(disk, q).type # "link"
    OBVIOUS
  <2> HIDE DEF q
  <2> QED BY <1>4, <1>5, <2>1, <2>2 DEF Clear
<1> QED BY <1>2, <1>3, <1>6 DEF Clear

\* One turn: what is walked through is clear of links, and one name longer at most.
LEMMA TurnIsClear ==
  ASSUME NEW disk, Typed(disk), NEW walk \in Walker, Clear(disk, walk.at)
  PROVE  /\ Turn(disk, walk) \in Walker /\ Clear(disk, Turn(disk, walk).at)
         /\ Len(Turn(disk, walk).at) <= Len(walk.at) + 1
<1> DEFINE next == Append(walk.at, Head(walk.rest))
           node == Node(disk, next)
<1>1. walk.at \in Seq(STRING) /\ walk.rest \in Seq(STRING) /\ walk.real \in BOOLEAN /\ Len(walk.at) \in Nat
  BY DEF Walker
<1>2. CASE walk.rest = <<>>
  BY <1>1, <1>2 DEF Turn
<1>3. CASE walk.rest # <<>>
  <2>1. Head(walk.rest) \in STRING /\ Tail(walk.rest) \in Seq(STRING)
    BY <1>1, <1>3, HeadTailProperties
  <2>2. CASE Head(walk.rest) = ".."
    <3>1. Turn(disk, walk) = [walk EXCEPT !.at = Up(walk.at), !.rest = Tail(walk.rest)]
      BY <1>3, <2>2 DEF Turn
    <3>2. /\ Up(walk.at) \in Seq(STRING) /\ Clear(disk, Up(walk.at)) /\ Len(Up(walk.at)) <= Len(walk.at)
      <4>1. CASE walk.at = <<>>
        BY <1>1, <4>1 DEF Up
      <4>2. CASE walk.at # <<>>
        <5>1. Len(walk.at) # 0 /\ Len(walk.at) - 1 \in 0..Len(walk.at)
          BY <1>1, <4>2, EmptySeq
        <5>2. /\ SubSeq(walk.at, 1, Len(walk.at) - 1) \in Seq(STRING)
              /\ Len(SubSeq(walk.at, 1, Len(walk.at) - 1)) = Len(walk.at) - 1
          BY <1>1, <5>1, Beginnings
        <5>3. Clear(disk, SubSeq(walk.at, 1, Len(walk.at) - 1))
          BY <5>1, ClearPrefix
        <5> QED BY <1>1, <4>2, <5>2, <5>3 DEF Up, Front
      <4> QED BY <4>1, <4>2
    <3>3. Turn(disk, walk) = [at |-> Up(walk.at), rest |-> Tail(walk.rest), real |-> walk.real]
      BY <3>1 DEF Walker
    <3> QED BY <1>1, <2>1, <3>2, <3>3 DEF Walker
  <2>3. CASE Head(walk.rest) # ".." /\ node.type = "link"
    <3>1. node.names \in Seq(STRING)
      BY <2>3, NodesAreNamed
    <3>2. node.names \o Tail(walk.rest) \in Seq(STRING)
      BY <2>1, <3>1, ConcatProperties
    <3> DEFINE from == IF node.absolute THEN <<>> ELSE walk.at
    <3>3. Turn(disk, walk) = [walk EXCEPT !.at = from, !.rest = node.names \o Tail(walk.rest)]
      BY <1>3, <2>3 DEF Turn
    <3>4. from \in Seq(STRING) /\ Clear(disk, from) /\ Len(from) <= Len(walk.at)
      <4>1. <<>> \in Seq(STRING) /\ Len(<<>>) = 0 /\ Clear(disk, <<>>)
        BY DEF Clear
      <4>2. from = <<>> \/ from = walk.at
        OBVIOUS
      <4> HIDE DEF from
      <4>3. CASE from = <<>>
        BY <1>1, <4>1, <4>3
      <4>4. CASE from = walk.at
        BY <1>1, <4>4
      <4> QED BY <4>2, <4>3, <4>4
    <3> HIDE DEF from, node
    <3>5. Turn(disk, walk) = [at |-> from, rest |-> node.names \o Tail(walk.rest), real |-> walk.real]
      BY <3>3 DEF Walker
    <3> QED BY <1>1, <3>2, <3>4, <3>5 DEF Walker
  <2>4. CASE Head(walk.rest) # ".." /\ node.type # "link"
    <3>1. Clear(disk, next) /\ Len(next) = Len(walk.at) + 1
      BY <2>1, <2>4, ClearAppend
    <3>2. Turn(disk, walk) = [at |-> next, rest |-> Tail(walk.rest),
             real |-> walk.real /\ (Tail(walk.rest) = <<>> \/ node.type = "directory")]
      BY <1>3, <2>4 DEF Turn
    <3>3. next \in Seq(STRING)
      BY <3>1 DEF Clear
    <3> HIDE DEF next, node
    <3> QED BY <1>1, <2>1, <3>1, <3>2, <3>3 DEF Walker
  <2> QED BY <2>2, <2>3, <2>4
<1> QED BY <1>2, <1>3

\* What is known of every turn of a walk.
LEMMA TurnsAreClear ==
  ASSUME NEW disk, Typed(disk), NEW names \in Seq(STRING), NEW n \in Nat, NEW w, Turns(disk, names, n, w)
  PROVE  \A k \in 0..n : w[k] \in Walker /\ Clear(disk, w[k].at) /\ Len(w[k].at) <= k
<1> DEFINE T == {k \in 0..n : ~ (w[k] \in Walker /\ Clear(disk, w[k].at) /\ Len(w[k].at) <= k)}
<1> SUFFICES ASSUME T # {} PROVE FALSE
  OBVIOUS
<1>1. PICK m \in T : \A k \in T : m <= k
  <2>1. T \subseteq Nat
    OBVIOUS
  <2> HIDE DEF T
  <2> QED BY <2>1, FirstNumber
<1>2. \A k \in 0..n : w[k] = IF k = 0 THEN Start(names) ELSE Turn(disk, w[k - 1])
  BY DEF Turns
<1>3. CASE m = 0
  <2>1. w[0] = [at |-> <<>>, rest |-> names, real |-> TRUE]
    <3>1. 0 \in 0..n
      OBVIOUS
    <3> QED BY <1>2, <3>1, Zenon DEF Start
  <2>2. Clear(disk, <<>>) /\ <<>> \in Seq(STRING) /\ Len(<<>>) = 0
    BY DEF Clear
  <2>3. w[0] \in Walker /\ Clear(disk, w[0].at) /\ Len(w[0].at) <= 0
    BY <2>1, <2>2 DEF Walker
  <2> QED BY <1>1, <1>3, <2>3
<1>4. CASE m # 0
  <2>1. m \in 0..n /\ m - 1 \in 0..n /\ m - 1 \notin T
    BY <1>1, <1>4
  <2>2. w[m - 1] \in Walker /\ Clear(disk, w[m - 1].at) /\ Len(w[m - 1].at) <= m - 1
    BY <2>1
  <2>3. w[m] = Turn(disk, w[m - 1])
    BY <1>2, <1>4, <2>1
  <2>4. w[m] \in Walker /\ Clear(disk, w[m].at) /\ Len(w[m].at) <= Len(w[m - 1].at) + 1
    BY <2>2, <2>3, TurnIsClear
  <2>5. Len(w[m].at) \in Nat /\ Len(w[m - 1].at) \in Nat
    BY <2>2, <2>4 DEF Walker
  <2>6. Len(w[m].at) <= m
    BY <2>1, <2>2, <2>4, <2>5
  <2> QED BY <1>1, <2>4, <2>6
<1> QED BY <1>3, <1>4

\* A real path is clear of links, and within the kernel's limit.
LEMMA RealPathIsClear ==
  ASSUME NEW disk, Typed(disk), NEW p \in Seq(STRING)
  PROVE  RealPath(disk, p) # NoPath
           => Clear(disk, RealPath(disk, p)) /\ Len(RealPath(disk, p)) <= MaxSteps
<1>1. PICK w : Turns(disk, p, MaxSteps, w) /\ Walk(disk, p) = w[MaxSteps]
  BY WalkIsTurns
<1>2. MaxSteps \in Nat
  BY WalkAssumption
<1>3. \A k \in 0..MaxSteps : w[k] \in Walker /\ Clear(disk, w[k].at) /\ Len(w[k].at) <= k
  BY <1>1, <1>2, TurnsAreClear
<1>4. Walk(disk, p) \in Walker /\ Clear(disk, Walk(disk, p).at) /\ Len(Walk(disk, p).at) <= MaxSteps
  BY <1>1, <1>2, <1>3
<1> QED BY <1>4, Zenon DEF RealPath

\* Two disks with the same links: os.path.realpath goes the same way; and where they have
\* the same directories, too, so does the kernel.
SameLinks(disk, other) ==
  \A q : Node(disk, q).type = "link" \/ Node(other, q).type = "link" => Node(disk, q) = Node(other, q)
SameTypes(disk, other) == \A q : Node(disk, q).type = Node(other, q).type

LEMMA TurnOfSame ==
  ASSUME NEW disk, NEW other, SameLinks(disk, other), NEW walk \in Walker, NEW else \in Walker,
         walk.at = else.at, walk.rest = else.rest
  PROVE  /\ Turn(disk, walk).at = Turn(other, else).at /\ Turn(disk, walk).rest = Turn(other, else).rest
         /\ SameTypes(disk, other) /\ walk.real = else.real
              => Turn(disk, walk).real = Turn(other, else).real
<1> DEFINE next == Append(walk.at, Head(walk.rest))
           node == Node(disk, next)
           twin == Node(other, next)
<1>1. /\ walk = [at |-> walk.at, rest |-> walk.rest, real |-> walk.real]
      /\ else = [at |-> walk.at, rest |-> walk.rest, real |-> else.real]
  BY DEF Walker
<1>2. /\ node.type = "link" \/ twin.type = "link" => node = twin
      /\ SameTypes(disk, other) => node.type = twin.type
  BY DEF SameLinks, SameTypes
<1>3. CASE walk.rest = <<>>
  BY <1>3 DEF Turn
<1>4. CASE walk.rest # <<>> /\ Head(walk.rest) = ".."
  <2>1. /\ Turn(disk, walk) = [walk EXCEPT !.at = Up(walk.at), !.rest = Tail(walk.rest)]
        /\ Turn(other, else) = [else EXCEPT !.at = Up(walk.at), !.rest = Tail(walk.rest)]
    BY <1>4 DEF Turn
  <2> QED BY <1>1, <2>1 DEF Walker
<1>5. CASE walk.rest # <<>> /\ Head(walk.rest) # ".." /\ node.type = "link"
  <2> DEFINE from == IF node.absolute THEN <<>> ELSE walk.at
  <2>1. Turn(disk, walk) = [walk EXCEPT !.at = from, !.rest = node.names \o Tail(walk.rest)]
    BY <1>5 DEF Turn
  <2>2. Turn(other, else) = [else EXCEPT !.at = from, !.rest = node.names \o Tail(walk.rest)]
    BY <1>2, <1>5 DEF Turn
  <2> HIDE DEF from, node
  <2> QED BY <1>1, <2>1, <2>2 DEF Walker
<1>6. CASE walk.rest # <<>> /\ Head(walk.rest) # ".." /\ node.type # "link"
  <2>1. Turn(disk, walk) = [at |-> next, rest |-> Tail(walk.rest),
             real |-> walk.real /\ (Tail(walk.rest) = <<>> \/ node.type = "directory")]
    BY <1>6 DEF Turn
  <2>2. Turn(other, else) = [at |-> next, rest |-> Tail(walk.rest),
             real |-> else.real /\ (Tail(walk.rest) = <<>> \/ twin.type = "directory")]
    BY <1>2, <1>6 DEF Turn
  <2> HIDE DEF next, node, twin
  <2>3. /\ Turn(disk, walk).at = next /\ Turn(disk, walk).rest = Tail(walk.rest)
        /\ Turn(disk, walk).real = (walk.real /\ (Tail(walk.rest) = <<>> \/ node.type = "directory"))
    BY <2>1
  <2>4. /\ Turn(other, else).at = next /\ Turn(other, else).rest = Tail(walk.rest)
        /\ Turn(other, else).real = (else.real /\ (Tail(walk.rest) = <<>> \/ twin.type = "directory"))
    BY <2>2
  <2> QED BY <1>2, <2>3, <2>4
<1> QED BY <1>3, <1>4, <1>5, <1>6

LEMMA SameWalk ==
  ASSUME NEW disk, NEW other, Typed(disk), Typed(other), SameLinks(disk, other), NEW p \in Seq(STRING)
  PROVE  /\ RealPath(disk, p) = RealPath(other, p)
         /\ SameTypes(disk, other) => Behind(disk, p) = Behind(other, p)
<1>1. PICK w : Turns(disk, p, MaxSteps, w) /\ Walk(disk, p) = w[MaxSteps]
  BY WalkIsTurns
<1>2. PICK v : Turns(other, p, MaxSteps, v) /\ Walk(other, p) = v[MaxSteps]
  BY WalkIsTurns
<1>3. MaxSteps \in Nat
  BY WalkAssumption
<1>4. \A k \in 0..MaxSteps : w[k] \in Walker /\ v[k] \in Walker
  BY <1>1, <1>2, <1>3, TurnsAreClear
<1>5. \A k \in 0..MaxSteps : /\ w[k] = IF k = 0 THEN Start(p) ELSE Turn(disk, w[k - 1])
                             /\ v[k] = IF k = 0 THEN Start(p) ELSE Turn(other, v[k - 1])
  BY <1>1, <1>2 DEF Turns
<1> DEFINE Agree(k) == /\ w[k].at = v[k].at /\ w[k].rest = v[k].rest
                       /\ SameTypes(disk, other) => w[k].real = v[k].real
           T == {k \in 0..MaxSteps : ~Agree(k)}
<1>6. T = {}
  <2> SUFFICES ASSUME T # {} PROVE FALSE
    OBVIOUS
  <2>1. PICK m \in T : \A k \in T : m <= k
    <3>1. T \subseteq Nat
      OBVIOUS
    <3> HIDE DEF T
    <3> QED BY <3>1, FirstNumber
  <2>2. CASE m = 0
    BY <1>3, <1>5, <2>1, <2>2
  <2>3. CASE m # 0
    <3>1. m \in 0..MaxSteps /\ m - 1 \in 0..MaxSteps /\ m - 1 \notin T
      BY <1>3, <2>1, <2>3
    <3>2. Agree(m - 1)
      BY <3>1
    <3>3. w[m] = Turn(disk, w[m - 1]) /\ v[m] = Turn(other, v[m - 1])
      BY <1>5, <2>3, <3>1
    <3>4. w[m - 1] \in Walker /\ v[m - 1] \in Walker
      BY <1>4, <3>1
    <3>5. Agree(m)
      BY <3>2, <3>3, <3>4, TurnOfSame
    <3> QED BY <2>1, <3>5
  <2> QED BY <2>2, <2>3
<1>7. Agree(MaxSteps)
  BY <1>3, <1>6
<1>8. w[MaxSteps].real \in BOOLEAN /\ v[MaxSteps].real \in BOOLEAN
  BY <1>3, <1>4 DEF Walker
<1>9. RealPath(disk, p) = RealPath(other, p)
  BY <1>1, <1>2, <1>7 DEF RealPath
<1> QED BY <1>1, <1>2, <1>7, <1>9 DEF Behind

\* A path that no link is on leads where its names say.
AsNamed(disk, p, k) ==
  [at |-> SubSeq(p, 1, k), rest |-> SubSeq(p, k + 1, Len(p)),
   real |-> \A j \in 1..k : j < Len(p) => Node(disk, SubSeq(p, 1, j)).type = "directory"]

LEMMA TurnAhead ==
  ASSUME NEW disk, NEW p, Clear(disk, p), NEW k \in 1..Len(p)
  PROVE  Turn(disk, AsNamed(disk, p, k - 1)) = AsNamed(disk, p, k)
<1> DEFINE from == SubSeq(p, 1, k - 1)
           rest == SubSeq(p, k, Len(p))
           tail == SubSeq(p, k + 1, Len(p))
           next == SubSeq(p, 1, k)
           real(m) == \A j \in 1..m : j < Len(p) => Node(disk, SubSeq(p, 1, j)).type = "directory"
<1>1. p \in Seq(STRING) /\ p[k] # ".." /\ Node(disk, next).type # "link"
  BY DEF Clear
<1>2. k \in Nat /\ Len(p) \in Nat /\ k <= Len(p) /\ 1 <= k
  BY <1>1
<1>3. AsNamed(disk, p, k - 1) = [at |-> from, rest |-> rest, real |-> real(k - 1)]
  BY <1>2 DEF AsNamed
<1>4. Head(rest) = p[k] /\ Tail(rest) = tail
  BY <1>1, <1>2, HeadTailOfSubSeq
<1>5. rest # <<>>
  <2>1. Len(rest) = Len(p) - k + 1
    <3>1. \A i \in k..Len(p) : p[i] \in STRING
      BY <1>1, <1>2, LenProperties
    <3> QED BY <1>2, <3>1, SubSeqProperties
  <2>2. Len(rest) # 0
    BY <1>2, <2>1
  <2> QED BY <2>2, EmptySeq
<1>6. next = Append(from, p[k])
  BY <1>1, LastOfPrefix
<1>7. tail = <<>> <=> k = Len(p)
  <2>1. CASE k = Len(p)
    BY <1>2, <2>1, SubSeqEmpty
  <2>2. CASE k # Len(p)
    <3>1. \A i \in (k + 1)..Len(p) : p[i] \in STRING
      BY <1>1, <1>2, LenProperties
    <3>2. Len(tail) = Len(p) - k
      <4>1. k + 1 \in Int /\ Len(p) \in Int /\ k + 1 <= Len(p) /\ Len(p) - (k + 1) + 1 = Len(p) - k
        BY <1>2, <2>2
      <4> HIDE DEF from, rest, next
      <4> QED BY <3>1, <4>1, SubSeqProperties
    <3>3. Len(tail) # 0
      BY <1>2, <2>2, <3>2
    <3> QED BY <2>2, <3>3, EmptySeq
  <2> QED BY <2>1, <2>2
<1>8. real(k) <=> real(k - 1) /\ (k = Len(p) \/ Node(disk, next).type = "directory")
  <2>1. \A j \in Nat : j \in 1..k <=> j \in 1..(k - 1) \/ j = k
    BY <1>2
  <2>2. k < Len(p) <=> k # Len(p)
    BY <1>2
  <2> QED BY <1>2, <2>1, <2>2
<1>9. AsNamed(disk, p, k) = [at |-> next, rest |-> tail, real |-> real(k)]
  BY DEF AsNamed
<1> HIDE DEF from, rest, tail, next
<1>10. Turn(disk, [at |-> from, rest |-> rest, real |-> real(k - 1)]) =
         [at |-> next, rest |-> tail, real |-> real(k - 1) /\ (tail = <<>> \/ Node(disk, next).type = "directory")]
  <2> DEFINE was == real(k - 1)
             walk == [at |-> from, rest |-> rest, real |-> was]
  <2> HIDE DEF real
  <2>1. walk.at = from /\ walk.rest = rest /\ walk.real = was
    OBVIOUS
  <2> HIDE DEF was, walk
  <2>2. Turn(disk, walk) = [at |-> next, rest |-> tail, real |-> was /\ (tail = <<>> \/ Node(disk, next).type = "directory")]
    BY <1>1, <1>4, <1>5, <1>6, <2>1 DEF Turn
  <2> QED BY <2>2 DEF was, walk
<1> HIDE DEF real
<1>11. (real(k - 1) /\ (tail = <<>> \/ Node(disk, next).type = "directory")) = real(k)
  <2>1. real(k) \in BOOLEAN
    BY DEF real
  <2> QED BY <1>7, <1>8, <2>1
<1> QED BY <1>3, <1>9, <1>10, <1>11, Zenon

LEMMA ClearIsStraight ==
  ASSUME NEW disk, NEW p, Clear(disk, p), Len(p) <= MaxSteps
  PROVE  /\ RealPath(disk, p) = p
         /\ Behind(disk, p) = IF \A j \in 1..(Len(p) - 1) : Node(disk, SubSeq(p, 1, j)).type = "directory"
                              THEN p ELSE NoPath
<1>1. PICK w : Turns(disk, p, MaxSteps, w) /\ Walk(disk, p) = w[MaxSteps]
  BY WalkIsTurns
<1>2. p \in Seq(STRING) /\ Len(p) \in Nat /\ MaxSteps \in Nat
  BY WalkAssumption DEF Clear
<1>3. \A k \in 0..MaxSteps : w[k] = IF k = 0 THEN Start(p) ELSE Turn(disk, w[k - 1])
  BY <1>1 DEF Turns
<1> DEFINE there(k) == IF k <= Len(p) THEN k ELSE Len(p)
           T == {k \in 0..MaxSteps : w[k] # AsNamed(disk, p, there(k))}
<1>4. SubSeq(p, Len(p) + 1, Len(p)) = <<>> /\ SubSeq(p, 1, 0) = <<>> /\ SubSeq(p, 1, Len(p)) = p
  BY <1>2, SubSeqEmpty, SubSeqFull
<1>5. T = {}
  <2> SUFFICES ASSUME T # {} PROVE FALSE
    OBVIOUS
  <2>1. PICK m \in T : \A k \in T : m <= k
    <3>1. T \subseteq Nat
      OBVIOUS
    <3> HIDE DEF T
    <3> QED BY <3>1, FirstNumber
  <2>2. CASE m = 0
    <3>1. w[0] = Start(p)
      BY <1>2, <1>3
    <3>2. AsNamed(disk, p, 0) = [at |-> <<>>, rest |-> p, real |-> TRUE]
      <4>1. (\A j \in 1..0 : j < Len(p) => Node(disk, SubSeq(p, 1, j)).type = "directory") = TRUE
        OBVIOUS
      <4>2. SubSeq(p, 0 + 1, Len(p)) = p
        <5>1. 0 + 1 = 1
          OBVIOUS
        <5> QED BY <1>4, <5>1, Zenon
      <4> QED BY <1>4, <4>1, <4>2, Zenon DEF AsNamed
    <3>3. there(0) = 0
      BY <1>2
    <3> QED BY <2>1, <2>2, <3>1, <3>2, <3>3 DEF Start
  <2>3. CASE m # 0
    <3>1. m \in 0..MaxSteps /\ m - 1 \in 0..MaxSteps /\ m - 1 \notin T
      BY <1>2, <2>1, <2>3
    <3>2. w[m - 1] = AsNamed(disk, p, there(m - 1)) /\ w[m] = Turn(disk, w[m - 1])
      BY <1>3, <2>3, <3>1
    <3>3. CASE m <= Len(p)
      <4>1. there(m - 1) = m - 1 /\ there(m) = m /\ m \in 1..Len(p)
        BY <1>2, <2>3, <3>1, <3>3
      <4>2. w[m] = AsNamed(disk, p, m)
        BY <3>2, <4>1, TurnAhead
      <4> QED BY <2>1, <4>1, <4>2
    <3>4. CASE ~(m <= Len(p))
      <4>1. there(m - 1) = Len(p) /\ there(m) = Len(p)
        BY <1>2, <2>3, <3>1, <3>4
      <4>2. AsNamed(disk, p, Len(p)).rest = <<>>
        BY <1>4 DEF AsNamed
      <4>3. Turn(disk, AsNamed(disk, p, Len(p))) = AsNamed(disk, p, Len(p))
        BY <4>2 DEF Turn
      <4> QED BY <2>1, <3>2, <4>1, <4>3
    <3> QED BY <3>3, <3>4
  <2> QED BY <2>2, <2>3
<1>6. Walk(disk, p) = AsNamed(disk, p, Len(p))
  <2>1. MaxSteps \in 0..MaxSteps /\ there(MaxSteps) = Len(p)
    BY <1>2
  <2> QED BY <1>1, <1>5, <2>1
<1> DEFINE dirs == \A j \in 1..Len(p) : j < Len(p) => Node(disk, SubSeq(p, 1, j)).type = "directory"
<1>7. Walk(disk, p) = [at |-> p, rest |-> <<>>, real |-> dirs]
  BY <1>4, <1>6 DEF AsNamed
<1>8. dirs <=> \A j \in 1..(Len(p) - 1) : Node(disk, SubSeq(p, 1, j)).type = "directory"
  BY <1>2
<1>9. RealPath(disk, p) = p
  BY <1>7 DEF RealPath
<1>10. Behind(disk, p) = IF dirs THEN p ELSE NoPath
  <2> HIDE DEF dirs
  <2> QED BY <1>7, <1>9 DEF Behind
<1> HIDE DEF dirs
<1> QED BY <1>8, <1>9, <1>10

-------------------------------------------------------------------------------
(* os.path.normpath *)

Norms(p, n, f) == f = [k \in 0..n |-> IF k = 0 THEN <<>> ELSE IF p[k] = ".." THEN Up(f[k - 1]) ELSE Append(f[k - 1], p[k])]

\* The names of a path can be gone through one by one, however long it is.
LEMMA NormsExist == ASSUME NEW p, NEW n \in Nat PROVE \E f : Norms(p, n, f)
<1> DEFINE More(before, k) == IF p[k] = ".." THEN Up(before) ELSE Append(before, p[k])
           T == {k \in Nat : ~ \E f : Norms(p, k, f)}
<1> SUFFICES ASSUME T # {} PROVE FALSE
  OBVIOUS
<1>1. PICK m \in T : \A k \in T : m <= k
  <2>1. T \subseteq Nat
    OBVIOUS
  <2> HIDE DEF T
  <2> QED BY <2>1, FirstNumber
<1>2. m \in Nat /\ ~ \E f : Norms(p, m, f)
  BY <1>1
<1>0. ASSUME NEW f, NEW k \in Nat, f = [j \in 0..k |-> IF j = 0 THEN <<>> ELSE More(f[j - 1], j)]
      PROVE  Norms(p, k, f)
  BY <1>0, Zenon DEF Norms
<1>3. CASE m = 0
  <2> DEFINE w == [k \in 0..0 |-> <<>>]
  <2>1. w = [k \in 0..0 |-> IF k = 0 THEN <<>> ELSE More(w[k - 1], k)]
    OBVIOUS
  <2> QED BY <1>0, <1>2, <1>3, <2>1
<1>4. CASE m # 0
  <2>1. m - 1 \in Nat /\ m - 1 \notin T
    BY <1>1, <1>2, <1>4
  <2>2. PICK u : Norms(p, m - 1, u)
    BY <2>1
  <2> DEFINE w == [k \in 0..m |-> IF k = m THEN More(u[m - 1], m) ELSE u[k]]
  <2>3. \A k \in 0..(m - 1) : u[k] = IF k = 0 THEN <<>> ELSE More(u[k - 1], k)
    BY <2>1, <2>2 DEF Norms
  <2> HIDE DEF More, T
  <2>4. \A k \in 0..m : w[k] = IF k = 0 THEN <<>> ELSE More(w[k - 1], k)
    <3> SUFFICES ASSUME NEW k \in 0..m PROVE w[k] = IF k = 0 THEN <<>> ELSE More(w[k - 1], k)
      OBVIOUS
    <3>1. CASE k = m
      <4>1. w[k] = More(u[m - 1], m) /\ w[k - 1] = u[m - 1]
        BY <1>2, <1>4, <3>1
      <4> QED BY <1>4, <3>1, <4>1
    <3>2. CASE k # m /\ k # 0
      <4>1. w[k] = u[k] /\ w[k - 1] = u[k - 1] /\ k \in 0..(m - 1)
        BY <1>2, <3>2
      <4> QED BY <2>3, <3>2, <4>1
    <3>3. CASE k # m /\ k = 0
      <4>1. w[k] = u[k] /\ k \in 0..(m - 1)
        BY <1>2, <3>3
      <4> QED BY <2>3, <3>3, <4>1
    <3> QED BY <3>1, <3>2, <3>3
  <2> DEFINE v == [k \in 0..m |-> IF k = 0 THEN <<>> ELSE More(w[k - 1], k)]
  <2>5. DOMAIN w = 0..m /\ DOMAIN v = 0..m /\ \A k \in 0..m : w[k] = v[k]
    BY <2>4
  <2>6. w = v
    <3>1. w = [k \in DOMAIN w |-> w[k]] /\ v = [k \in DOMAIN v |-> v[k]]
      OBVIOUS
    <3> HIDE DEF w, v
    <3> QED BY <2>5, <3>1
  <2> HIDE DEF w
  <2> QED BY <1>0, <1>2, <2>6
<1> QED BY <1>3, <1>4

\* One name less is a path.
LEMMA UpIsPath == ASSUME NEW p \in Seq(STRING) PROVE Up(p) \in Seq(STRING)
<1>1. CASE p = <<>>
  BY <1>1 DEF Up
<1>2. CASE p # <<>>
  <2>1. Len(p) - 1 \in 0..Len(p)
    <3>1. Len(p) \in Nat /\ Len(p) # 0
      BY <1>2, EmptySeq
    <3> QED BY <3>1
  <2> QED BY <1>2, <2>1, Beginnings DEF Up, Front
<1> QED BY <1>1, <1>2

\* os.path.normpath of a path is a path.
LEMMA NormPathIsPath == ASSUME NEW p \in Seq(STRING) PROVE NormPath(p) \in Seq(STRING)
<1> DEFINE done == CHOOSE f : f = [n \in 0..Len(p) |->
                     IF n = 0 THEN <<>> ELSE IF p[n] = ".." THEN Up(f[n - 1]) ELSE Append(f[n - 1], p[n])]
<1>1. Len(p) \in Nat /\ \A k \in 1..Len(p) : p[k] \in STRING
  BY LenProperties
<1>2. PICK f : Norms(p, Len(p), f)
  BY <1>1, NormsExist
<1>3. Norms(p, Len(p), done)
  <2>1. f = [n \in 0..Len(p) |->
               IF n = 0 THEN <<>> ELSE IF p[n] = ".." THEN Up(f[n - 1]) ELSE Append(f[n - 1], p[n])]
    BY <1>2, Zenon DEF Norms
  <2>2. done = [n \in 0..Len(p) |->
               IF n = 0 THEN <<>> ELSE IF p[n] = ".." THEN Up(done[n - 1]) ELSE Append(done[n - 1], p[n])]
    BY <2>1, Zenon
  <2> QED BY <2>2, Zenon DEF Norms
<1>4. NormPath(p) = IF ".." \in ToSet(p) THEN done[Len(p)] ELSE p
  BY Zenon DEF NormPath
<1> HIDE DEF done
<1>5. \A k \in 0..Len(p) :
        done[k] = IF k = 0 THEN <<>> ELSE IF p[k] = ".." THEN Up(done[k - 1]) ELSE Append(done[k - 1], p[k])
  BY <1>3 DEF Norms
<1> DEFINE T == {k \in 0..Len(p) : done[k] \notin Seq(STRING)}
<1>6. T = {}
  <2> SUFFICES ASSUME T # {} PROVE FALSE
    OBVIOUS
  <2>1. PICK m \in T : \A k \in T : m <= k
    <3>1. T \subseteq Nat
      BY <1>1
    <3> HIDE DEF T
    <3> QED BY <3>1, FirstNumber
  <2>2. CASE m = 0
    <3>1. 0 \in 0..Len(p) /\ <<>> \in Seq(STRING)
      BY <1>1
    <3>2. done[0] = <<>>
      BY <1>5, <3>1
    <3> QED BY <2>1, <2>2, <3>1, <3>2
  <2>3. CASE m # 0
    <3>1. m \in 1..Len(p) /\ m - 1 \in 0..Len(p) /\ m - 1 \notin T /\ m \in 0..Len(p)
      BY <1>1, <2>1, <2>3
    <3>2. done[m - 1] \in Seq(STRING) /\ p[m] \in STRING
      BY <1>1, <3>1
    <3>3. Up(done[m - 1]) \in Seq(STRING) /\ Append(done[m - 1], p[m]) \in Seq(STRING)
      BY <3>2, UpIsPath, AppendProperties
    <3>4. done[m] \in Seq(STRING)
      BY <1>5, <2>3, <3>1, <3>3
    <3> QED BY <2>1, <3>4
  <2> QED BY <2>2, <2>3
<1>7. done[Len(p)] \in Seq(STRING)
  BY <1>1, <1>6
<1> QED BY <1>4, <1>7

\* A clear path is a normal one, and no path to nowhere.
LEMMA ClearIsNormal ==
  ASSUME NEW disk, NEW p, Clear(disk, p) PROVE NormPath(p) = p /\ p # NoPath
<1>1. p \in Seq(STRING) /\ \A i \in 1..Len(p) : p[i] # ".."
  BY DEF Clear
<1>2. ".." \notin ToSet(p)
  BY <1>1, LenProperties DEF ToSet
<1>3. p # NoPath
  <2>1. Len(NoPath) = 1 /\ NoPath[1] = ".."
    BY DEF NoPath
  <2> QED BY <1>1, <2>1
<1> QED BY <1>2, <1>3 DEF NormPath

-------------------------------------------------------------------------------
(* One place changes *)

\* A look that finds something has looked at one location, in a real directory.
LEMMA LookIsSomewhere ==
  ASSUME NEW disk, Typed(disk), NEW p
  PROVE  /\ LStat(disk, p).type = "missing" => LStat(disk, p) = Missing
         /\ LStat(disk, p) # Missing /\ p # <<>> =>
              /\ p # NoPath /\ Behind(disk, Front(p)) = RealPath(disk, Front(p)) /\ Behind(disk, Front(p)) # NoPath
              /\ Node(disk, RealPath(disk, Front(p))).type = "directory"
              /\ LStat(disk, p) = Node(disk, Append(RealPath(disk, Front(p)), Last(p)))
BY NodesAreNamed DEF LStat, Behind

\* What is above a file on two disks.
KeptOn(disk, other, way) ==
  \A n \in 1..Len(way) :
    /\ RealPath(disk, SubSeq(way, 1, n)) = RealPath(other, SubSeq(way, 1, n))
    /\ LStat(disk, SubSeq(way, 1, n)).type = LStat(other, SubSeq(way, 1, n)).type

SameBut(disk, other, place) == \A q : q # place => Node(disk, q) = Node(other, q)

\* The root leads to itself.
LEMMA RootIsReal == ASSUME NEW disk PROVE RealPath(disk, <<>>) = <<>> /\ Behind(disk, <<>>) = <<>>
<1>1. Clear(disk, <<>>) /\ Len(<<>>) = 0 /\ 0 <= MaxSteps
  BY WalkAssumption DEF Clear
<1>2. \A j \in 1..(Len(<<>>) - 1) : Node(disk, SubSeq(<<>>, 1, j)).type = "directory"
  BY <1>1
<1> QED BY <1>1, <1>2, ClearIsStraight

\* A look above the file differs on the two only where the place is what it looks at.
LEMMA AboveAgrees ==
  ASSUME NEW disk, NEW other, Typed(disk), Typed(other), NEW place, SameBut(disk, other, place),
         NEW way \in Seq(STRING), KeptOn(disk, other, way), NEW n \in 1..Len(way)
  PROVE  LET above == SubSeq(way, 1, n) IN
         /\ LStat(disk, above).type = LStat(other, above).type
         /\ \/ LStat(disk, above) = LStat(other, above)
            \/ /\ LStat(disk, above) = Node(disk, place) /\ LStat(other, above) = Node(other, place)
<1> DEFINE above == SubSeq(way, 1, n)
           up == SubSeq(way, 1, n - 1)
<1>1. LStat(disk, above).type = LStat(other, above).type
  BY DEF KeptOn
<1>2. above # <<>> /\ Front(above) = up
  BY LastOfPrefix
<1>3. RealPath(disk, up) = RealPath(other, up)
  <2>1. CASE n = 1
    <3>1. up = <<>>
      BY <2>1, SubSeqEmpty
    <3> QED BY <3>1, RootIsReal
  <2>2. CASE n # 1
    <3>1. n - 1 \in 1..Len(way)
      BY <2>2
    <3> QED BY <3>1 DEF KeptOn
  <2> QED BY <2>1, <2>2
<1> HIDE DEF above, up
<1>4. CASE LStat(disk, above) = Missing \/ LStat(other, above) = Missing
  <2>1. LStat(disk, above).type = "missing" /\ LStat(other, above).type = "missing"
    BY <1>1, <1>4 DEF Missing
  <2>2. LStat(disk, above) = LStat(other, above)
    BY <2>1, LookIsSomewhere
  <2> QED BY <1>1, <2>2 DEF above
<1>5. CASE LStat(disk, above) # Missing /\ LStat(other, above) # Missing
  <2> DEFINE location == Append(RealPath(disk, up), Last(above))
  <2>1. LStat(disk, above) = Node(disk, location) /\ LStat(other, above) = Node(other, location)
    BY <1>2, <1>3, <1>5, LookIsSomewhere
  <2> HIDE DEF location
  <2>2. location = place \/ Node(disk, location) = Node(other, location)
    BY DEF SameBut
  <2> QED BY <1>1, <2>1, <2>2 DEF above
<1> QED BY <1>4, <1>5

\* A chain of ancestors stays admissible if the place did not become a directory open to all, ...
LEMMA NotRejectedToo ==
  ASSUME NEW disk, NEW other, Typed(disk), Typed(other), NEW place, SameBut(disk, other, place),
         NEW way \in Seq(STRING), KeptOn(disk, other, way),
         ~Rejected(disk, way), Node(other, place) # Directory(TRUE) \/ Node(other, place) = Node(disk, place)
  PROVE  ~Rejected(other, way)
<1> SUFFICES ASSUME NEW n \in 1..Len(way)
             PROVE  LStat(other, SubSeq(way, 1, n)) # Missing /\ LStat(other, SubSeq(way, 1, n)) # Directory(TRUE)
  BY DEF Rejected
<1> DEFINE above == SubSeq(way, 1, n)
<1>1. /\ LStat(disk, above).type = LStat(other, above).type
      /\ \/ LStat(disk, above) = LStat(other, above)
         \/ LStat(disk, above) = Node(disk, place) /\ LStat(other, above) = Node(other, place)
  BY AboveAgrees
<1>2. LStat(disk, above) # Missing /\ LStat(disk, above) # Directory(TRUE)
  BY DEF Rejected
<1> HIDE DEF above
<1>3. LStat(other, above) # Missing
  BY <1>1, <1>2, LookIsSomewhere DEF Missing
<1>4. LStat(other, above) # Directory(TRUE)
  BY <1>1, <1>2
<1> QED BY <1>3, <1>4 DEF above

\* ... and is as admissible as it was if it is not a directory on both.
LEMMA RejectedAlike ==
  ASSUME NEW disk, NEW other, Typed(disk), Typed(other), NEW place, SameBut(disk, other, place),
         NEW way \in Seq(STRING), KeptOn(disk, other, way),
         Node(disk, place).type # "directory" \/ Node(other, place).type # "directory"
  PROVE  Rejected(disk, way) <=> Rejected(other, way)
<1>1. ASSUME NEW n \in 1..Len(way)
      PROVE  /\ LStat(disk, SubSeq(way, 1, n)) = Missing <=> LStat(other, SubSeq(way, 1, n)) = Missing
             /\ LStat(disk, SubSeq(way, 1, n)) = Directory(TRUE) <=> LStat(other, SubSeq(way, 1, n)) = Directory(TRUE)
  <2> DEFINE above == SubSeq(way, 1, n)
  <2>1. /\ LStat(disk, above).type = LStat(other, above).type
        /\ \/ LStat(disk, above) = LStat(other, above)
           \/ LStat(disk, above) = Node(disk, place) /\ LStat(other, above) = Node(other, place)
    BY AboveAgrees
  <2> HIDE DEF above
  <2>2. LStat(disk, above) = Missing <=> LStat(other, above) = Missing
    BY <2>1, LookIsSomewhere DEF Missing
  <2>3. LStat(disk, above) = Directory(TRUE) <=> LStat(other, above) = Directory(TRUE)
    BY <2>1 DEF Directory
  <2> QED BY <2>2, <2>3 DEF above
<1> QED BY <1>1 DEF Rejected

\* A clear path to a file that was seen there: what changed is no directory on the way.
LEMMA ChangedIsNotAbove ==
  ASSUME NEW place, NEW p, NEW D, NEW origin \in D, NEW looked \in D, NEW lexical \in D, NEW odd \in D,
         \A disk \in D : Typed(disk),
         \A disk, other \in D : SameBut(disk, other, place) /\ KeptOn(disk, other, Front(p)),
         Clear(origin, p), Len(p) <= MaxSteps, p # <<>>,
         LStat(looked, p) # Missing, ~Rejected(lexical, Front(p)), Node(odd, place).type # "directory",
         NEW n \in 1..(Len(p) - 1), SubSeq(p, 1, n) = place
  PROVE  FALSE
<1> DEFINE up == SubSeq(p, 1, n - 1)
           way == SubSeq(p, 1, Len(p) - 1)
<1>1. /\ p \in Seq(STRING) /\ Len(p) \in Nat /\ MaxSteps \in Nat /\ n \in Nat /\ 1 <= n /\ n < Len(p)
      /\ n - 1 \in 0..Len(p) /\ Len(p) - 1 \in 0..Len(p) /\ Len(p) \in 0..Len(p)
  BY WalkAssumption DEF Clear
<1>2. /\ way \in Seq(STRING) /\ Len(way) = Len(p) - 1 /\ way = Front(p)
      /\ \A k \in 0..(Len(p) - 1) : SubSeq(way, 1, k) = SubSeq(p, 1, k)
  BY <1>1, Beginnings DEF Front
<1>3. \A k \in 0..Len(p) : Len(SubSeq(p, 1, k)) = k
  BY <1>1, Beginnings
<1>0. ASSUME NEW q, q # place, NEW disk \in D, NEW other \in D PROVE Node(disk, q) = Node(other, q)
  <2>1. SameBut(disk, other, place)
    OBVIOUS
  <2> QED BY <1>0, <2>1 DEF SameBut
<1>4. \A k \in 1..Len(p), disk, other \in D : k # n => Node(disk, SubSeq(p, 1, k)) = Node(other, SubSeq(p, 1, k))
  <2> SUFFICES ASSUME NEW k \in 1..Len(p), NEW disk \in D, NEW other \in D, k # n
               PROVE  Node(disk, SubSeq(p, 1, k)) = Node(other, SubSeq(p, 1, k))
    OBVIOUS
  <2>1. SubSeq(p, 1, k) # place
    <3>1. Len(SubSeq(p, 1, k)) = k /\ Len(place) = n
      BY <1>1, <1>3
    <3> QED BY <3>1, Zenon
  <2> DEFINE q == SubSeq(p, 1, k)
  <2> HIDE DEF q
  <2>2. q # place
    BY <2>1, Zenon DEF q
  <2>3. Node(disk, q) = Node(other, q)
    BY <1>0, <2>2
  <2> QED BY <2>3, Zenon DEF q
<1>5. \A disk \in D : RealPath(disk, up) = up /\ Behind(disk, up) = Behind(looked, up) /\ Node(disk, up) = Node(looked, up)
  <2>1. /\ up \in Seq(STRING) /\ Len(up) = n - 1 /\ \A i \in 1..(n - 1) : up[i] = p[i]
        /\ \A k \in 0..(n - 1) : SubSeq(up, 1, k) = SubSeq(p, 1, k)
    BY <1>1, Beginnings
  <2>2. \A k \in 1..(n - 1) : k \in 1..Len(p) /\ k # n /\ k \in 0..(n - 1)
    BY <1>1
  <2>3. \A disk \in D, k \in 1..Len(up) : Node(disk, SubSeq(up, 1, k)) = Node(looked, SubSeq(up, 1, k))
                                            /\ Node(disk, SubSeq(up, 1, k)).type # "link"
    <3> SUFFICES ASSUME NEW disk \in D, NEW k \in 1..Len(up)
                 PROVE  Node(disk, SubSeq(up, 1, k)) = Node(looked, SubSeq(up, 1, k))
                        /\ Node(disk, SubSeq(up, 1, k)).type # "link"
      OBVIOUS
    <3>1. k \in 1..Len(p) /\ k # n /\ SubSeq(up, 1, k) = SubSeq(p, 1, k)
      BY <2>1, <2>2
    <3>2. Node(origin, SubSeq(p, 1, k)).type # "link"
      BY <3>1 DEF Clear
    <3> QED BY <1>4, <3>1, <3>2
  <2>4. \A disk \in D : Clear(disk, up)
    BY <1>1, <2>1, <2>2, <2>3 DEF Clear
  <2>5. Len(up) <= MaxSteps
    BY <1>1, <2>1
  <2>6. \A disk \in D : Node(disk, up) = Node(looked, up)
    <3>1. CASE n = 1
      <4>1. up = <<>>
        BY <3>1, SubSeqEmpty
      <4> QED BY <4>1 DEF Node
    <3>2. CASE n # 1
      <4>1. n - 1 \in 1..Len(p) /\ n - 1 # n
        BY <1>1, <3>2
      <4> QED BY <1>4, <4>1
    <3> QED BY <3>1, <3>2
  <2>7. \A j \in 1..(Len(up) - 1) : j \in 1..Len(up)
    BY <2>1
  <2> HIDE DEF up
  <2> SUFFICES ASSUME NEW disk \in D
               PROVE  RealPath(disk, up) = up /\ Behind(disk, up) = Behind(looked, up) /\ Node(disk, up) = Node(looked, up)
    OBVIOUS
  <2>8. /\ RealPath(disk, up) = up
        /\ Behind(disk, up) = IF \A j \in 1..(Len(up) - 1) : Node(disk, SubSeq(up, 1, j)).type = "directory"
                              THEN up ELSE NoPath
        /\ Behind(looked, up) = IF \A j \in 1..(Len(up) - 1) : Node(looked, SubSeq(up, 1, j)).type = "directory"
                              THEN up ELSE NoPath
    BY <2>4, <2>5, ClearIsStraight
  <2> QED BY <2>3, <2>6, <2>7, <2>8
<1>6. Front(place) = up /\ place # <<>> /\ place = Append(up, Last(place)) /\ place # NoPath
  <2>1. n \in 1..Len(p) /\ n \in 0..Len(p)
    BY <1>1
  <2>2. Clear(origin, place)
    BY <2>1, ClearPrefix
  <2>3. place # NoPath
    BY <2>2, ClearIsNormal
  <2>4. /\ Front(SubSeq(p, 1, n)) = up /\ Last(SubSeq(p, 1, n)) = p[n]
        /\ SubSeq(p, 1, n) # <<>> /\ SubSeq(p, 1, n) = Append(up, p[n])
    BY <1>1, <2>1, LastOfPrefix
  <2> HIDE DEF up
  <2> QED BY <2>3, <2>4
<1>7. SubSeq(way, 1, n) = place /\ n \in 1..Len(way)
  BY <1>1, <1>2
<1>8. LStat(lexical, place) # Missing
  BY <1>2, <1>7 DEF Rejected
<1> HIDE DEF up
<1>9. \A disk \in D : LStat(disk, place) = Node(disk, place)
  <2>1. Behind(lexical, up) # NoPath /\ Node(lexical, up).type = "directory"
    BY <1>5, <1>6, <1>8, LookIsSomewhere
  <2>2. \A disk \in D : Behind(disk, up) = up /\ Behind(disk, up) # NoPath /\ Node(disk, up).type = "directory"
    BY <1>5, <2>1 DEF Behind
  <2> QED BY <1>6, <2>2 DEF LStat
<1>10. \A disk, other \in D : Node(disk, place).type = Node(other, place).type
  <2> HIDE DEF way
  <2> SUFFICES ASSUME NEW disk \in D, NEW other \in D PROVE Node(disk, place).type = Node(other, place).type
    OBVIOUS
  <2>1. KeptOn(disk, other, way)
    BY <1>2
  <2>2. LStat(disk, place).type = LStat(other, place).type
    BY <1>7, <2>1 DEF KeptOn
  <2> QED BY <1>9, <2>2
<1>11. Clear(looked, way) /\ Len(way) <= MaxSteps
  <2>1. /\ Clear(origin, way) /\ \A k \in 1..Len(way) : k \in 1..Len(p) /\ SubSeq(way, 1, k) = SubSeq(p, 1, k)
    <3>1. \A k \in 1..Len(way) : k \in 1..Len(p) /\ SubSeq(way, 1, k) = SubSeq(p, 1, k)
      BY <1>1, <1>2
    <3> QED BY <1>1, <3>1, ClearPrefix
  <2>2. \A k \in 1..Len(way) : Node(looked, SubSeq(way, 1, k)).type = Node(origin, SubSeq(way, 1, k)).type
    <3> SUFFICES ASSUME NEW k \in 1..Len(way)
                 PROVE  Node(looked, SubSeq(way, 1, k)).type = Node(origin, SubSeq(way, 1, k)).type
      OBVIOUS
    <3> DEFINE q == SubSeq(way, 1, k)
    <3> HIDE DEF q
    <3>1. CASE q = place
      BY <1>10, <3>1 DEF q
    <3>2. CASE q # place
      <4>1. Node(looked, q) = Node(origin, q)
        BY <1>0, <3>2
      <4> QED BY <4>1 DEF q
    <3> QED BY <3>1, <3>2
  <2>3. \A k \in 1..Len(way) : Node(looked, SubSeq(way, 1, k)).type # "link"
    BY <2>1, <2>2 DEF Clear
  <2> HIDE DEF way
  <2>4. Clear(looked, way)
    BY <2>1, <2>3 DEF Clear
  <2> QED BY <1>1, <1>2, <2>4
<1> HIDE DEF way
<1>12. Behind(looked, way) # NoPath /\ Node(looked, way).type = "directory"
  <2>1. RealPath(looked, way) = way
    BY <1>11, ClearIsStraight
  <2> QED BY <1>2, <2>1, LookIsSomewhere
<1>13. Node(looked, place).type = "directory"
  <2>1. CASE n = Len(way)
    <3>1. SubSeq(way, 1, n) = way
      BY <1>2, <2>1, SubSeqFull
    <3> QED BY <1>7, <1>12, <3>1
  <2>2. CASE n # Len(way)
    <3>1. n \in 1..(Len(way) - 1)
      BY <1>1, <1>2, <1>7, <2>2
    <3>2. \A j \in 1..(Len(way) - 1) : Node(looked, SubSeq(way, 1, j)).type = "directory"
      BY <1>11, <1>12, ClearIsStraight
    <3> QED BY <1>7, <3>1, <3>2
  <2> QED BY <2>1, <2>2
<1> QED BY <1>10, <1>13

\* A clear path to a file that was seen there, with nothing changed on the way: a look
\* at it sees what lies there.
LEMMA LookIsThere ==
  ASSUME NEW place, NEW p, NEW origin, NEW looked, Typed(origin), Typed(looked),
         SameBut(origin, looked, place), Clear(origin, p), Len(p) <= MaxSteps, p # <<>>, LStat(looked, p) # Missing,
         \A n \in 1..(Len(p) - 1) : SubSeq(p, 1, n) # place
  PROVE  LStat(origin, p) = Node(origin, p) /\ LStat(looked, p) = Node(looked, p)
<1> DEFINE way == SubSeq(p, 1, Len(p) - 1)
           D == {origin, looked}
<1>1. /\ p \in Seq(STRING) /\ Len(p) \in Nat /\ MaxSteps \in Nat /\ Len(p) # 0
      /\ Len(p) - 1 \in 0..Len(p) /\ Len(p) \in 1..Len(p)
  <2>1. p \in Seq(STRING) /\ Len(p) \in Nat /\ MaxSteps \in Nat
    BY WalkAssumption DEF Clear
  <2>2. Len(p) # 0
    BY <2>1, EmptySeq
  <2> QED BY <2>1, <2>2
<1>2. /\ way \in Seq(STRING) /\ Len(way) = Len(p) - 1 /\ way = Front(p)
      /\ \A k \in 0..(Len(p) - 1) : SubSeq(way, 1, k) = SubSeq(p, 1, k)
  BY <1>1, Beginnings DEF Front
<1>3. p = Append(way, Last(p)) /\ p # NoPath
  <2>1. SubSeq(p, 1, Len(p)) = p
    BY <1>1, SubSeqFull
  <2>2. SubSeq(p, 1, Len(p)) = Append(SubSeq(p, 1, Len(p) - 1), p[Len(p)])
    BY <1>1, LastOfPrefix
  <2>3. p # NoPath
    BY ClearIsNormal
  <2> QED BY <2>1, <2>2, <2>3 DEF Last
<1>4. \A k \in 1..Len(way) : Node(looked, SubSeq(way, 1, k)) = Node(origin, SubSeq(way, 1, k))
  <2> SUFFICES ASSUME NEW k \in 1..Len(way)
               PROVE  Node(looked, SubSeq(way, 1, k)) = Node(origin, SubSeq(way, 1, k))
    OBVIOUS
  <2>1. k \in 1..(Len(p) - 1) /\ SubSeq(way, 1, k) = SubSeq(p, 1, k)
    BY <1>1, <1>2
  <2> QED BY <2>1 DEF SameBut
<1>5. Clear(origin, way)
  BY <1>1, ClearPrefix
<1> HIDE DEF way
<1>6. Clear(looked, way)
  BY <1>4, <1>5 DEF Clear
<1>7. Len(way) <= MaxSteps
  BY <1>1, <1>2
<1>8. RealPath(looked, way) = way /\ RealPath(origin, way) = way /\ Behind(origin, way) = Behind(looked, way)
  <2>1. /\ RealPath(looked, way) = way /\ RealPath(origin, way) = way
        /\ Behind(looked, way) = IF \A j \in 1..(Len(way) - 1) : Node(looked, SubSeq(way, 1, j)).type = "directory"
                                 THEN way ELSE NoPath
        /\ Behind(origin, way) = IF \A j \in 1..(Len(way) - 1) : Node(origin, SubSeq(way, 1, j)).type = "directory"
                                 THEN way ELSE NoPath
    BY <1>5, <1>6, <1>7, ClearIsStraight
  <2>2. \A j \in 1..(Len(way) - 1) : j \in 1..Len(way)
    BY <1>2, <1>1
  <2> QED BY <1>4, <2>1, <2>2
<1>9. Node(looked, way) = Node(origin, way)
  <2>1. CASE Len(way) = 0
    <3>1. way = <<>>
      BY <1>2, <2>1, EmptySeq
    <3> QED BY <3>1 DEF Node
  <2>2. CASE Len(way) # 0
    <3>1. Len(way) \in 1..Len(way) /\ SubSeq(way, 1, Len(way)) = way
      BY <1>1, <1>2, <2>2, SubSeqFull
    <3> QED BY <1>4, <3>1
  <2> QED BY <2>1, <2>2
<1>10. Behind(looked, way) = way /\ Behind(looked, way) # NoPath /\ Node(looked, way).type = "directory"
  BY <1>2, <1>8, LookIsSomewhere
<1> QED BY <1>2, <1>3, <1>8, <1>9, <1>10 DEF LStat

\* A path of one name is its own beginning.
LEMMA OneName == ASSUME NEW x PROVE SubSeq(<<x>>, 1, 1) = <<x>> /\ 1 \in 1..Len(<<x>>) /\ <<x>> # <<>>
<1> DEFINE s == <<x>>
<1>1. s \in Seq({x}) /\ Len(s) = 1
  OBVIOUS
<1> HIDE DEF s
<1>2. SubSeq(s, 1, Len(s)) = s /\ (s = <<>> <=> Len(s) = 0)
  BY <1>1, SubSeqFull, EmptySeq
<1> QED BY <1>1, <1>2 DEF s

\* A path that leads nowhere has nothing on it.
LEMMA NowhereIsMissing ==
  ASSUME NEW disk PROVE LStat(disk, NoPath) = Missing /\ LStat(disk, NoPath).type = "missing"
<1>1. NoPath # <<>>
  BY OneName, Zenon DEF NoPath
<1>2. LStat(disk, NoPath) = Missing
  BY <1>1, Zenon DEF LStat
<1>3. Missing.type = "missing"
  BY DEF Missing
<1> QED BY <1>2, <1>3

\* Nor is such a path a chain of ancestors that passes.
LEMMA NowhereIsRejected == ASSUME NEW disk PROVE Rejected(disk, NoPath)
<1>1. SubSeq(NoPath, 1, 1) = NoPath /\ 1 \in 1..Len(NoPath)
  BY OneName, Zenon DEF NoPath
<1>2. LStat(disk, SubSeq(NoPath, 1, 1)) = Missing
  BY <1>1, NowhereIsMissing, Zenon
<1> QED BY <1>1, <1>2, Zenon DEF Rejected

\* The checks were made on several disks, and all that changed is at one place, with what
\* is above the file kept as it is: on one disk, the file is admissible; and if it is a
\* link's target, on one where the link leads to it.
LEMMA AdmittedAtOnce ==
  ASSUME NEW all, \A disk \in all : Typed(disk), NEW place,
         \A disk, other \in all : SameBut(disk, other, place),
         NEW p \in Seq(STRING), NEW real, \A disk \in all : RealPath(disk, LexicalParent(p)) = real,
         \A disk, other \in all : KeptOn(disk, other, LexicalParent(p)) /\ KeptOn(disk, other, real),
         NEW looked \in all, Trusted(LStat(looked, p)),
         NEW lexical \in all, ~Rejected(lexical, LexicalParent(p)),
         NEW resolved \in all, real # LexicalParent(p) => ~Rejected(resolved, real)
  PROVE  /\ \E disk \in all : Admissible(disk, p)
         /\ \A c \in Seq(STRING), origin \in all :
              p = RealPath(origin, c) => \E disk \in all : p = RealPath(disk, c) /\ Admissible(disk, p)
<1> DEFINE named == LexicalParent(p)
<1>1. LStat(looked, p) # Missing /\ LStat(looked, p).type = "file" /\ p # <<>> /\ p # NoPath
  <2>1. LStat(looked, p) # Missing /\ LStat(looked, p).type = "file"
    <3>1. LStat(looked, p).type = "file"
      BY DEF Trusted, Executable
    <3>2. Missing.type = "missing"
      BY DEF Missing
    <3> QED BY <3>1, <3>2
  <2>2. p # <<>>
    BY <2>1 DEF LStat, Node, Directory
  <2> QED BY <2>1, <2>2, LookIsSomewhere
<1>2. Front(p) \in Seq(STRING) /\ named \in Seq(STRING)
  <2>1. Len(p) - 1 \in 0..Len(p)
    <3>1. Len(p) \in Nat /\ Len(p) # 0
      BY <1>1, EmptySeq
    <3> QED BY <3>1
  <2>2. Front(p) \in Seq(STRING)
    BY <2>1, Beginnings DEF Front
  <2> QED BY <2>2, NormPathIsPath DEF LexicalParent
<1>3. real # named => real \in Seq(STRING)
  <2> SUFFICES ASSUME real # named PROVE real \in Seq(STRING)
    OBVIOUS
  <2>1. ~Rejected(resolved, real)
    OBVIOUS
  <2>2. real # NoPath
    <3> QED BY <2>1, NowhereIsRejected
  <2>3. RealPath(resolved, named) = real
    OBVIOUS
  <2>4. Clear(resolved, real)
    BY <1>2, <2>2, <2>3, RealPathIsClear
  <2> QED BY <2>4 DEF Clear
<1>4. ASSUME NEW disk \in all, Trusted(LStat(disk, p)), ~Rejected(disk, named), real # named => ~Rejected(disk, real)
      PROVE  Admissible(disk, p)
  BY <1>4 DEF Admissible
<1> HIDE DEF named
<1>5. CASE \A disk \in all : Node(disk, place).type = "directory"
  <2>1. \A disk \in all : SameTypes(looked, disk) /\ SameLinks(looked, disk)
    BY <1>5 DEF SameBut, SameTypes, SameLinks
  <2>2. \A disk \in all : Trusted(LStat(disk, p))
    <3> SUFFICES ASSUME NEW disk \in all PROVE Trusted(LStat(disk, p))
      OBVIOUS
    <3>1. RealPath(disk, Front(p)) = RealPath(looked, Front(p)) /\ Behind(disk, Front(p)) = Behind(looked, Front(p))
      BY <1>2, <2>1, SameWalk
    <3> DEFINE location == Append(RealPath(looked, Front(p)), Last(p))
    <3>2. /\ Behind(looked, Front(p)) = RealPath(looked, Front(p)) /\ Behind(looked, Front(p)) # NoPath
          /\ Node(looked, RealPath(looked, Front(p))).type = "directory"
          /\ LStat(looked, p) = Node(looked, location)
      BY <1>1, LookIsSomewhere
    <3>3. LStat(disk, p) = Node(disk, location)
      BY <1>1, <2>1, <3>1, <3>2 DEF LStat, SameTypes
    <3>4. location # place
      BY <1>1, <1>5, <3>2
    <3> HIDE DEF location
    <3>5. Node(disk, location) = Node(looked, location)
      <4>1. SameBut(disk, looked, place)
        OBVIOUS
      <4> QED BY <3>4, <4>1 DEF SameBut
    <3> QED BY <3>2, <3>3, <3>5
  <2>3. \A c \in Seq(STRING), disk, other \in all : RealPath(disk, c) = RealPath(other, c)
    BY <2>1, SameWalk
  <2>4. \E disk \in all : ~Rejected(disk, named) /\ (real # named => ~Rejected(disk, real))
    <3>1. CASE Node(lexical, place) # Directory(TRUE) \/ Node(lexical, place) = Node(resolved, place)
      <4>1. real # named => ~Rejected(lexical, real)
        BY <1>3, <3>1, NotRejectedToo
      <4> QED BY <4>1 DEF named
    <3>2. CASE Node(resolved, place) # Directory(TRUE)
      <4>1. ~Rejected(resolved, named)
        BY <1>2, <3>2, NotRejectedToo DEF named
      <4> QED BY <4>1 DEF named
    <3> QED BY <3>1, <3>2
  <2> QED BY <1>4, <2>2, <2>3, <2>4
<1>6. ASSUME NEW odd \in all, Node(odd, place).type # "directory"
      PROVE  /\ \E disk \in all : Admissible(disk, p)
             /\ \A c \in Seq(STRING), origin \in all :
                  p = RealPath(origin, c) => \E disk \in all : p = RealPath(disk, c) /\ Admissible(disk, p)
  <2>1. \A disk \in all : ~Rejected(disk, named) /\ (real # named => ~Rejected(disk, real))
    <3> SUFFICES ASSUME NEW disk \in all PROVE ~Rejected(disk, named) /\ (real # named => ~Rejected(disk, real))
      OBVIOUS
    <3>1. ~Rejected(disk, named)
      <4>1. ~Rejected(odd, named)
        BY <1>2, <1>6, RejectedAlike DEF named
      <4> QED BY <1>2, <1>6, <4>1, RejectedAlike DEF named
    <3>2. real # named => ~Rejected(disk, real)
      <4>1. real # named => ~Rejected(odd, real)
        BY <1>3, <1>6, RejectedAlike DEF named
      <4> QED BY <1>3, <1>6, <4>1, RejectedAlike DEF named
    <3> QED BY <3>1, <3>2
  <2>2. Admissible(looked, p)
    BY <1>4, <2>1
  <2>3. ASSUME NEW c \in Seq(STRING), NEW origin \in all, p = RealPath(origin, c)
        PROVE  \E disk \in all : p = RealPath(disk, c) /\ Admissible(disk, p)
    <3>1. Clear(origin, p) /\ Len(p) <= MaxSteps
      BY <1>1, <2>3, RealPathIsClear
    <3>2. named = Front(p)
      <4>1. Len(p) - 1 \in 0..Len(p)
        <5>1. Len(p) \in Nat /\ Len(p) # 0
          BY <1>1, EmptySeq
        <5> QED BY <5>1
      <4>2. Clear(origin, Front(p))
        BY <3>1, <4>1, ClearPrefix DEF Front
      <4> QED BY <4>2, ClearIsNormal DEF named, LexicalParent
    <3>3. \A n \in 1..(Len(p) - 1) : SubSeq(p, 1, n) # place
      <4>1. /\ \A disk, other \in all : SameBut(disk, other, place) /\ KeptOn(disk, other, Front(p))
            /\ ~Rejected(lexical, Front(p))
        BY <3>2 DEF named
      <4> QED BY <1>1, <1>6, <3>1, <4>1, ChangedIsNotAbove
    <3>4. LStat(origin, p) = Node(origin, p) /\ LStat(looked, p) = Node(looked, p)
      BY <1>1, <3>1, <3>3, LookIsThere
    <3>5. CASE Node(origin, p) = Node(looked, p)
      <4>1. Admissible(origin, p)
        BY <1>4, <2>1, <3>4, <3>5
      <4> QED BY <2>3, <4>1
    <3>6. CASE Node(origin, p) # Node(looked, p)
      <4>1. p = place
        BY <3>6 DEF SameBut
      <4>2. Node(origin, p).type # "link"
        <5>1. Len(p) \in 1..Len(p) /\ SubSeq(p, 1, Len(p)) = p
          <6>1. Len(p) \in Nat /\ Len(p) # 0
            BY <1>1, EmptySeq
          <6> QED BY <6>1, SubSeqFull
        <5> QED BY <3>1, <5>1 DEF Clear
      <4>3. SameLinks(origin, looked)
        BY <1>1, <3>4, <4>1, <4>2 DEF SameLinks, SameBut
      <4>4. RealPath(looked, c) = p
        BY <2>3, <4>3, SameWalk
      <4> QED BY <2>2, <4>4
    <3> QED BY <3>5, <3>6
  <2> QED BY <2>2, <2>3
<1> QED BY <1>5, <1>6

-------------------------------------------------------------------------------
(* The walk over PATH *)

\* What has been learnt of an entry that stays as it is, at each look.
Learnt(i) ==
  /\ looking = "realpath" => path = Candidate(i) /\ LStat(fs, path).type = "link"
  /\ looking \in {"stat", "observe", "parent", "lexical", "resolved"} => path = Offer(fs, i)
  /\ looking \in {"lexical", "resolved"} => parent = RealPath(fs, LexicalParent(path))
  /\ looking = "resolved" => parent # LexicalParent(path)
  /\ looking = "done" => result # NoPath

\* The walk has not gone past an entry that stays as it is.
NotPassed == \A i \in DOMAIN entries : Steady(i) => entry <= i /\ (entry = i => Learnt(i))

\* Past the first look at a file there is one; the walk ends with it or behind the last entry.
Walked ==
  /\ looking \in {"observe", "parent", "lexical", "resolved"} => path # NoPath
  /\ looking = "done" => result # NoPath \/ entry = Len(entries) \/ entries = <<>>

WalkInv ==
  /\ entries \in Seq(Seq(STRING)) /\ entry \in Nat /\ fs \in seen
  /\ looking \in {"lstat", "realpath", "stat", "follow", "readlink", "observe", "parent", "lexical", "resolved", "done"}
  /\ job = "find" => looking \notin {"follow", "readlink"} /\ Walked /\ NotPassed
  /\ job = "find" /\ looking # "done" => entry \in 1..Len(entries)

\* What the looks at an entry find when it offers an admissible executable.
LEMMA OfferIsFound ==
  ASSUME NEW disk, NEW i, Offers(disk, i)
  PROVE  /\ Reviewable(Candidate(i)) /\ LStat(disk, Candidate(i)) # Missing
         /\ Offer(disk, i) # NoPath /\ Reviewable(Offer(disk, i))
         /\ Trusted(LStat(disk, Offer(disk, i))) /\ ~Rejected(disk, LexicalParent(Offer(disk, i)))
         /\ RealPath(disk, LexicalParent(Offer(disk, i))) # LexicalParent(Offer(disk, i))
              => ~Rejected(disk, RealPath(disk, LexicalParent(Offer(disk, i))))
         /\ Offer(disk, i) = IF LStat(disk, Candidate(i)).type = "link"
                             THEN RealPath(disk, Candidate(i)) ELSE Candidate(i)
<1>1. /\ Reviewable(Candidate(i)) /\ Reviewable(Offer(disk, i))
      /\ Offer(disk, i) # NoPath /\ Admissible(disk, Offer(disk, i))
  BY DEF Offers
<1>2. Trusted(LStat(disk, Offer(disk, i)))
  BY <1>1 DEF Admissible
<1>3. Offer(disk, i) = IF LStat(disk, Candidate(i)).type = "link"
                       THEN RealPath(disk, Candidate(i)) ELSE Candidate(i)
  BY <1>1 DEF Offer, Behind
<1>4. LStat(disk, Candidate(i)) # Missing
  <2>1. SUFFICES ASSUME LStat(disk, Candidate(i)) = Missing PROVE FALSE
    OBVIOUS
  <2>2. LStat(disk, Candidate(i)).type # "link"
    BY <2>1 DEF Missing
  <2>3. Trusted(Missing)
    BY <1>2, <1>3, <2>1, <2>2
  <2> QED BY <2>3 DEF Trusted, Executable, Missing
<1> QED BY <1>1, <1>2, <1>3, <1>4 DEF Admissible

\* A look changes none of what the entries offer.
Apart == UNCHANGED <<fs, job, entries, command, seen>>

\* An entry that did not stay as it is may be left for the next.
LEMMA SkipIsSafe ==
  ASSUME WalkInv, job = "find", looking # "done", Skip, Apart,
         \A i \in DOMAIN entries : ~(Steady(i) /\ entry = i)
  PROVE  WalkInv'
<1>1. \A i \in DOMAIN entries : Steady(i) => i \in 1..Len(entries) /\ entry < i
  BY DEF WalkInv, NotPassed
<1>2. \A i : Steady(i)' = Steady(i)
  BY DEF Apart, Steady, Offers, Offer, Reading, Candidate
<1>3. CASE entry < Len(entries)
  <2>1. looking' = "lstat" /\ entry' = entry + 1 /\ entry' \in 1..Len(entries)
    BY <1>3 DEF Skip, Failed, WalkInv
  <2>2. NotPassed'
    BY <1>1, <1>2, <2>1 DEF NotPassed, Learnt, WalkInv, Apart
  <2> QED BY <2>1, <2>2 DEF WalkInv, Walked, Apart
<1>4. CASE ~(entry < Len(entries))
  <2>1. looking' = "done" /\ entry' = entry /\ entry = Len(entries)
    BY <1>4 DEF Skip, Failed, WalkInv
  <2>2. NotPassed'
    BY <1>1, <1>2, <2>1 DEF NotPassed, WalkInv, Apart
  <2> QED BY <2>1, <2>2 DEF WalkInv, Walked, Apart
<1> QED BY <1>3, <1>4

\* The next look at the same entry has learnt from this one.
LEMMA GotoIsSafe ==
  ASSUME WalkInv, job = "find", looking # "done", NEW step, Goto(step), Apart,
         step \in {"realpath", "stat", "observe", "parent", "lexical", "resolved", "done"}, Walked',
         \A i \in DOMAIN entries : Steady(i) /\ entry = i => Learnt(i)'
  PROVE  WalkInv'
<1>1. \A i : Steady(i)' = Steady(i)
  BY DEF Apart, Steady, Offers, Offer, Reading, Candidate
<1>2. looking' = step /\ entry' = entry
  BY DEF Goto
<1>3. NotPassed'
  BY <1>1, <1>2 DEF NotPassed, WalkInv, Apart
<1> QED BY <1>2, <1>3 DEF WalkInv, Apart

\* Each look at an entry that stays as it is leads to the next one.
LEMMA LooksAreSafe == ASSUME WalkInv, LookAtFiles PROVE WalkInv'
<1>0. Apart
  BY DEF LookAtFiles, Apart
<1>1. CASE job # "find"
  BY <1>0, <1>1 DEF WalkInv, LookAtFiles, Apart, LStatCandidate, ResolveCandidate, StatResolved, IsLink, FollowLink,
    Observe, ResolveParent, LexicalAncestors, ResolvedAncestors, Skip, Failed, Goto, Found
<1>2. CASE job = "find"
  <2>0. /\ entry \in DOMAIN entries
        /\ \A i \in DOMAIN entries : Steady(i) => Offers(fs, i)
        /\ \A i \in DOMAIN entries : Steady(i) /\ entry = i => Learnt(i)
        /\ \A i : Candidate(i)' = Candidate(i) /\ Offer(fs, i)' = Offer(fs, i)
    <3>1. looking # "done"
      BY DEF LookAtFiles, LStatCandidate, ResolveCandidate, StatResolved, IsLink, FollowLink,
        Observe, ResolveParent, LexicalAncestors, ResolvedAncestors
    <3> QED BY <1>0, <1>2, <3>1 DEF WalkInv, NotPassed, Steady, Apart, Candidate, Offer
  <2>1. CASE LStatCandidate
    <3>1. looking = "lstat"
      BY <2>1 DEF LStatCandidate
    <3>2. CASE ~Reviewable(Candidate(entry)) \/ LStat(fs, Candidate(entry)) = Missing
      <4>1. Skip
        BY <2>1, <3>2 DEF LStatCandidate
      <4>2. \A i \in DOMAIN entries : ~(Steady(i) /\ entry = i)
        BY <2>0, <3>2, OfferIsFound
      <4> QED BY <1>0, <1>2, <3>1, <4>1, <4>2, SkipIsSafe
    <3>3. CASE ~(~Reviewable(Candidate(entry)) \/ LStat(fs, Candidate(entry)) = Missing)
      <4> DEFINE step == IF LStat(fs, Candidate(entry)).type = "link" THEN "realpath" ELSE "stat"
      <4>1. Goto(step) /\ path' = Candidate(entry)
        BY <2>1, <3>3 DEF LStatCandidate
      <4>2. looking' = step
        BY <4>1 DEF Goto
      <4>3. \A i \in DOMAIN entries : Steady(i) /\ entry = i => Learnt(i)'
        BY <1>0, <2>0, <4>1, <4>2, OfferIsFound DEF Learnt, Apart
      <4>4. Walked'
        BY <4>2 DEF Walked
      <4> QED BY <1>0, <1>2, <3>1, <4>1, <4>3, <4>4, GotoIsSafe
    <3> QED BY <3>2, <3>3
  <2>2. CASE ResolveCandidate
    <3>1. looking = "realpath"
      BY <2>2 DEF ResolveCandidate
    <3>2. \A i \in DOMAIN entries : Steady(i) /\ entry = i => RealPath(fs, path) = Offer(fs, i)
      BY <2>0, <3>1, OfferIsFound DEF Learnt
    <3>3. CASE ~Reviewable(RealPath(fs, path))
      <4>1. Skip
        BY <2>2, <3>3 DEF ResolveCandidate
      <4>2. \A i \in DOMAIN entries : ~(Steady(i) /\ entry = i)
        BY <2>0, <3>2, <3>3, OfferIsFound
      <4> QED BY <1>0, <1>2, <3>1, <4>1, <4>2, SkipIsSafe
    <3>4. CASE Reviewable(RealPath(fs, path))
      <4>1. Goto("stat") /\ path' = RealPath(fs, path) /\ looking' = "stat"
        BY <2>2, <3>4 DEF ResolveCandidate, Goto
      <4>2. \A i \in DOMAIN entries : Steady(i) /\ entry = i => Learnt(i)'
        BY <2>0, <3>2, <4>1 DEF Learnt
      <4>3. Walked'
        BY <4>1 DEF Walked
      <4> QED BY <1>0, <1>2, <3>1, <4>1, <4>2, <4>3, GotoIsSafe
    <3> QED BY <3>3, <3>4
  <2>3. CASE StatResolved
    <3>1. looking = "stat"
      BY <2>3 DEF StatResolved
    <3>2. \A i \in DOMAIN entries : Steady(i) /\ entry = i => path = Offer(fs, i)
      BY <2>0, <3>1 DEF Learnt
    <3>3. CASE ~Executable(LStat(fs, path))
      <4>1. Skip
        BY <2>3, <3>3 DEF StatResolved
      <4>2. \A i \in DOMAIN entries : ~(Steady(i) /\ entry = i)
        BY <2>0, <3>2, <3>3, OfferIsFound DEF Trusted
      <4> QED BY <1>0, <1>2, <3>1, <4>1, <4>2, SkipIsSafe
    <3>4. CASE Executable(LStat(fs, path))
      <4>1. Goto("observe") /\ path' = path /\ looking' = "observe"
        BY <2>3, <3>4 DEF StatResolved, Goto
      <4>2. \A i \in DOMAIN entries : Steady(i) /\ entry = i => Learnt(i)'
        BY <2>0, <3>2, <4>1 DEF Learnt
      <4>3. path # NoPath
        BY <3>4, NowhereIsMissing DEF Executable
      <4>4. Walked'
        BY <4>1, <4>3 DEF Walked
      <4> QED BY <1>0, <1>2, <3>1, <4>1, <4>2, <4>4, GotoIsSafe
    <3> QED BY <3>3, <3>4
  <2>4. CASE IsLink \/ FollowLink
    BY <1>2, <2>4 DEF IsLink, FollowLink, WalkInv
  <2>5. CASE Observe
    <3>1. looking = "observe" /\ path # NoPath
      BY <1>2, <2>5 DEF Observe, WalkInv, Walked
    <3>2. \A i \in DOMAIN entries : Steady(i) /\ entry = i => path = Offer(fs, i)
      BY <2>0, <3>1 DEF Learnt
    <3>3. CASE ~Trusted(LStat(fs, path))
      <4>1. Skip
        BY <2>5, <3>3 DEF Observe
      <4>2. \A i \in DOMAIN entries : ~(Steady(i) /\ entry = i)
        BY <2>0, <3>2, <3>3, OfferIsFound
      <4> QED BY <1>0, <1>2, <3>1, <4>1, <4>2, SkipIsSafe
    <3>4. CASE Trusted(LStat(fs, path))
      <4>1. Goto("parent") /\ path' = path /\ looking' = "parent"
        BY <2>5, <3>4 DEF Observe, Goto
      <4>2. \A i \in DOMAIN entries : Steady(i) /\ entry = i => Learnt(i)'
        BY <2>0, <3>2, <4>1 DEF Learnt
      <4>3. Walked'
        BY <3>1, <4>1 DEF Walked
      <4> QED BY <1>0, <1>2, <3>1, <4>1, <4>2, <4>3, GotoIsSafe
    <3> QED BY <3>3, <3>4
  <2>6. CASE ResolveParent
    <3>1. looking = "parent" /\ path # NoPath
      BY <1>2, <2>6 DEF ResolveParent, WalkInv, Walked
    <3>2. Goto("lexical") /\ path' = path /\ looking' = "lexical" /\ parent' = RealPath(fs, LexicalParent(path))
      BY <2>6 DEF ResolveParent, Goto
    <3>3. \A i \in DOMAIN entries : Steady(i) /\ entry = i => Learnt(i)'
      BY <1>0, <2>0, <3>1, <3>2 DEF Learnt, Apart
    <3>4. Walked'
      BY <3>1, <3>2 DEF Walked
    <3> QED BY <1>0, <1>2, <3>1, <3>2, <3>3, <3>4, GotoIsSafe
  <2>7. CASE LexicalAncestors
    <3>1. looking = "lexical" /\ path # NoPath
      BY <1>2, <2>7 DEF LexicalAncestors, WalkInv, Walked
    <3>2. \A i \in DOMAIN entries : Steady(i) /\ entry = i => path = Offer(fs, i) /\ parent = RealPath(fs, LexicalParent(path))
      BY <2>0, <3>1 DEF Learnt
    <3>3. CASE Rejected(fs, LexicalParent(path))
      <4>1. Skip
        BY <2>7, <3>3 DEF LexicalAncestors
      <4>2. \A i \in DOMAIN entries : ~(Steady(i) /\ entry = i)
        BY <2>0, <3>2, <3>3, OfferIsFound
      <4> QED BY <1>0, <1>2, <3>1, <4>1, <4>2, SkipIsSafe
    <3>4. CASE ~Rejected(fs, LexicalParent(path)) /\ parent = LexicalParent(path)
      <4>1. Found
        BY <2>7, <3>4 DEF LexicalAncestors, SecondChain
      <4> QED BY <1>0, <1>2, <3>1, <4>1, GotoIsSafe DEF Found, Goto, Learnt, Walked
    <3>5. CASE ~Rejected(fs, LexicalParent(path)) /\ parent # LexicalParent(path)
      <4>1. SecondChain(LexicalParent(path), parent) # {}
        BY <3>5 DEF SecondChain
      <4>2. Goto("resolved") /\ path' = path /\ parent' = parent /\ looking' = "resolved"
        BY <2>7, <3>5, <4>1 DEF LexicalAncestors, Goto
      <4>3. \A i \in DOMAIN entries : Steady(i) /\ entry = i => Learnt(i)'
        BY <1>0, <2>0, <3>2, <3>5, <4>2 DEF Learnt, Apart
      <4>4. Walked'
        BY <3>1, <4>2 DEF Walked
      <4> QED BY <1>0, <1>2, <3>1, <4>2, <4>3, <4>4, GotoIsSafe
    <3> QED BY <3>3, <3>4, <3>5
  <2>8. CASE ResolvedAncestors
    <3>1. looking = "resolved" /\ path # NoPath
      BY <1>2, <2>8 DEF ResolvedAncestors, WalkInv, Walked
    <3>2. \A i \in DOMAIN entries : Steady(i) /\ entry = i =>
            path = Offer(fs, i) /\ parent = RealPath(fs, LexicalParent(path)) /\ parent # LexicalParent(path)
      BY <2>0, <3>1 DEF Learnt
    <3>3. CASE Skip
      <4>1. CASE Rejected(fs, parent)
        <5>1. \A i \in DOMAIN entries : ~(Steady(i) /\ entry = i)
          BY <2>0, <3>2, <4>1, OfferIsFound
        <5> QED BY <1>0, <1>2, <3>1, <3>3, <5>1, SkipIsSafe
      <4>2. CASE ~Rejected(fs, parent)
        <5>1. Found
          BY <2>8, <4>2 DEF ResolvedAncestors, SecondChain
        <5> QED BY <1>0, <1>2, <3>1, <5>1, GotoIsSafe DEF Found, Goto, Learnt, Walked
      <4> QED BY <4>1, <4>2
    <3>4. CASE Found
      BY <1>0, <1>2, <3>1, <3>4, GotoIsSafe DEF Found, Goto, Learnt, Walked
    <3> QED BY <2>8, <3>3, <3>4 DEF ResolvedAncestors
  <2> QED BY <2>1, <2>2, <2>3, <2>4, <2>5, <2>6, <2>7, <2>8 DEF LookAtFiles
<1> QED BY <1>1, <1>2

\* Others may change what they like: what was learnt of an entry they leave alone stays so.
LEMMA ChangesAreHarmless == ASSUME WalkInv, Change PROVE WalkInv'
<1>1. fs' \in seen' /\ fs \in seen' /\ seen \subseteq seen'
  BY DEF Change, WalkInv
<1>2. ASSUME NEW i \in DOMAIN entries, Steady(i)'
      PROVE  Steady(i) /\ Reading(fs', i) = Reading(fs, i)
  <2>1. \A disk \in seen' : Offers(disk, i) /\ Reading(disk, i) = Reading(fs', i)
    <3>1. entries' = entries
      BY DEF Change
    <3>2. (\A disk \in seen : Offers(disk, i) /\ Reading(disk, i) = Reading(fs, i))'
      BY <1>2 DEF Steady
    <3> QED BY <3>1, <3>2 DEF Offers, Offer, Reading, Candidate
  <2> QED BY <1>1, <2>1 DEF Steady
<1>3. ASSUME NEW i \in DOMAIN entries, Steady(i)', entry = i, Learnt(i) PROVE Learnt(i)'
  <2>1. /\ LStat(fs', Candidate(i)) = LStat(fs, Candidate(i)) /\ Offer(fs', i) = Offer(fs, i)
        /\ RealPath(fs', LexicalParent(Offer(fs, i))) = RealPath(fs, LexicalParent(Offer(fs, i)))
    BY <1>2, <1>3 DEF Reading
  <2>2. Candidate(i)' = Candidate(i) /\ Offer(fs, i)' = Offer(fs', i)
    BY DEF Change, Candidate, Offer
  <2> QED BY <1>3, <2>1, <2>2 DEF Learnt, Change
<1>4. job = "find" => NotPassed'
  BY <1>2, <1>3 DEF NotPassed, WalkInv, Change
<1> QED BY <1>1, <1>4 DEF WalkInv, Walked, Change

\* The invariant holds of every walk.
LEMMA AlwaysWalked == WalkSpec => []WalkInv
<1>1. ASSUME WalkInit PROVE WalkInv
  <2>1. CASE job = "bind"
    BY <1>1, <2>1 DEF WalkInit, WalkInv
  <2>2. CASE job = "find"
    <3>1. entries \in Seq(Seq(STRING)) /\ entry = 1 /\ looking = (IF entries = <<>> THEN "done" ELSE "lstat")
      BY <1>1, <2>2, WalkAssumption DEF WalkInit
    <3>2. CASE entries = <<>>
      BY <1>1, <2>2, <3>1, <3>2 DEF WalkInit, WalkInv, Walked, NotPassed
    <3>3. CASE entries # <<>>
      <4>1. Len(entries) \in Nat \ {0} /\ DOMAIN entries = 1..Len(entries)
        BY <3>1, <3>3
      <4>2. Walked /\ NotPassed
        BY <3>1, <3>3, <4>1 DEF Walked, NotPassed, Learnt
      <4> QED BY <1>1, <3>1, <3>3, <4>1, <4>2 DEF WalkInit, WalkInv
    <3> QED BY <3>2, <3>3
  <2> QED BY <1>1, <2>1, <2>2 DEF WalkInit
<1>2. WalkInv /\ [WalkNext]_walkVars => WalkInv'
  <2>1. ASSUME WalkInv, UNCHANGED walkVars PROVE WalkInv'
    <3>1. \A i : Steady(i)' = Steady(i) /\ Learnt(i)' = Learnt(i)
      BY <2>1 DEF walkVars, Steady, Reading, Offers, Offer, Candidate, Learnt
    <3>2. NotPassed' = NotPassed
      BY <2>1, <3>1 DEF walkVars, NotPassed
    <3> QED BY <2>1, <3>2 DEF walkVars, WalkInv, Walked
  <2>2. ASSUME WalkInv, LookAtFiles PROVE WalkInv'
    BY <2>2, LooksAreSafe
  <2>3. ASSUME WalkInv, Change PROVE WalkInv'
    BY <2>3, ChangesAreHarmless
  <2> QED BY <2>1, <2>2, <2>3, Zenon DEF WalkNext
<1> QED BY <1>1, <1>2, PTL DEF WalkSpec

\* Precedence on PATH: an entry that offers an admissible executable, and that nobody
\* touches, is never passed over, for every file system, every PATH and all changes.
THEOREM SteadyEntriesWin == WalkSpec => []FirstSteadyEntryWins
<1>1. WalkInv => FirstSteadyEntryWins
  BY DEF WalkInv, Walked, NotPassed, Learnt, FirstSteadyEntryWins
<1> QED BY <1>1, AlwaysWalked, PTL

-------------------------------------------------------------------------------
(* What the looks of a walk add up to *)

\* Where a walk has found an executable, or is about to.
Past(steps) == looking \in steps \/ (looking = "done" /\ result # NoPath)

\* The way to the path that is looked at.
Led ==
  /\ job = "find" =>
       /\ looking \notin {"follow", "readlink"} /\ (result # NoPath => entry \in DOMAIN entries)
       /\ looking = "realpath" => path = Candidate(entry)
       /\ Past({"stat", "observe", "parent", "lexical", "resolved"}) =>
            path = Candidate(entry) \/ \E disk \in seen : path = RealPath(disk, Candidate(entry))
  /\ job = "bind" =>
       /\ looking \notin {"lstat", "realpath", "stat"} /\ NormPath(command) \in visited \cup {path}
       /\ \A p \in visited : \E earlier \in seen :
            LStat(earlier, p).type = "link" /\ Target(earlier, p) \in visited \cup {path}

\* What each look has found on one of the disks.
FileTrusted == Past({"parent", "lexical", "resolved"}) => \E disk \in seen : Trusted(LStat(disk, path))
ParentReal == Past({"lexical", "resolved"}) => \E disk \in seen : parent = RealPath(disk, LexicalParent(path))
NamedChainPassed == Past({"resolved"}) => \E disk \in seen : ~Rejected(disk, LexicalParent(path))
RealChainPassed == Past({}) /\ parent # LexicalParent(path) => \E disk \in seen : ~Rejected(disk, parent)

AdmissionInv ==
  /\ fs \in seen /\ \A disk \in seen : Typed(disk)
  /\ job \in {"find", "bind"} /\ (looking # "done" => result = NoPath)
  /\ result # NoPath => result = path
  /\ path # NoPath => path \in Seq(STRING)
  /\ Led /\ FileTrusted /\ ParentReal /\ NamedChainPassed /\ RealChainPassed

\* The directory of a path, by name, is a path.
LEMMA FrontIsPath ==
  ASSUME NEW p \in Seq(STRING) PROVE Front(p) \in Seq(STRING) /\ LexicalParent(p) \in Seq(STRING)
<1>1. Front(p) \in Seq(STRING)
  <2>1. CASE p = <<>>
    <3>1. Len(p) - 1 \in Int /\ Len(p) - 1 < 1
      BY <2>1
    <3>2. Front(p) = <<>>
      BY <3>1, SubSeqEmpty DEF Front
    <3> QED BY <3>2
  <2>2. CASE p # <<>>
    <3>1. Len(p) \in Nat /\ Len(p) # 0
      BY <2>2, EmptySeq
    <3>2. Len(p) - 1 \in 0..Len(p)
      BY <3>1
    <3> QED BY <3>2, Beginnings DEF Front
  <2> QED BY <2>1, <2>2
<1> QED BY <1>1, NormPathIsPath DEF LexicalParent

\* So is where a link leads by name.
LEMMA TargetIsPath ==
  ASSUME NEW disk, Typed(disk), NEW p \in Seq(STRING), LStat(disk, p).type = "link" PROVE Target(disk, p) \in Seq(STRING)
<1>1. LStat(disk, p).names \in Seq(STRING)
  BY NodesAreNamed DEF LStat, Missing
<1>2. Front(p) \o LStat(disk, p).names \in Seq(STRING)
  BY <1>1, FrontIsPath, ConcatProperties
<1> QED BY <1>1, <1>2, NormPathIsPath DEF Target

\* A look that ends the entry, or the binding, finds nothing.
LEMMA SkipAdmitsNothing ==
  ASSUME AdmissionInv, looking # "done", Skip, Apart PROVE AdmissionInv'
<1>1. result' = NoPath /\ result = NoPath /\ UNCHANGED <<path, visited, parent, fs, job, entries, command, seen>>
  BY DEF AdmissionInv, Skip, Apart
<1>2. looking' = "done" \/ (looking' = "lstat" /\ job = "find")
  BY DEF Skip, Failed, Goto
<1>3. Led'
  BY <1>1, <1>2 DEF Led, Past, AdmissionInv, Candidate
<1>4. FileTrusted' /\ ParentReal' /\ NamedChainPassed' /\ RealChainPassed'
  BY <1>1, <1>2 DEF FileTrusted, ParentReal, NamedChainPassed, RealChainPassed, Past
<1> QED BY <1>1, <1>2, <1>3, <1>4 DEF AdmissionInv

\* What was seen stays seen.
LEMMA ChangesAreSeen == ASSUME AdmissionInv, Change PROVE AdmissionInv'
<1>1. /\ fs' \in seen' /\ seen \subseteq seen' /\ seen' = seen \cup {fs'} /\ looking # "done"
      /\ UNCHANGED <<job, entries, command, looking, entry, path, visited, parent, result>>
  BY DEF Change
<1>2. Typed(fs')
  <2>1. PICK edit \in Edits :
       fs' = IF edit[2] = Missing
             THEN [p \in DOMAIN fs \ {edit[1]} |-> fs[p]]
             ELSE [p \in DOMAIN fs \cup {edit[1]} |-> IF p = edit[1] THEN edit[2] ELSE fs[p]]
    BY DEF Change
  <2>2. edit[2] \in Nodes \cup {Missing} /\ \A p \in DOMAIN fs : fs[p] \in Nodes
    BY WalkAssumption DEF AdmissionInv, Typed
  <2>3. CASE edit[2] = Missing
    BY <2>1, <2>2, <2>3 DEF Typed
  <2>4. CASE edit[2] # Missing
    BY <2>1, <2>2, <2>4 DEF Typed
  <2> QED BY <2>3, <2>4
<1>3. Led'
  BY <1>1 DEF Led, Past, AdmissionInv, Candidate
<1>4. FileTrusted' /\ ParentReal' /\ NamedChainPassed' /\ RealChainPassed'
  BY <1>1 DEF FileTrusted, ParentReal, NamedChainPassed, RealChainPassed, Past, AdmissionInv
<1> QED BY <1>1, <1>2, <1>3, <1>4 DEF AdmissionInv

\* Each look adds what it finds on the disk as it is.
LEMMA LooksAddUp == ASSUME AdmissionInv, WalkInv, LookAtFiles PROVE AdmissionInv'
<1>1. Apart /\ fs \in seen /\ looking # "done" /\ result = NoPath
  BY DEF AdmissionInv, Apart, LookAtFiles, LStatCandidate, ResolveCandidate, StatResolved, IsLink, FollowLink,
    Observe, ResolveParent, LexicalAncestors, ResolvedAncestors
<1>2. ASSUME Skip PROVE AdmissionInv'
  BY <1>1, <1>2, SkipAdmitsNothing
<1> USE DEF Led, Past, FileTrusted, ParentReal, NamedChainPassed, RealChainPassed
<1>3. CASE LStatCandidate
  <2>1. SUFFICES ASSUME ~Skip PROVE AdmissionInv'
    BY <1>2
  <2>2. /\ looking = "lstat" /\ looking' \in {"realpath", "stat"} /\ entry' = entry
        /\ path' = Candidate(entry) /\ UNCHANGED <<visited, parent, result>>
    BY <1>3, <2>1 DEF LStatCandidate, Goto
  <2>3. job = "find"
    BY <2>2 DEF AdmissionInv
  <2>4. Candidate(entry) \in Seq(STRING) /\ Candidate(entry)' = Candidate(entry)
    <3>1. entry \in 1..Len(entries) /\ entries \in Seq(Seq(STRING))
      BY <1>1, <2>3 DEF WalkInv
    <3>2. entries[entry] \in Seq(STRING) /\ Name \in STRING
      BY <3>1, ElementOfSeq, WalkAssumption
    <3> QED BY <1>1, <2>2, <3>2, AppendProperties DEF Candidate, Apart
  <2> QED BY <1>1, <2>2, <2>3, <2>4 DEF AdmissionInv, Apart
<1>4. CASE ResolveCandidate
  <2>1. SUFFICES ASSUME ~Skip PROVE AdmissionInv'
    BY <1>2
  <2>2. /\ looking = "realpath" /\ looking' = "stat" /\ entry' = entry
        /\ path' = RealPath(fs, path) /\ UNCHANGED <<visited, parent, result>>
    BY <1>4, <2>1 DEF ResolveCandidate, Goto
  <2>3. job = "find" /\ path = Candidate(entry)
    BY <2>2 DEF AdmissionInv
  <2>4. Candidate(entry)' = Candidate(entry)
    BY <1>1, <2>2 DEF Candidate, Apart
  <2>5. path' # NoPath => path' \in Seq(STRING)
    <3>1. entry \in 1..Len(entries) /\ entries \in Seq(Seq(STRING))
      BY <1>1, <2>3 DEF WalkInv
    <3>2. entries[entry] \in Seq(STRING) /\ Name \in STRING
      BY <3>1, ElementOfSeq, WalkAssumption
    <3>3. path \in Seq(STRING)
      BY <2>3, <3>2, AppendProperties DEF Candidate
    <3> QED BY <1>1, <2>2, <3>3, RealPathIsClear DEF AdmissionInv, Clear
  <2> QED BY <1>1, <2>2, <2>3, <2>4, <2>5 DEF AdmissionInv, Apart
<1>5. CASE StatResolved
  <2>1. SUFFICES ASSUME ~Skip PROVE AdmissionInv'
    BY <1>2
  <2>2. looking = "stat" /\ looking' = "observe" /\ UNCHANGED <<entry, path, visited, parent, result>>
    BY <1>5, <2>1 DEF StatResolved, Goto
  <2>3. job = "find" /\ Candidate(entry)' = Candidate(entry)
    BY <1>1, <2>2 DEF AdmissionInv, Candidate, Apart
  <2> QED BY <1>1, <2>2, <2>3 DEF AdmissionInv, Apart
<1>6. CASE FollowLink
  <2>1. SUFFICES ASSUME ~Skip PROVE AdmissionInv'
    BY <1>2
  <2>2. looking = "readlink" /\ job = "bind" /\ LStat(fs, path).type = "link"
    BY <1>6, <2>1 DEF FollowLink, AdmissionInv
  <2>3. /\ looking' = "follow" /\ visited' = visited \cup {path} /\ path' = Target(fs, path)
        /\ UNCHANGED <<entry, parent, result>>
    BY <1>6, <2>1 DEF FollowLink, Goto
  <2>4. path # NoPath
    BY <2>2, NowhereIsMissing DEF Missing
  <2>5. path' \in Seq(STRING)
    BY <1>1, <2>2, <2>3, <2>4, TargetIsPath DEF AdmissionInv
  <2> QED BY <1>1, <2>2, <2>3, <2>5 DEF AdmissionInv, Apart
<1>7. CASE Observe
  <2>1. SUFFICES ASSUME ~Skip PROVE AdmissionInv'
    BY <1>2
  <2>2. /\ looking = "observe" /\ looking' = "parent" /\ UNCHANGED <<entry, path, visited, parent, result>>
        /\ Trusted(LStat(fs, path)) /\ Candidate(entry)' = Candidate(entry)
    BY <1>1, <1>7, <2>1 DEF Observe, Goto, Candidate, Apart
  <2> QED BY <1>1, <2>2 DEF AdmissionInv, Apart
<1>8. CASE ResolveParent
  <2>1. /\ looking = "parent" /\ looking' = "lexical" /\ UNCHANGED <<entry, path, visited, result>>
        /\ parent' = RealPath(fs, LexicalParent(path)) /\ Candidate(entry)' = Candidate(entry)
    BY <1>1, <1>8 DEF ResolveParent, Goto, Candidate, Apart
  <2> QED BY <1>1, <2>1 DEF AdmissionInv, Apart
<1>9. ASSUME Found, looking \in {"lexical", "resolved"}, NEW disk \in seen, ~Rejected(disk, LexicalParent(path)),
             NEW other \in seen, parent # LexicalParent(path) => ~Rejected(other, parent), path # NoPath
      PROVE  AdmissionInv'
  <2>1. looking' = "done" /\ result' = path /\ UNCHANGED <<entry, path, visited, parent>>
    BY <1>9 DEF Found, Goto
  <2>2. job = "find" => entry \in DOMAIN entries
    BY <1>1 DEF WalkInv
  <2>3. Candidate(entry)' = Candidate(entry)
    BY <1>1, <2>1 DEF Candidate, Apart
  <2> QED BY <1>1, <1>9, <2>1, <2>2, <2>3 DEF AdmissionInv, Apart
<1>0. looking \in {"lexical", "resolved"} => path # NoPath
  <2>1. \A disk : ~Trusted(LStat(disk, NoPath))
    BY NowhereIsMissing DEF Trusted, Executable
  <2> QED BY <2>1 DEF AdmissionInv
<1>10. CASE LexicalAncestors
  <2>1. SUFFICES ASSUME ~Skip PROVE AdmissionInv'
    BY <1>2
  <2>2. looking = "lexical" /\ ~Rejected(fs, LexicalParent(path))
    BY <1>10, <2>1 DEF LexicalAncestors
  <2>3. CASE parent = LexicalParent(path)
    <3>1. Found
      BY <1>10, <2>1, <2>2, <2>3 DEF LexicalAncestors, SecondChain
    <3> QED BY <1>0, <1>1, <1>9, <2>2, <2>3, <3>1
  <2>4. CASE parent # LexicalParent(path)
    <3>1. looking' = "resolved" /\ UNCHANGED <<entry, path, visited, parent, result>>
      BY <1>10, <2>1, <2>2, <2>4 DEF LexicalAncestors, SecondChain, Goto
    <3>2. Candidate(entry)' = Candidate(entry)
      BY <1>1, <3>1 DEF Candidate, Apart
    <3> QED BY <1>1, <2>2, <3>1, <3>2 DEF AdmissionInv, Apart
  <2> QED BY <2>3, <2>4
<1>11. CASE ResolvedAncestors
  <2>1. SUFFICES ASSUME ~Skip PROVE AdmissionInv'
    BY <1>2
  <2>2. looking = "resolved" /\ Found /\ (parent # LexicalParent(path) => ~Rejected(fs, parent))
    BY <1>11, <2>1 DEF ResolvedAncestors, SecondChain
  <2>3. PICK disk \in seen : ~Rejected(disk, LexicalParent(path))
    BY <2>2 DEF AdmissionInv
  <2> QED BY <1>0, <1>1, <1>9, <2>2, <2>3
<1>12. CASE IsLink
  <2>1. SUFFICES ASSUME ~Skip PROVE AdmissionInv'
    BY <1>2
  <2>2. /\ looking = "follow" /\ looking' \in {"observe", "readlink"}
        /\ UNCHANGED <<entry, path, visited, parent, result>>
    BY <1>12, <2>1 DEF IsLink, Goto
  <2>3. job = "bind"
    BY <2>2 DEF AdmissionInv
  <2> QED BY <1>1, <2>2, <2>3 DEF AdmissionInv, Apart
<1> QED BY <1>3, <1>4, <1>5, <1>6, <1>7, <1>8, <1>10, <1>11, <1>12, Zenon DEF LookAtFiles

\* A walk starts with nothing learnt.
LEMMA AdmissionStarts == ASSUME WalkInit PROVE AdmissionInv
<1>1. Typed(fs)
  BY WalkAssumption DEF WalkInit, Typed
<1>2. CASE job = "bind"
  <2>1. path = NormPath(command) /\ command \in Seq(STRING)
    BY <1>2, WalkAssumption DEF WalkInit
  <2>2. path \in Seq(STRING)
    BY <2>1, NormPathIsPath
  <2> QED BY <1>1, <1>2, <2>1, <2>2 DEF WalkInit, AdmissionInv, Led, Past, FileTrusted, ParentReal, NamedChainPassed,
    RealChainPassed
<1>3. CASE job = "find"
  BY <1>1, <1>3 DEF WalkInit, AdmissionInv, Led, Past, FileTrusted, ParentReal, NamedChainPassed, RealChainPassed
<1> QED BY <1>2, <1>3 DEF WalkInit

\* If all that was touched is at one place, the disks are the same elsewhere.
LEMMA OnlyOnePlace ==
  ASSUME fs \in seen, OnePlace PROVE \E place : \A disk, other \in seen : SameBut(disk, other, place)
<1>1. ASSUME NEW disk \in seen, NEW q, q \notin Touched PROVE Node(disk, q) = Node(fs, q)
  <2>1. CASE q \in UNION {DOMAIN d : d \in seen}
    BY <1>1, <2>1 DEF Touched
  <2>2. CASE q \notin UNION {DOMAIN d : d \in seen}
    <3>1. q \notin DOMAIN disk /\ q \notin DOMAIN fs
      BY <2>2
    <3> QED BY <3>1 DEF Node
  <2> QED BY <2>1, <2>2
<1>2. PICK place : \A q \in Touched : q = place
  BY DEF OnePlace
<1>3. \A disk \in seen : \A q : q # place => Node(disk, q) = Node(fs, q)
  BY <1>1, <1>2
<1> QED BY <1>3 DEF SameBut

\* What is kept on every disk as on the last one is kept between any two.
LEMMA WayIsKept ==
  ASSUME fs \in seen, \A disk \in seen : Typed(disk), NEW p \in Seq(STRING), KeptWay(p)
  PROVE  /\ \A disk \in seen : RealPath(disk, LexicalParent(p)) = RealPath(fs, LexicalParent(p))
         /\ \A disk, other \in seen :
              KeptOn(disk, other, LexicalParent(p)) /\ KeptOn(disk, other, RealPath(fs, LexicalParent(p)))
<1> DEFINE named == LexicalParent(p)
           real == RealPath(fs, named)
<1>1. named \in Seq(STRING)
  BY FrontIsPath
<1>2. 1..Len(real) \subseteq DOMAIN real
  <2>1. CASE real = NoPath
    <3>1. 1..Len(NoPath) \subseteq DOMAIN NoPath
      BY DEF NoPath
    <3> QED BY <2>1, <3>1
  <2>2. CASE real # NoPath
    BY <1>1, <2>2, RealPathIsClear, LenProperties DEF Clear
  <2> QED BY <2>1, <2>2
<1>3. 1..Len(named) \subseteq DOMAIN named
  BY <1>1, LenProperties
<1> HIDE DEF named, real
<1>4. \A disk \in seen, way \in {named, real} : KeptOn(disk, fs, way)
  BY <1>2, <1>3 DEF KeptWay, KeptOn, named, real
<1>5. \A disk, other \in seen, way \in {named, real} : KeptOn(disk, other, way)
  BY <1>4 DEF KeptOn
<1>6. \A disk \in seen : RealPath(disk, named) = RealPath(fs, named)
  <2>1. CASE Len(named) = 0
    <3>1. named = <<>>
      BY <1>1, <2>1, EmptySeq
    <3> QED BY <3>1, RootIsReal
  <2>2. CASE Len(named) # 0
    <3>1. Len(named) \in 1..Len(named) /\ SubSeq(named, 1, Len(named)) = named
      BY <1>1, <2>2, SubSeqFull
    <3> QED BY <1>4, <3>1 DEF KeptOn
  <2> QED BY <2>1, <2>2
<1> QED BY <1>5, <1>6 DEF named, real

\* What a walk returns was admissible, where it was led to, on one of the disks.
LEMMA AdmissionIsSound == ASSUME AdmissionInv, WalkInv PROVE FoundWasAdmissible
<1> SUFFICES ASSUME result # NoPath, OnePlace, KeptWay(result)
             PROVE  \E disk \in seen : LedTo(disk) /\ Admissible(disk, result)
  BY DEF FoundWasAdmissible
<1> DEFINE real == RealPath(fs, LexicalParent(result))
<1>1. /\ looking = "done" /\ path = result /\ result \in Seq(STRING) /\ fs \in seen
      /\ \A disk \in seen : Typed(disk)
  BY DEF AdmissionInv
<1>2. PICK place : \A disk, other \in seen : SameBut(disk, other, place)
  BY <1>1, OnlyOnePlace
<1>3. /\ \A disk \in seen : RealPath(disk, LexicalParent(result)) = real
      /\ \A disk, other \in seen : KeptOn(disk, other, LexicalParent(result)) /\ KeptOn(disk, other, real)
  BY <1>1, WayIsKept
<1>4. PICK looked \in seen : Trusted(LStat(looked, result))
  BY <1>1 DEF AdmissionInv, FileTrusted, Past
<1>5. PICK lexical \in seen : ~Rejected(lexical, LexicalParent(result))
  BY <1>1 DEF AdmissionInv, NamedChainPassed, Past
<1> HIDE DEF real
<1>6. PICK resolved \in seen : real # LexicalParent(result) => ~Rejected(resolved, real)
  <2>1. parent = real
    BY <1>1, <1>3 DEF AdmissionInv, ParentReal, Past
  <2> QED BY <1>1, <2>1 DEF AdmissionInv, RealChainPassed, Past
<1>7. /\ \E disk \in seen : Admissible(disk, result)
      /\ \A c \in Seq(STRING), origin \in seen :
           result = RealPath(origin, c) => \E disk \in seen : result = RealPath(disk, c) /\ Admissible(disk, result)
  BY <1>1, <1>2, <1>3, <1>4, <1>5, <1>6, AdmittedAtOnce
<1>8. CASE job = "bind"
  <2>1. \A disk : LedTo(disk)
    BY <1>1, <1>8 DEF AdmissionInv, Led, LedTo
  <2> QED BY <1>7, <2>1
<1>9. CASE job = "find" /\ result = Candidate(entry)
  <2>1. \A disk : LedTo(disk)
    BY <1>9 DEF LedTo
  <2> QED BY <1>7, <2>1
<1>10. CASE job = "find" /\ result # Candidate(entry)
  <2>1. PICK origin \in seen : result = RealPath(origin, Candidate(entry))
    BY <1>1, <1>10 DEF AdmissionInv, Led, Past
  <2>2. Candidate(entry) \in Seq(STRING)
    <3>1. entry \in DOMAIN entries /\ entries \in Seq(Seq(STRING))
      BY <1>10 DEF AdmissionInv, Led, WalkInv
    <3>2. entries[entry] \in Seq(STRING) /\ Name \in STRING
      BY <3>1, ElementOfSeq, LenProperties, WalkAssumption
    <3> QED BY <3>2, AppendProperties DEF Candidate
  <2>3. PICK disk \in seen : result = RealPath(disk, Candidate(entry)) /\ Admissible(disk, result)
    BY <1>7, <2>1, <2>2
  <2>4. LedTo(disk)
    BY <1>10, <2>3 DEF LedTo
  <2> QED BY <2>3, <2>4
<1> QED BY <1>8, <1>9, <1>10 DEF AdmissionInv

\* Each walk adds up soundly, whatever the others do in its midst.
LEMMA AlwaysAdmitted == WalkSpec => [](AdmissionInv /\ WalkInv)
<1>1. WalkInit => AdmissionInv
  BY AdmissionStarts
<1>2. AdmissionInv /\ WalkInv /\ [WalkNext]_walkVars => AdmissionInv'
  <2>1. ASSUME AdmissionInv, UNCHANGED walkVars PROVE AdmissionInv'
    BY <2>1 DEF walkVars, AdmissionInv, Led, Past, FileTrusted, ParentReal, NamedChainPassed, RealChainPassed, Candidate
  <2> QED BY <2>1, LooksAddUp, ChangesAreSeen, Zenon DEF WalkNext
<1> QED BY <1>1, <1>2, AlwaysWalked, PTL DEF WalkSpec

\* The checks are separate looks; yet whatever others do to one place in their midst,
\* short of replacing what is above the file, what a walk returns was admissible, and was
\* where the entry or the command led, at one moment: for every file system, every PATH,
\* every command and any number of changes.
THEOREM FoundIsAdmissible == WalkSpec => []FoundWasAdmissible
<1>1. AdmissionInv /\ WalkInv => FoundWasAdmissible
  BY AdmissionIsSound
<1> QED BY <1>1, AlwaysAdmitted, PTL

-------------------------------------------------------------------------------
(* The process group *)

GroupTypes ==
  /\ platform \in {"waitid", "kqueue"} /\ leader \in {"running", "zombie", "taken"}
  /\ signalling \in Places /\ call \in {"open", "observe", "signal"} /\ raised \in Raised
  /\ handle \in {"none", "queue", "exited"} /\ queue \in {"open", "closed"}
  /\ returncode \in {"none", "lost"} /\ polled \in {"none", "lost", "zero", "status"}
  /\ {event, observing, exited, refused, proved, knew, lostAtCall} \subseteq BOOLEAN

\* What the anchor remembers is so: an exit that was seen has happened, a loss that was
\* found ended the observation, and whatever is past a look was not lost at it.
Anchored ==
  /\ exited \/ handle = "exited" \/ event => leader # "running"
  /\ lostAtCall => leader = "taken"
  /\ platform = "waitid" => handle = "none" /\ (signalling = "register" => ~event)
  /\ signalling \in {"register", "waitable"} => queue = "closed" /\ ~proved /\ observing /\ ~refused
  /\ proved => queue = "closed" /\ (observing => signalling \in {"failed", "done"})
  /\ call = "open" /\ signalling = "look" => observing
  /\ signalling \in {"register", "waitable"} => call = "open"
  /\ signalling = "waitable" => platform = "kqueue"
  /\ signalling \in {"kill", "window"} => call = "signal" /\ observing
  /\ signalling \in {"look", "kill"} => ~refused
  /\ signalling = "look" /\ call = "signal" => knew = exited
  /\ signalling = "kill" /\ platform = "waitid" /\ ~knew => ~lostAtCall
  /\ signalling \in {"failed", "done"} => queue = "closed"
  /\ signalling # "done" => polled = "none"
  /\ signalling = "failed" /\ platform = "kqueue" /\ raised = "lost" => returncode = "lost"
  /\ platform = "kqueue" /\ raised = "lost" => polled # "zero"

GroupInv == GroupTypes /\ Anchored /\ RefusalsAreJudged

\* A group starts with nothing known of it.
LEMMA GroupStarts == ASSUME GroupInit PROVE GroupInv
BY DEF GroupInit, GroupInv, GroupTypes, Anchored, RefusalsAreJudged, Places, Raised

\* Whatever the kernel and the others do, the anchor's memory stays true.
LEMMA KernelIsSafe ==
  ASSUME GroupInv, Kernel, UNCHANGED <<signalling, call, polls, anchor, history, answered>>
  PROVE  GroupInv'
<1> USE DEF GroupInv, GroupTypes, Anchored, RefusalsAreJudged, anchor, history, answered
<1>1. CASE LeaderExits
  BY <1>1 DEF LeaderExits
<1>2. CASE EventArrives
  BY <1>2 DEF EventArrives, kernel
<1>3. CASE MemberExits
  BY <1>3 DEF MemberExits
<1>4. CASE ForeignReap
  BY <1>4 DEF ForeignReap
<1>5. CASE Recycle
  BY <1>5 DEF Recycle
<1> QED BY <1>1, <1>2, <1>3, <1>4, <1>5 DEF Kernel

\* Opening an anchor keeps the memory true.
LEMMA RegisterIsSafe == ASSUME GroupInv, Register PROVE GroupInv'
<1> USE DEF GroupInv, Places, Raised, kernel, history
<1>1. /\ signalling = "register" /\ call = "open" /\ queue = "closed" /\ ~proved /\ polled = "none"
      /\ event' = FALSE /\ polled' = polled /\ proved' = proved /\ refused' = refused
      /\ call' = call /\ platform' = platform /\ exited' = exited /\ leader' = leader
      /\ lostAtCall' = lostAtCall /\ observing' = observing /\ returncode' = returncode
      /\ knew' = knew /\ observing /\ ~refused
  BY DEF Register, Anchored
<1>2. \/ /\ platform = "waitid" /\ signalling' = "look"
         /\ queue' = queue /\ handle' = handle /\ raised' = raised
      \/ /\ platform = "kqueue" /\ signalling' = "look"
         /\ queue' = "open" /\ handle' = "queue" /\ raised' = raised
      \/ /\ platform = "kqueue" /\ signalling' = "waitable"
         /\ queue' = queue /\ handle' = handle /\ raised' = raised
      \/ /\ platform = "kqueue" /\ signalling' = "failed"
         /\ queue' = queue /\ handle' = handle /\ raised' = "observer"
  BY <1>1 DEF Register, Rest
<1>3. GroupTypes'
  BY <1>1, <1>2 DEF GroupTypes
<1>4. Anchored'
  BY <1>1, <1>2 DEF GroupTypes, Anchored
<1>5. RefusalsAreJudged'
  BY <1>1, <1>2 DEF RefusalsAreJudged
<1> QED BY <1>3, <1>4, <1>5

\* An exit is seen only of a leader that has exited, and a loss that waitid can tell is
\* not taken for an exit.
LEMMA LookIsSafe == ASSUME GroupInv, Look, UNCHANGED <<kernel, event>> PROVE GroupInv'
<1> USE DEF GroupInv, GroupTypes, Anchored, RefusalsAreJudged, Places, Raised, kernel
<1>1. /\ Observed \in {"exited", "running", "lost"}
      /\ Observed = "exited" => leader # "running"
      /\ Observed = "lost" => platform = "waitid" /\ leader = "taken"
      /\ platform = "waitid" /\ leader = "taken" /\ ~exited => Observed = "lost"
  BY DEF Observed, Answer
<1>2. CASE Seen
  BY <1>1, <1>2 DEF Look, Seen, Rest
<1>3. CASE Lost
  BY <1>1, <1>3 DEF Look, Lost, Rest
<1>4. CASE LookFails
  BY <1>4 DEF Look, LookFails, Rest, AfterFailure
<1> QED BY <1>2, <1>3, <1>4 DEF Look

\* So does every other call of the owner.
LEMMA OwnerIsSafe == ASSUME GroupInv, Owner, UNCHANGED <<kernel, event>> PROVE GroupInv'
<1> USE DEF GroupInv, GroupTypes, Anchored, RefusalsAreJudged, Places, Raised, kernel, anchor, history, answered
<1>1. CASE Waitable
  <2>1. signalling = "waitable" /\ call = "open" /\ platform = "kqueue" /\ queue = "closed" /\ observing
    BY <1>1 DEF Waitable
  <2>2. UNCHANGED <<event, call, polls, target, queue, observing, exited, refused, knew, lostAtCall, polled>>
    BY <1>1 DEF Waitable
  <2>3. CASE leader = "zombie" /\ signalling' = "look" /\ handle' = "exited" /\ UNCHANGED <<raised, returncode, proved>>
    BY <2>1, <2>2, <2>3
  <2>4. CASE Rest("lost") /\ returncode' = "lost" /\ proved' = TRUE /\ UNCHANGED handle
    <3>1. signalling' = "failed" /\ raised' = "lost"
      BY <2>1, <2>4 DEF Rest
    <3>2. GroupTypes'
      BY <2>1, <2>2, <2>4, <3>1
    <3>3. Anchored'
      BY <2>1, <2>2, <2>4, <3>1
    <3> QED
      BY <2>1, <2>2, <3>1, <3>2, <3>3
  <2> QED
    BY <1>1, <2>3, <2>4 DEF Waitable
<1>2. CASE Look
  BY <1>2, LookIsSafe
<1>3. CASE LookTooLate
  BY <1>3 DEF LookTooLate, Rest
<1>4. CASE Kill
  BY <1>4 DEF Kill, Rest, Ignored, Refusals
<1>5. CASE Close
  <2>1. GroupTypes'
    BY <1>5 DEF Close
  <2>2. Anchored'
    BY <1>5 DEF Close
  <2>3. RefusalsAreJudged'
    BY <1>5 DEF Close
  <2> QED BY <2>1, <2>2, <2>3
<1>6. CASE Poll
  BY <1>6 DEF Poll
<1>7. ASSUME NEW kind \in {"observe", "signal"}, Begin(kind) PROVE GroupInv'
  BY <1>7 DEF Begin
<1> QED BY <1>1, <1>2, <1>3, <1>4, <1>5, <1>6, <1>7 DEF Owner

\* The invariant holds in every interleaving.
LEMMA AlwaysAnchored == GroupSpec => []GroupInv
<1>1. GroupInit => GroupInv
  BY GroupStarts
<1>2. GroupInv /\ [GroupNext]_groupVars => GroupInv'
  <2>1. CASE UNCHANGED groupVars
    BY <2>1 DEF groupVars, GroupInv, GroupTypes, Anchored, RefusalsAreJudged, kernel, anchor, history, answered
  <2> QED BY <2>1, KernelIsSafe, RegisterIsSafe, OwnerIsSafe DEF GroupNext
<1> QED BY <1>1, <1>2, PTL DEF GroupSpec

\* No signal follows a loss that was found, wherever the exit, the foreign wait and the
\* reuse of the number fall between the looks.
THEOREM NoSignalAfterALoss == GroupSpec => []LossStopsSignals
<1>1. GroupInv => LossStopsSignals
  BY DEF GroupInv, GroupTypes, Anchored, LossStopsSignals
<1> QED BY <1>1, AlwaysAnchored, PTL

\* A refusal is dropped only behind an exit, however late the kernel tells of it.
THEOREM RefusalsAreNotDropped == GroupSpec => []RefusalsAreJudged
<1>1. GroupInv => RefusalsAreJudged
  BY DEF GroupInv
<1> QED BY <1>1, AlwaysAnchored, PTL
===============================================================================
