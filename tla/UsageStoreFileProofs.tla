------------------------- MODULE UsageStoreFileProofs -------------------------
(***************************************************************************)
(* The usage store is never torn, never loses an acknowledged update and   *)
(* implements AtomicStore, for every number of processes, operations and   *)
(* failures.                                                               *)
(***************************************************************************)
EXTENDS UsageStoreFile, TLAPS

\* From the lock to the answer.
Held == {"locked", "load", "recheck", "sync", "done"} \cup Writing

\* The path leads to the directory of the last swap.
Typed == TypeOK /\ current = swaps

\* Whoever is in the middle of an operation holds the lock of its directory, an
\* updater holds it alone.
Locking ==
  /\ \A p \in Procs : pc[p] \in Held => <<p, Exclusive(p)>> \in holders[fd[p]]
  /\ \A d \in Dirs : \A h \in holders[d] :
       pc[h[1]] \notin {"idle", "open", "lock"} /\ fd[h[1]] = d
  /\ \A d \in Dirs : \A h \in holders[d], k \in holders[d] : h[2] => h = k

\* What a process knows by where it is.
Local(p) ==
  /\ pc[p] # "idle" => count[p] # 0
  /\ pc[p] \in {"recheck", "sync"} \cup Writing => op[p] # "report"
  /\ pc[p] = "write" => temp[p] = "partial"
  /\ pc[p] \in {"check", "rename"} => temp[p] = "synced"
  /\ pc[p] \notin {"write", "check", "rename", "fail"} => temp[p] \in {"none", "litter"}
  /\ pc[p] = "sync" => inPlace[p] = TRUE
  /\ pc[p] = "done" /\ op[p] = "record" => inPlace[p] = TRUE

\* A power loss leaves no store where there was none, and else an older one.
Solid ==
  \A d \in Dirs :
    /\ file[d] \in {Absent} \cup SUBSET Updates /\ file[d] \in solid[d]
    /\ file[d] = Absent => solid[d] = {Absent}
    /\ \A c \in solid[d] : c = Absent \/ (c \in SUBSET Updates /\ c \subseteq file[d])

\* What a process that updates the store has to do with it.
Pending(p) ==
  /\ pc[p] \in Writing => IF op[p] = "record"
                          THEN seen[p] \in SUBSET Updates /\ file[fd[p]] = seen[p]
                          ELSE file[fd[p]] = Absent
  /\ pc[p] \in {"recheck", "sync"} => file[fd[p]] # Absent
  /\ pc[p] \in {"recheck", "sync"} /\ op[p] = "record" => Update(p) \in file[fd[p]]
  /\ pc[p] = "done" /\ op[p] = "record" =>
       \A c \in solid[fd[p]] : c # Absent /\ Update(p) \in c

Stored == Solid /\ (\A p \in Procs : Pending(p)) /\ AckedIsDurable

Inv == Typed /\ Locking /\ (\A p \in Procs : Local(p)) /\ Stored

-------------------------------------------------------------------------------
\* No step leaves the types.
LEMMA TypedStep == Inv /\ [Next]_vars => Typed'
<1> SUFFICES ASSUME Inv, [Next]_vars PROVE Typed'
    OBVIOUS
<1> USE UsageStoreFileAssumption DEF Inv, Typed, TypeOK, Goto, Places, Writing, process, disk,
            bounds, Dirs
<1>0. \A p \in Procs : Released(p) \in [Dirs -> SUBSET (Procs \X BOOLEAN)]
  BY DEF Released
<1>a. \A p \in Procs : Exclusive(p) \in BOOLEAN /\ ParentUnchanged(p) \in BOOLEAN
  BY Zenon DEF Exclusive, ParentUnchanged
<1>b. \A p \in Procs : pc[p] # "idle" => Update(p) \in Updates
  BY DEF Update, Updates, Local
<1>1. ASSUME NEW p \in Procs, NEW kind \in {"record", "enable", "report"}, Start(p, kind)
      PROVE  Typed'
  BY <1>1 DEF Start
<1>2. ASSUME NEW p \in Procs, OpenParent(p) PROVE Typed'
  BY <1>2 DEF OpenParent
<1>3. ASSUME NEW p \in Procs, Lock(p) PROVE Typed'
  <2>1. {<<p, Exclusive(p)>>} \subseteq Procs \X BOOLEAN
    BY <1>a
  <2> QED
    BY <1>3, <2>1 DEF Lock
<1>4. ASSUME NEW p \in Procs, EnterLocked(p) PROVE Typed'
  BY <1>4 DEF EnterLocked
<1>5. ASSUME NEW p \in Procs, Load(p) PROVE Typed'
  <2>1. {} \in Contents
    BY DEF Contents
  <2>2. seen' \in [Procs -> Contents]
    <3> DEFINE new == IF op[p] = "enable" THEN {} ELSE file[fd[p]]
    <3>1. new \in Contents
      BY <2>1
    <3>2. CASE ParentUnchanged(p)
      <4>1. seen' = [seen EXCEPT ![p] = new]
        BY <1>5, <3>2, Zenon DEF Load
      <4> HIDE DEF new
      <4> QED
        BY <3>1, <4>1
    <3>3. CASE ~ParentUnchanged(p)
      BY <1>5, <3>3 DEF Load
    <3> QED
      BY <3>2, <3>3
  <2>3. AfterLoad(p, file[fd[p]]) \in Places
    BY DEF AfterLoad
  <2>4. pc' \in [Procs -> Places]
    <3>1. \/ pc' = [pc EXCEPT ![p] = AfterLoad(p, file[fd[p]])]
          \/ pc' = [pc EXCEPT ![p] = "fail"]
      BY <1>5, Zenon DEF Load
    <3>2. pc \in [Procs -> Places] /\ "fail" \in Places
      OBVIOUS
    <3> HIDE DEF Places, Inv, Typed, TypeOK
    <3> QED
      BY <2>3, <3>1, <3>2
  <2> QED
    BY <1>5, <2>2, <2>4 DEF Load
<1>6. ASSUME NEW p \in Procs, CreateTemporary(p) PROVE Typed'
  BY <1>6 DEF CreateTemporary
<1>7. ASSUME NEW p \in Procs, WriteTemporary(p) PROVE Typed'
  BY <1>7 DEF WriteTemporary, Written
<1>8. ASSUME NEW p \in Procs, CheckParent(p) PROVE Typed'
  BY <1>8 DEF CheckParent
<1>9. ASSUME NEW p \in Procs, Rename(p) PROVE Typed'
  <2>1. NewContent(p) \in Contents
    BY <1>9, <1>b DEF Rename, NewContent, Contents, Stored, Pending
  <2>2. Torn \in Contents
    BY DEF Contents
  <2> QED
    BY <1>9, <1>a, <2>1, <2>2 DEF Rename
<1>10. ASSUME NEW p \in Procs, RecheckParent(p) PROVE Typed'
  <2>1. inPlace' \in [Procs -> BOOLEAN]
    BY <1>10, <1>a, Zenon DEF RecheckParent
  <2> QED
    BY <1>10, <2>1 DEF RecheckParent, AfterRecheck
<1>11. ASSUME NEW p \in Procs, SyncDirectory(p) PROVE Typed'
  BY <1>11 DEF SyncDirectory
<1>12. ASSUME NEW p \in Procs, Finish(p) PROVE Typed'
  BY <1>0, <1>b, <1>12 DEF Finish
<1>13. ASSUME NEW p \in Procs, Fail(p) PROVE Typed'
  BY <1>0, <1>13 DEF Fail, Unlinked
<1>14. ASSUME NEW p \in Procs, UnlinkFails(p) PROVE Typed'
  BY <1>0, <1>14 DEF UnlinkFails
<1>15. ASSUME NEW p \in Procs, StepFails(p) PROVE Typed'
  BY <1>15 DEF StepFails
<1>16. ASSUME NEW p \in Procs, Killed(p) PROVE Typed'
  BY <1>0, <1>16 DEF Killed
<1>17. CASE PowerLoss
  <2>1. PICK left \in [Dirs -> UNION {solid[d] : d \in Dirs}] :
          /\ \A d \in Dirs : left[d] \in solid[d]
          /\ file' = left /\ solid' = [d \in Dirs |-> {left[d]}]
    BY <1>17 DEF PowerLoss
  <2>2. left \in [Dirs -> Contents]
    BY <2>1
  <2>3. solid' \in [Dirs -> SUBSET Contents]
    BY <2>1, <2>2
  <2>4. pc' \in [Procs -> Places] /\ holders' \in [Dirs -> SUBSET (Procs \X BOOLEAN)]
        /\ temp' \in [Procs -> {"none", "partial", "synced", "litter"}]
    BY <1>17 DEF PowerLoss
  <2>5. /\ failures < MaxFailures /\ failures' = failures + 1
        /\ UNCHANGED <<process, current, acked, swaps, inPlace>>
    BY <1>17, Zenon DEF PowerLoss
  <2>6. file' \in [Dirs -> Contents]
    BY <2>1, <2>2
  <2>7. failures' \in 0..MaxFailures
    BY <2>5
  <2> QED
    BY <2>3, <2>4, <2>5, <2>6, <2>7
<1>18. CASE SwapParent
  BY <1>18 DEF SwapParent
<1>19. CASE UNCHANGED vars
  BY <1>19 DEF vars
<1> HIDE DEF Inv, Typed, TypeOK, Goto, Places, Writing, process, disk, bounds, Dirs
<1> QED
  BY <1>1, <1>2, <1>3, <1>4, <1>5, <1>6, <1>7, <1>8, <1>9, <1>10,
     <1>11, <1>12, <1>13, <1>14, <1>15, <1>16, <1>17, <1>18, <1>19 DEF Next, Step

\* No step breaks what a process knows.
LEMMA LocalStep == Inv /\ [Next]_vars => (\A q \in Procs : Local(q))'
<1> SUFFICES ASSUME Inv, [Next]_vars PROVE (\A q \in Procs : Local(q))'
    OBVIOUS
<1> USE UsageStoreFileAssumption DEF Inv, Typed, TypeOK, Local, Goto, Writing, process, disk,
            bounds
<1>1. ASSUME NEW p \in Procs, NEW kind \in {"record", "enable", "report"}, Start(p, kind)
      PROVE  (\A q \in Procs : Local(q))'
  BY <1>1 DEF Start
<1>2. ASSUME NEW p \in Procs, OpenParent(p) PROVE (\A q \in Procs : Local(q))'
  BY <1>2 DEF OpenParent
<1>3. ASSUME NEW p \in Procs, Lock(p) PROVE (\A q \in Procs : Local(q))'
  BY <1>3 DEF Lock
<1>4. ASSUME NEW p \in Procs, EnterLocked(p) PROVE (\A q \in Procs : Local(q))'
  BY <1>4 DEF EnterLocked
<1>5. ASSUME NEW p \in Procs, Load(p) PROVE (\A q \in Procs : Local(q))'
  BY <1>5 DEF Load, AfterLoad
<1>6. ASSUME NEW p \in Procs, CreateTemporary(p) PROVE (\A q \in Procs : Local(q))'
  BY <1>6 DEF CreateTemporary
<1>7. ASSUME NEW p \in Procs, WriteTemporary(p) PROVE (\A q \in Procs : Local(q))'
  BY <1>7 DEF WriteTemporary, Written
<1>8. ASSUME NEW p \in Procs, CheckParent(p) PROVE (\A q \in Procs : Local(q))'
  BY <1>8 DEF CheckParent
<1>9. ASSUME NEW p \in Procs, Rename(p) PROVE (\A q \in Procs : Local(q))'
  BY <1>9 DEF Rename
<1>10. ASSUME NEW p \in Procs, RecheckParent(p) PROVE (\A q \in Procs : Local(q))'
  <2>1. ParentUnchanged(p) => inPlace'[p] = TRUE
    BY <1>10, Zenon DEF RecheckParent
  <2>2. \A q \in Procs : q # p => inPlace'[q] = inPlace[q]
    BY <1>10 DEF RecheckParent
  <2>3. pc'[p] = AfterRecheck(p)
    BY <1>10 DEF RecheckParent
  <2>4. AfterRecheck(p) = "fail" \/ (AfterRecheck(p) = "sync" /\ ParentUnchanged(p))
    BY DEF AfterRecheck
  <2> QED
    BY <1>10, <2>1, <2>2, <2>3, <2>4 DEF RecheckParent
<1>11. ASSUME NEW p \in Procs, SyncDirectory(p) PROVE (\A q \in Procs : Local(q))'
  BY <1>11 DEF SyncDirectory
<1>12. ASSUME NEW p \in Procs, Finish(p) PROVE (\A q \in Procs : Local(q))'
  BY <1>12 DEF Finish
<1>13. ASSUME NEW p \in Procs, Fail(p) PROVE (\A q \in Procs : Local(q))'
  BY <1>13 DEF Fail, Unlinked
<1>14. ASSUME NEW p \in Procs, UnlinkFails(p) PROVE (\A q \in Procs : Local(q))'
  BY <1>14 DEF UnlinkFails
<1>15. ASSUME NEW p \in Procs, StepFails(p) PROVE (\A q \in Procs : Local(q))'
  BY <1>15 DEF StepFails
<1>16. ASSUME NEW p \in Procs, Killed(p) PROVE (\A q \in Procs : Local(q))'
  BY <1>16 DEF Killed
<1>17. CASE PowerLoss
  BY <1>17 DEF PowerLoss
<1>18. CASE SwapParent
  BY <1>18 DEF SwapParent
<1>19. CASE UNCHANGED vars
  BY <1>19 DEF vars
<1> HIDE DEF Inv, Typed, TypeOK, Local, Goto, Writing, process, disk, bounds
<1> QED
  BY <1>1, <1>2, <1>3, <1>4, <1>5, <1>6, <1>7, <1>8, <1>9, <1>10,
     <1>11, <1>12, <1>13, <1>14, <1>15, <1>16, <1>17, <1>18, <1>19 DEF Next, Step

\* No step breaks the locking.
LEMMA LockingStep == Inv /\ [Next]_vars => Locking'
<1> SUFFICES ASSUME Inv, [Next]_vars PROVE Locking'
    OBVIOUS
<1> USE UsageStoreFileAssumption DEF Inv, Typed, TypeOK, Locking, Held, Exclusive, Goto,
            Writing, process, disk, bounds
<1>0. ASSUME NEW p \in Procs, holders' = Released(p), pc' = [pc EXCEPT ![p] = "idle"],
             UNCHANGED <<op, fd>>
      PROVE  Locking'
  <2>1. \A d \in Dirs : holders'[d] = {h \in holders[d] : h[1] # p}
    BY <1>0 DEF Released
  <2>2. \A q \in Procs : pc'[q] \in Held => q # p /\ pc[q] \in Held
    BY <1>0
  <2>3. \A q \in Procs : pc'[q] \in Held => <<q, Exclusive(q)>> \in holders'[fd[q]]
    BY <2>1, <2>2
  <2>4. \A d \in Dirs : \A h \in holders'[d] : h[1] \in Procs /\ h[1] # p /\ h \in holders[d]
    BY <2>1
  <2>5. \A q \in Procs : q # p => pc'[q] = pc[q]
    BY <1>0
  <2> QED
    BY <1>0, <2>3, <2>4, <2>5
<1>1. ASSUME NEW p \in Procs, NEW kind \in {"record", "enable", "report"}, Start(p, kind)
      PROVE  Locking'
  BY <1>1 DEF Start
<1>2. ASSUME NEW p \in Procs, OpenParent(p) PROVE Locking'
  BY <1>2 DEF OpenParent
<1>3. ASSUME NEW p \in Procs, Lock(p) PROVE Locking'
  BY <1>3 DEF Lock
<1>4. ASSUME NEW p \in Procs, EnterLocked(p) PROVE Locking'
  BY <1>4 DEF EnterLocked
<1>5. ASSUME NEW p \in Procs, Load(p) PROVE Locking'
  BY <1>5 DEF Load, AfterLoad
<1>6. ASSUME NEW p \in Procs, CreateTemporary(p) PROVE Locking'
  BY <1>6 DEF CreateTemporary
<1>7. ASSUME NEW p \in Procs, WriteTemporary(p) PROVE Locking'
  BY <1>7 DEF WriteTemporary
<1>8. ASSUME NEW p \in Procs, CheckParent(p) PROVE Locking'
  BY <1>8 DEF CheckParent
<1>9. ASSUME NEW p \in Procs, Rename(p) PROVE Locking'
  BY <1>9 DEF Rename
<1>10. ASSUME NEW p \in Procs, RecheckParent(p) PROVE Locking'
  BY <1>10 DEF RecheckParent, AfterRecheck
<1>11. ASSUME NEW p \in Procs, SyncDirectory(p) PROVE Locking'
  BY <1>11 DEF SyncDirectory
<1>12. ASSUME NEW p \in Procs, Finish(p) PROVE Locking'
  BY <1>0, <1>12 DEF Finish
<1>13. ASSUME NEW p \in Procs, Fail(p) PROVE Locking'
  BY <1>0, <1>13 DEF Fail
<1>14. ASSUME NEW p \in Procs, UnlinkFails(p) PROVE Locking'
  BY <1>0, <1>14 DEF UnlinkFails
<1>15. ASSUME NEW p \in Procs, StepFails(p) PROVE Locking'
  BY <1>15 DEF StepFails
<1>16. ASSUME NEW p \in Procs, Killed(p) PROVE Locking'
  BY <1>0, <1>16 DEF Killed
<1>17. CASE PowerLoss
  BY <1>17 DEF PowerLoss
<1>18. CASE SwapParent
  BY <1>18 DEF SwapParent
<1>19. CASE UNCHANGED vars
  BY <1>19 DEF vars
<1> HIDE DEF Inv, Typed, TypeOK, Locking, Held, Exclusive, Goto, Writing, process, disk,
            bounds
<1> QED
  BY <1>1, <1>2, <1>3, <1>4, <1>5, <1>6, <1>7, <1>8, <1>9, <1>10,
     <1>11, <1>12, <1>13, <1>14, <1>15, <1>16, <1>17, <1>18, <1>19 DEF Next, Step

\* An updater is alone with its directory.
LEMMA Alone ==
  ASSUME Inv, NEW p \in Procs, NEW q \in Procs, fd[p] = fd[q],
         pc[p] \in {"recheck", "sync"} \cup Writing,
         pc[q] \in {"recheck", "sync"} \cup Writing \/ (pc[q] = "done" /\ op[q] = "record")
  PROVE  p = q
<1>1. op[p] # "report" /\ op[q] # "report"
  BY DEF Inv, Local
<1>2. <<p, TRUE>> \in holders[fd[p]] /\ <<q, TRUE>> \in holders[fd[p]]
  <2>1. Exclusive(p) = TRUE /\ Exclusive(q) = TRUE
    BY <1>1, Zenon DEF Exclusive
  <2> QED
    BY <2>1 DEF Inv, Locking, Held
<1>3. fd[p] \in Dirs
  BY DEF Inv, Typed, TypeOK
<1> QED
  BY <1>2, <1>3 DEF Inv, Locking

\* What a process is about to store is a store, and has all that is in the old one.
LEMMA Newer ==
  ASSUME Inv, NEW p \in Procs, pc[p] = "rename"
  PROVE  /\ NewContent(p) \in SUBSET Updates
         /\ file[fd[p]] # Absent => file[fd[p]] \subseteq NewContent(p)
         /\ op[p] = "record" => file[fd[p]] # Absent /\ Update(p) \in NewContent(p)
         /\ fd[p] \in Dirs /\ temp[p] = "synced"
<1>1. Update(p) \in Updates
  BY UsageStoreFileAssumption DEF Inv, Typed, TypeOK, Local, Update, Updates
<1>2. fd[p] \in Dirs /\ temp[p] = "synced" /\ Pending(p)
  BY DEF Inv, Typed, TypeOK, Local, Stored
<1>3. \A s \in SUBSET Updates : s # Absent
  BY UsageStoreFileAssumption DEF Updates
<1> QED
  BY <1>1, <1>2, <1>3 DEF Pending, NewContent, Writing

\* The store of a directory, and what a power loss may leave of it, are whole.
LEMMA DiskContents ==
  ASSUME Inv, NEW d \in Dirs
  PROVE  /\ file[d] \in {Absent} \cup SUBSET Updates /\ file[d] \in solid[d]
         /\ \A c \in solid[d] : c \in {Absent} \cup SUBSET Updates
<1>1. Solid
  BY DEF Inv, Stored
<1>2. /\ file[d] \in {Absent} \cup SUBSET Updates /\ file[d] \in solid[d]
      /\ \A c \in solid[d] : c = Absent \/ (c \in SUBSET Updates /\ c \subseteq file[d])
  BY <1>1, Zenon DEF Solid
<1> QED
  BY <1>2

\* No step breaks what is on the disk.
LEMMA SolidStep == Inv /\ [Next]_vars => Solid'
<1> SUFFICES ASSUME Inv, [Next]_vars PROVE Solid'
    OBVIOUS
<1> USE UsageStoreFileAssumption DEF Inv, Typed, TypeOK, Solid, Stored, process, disk, bounds
<1>0. \A s \in SUBSET Updates : s # Absent
  BY DEF Updates
<1>1. ASSUME NEW p \in Procs, NEW kind \in {"record", "enable", "report"}, Start(p, kind)
      PROVE  Solid'
  BY <1>1 DEF Start
<1>2. ASSUME NEW p \in Procs, OpenParent(p) PROVE Solid'
  BY <1>2 DEF OpenParent
<1>3. ASSUME NEW p \in Procs, Lock(p) PROVE Solid'
  BY <1>3 DEF Lock
<1>4. ASSUME NEW p \in Procs, EnterLocked(p) PROVE Solid'
  BY <1>4 DEF EnterLocked
<1>5. ASSUME NEW p \in Procs, Load(p) PROVE Solid'
  BY <1>5 DEF Load
<1>6. ASSUME NEW p \in Procs, CreateTemporary(p) PROVE Solid'
  BY <1>6 DEF CreateTemporary
<1>7. ASSUME NEW p \in Procs, WriteTemporary(p) PROVE Solid'
  BY <1>7 DEF WriteTemporary
<1>8. ASSUME NEW p \in Procs, CheckParent(p) PROVE Solid'
  BY <1>8 DEF CheckParent
<1>9. ASSUME NEW p \in Procs, Rename(p) PROVE Solid'
  <2>1. /\ NewContent(p) \in SUBSET Updates
        /\ file[fd[p]] # Absent => file[fd[p]] \subseteq NewContent(p)
        /\ fd[p] \in Dirs /\ temp[p] = "synced"
    BY <1>9, Newer DEF Rename
  <2>2. file' = [file EXCEPT ![fd[p]] = NewContent(p)]
    BY <1>9 DEF Rename
  <2>3. solid' = [solid EXCEPT ![fd[p]] = solid[fd[p]] \cup {NewContent(p)}]
    BY <1>9, <2>1 DEF Rename
  <2>4. \A d \in Dirs \ {fd[p]} : file'[d] = file[d] /\ solid'[d] = solid[d]
    BY <2>2, <2>3
  <2>5. file'[fd[p]] = NewContent(p) /\ solid'[fd[p]] = solid[fd[p]] \cup {NewContent(p)}
    BY <2>1, <2>2, <2>3
  <2> QED
    BY <1>0, <2>1, <2>4, <2>5
<1>10. ASSUME NEW p \in Procs, RecheckParent(p) PROVE Solid'
  BY <1>10 DEF RecheckParent
<1>11. ASSUME NEW p \in Procs, SyncDirectory(p) PROVE Solid'
  BY <1>11 DEF SyncDirectory
<1>12. ASSUME NEW p \in Procs, Finish(p) PROVE Solid'
  BY <1>12 DEF Finish
<1>13. ASSUME NEW p \in Procs, Fail(p) PROVE Solid'
  BY <1>13 DEF Fail
<1>14. ASSUME NEW p \in Procs, UnlinkFails(p) PROVE Solid'
  BY <1>14 DEF UnlinkFails
<1>15. ASSUME NEW p \in Procs, StepFails(p) PROVE Solid'
  BY <1>15 DEF StepFails
<1>16. ASSUME NEW p \in Procs, Killed(p) PROVE Solid'
  BY <1>16 DEF Killed
<1>17. CASE PowerLoss
  <2>1. PICK left \in [Dirs -> UNION {solid[d] : d \in Dirs}] :
          /\ \A d \in Dirs : left[d] \in solid[d]
          /\ file' = left /\ solid' = [d \in Dirs |-> {left[d]}]
    BY <1>17 DEF PowerLoss
  <2>2. ASSUME NEW d \in Dirs
        PROVE  solid'[d] = {file'[d]} /\ file'[d] \in {Absent} \cup SUBSET Updates
    <3>1. left[d] \in solid[d] /\ solid'[d] = {left[d]} /\ file'[d] = left[d]
      BY <2>1
    <3>2. left[d] \in {Absent} \cup SUBSET Updates
      BY <3>1, DiskContents
    <3> QED
      BY <3>1, <3>2
  <2>3. ASSUME NEW d \in Dirs
        PROVE  /\ file'[d] \in {Absent} \cup SUBSET Updates /\ file'[d] \in solid'[d]
               /\ file'[d] = Absent => solid'[d] = {Absent}
               /\ \A c \in solid'[d] : c = Absent \/ (c \in SUBSET Updates /\ c \subseteq file'[d])
    <3>1. \A c \in solid'[d] : c = file'[d]
      BY <2>2
    <3>2. solid'[d] = {file'[d]} /\ (file'[d] = Absent \/ file'[d] \in SUBSET Updates)
      BY <2>2
    <3> HIDE DEF Solid
    <3> QED
      BY <3>1, <3>2
  <2> QED
    BY <2>3
<1>18. CASE SwapParent
  BY <1>18 DEF SwapParent
<1>19. CASE UNCHANGED vars
  BY <1>19 DEF vars
<1> HIDE DEF Inv, Typed, TypeOK, Solid, Stored, process, disk, bounds
<1> QED
  BY <1>1, <1>2, <1>3, <1>4, <1>5, <1>6, <1>7, <1>8, <1>9, <1>10,
     <1>11, <1>12, <1>13, <1>14, <1>15, <1>16, <1>17, <1>18, <1>19 DEF Next, Step

\* No step changes what a process is about to do with the store.
LEMMA PendingStep == Inv /\ [Next]_vars => (\A q \in Procs : Pending(q))'
<1> SUFFICES ASSUME Inv, [Next]_vars PROVE (\A q \in Procs : Pending(q))'
    OBVIOUS
<1> USE UsageStoreFileAssumption DEF Inv, Typed, TypeOK, Stored, Pending, Update, Writing, Goto,
            process, disk, bounds
<1>0. \A q \in Procs : Local(q) /\ fd[q] \in Dirs
  OBVIOUS
<1>1. ASSUME NEW p \in Procs, NEW kind \in {"record", "enable", "report"}, Start(p, kind)
      PROVE  (\A q \in Procs : Pending(q))'
  BY <1>1 DEF Start
<1>2. ASSUME NEW p \in Procs, OpenParent(p) PROVE (\A q \in Procs : Pending(q))'
  BY <1>2 DEF OpenParent
<1>3. ASSUME NEW p \in Procs, Lock(p) PROVE (\A q \in Procs : Pending(q))'
  BY <1>3 DEF Lock
<1>4. ASSUME NEW p \in Procs, EnterLocked(p) PROVE (\A q \in Procs : Pending(q))'
  BY <1>4 DEF EnterLocked
<1>5. ASSUME NEW p \in Procs, Load(p) PROVE (\A q \in Procs : Pending(q))'
  <2>1. /\ \A q \in Procs : q # p => pc'[q] = pc[q] /\ seen'[q] = seen[q]
        /\ UNCHANGED <<op, count, fd, file, solid>>
    BY <1>5 DEF Load
  <2>2. \/ pc'[p] \in {"fail", "done"} /\ op[p] # "record"
        \/ pc'[p] = "fail"
        \/ /\ pc'[p] = "temp"
           /\ IF op[p] = "record" THEN file[fd[p]] # Absent /\ seen'[p] = file[fd[p]]
                                  ELSE file[fd[p]] = Absent
    <3>1. CASE ParentUnchanged(p)
      <4>1. pc'[p] = AfterLoad(p, file[fd[p]])
        BY <1>5, <3>1 DEF Load
      <4>2. op[p] = "record" => seen'[p] = file[fd[p]]
        BY <1>5, <3>1 DEF Load
      <4> QED
        BY <4>1, <4>2 DEF AfterLoad
    <3>2. CASE ~ParentUnchanged(p)
      BY <1>5, <3>2 DEF Load
    <3> QED
      BY <3>1, <3>2
  <2>3. file[fd[p]] # Absent => file[fd[p]] \in SUBSET Updates
    BY <1>0, DiskContents, Zenon
  <2>4. ASSUME NEW q \in Procs PROVE Pending(q)'
    <3>1. CASE q = p
      BY <2>1, <2>2, <2>3, <3>1
    <3>2. CASE q # p
      BY <2>1, <3>2
    <3> QED
      BY <3>1, <3>2
  <2> QED
    BY <2>4
<1>6. ASSUME NEW p \in Procs, CreateTemporary(p) PROVE (\A q \in Procs : Pending(q))'
  BY <1>6 DEF CreateTemporary
<1>7. ASSUME NEW p \in Procs, WriteTemporary(p) PROVE (\A q \in Procs : Pending(q))'
  BY <1>7 DEF WriteTemporary
<1>8. ASSUME NEW p \in Procs, CheckParent(p) PROVE (\A q \in Procs : Pending(q))'
  BY <1>8 DEF CheckParent
<1>9. ASSUME NEW p \in Procs, Rename(p) PROVE (\A q \in Procs : Pending(q))'
  <2>1. NewContent(p) # Absent /\ (op[p] = "record" => Update(p) \in NewContent(p))
    BY <1>9, Newer DEF Rename, Updates
  <2>2. \A q \in Procs : q # p => pc'[q] = pc[q]
    BY <1>9 DEF Rename
  <2>3. ASSUME NEW q \in Procs, q # p, fd[q] = fd[p],
               \/ pc[q] \in {"recheck", "sync"} \cup Writing
               \/ pc[q] = "done" /\ op[q] = "record"
        PROVE  FALSE
    BY <1>9, <2>3, Alone DEF Rename
  <2>4. \A d \in Dirs : d # fd[p] => file'[d] = file[d] /\ solid'[d] = solid[d]
    BY <1>9 DEF Rename
  <2>5. file'[fd[p]] = NewContent(p) /\ pc'[p] = "recheck"
    BY <1>9 DEF Rename
  <2>6. UNCHANGED <<op, count, fd, seen>>
    BY <1>9 DEF Rename
  <2>7. ASSUME NEW q \in Procs PROVE Pending(q)'
    <3>1. CASE q = p
      BY <2>1, <2>5, <2>6, <3>1
    <3>2. CASE q # p /\ fd[q] = fd[p]
      BY <2>2, <2>3, <2>6, <3>2
    <3>3. CASE q # p /\ fd[q] # fd[p]
      <4>1. file'[fd[q]] = file[fd[q]] /\ solid'[fd[q]] = solid[fd[q]] /\ pc'[q] = pc[q]
        BY <1>0, <2>2, <2>4, <3>3
      <4> QED
        BY <2>6, <4>1
    <3> QED
      BY <3>1, <3>2, <3>3
  <2> QED
    BY <2>7
<1>10. ASSUME NEW p \in Procs, RecheckParent(p) PROVE (\A q \in Procs : Pending(q))'
  BY <1>10 DEF RecheckParent, AfterRecheck
<1>11. ASSUME NEW p \in Procs, SyncDirectory(p) PROVE (\A q \in Procs : Pending(q))'
  <2>1. \A q \in Procs : q # p => pc'[q] = pc[q]
    BY <1>11 DEF SyncDirectory
  <2>2. ASSUME NEW q \in Procs, q # p, fd[q] = fd[p], pc[q] = "done", op[q] = "record"
        PROVE  FALSE
    BY <1>11, <2>2, Alone DEF SyncDirectory
  <2>3. \A d \in Dirs : d # fd[p] => solid'[d] = solid[d]
    BY <1>11 DEF SyncDirectory
  <2>4. solid'[fd[p]] = {file[fd[p]]} /\ pc'[p] = "done" /\ pc[p] = "sync"
    BY <1>11, <1>0 DEF SyncDirectory
  <2>5. UNCHANGED <<op, count, fd, seen, file>>
    BY <1>11 DEF SyncDirectory
  <2>6. ASSUME NEW q \in Procs PROVE Pending(q)'
    <3>1. CASE q = p
      BY <2>4, <2>5, <3>1
    <3>2. CASE q # p /\ fd[q] = fd[p]
      BY <2>1, <2>2, <2>5, <3>2
    <3>3. CASE q # p /\ fd[q] # fd[p]
      <4>1. solid'[fd[q]] = solid[fd[q]] /\ pc'[q] = pc[q]
        BY <1>0, <2>1, <2>3, <3>3
      <4> QED
        BY <2>5, <4>1
    <3> QED
      BY <3>1, <3>2, <3>3
  <2> QED
    BY <2>6
<1>12. ASSUME NEW p \in Procs, Finish(p) PROVE (\A q \in Procs : Pending(q))'
  BY <1>12 DEF Finish
<1>13. ASSUME NEW p \in Procs, Fail(p) PROVE (\A q \in Procs : Pending(q))'
  BY <1>13 DEF Fail
<1>14. ASSUME NEW p \in Procs, UnlinkFails(p) PROVE (\A q \in Procs : Pending(q))'
  BY <1>14 DEF UnlinkFails
<1>15. ASSUME NEW p \in Procs, StepFails(p) PROVE (\A q \in Procs : Pending(q))'
  BY <1>15 DEF StepFails
<1>16. ASSUME NEW p \in Procs, Killed(p) PROVE (\A q \in Procs : Pending(q))'
  BY <1>16 DEF Killed
<1>17. CASE PowerLoss
  BY <1>17 DEF PowerLoss
<1>18. CASE SwapParent
  BY <1>18 DEF SwapParent
<1>19. CASE UNCHANGED vars
  BY <1>19 DEF vars
<1> HIDE DEF Inv, Typed, TypeOK, Stored, Pending, Update, Writing, Goto, process, disk,
            bounds
<1> QED
  BY <1>1, <1>2, <1>3, <1>4, <1>5, <1>6, <1>7, <1>8, <1>9, <1>10,
     <1>11, <1>12, <1>13, <1>14, <1>15, <1>16, <1>17, <1>18, <1>19 DEF Next, Step

\* No step takes back what was acknowledged.
LEMMA DurableStep == Inv /\ [Next]_vars => AckedIsDurable'
<1> SUFFICES ASSUME Inv, [Next]_vars PROVE AckedIsDurable'
    OBVIOUS
<1> USE UsageStoreFileAssumption DEF Inv, Typed, TypeOK, AckedIsDurable, Stored, process, disk,
            bounds
<1>0. \A s \in SUBSET Updates : s \notin {Absent, Torn}
  BY DEF Updates
<1>a. ASSUME acked' = acked, \A d \in Dirs : solid'[d] \subseteq solid[d] PROVE AckedIsDurable'
  <2>1. ASSUME NEW u \in acked'
        PROVE  \E d \in Dirs : \A c \in solid'[d] : c \notin {Absent, Torn} /\ u \in c
    <3>1. PICK d \in Dirs : \A c \in solid[d] : c \notin {Absent, Torn} /\ u \in c
      BY <1>a, <2>1
    <3> QED
      BY <1>a, <3>1
  <2> QED
    BY <2>1
<1>1. ASSUME NEW p \in Procs, NEW kind \in {"record", "enable", "report"}, Start(p, kind)
      PROVE  AckedIsDurable'
  BY <1>a, <1>1 DEF Start
<1>2. ASSUME NEW p \in Procs, OpenParent(p) PROVE AckedIsDurable'
  BY <1>a, <1>2 DEF OpenParent
<1>3. ASSUME NEW p \in Procs, Lock(p) PROVE AckedIsDurable'
  BY <1>a, <1>3 DEF Lock
<1>4. ASSUME NEW p \in Procs, EnterLocked(p) PROVE AckedIsDurable'
  BY <1>a, <1>4 DEF EnterLocked
<1>5. ASSUME NEW p \in Procs, Load(p) PROVE AckedIsDurable'
  BY <1>a, <1>5 DEF Load
<1>6. ASSUME NEW p \in Procs, CreateTemporary(p) PROVE AckedIsDurable'
  BY <1>a, <1>6 DEF CreateTemporary
<1>7. ASSUME NEW p \in Procs, WriteTemporary(p) PROVE AckedIsDurable'
  BY <1>a, <1>7 DEF WriteTemporary
<1>8. ASSUME NEW p \in Procs, CheckParent(p) PROVE AckedIsDurable'
  BY <1>a, <1>8 DEF CheckParent
<1>9. ASSUME NEW p \in Procs, Rename(p) PROVE AckedIsDurable'
  <2>1. /\ NewContent(p) \in SUBSET Updates
        /\ file[fd[p]] # Absent => file[fd[p]] \subseteq NewContent(p)
        /\ fd[p] \in Dirs /\ temp[p] = "synced"
    BY <1>9, Newer DEF Rename
  <2>2. solid' = [solid EXCEPT ![fd[p]] = solid[fd[p]] \cup {NewContent(p)}] /\ acked' = acked
    BY <1>9, <2>1 DEF Rename
  <2>3. ASSUME NEW u \in acked, NEW d \in Dirs,
               \A c \in solid[d] : c \notin {Absent, Torn} /\ u \in c
        PROVE  \A c \in solid'[d] : c \notin {Absent, Torn} /\ u \in c
    <3>1. file[d] # Absent /\ u \in file[d]
      BY <2>3, DiskContents
    <3>2. fd[p] = d => u \in NewContent(p)
      BY <2>1, <3>1
    <3>3. ASSUME NEW c \in solid'[d] PROVE c \notin {Absent, Torn} /\ u \in c
      <4>1. c \in solid[d] \/ (fd[p] = d /\ c = NewContent(p))
        BY <2>1, <2>2
      <4> QED
        BY <1>0, <2>1, <2>3, <3>2, <4>1
    <3> QED
      BY <3>3
  <2>4. ASSUME NEW u \in acked
        PROVE  \E d \in Dirs : \A c \in solid'[d] : c \notin {Absent, Torn} /\ u \in c
    <3>1. PICK d \in Dirs : \A c \in solid[d] : c \notin {Absent, Torn} /\ u \in c
      OBVIOUS
    <3> QED
      BY <2>3, <3>1
  <2> QED
    BY <2>2, <2>4
<1>10. ASSUME NEW p \in Procs, RecheckParent(p) PROVE AckedIsDurable'
  BY <1>a, <1>10 DEF RecheckParent
<1>11. ASSUME NEW p \in Procs, SyncDirectory(p) PROVE AckedIsDurable'
  <2>1. \A d \in Dirs : solid'[d] \subseteq solid[d]
    BY <1>11 DEF SyncDirectory, Solid
  <2>2. acked' = acked
    BY <1>11 DEF SyncDirectory
  <2> QED
    BY <1>a, <2>1, <2>2
<1>12. ASSUME NEW p \in Procs, Finish(p) PROVE AckedIsDurable'
  <2>1. solid' = solid
    BY <1>12 DEF Finish
  <2>2. CASE op[p] # "record"
    BY <1>a, <1>12, <2>1, <2>2 DEF Finish
  <2>3. CASE op[p] = "record"
    <3>1. \A c \in solid[fd[p]] : c # Absent /\ Update(p) \in c
      BY <1>12, <2>3 DEF Finish, Pending
    <3>2. fd[p] \in Dirs
      OBVIOUS
    <3>3. \A c \in solid[fd[p]] : c \notin {Absent, Torn} /\ Update(p) \in c
      BY <1>0, <3>1, <3>2 DEF Solid
    <3>4. acked' = acked \cup {Update(p)}
      BY <1>12, <2>3 DEF Finish
    <3>5. ASSUME NEW u \in acked'
          PROVE  \E d \in Dirs : \A c \in solid'[d] : c \notin {Absent, Torn} /\ u \in c
      <4>1. CASE u = Update(p)
        BY <2>1, <3>2, <3>3, <4>1
      <4>2. CASE u \in acked
        <5>1. PICK d \in Dirs : \A c \in solid[d] : c \notin {Absent, Torn} /\ u \in c
          BY <4>2
        <5> QED
          BY <2>1, <5>1
      <4> QED
        BY <3>4, <4>1, <4>2
    <3> QED
      BY <3>5
  <2> QED
    BY <2>2, <2>3
<1>13. ASSUME NEW p \in Procs, Fail(p) PROVE AckedIsDurable'
  BY <1>a, <1>13 DEF Fail
<1>14. ASSUME NEW p \in Procs, UnlinkFails(p) PROVE AckedIsDurable'
  BY <1>a, <1>14 DEF UnlinkFails
<1>15. ASSUME NEW p \in Procs, StepFails(p) PROVE AckedIsDurable'
  BY <1>a, <1>15 DEF StepFails
<1>16. ASSUME NEW p \in Procs, Killed(p) PROVE AckedIsDurable'
  BY <1>a, <1>16 DEF Killed
<1>17. CASE PowerLoss
  <2>1. \A d \in Dirs : solid'[d] \subseteq solid[d]
    BY <1>17 DEF PowerLoss
  <2>2. acked' = acked
    BY <1>17 DEF PowerLoss
  <2> QED
    BY <1>a, <2>1, <2>2
<1>18. CASE SwapParent
  BY <1>a, <1>18 DEF SwapParent
<1>19. CASE UNCHANGED vars
  BY <1>a, <1>19 DEF vars
<1> HIDE DEF Inv, Typed, TypeOK, AckedIsDurable, Stored, process, disk, bounds
<1> QED
  BY <1>1, <1>2, <1>3, <1>4, <1>5, <1>6, <1>7, <1>8, <1>9, <1>10,
     <1>11, <1>12, <1>13, <1>14, <1>15, <1>16, <1>17, <1>18, <1>19 DEF Next, Step

-------------------------------------------------------------------------------
\* The invariant holds throughout.
LEMMA InvAlways == Spec => []Inv
<1>1. Init => Inv
  <2> SUFFICES ASSUME Init PROVE Inv
    OBVIOUS
  <2> USE UsageStoreFileAssumption DEF Init
  <2>1. inPlace \in [Procs -> BOOLEAN]
    BY Zenon
  <2>2. Typed
    BY <2>1 DEF Typed, TypeOK, Places, Contents, Dirs
  <2>3. Locking
    BY DEF Locking, Held, Writing
  <2>4. \A p \in Procs : Local(p)
    BY DEF Local, Writing
  <2>5. Solid
    BY DEF Solid
  <2>6. (\A p \in Procs : Pending(p)) /\ AckedIsDurable
    BY DEF Pending, Writing, AckedIsDurable
  <2> QED
    BY <2>2, <2>3, <2>4, <2>5, <2>6 DEF Inv, Stored
<1>2. Inv /\ [Next]_vars => Inv'
  BY TypedStep, LocalStep, LockingStep, SolidStep, PendingStep, DurableStep DEF Inv, Stored
<1> QED
  BY <1>1, <1>2, PTL DEF Spec

\* Whatever fails, is killed or loses power, no directory ever holds a part of a
\* store, nor will after a power loss.
THEOREM StoreIsNeverTorn == Spec => []NeverTorn
<1>1. Inv => NeverTorn
  <2> SUFFICES ASSUME Inv, NEW d \in Dirs PROVE file[d] # Torn /\ Torn \notin solid[d]
    BY DEF NeverTorn
  <2>1. \A s \in {Absent} \cup SUBSET Updates : s # Torn
    BY UsageStoreFileAssumption DEF Updates
  <2> QED
    BY <2>1, DiskContents
<1> QED
  BY <1>1, InvAlways, PTL

\* No update that was reported as done is lost, by another process, a crash or a
\* power loss.
THEOREM AcknowledgedIsDurable == Spec => []AckedIsDurable
<1>1. Inv => AckedIsDurable
  BY DEF Inv, Stored
<1> QED
  BY <1>1, InvAlways, PTL

\* What a process writes back is what is in the store, plus its own update.
THEOREM NoLostUpdate == Spec => []WritesBackWhatItRead
<1>1. Inv => WritesBackWhatItRead
  BY DEF Inv, Stored, Pending, WritesBackWhatItRead
<1> QED
  BY <1>1, InvAlways, PTL

\* An update is only reported when the path led to it.
THEOREM ReportsAreInPlace == Spec => []ReportedInPlace
<1>1. Inv => ReportedInPlace
  BY DEF Inv, Local, ReportedInPlace
<1> QED
  BY <1>1, InvAlways, PTL

\* No lock outlives its operation, and no temporary file one that was not killed.
THEOREM NothingIsLeft == Spec => []NothingLeftBehind
<1>1. Inv => NothingLeftBehind
  BY DEF Inv, Typed, Locking, Local, NothingLeftBehind
<1> QED
  BY <1>1, InvAlways, PTL

-------------------------------------------------------------------------------
\* Where the path has not led yet nothing was stored, and nobody looks there.
Untouched ==
  /\ \A p \in Procs : fd[p] <= current
  /\ \A d \in Dirs : d > current => solid[d] = {Absent}

LEMMA UntouchedAlways == Spec => []Untouched
<1>1. Init => Untouched
  BY DEF Init, Untouched, Dirs
<1>2. Inv /\ Untouched /\ [Next]_vars => Untouched'
  <2> SUFFICES ASSUME Inv, Untouched, [Next]_vars PROVE Untouched'
    OBVIOUS
  <2> USE DEF process, disk, bounds
  <2>0. /\ Dirs \subseteq Nat /\ current \in Nat
        /\ \A p \in Procs : fd[p] \in Nat /\ fd[p] <= current
    BY UsageStoreFileAssumption DEF Inv, Typed, TypeOK, Dirs, Untouched
  <2>1. ASSUME UNCHANGED <<fd, current, solid>> PROVE Untouched'
    BY <2>1 DEF Untouched
  <2>2. ASSUME NEW p \in Procs, OpenParent(p) PROVE Untouched'
    <3>1. /\ UNCHANGED <<current, solid>>
          /\ \A q \in Procs : fd'[q] \in {fd[q], current}
      BY <2>2 DEF OpenParent, Inv, Typed, TypeOK
    <3> QED
      BY <2>0, <3>1 DEF Untouched
  <2>3. ASSUME NEW p \in Procs, Rename(p) \/ SyncDirectory(p) PROVE Untouched'
    <3>1. UNCHANGED <<fd, current>>
      BY <2>3 DEF Rename, SyncDirectory
    <3>2. \A d \in Dirs : d # fd[p] => solid'[d] = solid[d]
      BY <2>3 DEF Rename, SyncDirectory, Inv, Typed, TypeOK
    <3> QED
      BY <2>0, <3>1, <3>2 DEF Untouched
  <2>4. CASE PowerLoss
    <3>1. UNCHANGED <<fd, current>>
      BY <2>4 DEF PowerLoss
    <3>2. \A d \in Dirs : file'[d] \in solid[d] /\ solid'[d] = {file'[d]}
      BY <2>4 DEF PowerLoss
    <3> QED
      BY <3>1, <3>2 DEF Untouched
  <2>5. CASE SwapParent
    <3>1. UNCHANGED <<fd, solid>> /\ current' = current + 1
      BY <2>5 DEF SwapParent
    <3> QED
      BY <2>0, <3>1 DEF Untouched
  <2>6. ASSUME NEW p \in Procs, Step(p), ~OpenParent(p), ~Rename(p), ~SyncDirectory(p)
        PROVE  Untouched'
    BY <2>1, <2>6 DEF Step, Lock, EnterLocked, Load, CreateTemporary, WriteTemporary,
                      CheckParent, RecheckParent, Finish, Fail
  <2>7. ASSUME NEW p \in Procs, UnlinkFails(p) \/ StepFails(p) \/ Killed(p) PROVE Untouched'
    BY <2>1, <2>7 DEF UnlinkFails, StepFails, Killed
  <2>8. ASSUME NEW p \in Procs, NEW kind, Start(p, kind) PROVE Untouched'
    BY <2>1, <2>8 DEF Start
  <2>9. CASE UNCHANGED vars
    BY <2>1, <2>9 DEF vars
  <2> QED
    BY <2>2, <2>3, <2>4, <2>5, <2>6, <2>7, <2>8, <2>9 DEF Next
<1> QED
  BY <1>1, <1>2, InvAlways, PTL DEF Spec

\* In the first directory, a step of the protocol is a step of the promise or none.
LEMMA AtomicStep ==
  ASSUME swaps = 0, Inv, Inv', Untouched, [Next]_vars PROVE [Atomic!Next]_Atomic!vars
<1> USE DEF Atomic!vars, process, disk, bounds
<1>0. 0 \in Dirs /\ \A p \in Procs : fd[p] = 0
  BY UsageStoreFileAssumption DEF Dirs, Inv, Typed, TypeOK, Untouched
<1>d. \A u \in acked : \A c \in solid[0] : c # Absent /\ u \in c
  <2> SUFFICES ASSUME NEW u \in acked, NEW c \in solid[0] PROVE c # Absent /\ u \in c
    OBVIOUS
  <2>1. PICK d \in Dirs : \A s \in solid[d] : s \notin {Absent, Torn} /\ u \in s
    BY DEF Inv, Stored, AckedIsDurable
  <2>2. ~(d > current)
    BY <2>1 DEF Untouched
  <2>3. d = 0
    BY <2>2, UsageStoreFileAssumption DEF Dirs, Inv, Typed
  <2> QED
    BY <2>1, <2>3
<1>1. ASSUME UNCHANGED <<file, acked>> PROVE [Atomic!Next]_Atomic!vars
  BY <1>1
<1>2. ASSUME NEW p \in Procs, Rename(p) PROVE [Atomic!Next]_Atomic!vars
  <2>1. /\ file[0] # Absent => file[0] \subseteq NewContent(p)
        /\ op[p] = "record" => file[0] # Absent
    BY <1>0, <1>2, Newer DEF Rename
  <2>2. file'[0] = NewContent(p) /\ acked' = acked
    BY <1>0, <1>2 DEF Rename, Inv, Typed, TypeOK
  <2>3. pc[p] \in Writing /\ Pending(p)
    BY <1>2 DEF Rename, Writing, Inv, Stored
  <2>4. CASE op[p] = "record"
    <3>1. NewContent(p) = file[0] \cup {Update(p)}
      BY <1>0, <2>3, <2>4 DEF NewContent, Pending
    <3>2. CASE Update(p) \in file[0]
      BY <2>2, <3>1, <3>2
    <3>3. CASE Update(p) \notin file[0]
      <4>1. Update(p) \in Updates
        BY <1>2, UsageStoreFileAssumption DEF Rename, Inv, Typed, TypeOK, Local, Update, Updates
      <4>2. Atomic!Apply(Update(p))
        BY <2>1, <2>2, <2>4, <3>1, <3>3 DEF Atomic!Apply
      <4> QED
        BY <4>1, <4>2 DEF Atomic!Next
    <3> QED
      BY <3>2, <3>3
  <2>5. CASE op[p] # "record"
    <3>1. file[0] = Absent /\ NewContent(p) = {}
      BY <1>0, <2>3, <2>5 DEF NewContent, Pending
    <3>2. Atomic!Create
      BY <2>2, <3>1 DEF Atomic!Create
    <3> QED
      BY <3>2 DEF Atomic!Next
  <2> QED
    BY <2>4, <2>5
<1>3. ASSUME NEW p \in Procs, Finish(p) PROVE [Atomic!Next]_Atomic!vars
  <2>1. CASE op[p] # "record"
    BY <1>1, <1>3, <2>1 DEF Finish
  <2>2. CASE op[p] = "record"
    <3>1. \A c \in solid[0] : c # Absent /\ Update(p) \in c
      BY <1>0, <1>3, <2>2 DEF Finish, Inv, Stored, Pending
    <3>2. file[0] # Absent /\ Update(p) \in file[0]
      BY <1>0, <3>1, DiskContents
    <3>3. Update(p) \in Updates
      BY <1>3, UsageStoreFileAssumption DEF Finish, Inv, Typed, TypeOK, Local, Update, Updates
    <3>4. file' = file /\ acked' = acked \cup {Update(p)}
      BY <1>3, <2>2 DEF Finish
    <3>5. Atomic!Acknowledge(Update(p))
      BY <3>2, <3>4 DEF Atomic!Acknowledge
    <3> QED
      BY <3>3, <3>5 DEF Atomic!Next
  <2> QED
    BY <2>1, <2>2
<1>4. CASE PowerLoss
  <2>1. file'[0] \in solid[0]
    BY <1>0, <1>4 DEF PowerLoss
  <2>2. acked' = acked
    BY <1>4 DEF PowerLoss
  <2>4. /\ file[0] = Absent => file'[0] = Absent
        /\ file'[0] # Absent => file'[0] \subseteq file[0]
    BY <1>0, <2>1 DEF Inv, Stored, Solid
  <2>5. CASE file[0] = Absent
    BY <2>2, <2>4, <2>5
  <2>6. CASE file[0] # Absent
    <3>1. Atomic!Forget
      BY <1>d, <2>1, <2>2, <2>4, <2>6 DEF Atomic!Forget
    <3> QED
      BY <3>1 DEF Atomic!Next
  <2> QED
    BY <2>5, <2>6
<1>5. ASSUME NEW p \in Procs, Step(p), ~Rename(p), ~Finish(p) PROVE [Atomic!Next]_Atomic!vars
  <2>1. UNCHANGED <<file, acked>>
    BY <1>5 DEF Step, OpenParent, Lock, EnterLocked, Load, CreateTemporary, WriteTemporary,
                CheckParent, RecheckParent, SyncDirectory, Fail
  <2> QED
    BY <1>1, <2>1
<1>6. ASSUME NEW p \in Procs, UnlinkFails(p) \/ StepFails(p) \/ Killed(p)
      PROVE  [Atomic!Next]_Atomic!vars
  BY <1>1, <1>6 DEF UnlinkFails, StepFails, Killed
<1>7. ASSUME NEW p \in Procs, NEW kind, Start(p, kind) PROVE [Atomic!Next]_Atomic!vars
  BY <1>1, <1>7 DEF Start
<1>8. CASE SwapParent
  BY <1>1, <1>8 DEF SwapParent
<1>9. CASE UNCHANGED vars
  BY <1>1, <1>9 DEF vars
<1> QED
  BY <1>2, <1>3, <1>4, <1>5, <1>6, <1>7, <1>8, <1>9 DEF Next

\* Until somebody replaces the directory, the processes together keep the promise of
\* AtomicStore.
THEOREM StoreIsAtomic == Spec => ImplementsAtomicStore
<1>1. Init => Atomic!Init
  BY UsageStoreFileAssumption DEF Init, Atomic!Init, Dirs
<1>2. Inv /\ Inv' /\ Untouched /\ [Next]_vars => [Atomic!Next \/ swaps' > 0]_(Atomic!vars)
  <2> SUFFICES ASSUME Inv, Inv', Untouched, [Next]_vars
               PROVE  [Atomic!Next \/ swaps' > 0]_(Atomic!vars)
    OBVIOUS
  <2>1. CASE swaps = 0
    BY <2>1, AtomicStep
  <2>2. CASE swaps # 0
    <3>1. swaps' \in {swaps, swaps + 1}
      BY DEF Next, Step, Start, OpenParent, Lock, EnterLocked, Load, CreateTemporary,
             WriteTemporary, CheckParent, Rename, RecheckParent, SyncDirectory, Finish, Fail,
             UnlinkFails, StepFails, Killed, PowerLoss, SwapParent, vars, bounds
    <3>2. swaps \in Nat
      BY UsageStoreFileAssumption DEF Inv, Typed, TypeOK
    <3> QED
      BY <2>2, <3>1, <3>2
  <2> QED
    BY <2>1, <2>2
<1> QED
  BY <1>1, <1>2, InvAlways, UntouchedAlways, PTL DEF Spec, ImplementsAtomicStore

===============================================================================
