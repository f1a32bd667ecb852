---------------------------- MODULE UsageStoreFile ----------------------------
(***************************************************************************)
(* How an update of the usage store becomes atomic: processes that take a  *)
(* flock in the store's directory, load the store, write a temporary file, *)
(* rename it over the store and sync the directory.  Any step may fail, a  *)
(* process may be killed, the machine may lose power, and somebody may put *)
(* another directory in the place of the parent directory.                 *)
(* A content is the set of the updates in it (UsageLedger has the detail). *)
(***************************************************************************)
EXTENDS Naturals, FiniteSets

CONSTANTS Procs,       \* processes
          MaxOps,      \* bound on the operations of a process
          MaxFailures, \* bound on failing steps, kills and power losses
          MaxSwaps,    \* bound on replacements of the parent directory
          Absent,      \* no store file
          Torn         \* a store file with a part of its content

ASSUME UsageStoreFileAssumption ==
  /\ {MaxOps, MaxFailures, MaxSwaps} \subseteq Nat
  /\ Absent # Torn
  /\ \A updates \in SUBSET (Procs \X (1..MaxOps)) : updates \notin {Absent, Torn}

VARIABLES
  pc,        \* where each process is
  op,        \* the operation it is in: "record", "enable" or "report"
  count,     \* the number of operations it has started
  fd,        \* the directory its descriptor is open on
  seen,      \* the content it loaded
  temp,      \* its temporary file: none, partial or synced
  current,   \* the directory the path leads to
  file,      \* visible content of the store in each directory
  solid,     \* contents a power loss may leave in each directory
  holders,   \* flock holders in each directory: <<process, exclusive>>
  acked,     \* updates reported as done
  failures, swaps,
  inPlace    \* history: a process saw the path lead to its renamed file

process == <<op, count, fd, seen>>
disk    == <<file, solid>>
bounds  == <<failures, swaps>>
vars    == <<pc, process, temp, current, disk, holders, acked, bounds, inPlace>>

Dirs == 0..MaxSwaps
Updates == Procs \X (1..MaxOps)

\* The update a process is making.
Update(p) == <<p, count[p]>>

Writing == {"temp", "write", "check", "rename"}
Places == {"idle", "open", "lock", "locked", "load", "recheck", "sync", "done", "fail"}
            \cup Writing

Init ==
  /\ pc = [p \in Procs |-> "idle"]
  /\ op = [p \in Procs |-> "report"]
  /\ count = [p \in Procs |-> 0]
  /\ fd = [p \in Procs |-> 0]
  /\ seen = [p \in Procs |-> Absent]
  /\ temp = [p \in Procs |-> "none"]
  /\ current = 0
  /\ file = [d \in Dirs |-> Absent]
  /\ solid = [d \in Dirs |-> {Absent}]
  /\ holders = [d \in Dirs |-> {}]
  /\ acked = {}
  /\ failures = 0 /\ swaps = 0
  /\ inPlace = [p \in Procs |-> FALSE]

Goto(p, place) == pc' = [pc EXCEPT ![p] = place]

\* _revalidate_parent: the path still leads to the open directory.
ParentUnchanged(p) == fd[p] = current

-------------------------------------------------------------------------------
(* One operation of a process *)

Start(p, kind) ==
  /\ pc[p] = "idle" /\ count[p] < MaxOps
  /\ Goto(p, "open")
  /\ op' = [op EXCEPT ![p] = kind]
  /\ count' = [count EXCEPT ![p] = @ + 1]
  /\ inPlace' = [inPlace EXCEPT ![p] = FALSE]
  /\ UNCHANGED <<fd, seen, temp, current, disk, holders, acked, bounds>>

\* _open_parent_directory.
OpenParent(p) ==
  /\ pc[p] = "open"
  /\ Goto(p, "lock")
  /\ fd' = [fd EXCEPT ![p] = current]
  /\ UNCHANGED <<op, count, seen, temp, current, disk, holders, acked, bounds, inPlace>>

\* An update takes the lock in shared mode (seeded fault).
SharedOnly(p) == FALSE

Exclusive(p) == op[p] # "report"

\* flock blocks until no other holder is in conflict.
Lock(p) ==
  /\ pc[p] = "lock"
  /\ \A h \in holders[fd[p]] : ~h[2] /\ ~Exclusive(p)
  /\ holders' = [holders EXCEPT ![fd[p]] = @ \cup {<<p, Exclusive(p)>>}]
  /\ Goto(p, "locked")
  /\ UNCHANGED <<process, temp, current, disk, acked, bounds, inPlace>>

\* _locked revalidates before it yields.
EnterLocked(p) ==
  /\ pc[p] = "locked"
  /\ Goto(p, IF ParentUnchanged(p) THEN "load" ELSE "fail")
  /\ UNCHANGED <<process, temp, current, disk, holders, acked, bounds, inPlace>>

\* A store is created without looking for an old one (seeded fault).
CreateBlindly(p, there) ==
  IF op[p] = "enable" THEN "temp"
  ELSE IF there \in {Absent, Torn} THEN "fail"
  ELSE IF op[p] = "report" THEN "done" ELSE "temp"

\* ensure_usage_store creates what is absent and validates what is there; the
\* others need a store that loads.
AfterLoad(p, there) ==
  IF there = Torn THEN "fail"
  ELSE IF there = Absent THEN IF op[p] = "enable" THEN "temp" ELSE "fail"
  ELSE IF op[p] = "record" THEN "temp" ELSE "done"

\* _load_store revalidates the parent and reads; ensure_usage_store stats first.
Load(p) ==
  /\ pc[p] = "load"
  /\ IF ParentUnchanged(p)
     THEN /\ Goto(p, AfterLoad(p, file[fd[p]]))
          /\ seen' = [seen EXCEPT ![p] = IF op[p] = "enable" THEN {} ELSE file[fd[p]]]
     ELSE Goto(p, "fail") /\ UNCHANGED seen
  /\ UNCHANGED <<op, count, fd, temp, current, disk, holders, acked, bounds, inPlace>>

\* What the process wants to store.
NewContent(p) == IF op[p] = "record" THEN seen[p] \cup {Update(p)} ELSE {}

\* _replace_store revalidates, then creates the temporary file.
CreateTemporary(p) ==
  /\ pc[p] = "temp"
  /\ IF ParentUnchanged(p)
     THEN Goto(p, "write") /\ temp' = [temp EXCEPT ![p] = "partial"]
     ELSE Goto(p, "fail") /\ UNCHANGED temp
  /\ UNCHANGED <<process, current, disk, holders, acked, bounds, inPlace>>

\* The data is written but not synced (seeded fault).
WrittenUnsynced == "partial"

\* _write_descriptor ends with fsync.
Written == "synced"

WriteTemporary(p) ==
  /\ pc[p] = "write"
  /\ Goto(p, "check")
  /\ temp' = [temp EXCEPT ![p] = Written]
  /\ UNCHANGED <<process, current, disk, holders, acked, bounds, inPlace>>

CheckParent(p) ==
  /\ pc[p] = "check"
  /\ Goto(p, IF ParentUnchanged(p) THEN "rename" ELSE "fail")
  /\ UNCHANGED <<process, temp, current, disk, holders, acked, bounds, inPlace>>

\* os.replace; until the directory is synced a power loss may undo it, and one
\* of a file that was not synced may tear it.
Rename(p) ==
  /\ pc[p] = "rename"
  /\ Goto(p, "recheck")
  /\ file' = [file EXCEPT ![fd[p]] = NewContent(p)]
  /\ solid' = [solid EXCEPT ![fd[p]] =
                 @ \cup {NewContent(p)} \cup IF temp[p] = "synced" THEN {} ELSE {Torn}]
  /\ temp' = [temp EXCEPT ![p] = "none"]
  /\ inPlace' = [inPlace EXCEPT ![p] = ParentUnchanged(p)]
  /\ UNCHANGED <<process, current, holders, acked, bounds>>

\* The parent is not looked at again after the rename (seeded fault).
NoRecheck(p) == "sync"

\* The directory is not synced (seeded fault).
NoDirectorySync(p) == IF ParentUnchanged(p) THEN "done" ELSE "fail"

AfterRecheck(p) == IF ParentUnchanged(p) THEN "sync" ELSE "fail"

RecheckParent(p) ==
  /\ pc[p] = "recheck"
  /\ Goto(p, AfterRecheck(p))
  /\ inPlace' = [inPlace EXCEPT ![p] = @ \/ ParentUnchanged(p)]
  /\ UNCHANGED <<process, temp, current, disk, holders, acked, bounds>>

\* os.fsync of the directory.
SyncDirectory(p) ==
  /\ pc[p] = "sync"
  /\ Goto(p, "done")
  /\ solid' = [solid EXCEPT ![fd[p]] = {file[fd[p]]}]
  /\ UNCHANGED <<process, temp, current, file, holders, acked, bounds, inPlace>>

\* A failing operation keeps its lock (seeded fault).
KeptByFailure(p) ==
  [d \in Dirs |-> IF pc[p] = "fail" THEN holders[d] ELSE {h \in holders[d] : h[1] # p}]

Released(p) == [d \in Dirs |-> {h \in holders[d] : h[1] # p}]

\* The lock is released and the caller gets its answer.
Finish(p) ==
  /\ pc[p] = "done"
  /\ Goto(p, "idle")
  /\ holders' = Released(p)
  /\ acked' = IF op[p] = "record" THEN acked \cup {Update(p)} ELSE acked
  /\ UNCHANGED <<process, temp, current, disk, bounds, inPlace>>

\* The temporary file of a failed update stays behind (seeded fault).
KeepTemporary(p) == temp

Unlinked(p) == [temp EXCEPT ![p] = "none"]

\* UsageAggregationError: the `finally` clauses unlink and release.
Fail(p) ==
  /\ pc[p] = "fail"
  /\ Goto(p, "idle")
  /\ holders' = Released(p)
  /\ temp' = Unlinked(p)
  /\ UNCHANGED <<process, current, disk, acked, bounds, inPlace>>

\* The unlink fails too: the lock is released all the same.
UnlinkFails(p) ==
  /\ failures < MaxFailures
  /\ pc[p] = "fail" /\ temp[p] # "none"
  /\ failures' = failures + 1
  /\ Goto(p, "idle")
  /\ holders' = Released(p)
  /\ temp' = [temp EXCEPT ![p] = "litter"]
  /\ UNCHANGED <<process, current, disk, acked, swaps, inPlace>>

-------------------------------------------------------------------------------
(* What can go wrong *)

\* A system call fails, or an update is refused (invalid content, a limit).
StepFails(p) ==
  /\ failures < MaxFailures
  /\ pc[p] \notin {"idle", "done", "fail"}
  /\ failures' = failures + 1
  /\ Goto(p, "fail")
  /\ UNCHANGED <<process, temp, current, disk, holders, acked, swaps, inPlace>>

\* The process is killed: the kernel drops its lock, its temporary file stays.
Killed(p) ==
  /\ failures < MaxFailures
  /\ pc[p] # "idle"
  /\ failures' = failures + 1
  /\ Goto(p, "idle")
  /\ holders' = Released(p)
  /\ temp' = [temp EXCEPT ![p] = IF @ = "none" THEN "none" ELSE "litter"]
  /\ UNCHANGED <<process, current, disk, acked, swaps, inPlace>>

PowerLoss ==
  /\ failures < MaxFailures
  /\ failures' = failures + 1
  /\ \E left \in [Dirs -> UNION {solid[d] : d \in Dirs}] :
       /\ \A d \in Dirs : left[d] \in solid[d]
       /\ file' = left
       /\ solid' = [d \in Dirs |-> {left[d]}]
  /\ pc' = [p \in Procs |-> "idle"]
  /\ temp' = [p \in Procs |-> IF temp[p] = "none" THEN "none" ELSE "litter"]
  /\ holders' = [d \in Dirs |-> {}]
  /\ UNCHANGED <<process, current, acked, swaps, inPlace>>

SwapParent ==
  /\ swaps < MaxSwaps
  /\ swaps' = swaps + 1
  /\ current' = current + 1
  /\ UNCHANGED <<pc, process, temp, disk, holders, acked, failures, inPlace>>

Step(p) ==
  \/ OpenParent(p) \/ Lock(p) \/ EnterLocked(p) \/ Load(p)
  \/ CreateTemporary(p) \/ WriteTemporary(p) \/ CheckParent(p) \/ Rename(p)
  \/ RecheckParent(p) \/ SyncDirectory(p) \/ Finish(p) \/ Fail(p)

Next ==
  \/ \E p \in Procs :
       \/ \E kind \in {"record", "enable", "report"} : Start(p, kind)
       \/ Step(p) \/ UnlinkFails(p) \/ StepFails(p) \/ Killed(p)
  \/ PowerLoss \/ SwapParent

Spec == Init /\ [][Next]_vars

\* Every process that runs keeps running; starting an operation is the user's.
FairSpec == Spec /\ \A p \in Procs : WF_vars(Step(p))

-------------------------------------------------------------------------------
(* Properties *)

Contents == {Absent, Torn} \cup SUBSET Updates

\* The variables keep their types.
TypeOK ==
  /\ pc \in [Procs -> Places]
  /\ op \in [Procs -> {"record", "enable", "report"}]
  /\ count \in [Procs -> 0..MaxOps]
  /\ fd \in [Procs -> Dirs]
  /\ seen \in [Procs -> Contents]
  /\ temp \in [Procs -> {"none", "partial", "synced", "litter"}]
  /\ current \in Dirs
  /\ file \in [Dirs -> Contents]
  /\ solid \in [Dirs -> SUBSET Contents]
  /\ holders \in [Dirs -> SUBSET (Procs \X BOOLEAN)]
  /\ acked \subseteq Updates
  /\ failures \in 0..MaxFailures /\ swaps \in 0..MaxSwaps
  /\ inPlace \in [Procs -> BOOLEAN]

\* A reader, or a power loss at any moment, finds a whole content: the one
\* before or after an update, never a part of one.
NeverTorn == \A d \in Dirs : file[d] # Torn /\ Torn \notin solid[d]

\* An update that was reported as done is in the store of some directory the
\* path led to, and no power loss can undo it any more.
AckedIsDurable ==
  \A u \in acked : \E d \in Dirs : \A c \in solid[d] : c \notin {Absent, Torn} /\ u \in c

\* The update a process reports was in place where the path leads at some
\* moment after its rename, even if the parent directory is swapped meanwhile.
ReportedInPlace ==
  \A p \in Procs : pc[p] = "done" /\ op[p] = "record" => inPlace[p]

\* A lock is held only by a process in the middle of an operation on that directory,
\* and a process that was not killed, and whose unlink works, leaves no temporary
\* file behind.
NothingLeftBehind ==
  /\ TypeOK
  /\ \A d \in Dirs : \A h \in holders[d] : pc[h[1]] \notin {"idle", "open", "lock"} /\ fd[h[1]] = d
  /\ \A p \in Procs : pc[p] = "idle" => temp[p] \in {"none", "litter"}

\* The loaded content a process is about to write back is still the one in the
\* store: no other update came in between.
WritesBackWhatItRead ==
  \A p \in Procs : pc[p] \in Writing =>
    file[fd[p]] = IF op[p] = "record" THEN seen[p] ELSE Absent

\* Until somebody replaces the parent directory the protocol implements the promise:
\* every step is one of AtomicStore on the store in it, or none.
Atomic == INSTANCE AtomicStore WITH content <- file[0]
ImplementsAtomicStore ==
  Atomic!Init /\ [][Atomic!Next \/ swaps' > 0]_(Atomic!vars)

\* Every started operation ends: no failure or kill leaves the lock behind.
OperationsEnd == \A p \in Procs : pc[p] # "idle" ~> pc[p] = "idle"

===============================================================================
