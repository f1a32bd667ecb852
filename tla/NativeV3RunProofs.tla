--------------------------- MODULE NativeV3RunProofs ---------------------------
(***************************************************************************)
(* What `wclass run` starts, refuses and reads, for all policies, edits,   *)
(* executables and numbers of runs.                                        *)
(***************************************************************************)
EXTENDS NativeV3Run, TLAPS

Busy == pc \notin {"idle", "ended"}

World == file \in PolicyFiles /\ identity \in [Paths -> Nat] /\ updates \in Nat

\* A run has a selection that passed the static gates ...
Chosen ==
  Busy => /\ \E d : selected = {d}
          /\ Executable \in Paths
          /\ Selection.changed_dimensions # {} => args.confirm
          /\ args.ack \subseteq shown
          /\ args.ack = {} => args.review

\* ... and a review the user saw, before its task is read.
Reviewed ==
  pc \in {"task", "reobserve", "spawn", "child", "record", "report"} =>
    <<Selection, observed>> \in shown

\* Unless it changed since the last look, the executable is the observed one.
LastLook ==
  pc \in {"review", "task", "reobserve", "spawn"} =>
    observed # 0 /\ (raced \/ identity[Executable] = observed)

\* A child is only there when it was spawned, a diagnostic only at the end.
Started ==
  /\ started # {} => pc \in {"child", "record", "report", "ended"}
  /\ taskRead => pc \in {"reobserve", "spawn", "child", "record", "report", "ended"}
  /\ pc # "ended" => exit = "none"
  /\ pc \in {"child", "record", "report"} => observed # 0

Promises == RunsWhatWasReviewed /\ RefusedMeansNothingRan /\ TaskReadOnlyPastTheGates

\* The ledger agrees with the runs of the task at hand, the user with the ledger.
Books ==
  /\ ledger \in [tasks : Nat, retries : Nat] /\ due \in Nat
  /\ Busy /\ pc # "report" => (args.rework <=> hinted)
  /\ ~doubtful =>
       /\ due = ledger.tasks + ledger.retries + IF pc = "record" THEN 1 ELSE 0
       /\ ledger.tasks <= 1
       /\ ledger.tasks = 1 /\ ~hinted => \/ pc = "report" /\ child = "zero"
                                         \/ pc = "ended" /\ exit = "success"

Inv == World /\ Chosen /\ Reviewed /\ LastLook /\ Started /\ Promises

-------------------------------------------------------------------------------
\* The descriptor of a selection that compiles names an executable of the policy,
\* and asks for consent when it leaves the source endpoint.
LEMMA DescriptorFacts ==
  ASSUME NEW policy \in Policies, NEW selector, Compiles(policy, selector)
  PROVE  LET d == Descriptor(policy, selector, "native_route") IN
         /\ d.target.executable \in Paths
         /\ d.changed_dimensions # {} => "endpoint_transition" \in d.required_confirmations
<1> DEFINE d == Descriptor(policy, selector, "native_route")
           route == SelectedRoute(policy, selector)
<1>1. PICK r \in policy.routes :
        Matches(policy, selector) = {r} /\ RouteCompiles(policy, r, selector.vendor)
  BY DEF Compiles
<1>2. route = r
  BY <1>1 DEF SelectedRoute
<1>3. TargetOf(policy, r) \in policy.targets
  BY <1>1 DEF RouteCompiles, TargetOf, ById
<1>4. d.target = TargetOf(policy, r)
  BY <1>2 DEF Descriptor
<1>5. d.target.executable \in Paths
  BY <1>3, <1>4 DEF Policies, Targets
<1>6. /\ d.changed_dimensions = ChangedDimensions(policy, route)
      /\ d.required_confirmations =
           RequiredConfirmations("native_route", ChangedDimensions(policy, route))
  BY DEF Descriptor
<1>7. d.changed_dimensions # {} => "endpoint_transition" \in d.required_confirmations
  BY <1>6 DEF RequiredConfirmations
<1> QED
  BY <1>5, <1>7

\* What the static gates have established when they let a run pass.
LEMMA StaticFacts ==
  ASSUME NEW policy \in Policies, NEW a, StaticVerdict(policy, a) = "none"
  PROVE  LET d == Descriptor(policy, a.selector, "native_route") IN
         /\ d.target.executable \in Paths
         /\ d.changed_dimensions # {} => a.confirm
         /\ a.ack = {} => a.review
<1>1. Compiles(policy, a.selector)
  BY DEF StaticVerdict
<1> QED
  BY <1>1, DescriptorFacts DEF StaticVerdict

\* No step breaks the invariant.
LEMMA InvStep == Inv /\ [Next]_vars => Inv'
<1> SUFFICES ASSUME Inv, [Next]_vars PROVE Inv'
    OBVIOUS
<1> USE DEF Inv, World, Chosen, Reviewed, LastLook, Started, Promises, Busy,
            RunsWhatWasReviewed, RefusedMeansNothingRan, TaskReadOnlyPastTheGates,
            world, progress, process, verdict, books
<1>0. ASSUME selected' = selected PROVE Selection' = Selection /\ Executable' = Executable
  BY <1>0 DEF Selection, Executable
<1>1. ASSUME NEW selector \in Requested, Route(selector) PROVE Inv'
  BY <1>0, <1>1 DEF Route
<1>2. ASSUME NEW a \in Arguments, Run(a) PROVE Inv'
  <2>1. CASE StaticVerdict(file, a) = "none"
    <3> DEFINE d == Descriptor(file, a.selector, "native_route")
    <3>1. file \in Policies
      BY NativeV3RunAssumption
    <3>2. /\ d.target.executable \in Paths
          /\ d.changed_dimensions # {} => a.confirm
          /\ a.ack = {} => a.review
      BY <2>1, <3>1, StaticFacts
    <3>3. a.ack \subseteq shown
      BY DEF Arguments
    <3>4. selected' = {d} /\ Selection' = d /\ Executable' = d.target.executable
      BY <1>2, <2>1 DEF Run, Selection, Executable
    <3> HIDE DEF d
    <3> QED
      BY <1>2, <2>1, <3>2, <3>3, <3>4 DEF Run
  <2>2. CASE StaticVerdict(file, a) # "none"
    BY <1>0, <1>2, <2>2 DEF Run, End
  <2> QED
    BY <2>1, <2>2
<1>3. CASE ResolveStore
  BY <1>0, <1>3 DEF ResolveStore, End
<1>4. CASE CheckContext
  BY <1>0, <1>4 DEF CheckContext, End
<1>5. CASE Observe
  BY <1>0, <1>5 DEF Observe, End, AckMatches, Fingerprint
<1>6. CASE Review
  BY <1>0, <1>6 DEF Review, End, Fingerprint
<1>7. CASE ReadTask
  BY <1>0, <1>7 DEF ReadTask, End
<1>8. CASE Reobserve
  BY <1>0, <1>8 DEF Reobserve, End, SameExecutable
<1>9. CASE SpawnFails
  BY <1>0, <1>9 DEF SpawnFails, End, ChildError
<1>10. CASE Spawn
  BY <1>0, <1>10 DEF Spawn
<1>11. CASE ChildCompletes
  BY <1>0, <1>11 DEF ChildCompletes
<1>12. CASE ChildFails
  BY <1>0, <1>12 DEF ChildFails, End, ChildError
<1>13. CASE Record
  BY <1>0, <1>13 DEF Record
<1>14. CASE RecordFails
  BY <1>0, <1>14 DEF RecordFails, ReportRecordFailure, End
<1>15. CASE Report
  BY <1>0, <1>15 DEF Report, End
<1>16. CASE Interrupt
  BY <1>0, <1>16 DEF Interrupt, End
<1>17. CASE NextRun
  BY <1>0, <1>17 DEF NextRun
<1>18. CASE EditPolicy
  BY <1>0, <1>18 DEF EditPolicy
<1>19. CASE ChangeStore
  BY <1>0, <1>19 DEF ChangeStore
<1>20. ASSUME NEW path \in Paths, UpdateExecutable(path) PROVE Inv'
  <2>1. World'
    BY <1>20 DEF UpdateExecutable
  <2>2. Busy /\ ~raced' => identity'[Executable] = identity[Executable]
    BY <1>20 DEF UpdateExecutable
  <2>3. /\ raced => raced'
        /\ selected' = selected /\ Selection' = Selection /\ Executable' = Executable
        /\ UNCHANGED <<file, shown, pc, args, observed, taskRead, started, exit, completed>>
    BY <1>0, <1>20 DEF UpdateExecutable
  <2>4. LastLook'
    BY <2>2, <2>3
  <2> QED
    BY <2>1, <2>3, <2>4
<1>21. CASE UNCHANGED vars
  BY <1>0, <1>21 DEF vars
<1> QED
  BY <1>1, <1>2, <1>3, <1>4, <1>5, <1>6, <1>7, <1>8, <1>9, <1>10, <1>11, <1>12, <1>13, <1>14,
     <1>15, <1>16, <1>17, <1>18, <1>19, <1>20, <1>21 DEF Next

\* No step breaks the agreement of the ledger.
LEMMA BooksStep == Books /\ [Next]_vars => Books'
<1> SUFFICES ASSUME Books, [Next]_vars PROVE Books'
    OBVIOUS
<1> USE DEF Books, Busy, world, progress, process, verdict, books
<1>0. Counted => ledger' \in [tasks : Nat, retries : Nat]
  BY DEF Counted
<1>1. ASSUME NEW selector \in Requested, Route(selector) PROVE Books'
  BY <1>1 DEF Route
<1>2. ASSUME NEW a \in Arguments, Run(a) PROVE Books'
  BY <1>2 DEF Run, End
<1>3. CASE ResolveStore
  BY <1>3 DEF ResolveStore, End
<1>4. CASE CheckContext
  BY <1>4 DEF CheckContext, End
<1>5. CASE Observe
  BY <1>5 DEF Observe, End
<1>6. CASE Review
  BY <1>6 DEF Review, End
<1>7. CASE ReadTask
  BY <1>7 DEF ReadTask, End
<1>8. CASE Reobserve
  BY <1>8 DEF Reobserve, End
<1>9. CASE SpawnFails
  BY <1>9 DEF SpawnFails, End
<1>10. CASE Spawn
  BY <1>10 DEF Spawn
<1>11. CASE ChildCompletes
  BY <1>11 DEF ChildCompletes
<1>12. CASE ChildFails
  BY <1>12 DEF ChildFails, End
<1>13. CASE Record
  <2>1. /\ pc = "record" /\ pc' = "report" /\ due' = due /\ child' = child
        /\ ledger' \in [tasks : Nat, retries : Nat]
        /\ ledger'.tasks + ledger'.retries = ledger.tasks + ledger.retries + 1
        /\ ledger'.tasks = IF args.rework THEN ledger.tasks ELSE ledger.tasks + 1
    BY <1>13 DEF Record, Counted
  <2>2. doubtful' = doubtful
    BY <1>13 DEF Record
  <2>3. hinted' <=> hinted \/ (child # "zero" /\ ~args.rework)
    BY <1>13, Zenon DEF Record, RetryHint
  <2>4. ~doubtful /\ ~hinted => ledger.tasks = 0
    BY <2>1
  <2> QED
    BY <2>1, <2>2, <2>3, <2>4
<1>14. CASE RecordFails
  <2>1. ledger' \in [tasks : Nat, retries : Nat] /\ due' = due /\ pc' = "ended"
    BY <1>0, <1>14 DEF RecordFails, ReportRecordFailure, End
  <2>2. doubtful'
    BY <1>14, Zenon DEF RecordFails, ReportRecordFailure
  <2> QED
    BY <2>1, <2>2
<1>15. CASE Report
  BY <1>15 DEF Report, End
<1>16. CASE Interrupt
  <2>1. /\ ledger' \in [tasks : Nat, retries : Nat] /\ due' = due /\ pc' = "ended"
        /\ pc \notin {"record", "idle", "ended"} => ledger' = ledger /\ hinted' = hinted
    BY <1>0, <1>16 DEF Interrupt, End
  <2>2. ~doubtful' => ~doubtful /\ pc \notin {"record", "report", "idle", "ended"}
    BY <1>16, Zenon DEF Interrupt
  <2> QED
    BY <2>1, <2>2
<1>17. CASE NextRun
  BY <1>17 DEF NextRun
<1>18. CASE EditPolicy
  BY <1>18 DEF EditPolicy
<1>19. CASE ChangeStore
  BY <1>19 DEF ChangeStore
<1>20. ASSUME NEW path \in Paths, UpdateExecutable(path) PROVE Books'
  BY <1>20 DEF UpdateExecutable
<1>21. CASE UNCHANGED vars
  BY <1>21 DEF vars
<1> QED
  BY <1>1, <1>2, <1>3, <1>4, <1>5, <1>6, <1>7, <1>8, <1>9, <1>10, <1>11, <1>12, <1>13, <1>14,
     <1>15, <1>16, <1>17, <1>18, <1>19, <1>20, <1>21 DEF Next

\* The invariant holds throughout.
LEMMA InvAlways == Spec => []Inv
<1>1. Init => Inv
  BY DEF Init, Inv, World, Chosen, Reviewed, LastLook, Started, Promises, Busy,
         RunsWhatWasReviewed, RefusedMeansNothingRan, TaskReadOnlyPastTheGates
<1> QED
  BY <1>1, InvStep, PTL DEF Spec

\* A child is only started on what the user was shown and consented to.
THEOREM RunsAreReviewed == Spec => []RunsWhatWasReviewed
<1>1. Inv => RunsWhatWasReviewed
  BY DEF Inv, Promises
<1> QED
  BY <1>1, InvAlways, PTL

\* A run that is refused started no child, and a task is not consumed by a run
\* the earlier gates should have refused.
THEOREM RefusalsLeaveNoTrace == Spec => []RefusedLeavesNoTrace
<1>1. Inv => RefusedLeavesNoTrace
  BY DEF Inv, Promises, RefusedLeavesNoTrace
<1> QED
  BY <1>1, InvAlways, PTL

\* Whatever fails between the child's end and the record, and however often the
\* task is tried again, the ledger counts every run and the task once.
THEOREM TasksAreAccounted == Spec => []TaskIsAccounted
<1>1. Init => Books
  BY DEF Init, Books, Busy
<1>2. Books => TaskIsAccounted
  BY DEF Books, TaskIsAccounted, OutcomeIsAccounted, TaskCountedOnce
<1> QED
  BY <1>1, <1>2, BooksStep, PTL DEF Spec

===============================================================================
