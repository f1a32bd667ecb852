------------------------------ MODULE NativeV3Run ------------------------------
(***************************************************************************)
(* `wclass route` and `wclass run` on a schema-3 policy: the gates of      *)
(* _execute_native_v3 in their order, the child and the usage record, for  *)
(* a user who works through tasks and retries the ones that failed, while  *)
(* the policy file, the vendor's executable and the usage store change.    *)
(* A fingerprint stands for what it binds: the descriptor of the selection *)
(* and the executable's identity.  OwnedChild models the child's run and   *)
(* UsageStoreFile the record in detail.                                    *)
(***************************************************************************)
EXTENDS NativePolicyV3

CONSTANTS PolicyFiles,  \* contents the policy file may have
          Requested,    \* selectors the user asks for
          MaxEdits,     \* bound on edits of the policy file
          MaxUpdates,   \* bound on changes of an executable
          MaxStoreChanges, \* bound on changes of the store by others
          MaxRuns       \* bound on runs

ASSUME NativeV3RunAssumption ==
  /\ PolicyFiles \subseteq Policies /\ Requested \subseteq Selectors
  /\ {MaxEdits, MaxUpdates, MaxStoreChanges, MaxRuns} \subseteq Nat

VARIABLES
  file, edits,       \* the policy file
  identity, updates, \* lstat identity of each executable; 0: missing or refused
  store, changes,    \* the usage store: absent, enabled or broken
  shown,             \* reviews the user has seen: <<descriptor, identity>>
  pc, args,          \* the run in progress and its arguments
  selected,          \* its descriptor, as a set of at most one
  observed,          \* its first observation
  active,            \* active_usage_store is not None
  taskRead,          \* history: stdin was consumed
  child,             \* none, running, or how it ended
  raced,             \* history: the executable changed since the last look
  started,           \* history: the identity that was executed, as a set of at most one
  exit, completed,   \* the diagnostic, and `child_completed` in it
  runs,              \* number of runs started
  ledger,            \* tasks and retries counted for the task at hand
  due,               \* history: recorded runs the task at hand should have
  hinted, doubtful   \* the user's knowledge of the task at hand

world    == <<file, edits, identity, updates, store, changes>>
progress == <<selected, observed, active, taskRead>>
process  == <<child, raced, started>>
verdict  == <<exit, completed>>
books    == <<ledger, due, hinted, doubtful>>
vars == <<world, shown, pc, args, progress, process, verdict, runs, books>>

Arguments == [selector : Requested, ack : {{}} \cup {{review} : review \in shown},
              confirm : BOOLEAN, review : BOOLEAN, store : {"none", "default", "explicit"},
              rework : BOOLEAN]

Statuses == {"zero", "nonzero", "signal"}

Selection == CHOOSE d \in selected : TRUE
Executable == Selection.target.executable

Init ==
  /\ file \in PolicyFiles /\ edits = 0
  /\ identity = [p \in Paths |-> 1] /\ updates = 0
  /\ store \in {"absent", "enabled"} /\ changes = 0
  /\ shown = {}
  /\ pc = "idle" /\ args = {}
  /\ selected = {} /\ observed = 0 /\ active = FALSE /\ taskRead = FALSE
  /\ child = "none" /\ raced = FALSE /\ started = {}
  /\ exit = "none" /\ completed = FALSE
  /\ runs = 0
  /\ ledger = [tasks |-> 0, retries |-> 0] /\ due = 0
  /\ hinted = FALSE /\ doubtful = FALSE

\* The run ends with a diagnostic.
End(code) == pc' = "ended" /\ exit' = code

-------------------------------------------------------------------------------
(* wclass route *)

\* Prints the descriptor and its fingerprint; every failure prints neither.
Route(selector) ==
  /\ pc = "idle"
  /\ ValidPolicy(file) /\ Compiles(file, selector)
  /\ LET d == Descriptor(file, selector, "native_route")
         now == identity[d.target.executable]
     IN  now # 0 /\ shown' = shown \cup {<<d, now>>}
  /\ UNCHANGED <<world, pc, args, progress, process, verdict, runs, books>>

-------------------------------------------------------------------------------
(* wclass run *)

\* The gates that only look at the arguments and at one read of the policy.
StaticVerdict(policy, a) ==
  IF (a.review /\ a.ack # {}) \/ ~ValidPolicy(policy) THEN "invalid_input"
  ELSE IF ~Compiles(policy, a.selector) THEN "unsupported_route"
  ELSE LET required == Descriptor(policy, a.selector, "native_route").required_confirmations
       IN  IF "native_delegation" \in required THEN "unsupported_route"
           ELSE IF "endpoint_transition" \in required /\ ~a.confirm THEN "confirmation_required"
           ELSE IF a.ack = {} /\ ~a.review THEN "route_fingerprint_mismatch"
           ELSE "none"

Run(a) ==
  /\ pc = "idle" /\ runs < MaxRuns
  /\ a.rework = hinted
  /\ args' = a /\ runs' = runs + 1
  /\ IF StaticVerdict(file, a) = "none"
     THEN /\ pc' = "store" /\ UNCHANGED exit
          /\ selected' = {Descriptor(file, a.selector, "native_route")}
     ELSE End(StaticVerdict(file, a)) /\ UNCHANGED selected
  /\ UNCHANGED <<world, shown, observed, active, taskRead, process, completed, books>>

\* resolve_usage_store: never creates a store; a declared retry needs one.
ResolveStore ==
  /\ pc = "store"
  /\ \/ /\ args.store = "none" /\ ~args.rework
        /\ pc' = "context" /\ active' = FALSE /\ UNCHANGED exit
     \/ /\ args.store # "none" /\ store = "enabled"
        /\ pc' = "context" /\ active' = TRUE /\ UNCHANGED exit
     \/ /\ args.store = "default" /\ store = "absent" /\ ~args.rework
        /\ pc' = "context" /\ active' = FALSE /\ UNCHANGED exit
     \/ /\ \/ args.store = "none" /\ args.rework
           \/ args.store # "none" /\ store = "broken"
           \/ store = "absent" /\ (args.store = "explicit" \/ args.rework)
        /\ End("usage_unavailable") /\ UNCHANGED active
  /\ UNCHANGED <<world, shown, args, selected, observed, taskRead, process, completed,
                 runs, books>>

\* validate_runtime_process_context.
CheckContext ==
  /\ pc = "context"
  /\ \/ pc' = "observe" /\ UNCHANGED exit
     \/ End("executor_unavailable")
  /\ UNCHANGED <<world, shown, args, progress, process, completed, runs, books>>

\* bind_native_observation_v3: what the fingerprint stands for.
Fingerprint(d, now) == <<d, now>>

AckMatches(review) == args.ack # {} => args.ack = {review}

Observe ==
  /\ pc = "observe"
  /\ LET now == identity[Executable] IN
     /\ observed' = now
     /\ IF now = 0 THEN End("executor_unavailable")
        ELSE IF ~AckMatches(Fingerprint(Selection, now))
        THEN End("route_fingerprint_mismatch")
        ELSE pc' = (IF args.review THEN "review" ELSE "task") /\ UNCHANGED exit
     /\ raced' = FALSE
  /\ UNCHANGED <<world, shown, args, selected, active, taskRead, child, started, completed,
                 runs, books>>

\* _confirm_native_descriptor_on_console: the user takes his time.
Review ==
  /\ pc = "review"
  /\ \/ /\ shown' = shown \cup {Fingerprint(Selection, observed)}
        /\ \/ pc' = "task" /\ UNCHANGED exit
           \/ End("execution_cancelled")
     \/ End("invalid_input") /\ UNCHANGED shown
  /\ UNCHANGED <<world, args, progress, process, completed, runs, books>>

\* read_validated_task_v2, the one read of stdin, and _materialize.
ReadTask ==
  /\ pc = "task"
  /\ taskRead' = TRUE
  /\ \/ pc' = "reobserve" /\ UNCHANGED exit
     \/ End("invalid_task")
  /\ UNCHANGED <<world, shown, args, selected, observed, active, process, completed, runs,
                 books>>

\* The second observation is only made, not compared (seeded fault).
Unchecked(now) == TRUE

\* The second observation is compared with the acknowledgement, which a reviewed
\* run does not have (seeded fault).
SameAsAcknowledged(now) == args.ack = {<<Selection, now>>}

SameExecutable(now) == now = observed

Reobserve ==
  /\ pc = "reobserve"
  /\ LET now == identity[Executable] IN
     IF now = 0 THEN End("executor_unavailable") /\ UNCHANGED raced
     ELSE IF ~SameExecutable(now) THEN End("route_fingerprint_mismatch") /\ UNCHANGED raced
     ELSE pc' = "spawn" /\ raced' = FALSE /\ UNCHANGED exit
  /\ UNCHANGED <<world, shown, args, progress, child, started, completed, runs, books>>

\* A child that could not be run is an unavailable executor, as in schema 2
\* (seeded fault).
AsUnavailable == "executor_unavailable"

\* What an OSError of run_owned_foreground_redacted is reported as.
ChildError == "executor_failed"

\* Popen fails, or the process context is no longer safe.
SpawnFails ==
  /\ pc = "spawn"
  /\ End(ChildError)
  /\ UNCHANGED <<world, shown, args, progress, process, completed, runs, books>>

\* The path is executed, whatever it leads to now, even a file that the rules of
\* observe_executable refuse.
Spawn ==
  /\ pc = "spawn"
  /\ pc' = "child" /\ child' = "running" /\ started' = {identity[Executable]}
  /\ UNCHANGED <<world, shown, args, progress, raced, verdict, runs, books>>

\* The child's own status is known ...
ChildCompletes ==
  /\ pc = "child" /\ child = "running"
  /\ child' \in Statuses
  /\ pc' = IF active THEN "record" ELSE "report"
  /\ due' = due + IF active THEN 1 ELSE 0
  /\ UNCHANGED <<world, shown, args, progress, raced, started, verdict, runs, ledger,
                 hinted, doubtful>>

\* ... or it is lost, or the input could not be written: the child is gone.
ChildFails ==
  /\ pc = "child" /\ child = "running"
  /\ child' = "lost" /\ End(ChildError)
  /\ UNCHANGED <<world, shown, args, progress, raced, started, completed, runs, books>>

Counted ==
  ledger' = IF args.rework THEN [ledger EXCEPT !.retries = @ + 1]
                           ELSE [ledger EXCEPT !.tasks = @ + 1]

\* The hint is given for an exit code only, not for a signal (seeded fault).
HintForCode == child = "nonzero" /\ ~args.rework

\* Printed after a failed first attempt that was counted.
RetryHint == child # "zero" /\ ~args.rework

\* record_usage succeeds.
Record ==
  /\ pc = "record" /\ store = "enabled"
  /\ pc' = "report"
  /\ Counted
  /\ hinted' = (hinted \/ RetryHint)
  /\ UNCHANGED <<world, shown, args, progress, process, verdict, runs, due, doubtful>>

\* A failed record is let pass (seeded fault).
IgnoreRecordFailure == pc' = "report" /\ UNCHANGED <<verdict, doubtful>>

ReportRecordFailure ==
  End("usage_unavailable") /\ completed' = TRUE /\ doubtful' = TRUE

\* record_usage fails: before the rename, or after it, when the run is counted.
RecordFails ==
  /\ pc = "record"
  /\ ReportRecordFailure
  /\ \/ UNCHANGED ledger
     \/ store = "enabled" /\ Counted
  /\ UNCHANGED <<world, shown, args, progress, process, runs, due, hinted>>

\* _report_executor_result.
Report ==
  /\ pc = "report"
  /\ End(IF child = "zero" THEN "success" ELSE "executor_failed")
  /\ UNCHANGED <<world, shown, args, progress, process, completed, runs, books>>

\* A KeyboardInterrupt; a running child is gone when it comes out.
Interrupt ==
  /\ pc \notin {"idle", "ended"}
  /\ End("interrupted")
  /\ child' = IF child = "running" THEN "lost" ELSE child
  /\ \/ UNCHANGED ledger
     \/ pc = "record" /\ store = "enabled" /\ Counted
  /\ doubtful' = (doubtful \/ pc \in {"record", "report"})
  /\ UNCHANGED <<world, shown, args, progress, raced, started, completed, runs, due, hinted>>

\* The user reads the diagnostic.  A task that is done, or whose run must not be
\* repeated (child_completed), gives way to a new one.
NextRun ==
  /\ pc = "ended"
  /\ pc' = "idle" /\ args' = {}
  /\ selected' = {} /\ observed' = 0 /\ active' = FALSE /\ taskRead' = FALSE
  /\ child' = "none" /\ raced' = FALSE /\ started' = {}
  /\ exit' = "none" /\ completed' = FALSE
  /\ IF exit = "success" \/ completed
     THEN /\ ledger' = [tasks |-> 0, retries |-> 0] /\ due' = 0
          /\ hinted' = FALSE /\ doubtful' = FALSE
     ELSE UNCHANGED books
  /\ UNCHANGED <<world, shown, runs>>

-------------------------------------------------------------------------------
(* The world around the run *)

EditPolicy ==
  /\ edits < MaxEdits
  /\ edits' = edits + 1
  /\ file' \in PolicyFiles \ {file}
  /\ UNCHANGED <<identity, updates, store, changes, shown, pc, args, progress, process,
                 verdict, runs, books>>

\* An update gives a path a new identity, or takes it away.
UpdateExecutable(path) ==
  /\ updates < MaxUpdates
  /\ updates' = updates + 1
  /\ identity' \in {[identity EXCEPT ![path] = 0], [identity EXCEPT ![path] = updates + 2]}
  /\ raced' = (raced \/ (selected # {} /\ Executable = path))
  /\ UNCHANGED <<file, edits, store, changes, shown, pc, args, progress, child, started,
                 verdict, runs, books>>

ChangeStore ==
  /\ changes < MaxStoreChanges
  /\ changes' = changes + 1
  /\ store' \in {"absent", "enabled", "broken"} \ {store}
  /\ UNCHANGED <<file, edits, identity, updates, shown, pc, args, progress, process, verdict,
                 runs, books>>

Next ==
  \/ \E selector \in Requested : Route(selector)
  \/ \E a \in Arguments : Run(a)
  \/ ResolveStore \/ CheckContext \/ Observe \/ Review \/ ReadTask \/ Reobserve
  \/ SpawnFails \/ Spawn \/ ChildCompletes \/ ChildFails \/ Record \/ RecordFails \/ Report
  \/ Interrupt \/ NextRun
  \/ EditPolicy \/ ChangeStore \/ \E path \in Paths : UpdateExecutable(path)

Spec == Init /\ [][Next]_vars

-------------------------------------------------------------------------------
(* Properties *)

\* A child is only ever started on a selection and an executable the user was
\* shown, with his consent if it leaves the source endpoint, however the policy
\* file and the executable changed between review and run; only a change after
\* the last look, right before the spawn, goes unseen.
RunsWhatWasReviewed ==
  started # {} =>
    /\ <<Selection, observed>> \in shown
    /\ Selection.changed_dimensions # {} => args.confirm
    /\ started = {observed} \/ raced

\* Every diagnostic but success, executor_failed, an interrupt and a
\* usage_unavailable that says child_completed means that no child was started:
\* the run may be repeated.
RefusedMeansNothingRan ==
  exit \in {"execution_cancelled", "invalid_input", "invalid_task", "unsupported_route",
            "executor_unavailable", "confirmation_required", "route_fingerprint_mismatch"}
    \/ (exit = "usage_unavailable" /\ ~completed)
  => started = {}

\* Once the task was read from stdin, a run is refused for its executable only if
\* that changed since the gates before the read.
TaskReadOnlyPastTheGates ==
  taskRead /\ exit \in {"executor_unavailable", "route_fingerprint_mismatch"} => raced

\* A refused run leaves no trace: no child, and no task consumed in vain.
RefusedLeavesNoTrace == RefusedMeansNothingRan /\ TaskReadOnlyPastTheGates

\* A run that reports the child's outcome has been counted, as has every run of
\* the task before it, and none was counted that has no status of its own.
OutcomeIsAccounted ==
  ~doubtful /\ pc \in {"idle", "report", "ended"} => ledger.tasks + ledger.retries = due

\* A user who repeats a failed task as the hints say has it counted once,
\* unless a run of it ended in doubt.
TaskCountedOnce == ~doubtful => ledger.tasks <= 1

\* The ledger tells the truth about a task, whatever failed and was tried again.
TaskIsAccounted == OutcomeIsAccounted /\ TaskCountedOnce

\* What the README says of code 7, executor_failed: the command started and
\* exited non-zero.
FailedMeansStarted == exit = "executor_failed" => child \in {"nonzero", "signal"}

===============================================================================
