------------------------------ MODULE OwnedChild ------------------------------
(***************************************************************************)
(* run_owned_foreground: one parent thread spawns one vendor child, writes *)
(* its whole input, waits for its status, and on any exception cleans the  *)
(* child up before it lets the exception out.  The environment delivers    *)
(* SIGINT between any two steps of the parent, the child exits when it     *)
(* likes, and a foreign reaper may take its status.                        *)
(***************************************************************************)
EXTENDS Naturals

CONSTANTS InputLen,        \* units of input the child must be given
          MaxInterrupts,   \* bound on the number of SIGINTs
          ForeignReaper,   \* TRUE: somebody else may wait for the child
          SignalsRefused   \* TRUE: os.kill may fail with EPERM

ASSUME OwnedChildAssumption ==
  /\ InputLen \in Nat
  /\ MaxInterrupts \in Nat
  /\ ForeignReaper \in BOOLEAN
  /\ SignalsRefused \in BOOLEAN

VARIABLES
  pc,            \* where the parent is in run_owned_foreground
  owned,         \* `process` is not None
  child,         \* kernel state of the child
  status,        \* wait status the kernel keeps for the child
  doomed,        \* SIGKILL was delivered
  collected,     \* status waitpid returned, not yet stored in returncode
  returncode,    \* process.returncode
  disposition,   \* the caller's SIGINT handler: raises, or SIG_IGN
  handler,       \* whose SIGINT handler is installed
  received,      \* _DeferredSigint.received of the installed object
  interrupts,    \* number of SIGINTs delivered
  delivered,     \* units of input written
  pipe,          \* the parent's end of stdin
  original,      \* original_error
  firstError,    \* first_error of _cleanup_owned_child
  retried,       \* the first_error of _retry_cleanup_interrupts is a KeyboardInterrupt of its own
  cleanupError,  \* cleanup_error
  targets,       \* history: states of the child at each os.kill
  outcome        \* how the call ended; "abandoned" is a KeyboardInterrupt too

kernel == <<child, status, doomed>>
parent == <<owned, collected, returncode>>
sigint == <<disposition, handler, received, interrupts>>
input  == <<delivered, pipe>>
errors == <<original, firstError, retried, cleanupError>>
vars   == <<pc, kernel, parent, sigint, input, errors, targets, outcome>>

Statuses == {"zero", "nonzero", "signal"}

\* The places of _cleanup_owned_child, and those of them that wait.
CleanupPlaces == {"close", "grace", "term_check", "term_kill", "term_gone", "term_sent",
                  "tgrace", "kill_check", "kill_kill", "kill_gone", "kill_sent", "final"}
WaitPlaces == {"wait", "grace", "term_check", "term_gone", "tgrace",
               "kill_check", "kill_gone", "final"}

\* Where a wait goes once the status is stored, and where it goes when its
\* deadline passes (the others block).
AfterReap(p) == IF p = "wait" THEN "return" ELSE "restore"

\* Here the cleanup sends SIGTERM only (seeded fault).
TermOnly == [grace |-> "term_check", term_check |-> "term_kill",
             tgrace |-> "kill_check", kill_check |-> "final"]

AfterTimeout == [grace |-> "term_check", term_check |-> "term_kill",
                 tgrace |-> "kill_check", kill_check |-> "kill_kill"]
AfterKill == [term_kill |-> "term_sent", kill_kill |-> "kill_sent"]
AfterGone == [term_kill |-> "term_gone", kill_kill |-> "kill_gone"]
AfterSent == [term_sent |-> "tgrace", kill_sent |-> "final"]
AfterError == [close |-> "grace", grace |-> "term_check",
               term_check |-> "kill_check", term_kill |-> "kill_check", term_gone |-> "kill_check",
               term_sent |-> "kill_check", tgrace |-> "kill_check",
               kill_check |-> "final", kill_kill |-> "final", kill_gone |-> "final",
               kill_sent |-> "final"]

\* A retry calls the whole operation again; those of _signal_running_child have
\* several places.
Beginning(p) ==
  IF p \in {"term_kill", "term_gone", "term_sent"} THEN "term_check"
  ELSE IF p \in {"kill_kill", "kill_gone", "kill_sent"} THEN "kill_check"
  ELSE p

First(error, new) == IF error = "none" THEN new ELSE error

\* An operation that returns hands its first_error to _cleanup_owned_child; what it
\* kept is forgotten if it raises.
OperationReturns ==
  /\ firstError' = IF retried THEN First(firstError, "interrupted") ELSE firstError
  /\ retried' = FALSE
OperationRaises == retried' = FALSE /\ UNCHANGED firstError

Init ==
  /\ pc = "start" /\ owned = FALSE
  /\ child = "none" /\ status = "none" /\ doomed = FALSE
  /\ collected = "none" /\ returncode = "none"
  /\ disposition \in {"raise", "ignore"}
  /\ handler = "caller" /\ received = FALSE /\ interrupts = 0
  /\ delivered = 0 /\ pipe = "none"
  /\ original = "none" /\ firstError = "none" /\ retried = FALSE /\ cleanupError = "none"
  /\ targets = {} /\ outcome = "none"

-------------------------------------------------------------------------------
(* The spawn *)

\* _DeferredSigint.arm: a caller that ignores SIGINT keeps its handler.
Deferral == IF disposition = "ignore" THEN "caller" ELSE "deferred"

SpawnDeferral == Deferral

ArmSpawn ==
  /\ pc = "start"
  /\ pc' = "popen" /\ handler' = SpawnDeferral /\ received' = FALSE
  /\ UNCHANGED <<kernel, parent, disposition, interrupts, input, errors, targets, outcome>>

\* Off the main thread signal.signal refuses: nothing was started.
ArmSpawnRefused ==
  /\ pc = "start"
  /\ pc' = "done" /\ outcome' = "failed"
  /\ UNCHANGED <<kernel, parent, sigint, input, errors, targets>>

\* An unsafe SIGCHLD context or a failing Popen: `finally` still restores.
SpawnFails ==
  /\ pc = "popen"
  /\ pc' = "restore_spawn" /\ original' = "failed"
  /\ UNCHANGED <<kernel, parent, sigint, input, firstError, retried, cleanupError, targets, outcome>>

Fork ==
  /\ pc = "popen"
  /\ pc' = "forked" /\ child' = "running" /\ pipe' = "open"
  /\ UNCHANGED <<status, doomed, parent, sigint, delivered, errors, targets, outcome>>

AssignProcess ==
  /\ pc = "forked"
  /\ pc' = "restore_spawn" /\ owned' = TRUE
  /\ UNCHANGED <<kernel, collected, returncode, sigint, input, errors, targets, outcome>>

\* The handler is put back only for a SIGINT to dispatch (seeded fault).
RestoredIfReceived == IF received THEN "caller" ELSE handler

RestoredHandler == "caller"

\* restore_and_dispatch in the `finally` of the spawn.
RestoreSpawn ==
  /\ pc = "restore_spawn"
  /\ handler' = RestoredHandler
  /\ original' = IF received THEN "interrupted" ELSE original
  /\ IF original' = "none"
     THEN pc' = "write" /\ UNCHANGED outcome
     ELSE IF owned
     THEN pc' = "except" /\ UNCHANGED outcome
     ELSE pc' = "done" /\ outcome' = original'
  /\ UNCHANGED <<kernel, parent, disposition, received, interrupts, input, firstError,
                 retried, cleanupError, targets>>

-------------------------------------------------------------------------------
(* _write_input *)

\* What one write of the rest of the input may accept.
WriteSizes == 1..(InputLen - delivered)

WriteSome ==
  /\ pc = "write" /\ child = "running"
  /\ \E n \in WriteSizes : delivered' = delivered + n
  /\ UNCHANGED <<pc, kernel, parent, sigint, pipe, errors, targets, outcome>>

\* The input is taken for written after any short write (seeded fault).
ShortWriteEnough == delivered > 0 \/ InputLen = 0

AllWritten == delivered = InputLen

CloseWritten ==
  /\ pc = "write" /\ AllWritten
  /\ pc' = "wait" /\ pipe' = "closed"
  /\ UNCHANGED <<kernel, parent, sigint, delivered, errors, targets, outcome>>

\* A child that is gone, or that closed its stdin: the status tells the rest.
WriteBroken ==
  /\ pc = "write"
  /\ pc' = "wait" /\ pipe' = "broken"
  /\ UNCHANGED <<kernel, parent, sigint, delivered, errors, targets, outcome>>

\* write returns None or 0, or write or close raises.
WriteFails ==
  /\ pc = "write"
  /\ pc' = "except" /\ original' = "failed"
  /\ UNCHANGED <<kernel, parent, sigint, input, firstError, retried, cleanupError, targets, outcome>>

-------------------------------------------------------------------------------
(* wait_owned_child, at each of its call sites *)

WaitCached ==
  /\ pc \in WaitPlaces /\ returncode \in Statuses
  /\ pc' = AfterReap(pc) /\ OperationReturns
  /\ UNCHANGED <<kernel, parent, sigint, input, original, cleanupError, targets, outcome>>

\* waitpid returns the child's status ...
Waitpid ==
  /\ pc \in WaitPlaces /\ returncode = "none" /\ collected = "none"
  /\ child = "zombie"
  /\ child' = "reaped" /\ collected' = status
  /\ UNCHANGED <<pc, status, doomed, owned, returncode, sigint, input, errors, targets, outcome>>

\* ... and only then is it stored in the Popen object.
StoreReturncode ==
  /\ pc \in WaitPlaces /\ collected # "none"
  /\ returncode' = collected /\ collected' = "none"
  /\ pc' = AfterReap(pc) /\ OperationReturns
  /\ UNCHANGED <<kernel, owned, sigint, input, original, cleanupError, targets, outcome>>

\* What Popen.poll does with ECHILD (seeded fault).
InventStatus == /\ returncode' = "zero" /\ pc' = AfterReap(pc)
                /\ UNCHANGED original

\* ECHILD is remembered like any other cleanup error (seeded fault).
KeepCleaning ==
  /\ UNCHANGED returncode
  /\ \/ pc = "wait" /\ pc' = "except" /\ original' = "lost"
     \/ pc = "grace" /\ pc' = "term_kill" /\ UNCHANGED original
     \/ pc \in {"term_check", "term_gone", "tgrace"} /\ pc' = "kill_kill" /\ UNCHANGED original
     \/ pc \in {"kill_check", "kill_gone", "final"} /\ pc' = "restore" /\ UNCHANGED original

\* ECHILD marks the status as lost, once and for all; outside the cleanup it
\* is the original error, inside it the loss ends the cleanup.
LoseStatus ==
  /\ returncode' = "lost"
  /\ IF pc = "wait" THEN pc' = "except" /\ original' = "lost"
                    ELSE pc' = "restore" /\ UNCHANGED original

WaitEchild ==
  /\ pc \in WaitPlaces /\ collected = "none"
  /\ \/ returncode = "lost"
     \/ returncode = "none" /\ child \in {"reaped", "taken"}
  /\ LoseStatus /\ OperationRaises
  /\ UNCHANGED <<kernel, owned, collected, sigint, input, cleanupError, targets, outcome>>

\* TimeoutExpired: the child was still running when waitpid(WNOHANG) looked.  It
\* leaves a wait for a grace, and is caught within _signal_running_child.
WaitTimeout ==
  /\ pc \in DOMAIN AfterTimeout
  /\ returncode = "none" /\ collected = "none" /\ child = "running"
  /\ pc' = AfterTimeout[pc]
  /\ IF pc \in {"grace", "tgrace"} THEN OperationRaises ELSE UNCHANGED <<firstError, retried>>
  /\ UNCHANGED <<kernel, parent, sigint, input, original, cleanupError, targets, outcome>>

-------------------------------------------------------------------------------
(* The except branch and _cleanup_owned_child *)

EnterExcept ==
  /\ pc = "except"
  /\ pc' = "arm_cleanup"
  /\ UNCHANGED <<kernel, parent, sigint, input, errors, targets, outcome>>

ArmCleanup ==
  /\ pc = "arm_cleanup"
  /\ pc' = "close" /\ handler' = Deferral /\ received' = FALSE
  /\ UNCHANGED <<kernel, parent, disposition, interrupts, input, errors, targets, outcome>>

ArmCleanupRefused ==
  /\ pc = "arm_cleanup"
  /\ pc' = "close" /\ cleanupError' = "failed"
  /\ UNCHANGED <<kernel, parent, sigint, input, original, firstError, retried, targets, outcome>>

CloseInput ==
  /\ pc = "close"
  /\ pc' = "grace" /\ pipe' = IF pipe = "open" THEN "closed" ELSE pipe
  /\ OperationReturns
  /\ UNCHANGED <<kernel, parent, sigint, delivered, original, cleanupError, targets, outcome>>

\* The second half of _signal_running_child: os.kill.
Kill ==
  /\ pc \in DOMAIN AfterKill
  /\ targets' = targets \cup {child}
  /\ IF child \in {"running", "zombie"}
     THEN pc' = AfterKill[pc] /\ doomed' = (doomed \/ (pc = "kill_kill" /\ child = "running"))
     ELSE pc' = AfterGone[pc] /\ UNCHANGED doomed     \* ProcessLookupError
  /\ UNCHANGED <<child, status, parent, sigint, input, errors, outcome>>

\* The signal is sent, and _signal_running_child returns.
SignalReturns ==
  /\ pc \in DOMAIN AfterSent
  /\ pc' = AfterSent[pc] /\ OperationReturns
  /\ UNCHANGED <<kernel, parent, sigint, input, original, cleanupError, targets, outcome>>

\* The first failure ends the cleanup (seeded fault).
EndCleanup(p) == "restore"

\* Where the cleanup goes on when an operation of it fails.
NextAfterError(p) == AfterError[p]

\* close raises, or os.kill is refused: remembered, and the cleanup goes on.
CleanupOperationFails ==
  /\ \/ pc = "close" /\ pipe = "open"
     \/ SignalsRefused /\ pc \in DOMAIN AfterKill /\ child = "running"
  /\ pc' = NextAfterError(pc)
  /\ pipe' = IF pc = "close" THEN "closed" ELSE pipe
  /\ firstError' = First(firstError, "failed") /\ retried' = FALSE
  /\ UNCHANGED <<kernel, parent, sigint, delivered, original, cleanupError, targets, outcome>>

\* The outcome of _cleanup_owned_child is merged into cleanup_error unless
\* the status was lost, and a deferred SIGINT is dispatched.
RestoreCleanup ==
  /\ pc = "restore"
  /\ pc' = "raise" /\ handler' = RestoredHandler
  /\ LET merged == IF /\ returncode # "lost"
                      /\ cleanupError = "none" \/ firstError = "interrupted"
                   THEN firstError ELSE cleanupError
     IN  cleanupError' = IF handler = "deferred" /\ received
                         THEN First(merged, "interrupted") ELSE merged
  /\ UNCHANGED <<kernel, parent, disposition, received, interrupts, input, original,
                 firstError, retried, targets, outcome>>

\* The original error always wins (seeded fault).
OriginalFirst == original

\* status_loss, then the interrupts, then the original error.
Verdict ==
  IF returncode = "lost" THEN "lost"
  ELSE IF cleanupError = "interrupted" THEN "interrupted"
  ELSE original

Raise ==
  /\ pc = "raise"
  /\ pc' = "done" /\ outcome' = Verdict
  /\ UNCHANGED <<kernel, parent, sigint, input, errors, targets>>

Return ==
  /\ pc = "return"
  /\ pc' = "done" /\ outcome' = "completed"
  /\ UNCHANGED <<kernel, parent, sigint, input, errors, targets>>

-------------------------------------------------------------------------------
(* SIGINT, handled by the interpreter between two steps of the parent *)

SigintArrives ==
  /\ pc # "done" /\ disposition = "raise" /\ interrupts < MaxInterrupts
  /\ interrupts' = interrupts + 1
  /\ UNCHANGED <<kernel, owned, returncode, disposition, handler, input, targets>>

\* _DeferredSigint._handle.
SigintDeferred ==
  /\ SigintArrives /\ handler = "deferred"
  /\ received' = TRUE
  /\ UNCHANGED <<pc, collected, errors, outcome>>

\* KeyboardInterrupt where nothing catches it: before the child is owned, and
\* after the try block or the cleanup.
SigintEscapes ==
  /\ SigintArrives /\ handler = "caller"
  /\ pc \in {"start", "popen", "forked", "restore_spawn", "return", "restore", "raise"}
  /\ pc' = "done" /\ outcome' = "interrupted"
  /\ UNCHANGED <<collected, received, errors>>

\* KeyboardInterrupt in the except branch, before its try block: it leaves
\* run_owned_foreground past the cleanup.
SigintAbandons ==
  /\ SigintArrives /\ handler = "caller" /\ pc = "except"
  /\ pc' = "done" /\ outcome' = "abandoned"
  /\ UNCHANGED <<collected, received, errors>>

\* KeyboardInterrupt in the try block: it becomes the original error, and a
\* status waitpid had returned is dropped with the frame.
SigintInterruptsRun ==
  /\ SigintArrives /\ handler = "caller"
  /\ pc \in {"write", "wait", "return"}
  /\ pc' = "except" /\ original' = "interrupted" /\ collected' = "none"
  /\ UNCHANGED <<received, firstError, retried, cleanupError, outcome>>

\* KeyboardInterrupt inside arm(): the cleanup runs unarmed.
SigintPreventsArming ==
  /\ SigintArrives /\ handler = "caller" /\ pc = "arm_cleanup"
  /\ pc' = "close" /\ cleanupError' = "interrupted"
  /\ UNCHANGED <<received, collected, original, firstError, retried, outcome>>

\* An unarmed cleanup is interrupted inside an operation, which is retried;
\* around it, where `except BaseException` remembers the interrupt and the cleanup
\* goes on; or between two, and the loop starts the cleanup again, as it does for
\* what the final wait raises.
SigintInterruptsCleanup ==
  /\ SigintArrives /\ handler = "caller" /\ pc \in CleanupPlaces
  /\ collected' = "none"
  /\ \/ pc' = Beginning(pc) /\ retried' = TRUE /\ UNCHANGED <<firstError, cleanupError>>
     \/ /\ pc \in DOMAIN AfterError /\ pc' = NextAfterError(pc)
        /\ firstError' = First(firstError, "interrupted") /\ retried' = FALSE
        /\ UNCHANGED cleanupError
     \/ /\ pc' = "close" /\ cleanupError' = "interrupted"
        /\ firstError' = "none" /\ retried' = FALSE
  /\ UNCHANGED <<received, original, outcome>>

-------------------------------------------------------------------------------
(* The child and a foreign reaper *)

ChildExits ==
  /\ child = "running"
  /\ child' = "zombie"
  /\ status' \in IF doomed THEN {"signal"} ELSE Statuses
  /\ UNCHANGED <<pc, doomed, parent, sigint, input, errors, targets, outcome>>

StatusTaken ==
  /\ ForeignReaper /\ child = "zombie"
  /\ child' = "taken"
  /\ UNCHANGED <<pc, status, doomed, parent, sigint, input, errors, targets, outcome>>

Parent ==
  \/ ArmSpawn \/ ArmSpawnRefused \/ SpawnFails \/ Fork \/ AssignProcess \/ RestoreSpawn
  \/ WriteSome \/ CloseWritten \/ WriteBroken \/ WriteFails
  \/ WaitCached \/ Waitpid \/ StoreReturncode \/ WaitEchild \/ WaitTimeout
  \/ EnterExcept \/ ArmCleanup \/ ArmCleanupRefused \/ CloseInput \/ Kill \/ SignalReturns
  \/ CleanupOperationFails \/ RestoreCleanup \/ Raise \/ Return

Sigint ==
  \/ SigintDeferred \/ SigintEscapes \/ SigintAbandons \/ SigintInterruptsRun
  \/ SigintPreventsArming \/ SigintInterruptsCleanup

Next == Parent \/ Sigint \/ ChildExits \/ StatusTaken

Spec == Init /\ [][Next]_vars

\* The parent thread runs, and a child that was sent SIGKILL dies.
Fairness == WF_vars(Parent) /\ WF_vars(doomed /\ ChildExits)
FairSpec == Spec /\ Fairness

-------------------------------------------------------------------------------
(* Properties *)

\* The variables keep their types; no more is delivered than there is.
TypeOK ==
  /\ pc \in {"start", "popen", "forked", "restore_spawn", "write", "wait", "return",
             "except", "arm_cleanup", "restore", "raise", "done"} \cup CleanupPlaces
  /\ owned \in BOOLEAN /\ doomed \in BOOLEAN /\ received \in BOOLEAN /\ retried \in BOOLEAN
  /\ child \in {"none", "running", "zombie", "reaped", "taken"}
  /\ status \in Statuses \cup {"none"}
  /\ collected \in Statuses \cup {"none"}
  /\ returncode \in Statuses \cup {"none", "lost"}
  /\ disposition \in {"raise", "ignore"} /\ handler \in {"caller", "deferred"}
  /\ interrupts \in 0..MaxInterrupts
  /\ delivered \in 0..InputLen
  /\ pipe \in {"none", "open", "closed", "broken"}
  /\ original \in {"none", "failed", "interrupted", "lost"}
  /\ firstError \in {"none", "failed", "interrupted"}
  /\ cleanupError \in {"none", "failed", "interrupted"}
  /\ targets \subseteq {"none", "running", "zombie", "reaped", "taken"}
  /\ outcome \in {"none", "completed", "failed", "interrupted", "lost", "abandoned"}

Gone == child \in {"reaped", "taken"}

\* run_owned_foreground lets nothing out, result or exception, while its child
\* still runs or is unreaped, whatever fails or interrupts the cleanup; the
\* one way out is a SIGINT before the except branch has deferred it.
SettledBeforeExit == pc = "done" /\ outcome # "abandoned" => child = "none" \/ Gone

\* A completed run reports the status its own waitpid returned for the child:
\* a status another reaper took, or an interrupt dropped, is never replaced
\* by an invented success.
CompletedIsTrue == outcome = "completed" => child = "reaped" /\ returncode = status

\* os.kill is never aimed at a pid this process itself has already reaped (and
\* the system may have given to another process), even when SIGINT lands
\* between waitpid and the store of its result.
NeverSignalsReaped == "reaped" \notin targets

\* Whatever the interleaving, the caller's SIGINT handler is installed again
\* when run_owned_foreground is left.
HandlerRestored == pc = "done" => handler = "caller"

\* A SIGINT that arrives during the call makes the call end as interrupted (or
\* with a lost status), except when the deferral or an operation of the cleanup failed
\* first: an interrupt that a retry kept is forgotten when the retried wait times out.
InterruptSurfaces ==
  pc = "done" /\ interrupts > 0
    => outcome \in {"interrupted", "abandoned", "lost"} \/ cleanupError = "failed"

\* A child whose stdin was closed normally by a completed run got the whole
\* input, however short the single writes were.
ExactDelivery == outcome = "completed" /\ pipe = "closed" => delivered = InputLen

\* A lost status outranks the input or interrupt error that came first: only a
\* SIGINT outside the deferral can still take its place.
LossReported ==
  pc = "done" /\ returncode = "lost" => outcome \in {"lost", "interrupted", "abandoned"}

\* What the caller is told of the child's end is true: its real status, or the loss.
StatusIsTrue == CompletedIsTrue /\ LossReported

\* Once the except branch is entered the call ends: no failure, interrupt or
\* child that ignores SIGTERM makes the cleanup hang, but for the last wait for a
\* child that was not sent SIGKILL, and that only after a step of the cleanup failed.
StuckUnkilled == pc = "final" /\ ~doomed /\ firstError # "none"
CleanupTerminates == pc = "except" ~> (pc = "done" \/ StuckUnkilled)

\* What the test of a second SIGINT says: it is deferred until the child is
\* killed and reaped.
InterruptedRunIsReaped == pc = "done" /\ owned => Gone

===============================================================================
