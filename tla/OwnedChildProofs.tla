--------------------------- MODULE OwnedChildProofs ---------------------------
(***************************************************************************)
(* The safety of run_owned_foreground for every input length, every number *)
(* of SIGINTs, with and without a foreign reaper and refused signals.      *)
(***************************************************************************)
EXTENDS OwnedChild, TLAPS

SpawnPlaces == {"start", "popen", "forked", "restore_spawn"}
OwnedPlaces == {"write", "wait", "return", "except", "arm_cleanup", "restore", "raise"}
                 \cup CleanupPlaces

\* `process` is assigned between the fork and the input, and never before.
Ownership ==
  /\ pc \in {"start", "popen"} => ~owned /\ child = "none" /\ original = "none"
  /\ pc = "forked" => ~owned /\ child # "none" /\ original = "none"
  /\ pc = "restore_spawn" => \/ ~owned /\ child = "none" /\ original = "failed"
                             \/ owned /\ child # "none" /\ original = "none"
  /\ pc \in OwnedPlaces => owned /\ child # "none"
  /\ pc \in SpawnPlaces => child # "reaped"

\* What the parent knows of the status is what the kernel had.
Knowledge ==
  /\ collected # "none" => /\ child = "reaped" /\ collected = status
                           /\ returncode = "none" /\ pc \in WaitPlaces
  /\ returncode \in Statuses => child = "reaped" /\ returncode = status
  /\ returncode = "lost" => Gone

\* What has been established about the child at each place.
Progress ==
  /\ pc \in {"term_kill", "kill_kill"} => child # "reaped"
  /\ pc \in {"restore", "raise"} => Gone
  /\ pc = "return" => returncode \in Statuses

\* Where SIGINT is deferred, and where it is not: a cleanup runs unarmed only when
\* arming has failed, or was interrupted, and left that in cleanup_error.
Deferred ==
  /\ pc \in {"start", "write", "wait", "return", "except", "arm_cleanup", "raise", "done"}
       => handler = "caller"
  /\ pc \in {"popen", "forked", "restore_spawn"} /\ disposition = "raise"
       => handler = "deferred"
  /\ pc \in CleanupPlaces /\ disposition = "raise" /\ handler = "caller"
       => cleanupError # "none"

\* Until the cleanup closes it, stdin is closed only behind the whole input.
Delivery ==
  /\ pc \in SpawnPlaces \cup {"write"} => pipe # "closed"
  /\ pc \in {"wait", "return"} /\ pipe = "closed" => delivered = InputLen

\* Where the record of a SIGINT is kept until the call ends with it.
Interrupted ==
  interrupts > 0 =>
    /\ disposition = "raise" /\ pc \notin {"start", "write", "wait", "return"}
    /\ pc \in {"popen", "forked", "restore_spawn"} => received
    /\ pc \in {"except", "arm_cleanup"} => original = "interrupted"
    /\ pc \in CleanupPlaces \cup {"restore"} =>
         \/ original = "interrupted" \/ cleanupError # "none" \/ firstError # "none"
         \/ handler = "deferred" /\ received
    /\ pc = "raise" => \/ original = "interrupted" \/ cleanupError # "none"
                       \/ returncode = "lost"

Outcome ==
  /\ pc # "done" => outcome = "none"
  /\ SettledBeforeExit /\ CompletedIsTrue /\ NeverSignalsReaped /\ LossReported
  /\ ExactDelivery /\ InterruptSurfaces

Safe == Ownership /\ Knowledge /\ Progress /\ Deferred /\ Delivery /\ Interrupted /\ Outcome

-------------------------------------------------------------------------------
\* No step leaves the types.
LEMMA TypeStep == TypeOK /\ [Next]_vars => TypeOK'
<1> SUFFICES ASSUME TypeOK, [Next]_vars PROVE TypeOK'
    OBVIOUS
<1> USE OwnedChildAssumption DEF TypeOK, Statuses, CleanupPlaces, WaitPlaces, vars, kernel,
        parent, sigint, input, errors
<1>1. CASE ArmSpawn
  <2>1. received' \in BOOLEAN
    BY <1>1, Zenon DEF ArmSpawn
  <2> QED
    BY <1>1, <2>1 DEF ArmSpawn, SpawnDeferral, Deferral
<1>2. CASE ArmSpawnRefused
  BY <1>2 DEF ArmSpawnRefused
<1>3. CASE SpawnFails
  BY <1>3 DEF SpawnFails
<1>4. CASE Fork
  BY <1>4 DEF Fork
<1>5. CASE AssignProcess
  BY <1>5 DEF AssignProcess
<1>6. CASE RestoreSpawn
  BY <1>6 DEF RestoreSpawn, RestoredHandler
<1>7. CASE WriteSome
  BY <1>7 DEF WriteSome, WriteSizes
<1>8. CASE CloseWritten
  BY <1>8 DEF CloseWritten, AllWritten
<1>9. CASE WriteBroken
  BY <1>9 DEF WriteBroken
<1>10. CASE WriteFails
  BY <1>10 DEF WriteFails
<1>11. CASE WaitCached
  <2>1. retried' \in BOOLEAN
    BY <1>11, Zenon DEF WaitCached, OperationReturns
  <2> QED
    BY <1>11, <2>1 DEF WaitCached, AfterReap, OperationReturns, First
<1>12. CASE Waitpid
  BY <1>12 DEF Waitpid
<1>13. CASE StoreReturncode
  <2>1. retried' \in BOOLEAN
    BY <1>13, Zenon DEF StoreReturncode, OperationReturns
  <2> QED
    BY <1>13, <2>1 DEF StoreReturncode, AfterReap, OperationReturns, First
<1>14. CASE WaitEchild
  <2>1. retried' \in BOOLEAN
    BY <1>14, Zenon DEF WaitEchild, OperationRaises
  <2> QED
    BY <1>14, <2>1 DEF WaitEchild, LoseStatus, OperationRaises
<1>15. CASE WaitTimeout
  <2>1. retried' \in BOOLEAN
    BY <1>15, Zenon DEF WaitTimeout, OperationRaises
  <2> QED
    BY <1>15, <2>1 DEF WaitTimeout, AfterTimeout, OperationRaises
<1>16. CASE EnterExcept
  BY <1>16 DEF EnterExcept
<1>17. CASE ArmCleanup
  <2>1. received' \in BOOLEAN
    BY <1>17, Zenon DEF ArmCleanup
  <2> QED
    BY <1>17, <2>1 DEF ArmCleanup, Deferral
<1>18. CASE ArmCleanupRefused
  BY <1>18 DEF ArmCleanupRefused
<1>19. CASE CloseInput
  <2>1. retried' \in BOOLEAN
    BY <1>19, Zenon DEF CloseInput, OperationReturns
  <2> QED
    BY <1>19, <2>1 DEF CloseInput, OperationReturns, First
<1>20. CASE Kill
  <2>1. doomed' \in BOOLEAN
    BY <1>20, Zenon DEF Kill
  <2> QED
    BY <1>20, <2>1 DEF Kill, AfterKill, AfterGone
<1>21. CASE CleanupOperationFails
  <2>1. retried' \in BOOLEAN
    BY <1>21, Zenon DEF CleanupOperationFails
  <2> QED
    BY <1>21, <2>1 DEF CleanupOperationFails, NextAfterError, AfterError, AfterKill, First
<1>22. CASE RestoreCleanup
  BY <1>22 DEF RestoreCleanup, RestoredHandler, First
<1>23. CASE Raise
  BY <1>23 DEF Raise, Verdict
<1>24. CASE Return
  BY <1>24 DEF Return
<1>25. CASE SigintDeferred
  BY <1>25 DEF SigintDeferred, SigintArrives
<1>26. CASE SigintEscapes
  BY <1>26 DEF SigintEscapes, SigintArrives
<1>27. CASE SigintAbandons
  BY <1>27 DEF SigintAbandons, SigintArrives
<1>28. CASE SigintInterruptsRun
  BY <1>28 DEF SigintInterruptsRun, SigintArrives
<1>29. CASE SigintPreventsArming
  BY <1>29 DEF SigintPreventsArming, SigintArrives
<1>30. CASE SigintInterruptsCleanup
  <2>1. retried' \in BOOLEAN
    BY <1>30, Zenon DEF SigintInterruptsCleanup
  <2> QED
    BY <1>30, <2>1 DEF SigintInterruptsCleanup, Beginning, NextAfterError, AfterError, First, SigintArrives
<1>31. CASE ChildExits
  BY <1>31 DEF ChildExits
<1>32. CASE StatusTaken
  BY <1>32 DEF StatusTaken
<1>33. CASE UNCHANGED vars
  BY <1>33
<1>34. CASE SignalReturns
  <2>1. retried' \in BOOLEAN
    BY <1>34, Zenon DEF SignalReturns, OperationReturns
  <2> QED
    BY <1>34, <2>1 DEF SignalReturns, AfterSent, OperationReturns, First
<1> QED
  BY <1>1, <1>2, <1>3, <1>4, <1>5, <1>6, <1>7, <1>8, <1>9, <1>10, <1>11, <1>12, <1>13, <1>14,
       <1>15, <1>16, <1>17, <1>18, <1>19, <1>20, <1>21, <1>22, <1>23, <1>24, <1>25, <1>26,
       <1>27, <1>28, <1>29, <1>30, <1>31, <1>32, <1>33, <1>34 DEF Next, Parent, Sigint

\* The variables keep their types; the parent never writes more than the input.
THEOREM TypeCorrect == Spec => []TypeOK
<1>1. Init => TypeOK
  <2> SUFFICES ASSUME Init PROVE TypeOK
    OBVIOUS
  <2>1. owned \in BOOLEAN /\ doomed \in BOOLEAN /\ received \in BOOLEAN /\ retried \in BOOLEAN
    BY Zenon DEF Init
  <2> QED
    BY <2>1, OwnedChildAssumption DEF Init, TypeOK
<1> QED
  BY <1>1, TypeStep, PTL DEF Spec

\* No step breaks the inductive invariant.
LEMMA SafetyStep == TypeOK /\ Safe /\ [Next]_vars => Safe'
<1> SUFFICES ASSUME TypeOK /\ Safe, [Next]_vars PROVE Safe'
    OBVIOUS
<1> USE OwnedChildAssumption DEF Safe, TypeOK, Ownership, Knowledge, Progress, Deferred,
        Delivery, Interrupted, Outcome, SettledBeforeExit, CompletedIsTrue, NeverSignalsReaped,
        LossReported, ExactDelivery, InterruptSurfaces, Gone, SpawnPlaces, OwnedPlaces,
        Statuses, CleanupPlaces, WaitPlaces, vars, kernel, parent, sigint, input, errors
<1>1. CASE ArmSpawn
  BY <1>1 DEF ArmSpawn, SpawnDeferral, Deferral
<1>2. CASE ArmSpawnRefused
  BY <1>2 DEF ArmSpawnRefused
<1>3. CASE SpawnFails
  BY <1>3 DEF SpawnFails
<1>4. CASE Fork
  BY <1>4 DEF Fork
<1>5. CASE AssignProcess
  BY <1>5 DEF AssignProcess
<1>6. CASE RestoreSpawn
  BY <1>6 DEF RestoreSpawn, RestoredHandler
<1>7. CASE WriteSome
  BY <1>7 DEF WriteSome, WriteSizes
<1>8. CASE CloseWritten
  BY <1>8 DEF CloseWritten, AllWritten
<1>9. CASE WriteBroken
  BY <1>9 DEF WriteBroken
<1>10. CASE WriteFails
  BY <1>10 DEF WriteFails
<1>11. CASE WaitCached
  BY <1>11 DEF WaitCached, AfterReap, OperationReturns, First
<1>12. CASE Waitpid
  BY <1>12 DEF Waitpid
<1>13. CASE StoreReturncode
  BY <1>13 DEF StoreReturncode, AfterReap, OperationReturns, First
<1>14. CASE WaitEchild
  BY <1>14 DEF WaitEchild, LoseStatus, OperationRaises
<1>15. CASE WaitTimeout
  BY <1>15 DEF WaitTimeout, AfterTimeout, OperationRaises
<1>16. CASE EnterExcept
  BY <1>16 DEF EnterExcept
<1>17. CASE ArmCleanup
  BY <1>17 DEF ArmCleanup, Deferral
<1>18. CASE ArmCleanupRefused
  BY <1>18 DEF ArmCleanupRefused
<1>19. CASE CloseInput
  BY <1>19 DEF CloseInput, OperationReturns, First
<1>20. CASE Kill
  BY <1>20 DEF Kill, AfterKill, AfterGone
<1>21. CASE CleanupOperationFails
  BY <1>21 DEF CleanupOperationFails, NextAfterError, AfterError, AfterKill, First
<1>22. CASE RestoreCleanup
  BY <1>22 DEF RestoreCleanup, RestoredHandler, First
<1>23. CASE Raise
  BY <1>23 DEF Raise, Verdict
<1>24. CASE Return
  BY <1>24 DEF Return
<1>25. CASE SigintDeferred
  BY <1>25 DEF SigintDeferred, SigintArrives
<1>26. CASE SigintEscapes
  BY <1>26 DEF SigintEscapes, SigintArrives
<1>27. CASE SigintAbandons
  BY <1>27 DEF SigintAbandons, SigintArrives
<1>28. CASE SigintInterruptsRun
  BY <1>28 DEF SigintInterruptsRun, SigintArrives
<1>29. CASE SigintPreventsArming
  BY <1>29 DEF SigintPreventsArming, SigintArrives
<1>30. CASE SigintInterruptsCleanup
  BY <1>30 DEF SigintInterruptsCleanup, Beginning, NextAfterError, AfterError, First, SigintArrives
<1>31. CASE ChildExits
  BY <1>31 DEF ChildExits
<1>32. CASE StatusTaken
  BY <1>32 DEF StatusTaken
<1>33. CASE UNCHANGED vars
  BY <1>33
<1>34. CASE SignalReturns
  BY <1>34 DEF SignalReturns, AfterSent, OperationReturns, First
<1> QED
  BY <1>1, <1>2, <1>3, <1>4, <1>5, <1>6, <1>7, <1>8, <1>9, <1>10, <1>11, <1>12, <1>13, <1>14,
       <1>15, <1>16, <1>17, <1>18, <1>19, <1>20, <1>21, <1>22, <1>23, <1>24, <1>25, <1>26,
       <1>27, <1>28, <1>29, <1>30, <1>31, <1>32, <1>33, <1>34 DEF Next, Parent, Sigint

\* The inductive invariant holds throughout.
LEMMA SafeAlways == Spec => []Safe
<1>1. Init => Safe
  BY DEF Init, Safe, Ownership, Knowledge, Progress, Deferred, Delivery, Interrupted,
         Outcome, SettledBeforeExit, CompletedIsTrue, NeverSignalsReaped, LossReported,
         ExactDelivery, InterruptSurfaces, Gone, SpawnPlaces, OwnedPlaces, Statuses,
                 CleanupPlaces, WaitPlaces
<1> QED
  BY <1>1, TypeCorrect, SafetyStep, PTL DEF Spec

\* run_owned_foreground never ends with its child alive or unreaped (but for
\* the window of the except branch).
THEOREM AlwaysSettled == Spec => []SettledBeforeExit
<1>1. Safe => SettledBeforeExit
  BY DEF Safe, Outcome
<1> QED
  BY <1>1, SafeAlways, PTL

\* The caller is never told an invented status, nor one that hides its loss.
THEOREM StatusAlwaysTrue == Spec => []StatusIsTrue
<1>1. Safe => StatusIsTrue
  BY DEF Safe, Outcome, StatusIsTrue
<1> QED
  BY <1>1, SafeAlways, PTL

\* os.kill is never aimed at a pid this process has reaped.
THEOREM ReapedIsNeverSignalled == Spec => []NeverSignalsReaped
<1>1. Safe => NeverSignalsReaped
  BY DEF Safe, Outcome
<1> QED
  BY <1>1, SafeAlways, PTL

\* A normal close of stdin in a completed run means that all was written.
THEOREM DeliveryIsExact == Spec => []ExactDelivery
<1>1. Safe => ExactDelivery
  BY DEF Safe, Outcome
<1> QED
  BY <1>1, SafeAlways, PTL

\* No SIGINT is swallowed, wherever it lands and however many there are.
THEOREM InterruptsSurface == Spec => []InterruptSurfaces
<1>1. Safe => InterruptSurfaces
  BY DEF Safe, Outcome
<1> QED
  BY <1>1, SafeAlways, PTL

\* However the call ends, the caller's SIGINT handler is the installed one.
THEOREM HandlerAlwaysRestored == Spec => []HandlerRestored
<1>1. Safe => HandlerRestored
  BY DEF Safe, Deferred, HandlerRestored
<1> QED
  BY <1>1, SafeAlways, PTL

===============================================================================
