--------------------------- MODULE ProcessGroupAnchor --------------------------
(***************************************************************************)
(* ProcessGroupAnchor: how the owner of a child keeps the number of its    *)
(* process group, watches its leader's exit without reaping it, and        *)
(* signals the group.  Somebody else may take the leader's wait status,    *)
(* the number may then go to a stranger, and a signal may be refused.      *)
(***************************************************************************)
EXTENDS Naturals

CONSTANTS ForeignReapers, \* whether somebody else may take the child's status
          MaxPolls        \* bound on the looks within _PERMISSION_EXIT_RACE_SECONDS

\* What the constants are.
ASSUME AnchorAssumption == ForeignReapers \in BOOLEAN /\ MaxPolls \in Nat

VARIABLES
  platform,     \* whether os.waitid is there (Linux) or the observer is a kqueue (Darwin)
  leader,       \* running, a zombie, or taken: reaped by somebody else
  members,      \* whether the group has other live members
  denied,       \* whether the live ones have credentials that refuse the signal
  stranger,     \* whether the number has gone to another group
  event,        \* whether the queue has the exit of what it watches
  signalling,           \* where the owner is
  call,         \* what it is doing: open, observe or signal
  polls,        \* looks in the window of this call
  target,       \* process_group_id is not None
  handle,       \* exit_queue: none, queue, or exited for LEADER_ALREADY_EXITED
  queue,        \* the kernel's queue: open or closed
  observing,    \* _observer_open
  exited,       \* _leader_exited
  returncode,   \* of the Popen: none or lost
  raised,       \* what the call raised
  refused,      \* history: killpg was refused in this call
  proved,       \* history: an operation of the anchor has taken the status for lost
  knew,         \* history: _leader_exited when the call began
  lostAtCall,   \* history: the status was lost when the call began
  polled        \* what Popen.poll says after an open that failed

kernel == <<platform, leader, members, denied, stranger>>
anchor == <<target, handle, queue, observing, exited>>
history == <<refused, proved, knew, lostAtCall>>
answered == <<returncode, raised, polled>>
groupVars == <<kernel, event, signalling, call, polls, anchor, history, answered>>

Places == {"register", "waitable", "look", "kill", "window", "idle", "failed", "done"}
Raised == {"none", "lost", "observer", "error", "refused", "closed"}

-------------------------------------------------------------------------------
(* The kernel *)

LeaderExits ==
  /\ leader = "running" /\ leader' = "zombie"
  /\ UNCHANGED <<platform, event, members, denied, stranger>>

\* Of the leader, or of the stranger a queue was opened on; at any time after it.
EventArrives ==
  /\ queue = "open" /\ leader # "running" /\ ~event /\ event' = TRUE
  /\ UNCHANGED kernel

MemberExits ==
  /\ members /\ members' = FALSE
  /\ UNCHANGED <<platform, leader, event, denied, stranger>>

ForeignReap ==
  /\ ForeignReapers /\ leader = "zombie" /\ leader' = "taken"
  /\ UNCHANGED <<platform, event, members, denied, stranger>>

\* The number is free once the leader is reaped and the group is empty.
Recycle ==
  /\ leader = "taken" /\ ~members /\ ~stranger /\ stranger' = TRUE
  /\ UNCHANGED <<platform, leader, event, members, denied>>

Kernel == LeaderExits \/ EventArrives \/ MemberExits \/ ForeignReap \/ Recycle

Live == leader = "running" \/ members

\* EPERM: a stranger may refuse, and every live member refuses.  A zombie can be signalled on Linux; on Darwin
\* it counts for nothing, and a group of zombies refuses as well.
Refusals ==
  IF stranger THEN BOOLEAN
  ELSE IF platform = "waitid" THEN {Live /\ denied /\ leader # "zombie"}
  ELSE {(Live => denied) /\ (Live \/ leader = "zombie")}

-------------------------------------------------------------------------------
(* The anchor *)

\* How a call ends; open has no anchor to leave behind when it raises.
Rest(error) ==
  /\ raised' = error
  /\ signalling' = IF call = "open" /\ error # "none" THEN "failed" ELSE "idle"

\* close_leader_exit_queue in open, for whatever it raises.
AfterFailure == IF call = "open" THEN "closed" ELSE queue

\* open: waitid needs no queue; kqueue refuses a leader that is no longer running,
\* and tells nothing of who owns a process that has the number by now.
Register ==
  /\ signalling = "register"
  /\ \/ /\ platform = "waitid"
        /\ signalling' = "look" /\ UNCHANGED <<queue, handle, raised>>
     \/ /\ platform = "kqueue" /\ (leader = "running" \/ stranger)
        /\ signalling' = "look" /\ queue' = "open" /\ handle' = "queue" /\ UNCHANGED raised
     \/ /\ platform = "kqueue" /\ leader # "running" /\ ~stranger
        /\ signalling' = "waitable" /\ UNCHANGED <<queue, handle, raised>>
     \/ /\ platform = "kqueue"
        /\ Rest("observer") /\ UNCHANGED <<queue, handle>>
  /\ event' = FALSE
  /\ UNCHANGED <<kernel, call, polls, target, observing, exited, history, returncode, polled>>

\* darwin_child_status_waitable, and the ChildProcessError that open turns into a loss.
\* A look that fails for whatever reason leaves the ownership unproved: a loss as well.
Waitable ==
  /\ signalling = "waitable"
  /\ \/ /\ leader = "zombie"
        /\ signalling' = "look" /\ handle' = "exited" /\ UNCHANGED <<raised, returncode, proved>>
     \/ Rest("lost") /\ returncode' = "lost" /\ proved' = TRUE /\ UNCHANGED handle
  /\ UNCHANGED <<call, polls, target, queue, observing, exited, refused, knew, lostAtCall, polled>>

\* What a look answers: at once for an exit that is known, else what waitid or the
\* queue says.  A queue cannot tell that the status was taken.
Answer ==
  IF exited \/ handle = "exited" THEN "exited"
  ELSE IF platform = "kqueue" THEN IF event THEN "exited" ELSE "running"
  ELSE [running |-> "running", zombie |-> "exited", taken |-> "lost"][leader]

\* ECHILD is taken for an exit (seeded fault).
LossMeansExit == IF Answer = "lost" THEN "exited" ELSE Answer

Observed == Answer

\* signal ends quietly in the window once the exit is seen; the other calls go on.
Seen ==
  /\ Observed \in {"exited", "running"}
  /\ exited' = (Observed = "exited")
  /\ CASE signalling = "look" /\ call = "signal"       -> signalling' = "kill" /\ UNCHANGED <<polls, raised>>
       [] signalling = "look" /\ call # "signal"       -> Rest("none") /\ UNCHANGED polls
       [] signalling = "window" /\ Observed = "exited" -> Rest("none") /\ UNCHANGED polls
       [] OTHER -> \/ polls < MaxPolls /\ polls' = polls + 1 /\ UNCHANGED <<signalling, raised>>
                   \/ Rest("refused") /\ UNCHANGED polls
  /\ observing' = TRUE /\ UNCHANGED <<target, queue, returncode, proved>>

\* release_after_status_loss.  open does not take its own ChildStatusLostError for the
\* loss of the status: it carries no errno, and the process is not marked.
Lost ==
  /\ Observed = "lost"
  /\ Rest("lost") /\ proved' = TRUE
  /\ target' = FALSE /\ observing' = FALSE /\ queue' = "closed"
  /\ UNCHANGED <<polls, exited, returncode>>

\* Another OSError of the look.
LookFails ==
  /\ ~exited /\ handle # "exited"
  /\ Rest("error") /\ queue' = AfterFailure
  /\ UNCHANGED <<polls, target, observing, exited, returncode, proved>>

\* observe_leader_exit, on an anchor that is not closed.
Look ==
  /\ signalling \in {"look", "window"} /\ observing
  /\ Seen \/ Lost \/ LookFails
  /\ UNCHANGED <<call, handle, refused, knew, lostAtCall, polled>>

\* The observer is gone: ChildStatusLostError without a target, ValueError else.
LookTooLate ==
  /\ signalling = "look" /\ ~observing
  /\ Rest(IF target THEN "closed" ELSE "lost")
  /\ UNCHANGED <<call, polls, anchor, history, returncode, polled>>

\* The permission error of a live leader is ignored as well (seeded fault).
AlwaysIgnored == TRUE

Ignored == exited

\* signal_process_group: a group that is gone is no error, nor is a refusal behind an
\* exit that was seen.
Kill ==
  /\ signalling = "kill"
  /\ refused' \in Refusals
  /\ IF refused' /\ ~Ignored THEN signalling' = "window" /\ UNCHANGED raised ELSE Rest("none")
  /\ UNCHANGED <<call, polls, anchor, proved, knew, lostAtCall, returncode, polled>>

Begin(kind) ==
  /\ signalling = "idle" /\ signalling' = "look" /\ call' = kind
  /\ polls' = 0 /\ raised' = "none" /\ refused' = FALSE
  /\ knew' = exited /\ lostAtCall' = (leader = "taken")
  /\ UNCHANGED <<anchor, proved, returncode, polled>>

Close ==
  /\ signalling = "idle" /\ observing
  /\ observing' = FALSE /\ queue' = "closed"
  /\ UNCHANGED <<signalling, call, polls, target, handle, exited, history, answered>>

\* Popen.poll, of a process whose anchor could not be opened: where there is no child
\* to wait for, it says 0.
Poll ==
  /\ signalling = "failed" /\ signalling' = "done"
  /\ polled' = IF returncode = "lost" THEN "lost"
               ELSE [running |-> "none", zombie |-> "status", taken |-> "zero"][leader]
  /\ UNCHANGED <<call, polls, anchor, history, returncode, raised>>

Owner ==
  \/ Waitable \/ Look \/ LookTooLate \/ Kill \/ Close \/ Poll
  \/ \E kind \in {"observe", "signal"} : Begin(kind)

-------------------------------------------------------------------------------
GroupInit ==
  /\ platform \in {"waitid", "kqueue"} /\ leader = "running" /\ event = FALSE
  /\ members \in BOOLEAN /\ denied \in BOOLEAN /\ stranger = FALSE
  /\ signalling = "register" /\ call = "open" /\ polls = 0
  /\ target = TRUE /\ handle = "none" /\ queue = "closed" /\ observing = TRUE /\ exited = FALSE
  /\ returncode = "none" /\ raised = "none" /\ polled = "none"
  /\ refused = FALSE /\ proved = FALSE /\ knew = FALSE /\ lostAtCall = FALSE

GroupNext ==
  \/ Kernel /\ UNCHANGED <<signalling, call, polls, anchor, history, answered>>
  \/ Register
  \/ Owner /\ UNCHANGED <<kernel, event>>

GroupSpec == GroupInit /\ [][GroupNext]_groupVars

-------------------------------------------------------------------------------
(* Properties *)

\* A loss that was found stops every later signal and leaves no queue behind, nor does
\* an open that failed; and where waitid is there, a loss before the call stops the
\* signal unless the leader's exit was known by then.  With a kqueue, a loss that open
\* reports is not a success for the Popen either.
LossStopsSignals ==
  /\ signalling = "kill" => ~proved /\ (platform = "waitid" /\ ~knew => ~lostAtCall)
  /\ proved /\ signalling \in {"idle", "failed"} => queue = "closed"
  /\ signalling \in {"failed", "done"} => queue = "closed"
  /\ platform = "kqueue" /\ raised = "lost" => polled # "zero"

\* A refused signal goes unreported only if the leader has exited, however late its
\* event comes, and is reported only if its exit was not seen in the window.
RefusalsAreJudged ==
  signalling = "idle" /\ call = "signal" /\ refused =>
    /\ raised = "none" => leader # "running"
    /\ raised = "refused" => ~exited

================================================================================
