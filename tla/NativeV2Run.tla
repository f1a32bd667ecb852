------------------------------- MODULE NativeV2Run -----------------------------
(***************************************************************************)
(* `wclass route` and `wclass run` on a schema-2 policy, for a user who    *)
(* reviews and runs while the policy file and the vendor's executable      *)
(* change.  A fingerprint stands for the descriptor it binds; unlike that  *)
(* of schema 3 it leaves the executable's identity out, which only the two *)
(* observations of one run compare.  OwnedChild models the child's run.    *)
(***************************************************************************)
EXTENDS NativePolicyV2, Naturals, FiniteSets

CONSTANTS PolicyFiles,  \* contents the policy file may have
          Requested,    \* sources the user asks for: vendor and profile
          NoTier,       \* no --tier was given
          MaxChanges,   \* bound on changes of the policy file and the executables
          MaxReviews,   \* bound on the reviews the user has when he asks for one
          MaxRuns       \* bound on runs

ASSUME NativeV2RunAssumption ==
  /\ PolicyFiles \subseteq Policies
  /\ Requested \subseteq [vendor : Vendors, profile : Ids]
  /\ NoTier \notin Tiers
  /\ {MaxChanges, MaxReviews, MaxRuns} \subseteq Nat

VARIABLES
  file,      \* the policy file
  identity,  \* lstat identity of each executable; 0: missing or refused
  changes,   \* changes of the above so far
  shown,     \* reviews the user has seen, and when route made them
  pc, args,  \* the run in progress and its arguments
  policy,    \* the policy it read, as a set of at most one
  selected,  \* its descriptor, likewise
  observed,  \* its first observation
  taskRead,  \* history: stdin was consumed
  started,   \* history: the identity that was executed, as a set of at most one
  child,     \* none, running, or how it ended
  raced,     \* history: the world changed since the run last looked
  exit,      \* the diagnostic
  runs       \* number of runs started

world    == <<file, identity, changes>>
progress == <<policy, selected, observed, taskRead>>
process  == <<started, child>>
vars == <<world, shown, pc, args, progress, process, raced, exit, runs>>

Policy == CHOOSE p \in policy : TRUE
Selection == CHOOSE d \in selected : TRUE

Init ==
  /\ file \in PolicyFiles /\ identity = [p \in Paths |-> 1] /\ changes = 0
  /\ shown = {}
  /\ pc = "idle" /\ args = {}
  /\ policy = {} /\ selected = {} /\ observed = 0 /\ taskRead = FALSE
  /\ started = {} /\ child = "none" /\ raced = FALSE /\ exit = "none"
  /\ runs = 0

End(code) == pc' = "ended" /\ exit' = code

SelectorOf(source, tier) == [vendor |-> source.vendor, profile |-> source.profile, tier |-> tier]

-------------------------------------------------------------------------------
(* _native_v2_route *)

\* The tier is given or suggested for the task, which is read in either case.
Route(source) ==
  /\ pc = "idle" /\ Cardinality(shown) < MaxReviews
  /\ ValidPolicy(file)
  /\ \E tier \in Tiers : \E d \in Compiled(file, SelectorOf(source, tier)) :
       shown' = shown \cup {[descriptor |-> d, at |-> {changes}]}
  /\ UNCHANGED <<world, pc, args, progress, process, raced, exit, runs>>

-------------------------------------------------------------------------------
(* _native_v2_run *)

Arguments == [source : Requested, tier : Tiers \cup {NoTier}, review : BOOLEAN,
              ack : {{}} \cup {{seen.descriptor} : seen \in shown}]

StaticVerdict(a) ==
  IF (a.tier = NoTier /\ ~a.review) \/ (a.review /\ a.ack # {}) \/ ~ValidPolicy(file)
  THEN "invalid_input"
  ELSE IF a.ack = {} /\ ~a.review THEN "route_fingerprint_mismatch"
  ELSE "none"

\* The policy file is read and parsed here, once.
Run(a) ==
  /\ pc = "idle" /\ runs < MaxRuns
  /\ args' = a /\ runs' = runs + 1
  /\ IF StaticVerdict(a) = "none"
     THEN pc' = "context" /\ policy' = {file} /\ UNCHANGED exit
     ELSE End(StaticVerdict(a)) /\ UNCHANGED policy
  /\ UNCHANGED <<world, shown, selected, observed, taskRead, process, raced>>

\* The last tier is left out (seeded fault).
LowerTiers == {"low", "standard"}

\* The tiers for which an acknowledgement is tried before the task is read.
TriedTiers == Tiers

Tried == UNION {Compiled(Policy, SelectorOf(args.source, t)) : t \in TriedTiers}

\* A lookup without a default raises what nobody catches.
TryRaises ==
  \E t \in TriedTiers : LET selector == SelectorOf(args.source, t) IN
    Compiles(Policy, selector) /\ Compiled(Policy, selector) = {}

\* validate_runtime_process_context; then an acknowledgement that fits no tier is
\* refused.
CheckContext ==
  /\ pc = "context"
  /\ \/ End("executor_unavailable")
     \/ IF args.ack # {} /\ TryRaises THEN End("traceback")
        ELSE IF args.ack \subseteq Tried THEN pc' = "task" /\ UNCHANGED exit
        ELSE End("route_fingerprint_mismatch")
  /\ UNCHANGED <<world, shown, args, progress, process, raced, runs>>

\* The acknowledgement is the selected descriptor's.
AckMatches(compiled) == args.ack # {} => compiled = args.ack

\* _v2_task_and_tier and the selection: an ack comes with a tier of its own.
ReadTask ==
  /\ pc = "task" /\ taskRead' = TRUE
  /\ \/ End("invalid_task") /\ UNCHANGED selected
     \/ \E tier \in IF args.tier = NoTier THEN Tiers ELSE {args.tier} :
          LET selector == SelectorOf(args.source, tier)
              compiled == Compiled(Policy, selector) IN
          /\ selected' = compiled
          /\ IF ~Compiles(Policy, selector) THEN End("unsupported_route")
             ELSE IF compiled = {} THEN End("traceback")
             ELSE IF ~AckMatches(compiled) THEN End("route_fingerprint_mismatch")
             ELSE pc' = "observe" /\ UNCHANGED exit
  /\ UNCHANGED <<world, shown, args, policy, observed, process, raced, runs>>

Observe ==
  /\ pc = "observe"
  /\ observed' = identity[Selection.target.executable] /\ raced' = FALSE
  /\ IF observed' = 0 THEN End("executor_unavailable")
     ELSE pc' = (IF args.review THEN "review" ELSE "reobserve") /\ UNCHANGED exit
  /\ UNCHANGED <<world, shown, args, policy, selected, taskRead, process, runs>>

\* _confirm_native_descriptor_on_console.
Review ==
  /\ pc = "review"
  /\ \/ /\ shown' = shown \cup {[descriptor |-> Selection, at |-> {}]}
        /\ \/ pc' = "reobserve" /\ UNCHANGED exit
           \/ End("execution_cancelled")
     \/ End("invalid_input") /\ UNCHANGED shown
  /\ UNCHANGED <<world, args, progress, process, raced, runs>>

\* Only the presence of the executable is looked at again (seeded fault).
StillThere(now) == now # 0

SameExecutable(now) == now # 0 /\ now = observed

\* run_native_v2: a changed executable is an unavailable one.
Reobserve ==
  /\ pc = "reobserve"
  /\ \/ End("executor_unavailable") /\ UNCHANGED raced   \* the process context
     \/ /\ SameExecutable(identity[Selection.target.executable])
        /\ pc' = "spawn" /\ raced' = FALSE /\ UNCHANGED exit
  /\ UNCHANGED <<world, shown, args, progress, process, runs>>

SpawnFails ==
  /\ pc = "spawn"
  /\ End("executor_unavailable")
  /\ UNCHANGED <<world, shown, args, progress, process, raced, runs>>

\* The path is executed, whatever it leads to now.
Spawn ==
  /\ pc = "spawn"
  /\ pc' = "child" /\ child' = "running"
  /\ started' = {identity[Selection.target.executable]}
  /\ UNCHANGED <<world, shown, args, progress, raced, exit, runs>>

\* _report_executor_result.
ChildCompletes ==
  /\ pc = "child"
  /\ child' \in {"zero", "nonzero", "signal"}
  /\ End(IF child' = "zero" THEN "success" ELSE "executor_failed")
  /\ UNCHANGED <<world, shown, args, progress, started, raced, runs>>

\* The child's status is lost, or its input could not be written: it is gone.
ChildFails ==
  /\ pc = "child"
  /\ child' = "lost"
  /\ End("executor_failed") \/ End("executor_unavailable")
  /\ UNCHANGED <<world, shown, args, progress, started, raced, runs>>

\* A KeyboardInterrupt; a running child is gone when it comes out.
Interrupt ==
  /\ pc \notin {"idle", "ended"}
  /\ End("interrupted")
  /\ child' = IF child = "running" THEN "lost" ELSE child
  /\ UNCHANGED <<world, shown, args, progress, started, raced, runs>>

NextRun ==
  /\ pc = "ended"
  /\ pc' = "idle" /\ args' = {}
  /\ policy' = {} /\ selected' = {} /\ observed' = 0 /\ taskRead' = FALSE
  /\ started' = {} /\ child' = "none" /\ raced' = FALSE /\ exit' = "none"
  /\ UNCHANGED <<world, shown, runs>>

-------------------------------------------------------------------------------
(* The world around the run *)

Changing ==
  /\ changes < MaxChanges
  /\ changes' = changes + 1 /\ raced' = (pc # "idle")
  /\ UNCHANGED <<shown, pc, args, progress, process, exit, runs>>

EditPolicy == Changing /\ file' \in PolicyFiles \ {file} /\ UNCHANGED identity

\* An update gives a path a new identity, or takes it away.
UpdateExecutable(path) ==
  /\ Changing
  /\ \E new \in {0, changes + 2} : identity' = [identity EXCEPT ![path] = new]
  /\ UNCHANGED file

Next ==
  \/ \E source \in Requested : Route(source)
  \/ \E a \in Arguments : Run(a)
  \/ CheckContext \/ ReadTask \/ Observe \/ Review \/ Reobserve \/ SpawnFails \/ Spawn
  \/ ChildCompletes \/ ChildFails \/ Interrupt \/ NextRun
  \/ EditPolicy
  \/ \E path \in Paths : UpdateExecutable(path)

Spec == Init /\ [][Next]_vars

-------------------------------------------------------------------------------
(* Properties *)

\* A child is only ever started on a descriptor the user was shown, of the source
\* and, if he gave one, the tier he asked for; its executable is the one that was
\* there before the review, unless it changed after the last look.
RunsWhatWasReviewed ==
  started # {} =>
    /\ \E seen \in shown : seen.descriptor = Selection
    /\ Selection.selection \in
         {SelectorOf(args.source, t) : t \in IF args.tier = NoTier THEN Tiers ELSE {args.tier}}
    /\ raced \/ started = {observed}

\* No task leaves its profile or its vendor but by a grant for that direction, of
\* the policy that the run read, which the reviewed descriptor names.
CrossingsGranted ==
  started # {} =>
    LET from == Selection.source
        to   == Selection.destination
    IN  /\ from.id # to.id =>
             \E g \in Policy.profile_grants \cap Selection.authorizations :
               g.from = from.id /\ g.to = to.id
        /\ from.vendor # to.vendor =>
             \E g \in Policy.vendor_grants \cap Selection.authorizations :
               g.from = from.vendor /\ g.to = to.vendor

\* An acknowledgement of the tier that is asked for is not refused when nothing
\* changed since the review, and none of the tiers that are compiled for it raises
\* what nobody catches.
ReviewIsHonoured ==
  /\ exit # "traceback"
  /\ exit = "route_fingerprint_mismatch" =>
       \A seen \in shown :
         ~(/\ args.ack = {seen.descriptor} /\ seen.at = {changes}
           /\ seen.descriptor.selection = SelectorOf(args.source, args.tier))

===============================================================================
