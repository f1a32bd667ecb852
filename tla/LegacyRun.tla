-------------------------------- MODULE LegacyRun ------------------------------
(***************************************************************************)
(* `wclass route` and `wclass run` with a schema-1 policy file, a packaged *)
(* policy or the default routes, for a user who reviews and runs while the *)
(* policy file, the PATH and the executables change.  A fingerprint stands *)
(* for what it binds.  OwnedChild models the child's run in detail.        *)
(***************************************************************************)
EXTENDS LegacyPolicy, FiniteSets

CONSTANTS Builtin,       \* vendors of the adapter registry, which name programs
          Paths,         \* the absolute paths among the programs
          Home,          \* the path the names on the PATH lead to at first
          DefaultRoutes, \* the routes in the package
          VendorRoutes,  \* those of each vendor, which presets and overrides relabel
          PolicyFiles,   \* contents the policy file may have
          Requests,      \* what the user asks route and run for
          MaxChanges,    \* bound on changes of the policy file and the programs
          MaxReviews,    \* bound on the reviews the user has when he asks for one
          MaxRuns        \* bound on runs

Kinds == {"default", "preset", "override", "file"}

ASSUME LegacyRunAssumption ==
  /\ Builtin \subseteq VendorLabels \cap Programs /\ Paths \subseteq Programs /\ Home \in Paths
  /\ DefaultRoutes \in Seq(Routes) /\ VendorRoutes \in [Builtin -> Seq(Routes)]
  /\ {"preset", "override"} \subseteq Options
  /\ PolicyFiles \subseteq Policies
  /\ Requests \subseteq [kind : Kinds, vendor : VendorLabels \cup {NoVendor},
                         tier : Tiers \cup {NoTier}, bind : BOOLEAN]
  /\ {MaxChanges, MaxReviews, MaxRuns} \subseteq Nat

VARIABLES
  file,      \* the policy file
  leads,     \* the file a program's lookup or links end at, as a set of at most one
  identity,  \* lstat identity of each path; 0: missing or refused
  changes,   \* changes of the above so far
  shown,     \* reviews the user has seen, with what route was asked for and when
  pc, args,  \* the run in progress and its arguments
  policy,    \* the policy it read, as a set of at most one
  route,     \* its route, likewise
  nul,       \* whether its argv would carry a NUL character of its task
  observed,  \* the identity a bound route observed, likewise
  started,   \* history: the command and the identity that were executed, likewise
  child,     \* none, running, or how it ended
  raced,     \* history: the world changed since the run last looked
  exit,      \* the diagnostic
  runs,      \* number of runs started
  ran        \* history: policy, source and vendor of the children started

world     == <<file, leads, identity, changes>>
selection == <<policy, nul, route, observed>>
process   == <<started, child>>
vars == <<world, shown, pc, args, selection, process, raced, exit, runs, ran>>

The(set) == CHOOSE x \in set : TRUE

Init ==
  /\ file \in PolicyFiles /\ changes = 0
  /\ leads = [program \in Programs |-> {IF program \in Paths THEN program ELSE Home}]
  /\ identity = [p \in Paths |-> 1]
  /\ shown = {}
  /\ pc = "idle" /\ args = {}
  /\ policy = {} /\ nul = FALSE /\ route = {} /\ observed = {}
  /\ started = {} /\ child = "none" /\ raced = FALSE /\ exit = "none"
  /\ runs = 0 /\ ran = {}

End(code) == pc' = "ended" /\ exit' = code

-------------------------------------------------------------------------------
(* What route and run share *)

\* _automatic_cost_policy: the vendor's routes under the labels of a preset or of
\* the user's overrides.
Packaged(kind, vendor) ==
  [routes |-> [i \in DOMAIN VendorRoutes[vendor] |->
                 [VendorRoutes[vendor][i] EXCEPT !.command.options = kind]],
   mixed |-> FALSE, posture |-> IF kind = "preset" THEN "balanced" ELSE "unset"]

\* The policy in force, as a set of at most one.
PolicyFor(request, contents) ==
  CASE request.kind = "file"    -> {contents}
    [] request.kind = "default" -> {[routes |-> DefaultRoutes, mixed |-> FALSE, posture |-> "unset"]}
    [] OTHER -> {Packaged(request.kind, v) : v \in Builtin \cap {request.vendor}}

Usable(request, contents) ==
  /\ PolicyFor(request, contents) # {}
  /\ request.bind => request.kind = "file"

At(r, path) == [r EXCEPT !.command.program = path]

\* resolve_builtin_executable: the admissible executable the PATH leads to.
LookUp(vendor) == {p \in leads[vendor] : vendor \in Builtin /\ identity[p] # 0}

\* _observe_bound_legacy_route: the file an absolute path leads to, if admissible.
Behind(program) == {p \in leads[program] : program \in Paths /\ identity[p] # 0}

\* The route as it would be executed, with the identity that is bound to it; none
\* if there is no executable.
Resolutions(request, r) ==
  IF request.kind # "file" THEN {<<At(r, p), {}>> : p \in LookUp(r.vendor)}
  ELSE IF request.bind THEN {<<At(r, p), {identity[p]}>> : p \in Behind(r.command.program)}
  ELSE {<<r, {}>>}

\* _legacy_route_fingerprint.
Fingerprint(policy_, r, observation) ==
  [route |-> r, mixed |-> policy_.mixed, posture |-> policy_.posture, identity |-> observation]

\* A review of a request answers also the one that names the tier it found.
Reviewed(request, at, fingerprint) ==
  [request |-> [request EXCEPT !.tier = fingerprint.route.tier], at |-> at,
   fingerprint |-> fingerprint]

-------------------------------------------------------------------------------
(* wclass route *)

Route(request) ==
  /\ pc = "idle" /\ Cardinality(shown) < MaxReviews /\ Usable(request, file)
  /\ \E p \in PolicyFor(request, file), t \in Tasks :
       /\ ValidPolicy(p)
       /\ \E r \in Selected(p, TierOf(t, request.tier, p), request.vendor) :
            \E resolution \in Resolutions(request, r) :
              shown' = shown \cup
                {Reviewed(request, {changes}, Fingerprint(p, resolution[1], resolution[2]))}
  /\ UNCHANGED <<world, pc, args, selection, process, raced, exit, runs, ran>>

-------------------------------------------------------------------------------
(* wclass run *)

Arguments == [request : Requests, review : BOOLEAN,
              ack : {{}} \cup {{seen.fingerprint} : seen \in shown}]

\* A suggested tier is run like a given one (seeded fault).
Unattended(a) == FALSE

\* A suggested tier starts nothing that no one looks at.
SuggestionUnseen(a) == a.request.tier = NoTier /\ ~a.review

StaticVerdict(a) ==
  IF \/ SuggestionUnseen(a) \/ ~Usable(a.request, file)
     \/ a.review /\ a.ack # {}
  THEN "invalid_input"
  ELSE IF a.request.kind # "default" /\ a.ack = {} /\ ~a.review
  THEN "route_fingerprint_mismatch"
  ELSE "none"

\* The policy file is read here, once, and parsed later.
Run(a) ==
  /\ pc = "idle" /\ runs < MaxRuns
  /\ args' = a /\ runs' = runs + 1
  /\ IF StaticVerdict(a) = "none"
     THEN pc' = "context" /\ policy' = PolicyFor(a.request, file) /\ UNCHANGED exit
     ELSE End(StaticVerdict(a)) /\ UNCHANGED policy
  /\ UNCHANGED <<world, shown, nul, route, observed, process, raced, ran>>

\* validate_runtime_process_context.
CheckContext ==
  /\ pc = "context"
  /\ \/ pc' = "task" /\ UNCHANGED exit
     \/ End("executor_unavailable")
  /\ UNCHANGED <<world, shown, args, selection, process, raced, runs, ran>>

\* read_task_from_standard_input and select_task_route.
ReadTask ==
  /\ pc = "task"
  /\ \/ ~ValidPolicy(The(policy)) /\ End("invalid_input") /\ UNCHANGED <<nul, route>>
     \/ ValidPolicy(The(policy)) /\ End("invalid_task") /\ UNCHANGED <<nul, route>>
     \/ /\ ValidPolicy(The(policy))
        /\ \E t \in Tasks :
             /\ route' = Selected(The(policy), TierOf(t, args.request.tier, The(policy)),
                                  args.request.vendor)
             /\ nul' = (t.nul /\ \E r \in route' : r.command.slots = 1)
        /\ IF route' = {} THEN End("unsupported_route")
           ELSE pc' = "resolve" /\ UNCHANGED exit
  /\ UNCHANGED <<world, shown, args, policy, observed, process, raced, runs, ran>>

\* The acknowledgement is compared without the identity (seeded fault).
AckIgnoresIdentity(fingerprint) ==
  args.ack # {} => args.ack = {[fingerprint EXCEPT !.identity = {}]}

AckMatches(fingerprint) == args.ack # {} => args.ack = {fingerprint}

\* The executable is found, and the acknowledgement and the task are checked.
Resolve ==
  /\ pc = "resolve" /\ raced' = FALSE
  /\ LET found == Resolutions(args.request, The(route)) IN
     IF found = {} THEN End("executor_unavailable") /\ UNCHANGED <<route, observed>>
     ELSE /\ route' = {The(found)[1]} /\ observed' = The(found)[2]
          /\ IF ~AckMatches(Fingerprint(The(policy), The(found)[1], observed'))
             THEN End("route_fingerprint_mismatch")
             ELSE IF nul THEN End("invalid_task")
             ELSE pc' = (IF args.review THEN "review" ELSE "refresh") /\ UNCHANGED exit
  /\ UNCHANGED <<world, shown, args, policy, nul, process, runs, ran>>

\* _confirm_legacy_route_on_console.
Review ==
  /\ pc = "review"
  /\ \/ /\ shown' = shown \cup
             {Reviewed(args.request, {}, Fingerprint(The(policy), The(route), observed))}
        /\ \/ pc' = "refresh" /\ UNCHANGED exit
           \/ End("execution_cancelled")
     \/ End("invalid_input") /\ UNCHANGED shown
  /\ UNCHANGED <<world, args, selection, process, raced, runs, ran>>

\* The second look only asks whether there is an executable (seeded fault).
StillThere(found) == TRUE

\* The second look leads to the same command and the same identity.
SameAgain(found) == found = {<<The(route), observed>>}

\* A reviewed route from the package and a bound one are looked at again.
Refresh ==
  /\ pc = "refresh"
  /\ IF args.request.bind \/ (args.review /\ args.request.kind # "file")
     THEN LET again == Resolutions(args.request, The(route)) IN
          IF again = {} THEN
             /\ End(IF args.request.bind THEN "route_fingerprint_mismatch" ELSE "executor_unavailable")
             /\ UNCHANGED raced
          ELSE IF ~SameAgain(again) THEN End("route_fingerprint_mismatch") /\ UNCHANGED raced
          ELSE pc' = "spawn" /\ raced' = FALSE /\ UNCHANGED exit
     ELSE pc' = "spawn" /\ UNCHANGED <<raced, exit>>
  /\ UNCHANGED <<world, shown, args, selection, process, runs, ran>>

\* Popen fails, or the process context is no longer safe.
SpawnFails ==
  /\ pc = "spawn"
  /\ End("executor_unavailable")
  /\ UNCHANGED <<world, shown, args, selection, process, raced, runs, ran>>

\* The files execve may reach by a program: the rules of observe_executable and
\* the lookup of the package do not hold for the bare name in a policy file.
Reached(program) == IF program \in Paths THEN leads[program] ELSE Paths

Spawn ==
  /\ pc = "spawn"
  /\ \E path \in Reached(The(route).command.program) :
       started' = {[command |-> The(route).command, identity |-> identity[path]]}
  /\ pc' = "child" /\ child' = "running"
  /\ ran' = ran \cup {[policy |-> The(policy), source |-> args.request.vendor,
                       vendor |-> The(route).vendor]}
  /\ UNCHANGED <<world, shown, args, selection, raced, exit, runs>>

\* _report_executor_result.
ChildCompletes ==
  /\ pc = "child"
  /\ child' \in {"zero", "nonzero", "signal"}
  /\ End(IF child' = "zero" THEN "success" ELSE "executor_failed")
  /\ UNCHANGED <<world, shown, args, selection, started, raced, runs, ran>>

\* The child's status is lost, or its input could not be written: it is gone.
ChildFails ==
  /\ pc = "child"
  /\ child' = "lost"
  /\ End("executor_failed") \/ End("executor_unavailable")
  /\ UNCHANGED <<world, shown, args, selection, started, raced, runs, ran>>

\* A KeyboardInterrupt; a running child is gone when it comes out.
Interrupt ==
  /\ pc \notin {"idle", "ended"}
  /\ End("interrupted")
  /\ child' = IF child = "running" THEN "lost" ELSE child
  /\ UNCHANGED <<world, shown, args, selection, started, raced, runs, ran>>

NextRun ==
  /\ pc = "ended"
  /\ pc' = "idle" /\ args' = {}
  /\ policy' = {} /\ nul' = FALSE /\ route' = {} /\ observed' = {}
  /\ started' = {} /\ child' = "none" /\ raced' = FALSE /\ exit' = "none"
  /\ UNCHANGED <<world, shown, runs, ran>>

-------------------------------------------------------------------------------
(* The world around the run *)

Changing ==
  /\ changes < MaxChanges
  /\ changes' = changes + 1
  /\ raced' = (pc # "idle")
  /\ UNCHANGED <<shown, pc, args, selection, process, exit, runs, ran>>

EditPolicy == Changing /\ file' \in PolicyFiles \ {file} /\ UNCHANGED <<leads, identity>>

\* A link is followed to its end, which is no link.
EndsFor(program) == {p \in Paths : p = program \/ leads[p] = {p}}

\* What led to the program follows it.
Relink(program) ==
  /\ Changing
  /\ \E to \in {{}} \cup {{p} : p \in EndsFor(program)} :
       leads' = [q \in Programs |-> IF q = program \/ leads[q] = {program} THEN to ELSE leads[q]]
  /\ UNCHANGED <<file, identity>>

\* An update gives a path a new identity, or takes it away.
UpdateExecutable(path) ==
  /\ Changing
  /\ \E new \in {0, changes + 2} : identity' = [identity EXCEPT ![path] = new]
  /\ UNCHANGED <<file, leads>>

Next ==
  \/ \E request \in Requests : Route(request)
  \/ \E a \in Arguments : Run(a)
  \/ CheckContext \/ ReadTask \/ Resolve \/ Review \/ Refresh \/ SpawnFails \/ Spawn
  \/ ChildCompletes \/ ChildFails \/ Interrupt \/ NextRun
  \/ EditPolicy
  \/ \E program \in Programs : Relink(program)
  \/ \E path \in Paths : UpdateExecutable(path)

Spec == Init /\ [][Next]_vars

-------------------------------------------------------------------------------
(* Properties *)

\* Whatever a policy file, a preset, an override or a suggested tier selects is
\* started only after its review was shown, and so is what was acknowledged; the
\* command is the reviewed one, however the policy file and the PATH changed, and
\* a bound executable is the one observed unless it changed after the last look.
RunsWhatWasReviewed ==
  \A c \in started :
    /\ args.request.kind # "default" \/ args.request.tier = NoTier \/ args.ack # {} =>
         \E seen \in shown : /\ seen.fingerprint = Fingerprint(The(policy), The(route), observed)
                             /\ seen.fingerprint.route.command = c.command
    /\ args.request.bind => raced \/ observed = {c.identity}

\* A route from the package is started at the path that the PATH leads to, unless
\* the PATH changed after the last look, which a review's pause is not.
RunsWherePathLeads ==
  [][pc = "spawn" /\ pc' = "child" /\ args.request.kind # "file" /\ ~raced
       => LookUp(The(route).vendor) = {The(route).command.program}]_vars

\* An acknowledgement is not refused when nothing changed since the review of the
\* same request: the fingerprint that route prints is the one that run computes.
ReviewIsHonoured ==
  exit = "route_fingerprint_mismatch" =>
    \A seen \in shown :
      ~(args.ack = {seen.fingerprint} /\ args.request = seen.request /\ seen.at = {changes})

\* Tasks of whatever tier that are run through a policy which does not mix
\* vendors, from the same source, all go to one vendor.
OneVendorPerPolicy ==
  \A x, y \in ran :
    x.policy = y.policy /\ ~x.policy.mixed /\ x.source = y.source => x.vendor = y.vendor

===============================================================================
