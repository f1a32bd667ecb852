--------------------------- MODULE NativeV2RunProofs ---------------------------
(***************************************************************************)
(* The schema-2 compiler never raises on a policy that the parser accepted *)
(* and what `wclass run` starts, for all policies and all changes.         *)
(***************************************************************************)
EXTENDS NativeV2Run, TLAPS

\* What a descriptor promises of the policy it was compiled from.
Sound(p, d) ==
  /\ d.target.executable \in Paths
  /\ d.source.id # d.destination.id =>
       \E g \in p.profile_grants \cap d.authorizations :
         g.from = d.source.id /\ g.to = d.destination.id
  /\ d.source.vendor # d.destination.vendor =>
       \E g \in p.vendor_grants \cap d.authorizations :
         g.from = d.source.vendor /\ g.to = d.destination.vendor

\* Two ways of one selector are the same, whatever the policy's lists hold.
LEMMA OneWay ==
  ASSUME NEW p, UniqueIds(p), NEW selector, Compiles(p, selector),
         NEW v \in Ways(p, selector), NEW w \in Ways(p, selector)
  PROVE  v = w
<1>1. PICK r \in p.routes : Matches(p, selector) = {r}
  BY DEF Compiles
<1>2. PICK v1 \in Matches(p, selector) \X p.profiles \X p.targets \X p.profiles :
        /\ v = [route |-> v1[1], source |-> v1[2], target |-> v1[3], destination |-> v1[4]]
        /\ v1[2].id = selector.profile /\ v1[3].id = v1[1].target_id
        /\ v1[4].id = v1[3].profile_id
  BY DEF Ways
<1>3. PICK w1 \in Matches(p, selector) \X p.profiles \X p.targets \X p.profiles :
        /\ w = [route |-> w1[1], source |-> w1[2], target |-> w1[3], destination |-> w1[4]]
        /\ w1[2].id = selector.profile /\ w1[3].id = w1[1].target_id
        /\ w1[4].id = w1[3].profile_id
  BY DEF Ways
<1>4. v1[1] = w1[1]
  BY <1>1
<1>5. v1[2] = w1[2]
  BY <1>2, <1>3 DEF UniqueIds, IdsDistinct
<1>6. v1[3] = w1[3]
  BY <1>2, <1>3, <1>4 DEF UniqueIds, IdsDistinct
<1>7. v1[4] = w1[4]
  BY <1>2, <1>3, <1>6 DEF UniqueIds, IdsDistinct
<1> QED
  BY <1>2, <1>3, <1>4, <1>5, <1>6, <1>7

\* A route of a valid policy leads a selector it serves to a source, a target and
\* a destination, with the grants for what changes between them.
LEMMA AWay ==
  ASSUME NEW p \in Policies, ValidPolicy(p), NEW selector \in Selectors, Compiles(p, selector)
  PROVE  Ways(p, selector) # {}
<1>1. PICK r \in p.routes : Matches(p, selector) = {r}
  BY DEF Compiles
<1>2. selector \in r.eligibility
  BY <1>1 DEF Matches
<1>3. PICK s \in p.profiles : s.id = selector.profile /\ s.vendor = selector.vendor
  BY <1>2 DEF ValidPolicy, SelectorsUnique
<1>4. PICK t \in p.targets : t.id = r.target_id
  BY DEF ValidPolicy, RoutesResolve, TargetsFor
<1>5. PICK d \in p.profiles : d.id = t.profile_id /\ d.vendor = t.vendor
  BY DEF ValidPolicy, TargetsBuildable
<1>6. <<selector, t>> \in Served(p)
  BY <1>2, <1>4 DEF Served, TargetsFor
<1>7. s.id # d.id => Crossing(p.profile_grants, s.id, d.id) # {}
  <2> SUFFICES ASSUME s.id # d.id PROVE Crossing(p.profile_grants, s.id, d.id) # {}
    OBVIOUS
  <2>1. <<s.id, d.id>> \in Leaving(ProfileCrossings(p))
    BY <1>3, <1>5, <1>6 DEF Leaving, ProfileCrossings
  <2>2. PICK g \in p.profile_grants : <<g.from, g.to>> = <<s.id, d.id>>
    BY <2>1 DEF ValidPolicy, GrantsExact
  <2> QED
    BY <2>2 DEF Crossing
<1>8. s.vendor # d.vendor => Crossing(p.vendor_grants, s.vendor, d.vendor) # {}
  <2> SUFFICES ASSUME s.vendor # d.vendor PROVE Crossing(p.vendor_grants, s.vendor, d.vendor) # {}
    OBVIOUS
  <2>1. <<s.vendor, d.vendor>> \in Leaving(VendorCrossings(p))
    BY <1>3, <1>5, <1>6 DEF Leaving, VendorCrossings
  <2>2. PICK g \in p.vendor_grants : <<g.from, g.to>> = <<s.vendor, d.vendor>>
    BY <2>1 DEF ValidPolicy, GrantsExact
  <2> QED
    BY <2>2 DEF Crossing
<1> DEFINE v == <<r, s, t, d>>
<1>9. v \in Matches(p, selector) \X p.profiles \X p.targets \X p.profiles
  BY <1>1
<1>10. [route |-> v[1], source |-> v[2], target |-> v[3], destination |-> v[4]] \in Ways(p, selector)
  BY <1>3, <1>4, <1>5, <1>7, <1>8, <1>9 DEF Ways
<1> QED
  BY <1>10

\* A descriptor names the grants for what it changes.
LEMMA DescriptorSound ==
  ASSUME NEW p \in Policies, NEW selector, NEW w \in Ways(p, selector)
  PROVE  /\ Sound(p, Descriptor(p, selector, w))
         /\ Descriptor(p, selector, w).selection = selector
<1>1. PICK v \in Matches(p, selector) \X p.profiles \X p.targets \X p.profiles :
        /\ w = [route |-> v[1], source |-> v[2], target |-> v[3], destination |-> v[4]]
        /\ v[2].id # v[4].id => Crossing(p.profile_grants, v[2].id, v[4].id) # {}
        /\ v[2].vendor # v[4].vendor => Crossing(p.vendor_grants, v[2].vendor, v[4].vendor) # {}
  BY DEF Ways
<1>2. w.source = v[2] /\ w.target = v[3] /\ w.destination = v[4] /\ w.target \in p.targets
  BY <1>1
<1>3. w.target.executable \in Paths
  BY <1>2 DEF Policies, Targets
<1>4. w.source.id # w.destination.id =>
        \E g \in p.profile_grants \cap Authorizations(p, w) :
          g.from = w.source.id /\ g.to = w.destination.id
  BY <1>1, <1>2 DEF Crossing, Authorizations, ProfileGrantsFor
<1>5. w.source.vendor # w.destination.vendor =>
        \E g \in p.vendor_grants \cap Authorizations(p, w) :
          g.from = w.source.vendor /\ g.to = w.destination.vendor
  BY <1>1, <1>2 DEF Crossing, Authorizations, VendorGrantsFor
<1> QED
  BY <1>3, <1>4, <1>5 DEF Descriptor, Sound

\* The compiler's lookups, which have no default, never fail on a policy that the
\* parser accepted: a selector that one route serves has exactly one descriptor,
\* and its crossings are granted.
THEOREM CompileNeverRaises ==
  ASSUME NEW p \in Policies, ValidPolicy(p), NEW selector \in Selectors, Compiles(p, selector)
  PROVE  \E d : Compiled(p, selector) = {d} /\ Sound(p, d) /\ d.selection = selector
<1>1. PICK w \in Ways(p, selector) : TRUE
  BY AWay
<1>2. Ways(p, selector) = {w}
  BY OneWay DEF ValidPolicy
<1>3. Compiled(p, selector) = {Descriptor(p, selector, w)}
  BY <1>2 DEF Compiled
<1> QED
  BY <1>3, DescriptorSound

-------------------------------------------------------------------------------
Busy == pc \notin {"idle", "ended"}

World == file \in PolicyFiles /\ identity \in [Paths -> Nat] /\ changes \in Nat

\* A run has read a valid policy, and comes with a review or will have one.
Granted ==
  Busy => /\ \E p \in Policies : policy = {p} /\ ValidPolicy(p)
          /\ args.source \in Requested /\ args.tier \in Tiers \cup {NoTier}
          /\ args.ack \subseteq {seen.descriptor : seen \in shown}
          /\ args.ack = {} => args.review

\* Past the task it has a descriptor of it ...
Chosen ==
  pc \in {"observe", "review", "reobserve", "spawn", "child"} =>
    /\ \E d : selected = {d}
    /\ Sound(Policy, Selection)
    /\ Selection.selection \in
         {SelectorOf(args.source, t) : t \in IF args.tier = NoTier THEN Tiers ELSE {args.tier}}
    /\ args.ack # {} => args.ack = {Selection}

\* ... which the user has seen before the executable is looked at again.
Reviewed ==
  pc \in {"reobserve", "spawn", "child"} => \E seen \in shown : seen.descriptor = Selection

LastLook ==
  pc \in {"review", "reobserve", "spawn"} =>
    observed # 0 /\ (raced \/ identity[Selection.target.executable] = observed)

Ended ==
  /\ started # {} => pc \in {"child", "ended"}
  /\ pc # "ended" => exit = "none"
  /\ exit # "traceback"

Promises == RunsWhatWasReviewed /\ CrossingsGranted

Inv == World /\ Granted /\ Chosen /\ Reviewed /\ LastLook /\ Ended /\ Promises

\* The selector of a request is one.
LEMMA SelectorType ==
  ASSUME NEW source \in Requested, NEW tier \in Tiers
  PROVE  SelectorOf(source, tier) \in Selectors
BY NativeV2RunAssumption DEF SelectorOf, Selectors

\* The tiers that are tried for an acknowledgement of a policy the parser accepted
\* compile or are refused; none of them raises.
LEMMA TriesNeverRaise ==
  ASSUME Policy \in Policies, ValidPolicy(Policy), args.source \in Requested
  PROVE  ~TryRaises
<1> SUFFICES ASSUME NEW t \in TriedTiers, Compiles(Policy, SelectorOf(args.source, t)),
                    Compiled(Policy, SelectorOf(args.source, t)) = {}
             PROVE  FALSE
    BY DEF TryRaises
<1>1. SelectorOf(args.source, t) \in Selectors
  BY SelectorType DEF TriedTiers
<1> QED
  BY <1>1, CompileNeverRaises

\* No step breaks the invariant.
LEMMA InvStep == Inv /\ [Next]_vars => Inv'
<1> SUFFICES ASSUME Inv, [Next]_vars PROVE Inv'
    OBVIOUS
<1> USE DEF Inv, World, Granted, Chosen, Reviewed, LastLook, Ended, Promises, Busy,
            RunsWhatWasReviewed, CrossingsGranted, world, progress, process
<1>0. /\ selected' = selected => Selection' = Selection
      /\ policy' = policy => Policy' = Policy
  BY DEF Selection, Policy
<1>1. ASSUME NEW source \in Requested, Route(source) PROVE Inv'
  BY <1>0, <1>1 DEF Route
<1>2. ASSUME NEW a \in Arguments, Run(a) PROVE Inv'
  <2>1. CASE StaticVerdict(a) = "none"
    <3>1. ValidPolicy(file) /\ (a.ack = {} => a.review)
      BY <2>1 DEF StaticVerdict
    <3>2. file \in Policies
      BY NativeV2RunAssumption
    <3>3. /\ a.source \in Requested /\ a.tier \in Tiers \cup {NoTier}
          /\ a.ack \subseteq {seen.descriptor : seen \in shown}
      BY DEF Arguments
    <3> QED
      BY <1>2, <2>1, <3>1, <3>2, <3>3 DEF Run
  <2>2. CASE StaticVerdict(a) # "none"
    <3>1. StaticVerdict(a) # "traceback"
      BY DEF StaticVerdict
    <3> QED
      BY <1>0, <1>2, <2>2, <3>1 DEF Run, End
  <2> QED
    BY <2>1, <2>2
<1>3. CASE CheckContext
  <2>1. Policy \in Policies /\ ValidPolicy(Policy) /\ args.source \in Requested
    BY <1>3 DEF CheckContext, Policy
  <2>2. ~TryRaises
    BY <2>1, TriesNeverRaise
  <2> QED
    BY <1>0, <1>3, <2>2 DEF CheckContext, End
<1>4. CASE ReadTask
  <2>1. CASE End("invalid_task") /\ UNCHANGED selected
    BY <1>0, <1>4, <2>1 DEF ReadTask, End
  <2>2. ASSUME NEW tier \in IF args.tier = NoTier THEN Tiers ELSE {args.tier},
               selected' = Compiled(Policy, SelectorOf(args.source, tier)),
               IF ~Compiles(Policy, SelectorOf(args.source, tier)) THEN End("unsupported_route")
               ELSE IF Compiled(Policy, SelectorOf(args.source, tier)) = {} THEN End("traceback")
               ELSE IF ~AckMatches(Compiled(Policy, SelectorOf(args.source, tier)))
               THEN End("route_fingerprint_mismatch")
               ELSE pc' = "observe" /\ UNCHANGED exit
        PROVE Inv'
    <3> DEFINE selector == SelectorOf(args.source, tier)
    <3>1. pc = "task" /\ Busy /\ args' = args /\ policy' = policy /\ Policy' = Policy
          /\ UNCHANGED <<world, shown, observed, started, child, raced, runs>>
      BY <1>0, <1>4 DEF ReadTask
    <3>2. Policy \in Policies /\ ValidPolicy(Policy)
      BY <3>1 DEF Policy
    <3>3. tier \in Tiers
      BY <2>2, <3>1
    <3>4. selector \in Selectors
      BY <3>1, <3>3, SelectorType
    <3>5. CASE ~Compiles(Policy, selector)
      BY <2>2, <3>1, <3>5 DEF End
    <3>6. CASE Compiles(Policy, selector)
      <4>1. PICK d : Compiled(Policy, selector) = {d} /\ Sound(Policy, d) /\ d.selection = selector
        BY <3>2, <3>4, <3>6, CompileNeverRaises
      <4>2. selected' = {d} /\ Selection' = d
        BY <2>2, <4>1 DEF Selection
      <4>3. CASE ~AckMatches({d})
        BY <2>2, <3>1, <3>6, <4>1, <4>3 DEF End
      <4>4. CASE AckMatches({d})
        <5>1. pc' = "observe" /\ exit' = exit
          BY <2>2, <3>6, <4>1, <4>4
        <5>2. args.ack # {} => args.ack = {d}
          BY <4>4 DEF AckMatches
        <5>3. Chosen'
          BY <2>2, <3>1, <4>1, <4>2, <5>2 DEF Sound, SelectorOf
        <5>4. started = {}
          BY <3>1
        <5> QED
          BY <3>1, <5>1, <5>3, <5>4
      <4> QED
        BY <4>3, <4>4
    <3> QED
      BY <3>5, <3>6
  <2> QED
    BY <1>4, <2>1, <2>2 DEF ReadTask
<1>5. CASE Observe
  BY <1>0, <1>5 DEF Observe, End
<1>6. CASE Review
  <2>1. /\ started = {} /\ started' = {} /\ selected' = selected /\ Selection' = Selection
        /\ Policy' = Policy
        /\ UNCHANGED <<file, identity, changes, args, policy, observed, raced>>
    BY <1>0, <1>6 DEF Review
  <2>2. World' /\ Promises'
    BY <2>1
  <2>3. Granted'
    BY <1>6, <2>1 DEF Review, End
  <2>4. CASE pc' = "reobserve" /\ exit' = exit
    <3>1. [descriptor |-> Selection, at |-> {}] \in shown'
      BY <1>6, <2>4 DEF Review, End
    <3>2. Reviewed' /\ Chosen'
      BY <1>6, <2>1, <2>4, <3>1 DEF Review
    <3>3. LastLook' /\ Ended'
      BY <1>6, <2>1, <2>4 DEF Review
    <3> QED
      BY <2>2, <2>3, <3>2, <3>3
  <2>5. CASE pc' = "ended" /\ exit' # "traceback"
    BY <2>1, <2>2, <2>3, <2>5
  <2> QED
    BY <1>6, <2>4, <2>5 DEF Review, End
<1>7. CASE Reobserve
  BY <1>0, <1>7 DEF Reobserve, End, SameExecutable
<1>8. CASE SpawnFails
  BY <1>0, <1>8 DEF SpawnFails, End
<1>9. CASE Spawn
  BY <1>0, <1>9 DEF Spawn, Sound
<1>10. CASE ChildCompletes
  BY <1>0, <1>10 DEF ChildCompletes, End
<1>11. CASE ChildFails
  BY <1>0, <1>11 DEF ChildFails, End
<1>12. CASE Interrupt
  BY <1>0, <1>12 DEF Interrupt, End
<1>13. CASE NextRun
  BY <1>0, <1>13 DEF NextRun
<1>14. ASSUME Changing, file' \in PolicyFiles, identity' \in [Paths -> Nat] PROVE Inv'
  <2>1. /\ pc' = pc /\ selected' = selected /\ Selection' = Selection /\ Policy' = Policy
        /\ UNCHANGED <<shown, args, policy, observed, started, exit>>
        /\ raced' = (pc # "idle") /\ changes' \in Nat
    BY <1>0, <1>14 DEF Changing
  <2>2. World' /\ Granted' /\ Chosen' /\ Reviewed' /\ Ended'
    BY <1>14, <2>1
  <2>3. LastLook' /\ Promises'
    BY <2>1
  <2> QED
    BY <2>2, <2>3
<1>15. CASE EditPolicy
  BY <1>14, <1>15 DEF EditPolicy
<1>16. ASSUME NEW path \in Paths, UpdateExecutable(path) PROVE Inv'
  <2>1. identity' \in [Paths -> Nat]
    BY <1>16 DEF UpdateExecutable
  <2> QED
    BY <1>14, <1>16, <2>1 DEF UpdateExecutable
<1>17. CASE UNCHANGED vars
  BY <1>0, <1>17 DEF vars
<1> QED
  BY <1>1, <1>2, <1>3, <1>4, <1>5, <1>6, <1>7, <1>8, <1>9, <1>10, <1>11, <1>12, <1>13, <1>14,
     <1>15, <1>16, <1>17 DEF Next

\* The invariant holds throughout.
LEMMA InvAlways == Spec => []Inv
<1>1. Init => Inv
  BY DEF Init, Inv, World, Granted, Chosen, Reviewed, LastLook, Ended, Promises, Busy,
         RunsWhatWasReviewed, CrossingsGranted
<1> QED
  BY <1>1, InvStep, PTL DEF Spec

\* Whatever the policy files, the edits, the executables and the number of runs: a
\* child is only started on a descriptor that was shown.
THEOREM RunsAreReviewed == Spec => []RunsWhatWasReviewed
<1>1. Inv => RunsWhatWasReviewed
  BY DEF Inv, Promises
<1> QED
  BY <1>1, InvAlways, PTL

\* No child is started across a boundary that no grant of its policy opens.
THEOREM CrossingsAreGranted == Spec => []CrossingsGranted
<1>1. Inv => CrossingsGranted
  BY DEF Inv, Promises
<1> QED
  BY <1>1, InvAlways, PTL

-------------------------------------------------------------------------------
\* A review made since the last change is of the policy that a run reads now.
Fresh(seen) ==
  /\ seen.at = {} \/ \E c \in 0..changes : seen.at = {c}
  /\ seen.at = {changes} =>
       /\ \E source \in Requested, tier \in Tiers :
            /\ seen.descriptor.selection = SelectorOf(source, tier)
            /\ seen.descriptor \in Compiled(file, SelectorOf(source, tier))
       /\ Busy => policy = {file}

Honoured == (\A seen \in shown : Fresh(seen)) /\ ReviewIsHonoured

\* What was reviewed and not changed since is among what the run compiles.
LEMMA FreshIsCompiled ==
  ASSUME Inv, NEW seen \in shown, Fresh(seen), Busy, seen.at = {changes},
         seen.descriptor.selection = SelectorOf(args.source, args.tier)
  PROVE  /\ args.tier \in Tiers
         /\ seen.descriptor \in Compiled(Policy, SelectorOf(args.source, args.tier))
<1>1. PICK source \in Requested, tier \in Tiers :
        /\ seen.descriptor.selection = SelectorOf(source, tier)
        /\ seen.descriptor \in Compiled(file, SelectorOf(source, tier))
  BY DEF Fresh
<1>2. SelectorOf(source, tier) = SelectorOf(args.source, args.tier)
  BY <1>1
<1>3. args.tier = tier
  BY <1>2 DEF SelectorOf
<1>4. Policy = file
  BY DEF Fresh, Policy
<1> QED
  BY <1>1, <1>2, <1>3, <1>4

\* No step refuses an acknowledgement of what was reviewed and not changed since.
LEMMA HonouredStep == Inv /\ Inv' /\ Honoured /\ [Next]_vars => Honoured'
<1> SUFFICES ASSUME Inv, Inv', Honoured, [Next]_vars PROVE Honoured'
    OBVIOUS
<1> USE DEF world, progress, process
<1>0. changes \in Nat /\ exit # "traceback" /\ exit' # "traceback" /\ (pc # "ended" => exit = "none")
  BY DEF Inv, World, Ended
<1>a. ASSUME UNCHANGED <<shown, changes, file, policy>>, Busy' => Busy,
             \/ exit' # "route_fingerprint_mismatch"
             \/ UNCHANGED <<args, exit>>
      PROVE  Honoured'
  BY <1>0, <1>a DEF Honoured, Fresh, ReviewIsHonoured
<1>1. ASSUME NEW source \in Requested, Route(source) PROVE Honoured'
  <2>0. PICK tier \in Tiers : \E d \in Compiled(file, SelectorOf(source, tier)) :
          shown' = shown \cup {[descriptor |-> d, at |-> {changes}]}
    BY <1>1 DEF Route
  <2>1. PICK d \in Compiled(file, SelectorOf(source, tier)) :
          shown' = shown \cup {[descriptor |-> d, at |-> {changes}]}
    BY <2>0
  <2>2. d.selection = SelectorOf(source, tier)
    <3>1. PICK w \in Ways(file, SelectorOf(source, tier)) :
            d = Descriptor(file, SelectorOf(source, tier), w)
      BY DEF Compiled
    <3>2. file \in Policies
      BY NativeV2RunAssumption DEF Inv, World
    <3> QED
      BY <3>1, <3>2, DescriptorSound
  <2>3. pc = "idle" /\ UNCHANGED <<world, pc, args, progress, exit>>
    BY <1>1 DEF Route
  <2>4. ASSUME NEW seen \in shown' PROVE Fresh(seen)'
    <3>1. CASE seen \in shown
      BY <2>3, <3>1 DEF Honoured, Fresh, Busy
    <3>2. CASE seen = [descriptor |-> d, at |-> {changes}]
      BY <1>0, <2>2, <2>3, <3>2 DEF Fresh, Busy
    <3> QED
      BY <2>1, <3>1, <3>2
  <2> QED
    BY <1>0, <2>3, <2>4 DEF Honoured, ReviewIsHonoured
<1>2. ASSUME NEW a \in Arguments, Run(a) PROVE Honoured'
  <2>1. CASE StaticVerdict(a) = "none"
    BY <1>0, <1>2, <2>1 DEF Run, Honoured, Fresh, ReviewIsHonoured
  <2>2. CASE StaticVerdict(a) # "none"
    <3>1. exit' = "route_fingerprint_mismatch" => a.ack = {}
      BY <1>2, <2>2 DEF Run, End, StaticVerdict
    <3>2. ~Busy' /\ args' = a /\ UNCHANGED <<shown, changes, file>>
      BY <1>2, <2>2 DEF Run, End, Busy
    <3> QED
      BY <1>0, <3>1, <3>2 DEF Honoured, Fresh, ReviewIsHonoured
  <2> QED
    BY <2>1, <2>2
<1>3. CASE CheckContext
  <2>1. pc = "context" /\ Busy /\ UNCHANGED <<shown, changes, file, policy, args>>
    BY <1>3 DEF CheckContext, Busy
  <2>2. CASE exit' # "route_fingerprint_mismatch"
    BY <1>a, <2>1, <2>2
  <2>3. CASE exit' = "route_fingerprint_mismatch"
    <3>1. ~(args.ack \subseteq Tried)
      BY <1>0, <1>3, <2>3 DEF CheckContext, End
    <3>2. ASSUME NEW seen \in shown, args.ack = {seen.descriptor}, seen.at = {changes},
                 seen.descriptor.selection = SelectorOf(args.source, args.tier)
          PROVE  FALSE
      <4>1. /\ args.tier \in Tiers
            /\ seen.descriptor \in Compiled(Policy, SelectorOf(args.source, args.tier))
        BY <2>1, <3>2, FreshIsCompiled DEF Honoured
      <4> QED
        BY <3>1, <3>2, <4>1 DEF Tried, TriedTiers
    <3>3. \A seen \in shown' : Fresh(seen)'
      BY <2>1 DEF Honoured, Fresh
    <3> QED
      BY <1>0, <2>1, <3>2, <3>3 DEF Honoured, ReviewIsHonoured
  <2> QED
    BY <2>2, <2>3
<1>4. CASE ReadTask
  <2>1. pc = "task" /\ Busy /\ UNCHANGED <<shown, changes, file, policy, args>>
    BY <1>4 DEF ReadTask, Busy
  <2>2. CASE exit' # "route_fingerprint_mismatch"
    BY <1>a, <2>1, <2>2
  <2>3. CASE exit' = "route_fingerprint_mismatch"
    <3>1. PICK tier \in IF args.tier = NoTier THEN Tiers ELSE {args.tier} :
            /\ Compiles(Policy, SelectorOf(args.source, tier))
            /\ ~AckMatches(Compiled(Policy, SelectorOf(args.source, tier)))
      BY <1>0, <1>4, <2>1, <2>3 DEF ReadTask, End
    <3>2. Policy \in Policies /\ ValidPolicy(Policy) /\ args.source \in Requested
      BY <2>1 DEF Inv, Granted, Policy
    <3>3. ASSUME NEW seen \in shown, args.ack = {seen.descriptor}, seen.at = {changes},
                 seen.descriptor.selection = SelectorOf(args.source, args.tier)
          PROVE  FALSE
      <4>1. /\ args.tier \in Tiers
            /\ seen.descriptor \in Compiled(Policy, SelectorOf(args.source, args.tier))
        BY <2>1, <3>3, FreshIsCompiled DEF Honoured
      <4>2. tier = args.tier
        BY <4>1, NativeV2RunAssumption
      <4>3. SelectorOf(args.source, tier) \in Selectors
        BY <3>2, <4>1, <4>2, SelectorType
      <4>4. PICK d : Compiled(Policy, SelectorOf(args.source, tier)) = {d}
        BY <3>1, <3>2, <4>3, CompileNeverRaises
      <4>5. Compiled(Policy, SelectorOf(args.source, tier)) = args.ack
        BY <3>3, <4>1, <4>2, <4>4
      <4> QED
        BY <3>1, <4>5 DEF AckMatches
    <3>4. \A seen \in shown' : Fresh(seen)'
      BY <2>1 DEF Honoured, Fresh
    <3> QED
      BY <1>0, <2>1, <3>3, <3>4 DEF Honoured, ReviewIsHonoured
  <2> QED
    BY <2>2, <2>3
<1>5. CASE Observe
  BY <1>0, <1>a, <1>5 DEF Observe, End, Busy
<1>6. CASE Review
  <2>1. /\ shown' = shown \/ shown' = shown \cup {[descriptor |-> Selection, at |-> {}]}
        /\ pc = "review" /\ exit' # "route_fingerprint_mismatch"
        /\ UNCHANGED <<changes, file, policy>>
    BY <1>0, <1>6 DEF Review, End
  <2>2. ASSUME NEW seen \in shown' PROVE Fresh(seen)'
    <3>1. CASE seen \in shown
      BY <2>1, <3>1 DEF Honoured, Fresh, Busy
    <3>2. CASE seen = [descriptor |-> Selection, at |-> {}]
      BY <3>2 DEF Fresh
    <3> QED
      BY <2>1, <3>1, <3>2
  <2> QED
    BY <1>0, <2>1, <2>2 DEF Honoured, ReviewIsHonoured
<1>7. CASE Reobserve
  BY <1>0, <1>a, <1>7 DEF Reobserve, End, Busy
<1>8. CASE SpawnFails
  BY <1>a, <1>8 DEF SpawnFails, End, Busy
<1>9. CASE Spawn
  BY <1>a, <1>9 DEF Spawn, Busy
<1>10. CASE ChildCompletes
  BY <1>a, <1>10 DEF ChildCompletes, End, Busy
<1>11. CASE ChildFails
  BY <1>a, <1>11 DEF ChildFails, End, Busy
<1>12. CASE Interrupt
  BY <1>a, <1>12 DEF Interrupt, End, Busy
<1>13. CASE NextRun
  BY <1>0, <1>13 DEF NextRun, Honoured, Fresh, ReviewIsHonoured, Busy
<1>14. CASE Changing
  <2>1. /\ changes' = changes + 1
        /\ UNCHANGED <<shown, args, exit>>
    BY <1>14 DEF Changing
  <2>2. ASSUME NEW seen \in shown PROVE Fresh(seen)' /\ seen.at # {changes'}
    <3>1. seen.at = {} \/ \E c \in 0..changes : seen.at = {c}
      BY DEF Honoured, Fresh
    <3>2. seen.at # {changes'}
      BY <1>0, <2>1, <3>1
    <3>3. seen.at = {} \/ \E c \in 0..changes' : seen.at = {c}
      BY <1>0, <2>1, <3>1
    <3> QED
      BY <3>2, <3>3 DEF Fresh
  <2> QED
    BY <1>0, <2>1, <2>2 DEF Honoured, ReviewIsHonoured
<1>15. CASE UNCHANGED vars
  BY <1>a, <1>15 DEF vars, Busy
<1> QED
  BY <1>1, <1>2, <1>3, <1>4, <1>5, <1>6, <1>7, <1>8, <1>9, <1>10, <1>11, <1>12, <1>13, <1>14,
     <1>15 DEF Next, EditPolicy, UpdateExecutable

\* An acknowledgement of what was reviewed is honoured as long as nothing changes,
\* and the compiler never raises.
THEOREM ReviewsAreHonoured == Spec => []ReviewIsHonoured
<1>1. Init => Honoured
  BY DEF Init, Honoured, ReviewIsHonoured
<1>2. Honoured => ReviewIsHonoured
  BY DEF Honoured
<1> QED
  BY <1>1, <1>2, InvAlways, HonouredStep, PTL DEF Spec

===============================================================================
