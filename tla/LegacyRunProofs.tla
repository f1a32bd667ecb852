----------------------------- MODULE LegacyRunProofs ---------------------------
(***************************************************************************)
(* What `wclass run` starts through the default routes, the packaged       *)
(* policies and a schema-1 file, for all of them and all changes.          *)
(***************************************************************************)
EXTENDS LegacyRun, TLAPS

\* The first of a set of indices is unique.
LEMMA FirstUnique ==
  ASSUME NEW S \in SUBSET Nat, NEW i \in First(S), NEW j \in First(S)
  PROVE  i = j
BY DEF First

\* Whoever routes tasks through one policy that does not mix vendors, naming
\* always the same source vendor or never one, leaves to one and the same vendor
\* for every tier: select_tier_route never lets the order of the declarations
\* move a task across a vendor boundary.
THEOREM OneVendorWithoutMixing ==
  ASSUME NEW p \in Policies, ~p.mixed,
         NEW source \in VendorLabels \cup {NoVendor},
         NEW t, NEW u,
         NEW r \in Selected(p, t, source), NEW q \in Selected(p, u, source)
  PROVE  r.vendor = q.vendor
<1>1. PICK i \in Eligible(p, t, source) : r = p.routes[i]
  BY DEF Selected, First
<1>2. PICK j \in Eligible(p, u, source) : q = p.routes[j]
  BY DEF Selected, First
<1>3. r.vendor \in AllowedVendors(p, source) /\ q.vendor \in AllowedVendors(p, source)
  BY <1>1, <1>2 DEF Eligible
<1>4. CASE source # NoVendor
  BY <1>3, <1>4 DEF AllowedVendors
<1>5. CASE source = NoVendor
  <2>1. Tiered(p) \in SUBSET Nat
    BY DEF Tiered, Policies
  <2>2. PICK k \in First(Tiered(p)) : r.vendor = p.routes[k].vendor
    BY <1>3, <1>5 DEF AllowedVendors, DeclaredVendors
  <2>3. PICK l \in First(Tiered(p)) : q.vendor = p.routes[l].vendor
    BY <1>3, <1>5 DEF AllowedVendors, DeclaredVendors
  <2>4. k = l
    BY <2>1, <2>2, <2>3, FirstUnique
  <2> QED
    BY <2>2, <2>3, <2>4
<1> QED
  BY <1>4, <1>5

\* At most one route is selected.
LEMMA SelectedUnique ==
  ASSUME NEW p \in Policies, NEW t, NEW source,
         NEW r \in Selected(p, t, source), NEW q \in Selected(p, t, source)
  PROVE  r = q
<1>1. Eligible(p, t, source) \in SUBSET Nat
  BY DEF Eligible, Policies
<1> QED
  BY <1>1, FirstUnique DEF Selected

\* The shape of a policy of the package.
LEMMA PackageType ==
  ASSUME NEW routes \in Seq(Routes), NEW posture \in Postures
  PROVE  [routes |-> routes, mixed |-> FALSE, posture |-> posture] \in Policies
<1>1. FALSE \in BOOLEAN
  OBVIOUS
<1> QED
  BY <1>1, Zenon DEF Policies

\* The policy in force is one, and has the shape of one.
LEMMA PolicyType ==
  ASSUME NEW request \in Requests, NEW contents \in PolicyFiles, NEW p \in PolicyFor(request, contents)
  PROVE  p \in Policies /\ PolicyFor(request, contents) = {p}
<1>1. CASE request.kind = "file"
  BY <1>1, LegacyRunAssumption DEF PolicyFor
<1>2. CASE request.kind = "default"
  <2>1. DefaultRoutes \in Seq(Routes)
    BY LegacyRunAssumption
  <2>2. PolicyFor(request, contents) =
          {[routes |-> DefaultRoutes, mixed |-> FALSE, posture |-> "unset"]}
    BY <1>2 DEF PolicyFor
  <2> QED
    BY <2>1, <2>2, PackageType DEF Postures
<1>3. CASE request.kind \in {"preset", "override"}
  <2>1. request.vendor \in Builtin /\ p = Packaged(request.kind, request.vendor)
        /\ PolicyFor(request, contents) = {p}
    BY <1>3 DEF PolicyFor
  <2> DEFINE own == VendorRoutes[request.vendor]
  <2>2. own \in Seq(Routes)
    BY <2>1, LegacyRunAssumption
  <2>3. ASSUME NEW i \in DOMAIN own
        PROVE  [own[i] EXCEPT !.command.options = request.kind] \in Routes
    <3>1. own[i] \in Routes
      BY <2>2
    <3>2. request.kind \in Options
      BY <1>3, LegacyRunAssumption
    <3> HIDE DEF own
    <3>3. own[i].command \in Commands
      BY <3>1 DEF Routes
    <3>4. [own[i].command EXCEPT !.options = request.kind] \in Commands
      BY <3>2, <3>3 DEF Commands
    <3> QED
      BY <3>1, <3>4 DEF Routes
  <2>4. p.routes = [i \in DOMAIN own |-> [own[i] EXCEPT !.command.options = request.kind]]
    BY <2>1 DEF Packaged
  <2> HIDE DEF own
  <2>7. DOMAIN own = 1..Len(own) /\ Len(own) \in Nat
    BY <2>2
  <2>5. p.routes \in Seq(Routes)
    BY <2>3, <2>4, <2>7
  <2>6. p = [routes |-> p.routes, mixed |-> FALSE,
             posture |-> IF request.kind = "preset" THEN "balanced" ELSE "unset"]
    BY <2>1 DEF Packaged
  <2> QED
    BY <2>1, <2>5, <2>6, PackageType DEF Postures
<1>4. request.kind \in {"default", "preset", "override", "file"}
  BY LegacyRunAssumption DEF Kinds
<1> QED
  BY <1>1, <1>2, <1>3, <1>4


-------------------------------------------------------------------------------
Busy == pc \notin {"idle", "ended"}

World ==
  /\ file \in PolicyFiles /\ changes \in Nat
  /\ leads \in [Programs -> {{}} \cup {{p} : p \in Paths}]
  /\ identity \in [Paths -> Nat]
  /\ \A program \in Programs : \A p \in leads[program] : leads[p] = {p}

\* A run has read one policy, and comes with a review, or will have one, wherever
\* the default routes with a given tier do not do without.
Admitted ==
  Busy => /\ \E p \in Policies : policy = {p}
          /\ args.request \in Requests
          /\ args.request.bind => args.request.kind = "file"
          /\ args.request.tier = NoTier => args.review
          /\ args.request.kind # "default" => args.review \/ args.ack # {}
          /\ args.ack \subseteq {seen.fingerprint : seen \in shown}

\* The route that is in hand, and with it the vendor, was selected.
Chosen ==
  pc \in {"resolve", "review", "refresh", "spawn", "child"} =>
    /\ \E r \in Routes : route = {r}
    /\ \E t : \E r \in Selected(The(policy), t, args.request.vendor) :
         The(route).vendor = r.vendor

Bound == Fingerprint(The(policy), The(route), observed)

\* It is the acknowledged one, and the one shown on the console.
Seen ==
  /\ pc \in {"review", "refresh", "spawn", "child"} => (args.ack # {} => args.ack = {Bound})
  /\ pc \in {"refresh", "spawn", "child"} =>
       (args.review => \E seen \in shown : seen.fingerprint = Bound)

\* What the run last saw, unless it changed.
LastLook ==
  /\ pc \in {"review", "refresh", "spawn"} /\ args.request.kind # "file" /\ ~raced =>
       LookUp(The(route).vendor) = {The(route).command.program}
  /\ pc = "spawn" /\ args.request.bind /\ ~raced =>
       /\ The(route).command.program \in Paths
       /\ \A path \in leads[The(route).command.program] : observed = {identity[path]}

Started == started # {} => pc \in {"child", "ended"}

\* Every child's vendor is one its policy selects for its source.
Accounted ==
  \A x \in ran :
    /\ x.policy \in Policies /\ x.source \in VendorLabels \cup {NoVendor}
    /\ \E t : \E r \in Selected(x.policy, t, x.source) : x.vendor = r.vendor

Inv == World /\ Admitted /\ Chosen /\ Seen /\ LastLook /\ Started /\ Accounted
         /\ RunsWhatWasReviewed

-------------------------------------------------------------------------------
\* Giving a route another program changes nothing else.
LEMMA AtType ==
  ASSUME NEW r \in Routes, NEW path \in Programs
  PROVE  /\ At(r, path) \in Routes
         /\ At(r, path).vendor = r.vendor /\ At(r, path).command.program = path
<1>1. r.command \in Commands
  BY DEF Routes
<1>2. [r.command EXCEPT !.program = path] \in Commands
      /\ [r.command EXCEPT !.program = path].program = path
  BY <1>1 DEF Commands
<1>3. At(r, path) = [r EXCEPT !.command = [r.command EXCEPT !.program = path]]
  BY DEF At
<1> QED
  BY <1>2, <1>3 DEF Routes

\* A program that leads somewhere leads to one admissible path, if to any.
LEMMA ResolutionFacts ==
  ASSUME World, NEW request \in Requests, NEW r \in Routes, NEW x \in Resolutions(request, r)
  PROVE  /\ x[1] \in Routes /\ x[1].vendor = r.vendor
         /\ request.kind # "file" => LookUp(r.vendor) = {x[1].command.program}
<1>1. Paths \subseteq Programs /\ Builtin \subseteq Programs
  BY LegacyRunAssumption
<1>2. CASE request.kind # "file"
  <2>1. PICK p \in LookUp(r.vendor) : x = <<At(r, p), {}>>
    BY <1>2 DEF Resolutions
  <2>2. r.vendor \in Programs /\ p \in leads[r.vendor]
    BY <1>1 DEF LookUp
  <2>3. leads[r.vendor] = {p} /\ p \in Programs
    BY <1>1, <2>2 DEF World
  <2>4. LookUp(r.vendor) = {p}
    BY <2>1, <2>3 DEF LookUp
  <2> QED
    BY <2>1, <2>3, <2>4, AtType
<1>3. CASE request.kind = "file" /\ request.bind
  <2>1. PICK p \in Behind(r.command.program) : x = <<At(r, p), {identity[p]}>>
    BY <1>3 DEF Resolutions
  <2>2. p \in Programs
    BY <1>1, <2>1 DEF Behind, World
  <2> QED
    BY <1>3, <2>1, <2>2, AtType
<1>4. CASE request.kind = "file" /\ ~request.bind
  BY <1>4 DEF Resolutions
<1> QED
  BY <1>2, <1>3, <1>4

\* A route that resolves to itself is where its program leads now.
LEMMA SameAgainFacts ==
  ASSUME World, args.request \in Requests, The(route) \in Routes,
         args.request.bind => args.request.kind = "file",
         Resolutions(args.request, The(route)) = {<<The(route), observed>>}
  PROVE  /\ args.request.kind # "file" =>
              LookUp(The(route).vendor) = {The(route).command.program}
         /\ args.request.bind =>
              /\ The(route).command.program \in Paths
              /\ \A path \in leads[The(route).command.program] : observed = {identity[path]}
<1> DEFINE r == The(route)
           x == <<r, observed>>
<1>1. CASE args.request.kind # "file"
  <2>1. x \in Resolutions(args.request, r) /\ x[1] = r
    OBVIOUS
  <2>2. LookUp(r.vendor) = {x[1].command.program}
    BY <1>1, <2>1, ResolutionFacts
  <2> QED
    BY <1>1, <2>1, <2>2
<1>2. CASE args.request.kind = "file" /\ args.request.bind
  <2>1. PICK p \in Behind(r.command.program) : x = <<At(r, p), {identity[p]}>>
    BY <1>2 DEF Resolutions
  <2>2. r.command.program \in Paths /\ p \in leads[r.command.program]
    BY DEF Behind
  <2>3. leads[r.command.program] = {p}
    BY <2>2, LegacyRunAssumption DEF World
  <2> QED
    BY <1>2, <2>1, <2>2, <2>3
<1> QED
  BY <1>1, <1>2

\* What ReadTask selects is a route.
LEMMA SelectedType ==
  ASSUME NEW p \in Policies, NEW t, NEW source, Selected(p, t, source) # {}
  PROVE  \E r \in Routes : Selected(p, t, source) = {r}
<1>1. PICK r \in Selected(p, t, source) : TRUE
  OBVIOUS
<1>2. r \in Routes
  BY <1>1 DEF Selected, First, Eligible, Policies
<1> QED
  BY <1>1, <1>2, SelectedUnique

\* A change of the world while a run is on is a race.
LEMMA ChangeStep ==
  ASSUME Inv, Changing, World' PROVE Inv'
<1>1. /\ raced' = (pc # "idle")
      /\ UNCHANGED <<shown, pc, args, policy, nul, route, observed, started, exit, ran>>
  BY DEF Changing, selection, process
<1>2. Bound' = Bound
  BY <1>1 DEF Bound, The
<1>3. Admitted' /\ Chosen' /\ Seen' /\ Started' /\ Accounted'
  BY <1>1, <1>2 DEF Inv, Admitted, Chosen, Seen, Started, Accounted, Busy, The
<1>4. LastLook'
  BY <1>1 DEF LastLook
<1>5. RunsWhatWasReviewed'
  <2>1. started # {} => raced'
    BY <1>1 DEF Inv, Started
  <2> QED
    BY <1>1, <2>1 DEF Inv, RunsWhatWasReviewed, The
<1> QED
  BY <1>3, <1>4, <1>5 DEF Inv

\* No step breaks the invariant.
LEMMA InvStep == Inv /\ [Next]_vars => Inv'
<1> SUFFICES ASSUME Inv, [Next]_vars PROVE Inv'
    OBVIOUS
<1> USE DEF Inv, Admitted, Chosen, Seen, LastLook, Started, Accounted, Busy
<1>0. ASSUME UNCHANGED world PROVE World'
  BY <1>0 DEF World, world
<1>1. ASSUME NEW request \in Requests, Route(request) PROVE Inv'
  <2>1. /\ shown \subseteq shown'
        /\ UNCHANGED <<file, leads, identity, changes, pc, args, policy, nul, route, observed,
                       started, child, raced, exit, runs, ran>>
        /\ pc = "idle" /\ started = {}
    BY <1>1 DEF Route, world, selection, process
  <2>2. World'
    BY <2>1 DEF World
  <2> QED
    BY <2>1, <2>2 DEF RunsWhatWasReviewed
<1>2. ASSUME NEW a \in Arguments, Run(a) PROVE Inv'
  <2>1. /\ UNCHANGED <<file, leads, identity, changes, shown, nul, route, observed, started,
                       child, raced, ran>>
        /\ args' = a /\ started = {} /\ pc = "idle"
    BY <1>2 DEF Run, world, process
  <2>2. World' /\ Accounted' /\ RunsWhatWasReviewed'
    BY <2>1 DEF World, RunsWhatWasReviewed
  <2>3. CASE StaticVerdict(a) = "none"
    <3>1. /\ Usable(a.request, file) /\ (a.request.tier = NoTier => a.review)
          /\ a.request.kind # "default" => a.review \/ a.ack # {}
      BY <2>3 DEF StaticVerdict, SuggestionUnseen
    <3>2. a.request \in Requests /\ a.ack \subseteq {seen.fingerprint : seen \in shown}
      BY DEF Arguments
    <3>3. pc' = "context" /\ policy' = PolicyFor(a.request, file)
      BY <1>2, <2>3 DEF Run
    <3>4. \E p \in Policies : policy' = {p}
      BY <3>1, <3>2, <3>3, PolicyType DEF Usable, World
    <3>5. Admitted'
      BY <2>1, <3>1, <3>2, <3>3, <3>4 DEF Usable
    <3> QED
      BY <2>1, <2>2, <3>3, <3>5
  <2>4. CASE StaticVerdict(a) # "none"
    BY <1>2, <2>1, <2>2, <2>4 DEF Run, End
  <2> QED
    BY <2>3, <2>4
<1>3. CASE CheckContext
  <2>1. /\ UNCHANGED <<world, shown, args, policy, nul, route, observed, started, raced, ran>>
        /\ started = {} /\ pc = "context" /\ pc' \in {"task", "ended"}
    BY <1>3 DEF CheckContext, End, selection, process
  <2> QED
    BY <1>0, <2>1 DEF RunsWhatWasReviewed
<1>4. CASE ReadTask
  <2>1. /\ UNCHANGED <<world, shown, args, policy, observed, started, raced, ran>>
        /\ started = {} /\ pc = "task" /\ pc' \in {"resolve", "ended"}
    BY <1>4 DEF ReadTask, End, process
  <2>2. CASE pc' = "ended"
    BY <1>0, <2>1, <2>2 DEF RunsWhatWasReviewed
  <2>3. CASE pc' = "resolve"
    <3>1. PICK t \in Tasks : /\ route' = Selected(The(policy), TierOf(t, args.request.tier, The(policy)),
                                                  args.request.vendor)
                             /\ route' # {}
      BY <1>4, <2>3 DEF ReadTask, End
    <3>2. The(policy) \in Policies /\ The(policy') = The(policy)
      BY <2>1 DEF The
    <3>3. PICK r \in Routes : route' = {r}
      BY <3>1, <3>2, SelectedType
    <3>4. The(route') = r /\ r \in route'
      BY <3>3 DEF The
    <3>5. Chosen'
      BY <2>1, <3>1, <3>2, <3>3, <3>4
    <3> QED
      BY <1>0, <2>1, <2>3, <3>5 DEF RunsWhatWasReviewed
  <2> QED
    BY <2>1, <2>2, <2>3
<1>5. CASE Resolve
  <2>1. /\ UNCHANGED <<world, shown, args, policy, nul, started, ran>>
        /\ started = {} /\ pc = "resolve" /\ pc' \in {"review", "refresh", "ended"}
    BY <1>5 DEF Resolve, End, process
  <2>2. CASE pc' = "ended"
    BY <1>0, <2>1, <2>2 DEF RunsWhatWasReviewed
  <2>3. CASE pc' # "ended"
    <3> DEFINE found == Resolutions(args.request, The(route))
    <3>1. /\ found # {} /\ route' = {The(found)[1]} /\ observed' = The(found)[2]
          /\ AckMatches(Fingerprint(The(policy), The(found)[1], observed'))
          /\ pc' = IF args.review THEN "review" ELSE "refresh"
      BY <1>5, <2>3 DEF Resolve, End
    <3>2. The(found) \in found
      BY <3>1 DEF The
    <3>3. The(route) \in Routes /\ The(policy') = The(policy)
      BY <2>1 DEF The
    <3>4. /\ The(found)[1] \in Routes /\ The(found)[1].vendor = The(route).vendor
          /\ args.request.kind # "file" =>
               LookUp(The(route).vendor) = {The(found)[1].command.program}
      BY <2>1, <3>2, <3>3, ResolutionFacts
    <3> HIDE DEF found
    <3>5. The(route') = The(found)[1]
      BY <3>1 DEF The
    <3>6. Chosen'
      BY <2>1, <3>1, <3>3, <3>4, <3>5
    <3>7. Bound' = Fingerprint(The(policy), The(found)[1], observed')
      BY <3>3, <3>5 DEF Bound
    <3>8. Seen'
      BY <2>1, <3>1, <3>7 DEF AckMatches
    <3>9. args.request.kind # "file" => LookUp(The(route).vendor)' = {The(route').command.program}
      BY <2>1, <3>4, <3>5 DEF LookUp, world
    <3>10. LastLook'
      BY <2>1, <3>1, <3>9
    <3> QED
      BY <1>0, <2>1, <3>6, <3>8, <3>10 DEF RunsWhatWasReviewed
  <2> QED
    BY <2>2, <2>3
<1>6. CASE Review
  <2>1. /\ UNCHANGED <<world, args, policy, route, observed, started, raced, ran>>
        /\ started = {} /\ pc = "review" /\ pc' \in {"refresh", "ended"} /\ shown \subseteq shown'
    BY <1>6 DEF Review, End, selection, process
  <2>2. Bound' = Bound /\ World'
    BY <1>0, <2>1 DEF Bound, The
  <2>3. pc' = "refresh" =>
          Reviewed(args.request, {}, Fingerprint(The(policy), The(route), observed)) \in shown'
    BY <1>6 DEF Review, End
  <2>4. pc' = "refresh" => \E seen \in shown' : seen.fingerprint = Bound'
    BY <2>2, <2>3 DEF Reviewed, Bound
  <2>5. LastLook' /\ Chosen'
    BY <2>1 DEF LookUp, world, The
  <2>6. Admitted' /\ Seen'
    BY <2>1, <2>2, <2>4
  <2> QED
    BY <2>1, <2>2, <2>5, <2>6 DEF RunsWhatWasReviewed
<1>7. CASE Refresh
  <2>1. /\ UNCHANGED <<world, shown, args, policy, route, observed, started, ran>>
        /\ started = {} /\ pc = "refresh" /\ pc' \in {"spawn", "ended"}
    BY <1>7 DEF Refresh, End, selection, process
  <2>2. Bound' = Bound /\ World'
    BY <1>0, <2>1 DEF Bound, The
  <2>3. Admitted' /\ Chosen' /\ Seen' /\ Started' /\ Accounted' /\ RunsWhatWasReviewed'
    BY <2>1, <2>2 DEF RunsWhatWasReviewed, The
  <2>4. ASSUME pc' = "spawn" PROVE LastLook'
    <3>1. CASE args.request.bind \/ (args.review /\ args.request.kind # "file")
      <4>1. Resolutions(args.request, The(route)) = {<<The(route), observed>>}
        BY <1>7, <2>4, <3>1 DEF Refresh, End, SameAgain
      <4>2. The(route) \in Routes
        BY <2>1 DEF The
      <4>3. /\ args.request \in Requests /\ World
            /\ args.request.bind => args.request.kind = "file"
        BY <2>1
      <4>4. /\ args.request.kind # "file" =>
                 LookUp(The(route).vendor) = {The(route).command.program}
            /\ args.request.bind =>
                 /\ The(route).command.program \in Paths
                 /\ \A path \in leads[The(route).command.program] : observed = {identity[path]}
        BY <4>1, <4>2, <4>3, SameAgainFacts
      <4> QED
        BY <2>1, <4>4 DEF LookUp, world, The
    <3>2. CASE ~(args.request.bind \/ (args.review /\ args.request.kind # "file"))
      <4>1. raced' = raced
        BY <1>7, <3>2 DEF Refresh
      <4> QED
        BY <2>1, <3>2, <4>1 DEF LookUp, world, The
    <3> QED
      BY <3>1, <3>2
  <2>5. pc' = "ended" => LastLook'
    OBVIOUS
  <2> QED
    BY <2>1, <2>2, <2>3, <2>4, <2>5
<1>8. CASE SpawnFails
  <2>1. /\ UNCHANGED <<world, shown, args, policy, route, observed, started, raced, ran>>
        /\ started = {} /\ pc' = "ended"
    BY <1>8 DEF SpawnFails, End, selection, process
  <2> QED
    BY <1>0, <2>1 DEF RunsWhatWasReviewed
<1>9. CASE Spawn
  <2>1. /\ UNCHANGED <<world, shown, args, policy, route, observed, raced>>
        /\ pc = "spawn" /\ pc' = "child"
        /\ ran' = ran \cup {[policy |-> The(policy), source |-> args.request.vendor,
                             vendor |-> The(route).vendor]}
    BY <1>9 DEF Spawn, selection
  <2>2. PICK path \in Reached(The(route).command.program) :
          started' = {[command |-> The(route).command, identity |-> identity[path]]}
    BY <1>9 DEF Spawn
  <2>3. Bound' = Bound /\ World' /\ The(route') = The(route) /\ The(policy') = The(policy)
    BY <1>0, <2>1 DEF Bound, The
  <2>4. /\ The(policy) \in Policies
        /\ args.request.vendor \in VendorLabels \cup {NoVendor}
    BY <2>1, LegacyRunAssumption DEF The
  <2>5. Accounted'
    BY <2>1, <2>4
  <2>6. args.request.bind => raced \/ observed = {identity[path]}
    BY <2>1, <2>2 DEF Reached
  <2>7. args.ack # {} \/ args.review => \E seen \in shown : seen.fingerprint = Bound
    BY <2>1
  <2>8. args.request.kind # "default" \/ args.request.tier = NoTier \/ args.ack # {} =>
          \E seen \in shown : seen.fingerprint = Bound
    BY <2>1, <2>7
  <2>9. Bound.route.command = The(route).command
    BY DEF Bound, Fingerprint
  <2>10. RunsWhatWasReviewed'
    <3> SUFFICES ASSUME NEW c \in started' PROVE
          /\ args.request.kind # "default" \/ args.request.tier = NoTier \/ args.ack # {} =>
               \E seen \in shown :
                 /\ seen.fingerprint = Bound /\ seen.fingerprint.route.command = c.command
          /\ args.request.bind => raced \/ observed = {c.identity}
      BY <2>1, <2>3 DEF RunsWhatWasReviewed, Bound
    <3>1. c.command = The(route).command /\ c.identity = identity[path]
      BY <2>2
    <3> QED
      BY <2>6, <2>8, <2>9, <3>1
  <2>11. Admitted' /\ Chosen' /\ Seen'
    BY <2>1, <2>3
  <2> QED
    BY <2>1, <2>3, <2>5, <2>10, <2>11
<1>10. CASE ChildCompletes \/ ChildFails
  <2>1. /\ UNCHANGED <<world, shown, args, policy, route, observed, started, raced, ran>>
        /\ pc' = "ended"
    BY <1>10 DEF ChildCompletes, ChildFails, End, selection
  <2> QED
    BY <1>0, <2>1 DEF RunsWhatWasReviewed, The
<1>11. CASE Interrupt
  <2>1. /\ UNCHANGED <<world, shown, args, policy, route, observed, started, raced, ran>>
        /\ pc' = "ended"
    BY <1>11 DEF Interrupt, End, selection
  <2> QED
    BY <1>0, <2>1 DEF RunsWhatWasReviewed, The
<1>12. CASE NextRun
  <2>1. pc' = "idle" /\ started' = {} /\ UNCHANGED <<world, shown, ran>>
    BY <1>12 DEF NextRun
  <2> QED
    BY <1>0, <2>1 DEF RunsWhatWasReviewed
<1>13. CASE EditPolicy
  <2>1. World'
    BY <1>13 DEF EditPolicy, Changing, World
  <2> QED
    BY <1>13, <2>1, ChangeStep DEF EditPolicy
<1>14. ASSUME NEW program \in Programs, Relink(program) PROVE Inv'
  <2>1. World'
    <3>1. PICK to \in {{}} \cup {{p} : p \in EndsFor(program)} :
            leads' = [q \in Programs |-> IF q = program \/ leads[q] = {program} THEN to ELSE leads[q]]
      BY <1>14 DEF Relink
    <3>2. to \in {{}} \cup {{p} : p \in Paths} /\ Paths \subseteq Programs
      BY LegacyRunAssumption DEF EndsFor
    <3>3. leads' \in [Programs -> {{}} \cup {{p} : p \in Paths}]
      BY <3>1, <3>2 DEF World
    <3>4. ASSUME NEW q \in Programs, NEW p \in leads'[q] PROVE leads'[p] = {p}
      <4>1. p \in Paths /\ p \in Programs
        BY <3>2, <3>3
      <4>2. CASE q = program \/ leads[q] = {program}
        <5>1. p \in EndsFor(program) /\ to = {p}
          BY <3>1, <4>2
        <5>2. p = program \/ leads[p] = {p}
          BY <5>1 DEF EndsFor
        <5> QED
          BY <3>1, <4>1, <5>1, <5>2
      <4>3. CASE q # program /\ leads[q] # {program}
        <5>1. p \in leads[q] /\ leads[q] = {p} /\ leads[p] = {p}
          BY <3>1, <4>3 DEF World
        <5> QED
          BY <3>1, <4>1, <4>3, <5>1
      <4> QED
        BY <4>2, <4>3
    <3>5. file' \in PolicyFiles /\ changes' \in Nat /\ identity' \in [Paths -> Nat]
      BY <1>14 DEF Relink, Changing, World
    <3> QED
      BY <3>3, <3>4, <3>5 DEF World
  <2> QED
    BY <1>14, <2>1, ChangeStep DEF Relink
<1>15. ASSUME NEW path \in Paths, UpdateExecutable(path) PROVE Inv'
  <2>1. World'
    BY <1>15 DEF UpdateExecutable, Changing, World
  <2> QED
    BY <1>15, <2>1, ChangeStep DEF UpdateExecutable
<1>16. CASE UNCHANGED vars
  <2>1. UNCHANGED <<world, shown, pc, args, policy, route, observed, started, raced, ran>>
    BY <1>16 DEF vars, selection, process
  <2>2. /\ World' /\ Bound' = Bound /\ The(route') = The(route) /\ The(policy') = The(policy)
        /\ LookUp(The(route).vendor)' = LookUp(The(route).vendor)
    BY <1>0, <2>1 DEF Bound, LookUp, world, The
  <2>3. Admitted' /\ Chosen' /\ Seen' /\ Started' /\ Accounted'
    BY <2>1, <2>2
  <2>4. LastLook' /\ RunsWhatWasReviewed'
    BY <2>1, <2>2 DEF world, RunsWhatWasReviewed
  <2> QED
    BY <2>2, <2>3, <2>4
<1> QED
  BY <1>1, <1>2, <1>3, <1>4, <1>5, <1>6, <1>7, <1>8, <1>9, <1>10, <1>11, <1>12, <1>13, <1>14,
     <1>15, <1>16 DEF Next

\* The first state satisfies the invariant.
LEMMA InvInit == Init => Inv
<1> SUFFICES ASSUME Init PROVE Inv
    OBVIOUS
<1>1. World
  <2>1. \A program \in Programs : (IF program \in Paths THEN program ELSE Home) \in Paths
    BY LegacyRunAssumption
  <2>2. leads = [program \in Programs |-> {IF program \in Paths THEN program ELSE Home}]
        /\ Paths \subseteq Programs
    BY LegacyRunAssumption DEF Init
  <2>3. \A program \in Programs : \A p \in leads[program] : leads[p] = {p}
    BY <2>1, <2>2
  <2> QED
    BY <2>1, <2>3 DEF Init, World
<1> QED
  BY <1>1 DEF Init, Inv, Admitted, Chosen, Seen, LastLook, Started, Accounted, Busy,
              RunsWhatWasReviewed

\* Whatever is selected by a file, a preset, an override or a suggested tier is
\* only started as it was shown, whatever changed between review and spawn.
THEOREM RunsAreReviewed == Spec => []RunsWhatWasReviewed
<1>1. Inv => RunsWhatWasReviewed
  BY DEF Inv
<1> QED
  BY <1>1, InvInit, InvStep, PTL DEF Spec

\* The children of all the runs through a policy that does not mix vendors, from
\* one source, are of one vendor.
THEOREM OneVendor == Spec => []OneVendorPerPolicy
<1>1. Inv => OneVendorPerPolicy
  BY OneVendorWithoutMixing DEF Inv, Accounted, OneVendorPerPolicy
<1> QED
  BY <1>1, InvInit, InvStep, PTL DEF Spec

\* A route from the package is started where the PATH leads when the run looked
\* last, which is after the review.
THEOREM PathIsFollowed == Spec => RunsWherePathLeads
<1>1. ASSUME Inv, pc = "spawn", args.request.kind # "file", ~raced
      PROVE  LookUp(The(route).vendor) = {The(route).command.program}
  BY <1>1 DEF Inv, LastLook
<1>2. Inv /\ [Next]_vars =>
        [pc = "spawn" /\ pc' = "child" /\ args.request.kind # "file" /\ ~raced
           => LookUp(The(route).vendor) = {The(route).command.program}]_vars
  BY <1>1
<1> QED
  BY <1>2, InvInit, InvStep, PTL DEF Spec, RunsWherePathLeads

-------------------------------------------------------------------------------
(* A review is honoured as long as nothing changes *)

\* A program that ends at one file ends there however often it is looked at, and
\* in one way: what a route resolves to resolves to itself, and to nothing else.
LEMMA ResolvesToItself ==
  ASSUME World, NEW request, NEW r \in Routes, NEW x \in Resolutions(request, r)
  PROVE  /\ Resolutions(request, r) = {x}
         /\ Resolutions(request, x[1]) = {<<x[1], x[2]>>}
<1>1. Paths \subseteq Programs /\ Builtin \subseteq Programs /\ r.command.program \in Programs
  BY LegacyRunAssumption DEF Routes, Commands
<1>2. ASSUME NEW program \in Programs, NEW p \in leads[program]
      PROVE  p \in Paths /\ leads[program] = {p} /\ leads[p] = {p}
  BY <1>2 DEF World
<1>3. ASSUME NEW p \in Programs
      PROVE  At(r, p) \in Routes /\ At(r, p).vendor = r.vendor
             /\ At(r, p).command.program = p /\ At(At(r, p), p) = At(r, p)
  <2>1. At(r, p) \in Routes /\ At(r, p).vendor = r.vendor /\ At(r, p).command.program = p
    BY AtType
  <2> DEFINE q == At(r, p)
  <2> HIDE DEF q
  <2>2. q \in Routes /\ q.command.program = p
    BY <2>1 DEF q
  <2>3. q.command \in Commands
    BY <2>2 DEF Routes
  <2>4. [q.command EXCEPT !.program = p] = q.command
    BY <2>2, <2>3 DEF Commands
  <2>5. At(q, p) = [q EXCEPT !.command = [q.command EXCEPT !.program = p]]
    BY DEF At
  <2>6. At(q, p) = q
    BY <2>2, <2>4, <2>5 DEF Routes
  <2> QED
    BY <2>1, <2>6 DEF q
<1>4. CASE request.kind # "file"
  <2>1. PICK p \in LookUp(r.vendor) : x = <<At(r, p), {}>>
    BY <1>4 DEF Resolutions
  <2>2. LookUp(r.vendor) = {p} /\ p \in Programs
    BY <1>1, <1>2, <2>1 DEF LookUp
  <2>3. x[1] = At(r, p) /\ x[2] = {} /\ LookUp(x[1].vendor) = {p} /\ At(x[1], p) = x[1]
    BY <1>3, <2>1, <2>2
  <2> QED
    BY <1>4, <2>1, <2>2, <2>3 DEF Resolutions
<1>5. CASE request.kind = "file" /\ request.bind
  <2>1. PICK p \in Behind(r.command.program) : x = <<At(r, p), {identity[p]}>>
    BY <1>5 DEF Resolutions
  <2>2. Behind(r.command.program) = {p} /\ p \in Programs /\ Behind(p) = {p}
    BY <1>1, <1>2, <2>1 DEF Behind
  <2>3. x[1] = At(r, p) /\ x[2] = {identity[p]} /\ x[1].command.program = p /\ At(x[1], p) = x[1]
    BY <1>3, <2>1, <2>2
  <2> QED
    BY <1>5, <2>1, <2>2, <2>3 DEF Resolutions
<1>6. CASE request.kind = "file" /\ ~request.bind
  BY <1>6 DEF Resolutions
<1> QED
  BY <1>4, <1>5, <1>6

\* What route would print now for a request that names its tier.
Standing(seen) ==
  \E p \in PolicyFor(seen.request, file) :
    \E r \in Selected(p, seen.request.tier, seen.request.vendor) :
      \E x \in Resolutions(seen.request, r) : seen.fingerprint = Fingerprint(p, x[1], x[2])

\* A review made since the last change is what route would print now.
Fresh(seen) ==
  /\ seen.at = {} \/ \E c \in 0..changes : seen.at = {c}
  /\ seen.at = {changes} => seen.request.tier # NoTier /\ Standing(seen)

\* Nothing changed since some review, which is never made while a run is on.
Unchanged == \E seen \in shown : seen.at = {changes}

\* Then the run's policy is still the one in force, and so is what it resolved.
Current ==
  /\ Busy /\ Unchanged => policy = PolicyFor(args.request, file)
  /\ pc \in {"review", "refresh"} /\ Unchanged =>
       \E r \in Routes : <<The(route), observed>> \in Resolutions(args.request, r)

\* The route that ReadTask chose is the one of its tier.
Picked ==
  pc = "resolve" =>
    \E t \in Tasks : route = Selected(The(policy), TierOf(t, args.request.tier, The(policy)),
                                      args.request.vendor)

Honoured ==
  /\ \A seen \in shown : Fresh(seen)
  /\ Current /\ Picked
  /\ pc # "ended" => exit = "none"
  /\ ReviewIsHonoured

\* Naming the tier that was found changes nothing of what is looked up.
LEMMA TierIsAllThatIsNamed ==
  ASSUME NEW request \in Requests, NEW tier
  PROVE  LET named == [request EXCEPT !.tier = tier] IN
         /\ named.tier = tier /\ named.vendor = request.vendor
         /\ \A contents : PolicyFor(named, contents) = PolicyFor(request, contents)
         /\ \A r : Resolutions(named, r) = Resolutions(request, r)
<1> DEFINE named == [request EXCEPT !.tier = tier]
<1>1. /\ named.tier = tier /\ named.vendor = request.vendor /\ named.kind = request.kind
      /\ named.bind = request.bind
  BY LegacyRunAssumption
<1> HIDE DEF named
<1>2. /\ \A contents : PolicyFor(named, contents) = PolicyFor(request, contents)
      /\ \A r : Resolutions(named, r) = Resolutions(request, r)
  BY <1>1 DEF PolicyFor, Resolutions
<1> QED
  BY <1>1, <1>2 DEF named

\* A route has the tier it was selected for.
LEMMA SelectedTier ==
  ASSUME NEW p \in Policies, NEW t, NEW source, NEW r \in Selected(p, t, source)
  PROVE  r \in Routes /\ r.tier = t
BY DEF Selected, First, Eligible, Policies

\* So has the route it resolves to.
LEMMA ResolutionTier ==
  ASSUME World, NEW request, NEW r \in Routes, NEW x \in Resolutions(request, r)
  PROVE  x[1].tier = r.tier
<1>1. \A p : At(r, p).tier = r.tier
  BY DEF At, Routes
<1> QED
  BY <1>1 DEF Resolutions

\* The tier of a task is given or suggested.
LEMMA TierIsOne ==
  ASSUME NEW t \in Tasks, NEW request \in Requests, NEW p
  PROVE  /\ TierOf(t, request.tier, p) # NoTier
         /\ request.tier # NoTier => TierOf(t, request.tier, p) = request.tier
BY LegacyRunAssumption, LegacyPolicyAssumption DEF TierOf, Tasks, Tiers

\* route shows what it would show again.
LEMMA RouteIsFresh ==
  ASSUME Inv, NEW request \in Requests, Route(request), NEW seen \in shown' \ shown
  PROVE  Fresh(seen)
<1>1. PICK p \in PolicyFor(request, file), t \in Tasks :
        \E r \in Selected(p, TierOf(t, request.tier, p), request.vendor) :
          \E x \in Resolutions(request, r) :
            shown' = shown \cup {Reviewed(request, {changes}, Fingerprint(p, x[1], x[2]))}
  BY DEF Route
<1> DEFINE tier == TierOf(t, request.tier, p)
<1>2. PICK r \in Selected(p, tier, request.vendor) : \E x \in Resolutions(request, r) :
        shown' = shown \cup {Reviewed(request, {changes}, Fingerprint(p, x[1], x[2]))}
  BY <1>1
<1>3. PICK x \in Resolutions(request, r) :
        shown' = shown \cup {Reviewed(request, {changes}, Fingerprint(p, x[1], x[2]))}
  BY <1>2
<1>11. tier # NoTier
  BY TierIsOne
<1> HIDE DEF tier
<1>4. p \in Policies /\ World
  BY PolicyType DEF Inv, World
<1>5. r \in Routes /\ r.tier = tier
  BY <1>4, SelectedTier
<1>6. x[1].tier = tier
  BY <1>4, <1>5, ResolutionTier
<1> DEFINE named == [request EXCEPT !.tier = tier]
<1>7. /\ seen.request = named /\ seen.at = {changes}
      /\ seen.fingerprint = Fingerprint(p, x[1], x[2])
  BY <1>3, <1>6 DEF Reviewed, Fingerprint
<1>8. /\ named.tier = tier /\ named.vendor = request.vendor
      /\ PolicyFor(named, file) = PolicyFor(request, file)
      /\ Resolutions(named, r) = Resolutions(request, r)
  BY TierIsAllThatIsNamed
<1> HIDE DEF named
<1>9. Standing(seen)
  BY <1>7, <1>8 DEF Standing
<1>10. changes \in 0..changes
  BY <1>4 DEF World
<1> QED
  BY <1>7, <1>8, <1>9, <1>10, <1>11 DEF Fresh

\* An acknowledgement of a fresh review of the run's request matches what the run
\* resolves ...
LEMMA FreshMatches ==
  ASSUME Inv, Current, Picked, pc = "resolve", NEW seen \in shown, Fresh(seen),
         seen.at = {changes}, args.request = seen.request, args.ack = {seen.fingerprint}
  PROVE  LET found == Resolutions(args.request, The(route)) IN
         AckMatches(Fingerprint(The(policy), The(found)[1], The(found)[2]))
<1>1. World /\ args.request \in Requests
  BY DEF Inv, Admitted, Busy
<1>2. policy = PolicyFor(args.request, file)
  BY DEF Current, Unchanged, Busy
<1>3. PICK p \in PolicyFor(args.request, file) :
        \E r \in Selected(p, args.request.tier, args.request.vendor) :
          \E x \in Resolutions(args.request, r) : seen.fingerprint = Fingerprint(p, x[1], x[2])
  BY DEF Fresh, Standing
<1>4. p \in Policies /\ policy = {p} /\ The(policy) = p
  BY <1>1, <1>2, <1>3, PolicyType DEF World, The
<1>5. route = Selected(p, args.request.tier, args.request.vendor)
  <2>1. args.request.tier # NoTier
    BY DEF Fresh
  <2> QED
    BY <1>1, <1>4, <2>1, TierIsOne DEF Picked
<1>11. PICK r \in route : \E x \in Resolutions(args.request, r) :
         seen.fingerprint = Fingerprint(p, x[1], x[2])
  BY <1>3, <1>5
<1>6. PICK x \in Resolutions(args.request, r) : seen.fingerprint = Fingerprint(p, x[1], x[2])
  BY <1>11
<1>7. r \in Routes /\ The(route) = r
  BY <1>4, <1>5, <1>6, SelectedTier, SelectedUnique DEF The
<1>8. Resolutions(args.request, r) = {x}
  BY <1>1, <1>6, <1>7, ResolvesToItself
<1>9. The(Resolutions(args.request, The(route))) = x
  BY <1>7, <1>8 DEF The
<1> QED
  BY <1>4, <1>6, <1>9 DEF AckMatches

\* ... and the second look sees the same again.
LEMMA SecondLookAgrees ==
  ASSUME Inv, Current, pc = "refresh", Unchanged
  PROVE  SameAgain(Resolutions(args.request, The(route)))
<1>1. World /\ The(route) \in Routes
  BY DEF Inv, Chosen, The
<1>2. PICK r \in Routes : <<The(route), observed>> \in Resolutions(args.request, r)
  BY DEF Current
<1>3. Resolutions(args.request, <<The(route), observed>>[1]) = {<<The(route), observed>>}
  BY <1>1, <1>2, ResolvesToItself
<1> QED
  BY <1>3 DEF SameAgain

\* No step refuses an acknowledgement of what was reviewed and not changed since.
LEMMA HonouredStep == Inv /\ Inv' /\ Honoured /\ [Next]_vars => Honoured'
<1> SUFFICES ASSUME Inv, Inv', Honoured, [Next]_vars PROVE Honoured'
    OBVIOUS
<1>0. /\ changes \in Nat /\ Current /\ Picked /\ \A seen \in shown : Fresh(seen)
      /\ pc # "ended" => exit = "none"
  BY DEF Inv, World, Honoured
<1>a. ASSUME UNCHANGED <<world, shown>>
      PROVE  (\A seen \in shown' : Fresh(seen)') /\ (Unchanged' <=> Unchanged)
  <2>1. ASSUME NEW seen \in shown PROVE Standing(seen)' <=> Standing(seen)
    BY <1>a DEF Standing, Resolutions, LookUp, Behind, world
  <2> QED
    BY <1>0, <1>a, <2>1 DEF Fresh, Unchanged, world
\* Where the run goes on and nothing is refused, only the run's own part moves.
<1>b. ASSUME UNCHANGED <<world, shown>>, Current', Picked', pc' # "ended" => exit' = "none",
             exit' # "route_fingerprint_mismatch"
      PROVE  Honoured'
  BY <1>a, <1>b DEF Honoured, ReviewIsHonoured
<1>c. ASSUME pc' = "ended" PROVE Current' /\ Picked'
  BY <1>c DEF Current, Picked, Busy
<1>1. ASSUME NEW request \in Requests, Route(request) PROVE Honoured'
  <2>1. /\ UNCHANGED <<file, leads, identity, changes, pc, exit>>
        /\ pc = "idle" /\ exit' = "none" /\ shown \subseteq shown'
    BY <1>0, <1>1 DEF Route, world
  <2>2. ASSUME NEW seen \in shown' PROVE Fresh(seen)'
    <3>1. Fresh(seen)
      BY <1>0, <1>1, RouteIsFresh
    <3>2. Standing(seen)' <=> Standing(seen)
      BY <2>1 DEF Standing, Resolutions, LookUp, Behind
    <3> QED
      BY <2>1, <3>1, <3>2 DEF Fresh
  <2> QED
    BY <2>1, <2>2 DEF Honoured, Current, Picked, Busy, ReviewIsHonoured
<1>2. ASSUME NEW a \in Arguments, Run(a) PROVE Honoured'
  <2>1. UNCHANGED <<world, shown, exit>> \/ UNCHANGED <<world, shown>>
    BY <1>2 DEF Run
  <2>2. CASE StaticVerdict(a) = "none"
    <3>1. /\ pc' = "context" /\ exit' = "none" /\ args' = a /\ policy' = PolicyFor(a.request, file)
          /\ file' = file
      BY <1>0, <1>2, <2>2 DEF Run, world
    <3>2. Current' /\ Picked'
      BY <3>1 DEF Current, Picked
    <3> QED
      BY <1>b, <2>1, <3>1, <3>2
  <2>3. CASE StaticVerdict(a) # "none"
    <3>1. /\ pc' = "ended" /\ args' = a
          /\ exit' = "route_fingerprint_mismatch" => a.ack = {}
      BY <1>2, <2>3 DEF Run, End, StaticVerdict
    <3>2. ReviewIsHonoured'
      BY <3>1 DEF ReviewIsHonoured
    <3> QED
      BY <1>a, <1>c, <2>1, <3>1, <3>2 DEF Honoured
  <2> QED
    BY <2>2, <2>3
<1>3. CASE CheckContext
  <2>1. /\ UNCHANGED <<world, shown, args, policy>>
        /\ pc = "context" /\ exit = "none"
        /\ \/ pc' = "task" /\ exit' = "none"
           \/ pc' = "ended" /\ exit' = "executor_unavailable"
    BY <1>0, <1>3 DEF CheckContext, End, selection
  <2>2. Current' /\ Picked'
    BY <1>0, <1>a, <2>1 DEF Current, Picked, Busy, world
  <2> QED
    BY <1>b, <2>1, <2>2
<1>4. CASE ReadTask
  <2>1. /\ UNCHANGED <<world, shown, args, policy>>
        /\ pc = "task" /\ exit = "none"
        /\ \/ pc' = "resolve" /\ exit' = "none"
           \/ pc' = "ended" /\ exit' \in {"invalid_input", "invalid_task", "unsupported_route"}
    BY <1>0, <1>4 DEF ReadTask, End
  <2>2. Current'
    BY <1>0, <1>a, <2>1 DEF Current, Busy, world
  <2>3. pc' = "resolve" =>
          \E t \in Tasks : route' = Selected(The(policy), TierOf(t, args.request.tier, The(policy)),
                                             args.request.vendor)
    BY <1>4 DEF ReadTask, End
  <2>4. Picked'
    BY <2>1, <2>3 DEF Picked, The
  <2> QED
    BY <1>b, <2>1, <2>2, <2>4
<1>5. CASE Resolve
  <2> DEFINE found == Resolutions(args.request, The(route))
  <2>1. /\ UNCHANGED <<world, shown, args, policy>> /\ pc = "resolve" /\ exit = "none"
    BY <1>0, <1>5 DEF Resolve
  <2>2. CASE found = {}
    BY <1>5, <1>b, <1>c, <2>1, <2>2 DEF Resolve, End
  <2>3. CASE found # {} /\ ~AckMatches(Fingerprint(The(policy), The(found)[1], The(found)[2]))
    <3>1. pc' = "ended" /\ exit' = "route_fingerprint_mismatch"
      BY <1>5, <2>3 DEF Resolve, End
    <3>2. ASSUME NEW seen \in shown, args.ack = {seen.fingerprint}, args.request = seen.request,
                 seen.at = {changes}
          PROVE  FALSE
      BY <1>0, <2>1, <2>3, <3>2, FreshMatches
    <3>3. ReviewIsHonoured'
      BY <2>1, <3>2 DEF ReviewIsHonoured, world
    <3> QED
      BY <1>a, <1>c, <2>1, <3>1, <3>3 DEF Honoured
  <2>4. CASE found # {} /\ AckMatches(Fingerprint(The(policy), The(found)[1], The(found)[2]))
    <3>1. /\ route' = {The(found)[1]} /\ observed' = The(found)[2]
          /\ \/ pc' \in {"review", "refresh"} /\ exit' = "none"
             \/ pc' = "ended" /\ exit' = "invalid_task"
      BY <1>5, <2>1, <2>4 DEF Resolve, End
    <3>2. World /\ The(route) \in Routes /\ The(found) \in found
      BY <2>1, <2>4 DEF Inv, Chosen, The
    <3>3. \E r \in Routes : <<The(route'), observed'>> \in Resolutions(args.request, r)
      <4>1. The(found) = <<The(found)[1], The(found)[2]>>
        BY <3>2 DEF Resolutions
      <4> HIDE DEF found
      <4>2. The(route') = The(found)[1]
        BY <3>1 DEF The
      <4>3. <<The(route'), observed'>> \in found
        BY <3>1, <3>2, <4>1, <4>2
      <4> QED
        BY <3>2, <4>3 DEF found
    <3>4. Current'
      <4>1. ASSUME NEW r PROVE Resolutions(args.request, r)' = Resolutions(args.request, r)
        BY <2>1 DEF Resolutions, LookUp, Behind, world
      <4>2. Busy /\ (Unchanged' <=> Unchanged)
        BY <1>a, <2>1 DEF Busy
      <4>3. PICK r \in Routes : <<The(route'), observed'>> \in Resolutions(args.request, r)
        BY <3>3
      <4>4. Resolutions(args.request, r)' = Resolutions(args.request, r) /\ The(route)' = The(route')
        BY <4>1 DEF The
      <4>5. args' = args
        BY <2>1
      <4> QED
        BY <1>0, <2>1, <4>2, <4>3, <4>4, <4>5 DEF Current, world
    <3>5. Picked'
      BY <3>1 DEF Picked
    <3> QED
      BY <1>b, <2>1, <3>1, <3>4, <3>5
  <2> QED
    BY <2>2, <2>3, <2>4
<1>6. CASE Review
  <2> DEFINE new == Reviewed(args.request, {}, Fingerprint(The(policy), The(route), observed))
  <2>1. /\ shown' = shown \/ shown' = shown \cup {new}
        /\ UNCHANGED <<file, leads, identity, changes, args, policy, route, observed>>
        /\ pc = "review" /\ exit = "none"
        /\ \/ pc' = "refresh" /\ exit' = "none"
           \/ pc' = "ended" /\ exit' \in {"execution_cancelled", "invalid_input"}
    BY <1>0, <1>6 DEF Review, End, world, selection
  <2>2. new.at = {}
    BY DEF Reviewed
  <2> HIDE DEF new
  <2>3. ASSUME NEW seen \in shown' PROVE Fresh(seen)'
    <3>1. CASE seen = new
      BY <2>2, <3>1 DEF Fresh
    <3>2. CASE seen \in shown
      <4>1. Standing(seen)' <=> Standing(seen)
        BY <2>1 DEF Standing, Resolutions, LookUp, Behind
      <4> QED
        BY <1>0, <2>1, <3>2, <4>1 DEF Fresh
    <3> QED
      BY <2>1, <3>1, <3>2
  <2>4. Unchanged' => Unchanged
    BY <2>1, <2>2 DEF Unchanged
  <2>5. Current'
    BY <1>0, <2>1, <2>4 DEF Current, Busy, The, Resolutions, LookUp, Behind
  <2> QED
    BY <2>1, <2>3, <2>5 DEF Honoured, Picked, ReviewIsHonoured
<1>7. CASE Refresh
  <2>1. /\ UNCHANGED <<world, shown, args, policy>> /\ pc = "refresh" /\ exit = "none"
    BY <1>0, <1>7 DEF Refresh, selection
  <2>2. CASE pc' = "spawn" /\ exit' = "none"
    <3>1. Current' /\ Picked'
      BY <1>0, <1>a, <2>1, <2>2 DEF Current, Picked, Busy, world
    <3> QED
      BY <1>b, <2>1, <2>2, <3>1
  <2>3. CASE pc' = "ended" /\ exit' = "executor_unavailable"
    BY <1>b, <1>c, <2>1, <2>3
  <2>4. CASE pc' = "ended" /\ exit' = "route_fingerprint_mismatch"
    <3>1. ~SameAgain(Resolutions(args.request, The(route)))
      BY <1>7, <2>4 DEF Refresh, End, SameAgain
    <3>2. ~Unchanged
      BY <1>0, <2>1, <3>1, SecondLookAgrees
    <3>3. ReviewIsHonoured'
      BY <2>1, <3>2 DEF ReviewIsHonoured, Unchanged, world
    <3> QED
      BY <1>a, <1>c, <2>1, <2>4, <3>3 DEF Honoured
  <2> QED
    BY <1>7, <2>1, <2>2, <2>3, <2>4 DEF Refresh, End
<1>8. CASE SpawnFails \/ ChildCompletes \/ ChildFails \/ Interrupt
  <2>1. /\ UNCHANGED <<world, shown>> /\ pc' = "ended"
        /\ exit' \in {"executor_unavailable", "success", "executor_failed", "interrupted"}
    BY <1>8 DEF SpawnFails, ChildCompletes, ChildFails, Interrupt, End
  <2> QED
    BY <1>b, <1>c, <2>1
<1>9. CASE Spawn
  <2>1. /\ UNCHANGED <<world, shown, args, policy, exit>> /\ pc = "spawn" /\ pc' = "child"
    BY <1>9 DEF Spawn, selection
  <2>2. Current' /\ Picked'
    BY <1>0, <1>a, <2>1 DEF Current, Picked, Busy, world
  <2> QED
    BY <1>0, <1>b, <2>1, <2>2
<1>10. CASE NextRun
  <2>1. UNCHANGED <<world, shown>> /\ pc' = "idle" /\ exit' = "none"
    BY <1>10 DEF NextRun
  <2> QED
    BY <1>b, <2>1 DEF Current, Picked, Busy
<1>11. CASE Changing
  <2>1. /\ changes' = changes + 1
        /\ UNCHANGED <<shown, pc, args, policy, route, observed, exit>>
    BY <1>11 DEF Changing, selection
  <2>2. ASSUME NEW seen \in shown PROVE Fresh(seen)' /\ seen.at # {changes'}
    <3>1. seen.at = {} \/ \E c \in 0..changes : seen.at = {c}
      BY <1>0 DEF Fresh
    <3>2. seen.at # {changes'}
      BY <1>0, <2>1, <3>1
    <3>3. seen.at = {} \/ \E c \in 0..changes' : seen.at = {c}
      BY <1>0, <2>1, <3>1
    <3> QED
      BY <3>2, <3>3 DEF Fresh
  <2>3. ~Unchanged'
    BY <2>1, <2>2 DEF Unchanged
  <2>4. Current' /\ Picked'
    BY <1>0, <2>1, <2>3 DEF Current, Picked, The
  <2> QED
    BY <1>0, <2>1, <2>2, <2>4 DEF Honoured, ReviewIsHonoured
<1>12. CASE UNCHANGED vars
  <2>1. UNCHANGED <<world, shown, pc, args, policy, route, observed, exit>>
    BY <1>12 DEF vars, selection
  <2>2. Current' /\ Picked'
    BY <1>0, <1>a, <2>1 DEF Current, Picked, Busy, The, Resolutions, LookUp, Behind, world
  <2> QED
    BY <1>0, <1>a, <2>1, <2>2 DEF Honoured, ReviewIsHonoured, world
<1> QED
  BY <1>1, <1>2, <1>3, <1>4, <1>5, <1>6, <1>7, <1>8, <1>9, <1>10, <1>11, <1>12
     DEF Next, EditPolicy, Relink, UpdateExecutable

\* An acknowledgement of what was reviewed, by the request that names the tier that
\* was found, is never refused as long as nothing changed: route and run compute
\* one fingerprint, and the second look never disagrees with the first.
THEOREM ReviewsAreHonoured == Spec => []ReviewIsHonoured
<1>1. Init => Honoured
  BY DEF Init, Honoured, Current, Picked, Busy, ReviewIsHonoured
<1>2. Honoured => ReviewIsHonoured
  BY DEF Honoured
<1> QED
  BY <1>1, <1>2, InvInit, InvStep, HonouredStep, PTL DEF Spec

===============================================================================
