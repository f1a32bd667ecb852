----------------------------- MODULE NativePolicyV3 ----------------------------
(***************************************************************************)
(* The schema-3 routing policy: what parse_native_policy_v3 accepts, and   *)
(* the one route compile_static_native_policy_v3 selects from it.          *)
(* The lists of a policy are sets: an entry that is repeated repeats its   *)
(* id, which the parser refuses.  Character classes and byte lengths of    *)
(* labels are left out.                                                    *)
(***************************************************************************)
EXTENDS Naturals, FiniteSets

CONSTANTS Ids,         \* identifiers
          Accounts,    \* account labels
          Models,      \* model labels, NoModel (JSON null) among them
          NoModel,
          TaskPlaceholder, \* the label that is the task slot of a template
          Paths,       \* executable paths
          MaxProfiles, MaxTargets, MaxRoutes, MaxGrants, MaxPairs

ASSUME NativePolicyAssumption ==
  /\ NoModel \in Models /\ NoModel # TaskPlaceholder
  /\ {MaxProfiles, MaxTargets, MaxRoutes, MaxGrants, MaxPairs} \subseteq Nat

Vendors == {"agy", "claude", "codex", "grok"}
Tiers   == {"low", "standard", "high"}
Efforts == {"low", "medium", "high"}

Profiles == [id : Ids, vendor : Vendors, account_profile : Accounts]
Targets  == [id : Ids, profile_id : Ids, vendor : Vendors, executable : Paths,
             builder : Vendors, pairs : SUBSET (Models \X Efforts)]
Routes   == [id : Ids, source_profile_id : Ids, tier : Tiers, target_id : Ids,
             model : Models, effort : Efforts]
ProfileGrants == [id : Ids, from : Ids, to : Ids]
VendorGrants  == [id : Ids, from : Vendors, to : Vendors]

\* The shape of a policy; the cross-checks below decide.
Policies == [profiles : SUBSET Profiles, targets : SUBSET Targets, routes : SUBSET Routes,
             profile_grants : SUBSET ProfileGrants, vendor_grants : SUBSET VendorGrants]

Selectors == [vendor : Vendors, profile : Ids, tier : Tiers]

-------------------------------------------------------------------------------
(* Looking entries up by id *)

ById(entries, id) == CHOOSE e \in entries : e.id = id

Source(policy, route) == ById(policy.profiles, route.source_profile_id)
TargetOf(policy, route) == ById(policy.targets, route.target_id)
Destination(policy, route) == ById(policy.profiles, TargetOf(policy, route).profile_id)

\* The dimensions in which a route leaves its source.
CrossesProfile(policy, route) == Source(policy, route).id # Destination(policy, route).id
CrossesVendor(policy, route) == Source(policy, route).vendor # Destination(policy, route).vendor

ProfileCrossing(policy, route) == <<Source(policy, route).id, Destination(policy, route).id>>
VendorCrossing(policy, route) ==
  <<Source(policy, route).vendor, Destination(policy, route).vendor>>

-------------------------------------------------------------------------------
(* parse_native_policy_v3 *)

WithinLimits(policy) ==
  /\ Cardinality(policy.profiles) \in 1..MaxProfiles
  /\ Cardinality(policy.targets) \in 1..MaxTargets
  /\ Cardinality(policy.routes) \in 1..MaxRoutes
  /\ Cardinality(policy.profile_grants) \in 0..MaxGrants
  /\ Cardinality(policy.vendor_grants) \in 0..MaxGrants
  /\ \A t \in policy.targets : Cardinality(t.pairs) \in 1..MaxPairs

\* No two entries share an id, of whatever sort they are.
IdsDistinct(entries) == \A e, f \in entries : e.id = f.id => e = f
IdsApart(entries, others) == \A e \in entries, f \in others : e.id # f.id

UniqueIds(policy) ==
  /\ IdsDistinct(policy.profiles) /\ IdsDistinct(policy.targets) /\ IdsDistinct(policy.routes)
  /\ IdsDistinct(policy.profile_grants) /\ IdsDistinct(policy.vendor_grants)
  /\ IdsApart(policy.profiles, policy.targets) /\ IdsApart(policy.profiles, policy.routes)
  /\ IdsApart(policy.profiles, policy.profile_grants)
  /\ IdsApart(policy.profiles, policy.vendor_grants)
  /\ IdsApart(policy.targets, policy.routes) /\ IdsApart(policy.targets, policy.profile_grants)
  /\ IdsApart(policy.targets, policy.vendor_grants)
  /\ IdsApart(policy.routes, policy.profile_grants)
  /\ IdsApart(policy.routes, policy.vendor_grants)
  /\ IdsApart(policy.profile_grants, policy.vendor_grants)

\* Each vendor has its own builder, and agy takes no model.
TargetsBuildable(policy) ==
  \A t \in policy.targets :
    t.builder = t.vendor /\ (t.vendor = "agy" => \A pair \in t.pairs : pair[1] = NoModel)

GrantsWellFormed(policy) ==
  /\ \A g, h \in policy.profile_grants : g.from = h.from /\ g.to = h.to => g = h
  /\ \A g, h \in policy.vendor_grants : g.from = h.from /\ g.to = h.to => g = h
  /\ \A g \in policy.profile_grants :
       /\ g.from # g.to
       /\ {g.from, g.to} \subseteq {p.id : p \in policy.profiles}
  /\ \A g \in policy.vendor_grants : g.from # g.to

RouteResolves(policy, route) ==
  /\ \E p \in policy.profiles : p.id = route.source_profile_id
  /\ \E t \in policy.targets :
       /\ t.id = route.target_id
       /\ \E p \in policy.profiles : p.id = t.profile_id /\ p.vendor = t.vendor
       /\ <<route.model, route.effort>> \in t.pairs

\* A route's selector is its source, whose vendor the profile fixes, and its tier.
SelectorsUnique(policy) ==
  \A r, s \in policy.routes :
    r.source_profile_id = s.source_profile_id /\ r.tier = s.tier => r = s

\* The grants are exactly the crossings the routes make, direction included.
GrantsExact(policy) ==
  /\ {<<g.from, g.to>> : g \in policy.profile_grants} =
       {ProfileCrossing(policy, r) : r \in {s \in policy.routes : CrossesProfile(policy, s)}}
  /\ {<<g.from, g.to>> : g \in policy.vendor_grants} =
       {VendorCrossing(policy, r) : r \in {s \in policy.routes : CrossesVendor(policy, s)}}

ValidPolicy(policy) ==
  /\ WithinLimits(policy)
  /\ UniqueIds(policy)
  /\ TargetsBuildable(policy)
  /\ GrantsWellFormed(policy)
  /\ \A r \in policy.routes : RouteResolves(policy, r)
  /\ SelectorsUnique(policy)
  /\ GrantsExact(policy)

-------------------------------------------------------------------------------
(* compile_static_native_policy_v3 *)

Matches(policy, selector) ==
  {r \in policy.routes : r.source_profile_id = selector.profile /\ r.tier = selector.tier}

ProfileGrantsFor(policy, route) ==
  {g \in policy.profile_grants : <<g.from, g.to>> = ProfileCrossing(policy, route)}
VendorGrantsFor(policy, route) ==
  {g \in policy.vendor_grants : <<g.from, g.to>> = VendorCrossing(policy, route)}

\* _argv builds one of the four reviewed command shapes; a model label that is
\* the placeholder itself would add a task slot.
ArgvBuilds(policy, route) ==
  LET target == TargetOf(policy, route) IN
  /\ target.builder = target.vendor
  /\ target.vendor = "agy" => route.model = NoModel
  /\ route.model # TaskPlaceholder

Authorized(policy, route) ==
  /\ CrossesProfile(policy, route) => \E g \in policy.profile_grants : ProfileGrantsFor(policy, route) = {g}
  /\ CrossesVendor(policy, route) => \E g \in policy.vendor_grants : VendorGrantsFor(policy, route) = {g}

RouteCompiles(policy, route, vendor) ==
  /\ \E p \in policy.profiles : p.id = route.source_profile_id
  /\ \E t \in policy.targets : t.id = route.target_id
  /\ Source(policy, route).vendor = vendor
  /\ \E p \in policy.profiles : p.id = TargetOf(policy, route).profile_id
  /\ Destination(policy, route).vendor = TargetOf(policy, route).vendor
  /\ ArgvBuilds(policy, route)
  /\ Authorized(policy, route)

Compiles(policy, selector) ==
  \E r \in policy.routes :
    Matches(policy, selector) = {r} /\ RouteCompiles(policy, r, selector.vendor)

SelectedRoute(policy, selector) == CHOOSE r \in Matches(policy, selector) : TRUE

ChangedDimensions(policy, route) ==
  (IF CrossesProfile(policy, route) THEN {"profile"} ELSE {}) \cup
  (IF CrossesVendor(policy, route) THEN {"vendor"} ELSE {})

RequiredConfirmations(purpose, dimensions) ==
  (IF purpose = "native_delegation" THEN {"native_delegation"} ELSE {}) \cup
  (IF dimensions # {} THEN {"endpoint_transition"} ELSE {})

\* The task-free descriptor of the selection.
Descriptor(policy, selector, purpose) ==
  LET route == SelectedRoute(policy, selector)
      target == TargetOf(policy, route)
      changed == ChangedDimensions(policy, route)
  IN  [purpose |-> purpose, selection |-> selector, route |-> route, target |-> target,
       source |-> Source(policy, route), destination |-> Destination(policy, route),
       changed_dimensions |-> changed,
       authorizations |->
         {g.id : g \in IF "profile" \in changed THEN ProfileGrantsFor(policy, route) ELSE {}}
           \cup {g.id : g \in IF "vendor" \in changed THEN VendorGrantsFor(policy, route) ELSE {}},
       required_confirmations |-> RequiredConfirmations(purpose, changed),
       task_delivery |-> IF target.vendor \in {"agy", "grok"} THEN "argv" ELSE "stdin"]

===============================================================================
