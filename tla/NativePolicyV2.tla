----------------------------- MODULE NativePolicyV2 ----------------------------
(***************************************************************************)
(* The schema-2 routing policy: what parse_native_policy_v2 accepts, and   *)
(* the one route compile_native_v2 selects from it.  A route serves a set  *)
(* of selectors.  The lists of a policy are sets: an entry that is         *)
(* repeated repeats its id, which the parser refuses.  Characters, byte    *)
(* lengths and the upper limits of the lists are left out.                 *)
(***************************************************************************)
CONSTANTS Ids,       \* identifiers
          Accounts,  \* account labels
          Pairs,     \* pairs of a model and an effort label
          Paths      \* executable paths

Vendors == {"claude", "codex"}
Tiers   == {"low", "standard", "high"}

Profiles  == [id : Ids, vendor : Vendors, account_profile : Accounts]
Targets   == [id : Ids, profile_id : Ids, vendor : Vendors, executable : Paths,
              builder : Vendors, pairs : SUBSET Pairs]
Selectors == [vendor : Vendors, profile : Ids, tier : Tiers]
Routes    == [id : Ids, eligibility : SUBSET Selectors, target_id : Ids, pair : Pairs]
ProfileGrants == [id : Ids, from : Ids, to : Ids]
VendorGrants  == [id : Ids, from : Vendors, to : Vendors]

\* The shape of a policy; the cross-checks below decide.
Policies == [profiles : SUBSET Profiles, targets : SUBSET Targets, routes : SUBSET Routes,
             profile_grants : SUBSET ProfileGrants, vendor_grants : SUBSET VendorGrants]

-------------------------------------------------------------------------------
(* parse_native_policy_v2 *)

ListsFilled(policy) ==
  /\ policy.profiles # {} /\ policy.targets # {} /\ policy.routes # {}
  /\ \A t \in policy.targets : t.pairs # {}
  /\ \A r \in policy.routes : r.eligibility # {}

\* No two entries of one sort share an id; entries of different sorts may.
IdsDistinct(entries) == \A e, f \in entries : e.id = f.id => e = f

UniqueIds(policy) ==
  /\ IdsDistinct(policy.profiles) /\ IdsDistinct(policy.targets) /\ IdsDistinct(policy.routes)
  /\ IdsDistinct(policy.profile_grants) /\ IdsDistinct(policy.vendor_grants)

GrantsWellFormed(policy) ==
  /\ \A g, h \in policy.profile_grants : g.from = h.from /\ g.to = h.to => g = h
  /\ \A g, h \in policy.vendor_grants : g.from = h.from /\ g.to = h.to => g = h
  /\ \A g \in policy.profile_grants :
       g.from # g.to /\ {g.from, g.to} \subseteq {p.id : p \in policy.profiles}
  /\ \A g \in policy.vendor_grants : g.from # g.to

\* A vendor has one builder; codex's and claude's are named after their vendors.
TargetsBuildable(policy) ==
  \A t \in policy.targets :
    /\ t.builder = t.vendor
    /\ \E p \in policy.profiles : p.id = t.profile_id /\ p.vendor = t.vendor

SelectorsUnique(policy) ==
  /\ \A r \in policy.routes : \A s \in r.eligibility :
       \E p \in policy.profiles : p.id = s.profile /\ p.vendor = s.vendor
  /\ \A r, q \in policy.routes : r.eligibility \cap q.eligibility # {} => r = q

TargetsFor(policy, route) == {t \in policy.targets : t.id = route.target_id}

RoutesResolve(policy) ==
  \A r \in policy.routes : \E t \in TargetsFor(policy, r) : r.pair \in t.pairs

\* What a policy routes: each selector with its target.
Served(policy) == UNION {r.eligibility \X TargetsFor(policy, r) : r \in policy.routes}

\* The profiles and the vendors that it connects.
ProfileCrossings(policy) == {<<e[1].profile, e[2].profile_id>> : e \in Served(policy)}
VendorCrossings(policy) == {<<e[1].vendor, e[2].vendor>> : e \in Served(policy)}

Leaving(crossings) == {c \in crossings : c[1] # c[2]}

\* A grant for one direction serves both (seeded fault).
GrantsEitherWay(policy) ==
  /\ Leaving(ProfileCrossings(policy)) \subseteq
       UNION {{<<g.from, g.to>>, <<g.to, g.from>>} : g \in policy.profile_grants}
  /\ Leaving(VendorCrossings(policy)) \subseteq
       UNION {{<<g.from, g.to>>, <<g.to, g.from>>} : g \in policy.vendor_grants}

\* Every crossing has its grant, in its direction, and every grant its crossing.
GrantsExact(policy) ==
  /\ {<<g.from, g.to>> : g \in policy.profile_grants} = Leaving(ProfileCrossings(policy))
  /\ {<<g.from, g.to>> : g \in policy.vendor_grants} = Leaving(VendorCrossings(policy))

ValidPolicy(policy) ==
  /\ ListsFilled(policy)
  /\ UniqueIds(policy)
  /\ GrantsWellFormed(policy)
  /\ TargetsBuildable(policy)
  /\ SelectorsUnique(policy)
  /\ RoutesResolve(policy)
  /\ GrantsExact(policy)

-------------------------------------------------------------------------------
(* compile_native_v2 *)

Matches(policy, selector) == {r \in policy.routes : selector \in r.eligibility}

\* The grants for a crossing.
Crossing(grants, from, to) == {g \in grants : g.from = from /\ g.to = to}

\* Exactly one route serves the selector; otherwise the compiler refuses it.
Compiles(policy, selector) == \E r \in policy.routes : Matches(policy, selector) = {r}

\* The ways from a selector through a route to its source, target, destination
\* and grants: no way means an exception that nobody catches.
Ways(policy, selector) ==
  {[route |-> w[1], source |-> w[2], target |-> w[3], destination |-> w[4]] :
     w \in {v \in Matches(policy, selector) \X policy.profiles \X policy.targets
                    \X policy.profiles :
              /\ v[2].id = selector.profile
              /\ v[3].id = v[1].target_id
              /\ v[4].id = v[3].profile_id
              /\ v[2].id # v[4].id => Crossing(policy.profile_grants, v[2].id, v[4].id) # {}
              /\ v[2].vendor # v[4].vendor =>
                   Crossing(policy.vendor_grants, v[2].vendor, v[4].vendor) # {}}}

ProfileGrantsFor(policy, way) ==
  {g \in policy.profile_grants : g.from = way.source.id /\ g.to = way.destination.id}
VendorGrantsFor(policy, way) ==
  {g \in policy.vendor_grants : g.from = way.source.vendor /\ g.to = way.destination.vendor}

\* Only the first dimension is authorized (seeded fault).
FirstAuthorization(policy, way) ==
  IF ProfileGrantsFor(policy, way) # {} THEN ProfileGrantsFor(policy, way)
  ELSE VendorGrantsFor(policy, way)

\* The grants that a descriptor names.  None has the same ends, so none is named
\* for a dimension that does not change.
Authorizations(policy, way) == ProfileGrantsFor(policy, way) \cup VendorGrantsFor(policy, way)

\* The task-free descriptor of a selection, for which its fingerprint stands.
Descriptor(policy, selector, way) ==
  [selection |-> selector, route |-> way.route, target |-> way.target,
   source |-> way.source, destination |-> way.destination,
   authorizations |-> Authorizations(policy, way)]

\* The one descriptor of a selector, none if the compiler refuses it.
Compiled(policy, selector) ==
  IF Compiles(policy, selector)
  THEN {Descriptor(policy, selector, way) : way \in Ways(policy, selector)}
  ELSE {}
===============================================================================
