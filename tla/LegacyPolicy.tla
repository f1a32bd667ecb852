------------------------------ MODULE LegacyPolicy -----------------------------
(***************************************************************************)
(* The schema-1 routing policy and the packaged routes: which policies are *)
(* accepted, and which route a tier and a source vendor select.  The order *)
(* of the routes counts.  A command is its program, the rest of its        *)
(* reviewed argv and the number of its task slots.                         *)
(***************************************************************************)
EXTENDS Naturals, Sequences

CONSTANTS RouteIds, VendorLabels, Programs,
          Options,   \* what a command says besides its program and task slots
          NoTier,    \* the tier of a workflow route
          NoVendor   \* no --source-vendor was given

ASSUME LegacyPolicyAssumption ==
  NoVendor \notin VendorLabels /\ NoTier \notin {"low", "standard", "high"}

Tiers == {"low", "standard", "high"}
Postures == {"unset", "balanced", "cautious"}

Commands == [program : Programs, options : Options, slots : Nat]
Routes == [id : RouteIds, vendor : VendorLabels, tier : Tiers \cup {NoTier}, command : Commands]
Policies == [routes : Seq(Routes), mixed : BOOLEAN, posture : Postures]

-------------------------------------------------------------------------------
(* _parse_routing_policy *)

\* At most one task slot, and none in a workflow route, which nobody fills in.
ValidRoute(r) == r.command.slots <= IF r.tier = NoTier THEN 0 ELSE 1

ValidPolicy(policy) ==
  /\ policy.routes # <<>>
  /\ \A i \in DOMAIN policy.routes : ValidRoute(policy.routes[i])
  /\ \A i, j \in DOMAIN policy.routes : policy.routes[i].id = policy.routes[j].id => i = j

-------------------------------------------------------------------------------
(* select_tier_route *)

\* The least of a set of indices, as a set of at most one.
First(indices) == {i \in indices : \A j \in indices : i <= j}

Tiered(policy) == {i \in DOMAIN policy.routes : policy.routes[i].tier # NoTier}

\* The vendor a policy declares first, workflow routes aside.
DeclaredVendors(policy) == {policy.routes[i].vendor : i \in First(Tiered(policy))}

\* A caller that names no vendor may be given any (seeded fault).
AnyUnlessNamed(policy, source) == IF source = NoVendor THEN VendorLabels ELSE {source}

\* _required_vendor, as the vendors a candidate route may have.
AllowedVendors(policy, source) ==
  IF policy.mixed THEN VendorLabels
  ELSE IF source # NoVendor THEN {source}
  ELSE DeclaredVendors(policy)

Eligible(policy, tier, source) ==
  {i \in DOMAIN policy.routes : /\ policy.routes[i].tier = tier
                                /\ policy.routes[i].vendor \in AllowedVendors(policy, source)}

\* The first eligible route, as a set of at most one.
Selected(policy, tier, source) ==
  {policy.routes[i] : i \in First(Eligible(policy, tier, source))}

-------------------------------------------------------------------------------
(* The tier *)

\* What classify_task_with_reason makes of a task is a tier of its own here.
Tasks == [suggested : Tiers, nul : BOOLEAN]

\* A suggested standard tier is raised by a cautious policy, a given one never.
TierOf(task, explicit, policy) ==
  IF explicit # NoTier THEN explicit
  ELSE IF policy.posture = "cautious" /\ task.suggested = "standard" THEN "high"
  ELSE task.suggested
===============================================================================
