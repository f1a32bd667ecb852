----------------------------- MODULE MCNativeV3Run -----------------------------
(* Four contents of the policy file: the source's own vendor, with and without *)
(* a model; a crossing to grok with its two grants; and the same crossing      *)
(* without the profile grant, which the parser refuses.                        *)
EXTENDS NativeV3Run

Home == [id |-> "home", vendor |-> "codex", account_profile |-> "work"]
Away == [id |-> "away", vendor |-> "grok", account_profile |-> "work"]

TargetFor(profile, path, model) ==
  [id |-> "target", profile_id |-> profile.id, vendor |-> profile.vendor, executable |-> path,
   builder |-> profile.vendor, pairs |-> {<<model, "low">>}]

LowRoute(model) ==
  [id |-> "route", source_profile_id |-> "home", tier |-> "low", target_id |-> "target",
   model |-> model, effort |-> "low"]

Staying(model) ==
  [profiles |-> {Home}, targets |-> {TargetFor(Home, "codex", model)},
   routes |-> {LowRoute(model)}, profile_grants |-> {}, vendor_grants |-> {}]

Crossing(grants) ==
  [profiles |-> {Home, Away}, targets |-> {TargetFor(Away, "grok", NoModel)},
   routes |-> {LowRoute(NoModel)}, profile_grants |-> grants,
   vendor_grants |-> {[id |-> "vg", from |-> "codex", to |-> "grok"]}]

MCPolicyFiles ==
  {Staying(NoModel), Staying("mini"), Crossing({}),
   Crossing({[id |-> "pg", from |-> "home", to |-> "away"]})}

MCRequested == {[vendor |-> "codex", profile |-> "home", tier |-> "low"]}
===============================================================================
