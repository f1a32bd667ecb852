----------------------------- MODULE MCNativeV2Run -----------------------------
(* Policy files: a route that serves two tiers of a source and stays with it; a *)
(* crossing to the other vendor with its two grants; and the same crossing with *)
(* the vendor grant in the wrong direction, which the parser refuses.           *)
EXTENDS NativeV2Run

Home == [id |-> "home", vendor |-> "codex", account_profile |-> "work"]
Away == [id |-> "away", vendor |-> "claude", account_profile |-> "work"]

TargetFor(profile) ==
  [id |-> "target", profile_id |-> profile.id, vendor |-> profile.vendor,
   executable |-> profile.vendor, builder |-> profile.vendor, pairs |-> {"mini-low"}]

Serving(tiers) ==
  [id |-> "route", target_id |-> "target", pair |-> "mini-low",
   eligibility |-> {[vendor |-> "codex", profile |-> "home", tier |-> t] : t \in tiers}]

Staying ==
  [profiles |-> {Home}, targets |-> {TargetFor(Home)}, routes |-> {Serving({"low", "high"})},
   profile_grants |-> {}, vendor_grants |-> {}]

Crossing_(from, to) ==
  [profiles |-> {Home, Away}, targets |-> {TargetFor(Away)}, routes |-> {Serving({"low", "high"})},
   profile_grants |-> {[id |-> "grant", from |-> "home", to |-> "away"]},
   vendor_grants |-> {[id |-> "grant", from |-> from, to |-> to]}]

MCPolicyFiles == {Staying, Crossing_("codex", "claude"), Crossing_("claude", "codex")}

MCRequested == {[vendor |-> "codex", profile |-> "home"]}
===============================================================================
