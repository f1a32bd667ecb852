------------------------------ MODULE MCLegacyRun ------------------------------
(* Default routes of two vendors; policy files of two vendors in either order,  *)
(* with and without the opt-in to mix them, one with a task slot in argv and    *)
(* one with two routes of one id, which the parser refuses.                     *)
EXTENDS LegacyRun

Cmd(program, slots) == [program |-> program, options |-> "plain", slots |-> slots]

RouteTo(id, vendor, tier, program, slots) ==
  [id |-> id, vendor |-> vendor, tier |-> tier, command |-> Cmd(program, slots)]

MCDefaultRoutes ==
  <<RouteTo("a", "codex", "low", "codex", 0), RouteTo("b", "codex", "high", "codex", 0),
    RouteTo("c", "grok", "low", "grok", 1)>>

MCVendorRoutes ==
  [v \in Builtin |-> SelectSeq(MCDefaultRoutes, LAMBDA r : r.vendor = v)]

Custom(mixed, posture, routes) == [routes |-> routes, mixed |-> mixed, posture |-> posture]

LowHere == RouteTo("a", "codex", "low", "/x", 1)
HighHere == RouteTo("b", "codex", "high", "codex", 0)
HighThere == RouteTo("b", "grok", "high", "/y", 0)

MCPolicyFiles ==
  {Custom(FALSE, "unset", <<LowHere, HighThere>>),
   Custom(FALSE, "cautious", <<HighHere, LowHere, RouteTo("c", "grok", "low", "/y", 0)>>),
   Custom(TRUE, "unset", <<LowHere, HighThere>>),
   Custom(TRUE, "unset", <<LowHere, LowHere>>)}

Ask(kind, vendor, tier, bind) == [kind |-> kind, vendor |-> vendor, tier |-> tier, bind |-> bind]

MCRequests ==
  {Ask("default", "none", "low", FALSE), Ask("default", "grok", NoTier, FALSE),
   Ask("preset", "codex", "high", FALSE), Ask("override", "none", "low", FALSE),
   Ask("file", "none", NoTier, FALSE), Ask("file", "none", "high", FALSE),
   Ask("file", "none", "low", TRUE), Ask("default", "codex", "low", TRUE)}
===============================================================================
