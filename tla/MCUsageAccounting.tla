-------------------------- MODULE MCUsageAccounting ---------------------------
(* A source on codex whose tasks run at low or medium effort or cross over to  *)
(* grok; a first attempt succeeds or is killed, a retry escalates.             *)
EXTENDS UsageAccounting

MCExitCodes == {0, -9}

MCRunsTried ==
  {r \in Runs : /\ r.source = "codex"
                /\ r.dimensions.agent = "grok" => r.dimensions.effort = "low"
                /\ r.rework => r.status = 0
                /\ r.escalation = r.rework}
===============================================================================
