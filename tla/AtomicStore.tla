------------------------------ MODULE AtomicStore ------------------------------
(***************************************************************************)
(* What the usage store promises its users: it is created once, each       *)
(* update takes effect in one step and on top of all earlier ones, and an  *)
(* update that was acknowledged survives even a power loss.                *)
(***************************************************************************)
CONSTANTS Updates,   \* the updates that may be made
          Absent     \* the store before it is created

VARIABLES content,   \* the updates that took effect, or Absent
          acked      \* the updates reported as done

vars == <<content, acked>>

Init == content = Absent /\ acked = {}

Create == content = Absent /\ content' = {} /\ UNCHANGED acked

Apply(u) ==
  /\ content # Absent /\ u \notin content
  /\ content' = content \cup {u}
  /\ UNCHANGED acked

\* Only an update that took effect may be acknowledged; one that did need not be.
Acknowledge(u) ==
  /\ content # Absent /\ u \in content
  /\ acked' = acked \cup {u}
  /\ UNCHANGED content

\* A power loss may undo updates nobody was told about.
Forget ==
  /\ content # Absent
  /\ IF content' = Absent THEN acked = {}
     ELSE acked \subseteq content' /\ content' \subseteq content
  /\ UNCHANGED acked

Next == Create \/ Forget \/ \E u \in Updates : Apply(u) \/ Acknowledge(u)

Spec == Init /\ [][Next]_vars
===============================================================================
