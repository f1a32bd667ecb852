------------------------------- MODULE MCAnswers -------------------------------
(* What is said before anything runs: the task as the classifier reads it, the   *)
(* labels and commands that make a schema-1 route, and the answers to the        *)
(* dialogue of `wclass select`.  The three share no state, so a behaviour is one *)
(* of one of them, with the others at rest.                                      *)
EXTENDS TaskClassifier, RouteArgv, Selector

-------------------------------------------------------------------------------
(* Tasks: short ones of four signals in any order, and descriptions of a costly  *)
(* outcome that begin anywhere around the edges of the first three windows, with *)
(* their words as far apart as the patterns allow, or one character more.        *)

W(kind) == [kind |-> kind, width |-> 8, gap |-> 1]
Pad(width) == [kind |-> "other", width |-> width, gap |-> 1]
Spaces(n) == [kind |-> "other", width |-> 1, gap |-> n]

Leads == {Pad(w) : w \in {1, 600, 790, 1000, 1150, 1190, 1600, 1900}} \cup {Spaces(1195)}
Far == {Pad(1), Pad(78), Pad(79), Spaces(900)}
Near == {Pad(1), Pad(30), Spaces(900)}
Evidence == {<<>>, <<Pad(140), W("again")>>, <<Pad(30), W("integration test"), W("sometimes")>>}

Small == {W(k) : k \in {"floor", "high signal", "cause", "flaky", "low signal", "action", "imperative",
                        "object", "from to", "from to number", "connective"}} \cup {Pad(240), Pad(1200)}

SignalScripts == {<<a, b, c, d>> : a, b, c, d \in Small}
                 \cup {<<a, Pad(w), b>> : w \in {28, 29}, a, b \in {W("action"), W("object")}}
                 \cup {<<a, W("substitution"), Pad(20001)>> : a \in Small}

OutcomeScripts ==
  {<<l, W(p[1]), a, W(p[2]), b, W(p[3])>> : l \in Leads, a \in Far, b \in Near,
     p \in {<<"account", "charged", "twice">>, <<"balance", "turns", "negative">>,
            <<"same work", "duplicate", "executed">>, <<"funds", "sometimes", "below zero">>,
            <<"funds", "below zero", "falls">>}}

SameScripts ==
  {before \o <<l, W("same"), W("job"), a, W("runs"), b, W(t)>> \o after :
     before, after \in Evidence, l \in Leads, a \in Far, b \in Near, t \in Multiplicity}

AgainScripts ==
  {<<l, q, Pad(140), W("job"), a, W("runs"), b, W("same"), W("job"), c, W("twice")>> \o after :
     l \in Leads, q \in {W("again"), Pad(8)}, a \in Far, b, c \in Near, after \in Evidence}

MCScripts == SignalScripts \cup OutcomeScripts \cup SameScripts \cup AgainScripts

-------------------------------------------------------------------------------
(* Labels of every kind the code tells apart, at most two of them together, and  *)
(* commands of a file with no slot, one, two, one in front and part of one.      *)

MCLabels == {<<"opus">>, <<"medium">>, <<"--effort">>, <<"two", " ", "words">>,
             Slot, <<"x=", "{{task}}">>, <<"model_reasoning_effort=", "low">>}

NoLabels == [t \in RouteTiers |-> <<>>]

\* The tiers come one by one: a third label meets nothing that a second does not.
MCOverrides ==
  LET Single == {[NoLabels EXCEPT ![t] = label] : t \in RouteTiers, label \in MCLabels \cup {<<>>}}
  IN [model : Single, effort : Single]
     \cup {[model |-> [NoLabels EXCEPT !["low"] = <<"opus">>, !["high"] = label], effort |-> NoLabels] :
             label \in MCLabels}

Arguments == {<<"tool">>, Slot, <<"x=", "{{task}}">>}
MCFileCommands == UNION {[1..n -> Arguments] : n \in 1..3}

\* A request varies what its kind looks at.
Asked ==
  /\ CommandInit
  /\ request.kind # "file" => request.command = <<<<"tool">>>>
  /\ request.kind = "file" => /\ request.model = <<>> /\ Empty(request.overrides)
                             /\ request.vendor = NoVendor
  /\ request.kind = "packaged" /\ request.model # <<>> => Empty(request.overrides)

-------------------------------------------------------------------------------
(* Three of the vendors are installed, agy among them; grok lies on a PATH entry *)
(* that is not normalized.                                                       *)

MCInstalled == {"agy", "codex", "grok"}
MCPathOf == [v \in MCInstalled |-> v]
MCIds == {<<"source">>} \cup {<<"profile", i>> : i \in 1..3}

-------------------------------------------------------------------------------
NothingWritten == script = <<>> /\ words = <<>> /\ length = 0 /\ compact = 0
NothingAsked == request = <<>> /\ pc = "rest" /\ commands = <<>> /\ argv = <<>> /\ stdin = <<>>
NothingAnswered ==
  /\ place = "rest" /\ source = <<>> /\ tier = 0 /\ choice = <<>> /\ selections = <<>>
  /\ pending = {} /\ consented = {} /\ troubled = FALSE /\ outcome = "none"

MCInit == \/ ClassifierInit /\ NothingAsked /\ NothingAnswered
          \/ NothingWritten /\ Asked /\ NothingAnswered
          \/ NothingWritten /\ NothingAsked /\ DialogueInit

MCNext == \/ ClassifierNext /\ UNCHANGED <<commandVars, dialogueVars>>
          \/ CommandNext /\ UNCHANGED <<classifierVars, dialogueVars>>
          \/ DialogueNext /\ UNCHANGED <<classifierVars, commandVars>>

MCSpec == MCInit /\ [][MCNext]_<<classifierVars, commandVars, dialogueVars>>

===============================================================================
