-------------------------------- MODULE RouteArgv ------------------------------
(***************************************************************************)
(* How a schema-1 command is put together and how it gets the task: the    *)
(* packaged routes and presets, the model and effort labels that a user    *)
(* puts on them (--low-model and the like), the policy that `profile`      *)
(* generates, the parser's rule on the task slot, and the delivery of the  *)
(* task in argv or on standard input.  An argument is a sequence of the    *)
(* pieces that the code tells apart; the options of a packaged command     *)
(* that no code looks at are one argument.                                 *)
(***************************************************************************)
EXTENDS Naturals, Sequences

CONSTANTS Labels,       \* the model and effort labels a user may give
          Overrides,    \* the tier-specific labels he may give together
          FileCommands  \* the commands a policy file may have

RouteTiers == {"low", "standard", "high"}
RouteVendors == {"claude", "codex", "agy", "grok"}
NoVendor == "no vendor"   \* no --source-vendor
NoLabel == <<>>           \* an option that was not given

Slot == <<"{{task}}">>             \* TASK_PLACEHOLDER
Task == <<"the task's text">>      \* whatever it is, it is told apart from the rest

ASSUME RouteArgvAssumption ==
  /\ Labels \subseteq Seq(STRING) \ {NoLabel}
  /\ Overrides \subseteq [model : [RouteTiers -> Labels \cup {NoLabel}],
                          effort : [RouteTiers -> Labels \cup {NoLabel}]]
  /\ FileCommands \subseteq Seq(Seq(STRING) \ {Task}) /\ Task \notin Labels

\* A packaged route, under overrides if there are any; a preset; the output of
\* `profile`; a policy of the user's own.
RequestKinds == {"packaged", "preset", "selected", "file"}

Requests == [kind : RequestKinds, vendor : RouteVendors \cup {NoVendor}, tier : RouteTiers,
             model : Labels \cup {NoLabel},   \* the one --model of a preset or of `profile`
             overrides : Overrides, command : FileCommands]

-------------------------------------------------------------------------------
(* The packaged commands *)

Config == "model_reasoning_effort="

\* The pieces an argument with a dash in front begins with.
Dashes == {"-", "-c", "-p", "--print", "--model", "--effort", "--reasoning-effort"}

Plain(pieces) == [i \in DOMAIN pieces |-> <<pieces[i]>>]

\* DEFAULT_ROUTES
UsualEffort == [tier \in RouteTiers |-> CASE tier = "low" -> <<"low">>
                                     [] tier = "standard" -> <<"medium">>
                                     [] tier = "high" -> <<"high">>]

\* CLAUDE_COMMAND_PREFIX, CODEX_COMMAND_PREFIX, AGY_COMMAND_PREFIX, GROK_COMMAND_PREFIX
Opening == [claude |-> Plain(<<"claude", "settings">>),
            codex  |-> Plain(<<"codex", "settings">>),
            agy    |-> <<<<"agy">>, <<"--print">>, Slot, <<"settings">>>>,
            grok   |-> <<<<"grok">>, <<"-p">>, Slot, <<"settings">>>>]

\* codex_command, agy_command, grok_command; codex reads the task where it says "-".
Ending(vendor, effort) ==
  CASE vendor = "codex" -> <<<<"-c">>, <<Config>> \o effort, <<"-">>>>
    [] vendor = "grok"  -> <<<<"--reasoning-effort">>, effort>>
    [] OTHER            -> <<<<"--effort">>, effort>>

BuiltIn(vendor, effort) == Opening[vendor] \o Ending(vendor, effort)

\* The policies under examples/: claude's are stricter and name a model for the low tier.
Preset(vendor, tier) ==
  IF vendor # "claude" THEN BuiltIn(vendor, UsualEffort[tier])
  ELSE Plain(<<"claude", "safe settings">>)
       \o (IF tier = "low" THEN Plain(<<"--model", "haiku">>) ELSE <<>>)
       \o Ending(vendor, UsualEffort[tier])

-------------------------------------------------------------------------------
(* The labels.  What may be refused is a set of at most one. *)

The(set) == CHOOSE x \in set : TRUE

\* _validate_preset_override_label, _model_label: one argument, and never an option.
ValidLabel(label) ==
  label # NoLabel /\ label[1] \notin Dashes /\ \A i \in DOMAIN label : label[i] # " "

Places(command, token) == {i \in DOMAIN command : command[i] = token}

\* The tokens come after the place instead of before it (seeded fault).
InsertAfter(command, i, tokens) ==
  SubSeq(command, 1, i) \o tokens \o SubSeq(command, i + 1, Len(command))

InsertBefore(command, i, tokens) ==
  SubSeq(command, 1, i - 1) \o tokens \o SubSeq(command, i, Len(command))

\* _replace_or_insert_option
ReplaceOrInsert(command, option, value, before) ==
  LET found == Places(command, option)
      points == Places(command, before)
  IN {[command EXCEPT ![i + 1] = value] : i \in {j \in found : found = {j} /\ j < Len(command)}}
     \cup {InsertBefore(command, i, <<option, value>>) : i \in {j \in points : found = {} /\ points = {j}}}

\* _MODEL_INSERTION_POINTS
InsertionPoint == [claude |-> <<"--effort">>, codex |-> <<"-c">>, grok |-> <<"--reasoning-effort">>]

WithModel(command, vendor, label) ==
  IF label = NoLabel THEN {command}
  ELSE IF vendor \notin DOMAIN InsertionPoint \/ ~ValidLabel(label) THEN {}
  ELSE ReplaceOrInsert(command, <<"--model">>, label, InsertionPoint[vendor])

\* The setting of codex that holds the effort, wherever it is in the command.
Settings(command) == {i \in DOMAIN command : command[i] # <<>> /\ command[i][1] = Config}

WithEffort(command, vendor, label) ==
  IF label = NoLabel THEN {command}
  ELSE IF ~ValidLabel(label) THEN {}
  ELSE CASE vendor = "claude" -> ReplaceOrInsert(command, <<"--effort">>, label, <<"--effort">>)
         [] vendor = "codex"  -> {[command EXCEPT ![i] = <<Config>> \o label] :
                                    i \in {j \in Settings(command) : Settings(command) = {j}}}
         [] OTHER -> {}

\* _apply_route_overrides: the effort goes into the command that has the model.
Overridden(command, vendor, tier, overrides) ==
  UNION {WithEffort(c, vendor, overrides.effort[tier]) :
           c \in WithModel(command, vendor, overrides.model[tier])}

Empty(overrides) == \A tier \in RouteTiers : overrides.model[tier] = NoLabel /\ overrides.effort[tier] = NoLabel

\* One refused tier refuses them all.
Every(commands) ==
  IF \A tier \in DOMAIN commands : commands[tier] # {}
  THEN {[tier \in DOMAIN commands |-> The(commands[tier])]} ELSE {}

-------------------------------------------------------------------------------
(* The sources of a command *)

\* RoutingPolicy(DEFAULT_ROUTES): the policy's vendor is codex, which it lists first.
Default(vendor) ==
  {[tier \in RouteTiers |-> BuiltIn(IF vendor = NoVendor THEN "codex" ELSE vendor, UsualEffort[tier])]}

\* _automatic_cost_policy without a preset, _built_in_override_policy
Packaged(r) ==
  IF r.model # NoLabel THEN {}
  ELSE IF Empty(r.overrides) THEN Default(r.vendor)
  ELSE IF r.vendor = NoVendor THEN {}
  ELSE Every([tier \in RouteTiers |-> Overridden(BuiltIn(r.vendor, UsualEffort[tier]), r.vendor, tier, r.overrides)])

\* The one --model of codex's preset, for the two lower tiers (_render_example_policy).
WithPresetModel(command, tier, label) ==
  IF label = NoLabel \/ tier = "high" THEN {command}
  ELSE {InsertBefore(command, i, <<<<"--model">>, label>>) :
          i \in {j \in Places(command, <<"-c">>) : ValidLabel(label)}}

Materialized(r) ==
  IF \/ r.vendor = NoVendor
     \/ r.model # NoLabel /\ (r.vendor # "codex" \/ \E tier \in RouteTiers : r.overrides.model[tier] # NoLabel)
  THEN {}
  ELSE Every([tier \in RouteTiers |-> UNION {Overridden(c, r.vendor, tier, r.overrides) :
                                          c \in WithPresetModel(Preset(r.vendor, tier), tier, r.model)}])

\* _selected_command: `profile` knows three efforts, and a program by its path.
Selected(r) ==
  LET command == BuiltIn(r.vendor, r.overrides.effort[r.tier])
      found == [command EXCEPT ![1] = <<"/", r.vendor>>]
  IN IF r.vendor = NoVendor \/ r.overrides.effort[r.tier] \notin {<<"low">>, <<"medium">>, <<"high">>} THEN {}
     ELSE IF r.model = NoLabel THEN {found}
     ELSE IF ~ValidLabel(r.model) \/ r.vendor \notin DOMAIN InsertionPoint THEN {}
     ELSE {InsertBefore(found, The(Places(found, InsertionPoint[r.vendor])), <<<<"--model">>, r.model>>)}

\* The commands by tier.
Composed(r) ==
  CASE r.kind = "packaged" -> Packaged(r)
    [] r.kind = "preset"   -> Materialized(r)
    [] r.kind = "selected" -> {[tier \in {r.tier} |-> command] : command \in Selected(r)}
    [] r.kind = "file"     -> {[tier \in {r.tier} |-> r.command]}

\* _require_at_most_one_task_slot, with no look at how often there is one (seeded fault).
WholeSlots(command) ==
  /\ 1 \notin Places(command, Slot)
  /\ \A i \in DOMAIN command : (\E k \in DOMAIN command[i] : command[i][k] = Slot[1]) => command[i] = Slot

\* _require_at_most_one_task_slot
OneSlotAtMost(command) ==
  /\ 1 \notin Places(command, Slot)
  /\ \A i, j \in Places(command, Slot) : i = j
  /\ \A i \in DOMAIN command : (\E k \in DOMAIN command[i] : command[i][k] = Slot[1]) => command[i] = Slot

-------------------------------------------------------------------------------
(* A run *)

VARIABLES request,   \* what the user asks for
          pc,        \* compose, parse, deliver, run or refused
          commands,  \* the command of each tier of the policy
          argv,      \* what is executed, <<>> until then
          stdin      \* what the child is given there

commandVars == <<request, pc, commands, argv, stdin>>

CommandInit ==
  /\ request \in Requests /\ pc = "compose"
  /\ commands = [tier \in {} |-> <<>>] /\ argv = <<>> /\ stdin = <<>>

\* The packaged routes, overridden or not, never go through the parser.
Compose ==
  /\ pc = "compose"
  /\ \/ Composed(request) = {} /\ pc' = "refused" /\ UNCHANGED commands
     \/ \E c \in Composed(request) :
          commands' = c /\ pc' = IF request.kind = "packaged" THEN "deliver" ELSE "parse"
  /\ UNCHANGED <<request, argv, stdin>>

\* _parse_route, for each route of the policy.
Parse ==
  /\ pc = "parse"
  /\ pc' = IF \A tier \in DOMAIN commands : OneSlotAtMost(commands[tier]) THEN "deliver" ELSE "refused"
  /\ UNCHANGED <<request, commands, argv, stdin>>

\* substitute_task
Substituted(command) == [i \in DOMAIN command |-> IF command[i] = Slot THEN Task ELSE command[i]]

\* _resolve_default_route_executable, which a policy file goes without.
Located(command) ==
  IF request.kind \in {"packaged", "preset"} THEN [command EXCEPT ![1] = <<"/", command[1][1]>>] ELSE command

\* A task with a NUL character cannot be an argument.
Deliver ==
  /\ pc = "deliver"
  /\ LET route == Located(commands[request.tier]) IN
       IF Places(route, Slot) # {}
       THEN \/ pc' = "run" /\ argv' = Substituted(route) /\ stdin' = <<>>
            \/ pc' = "refused" /\ UNCHANGED <<argv, stdin>>
       ELSE pc' = "run" /\ argv' = route /\ stdin' = Task
  /\ UNCHANGED <<request, commands>>

CommandNext == Compose \/ Parse \/ Deliver

CommandSpec == CommandInit /\ [][CommandNext]_commandVars

-------------------------------------------------------------------------------
(* Properties *)

\* The model a user asks for, for one tier: by an override, or by the one --model.
AskedModel(r, tier) ==
  IF r.kind # "selected" /\ r.overrides.model[tier] # NoLabel THEN r.overrides.model[tier]
  ELSE IF r.kind = "selected" \/ tier # "high" THEN r.model ELSE NoLabel

\* The model and the effort a command is to name: as asked, or else as packaged.
MeantModel(r, tier) ==
  IF AskedModel(r, tier) = NoLabel /\ r.kind = "preset" /\ r.vendor = "claude" /\ tier = "low" THEN <<"haiku">>
  ELSE AskedModel(r, tier)

MeantEffort(r, tier) ==
  IF r.overrides.effort[tier] = NoLabel THEN UsualEffort[tier] ELSE r.overrides.effort[tier]

\* The vendor's own options in their order, with the model in front of the effort.
Meant(r, tier) ==
  LET vendor == IF r.vendor = NoVendor THEN "codex" ELSE r.vendor
      model == MeantModel(r, tier)
  IN (IF r.kind = "preset" /\ vendor = "claude" THEN Plain(<<"claude", "safe settings">>) ELSE Opening[vendor])
     \o (IF model = NoLabel THEN <<>> ELSE <<<<"--model">>, model>>)
     \o Ending(vendor, MeantEffort(r, tier))

\* Whichever of the ways a command is put together in, and whatever labels it is given,
\* every tier of an accepted policy names the model and the effort asked for it, has its
\* vendor's other options as packaged, and what nobody asked to change is unchanged.
SaysWhatWasAsked ==
  pc \in {"deliver", "run"} /\ request.kind # "file" =>
    \A tier \in DOMAIN commands : Tail(commands[tier]) = Tail(Meant(request, tier))

\* Where the task is: the arguments that are the task, and 0 for standard input.
Deliveries == {i \in DOMAIN argv : argv[i] = Task} \cup (IF stdin = Task THEN {0} ELSE {})

Once(deliveries) == \E i \in deliveries : deliveries = {i} /\ i # 1

\* A child gets the task once, in one argument that is not the program or on standard
\* input, and no argument has the name of the slot left in it: for every command that
\* the parser has read, and for the packaged ones as they are.
TaskDeliveredOnce ==
  pc = "run" /\ (request.kind # "packaged" \/ Empty(request.overrides)) =>
    /\ Once(Deliveries)
    /\ \A i \in DOMAIN argv : \A k \in DOMAIN argv[i] : argv[i][k] # Slot[1]

\* The same of every child, those of overridden packaged routes included.
EveryTaskDeliveredOnce == pc = "run" => Once(Deliveries)
===============================================================================
