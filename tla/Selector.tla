-------------------------------- MODULE Selector -------------------------------
(***************************************************************************)
(* `wclass select`: the dialogue of run_interactive_selector on the        *)
(* controlling console, the policy it builds from the answers, and what    *)
(* the schema-3 parser and compiler make of that policy before it is       *)
(* emitted.  Ids are tuples that name what the code spells into a string.  *)
(***************************************************************************)
EXTENDS NativePolicyV3, Sequences, SequencesExt

CONSTANTS Installed,   \* vendors whose executable was found on PATH
          PathOf,      \* the executable found for each of them
          OddPaths,    \* paths discovery accepts and the parser does not
          EffortsTried \* bound: the efforts that are answered

ASSUME SelectorAssumption ==
  /\ Installed \subseteq Vendors /\ Installed # {}
  /\ PathOf \in [Installed -> Paths]
  /\ OddPaths \subseteq Paths /\ EffortsTried \subseteq Efforts
  \* The parser's limits are far above three tiers.
  /\ MaxProfiles >= 4 /\ {MaxTargets, MaxRoutes, MaxGrants} \subseteq Nat \ 0..2 /\ MaxPairs >= 1

VARIABLES
  place,       \* the prompt that is shown
  source,      \* source vendor, then with its account
  tier,        \* the tier asked for, 1..3
  choice,      \* what was answered for that tier so far
  selections,  \* the completed answers, in tier order
  pending,     \* grants whose transition is still to be consented to
  consented,   \* grants consented to
  troubled,    \* history: an answer, or the machine, gave cause for refusal
  outcome      \* how the dialogue ended

dialogueVars == <<place, source, tier, choice, selections, pending, consented, troubled, outcome>>

TierAt == <<"low", "standard", "high">>
NoChoice == [vendor |-> "none", account |-> "none", effort |-> "none"]

DialogueInit ==
  /\ place = "source"
  /\ source = [vendor |-> "none", account |-> "none"]
  /\ tier = 1 /\ choice = NoChoice /\ selections = <<>>
  /\ pending = {} /\ consented = {}
  /\ troubled = FALSE /\ outcome = "none"

-------------------------------------------------------------------------------
(* _build_policy *)

Endpoint(s) == [vendor |-> s.vendor, account |-> s.account]

\* A destination is known by its vendor alone (seeded fault).
VendorOnly(s, t) == s.vendor = t.vendor

SameEndpoint(s, t) == s.vendor = t.vendor /\ s.account = t.account

\* The selections that need a profile of their own: the first of each endpoint.
Others ==
  {i \in DOMAIN selections : /\ ~SameEndpoint(selections[i], source)
                             /\ \A j \in 1..(i - 1) : ~SameEndpoint(selections[i], selections[j])}

\* Profiles are numbered as they come up.
SourceId == <<"source">>
OtherId(i) == <<"profile", Cardinality({j \in Others : j <= i})>>

\* _profile_id.
ProfileId(s) ==
  IF SameEndpoint(s, source) THEN SourceId
  ELSE OtherId(CHOOSE i \in Others : SameEndpoint(s, selections[i]))

TargetId(s) == <<"target", s.tier, s.vendor>>

\* A vendor grant for every target (seeded fault).
AllVendors == {s.vendor : s \in ToSet(selections)}

GrantedVendors == {s.vendor : s \in ToSet(selections)} \ {source.vendor}

BuiltPolicy ==
  [profiles |-> {[id |-> SourceId, vendor |-> source.vendor,
                  account_profile |-> source.account]}
       \cup {[id |-> OtherId(i), vendor |-> selections[i].vendor,
              account_profile |-> selections[i].account] : i \in Others},
   targets |->
     {[id |-> TargetId(s), profile_id |-> ProfileId(s), vendor |-> s.vendor,
       executable |-> PathOf[s.vendor], builder |-> s.vendor,
       pairs |-> {<<s.model, s.effort>>}] : s \in ToSet(selections)},
   routes |->
     {[id |-> <<"route", s.tier, s.vendor>>, source_profile_id |-> SourceId, tier |-> s.tier,
       target_id |-> TargetId(s), model |-> s.model, effort |-> s.effort] :
        s \in ToSet(selections)},
   profile_grants |->
     {[id |-> <<"to_profile", OtherId(i)>>, from |-> SourceId, to |-> OtherId(i)] : i \in Others},
   vendor_grants |->
     {[id |-> <<"to_vendor", v>>, from |-> source.vendor, to |-> v] : v \in GrantedVendors}]

SourceSelector(t) == [vendor |-> source.vendor, profile |-> SourceId, tier |-> t]

-------------------------------------------------------------------------------
(* The dialogue *)

Ask(prompt) == place' = prompt
Finish(result) == place' = "done" /\ outcome' = result

AnswerSource(v) ==
  /\ place = "source"
  /\ source' = [source EXCEPT !.vendor = v] /\ Ask("source_account")
  /\ UNCHANGED <<tier, choice, selections, pending, consented, troubled, outcome>>

AnswerSourceAccount(a) ==
  /\ place = "source_account"
  /\ source' = [source EXCEPT !.account = a] /\ Ask("destination")
  /\ UNCHANGED <<tier, choice, selections, pending, consented, troubled, outcome>>

AnswerDestination(v) ==
  /\ place = "destination"
  /\ choice' = [choice EXCEPT !.vendor = v] /\ Ask("account")
  /\ UNCHANGED <<source, tier, selections, pending, consented, troubled, outcome>>

AnswerAccount(a) ==
  /\ place = "account"
  /\ choice' = [choice EXCEPT !.account = a] /\ Ask("effort")
  /\ UNCHANGED <<source, tier, selections, pending, consented, troubled, outcome>>

AnswerEffort(e) ==
  /\ place = "effort"
  /\ choice' = [choice EXCEPT !.effort = e] /\ Ask("model")
  /\ UNCHANGED <<source, tier, selections, pending, consented, troubled, outcome>>

\* _model_choice: the native default, or a label where the adapter takes one.
ModelsFor(v) == IF v = "agy" THEN {NoModel} ELSE Models

AnswerModel(m) ==
  /\ place = "model" /\ m \in ModelsFor(choice.vendor)
  /\ selections' = Append(selections,
       [tier |-> TierAt[tier], vendor |-> choice.vendor, account |-> choice.account,
        effort |-> choice.effort, model |-> m])
  /\ troubled' = (troubled \/ m = TaskPlaceholder \/ PathOf[choice.vendor] \in OddPaths)
  /\ choice' = NoChoice
  /\ IF tier < 3 THEN tier' = tier + 1 /\ Ask("destination")
                 ELSE Ask("build") /\ UNCHANGED tier
  /\ UNCHANGED <<source, pending, consented, outcome>>

\* A blank destination skips the tier.
SkipTier ==
  /\ place = "destination"
  /\ IF tier < 3 THEN tier' = tier + 1 /\ UNCHANGED place
                 ELSE Ask("build") /\ UNCHANGED tier
  /\ UNCHANGED <<source, choice, selections, pending, consented, troubled, outcome>>

\* Only the profile transitions are asked for (seeded fault).
ProfileTransitions(policy) == policy.profile_grants

Transitions(policy) == policy.profile_grants \cup policy.vendor_grants

Build ==
  /\ place = "build"
  /\ IF selections = <<>>
     THEN Finish("invalid_input") /\ troubled' = TRUE /\ UNCHANGED pending
     ELSE /\ pending' = Transitions(BuiltPolicy) /\ Ask("consent")
          /\ UNCHANGED <<troubled, outcome>>
  /\ UNCHANGED <<source, tier, choice, selections, consented>>

\* The profile transitions come before the vendor transitions.
Consent(g) ==
  /\ place = "consent" /\ g \in pending
  /\ g \in BuiltPolicy.vendor_grants => pending \cap BuiltPolicy.profile_grants = {}
  /\ pending' = pending \ {g} /\ consented' = consented \cup {g}
  /\ UNCHANGED <<place, source, tier, choice, selections, troubled, outcome>>

\* parse_native_policy_v3, and compile_native_policy_v3 of every route.
Acceptable(policy) ==
  /\ ValidPolicy(policy)
  /\ \A t \in policy.targets : t.executable \notin OddPaths
  /\ \A r \in policy.routes : Compiles(policy, SourceSelector(r.tier))

\* All transitions are consented to: the executables are observed and the
\* preview is printed.
Preview ==
  /\ place = "consent" /\ pending = {}
  /\ IF Acceptable(BuiltPolicy) THEN Ask("emit") /\ UNCHANGED outcome
                                ELSE Finish("invalid_input")
  /\ UNCHANGED <<source, tier, choice, selections, pending, consented, troubled>>

ObservationFails ==
  /\ place = "consent" /\ pending = {}
  /\ troubled' = TRUE /\ Finish("invalid_input")
  /\ UNCHANGED <<source, tier, choice, selections, pending, consented>>

Emit ==
  /\ place = "emit" /\ Finish("emitted")
  /\ UNCHANGED <<source, tier, choice, selections, pending, consented, troubled>>

Prompts == {"source", "source_account", "destination", "account", "effort", "model"}

Waiting == place \in Prompts \cup {"emit"} \/ (place = "consent" /\ pending # {})

\* An answer outside the options, a label that is none, or at any prompt a line that is
\* too long.
InvalidAnswer ==
  /\ Waiting
  /\ troubled' = TRUE /\ Finish("invalid_input")
  /\ UNCHANGED <<source, tier, choice, selections, pending, consented>>

\* End of input at any prompt, or anything but "yes" where consent is asked.
Cancel ==
  /\ Waiting
  /\ Finish("cancelled")
  /\ UNCHANGED <<source, tier, choice, selections, pending, consented, troubled>>

DialogueNext ==
  \/ \E v \in Installed : AnswerSource(v) \/ AnswerDestination(v)
  \/ \E a \in Accounts : AnswerSourceAccount(a) \/ AnswerAccount(a)
  \/ \E e \in EffortsTried : AnswerEffort(e)
  \/ \E m \in Models : AnswerModel(m)
  \/ SkipTier \/ Build \/ Preview \/ ObservationFails \/ Emit \/ InvalidAnswer \/ Cancel
  \/ \E g \in pending : Consent(g)

DialogueSpec == DialogueInit /\ [][DialogueNext]_dialogueVars

-------------------------------------------------------------------------------
(* Properties *)

\* The dialogue never refuses a policy it built itself: it fails only for an
\* answer outside the options or too long, no tier at all, an executable that cannot be
\* admitted or a model label that reads as the task slot.
OnlyTroubleFails == outcome = "invalid_input" => troubled

\* The emitted policy routes each tier exactly where the user sent it, on the
\* account, model and effort he named, and the tiers he skipped nowhere.
ChosenIsRouted ==
  outcome = "emitted" =>
    /\ \A s \in ToSet(selections) :
         LET d == Descriptor(BuiltPolicy, SourceSelector(s.tier), "native_route") IN
         /\ Compiles(BuiltPolicy, SourceSelector(s.tier))
         /\ d.destination.vendor = s.vendor /\ d.destination.account_profile = s.account
         /\ d.target.executable = PathOf[s.vendor]
         /\ d.route.model = s.model /\ d.route.effort = s.effort
         /\ "profile" \in d.changed_dimensions <=> Endpoint(s) # source
    /\ \A t \in Tiers \ {s.tier : s \in ToSet(selections)} :
         ~Compiles(BuiltPolicy, SourceSelector(t))

\* Every crossing the emitted policy authorizes was consented to by name.
CrossingsConsented ==
  outcome = "emitted" =>
    \A s \in ToSet(selections) :
      Descriptor(BuiltPolicy, SourceSelector(s.tier), "native_route").authorizations
        \subseteq {g.id : g \in consented}

\* What is emitted is what the dialogue was about.
EmittedAsAnswered == ChosenIsRouted /\ CrossingsConsented

===============================================================================
