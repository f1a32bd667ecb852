# weightclass in TLA+

`wclass` starts one agent CLI (Codex, Claude Code, Antigravity, Grok) with the
exact command its user reviewed: it selects a route for a tier, prints the
task-free argv and a fingerprint, asks on the terminal or checks the
acknowledged fingerprint, and runs exactly one foreground child, whose status it
owns. The only thing it persists is an opt-in, aggregate-only usage store. These
modules model that behaviour, TLC checks it on small instances, and TLAPS proves
part of it for all of them. Paths are relative to this directory's parent; code is
`src/src/weightclass/*.py`.

## 1. The system

| Component | State | Operations | Talks to |
| --- | --- | --- | --- |
| Foreground child owner (`foreground_process.py`, `wait_owned_child` of `process_context.py`) | the `Popen`, its return code, the SIGINT handler, the errors remembered by a cleanup | `run_owned_foreground`: spawn, write input, wait, clean up | the kernel (fork, kill, waitpid), SIGINT, the child; called by all run commands |
| Usage accounting (`usage_aggregation.py`) | weights, buckets, baseline | `ensure_usage_store`, `set_relative_cost_weight`, `record_usage`, `render_usage_report` | the schema-3 run, `wclass usage` |
| Usage store file (same file) | the store, its `.lock`, temporary files | `_locked`, `_load_store`, `_replace_store` | other `wclass` processes through the file system |
| Schema-1 policy (`router.py`, parsing in `cli.py`) | none (pure) | parse, `select_tier_route`, `native_route_fingerprint` | schema-1 route/run |
| Schema-1 route and run (`cli.py`) | one run in progress | `route_from_standard_input`, `run_from_standard_input` | PATH, executables, policy file, child owner |
| Schema-2 policy, compiler, run (`native_v2_*.py`, `cli.py`) | one run in progress | `_native_v2_route`, `_native_v2_run`, `run_native_v2` | same |
| Schema-3 policy, compiler, run (`native_v3_*.py`, `cli.py`) | one run in progress | `_execute_native_v3`, `run_native_v3` | same, and the usage store |
| Interactive selector (`native_v3_selector.py`) | the answers so far | `run_interactive_selector` | discovery, the schema-3 parser and compiler |
| Process-group anchor (`process_context.py`) | the group's number, the exit observer, `_leader_exited` | `open`, `observe_leader_exit`, `signal`, `close` | the kernel (waitid or kqueue, killpg); offered by the package, called by nothing in it yet |
| Executable observation, agent discovery (`executable_observation.py`, `agent_discovery.py`, the binding in `cli.py`) | none: they look at a file system that others change | `observe_executable`, `_find_executable`, `_observe_bound_legacy_route` | all run commands, the selector |
| Packaged routes, presets, overrides (`cli.py`, `agent_discovery.py`, `examples/*.json`) | none (pure) | the builders of a schema-1 command, `_require_at_most_one_task_slot`, the delivery of the task | schema-1 route/run |
| Task classifier (`classification.py`) | none (pure) | `classify_task_with_reason` | suggestions of schema 1, `wclass classify` |
| Bounded JSON input (`json_input.py`) | an open descriptor | `load_json_object` | every command that takes a policy |
| Task input, canonical JSON | none (pure) | read, order | all commands |
| Command line, help, rendering | none | argument parsing, printing | all |

What is hard in it, and hard to test:

* **Signals against ownership.** SIGINT may land between any two bytecodes of the
  spawn, the wait and the cleanup; the child may exit at any moment and another
  reaper may take its status.
* **Time between review and use.** `route` and `run` are two processes; a review
  waits for a person. The policy file, the PATH and the executables can change in
  between, and right up to the spawn.
* **Several writers and failures on one file.** Concurrent runs record into one
  store; any system call may fail, a process may be killed, the machine may lose
  power, the parent directory may be swapped.
* **Long sequences.** A store that accepted a thousand runs must accept the next,
  a retry must not make a comparison look better, a dialogue must not build a
  policy its own parser refuses.
* **Looking more than once.** A walk over the PATH, an admission check and the reading of a
  document are many looks at files that others install, relink, append to and replace.
* **Edges.** A classifier that reads windows of a text must not lose what lies across their
  edges; a read up to a limit must not return a prefix.

`PROJECT.json` lists these as hazards with their lines and the properties that
cover them.

What makes each component correct:

* *child owner*: nothing leaves while the child lives unreaped; the reported status
  is the child's own; no signal goes to a reaped pid; an interrupt is not swallowed;
  the caller's handler is restored; the cleanup ends.
* *store file*: readers see whole contents; no update is lost; what was acknowledged
  survives a power loss; every operation ends.
* *accounting*: what is written can be read; a figure is shown only when the evidence
  is complete and is then exact; retries only cost.
* *runs*: what starts is what was reviewed, consented to and on the path reviewed; a
  refusal means nothing ran; an unchanged review is honoured; the count of runs is true.
* *group anchor*: a loss that was found stops every later signal; a refused signal is
  reported unless the group's leader is gone.
* *discovery*: what is returned was admissible where the PATH, or the command, led; the first
  steady entry wins.
* *commands*: the model and effort asked for are where the vendor reads them, and the task is
  delivered once.
* *classifier*: danger is high whatever text surrounds it.
* *JSON input*: the whole document or a refusal, of the file that was judged.
* *policies*: one vendor unless mixing was opted into; no crossing without its grant;
  a compiler that does not raise on what the parser accepted.

## 2. The modules

| Module | Models | Composed of |
| --- | --- | --- |
| `OwnedChild` | `run_owned_foreground`, `_cleanup_owned_child`, `_DeferredSigint`, `wait_owned_child` | |
| `UsageLedger` | the content of the store: validation, promotion, `record_usage`, report, onboarding, as operators | |
| `UsageAccounting` | the store under the three commands that touch it, and the books of an auditor who sees every run | `UsageLedger` |
| `AtomicStore` | what the store promises: updates take effect at once and are acknowledged afterwards | |
| `UsageStoreFile` | the lock/load/write/rename/sync protocol of several processes | implements `AtomicStore` |
| `LegacyPolicy` | schema-1 policies, tier selection, vendor boundary, posture | |
| `LegacyRun` | schema-1 `route` and `run` of policy files, presets, overrides and default routes | `LegacyPolicy` |
| `NativePolicyV2`, `NativePolicyV3` | the parsers' rules and the compilers | |
| `NativeV2Run`, `NativeV3Run` | `route` and `run` of those policies | the policy modules |
| `Selector` | the dialogue of `wclass select` | `NativePolicyV3` |
| `ProcessGroupAnchor` | `ProcessGroupAnchor` and the leader-exit observers of both platforms | |
| `ExecutableDiscovery` | the walk over PATH, the binding of a command, `observe_executable` | |
| `RouteArgv` | how a schema-1 command is put together, parsed and given the task | |
| `TaskClassifier` | `classify_task_with_reason` over texts of typed words | |
| `BoundedJsonInput` | `load_json_object` up to its parsing | |
| `*Proofs` | theorems of the module of that name | the module and TLAPS; `AnswersProofs` and `LooksProofs`: the modules that `MCAnswers` and `MCLooks` have |
| `MC*` | instances for TLC | the module of that name; `MCAnswers`: `TaskClassifier`, `RouteArgv`, `Selector`; `MCLooks`: `BoundedJsonInput`, `ExecutableDiscovery`, `ProcessGroupAnchor` |

An action is one handler, or one step of a handler where another party (SIGINT, the
child, another process, an editor of a file) can come in between. `pc` or `place`
names where the code is; each `map` entry of `PROJECT.json` gives the lines. A variable
marked *history* does not exist in the program: it records what a property needs to
look back on. Operators marked *seeded fault* are plausible bugs used to test that the
properties can fail; no specification uses them.

### OwnedChild

`owned` is "`process` is not None", `child` and `status` the kernel's view,
`collected` what waitpid returned before it is stored into `returncode`. `handler` is
whose SIGINT handler is installed; a SIGINT is either recorded (`SigintDeferred`) or
raises KeyboardInterrupt where the code is, and the five other `Sigint...` actions say
what that means there. The cleanup's control flow is in the tables `AfterTimeout`,
`AfterKill`, `AfterGone`, `AfterSent`, `AfterError`. `retried` is the KeyboardInterrupt that
`_retry_cleanup_interrupts` keeps to itself while it calls an operation again from its beginning: it
reaches `firstError` if the operation returns and is forgotten if it raises. An interrupt outside that
helper's `try` is remembered by the `except BaseException` around the operation, and the cleanup goes on;
one between two operations, or out of the final wait, starts the cleanup again.

Abstractions: Python-level signal handling means an interrupt lands between two model
places and a handler's body is atomic; a caller whose SIGINT disposition is SIG_DFL is
left out (CPython installs a handler that raises); waitpid errors other than ECHILD are
left out; a child that SIGKILL cannot end is excluded by fairness. An OSError of the final wait, which re-raises, is left out for the same reason as
the waitpid errors. An exception that an interrupt displaces while it is being raised is not told apart from
one that was never raised.

### UsageStoreFile and UsageLedger

The file protocol sees a content as the set of updates in it; the ledger sees one
atomic update. `solid[d]` is the set of contents a power loss may leave in directory
`d`: a rename that was not followed by a directory fsync may or may not survive, and a
written but not fsynced file may be torn. `fd[p] = current` is `_revalidate_parent`.
Any step may fail (`StepFails`), the process may be killed (`Killed`: the kernel drops
its flock), the unlink of the temporary file may fail too. The directory is there from the start: that
`ensure_usage_store` may create it and its parents (usage_aggregation.py:558), whose own entries nobody
fsyncs, is left out, so `AckedIsDurable` says nothing of a power loss that takes a new directory with it.
`Written` stands for a payload that passed the byte limit; a payload that does not is one of the `StepFails`.

In the ledger micros and counters are small integers with the code's limits
(`MaxCounter`, `MaxBuckets`, `MaxWeights`, `MaxEntries` for the byte limit of the file);
`Scale` stands for 1.000000.

### The run modules

A fingerprint is represented by what it binds (the digest is taken as injective): in
schema 1 the policy's options, route and, if bound, the observation; in schema 2 the
descriptor; in schema 3 the descriptor and the observation. An executable's observation
is a number that changes when the file does; 0 is "missing or not admissible".
`shown` is the set of reviews the user has seen, by `route` or on the console; an
acknowledgement is one of them, which is how a user comes by one. `raced` records that the
executable (or the PATH) changed after the run last looked at it: the window between the
last lstat and exec, which the code documents as residual. `Spawn` starts whatever is
there then, admissible or not.

`LegacyRun` follows the order of `run_from_standard_input`: suggestion gate, argument
gates, policy, acknowledgement gate, process context, task, selection, resolution,
binding, acknowledgement, review, refresh or second observation, spawn. Each run reads the
task's suggested tier and whether its argv would carry a NUL. Posture and packaged
policies only differ in the routes and options they carry; the routes that a preset or an
override relabels are the constant `VendorRoutes`.

`NativeV3Run` adds the store: `resolve_usage_store` before the child, `record_usage`
after it, with a store that others create, break and remove. `ledger` counts the
task at hand, `due` what it should have been, and `doubtful` marks a run that ended in a
way that leaves the user without knowledge of its record: an interrupt, a lost status or
a failed record. The rework and escalation flags differ for the gate only in
name, so one flag stands for both there.

`NativePolicyV2` and `NativePolicyV3` use sets where the code has canonically ordered lists;
`Authorizations` is the set of grants that the compiler looks up, one
`next(...)` each. In schema 2 these lookups have no default, so `Compiled` picks from the
set `Ways` and a run with no descriptor would end outside the documented diagnostics.
The byte and character rules of labels, the malformed files, and in schema 2 the upper limits
of lists are left out.

### Selector

One action per prompt. A label that reads as the task slot (`"{{task}}"`) is kept, because
the compiler refuses it; an executable the observer refuses is an `OddPaths` member.
`Installed` is never empty: without an agent the command ends before its first prompt.

### ProcessGroupAnchor

The owner's calls, split where the kernel is asked (`Register` and `Waitable` in `open`; `Begin`, `Look`,
`LookTooLate` and `Kill` for observing and signalling; `Poll`; `Close`), against a
leader that exits, members that stay, a foreign reaper, the reuse of the number by a
`stranger` and an `event` that arrives late. `platform` is `waitid` or `kqueue`, as
`os.waitid` decides. `proved`, `knew` and `lostAtCall` are history: what the anchor has
found out, what it knew, and what was so, when the call began. A look of `Waitable` that fails for any
reason counts as a loss, as in the code, though the leader may still be a zombie of ours. The short window in which a
refused signal waits for the exit event is `MaxPolls` looks.

### ExecutableDiscovery

A path is a sequence of names, the file system a function from locations to files,
directories and links, which `Edits` change between any two looks (lstat, realpath, islink, readlink, stat,
the lexical and the resolved ancestors). `Walk` takes a path name by name and link by link (`Turn`), up to
`MaxSteps`, which stands for the kernel's limits on links and lengths. It says where a path leads and whether the
kernel gets there: `RealPath` is the first, as `os.path.realpath` goes on by name, `Behind` needs both. The binding's loop joins and
normalises by name, as `os.path.normpath` does; so does `LexicalParent`, the `abspath` of the file's directory, which
for an entry with `..` behind a link is not the directory the kernel looks in. A file's mode stands for what
admission asks of mode, owner and group together; ownership and group trust are not told
apart. A look is one step even where it makes several system calls: `realpath` reads one link after
another, and a chain of ancestors is one lstat for each directory, which others may change in between. `seen` is history: the file systems there have been during the walk.

### RouteArgv

`Compose` builds the command of one request (packaged, preset, generated by `profile`, or a user's file),
`Parse` reads it where the code parses, `Deliver` makes the run's argv and standard input. Arguments are
sequences of the pieces the code looks for, so that an embedded task slot, a joined config value
and a label that begins with a dash are different things; options that no code looks at are one
argument. `Meant` says where each vendor reads a model and an effort, apart from the
builders' insertions.

### TaskClassifier

The task grows word by word (`Write`). A word has a kind, which is what one pattern or one part of a
pattern matches, and two places: in the normalized task and in the task with runs of
whitespace folded. A window sees the words that lie wholly in it. `Candidates` are a window's
matches from left to right: one begins at every word that the matches before it have not gone
beyond. Which words of which language
make a kind is left out, and so are patterns within a word.

### BoundedJsonInput

One step per system call; a byte is its writer's mark. A read may be short or interrupted at any
size. `whole` is history: what the file held when the reader saw its end. Parsing
accepts or refuses arbitrarily. `strict` is the check that nobody else can write.

## 3. The runs

| Run | Question | Bounds |
| --- | --- | --- |
| `owned_child` | Does every call settle its child, tell the truth about its status (a loss included), aim no signal at a reaped pid, deliver the input, restore the handler and surface interrupts? Does the cleanup end? | input of 2 units (a short write, a rest), 4 SIGINTs (one in the run, one that prevents arming, two in the unarmed cleanup), a foreign reaper, os.kill refused |
| `owned_child_window` | **Violation**: a SIGINT right after `except` is entered skips the cleanup | 2 SIGINTs |
| `usage_accounting` | Are runs refused only at a limit and the store readable after every update, are figures exact, does guidance agree with the verdict, does a retry only cost? | 3 runs, weights 1 and 2 (below and at the scale), counters to 5 and 2 buckets so that every limit is hit; starts fresh or from a promoted store |
| `usage_promotion` | **Violation**: new evidence does not end the abstention of a promoted store | same |
| `usage_store_file` | Torn contents, lost updates, undone acknowledgements, locks and files left behind, reports about a swapped directory; is the protocol atomic until somebody swaps the parent, and does every operation end? | 2 processes of 2 operations, 2 failures, kills or power losses, 1 swap of the parent |
| `native_v3_run` | Reviewed = run; refusals ran nothing and read no task before the last gate; counts are true | 4 policy contents (with and without a crossing, one refused by the parser), 1 edit, 1 executable change, 1 store change, 2 runs |
| `native_v3_codes` | **Violation**: `executor_failed` for a command that never started | same |
| `native_v2_run` | Reviewed = run; crossings granted in their direction; unchanged reviews honoured; no lookup raises | 3 policies (staying, crossing either way), 2 changes, 1 review, 2 runs |
| `legacy_run` | Reviewed = run, on the path the PATH leads to; unchanged reviews honoured; one vendor per unmixed policy | 4 policies, 8 requests over the four kinds, 1 change, 1 review, 2 runs |
| `answers` | Dialogue: are the policies it builds accepted by their parser, routed as told, and every crossing consented to? Commands: do they say what was asked and deliver the task once? Classifier: is danger high, and is duplicated work that is described once? | 3 vendors, 2 accounts, 2 efforts, 2 model labels, all 3 tiers; 7 kinds of labels, at most two together, all four vendors and ways, file commands of up to 3 arguments; 4 signals in any order, outcomes that begin around every edge of the first three windows, with words at each pattern's reach and one past it |
| `answers_slots` | **Violation**: an override that is the task slot is delivered twice | same |
| `looks` | Walk over the PATH: does the first steady entry win, and was what is returned admissible? Document: is it whole, and of the file that was judged? Group: does a loss that was found stop signals, and is every refusal judged? | 4 PATH entries: two with the tool as a file of every mode, a directory and links of both kinds, one behind a directory link that may be turned, one that climbs from it with `..`; 2 commands (through the link, and with `..`); 2 changes, which install, remove, relink and re-permit the tool, its package, the directory and the link, or put a file where the directory was; limit and chunk of 2, files of up to 3 bytes, 2 files and 2 byte marks (symmetric); both platforms, 2 looks in the window, calls in any order until a close, a foreign reaper |

`answers` and `looks` each check three components that share no state. `MCAnswers` and
`MCLooks` extend the three modules, whose specifications have names of their own
(`ClassifierSpec`, `CommandSpec`, `DialogueSpec`; `DocumentSpec`, `WalkSpec`, `GroupSpec`), and join
the three state graphs: an initial state is one of some part, the other two rest there, and only that part
moves. So the run costs the sum of the parts, not their product, and a property of one part
is trivially kept by the others' behaviours.

Two runs are what a question about two runs needs: a retry after a failure, two tiers
through one policy. A change may fall anywhere: before the review, between review and run,
and between any two steps of the run. Schema 3 allows one change of each kind (policy,
executable, store), schema 2 two changes of either kind, so that a change before the run can
be followed by one inside it; schema 1, whose PATH, links and binding make the space larger,
allows one, and its theorems cover any number. Two processes are enough for a
lock that one holds. The fourth SIGINT in `owned_child` can follow one that a retry has kept;
further ones repeat the unarmed loop. A chunk as large as the limit makes a full read, a short
one and the extra byte each happen; a limit of 2 has an inside. The texts of the classifier use the code's own
window (1200), overlap (400) and reaches, so the edges are the real ones. Two changes of the file
system are one before a look and one after it. What a result adds up to (`FoundWasAdmissible`) is stated for
any number of changes at one place, be it the file, a link that leads to it, or the permissions of a directory above it,
while nothing above the file is replaced. Both conditions are needed. Changes at two places can undo one flaw
and bring another between two looks; and a single turn of a directory link between the look at the file and
the look at its real parent judges the file of one directory and the ancestors of the other. No check
short of an open descriptor could prevent that.

Action properties and invariants that say only what a constant or a single assignment says are not
stated. Each property has at least one seeded fault in the code's definitions that breaks it.

`CHECK_DEADLOCK FALSE` is set everywhere because each model ends: a call returns, the
bounds are spent, or the dialogue is over.

**Fairness.** `OwnedChild`'s `FairSpec` assumes that the parent thread keeps running
(weak fairness of its steps: it blocks only in waits) and that a child that was sent
SIGKILL dies. Nothing is assumed of a child that was not, nor of SIGINT: where the signals were
refused or interrupted (`StuckUnkilled`), `CleanupTerminates` lets the cleanup stay in its last,
unbounded wait.
`UsageStoreFile`'s `FairSpec` assumes that a process in an operation keeps running unless
it is killed, and nothing about who starts operations. flock is not assumed to be fair:
with a bounded number of operations a waiting process is not overtaken forever, and that
bound is what makes weak fairness enough.

### What the violations show

1. `InterruptedRunIsReaped`: between `except BaseException` (foreground_process.py:273)
   and `cleanup_sigint.arm()` (282) the caller's handler is installed; a second SIGINT
   leaves the function with the child running. The test suite says a second interrupt is
   deferred until kill and reap. All other properties of `OwnedChild` except the
   reaping itself hold through that window, which `SettledBeforeExit` therefore names.
2. `NewEvidenceEndsAbstention`: README.md:617-619 promises that a promoted store abstains
   until new evidence accumulates. Its old tasks never get a baseline, so it abstains forever.
3. `FailedMeansStarted`: README.md:251-254 separates "could not be started" (4) from
   "started and exited non-zero" (7); schema 3 reports a failing Popen as 7
   (cli.py:1896).
4. `EveryTaskDeliveredOnce`: an override's label may be `{{task}}`, and an overridden packaged route is
   not parsed (cli.py:408-417), so its child gets the task twice, which
   docs/argv-task-delivery-design.md:75 excludes. `TaskDeliveredOnce` states the same of every command that is parsed.

Four more disagreements were noted while modelling; no run checks for them, and the property
named says what does hold.

* The comment on `_scan_windows` (classification.py:642) says that no description across an edge
  disappears. `_has_duplicate_work_outcome` (666) takes a window's matches from left to right without
  overlap, so the window's beginning decides what a first match takes in, and a real
  description may be left. `LoneDuplicateIsHigh`: a text with one place where a description can begin.
* README.md:353-354 says the binding resolves the final symlink. It joins a relative target by
  name (cli.py:792), which differs from the kernel's answer when a directory of the command is a
  link and the target climbs with `..`. `FoundWasAdmissible`: whatever is found was admissible itself.
* docs/security-performance-followup.md:205-208 says ownership is verified before every
  numeric signal; after the exit was observed once, `observe_leader_exit` asks no more
  (process_context.py:365). `LossStopsSignals`: a loss that was found stops every later signal.
* The same lines say a loss cannot become apparent success; where `waitid` exists, the loss
  found in `open` carries no errno and skips the mark (process_context.py:350), and `Popen.poll`
  answers 0. `LossStopsSignals` excludes this on the kqueue platform. Nothing in the package
  uses the anchor yet.

## 4. The proofs

Every safety property that a passing run checks is also a theorem, for all values of the constants. All are invariance proofs (one is a refinement, two are of action properties) under the
modules' named assumptions, which say what the constants are (sets, numbers, well-typed routes) and
are evaluated by TLC.

* **`OwnedChildProofs`**: `TypeCorrect`, `AlwaysSettled`, `StatusAlwaysTrue`,
  `ReapedIsNeverSignalled`, `DeliveryIsExact`, `InterruptsSurface`, `HandlerAlwaysRestored`: every
  safety property of the run, for any input length and number of SIGINTs. None of
  these is inductive: whether the cleanup may send a signal depends on what has been learnt
  about the child. `Safe` adds *Ownership* (when `process` is assigned), *Knowledge*
  (`collected` and `returncode` are the kernel's status), *Progress* (a place that sends a
  signal has just seen the child unreaped; a place after the cleanup has it gone),
  *Deferred* (where the handler is the caller's), *Delivery* (what was written and what is
  left add up to the input) and *Interrupted* (an interrupt not yet raised is remembered by
  the deferral, by the error in flight or by the result).
* **`UsageStoreFileProofs`**: `StoreIsNeverTorn`, `AcknowledgedIsDurable`, `NoLostUpdate`,
  `ReportsAreInPlace`, `NothingIsLeft`, and `StoreIsAtomic`: until somebody replaces the parent
  directory, the protocol implements `AtomicStore`. The invariant has who holds
  which directory's lock and that two never hold one (*Locking*), what each place of an operation
  knows of its descriptor, its lock, its temporary file and what it loaded (*Local*), and that every content
  that is on a disk, or may be there after a power loss, is whole and has every acknowledged update
  (*Stored*). The simulation maps the rename to the abstract update and the report to its
  acknowledgement; every other step is a stutter. A swap of the parent has no atomic
  counterpart, so the refinement says nothing of steps after one; the invariants hold through swaps.
  That nobody has swapped yet is used through one more invariant, *Untouched*: where the path has not
  led yet, nothing is stored.
* **`UsageAccountingProofs`**: `BooksAreExact`, for any weights, limits and number of runs, fresh or
  promoted: the sums over the store's buckets (cost, unweighted runs), its counted tasks and its baseline
  are what an auditor who saw every run noted down, and the store is one its own validation accepts. From it:
  `LimitsAreTheOnlyRefusal`, `FiguresAreHonest`, `GuidanceIsConsistent` and the action property
  `RetriesCostExtra`. The invariant is `Audited`. What a recorded run adds is one lemma per sum
  (`SumUpdate`: a function that differs at one point); that a cost stays one the counted runs can have
  is `FeasibleAdds`. The sums are folds, defined by recursion;
  their existence is proved here, see below.
* **`NativeV3RunProofs`**: `RunsAreReviewed`, `RefusalsLeaveNoTrace` and `TasksAreAccounted`. The
  strengthening follows a run: what the static gates established, what the review showed, that the
  identity is the observed one unless `raced`. For the accounts, `Books` relates the
  ledger to what is due, and the rework flag to the hint that was printed.
* **`LegacyRunProofs`**: `OneVendorWithoutMixing` (selection stays with one vendor),
  `RunsAreReviewed`, `OneVendor`, `PathIsFollowed` (an action property) and `ReviewsAreHonoured`. The
  invariant of the first relates route, policy and observation of the run in progress to the
  fingerprint acknowledged or shown (*Seen*) and to the PATH at the last look (*LastLook*). That of the last,
  `Honoured`, says that a review made since the last change is what `route` would print now (*Fresh*), that
  as long as there is such a review the run's policy and resolution are the ones in force (*Current*), and
  that the route is the one its tier selects (*Picked*).
* **`NativeV2RunProofs`**: `CompileNeverRaises` (each selector that one route serves has exactly one
  descriptor, so no `next` runs dry), `RunsAreReviewed`, `CrossingsAreGranted` and
  `ReviewsAreHonoured`, whose invariant `Honoured` adds that a review made since the last change is of a
  descriptor the file still compiles to.
* **`AnswersProofs`**, in four parts.
  * *Classifier*: `DangerIsAlwaysHigh` and `LoneDuplicateIsAlwaysHigh`, for every text. Both rest on
    `Placement` (words lie in the text in order, are no wider than their kind allows and have at most one space
    between them). An outcome's words span less than the overlap, so the last window that begins at
    or before the first word sees all of them; and where a description can begin at one place
    only, the window that sees it has no earlier match to take its words away.
  * *Policies*: `ValidPolicyCompiles` (the compiler's own checks never refuse a
    parsed policy, save for a model label that is the task slot) and `NoIdleGrant` (each grant
    serves some crossing of a compiled route).
  * *Dialogue*: `OwnPolicyIsAccepted` and `PolicyIsAsAnswered`. The invariant `DialogueInv` says what has
    been answered at each prompt, that the selections are those of the tiers in order, and of which
    tier the pending one is. From it: the ids built are unique (the numbering of equal endpoints), the
    grants are exactly those of the crossings, and the limits hold; so `ValidPolicyCompiles` applies.
  * *Commands*: `CommandsSayWhatWasAsked` and `TasksAreDeliveredOnce`, for all labels, file commands and tasks:
    the builders' insertions put model and effort where the vendor reads them and nowhere else, and no part of
    a built command is, or hides, a task slot. `CommandInv` adds that what was parsed has at most one slot.
* **`LooksProofs`**, in three parts.
  * *Document*: `DocumentsAreNeverCut` and `JudgedIsRead`, for every limit, chunk and set of
    files: until somebody rewrites the file, what has been read is a prefix of what it holds.
  * *Walk*: `SteadyEntriesWin`, for every PATH, file system and sequence of changes. `WalkInv` says that the
    walk has not gone past an entry that stays as it is, and what the looks at that entry have learnt so far
    (*Learnt*); all it uses of resolution is that where the kernel gets, it gets to the real path.
    `FoundIsAdmissible`, for every PATH, command, file system and number of changes at one place, rests on
    two parts. The first is a theory of resolution (*Where names lead*): a real path has no link on it and is no longer than
    the limit (`RealPathIsClear`); a path with no link on it leads to itself (`ClearIsStraight`); on two
    file systems with the same links every path leads the same way (`SameWalk`). The second is `AdmissionInv`: each
    look that passed, passed on some file system that was seen, and each link followed was followed as it was
    on one. `AdmittedAtOnce` makes one file system of the several. If the changed place is a
    directory throughout, all of them resolve every path alike, and one of the two on which the chains of directories
    passed will do. Otherwise the place is not above the file (`ChangedIsNotAbove`), so both chains are
    judged alike on all of them (`RejectedAlike`), and the one that will do is that of the look at the file,
    or that of the link that led there.
  * *Group*: `NoSignalAfterALoss` and `RefusalsAreNotDropped`. What the anchor remembers is so: an exit it
    saw has happened, a loss it found ended the observation (*Anchored*).

Induction over data is out of the prover's reach as a rule, since the library's induction theorems take
an operator. Over finite sets there is a way around it: a set of counterexamples has a
smallest one by inclusion (`WFMin` on the strict subset relation). That the recursive sums exist and are sums
(`SumsExist`, `SumTakeOut`), and that a description has a last word (`LastWord`), are proved like this. Over
numbers it is the smallest one (`FirstNumber`): that the recursive functions of `Walk` and `NormPath` exist
(`TurnsExist`, `NormsExist`), and what holds at every turn of a walk (`TurnsAreClear`).

What the proofs changed in the models: they turned up a CASE of `ProcessGroupAnchor` whose
arms overlapped, an environment step of `LegacyRun` (`Relink`) after which two links in a chain could
end at different files, a promoted store that validation would have refused at the start of
`UsageAccounting`, and the turned directory link of section 3, which the instance had left out. Of
`ExecutableDiscovery` they also found that the parent was not normalised as `abspath` does
(executable_observation.py:63), that where a result came from had been said of one file system, which is false of a
binding whose links are followed one by one and joined by name, and that a directory on the way can be replaced by a file, which
`os.path.realpath` passes over and the kernel does not. `FoundWasAdmissible` says what is true of those,
and no longer stops at two file systems. `Candidates`, `Walk`, `NormPath` and the selector's numbering were
rewritten to forms that can be reasoned about; TLC found the first two equal to the former ones on every state of their runs
when that was done. `Walk` has since become a count of turns, so that its limit includes names as well as links.

Model-checked only: the two liveness properties, since the prover does not handle fairness and ENABLED.

## 5. Not modelled

* the ctypes view of the SIGCHLD disposition: the layout of a C structure per platform;
* the word lists and regular expressions of the classifier as such: data, and a claim about them is a
  claim about languages;
* the JSON grammar, the character and byte rules of labels, the canonical bytes: pure
  functions of their input that refuse before anything changes; fingerprints are taken as injective;
* the size rule and the UTF-8 round trip of the task: one refusal;
* argparse's grammar, help, lazy imports, the text of reports and reviews;
* the sums of a report that pass the counter limit (usage_aggregation.py:762): a refusal of the
  report with no change of state (`Renders` in `UsageLedger`); nothing promises otherwise;
* packaging, tests and the evaluation harness.

## 6. Plan

Done, in this order: the child owner; the store file and its abstract
specification; the accounting; schema 3 (policy, run, selector); schema 1; schema 2; then the
classifier, discovery and binding, the bounded read, the schema-1 commands and the process-group
anchor; the proofs of section 4, with the store's refinement last.

Left:

1. A composition of `NativeV3Run` with `UsageStoreFile` for two runs that record at once. Today the run
   sees one atomic record that may fail, which is what `StoreIsAtomic` justifies until the parent
   directory is replaced.
2. Proofs: the theorems of the composition of item 1.
3. Ownership and group trust of an executable as parts of their own in `ExecutableDiscovery`.
