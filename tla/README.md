# Borechestrator: TLA+ models, checks and proofs

Borechestrator drives coding agents ("hats") by events: a controller routes the
events of a run to the hats whose triggers match, runs one job per hat on a
runtime (local process, Docker, Kubernetes pod), turns what the jobs print or
emit into further events, and goes on until a completion event, a limit or a
failure ends the run. Rust, nine crates under `src/crates/`.

Paths below are relative to `src/crates/` unless they start with `src/`.

1. Inventory
2. Modules and how they correspond to the code
3. Runs: what is checked, bounds, fairness
4. Proofs
5. What the runs found
6. Abstractions and what is not modelled
7. Plan

---------------------------------------------------------------------------

## 1. Inventory

| Component | Code | State it keeps | Operations |
|---|---|---|---|
| Topics | boring-proto/src/topic.rs | none | `matches`, `specificity` |
| Events | boring-proto/src/event.rs | none | `new`, `system_completion`, `is_completion`, `is_system` |
| Configuration | boring-proto/src/config.rs | hats, event loop limits, gates | parse, `validate`, `backend_command` |
| Event router | boring-controller/src/event_router.rs | the hats | `route`, `route_with_state` |
| Reconciler | boring-controller/src/reconciler.rs | counters, activations, active jobs, seen events | `run`, `resume` (`run_inner`) |
| Checkpoint store | boring-controller/src/checkpoint.rs | `<run>/checkpoint.json` | `save`, `find_latest` |
| Output parser | boring-controller/src/output_parser.rs | scanner state | `parse_output` |
| Memories | boring-controller/src/memories.rs | `<run>/memories.json` | `append`, `load` |
| Tasks | boring-controller/src/tasks.rs | `<run>/tasks.json` | `add`, `update_status`, `load` |
| Job builder | boring-controller/src/job_builder.rs | the run's prompt, prompt files | `new`, `build` |
| Backpressure | boring-controller/src/backpressure.rs | none | `run_gates` |
| Broker | boring-broker/src/nats.rs | the stream of a run, a subscription's channel | `publish`, `subscribe_all` |
| Stores | boring-store/src/local.rs, s3.rs | keys and bytes | `get`, `put`, `delete`, `list` |
| Runtimes | boring-runtime/src/local.rs, docker.rs, k8s.rs | handle tables | `create_job`, `wait_job`, `cancel_job` |
| Secrets | boring-secrets/src/*.rs | none | `get_secret` through a chain of providers |
| Agent | boring-agent/src/main.rs | environment, clone, emit file | connect, clone, materialize, run, sync back, publish, commit, push |
| Agent git | boring-agent/src/git.rs | clone, remote branches | `clone_and_checkout`, pre-push hook, `push` |
| Agent workspace | boring-agent/src/workspace.rs | files under `.boring/` | `materialize`, `sync_back` |
| Emit tool | boring-agent/src/bin/emit.rs | the emit file | one line per call |
| Command line | boring-cli/src/ | an inline prompt's file | `run`, `run --continue`, `emit`, `status`, `logs`, `validate`, `init` |
| Hooks, human interaction, metrics | hooks.rs, human.rs, metrics.rs of boring-controller | none | not reached by the loop, or controlling nothing |

How they interact:

- The CLI builds broker, store, runtime and secrets for a configuration and
  hands them to one `Reconciler`, which is a single tokio task.
- The reconciler subscribes to the run's subject, publishes the starting event
  and then loops: take an event, route it, create the jobs of the whole batch
  (phase 1), wait for them one by one in the same order (phase 2), publish what
  they produced, persist their notes, perhaps write a checkpoint.
- Beside it run the jobs of the batch. A local or Docker job talks to the
  controller through its exit status and its stdout only. A pod runs
  `boring-agent`, which publishes its events to the broker itself, before the
  controller knows that the job is over, and reads and writes the same store.
- An operator may publish into a running run with `boring emit`.
- What outlives the controller process: the stream, the store, and jobs that
  were running.

Behaviours that are hard, and the properties that make each part correct:

| Part | Hard because | Must hold |
|---|---|---|
| Matcher | both sides may end first; `>` may stand anywhere | its answer is the meaning the comments give; it always returns |
| Router | sort by score over a map with arbitrary order; limits read once per event | most specific first; a hat never exceeds `max_activations` |
| Reconciler, phase 1 | budget tested per batch; gates, builds and runtimes fail half way through a batch | bounded overshoot; every exit known; no hat twice at a time |
| Reconciler, phase 2 | the first job's events are published while others run; one failing job of several | jobs of a batch all awaited; failures counted in a row; events in order and numbered without gaps or repeats; a hat sees the notes of the hat that woke it |
| Stream | controller, agents and operator all append | each event acted on once, in the order published |
| Timeouts | race with a late event | an event that is there wins |
| Checkpoint, resume | the record is older than the stream; delivery starts at the new subscription | nothing started twice, the starting event once, checkpoints never go back |
| Broker, subscription | a bounded buffer, a task and a bounded channel between stream and loop; connections break | what arrives is handed on once, in order, in the end |
| Output parser | first marker of a line decides; two looks for the promise that strip differently | events are those the conventions name, numbered without gaps |
| Notes | each is a read, a change and a write of a whole file, any of which may fail or be cut short | a list is what was written for it, in order |
| Workspaces | pods of a batch copy notes out and back over one store | own notes are kept; without overlap all are |
| Agent | sync back, publish, push in sequence, each may fail; push retries with rebase | an event is heard only of a stored workspace; a failed pod has pushed nothing; a push is given up only to rivals |
| Runtimes | waits and cancels race for one table entry, docker's with the lock given back in between; a pod's handle is run and hat only; polling against deletion | each waiter hears of its own job, and hears in the end |
| Hat command | a shell wrapper guesses from a file whether its AI spoke; lines are skipped, and each step may fail | what can be heard is heard, in order; a hat with a default never leaves the run silent |
| Stores | a listing takes many steps while keys come and go | all that was there throughout, once and in order, and nothing that never was |
| Job builder, secrets | three rounds of variables over each other; providers that fail | no job without its secrets; agent and controller meet; hats that share a branch do |
| Command line | processes in one directory, a search over files being written | what is continued was saved as a whole; a new run is nobody else's |
| Presets | a graph of hats and default publishes | every hat can be woken; completion stays in reach |

`PROJECT.json` lists every component with its status, and every hazard at its
line. Where a property would catch the hazard going wrong it is named. Where the
code does fall into it (two pods that write one file back, a scratchpad that is
replaced, a log that is parsed for markers, and so on), no property forbids what the
code does: a note says so, and says where the model shows it. Properties about the
same state are then stated for the cases that remain.

## 2. Modules and how they correspond to the code

```
Topic ── TopicScan ── MCTopicScan
  │          └── TopicScan_proofs
EventRouter
  ├── EventLoop                 the abstract specification of a run
  └── Reconciler ──implements──> EventLoop
        ├── MCReconciler
        └── Resume ─┬─ MCResume
                    └─ Reconciler_proofs    the loop, and continued runs

PodJob   <──implements── Agent ── MCAgent, Agent_proofs
JobRuntime <──implements─┬ K8sRuntime ── MCK8sRuntime, K8sRuntime_proofs
                         └ ChildRuntime ──┬── MCChildRuntime ── ChildRuntime_proofs
                             HatCommand ──┘
KeyStore <──implements─┬ LocalStore ──┐
                       └ S3Store ─────┼── Services ── MCServices, Services_proofs
                      Subscription ───┘
OutputParser, Notebook, Workspace ────── Notes ── MCNotes, Notes_proofs
Launch, JobBuilder, Presets ── PresetRun ── Commands ── MCCommands, Commands_proofs
```

Four abstract specifications say what a part promises to the part that uses it:
EventLoop (a run, to its user), PodJob (a pod, to the controller), JobRuntime
(a runtime, to the controller) and KeyStore (a store, to all). `Reconciler`
has jobs, pods and notes in this form.

MCChildRuntime, Notes, Commands and Services put several modules into one
specification: a variable `part` says which of them a behaviour is of, the next-state
relation has one disjunct per part, the variables of the others keep the value
they begin with, and a property about one module is guarded by its part. Such a
specification is the union of its parts'; nothing is composed by it. Their
constants are declared with the assumptions the code justifies and the theorems
need, and the MC modules only give them values. Their
properties are conjunctions of the properties of the modules, by subject:

| Run | Property | Of |
|---|---|---|
| TopicScan | `TriggersAreRight` | `MatchesCorrect`, `NarrowerScoresHigher` of TopicScan |
| ChildRuntime | `HeardAsSaid`, `HeardInTheEnd` | `PodsAreHeard` (`Literal`, `InOrder`, `Complete`) and `NeverSilent` of HatCommand |
| Notes | `EventsAsPrinted` | `NumberedWithoutGaps`, `EventsAreThoseEmitted`, `PromiseHeard` of OutputParser |
| Notes | `NotesAreKept` | `ListsAreThoseWritten`, `StatusIsLastUpdate` of Notebook; `NothingLostInSequence`, `DoneIsStored`, `SeesStoredScratchpads` of Workspace |
| Commands | `RunsKeepApart` | `ResumedIsSaved`, `FreshIsNew`, `ContinueFinds`, `OwnPrompt`, `NeverForks` of Launch |
| Commands | `JobsAsConfigured` | `SecretsOrNoJob`, `AgentFollowsConfig`, `AgentRunsCommand` of JobBuilder |
| Commands | `PresetsAreLive` | `EveryHatWakeable`, `PromiseInReach`, `OneHatPerEvent` of PresetRun |
| Services | `TakenInOrder` | `InOrderWithoutGaps` of Subscription, the types of all three |
| Services | `ListContract`; `ServicesFinish` | `KeepsPromise` of both stores; `EventuallyTaken`, `TaskEnds` of Subscription |

In MCChildRuntime parts also stand for configurations, bash and docker. What else a
behaviour takes for granted is a variable that keeps its first value: `edge` of
OutputParser, what the configured promise begins and ends with, and `setting` of
Launch, whether processes follow each other or run at once, and whether a file may
be seen half written.

**Topic** has the matcher and the scores as operators. A dotted string is the
sequence of segments `split('.')` yields. `Matches` follows the loop with a
recursive function; `Denotes` is the reference definition, written from the
comments at topic.rs:3-7 as quantifiers over segments.

**TopicScan** is the `while` loop of `Topic::matches`, one iteration per step,
`pi` and `si` being the code's own indices.

**EventRouter** has `Interested` (who `route` returns, as a set), `BelowLimit`
(the filter of `route_with_state`) and `RouteWithState`, the set of orders the
code may return: sorted by best specificity, and arbitrary among equals because
the stable sort starts from the iteration order of a `HashMap`.

**EventLoop** is what a run promises, without batches, gates, counters,
numbering or checkpoints: events are taken one at a time in log order; the
event taken last starts hats that asked for it, each once, most specific first
and none beyond its limit; completion comes only of a completion event; a
timeout only with nothing left to take.

**Reconciler** is `run_inner`, with what surrounds it.

| Variable | Code |
|---|---|
| `pc` | where `run_inner` stands: before line 126 (`start`), at `subscription.next()` (`receive`), in phase 1 (`activate`), at `wait_job` (`wait`), publishing for the job just awaited (`publish`), returned (`stopped`) |
| `result` | the `RunResult`, or `Error` for an early `?` |
| `iterations`, `activations`, `consecutiveFailures`, `globalSequence`, `seen`, `active` | the locals of the same names (`seen_events`, `active_jobs`) |
| `batch`, `pending` | what is left of `hat_ids` and of `pending_handles` |
| `outbox` | the events of the current job still to be published |
| `stream`, `cursor` | the run's subject in JetStream, and how much of it the subscription has delivered |
| `jobs` | every job the run created, with its hat, the event that caused it, its status and output |
| `noted`, `checkpoint` | which jobs' memories, task actions and scratchpad lines are stored; the run's `checkpoint.json` |

| Action | Lines of reconciler.rs |
|---|---|
| `Start`, `StartFails` | 126-133 |
| `StopAtMaxIterations` | 136-138 |
| `TimeOut`, `SubscriptionEnds` | 140-155 |
| `Receive`, `Complete` | 157-166 |
| `GateFails` | 180-202 |
| `CreateJob`, `CreateJobFails` | 204-222 |
| `AwaitBatch` | 225 |
| `JobSucceeded`, `Publish`, `PublishFails` | 229-297 |
| `PersistNotes` | 299-353 |
| `JobFailed`, `WaitFails` | 228, 355-360 |
| `EndIteration` | 364-377 |
| `LocalJobSucceeds` | boring-runtime/src/local.rs |
| `CommandSucceeds`, `AgentPublishes`, `AgentExits`, `JobFails` | boring-agent/src/main.rs; a publish that failed for the pod may have reached the stream |
| `OperatorEmits` | boring-cli/src/commands/emit.rs |

A step ends at each await whose order against the other actors can matter:
delivery, job creation, waiting, each single publish, the group of store
writes. Between two awaits the loop is sequential, so nothing is lost.
Line 172 (`continue` if the hat is active) has no action: `active` is empty
whenever a batch begins, which is an invariant of the proofs; were it not so
the model would deadlock there and every run would report it.

**Resume** adds the crash of the controller process at any step, and
`run --continue`: the locals are reset to the checkpoint's, the subscription
is made again and delivers what is published from then on. Without a checkpoint
a new run starts under a new id, which is a fresh stream.

**Agent** is a pod's `main`, phase by phase, for several pods over one git
remote, one store and one stream. `pc` is the phase, `exit` the process status,
`file` and `emits` the emit file and what is left to publish of it, `remote` the
branches as sequences of commits, `base`, `tracking`, `offer` and the like the
pod's clone, its remote-tracking branch and the push under way. `CloneWorkBranch`,
`CloneBaseBranch`, the hook (`HookRebases`, `HookStopsAtConflict`,
`HookHasNoUpstream`), `BeginPush`, `SendPack`, `PushRejected` follow git.rs;
`Retry`, `Fix`, `Leave` the loop of main.rs:241-281. A push fixes what it offers
before its hook rebases, as git does. `Killed` is the cluster, which ends a pod at
its `active_deadline_seconds` (k8s.rs:98) wherever it stands: a publish or a push
it was in may have gone through. `FailureIsClean` is therefore about pods that fail
by an error of their own; a pod that was ended may have left its commit.

**PodJob** is the pod as the controller sees it: running, then publishing, then
over, on a stream to which others publish too. It stands between two modules: Agent
implements it (`JobContract`, where nobody else publishes), and the steps of a job in a
cluster in Reconciler are PodJob's with their bookkeeping (how events are numbered,
what the log holds). The latter is a matter of definition and no theorem is made of it.

**Workspace** is `materialize` and `sync_back`: each get, list and put a step,
of pods of several hats that may be started again, over one store. A file is the
set of notes in it. The scratchpads of the other hats are read in any order, that
of the listing. Of a listing that failed nothing remains in the workspace, so the
history variable `unlisted` says for whose pod it did.

**OutputParser** is `parse_output`, one line per step, with the else-if chain of
markers as a sequence of which the first that occurs decides, and the second look
for the promise at reconciler.rs:256-269. A line is what the code tells apart: the
set of markers in it, whether anything follows the first, and what stands around
the promise.

**Notebook** is what the controller then writes down (reconciler.rs:299-353,
memories.rs, tasks.rs): per note a get and a put, either of which may fail, a
crash between or during them, and a put that truncates before it writes.

**JobRuntime** is the contract of the trait `Runtime`. **K8sRuntime** is k8s.rs
with the cluster it talks to: `active` is `active_jobs`, `job` what the cluster
knows, `name` and `saw` the locals of `wait_job`. **ChildRuntime** is local.rs and
docker.rs: `children` and `names` are the tables, `child` the process, `command`
what runs under it. In both, a call is one `create_job` with the `wait_job` and
`cancel_job` for its handle, which interleave at each await.

In docker.rs `wait_job` and `cancel_job` look into the table, give the lock back, and
come again to remove the entry: these are steps of their own (`CancelContainer`,
`Forget`). No code in production calls `cancel_job`; the trait's contract is checked
with it nonetheless.

**HatCommand** is what `backend_command` puts around the AI's program, with the
emit file of a pod or the one all local jobs share, and what is made of it. The
wrapper speaks only for a hat that has a default topic (`Speaking`: without one
job_builder.rs:264-268 leaves the variable unset, and config.rs:150 tests it), and its
status is that of its `emit`. The agent goes through the file line by line, passes over
what it cannot publish ("unheard": notes, tasks, empty topics, lines that do not parse),
and may fail at any of its steps; the controller then looks at the output, and
publishes what it finds or the default, of a pod too.

**JobBuilder** has the environment of a job as operators (`ControllerEnv`,
`HatEnv`, `GitEnv`, each over the one before), the chain of secret providers, the
pod's reading of it (`AgentEnv`) with the branch it works on (`WorkBranch`), and a
behaviour that builds and reads one job. `Lowered` is what the builder makes of a
branch strategy, which for `PerHat` is no word the agent knows: `AgentFollowsConfig`
says of the branch that hats that are to share one do, and cannot say the converse.
`Config` and `IsHat` are the types of what it is built from.

**KeyStore** is the contract of the trait `Store` for callers of `list` while
others write. **LocalStore** walks directories with a stack, an entry at a time; a
file that is deleted and created again meanwhile may be met twice, and is then
returned twice (`twice`). **S3Store** pages with a continuation token.

**Subscription** is nats.rs between a publish and the loop: client buffer,
forwarding task, bounded channel, lost connections, and the ends of both: the loop
may return with events left in the channel (`LoopReturns`), and the task ends at the
next event it cannot send (`SendFails`).

**Launch** has `run`, `run --continue`, `status` and `logs` as processes in one
directory: configuration, an inline prompt's file, which may not be writable, the
validation and the connections, the search of `find_latest` over the
checkpoints of all runs, saves that are not atomic and may fail before or after they
truncate, crashes, exit codes. Two processes may continue one run (reconciler.rs:77
asks nobody): the run is `Forked` once both have saved from there, and its
checkpoint then goes back and forth between them.

**Presets** has the twelve presets of init.rs, of which the event loop reads
triggers, publishes, limits and gates; `may` lists what a hat's instructions
tell it to put out. **PresetRun** is `init`, `validate` and `run` with one of
them: an event is taken, the hats it wakes are the `batch`, and each of them runs in
a step of its own. Which hats can be woken, and after which the promise can be heard,
are least sets closed under the links of the graph (`Wakeable`, `Hopeful`).

## 3. Runs: what is checked, bounds, fairness

| Run | Question | Distinct states |
|---|---|---|
| TopicScan | is what the loop returns what the comments say, does the router's reading of a trigger agree, and do scores order triggers by inclusion? | 3,400 |
| ReconcilerLocal | counters, limits, numbering, checkpoints and the contract, with local jobs and failing broker, runtime and store calls | 546,000 |
| ReconcilerCluster | pods and an operator publish beside the controller, and the subscription may break: one job of a hat at a time, each after its predecessor's events and notes, every event since the subscription acted on? Does every step bring the end nearer (`RunWindsDown`)? | 784,000 |
| Resume | crashes, and runs continued that died, gave up or were complete: at most once, in order (`OncePerEventInOrder`), one starting event, checkpoints advance (`CheckpointAdvances`) | 538,000 |
| ResumeStranded | does a continued run receive everything in its stream (`NothingStranded`)? No: the run is expected to find a violation | |
| AgentJobs | does every step bring a pod nearer its end (`PodsWindDown`), and do pods keep `PodJob`, whatever fails or ends them in whatever phase? | 75,000 |
| AgentPush | three pods race for one branch: who gives up, and to whom? | 249,000 |
| K8sRuntime | is each waiter told of its own job, and told at all, while requests fail, calls are cancelled and jobs deleted? | 213,000 |
| ChildRuntime | the same of bash and docker children; and is what an AI emits heard, or its silence answered, through wrapper, agent and controller? | 330,000 |
| Notes | are events numbered as printed, lists and statuses as written, and scratchpads kept by pods side by side, whichever of their calls fail? | 1,994,000 |
| Commands | do processes in one directory keep their runs apart, are jobs built as configured, and are the presets live? | 1,985,000 |
| Services | do both stores list what is there while others write, and is the loop given what arrived, in order, or its task ended? | 72,000 |

ResumeStranded is the one run that ends in a counterexample; all others hold.

Bounds, and why they suffice:

- *Hats* (MCReconciler): a planner and two builders. One event wakes a batch of
  two, one through an exact trigger and one through a wildcard (so their order
  is forced); the builders' default event wakes the planner again (so runs
  cycle until a limit); one builder is limited to one activation and the other
  has a gate (so both filters act in the same batch).
- *MaxIterations* 3 to 5: enough for three failures in a row, for a batch that
  straddles the budget, and for a second batch after a reset of the failures.
- *CheckpointInterval* 1 to 3: 1 never skips, 2 and 3 are stepped over by a
  batch of two.
- *Outputs*: silence, notes only, two events at once, a completion the parser
  takes, and one only the second look at reconciler.rs:257-269 finds (a promise
  beginning with `-`, say). In pods: silence, one event, an event followed by
  completion. *Logs*, what the controller finds in a pod's log: nothing, a note, an
  event (ReconcilerCluster); nothing, or a note and the promise (Resume).
- *MaxInjections* 1, *MaxRestarts* 1 or 2: a second restart checks that what a
  continued run saves is itself continued from.
- *TopicScan*: all patterns of up to three segments over a word and both
  wildcards, all subjects of up to four over two words, the empty string on
  both sides. The theorems remove these bounds.

- *Agent*: two pods with every kind of fault on, from an absent work branch, emit
  files with nothing, with a note, a line that does not
  parse and an event, and with an empty topic and completion; three pods and an
  existing branch in AgentPush, because it takes two rivals to exhaust three attempts. MaxRetries is
  the code's own 3.
- *K8sRuntime*: three calls, two of them for one hat, and two faults: a failed
  request for each of two calls, or two in one. *ChildRuntime*: two calls race
  for each kind of child, two faults. *HatCommand*: two jobs, one of a hat with a default
  topic and one of a hat without, and up to two calls of emit of each, so that a line that
  is passed over stands before or after one that is heard.
- *Notes*: all outputs of up to four lines out of eleven kinds, for a bare promise
  and for one that begins with a dash; eight notes in sequence and three
  failures or crashes; two hats started twice each, so that one pod may run while
  the other hat has its second, with gets, puts, listings and commands that fail.
- *Commands*: three processes, as a search can meet one run that is saved and
  one that is being saved, and one fault. Three settings: in turn, all commands with
  one save each; at once, `run` and `run --continue` with one save each; and at once,
  three that continue, with two saves each, so that a run forks and its checkpoint
  goes back. With one save no checkpoint ever does, and the exception for forked runs
  in `ResumedIsSaved` would be out of reach. Configurations with
  every option present and absent; all presets with 6 jobs and two events per job,
  or 16 jobs and one.
- *Services*: two runs' directories, one with a scratchpad below, and three keys;
  a bucket of four keys with pages of two; a client buffer of two, a channel of one and
  four messages, so that both fill, and one lost connection. A key met more often than
  twice counts as met twice.

Pods (AgentPush), workspaces' hats (Notes) and processes (Commands) differ in
nothing but their names and are declared symmetric; these three runs check no
liveness. The hats of the other instances are not interchangeable.

Fairness, and why the code justifies it:

- *Reconciler*, *Resume* (`FairSpec`, `ResumeFairSpec`): weak fairness of the controller's own
  steps, because a tokio task that can run does run; and of each job's steps,
  because a pod is ended by its `active_deadline_seconds` (k8s.rs:98). That a local
  child process ends is an assumption: nothing in local.rs limits it.
- *Agent*: none. Each step brings a pod nearer its end (`PodsWindDown`), and there is
  no deadlock before all are done, so they end unless everything stops.
- *K8sRuntime*: a call goes on without a failure being owed
  (`WF(Step(c) /\ UNCHANGED faults)`), and a job meets its deadline
  (`WF(JobEnds(c))`, k8s.rs:96-98). *ChildRuntime*: as the former; that a child ends
  is owed by nobody, so `AnsweredAtEnd` speaks of children that have ended.
- *HatCommand* (`WF(Handles(j))`): the shell, the agent and the controller go on once
  the AI's program is over, or fail; that it ends is not assumed.
- *Subscription*: the forwarding task receives, and sends or finds that it cannot
  (`WF(Receive)`, `WF(Send \/ SendFails)`), as a tokio task does. Of the loop it is only
  assumed that it does not leave events in the channel for ever without coming back for
  one or returning (`WF(GoOn)`), which is `Termination` of Reconciler: a run ends, and
  while it goes on it comes back to `receive`. That it takes all is not assumed.
- *LocalStore*, *S3Store*: none.

That a call fails, that an operator publishes, or that a crashed run is continued
is owed by nobody and has no fairness.

Deadlock is checked wherever the system cannot really stop short: a stopped run,
a finished call or an ended process has an explicit stuttering step. Resume and
ResumeStranded disable it, since an interrupted run may never be continued and the
restarts are bounded; and Notes, where the pods' rounds are.

Liveness: `Termination` of a run, `RunsEnd` (always again, a run stops
or crashes), `EveryoneAnswered`, `AnsweredAtEnd`, `HeardInTheEnd`, `ServicesFinish`.

Every property of a passing run has a mutant in `PROJECT.json`: an operator
beside the definition it replaces, marked `Mutation:`, that breaks it the way
a plausible slip in the code would.

## 4. Proofs

All proofs are checked by tlapm, for every value of the constants that meets
the named assumptions:

- `TopicAssumption`: patterns and subjects are non-empty sequences of segments, as
  `split` yields. `SubjectsAssumption`: any topic may be an event's; what is needed of
  this is that among the subjects are each pattern's own, its wildcards filled in by
  either of two words, and one segment more.
- `HatsAssumption` and `LimitAssumption` of EventRouter: a finite, non-empty set of
  hats; limits are naturals.
- `ConfigAssumption`, `EnvironmentAssumption`: the configuration and the enumerated
  inputs have the types the code gives them. `RestartsAssumption`: the number of
  restarts is bounded.
- `AgentAssumption`: finitely many pods, at least one attempt. `K8sAssumption`,
  `ChildAssumption`: each call has a hat; finitely many calls.
- Services: `BoundsAssumption` (a page has room for a key), `KeysAssumption` (keys
  are sequences of names), `DirectoriesAssumption` (no file has the name of a
  directory; with one a walk would stop there with an error).
- Notes: `BoundsAssumption`, `LinesAssumption`, `OutputsAssumption` (only tasks have a
  status to update), `HatsAssumption` (finitely many hats, none
  called as one of the common files).
- Commands: `LaunchAssumption` (finitely many processes, settings of their type),
  `BuilderAssumption` (configurations and hats of their type; the word that stands
  for a failure is nobody's value).

TLC evaluates them in every run of these modules. `ContractHolds` of
K8sRuntime has the premise `~Overlap`, a hat has one job at a time, which is
`OneJobHolds` of the controller. `StartsOnce` has the premise that the starting
event is not a system event: `seen_events` leaves those out, so a continued run
would take itself for fresh and publish it again. `LostOnlyToRivalsHolds` has the
premise that the command that fixes conflicts does not fail: where it does, the agent
gives up at once (main.rs:269-277), whoever pushed.

| Theorem | States | Inductive invariant |
|---|---|---|
| `TypeCorrect` (TopicScan) | `TypeOK` | with the indices' relation to each other |
| `MatcherCorrect` | `ScanCorrect` for patterns and subjects of any length | the prefix scanned so far agrees and holds no `>` |
| `TriggersAreRightHolds` | `TriggersAreRight` | as `MatcherCorrect`; lemmas |
| `TypeCorrect` (Reconciler) | `TypeOK` | `TypeInv == TypeOK /\ Control` |
| `BudgetHolds` | `IterationBound` | `BudgetInv` |
| `ThreeStrikesHold` | `ThreeStrikes`: three failures in a row end the run, and those counted are in a row | `EndsOnThree`, `StrikeInv`, with `TypeInv`, `AwaitInv`, `JobsPaid` |
| `QuietStopHolds` | `QuietStop`: no job goes on behind a run that returned without a failure | `AwaitInv` |
| `SequenceHolds` | `SequenceIncreasing` | `NumberInv` |
| `ActivationLimitHolds` | `ActivationLimit` | `CountInv` |
| `OnceHolds` | `OncePerEventInOrder` | `OnceInv`, with `AwaitInv`, `CountInv` |
| `OneJobHolds` | `OneJobPerHat` | `OnceInv` |
| `PredecessorHolds` | `PredecessorSettled` | `SettleInv` with the statement itself |
| `CheckpointHolds` | `CheckpointCoversFinished`: no job a checkpoint counts is still going on | `CoverInv`, with `AwaitInv`, `CountInv` |
| `NothingInFlightHolds` | `NothingInFlight`: both | as those two |
| `SeenHolds` | `SeenIsDelivered` | the statement itself, with `TypeInv` |
| `ContractHolds` (Reconciler) | `Contract`: the loop implements EventLoop | `PriorityInv`, with `CountInv`, `OnceInv` |
| `JobsBounded` (Reconciler) | no more than `MaxJobs` jobs | `BudgetInv`, `JobsPaid` |
| `RunWindsDownHolds` (Reconciler) | `RunWindsDown` | `TypeInv`, `AwaitInv`, `BudgetInv` |
| `OnceAcrossRestarts` (Resume) | `OncePerEventInOrder` | `LastingInv`: `NeverAgain` |
| `CheckpointAlwaysAdvances` (Resume) | `CheckpointAdvances` | `LastingInv`: `AheadOfCheckpoint` |
| `StartsOnce` (Resume) | `StartedOnce` | `StartInv`, with `LastingInv` |
| `JobsBoundedAcrossRestarts` (Resume) | no more than `MaxRestarts + 1` times `MaxJobs` jobs | `SessionsPaid`: `InBudget`, `PaidFor`, with `LastingInv` |
| `TypeCorrect`, `TableHolds` (K8sRuntime) | `TypeOK`, `TableIsCurrent` | `TypeOK /\ Made`; the statement itself |
| `ContractHolds` (K8sRuntime) | `Contract`: implements JobRuntime | `CallInv` |
| `TypeCorrect`, `OwnEntryHolds` (ChildRuntime) | `TypeOK`; `OwnEntry`: an entry holds the child of its own call | `NumberInv`, `TableInv` |
| `ContractHolds` (ChildRuntime) | `Contract`: implements JobRuntime | `TableInv` |
| `HeardAsSaidHolds` (MCChildRuntime) | `HeardAsSaid` | `HatsInv`: `FileOK`, `ReadOK` |
| `SyncedHolds` (Agent) | `SyncedBeforeHeard` | `HeardInv` |
| `FailureIsCleanHolds` (Agent) | `FailureIsClean` | `CleanInv` |
| `LostOnlyToRivalsHolds` (Agent) | `LostOnlyToRivals` | `LostInv`, with `CleanInv` |
| `JobContractHolds` (Agent) | `JobContract`: implements PodJob | `HeardInv` |
| `PodsWindDownHolds` (Agent) | `PodsWindDown` | `ControlOK`, `AttemptOK` |
| `TakenInOrderHolds` (Services) | `TakenInOrder` | `BrokerInv`, and the stores' types |
| `ListContractHolds` (Services) | `ListContract`: both stores keep KeyStore's promise | `LocalInv`, `BucketInv` |
| `EventsAsPrintedHolds` (Notes) | `EventsAsPrinted` | `ScanInv` |
| `NotesAreKeptHolds` (Notes) | `NotesAreKept` | `BookInv`, `PodsInv` |
| `ScratchpadsGrowHolds` (Notes) | `ScratchpadsGrow` | `PodsInv` |
| `RunsKeepApartHolds` (Commands) | `RunsKeepApart` | `LaunchInv` |
| `JobsAsConfiguredHolds` (Commands) | `JobsAsConfigured` | `BuilderInv` |
| `PresetsAreLiveHolds` (Commands) | `PresetsAreLive` | `PresetsInv` |

The theorems marked Resume are in Reconciler_proofs with those of the loop they rest
on. Why the strengthenings are needed:

- `TypeOK` alone is not inductive: `JobSucceeded` reads `jobs[Head(pending)]`,
  so `Control` says which variables are empty at which `pc` and that what is
  pending is a job; and `consecutiveFailures <= 3` needs that it is below 3
  while the run goes on.
- `TriggersAreRight` (TopicScan) is about recursive functions, and so about a choice
  among the functions that satisfy an equation. `RestExists` and `SumExists` show that
  there is one, and `UpToBound`, induction over a set of numbers instead of a predicate,
  what it yields: `MatchesIsDenotes`, and sums that compare as their segments do. A
  pattern matches itself with its wildcards filled in; if all it matches is also
  matched by another, two such fillings show that each segment of the other is its own or a
  wider wildcard.
- `BudgetInv`: while a batch is started, iterations spent plus hats still to
  come stay below the bound. Every step of phase 1 moves one from the second
  to the first; the batch is no longer than the set of interested hats.
- `AwaitInv`: every unfinished job is pending while the run goes on. Jobs only
  ever leave `pending` when they are finished.
- `NumberInv`: controller events in the stream are increasing and below those
  in the outbox, which are below `globalSequence`.
- `CountInv`: a hat's counter is the number of its jobs, and each hat still in
  the batch, which holds no hat twice, is below its limit.
- `OnceInv`: no job belongs to an event not yet taken, no hat left in the batch
  has a job of the event taken last, and what is unfinished is of that event.
  The last part is why two jobs of one hat cannot overlap.
- `SettleInv`: what the loop no longer waits for is settled, and so is the
  origin of every event taken. An event in the stream may have an unsettled
  origin (a pod publishes while it runs); taking it waits for the whole batch.
- `CoverInv`: the checkpoint stands for a point in the sequence of jobs up to
  which all are over and its counters count them; a checkpoint is taken only
  when nothing is pending, and jobs that are over stay so.
- `PriorityInv`: the hats left in the batch asked for the event taken last, are
  sorted, and come after every hat already started for it. With it each step
  maps to EventLoop: `Complete` and `Receive` to `TakeOne`, `CreateJob` to
  `StartHat`, what appends to the stream to `PublishOne`, what ends the run
  otherwise to `GiveUp`, the rest to stuttering. The theorem is the step
  simulation and needs no fairness.
- `LastingInv` (Resume): what survives a restart. `CountInv` and `AwaitInv` do
  not: counters go back to the checkpoint's and old jobs run on. What remains is
  that no job is of an event beyond the cursor, which a new subscription only
  moves forward, and that the controller is never behind its checkpoint.
- `StartInv` (Resume): a run at its start that has seen nothing has nothing in its
  stream, every checkpoint has seen something, and while nothing has been seen the
  starting event is the one to be delivered next.
- `CallInv` (K8sRuntime): a call that has not begun has touched nothing; at most
  one call of a hat is under way; what is in the table, and what a wait has looked
  up, is the job of that call; and the status a wait saw is the one the job ended
  with. The table entry alone says too little, since a wait goes on after a cancel
  has removed it.
- `NumberInv` (ChildRuntime): `next_id` is the number of calls that have taken one,
  and theirs differ. `TableInv`: an entry holds the child of the call with that
  number, a child that was given away is with its waiter, and who has not been
  started or told has nothing of either.
- `HeardInv` (Agent): which phases have left `emits` empty, in which the workspace
  is stored, and that whatever is in the stream is of a pod past that phase.
- `CleanInv` (Agent): repositories are sequences without repetition of commits of
  pods that have committed; a pod before its commit, and a failed one, is on no
  branch, in no clone and in no push under way. The last part is what makes it
  inductive: others clone and rebase meanwhile, and would carry a commit along.

- `SeenIsDelivered` (Reconciler) was first stated with `SelectSeq` over the stream,
  which no prover unfolds. It now says the same by counting: as many topics are
  remembered as user events delivered, and the i-th of those is in the i-th place.
- `HatsInv` (MCChildRuntime): a pod's emit file holds the lines its own AI wrote until
  the wrapper adds the default, if there is no file and the hat has one (`FileOK`); of the
  lines the agent is through with, it has published those that can be heard, in their
  order (`ReadOK`). What makes it inductive is that no other pod writes there, which is
  not so of local jobs: the theorem is about pods. An AI whose calls of emit all failed may
  leave an empty file, which silences the wrapper: `Complete` leaves it out.
- `StrikeInv` (Reconciler): the jobs judged so far are the first ones and over, so what
  they came to stays; `consecutiveFailures` is no more than the failed jobs at their end
  and the hats stopped by a gate. A job awaited with success starts a new row, and
  `JobsPaid` has that each hat without a job has cost an iteration.
- `LostInv` (Agent): a potential. `Paid(p, n, s)` says that the commits of s since p
  cloned pay for n attempts, two each. At each phase of a push it says how many
  attempts are paid for, and by what the pod holds, what the remote advertised, or
  what the branch is: a rejection or a conflict costs an attempt, and shows a commit
  that was not counted before. `CleanInv` supplies that nobody repeats a commit.
- `BrokerInv` (Services): what is buffered or was dropped is in the stream, and
  nothing is buffered before the subscription or after the task's end.
- `LocalInv` (Services): a key that was there throughout has been found or lies
  under a directory on the stack or in an unread entry of the current one. That alone
  is not inductive, as the walk could meet a directory twice, so `WalkInv` says that
  the directories on the stack lie apart; with it a key that was there throughout is not
  met twice (`FoundOnce`). `BucketInv`: keys collected ascend and are at or
  before the token; a key there throughout at or before it is collected.
- `ScanInv` (Notes): the events printed so far are exactly those of the lines before
  the next, and `seq` is the base plus their number.
- `BookInv` (Notes): notes are heard in order and written in order; the list that has
  been read is still the one in the store, since one controller at a time writes it;
  entry by entry a list that is whole is what was written for it. `StatusOf` says of
  each task which update counts, with the last one spelled out, as a `CHOOSE`n last
  update would not be carried through an append.
- `PodsInv` (Notes): a pod whose command may run has all that its own scratchpad
  holds in the store (`OwnPad`), which nobody else writes; what it found in the
  others' is still there, and on its way into the workspace once listed
  (`OtherPads`); and while pods never overlapped, the same of the common files
  (`InSequence`), which is not so when they do.
- `LaunchInv` (Commands): `AllCovered`, every save that a file or a search has
  counted was made by a process that drives the run, so the numbers of saves up to a
  checkpoint's are all somebody's; `Ahead`, the checkpoint of a run that has not forked
  is never behind what a process has saved, begun with or found; `Searching`, a search of
  whole files misses none; `Turns`, for processes in turn: what the one at
  work has found is current, what it saves is the next, its prompt is its own,
  and those that drive one run follow each other. The first two together give
  that a save which takes a checkpoint back forks the run.
- `BuilderInv` (Commands): the job is the one built from what was chosen, and the agent
  has read that. The rest are lemmas about `ControllerEnv`, `HatEnv` and `GitEnv`: which
  variables each sets, and which of the former's it leaves.
- `JobsPaid` (Reconciler): every job has cost an iteration, so `BudgetInv` bounds the
  jobs; `MaxJobs` is the budget and one batch. With it the jobs are a fixed set of pods,
  those not created yet among them, and `JobStep(j)` of each is under `FairSpec`.
- `SessionsPaid` (Resume): the same of a continued run. `BudgetInv` is not invariant there,
  as a new subscription puts the cursor at an event that may wake fewer hats than the one
  whose batch overshot; what remains is the bound by all hats. The jobs of earlier
  sessions are paid for by the restarts, so `ResumeFairSpec` speaks of all jobs too.
- `RunWindsDown` (Reconciler) is termination as a step property. Every step lowers
  `Means` (is there a start, are there events for an operator to publish, iterations
  left), or leaves them and lowers one job's work, or leaves both and lowers `Chores`
  (jobs to await, events to publish, events to take), each lexicographically. That
  this is natural in every component is part of the property. There are finitely many
  jobs (`JobsBounded`), so no behaviour takes infinitely many steps: not under any
  fairness, and for any number of events an operator publishes, as long as it is a number:
  one who never stops publishing what wakes nobody keeps the loop taking events, which
  cost no iteration (reconciler.rs:136-166). A failed job that went back to its queue, or
  a batch that cost nothing, would break it.
- `PodsWindDown` (Agent) likewise, each pod by itself: `StepsLeft` counts what is left
  of the phases and of the attempts at a push, and while it stays an event leaves `emits`.
  `AttemptOK`, a pod that fixes has an attempt left, makes the fourth attempt
  impossible. No rival, and no command that fixes, can keep a pod pushing.
- `PresetsInv` (Commands): the queue and the batch hold the preset's own topics and
  hats, and in presets without a dead end one of them is not empty while the run goes on
  (`GoesOn`). The rest is read off the tables once per preset: each trigger
  is two words and matches itself only (`Legible`), so whom a topic wakes is set
  membership; a set of hats that holds those of the starting event and, with each, those it
  may wake, holds all (`Spreads`); and a set that holds whatever leads to the promise,
  all too. `PresetsAreLive` speaks of all twelve where it says that hats
  can be woken, leaves out `refactor` and `deploy` where the promise must stay in reach
  (a failed verification or build is an event nobody follows; there, too, no hat is
  silent), and `pr_review`, whose three
  reviewers are woken together, where one event is for one hat.

Only model-checked: everything under fairness (`Termination`, `RunsEnd`,
`EveryoneAnswered`, `AnsweredAtEnd`, `HeardInTheEnd`, `ServicesFinish`), which is out of
the prover's reach. Of runs and pods the larger part of it is proved all the same, that they cannot
go on for ever; what TLC adds is that they do not stop short (for pods by its check
for deadlock). Every invariant and every
action property that a run checks is a theorem.

## 5. What the runs found

*ResumeStranded*: a statement of the documentation the code does not keep.
`subscribe_all` is a plain NATS subscription (boring-broker/src/nats.rs:100) and a
continued run publishes nothing, so the events already in the stream never reach
it: it waits until it times out.

Writing the modules brought up more places where a comment and the code part.
No run is kept for them; they are the reason why some property is stated as
narrowly as it is.

| Where | The comment | The code |
|---|---|---|
| reconciler.rs:98 | hats over `max_activations` are excluded (event_router.rs:65) | activations since the last checkpoint are forgotten by a continued run |
| reconciler.rs:279 | the default event goes out if the agent emits nothing (job_builder.rs:263) | in a cluster it goes out beside the agent's own events, unless the pod's log happens to hold a marker or the promise |
| reconciler.rs:365 | checkpoint every N iterations (config.rs:98) | the remainder is tested per batch and may be stepped over |
| reconciler.rs:162 | `required_events` before completion (config.rs:96) | read nowhere |
| main.rs:196 of the agent | pushes, then publishes (src/README.md:169) | publishes, then pushes, and a push given up leaves the pod successful |
| git.rs:99 | the hook rebases before push (git.rs:90) | not for a pod that created the branch: it has no upstream |
| git.rs:54 | the base branch only if the work branch does not exist (git.rs:37) | after any failure to clone it |
| job_builder.rs:71 | `per_hat` (agent main.rs:100, config.rs:206) | the strategy is passed as `perhat`, so hats share a branch (`Lowered`, `WorkBranch` of JobBuilder) |
| bin/emit.rs:79 | the agent reads what is emitted (bin/emit.rs:14) | a backslash or a line break makes a line it skips |
| workspace.rs:170 | upload if modified (workspace.rs:168) | if there is a file, which materialize has made: of two pods of a batch the later one puts back the memories and tasks it began with, over what the other has stored |
| memories.rs:42 | append a memory and save (memories.rs:41) | a read, a change and a write of the whole list: of two writers at a time one loses its entry |
| nats.rs:96 of the broker | persistence (src/README.md:16) | while the loop waits for a batch the channel fills, then the client's buffer; what comes then is dropped for the run |
| main.rs:217 of the agent | `emit --memory` (bin/emit.rs:9) | logged, not stored |
| output_parser.rs:117 | the promise on any line (output_parser.rs:25) | not one that begins or ends with a mark that is stripped |
| output_parser.rs:80 | task ids (tasks.rs:133) | two tasks of one output may share one |
| k8s.rs:245, local.rs:83, docker.rs:127 | cancel a running job (traits.rs:40) | a failed delete is not reported; bash is killed and not its command; a container that is waited for is not found |
| k8s.rs:58 | names of at most 63 characters (k8s.rs:49) | it is the unique part that is cut |
| reconciler.rs:340 | scratchpad append (output_parser.rs:24) | one that cannot be read is replaced |
| boring-store/src/local.rs:39 | persistent entries (memories.rs:4) | a write cut short leaves a file that never parses again |
| tasks.rs:68 | done by id or title (tasks.rs:102) | by id only |
| chain.rs:22 | stops at the first provider that returns `Some` (chain.rs:7) | or fails |
| job_builder.rs:36 | the prompt file is loaded at run start (config.rs:94) | if it cannot be read there is no task, and no error |
| run.rs:79 | controller and pods share a store (src/README.md:208) | the controller's is always local |
| config.rs:149 | auto-emit if the agent did not (config.rs:144) | locally the file of an earlier job silences it, and nobody reads that file |
| config.rs:148, 150 | the command's exit code (local.rs:40); `--complete` on the promise (config.rs:146) | the wrapper's status; the output is not looked at |
| checkpoint.rs:56, 55 | the most recent checkpoint (checkpoint.rs:42) | the last by name, of those that parse |
| reconciler.rs:77 | resume an interrupted run (boring-cli main.rs:40) | also one that another process drives: both then write one checkpoint, and it goes back and forth (`Forked`) |
| run.rs:30 | an inline prompt overrides the file (boring-cli main.rs:34) | through one file that concurrent runs share |
| logs.rs:9 | events for a run (boring-cli main.rs:57) | under a prefix nothing writes |
| init.rs:358, 449 | approval, and passing tests, come first (init.rs:333, 450) | a silent reviewer's default is the approval; the gate ends with `\|\| true` |

## 6. Abstractions and what is not modelled

- A payload is "the promise" or "something else"; wave fields, ids and
  timestamps of events are read by nothing and left out.
- In Reconciler the stream delivers in publication order and without bound; that
  what arrives is handed on so is `InOrderWithoutGaps` of Subscription. What a
  full client buffer or a lost connection drops is a history variable there and
  is not carried into Reconciler.
- The agent's log lines hold commands, topics, payloads and lines it skips (main.rs:143,
  203, 218), and its command's stderr, so the log of a pod that succeeds may hold
  anything the controller parses for, `Logs` in Reconciler. What is in it is independent
  there of what the agent has published.
- The writes of one job's notes are one step of Reconciler; their steps are
  Notebook's.
- Publication and delivery are one step of Reconciler. An event still on its way
  when a timeout fires is, in the model, one that was published just after it; the
  loop never waits for events while a job of the batch could still publish, so only
  an operator's event can be the late one.
- Time is not counted: a timeout may fire whenever the loop waits with nothing
  delivered. `max_runtime_seconds` bounds one wait and not the run.
- In Resume the checkpoint found is this run's; the search over several runs
  is Launch's.
- Agent: a repository is configured (without one the pod skips the git phases);
  git, the AI's program and the command that fixes conflicts are external; an AI
  makes no commits of its own; all of a pod's work is one commit.
- Hat command: the AI is external. What it prints and what it emits are independent; the
  output of a pod holds a marker or not, whatever was emitted.
- Subscription: a loop that returns, or a process that dies, drops the receiver; a task
  that has nothing to forward then keeps its subscription until the next event or the end
  of the process.
- Runtimes: a request or spawn that fails has had no effect. Images, labels, mounts
  and log streaming are data of a job or never called.
- What secret providers hold is not empty. The AWS and Azure providers are
  constructed nowhere; `get_secret_bytes` is called nowhere.
- Presets: jobs are local and succeed, and a hat puts out what its instructions
  name, or nothing.
- Markdown renderings for the AI, and the formatting helpers of memories.rs and
  tasks.rs, which nothing calls, are left out.
- Not modelled at all: hooks (`run_hooks` is never called), human actions (parsed
  and dropped), metrics and logging (control nothing), the event extractor (tests
  only).

## 7. Plan

- Composing Launch with Resume, so that a continued run is one of several, and
  Subscription with Reconciler, so that dropped events reach the loop's model.
- `RunWindsDown` for continued runs, where a restart gives back what the last
  checkpoint had not counted and the number of restarts is the first of the means; and
  for calls to the runtimes, whose polling is bounded by the cluster's deadline only.
- What makes a table of hats lively, for any table instead of the twelve presets.
- A second look at the hazards that have no property, each with its reason in
  `PROJECT.json`.
