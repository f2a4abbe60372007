----------------------------- MODULE Reconciler -----------------------------
(***************************************************************************)
(* The controller's orchestration loop, one run of it:                     *)
(* Reconciler::run_inner in boring-controller/src/reconciler.rs, with the  *)
(* run's JetStream subject, the jobs it starts and what it persists.       *)
(*                                                                         *)
(* The loop is sequential; what runs beside it are the jobs of the current *)
(* batch (local processes, or boring-agent pods that publish to the broker *)
(* themselves) and an operator using `boring emit`.                        *)
(***************************************************************************)
EXTENDS EventRouter, Integers

CONSTANTS
  StartingEvent,        \* event_loop.starting_event, a topic
  DefaultTopic,         \* default_publishes or publishes[0], where there is one
  Gated,                \* the hats with a backpressure gate, global or their own
  MaxIterations,        \* event_loop.max_iterations
  CheckpointInterval,   \* event_loop.checkpoint_interval
  InCluster,            \* TRUE: jobs are boring-agent pods; FALSE: local processes
  Outputs,              \* what a job may print (local) or emit (in a cluster)
  Logs,                 \* what the log of a pod may hold, in a cluster
  Faults,               \* which calls may fail: a subset of FaultKinds
  OperatorTopics,       \* topics an operator may publish by hand
  MaxInjections,        \* bound: how many times the operator does so
  NoCheckpoint          \* the store holds no checkpoint.json of this run

FaultKinds == {"broker", "subscription", "job", "store"}

(***************************************************************************)
(* An emission is what an agent asks to publish.  A payload matters only   *)
(* in whether it is the completion promise.                                *)
(***************************************************************************)
SystemCompletion == <<"_system", "completion">>
\* Any strings; the two literals are listed because no prover knows STRING.
Segments == STRING \cup {"_system", "completion"}
Topics == Seq(Segments) \ {<<>>}
Payloads  == {"promise", "other"}
Emissions == [topic : Topics, payload : Payloads]

\* Event::system_completion and Event::is_completion.
Completion == [topic |-> SystemCompletion, payload |-> "promise"]
IsCompletion(event) ==
  event.topic = SystemCompletion /\ event.payload = "promise"

(***************************************************************************)
(* What parse_output finds in a job's stdout, or in the log of its pod:    *)
(* the events it emits, whether it carries memories, task actions or       *)
(* scratchpad lines (notes), and whether a line the parser passed over is  *)
(* the promise (promise).                                                  *)
(***************************************************************************)
JobOutputs == [events : Seq(Emissions), notes : BOOLEAN, promise : BOOLEAN]
Silent == [events |-> <<>>, notes |-> FALSE, promise |-> FALSE]

ASSUME ConfigAssumption ==
  /\ StartingEvent \in Topics
  /\ DOMAIN DefaultTopic \subseteq Hats
  /\ \A h \in DOMAIN DefaultTopic : DefaultTopic[h] \in Topics
  /\ Gated \subseteq Hats
  /\ MaxIterations \in Nat
  /\ CheckpointInterval \in Nat
  /\ InCluster \in BOOLEAN

ASSUME EnvironmentAssumption ==
  /\ Outputs \subseteq JobOutputs
  /\ Logs \subseteq JobOutputs
  /\ Faults \subseteq FaultKinds
  /\ OperatorTopics \subseteq Topics
  /\ MaxInjections \in Nat

VARIABLES
  \* the controller's locals
  pc,                   \* where run_inner is
  result,               \* what it returned
  iterations, activations, consecutiveFailures, globalSequence, seen,
  active,               \* active_jobs, a set of hats
  batch,                \* the rest of hat_ids in Phase 1
  pending,              \* the rest of pending_handles in Phase 2
  outbox,               \* the events of the current job still to publish
  \* the broker
  stream,               \* the run's events, in the order they were published
  cursor,               \* how many of them the subscription has delivered
  \* the runtime and the store
  jobs,                 \* every job of the run, in creation order
  noted,                \* the jobs whose notes are in the store
  checkpoint,           \* the run's checkpoint.json
  \* the operator
  injections

controllerVars == <<pc, result, iterations, activations, consecutiveFailures,
                    globalSequence, seen, active, batch, pending, outbox>>
counters == <<iterations, activations, consecutiveFailures, globalSequence, seen>>
brokerVars == <<stream, cursor>>
storeVars == <<noted, checkpoint>>
vars == <<controllerVars, brokerVars, jobs, storeVars, injections>>

JobIds == DOMAIN jobs
Unfinished == {"running", "publishing"}
Finished == {"succeeded", "failed"}
IsFinished(j) == jobs[j].status \in Finished

(***************************************************************************)
(* Event::new.  origin (the job behind the event, 0 for none) and via (who *)
(* published it) are the model's; the code keeps the hat as `source`.      *)
(***************************************************************************)
MakeEvent(emission, sequence, origin, via) ==
  [topic |-> emission.topic, payload |-> emission.payload, target |-> NoTarget,
   sequence |-> sequence, origin |-> origin, via |-> via]

Plain(topic) == [topic |-> topic, payload |-> "other"]

-----------------------------------------------------------------------------
Init ==
  /\ pc = "start"
  /\ result = "none"
  /\ iterations = 0
  /\ activations = [h \in Hats |-> 0]
  /\ consecutiveFailures = 0
  /\ globalSequence = 1
  /\ seen = <<>>
  /\ active = {}
  /\ batch = <<>>
  /\ pending = <<>>
  /\ outbox = <<>>
  /\ stream = <<>>
  /\ cursor = 0
  /\ jobs = <<>>
  /\ noted = {}
  /\ checkpoint = NoCheckpoint
  /\ injections = 0

Return(value) == pc' = "stopped" /\ result' = value

\* Mutation: subscribing too late.
SubscribedLate == Len(stream')
\* Mutation: replaying the whole stream.
SubscribedToAll == 0

\* Where a new subscription begins: core NATS delivers what comes after it.
Subscribed == Len(stream)

\* Mutation: the starting event goes out on every start.
IsFreshAlways == TRUE

\* Line 129: a run that has seen nothing yet.
IsFresh == seen = <<>>

FirstEvent == MakeEvent(Plain(StartingEvent), 0, 0, "controller")

\* A publish that is not confirmed may have reached the stream all the same.
MaybePublished(event) == stream' = stream \/ stream' = Append(stream, event)

\* Lines 126-133: subscribe, then publish the starting event of a fresh run.
Start ==
  /\ pc = "start"
  /\ pc' = "receive"
  /\ stream' = IF IsFresh THEN Append(stream, FirstEvent) ELSE stream
  /\ cursor' = Subscribed
  /\ UNCHANGED <<result, counters, active, batch, pending, outbox, jobs,
                 storeVars, injections>>

\* Either call of Start may fail; `?` ends the run with an error.
StartFails ==
  /\ pc = "start"
  /\ "broker" \in Faults
  /\ Return("Error")
  /\ IF IsFresh THEN MaybePublished(FirstEvent) ELSE UNCHANGED stream
  /\ UNCHANGED <<counters, active, batch, pending, outbox, cursor, jobs,
                 storeVars, injections>>

\* Mutation: one iteration too many.
BudgetLeftLate == iterations <= MaxIterations

BudgetLeft == iterations < MaxIterations

StopAtMaxIterations ==
  /\ pc = "receive"
  /\ ~BudgetLeft
  /\ Return("MaxIterationsReached")
  /\ UNCHANGED <<counters, active, batch, pending, outbox, brokerVars, jobs,
                 storeVars, injections>>

Listening == pc = "receive" /\ BudgetLeft

\* Mutation: the clock is looked at before the subscription.
NothingDeliveredIgnored == TRUE

NothingDelivered == cursor = Len(stream)

\* Mutation: next() is awaited without a timeout.
TimeOutNever == FALSE

\* timeout() polls the subscription first: a delivered event always wins.
TimeOut ==
  /\ Listening
  /\ NothingDelivered
  /\ Return("TimedOut")
  /\ UNCHANGED <<counters, active, batch, pending, outbox, brokerVars, jobs,
                 storeVars, injections>>

\* The channel of the subscription closes once it is drained.
SubscriptionEnds ==
  /\ Listening
  /\ NothingDelivered
  /\ "subscription" \in Faults
  /\ Return("Failed")
  /\ UNCHANGED <<counters, active, batch, pending, outbox, brokerVars, jobs,
                 storeVars, injections>>

NextEvent == stream[cursor + 1]

Deliver ==
  /\ Listening
  /\ cursor < Len(stream)
  /\ cursor' = cursor + 1
  /\ seen' = IF IsSystem(NextEvent.topic) THEN seen ELSE Append(seen, NextEvent.topic)
  /\ UNCHANGED <<iterations, activations, consecutiveFailures, globalSequence,
                 active, pending, outbox, stream, jobs, storeVars, injections>>

\* Lines 158-164: the completion event ends the run.
Complete ==
  /\ Deliver
  /\ IsCompletion(NextEvent)
  /\ Return("Completed")
  /\ UNCHANGED batch

\* Lines 158-166: any other event is routed, once, before any job starts.
Receive ==
  /\ Deliver
  /\ ~IsCompletion(NextEvent)
  /\ batch' \in RouteWithState(NextEvent, activations)
  /\ pc' = "activate"
  /\ UNCHANGED result

-----------------------------------------------------------------------------
(* Phase 1, lines 168-223: one step per hat of the batch.                  *)

\* Mutation: the fourth failure ends the run.
TooManyFailuresLate(n) == n > 3

TooManyFailures(n) == n >= 3

(***************************************************************************)
(* The next hat of the batch.  Line 172 would skip it if it were active;   *)
(* it never is, so no action stands for that branch (if it were, the model *)
(* would deadlock here).                                                   *)
(***************************************************************************)
Activating(h) ==
  pc = "activate" /\ batch # <<>> /\ h = Head(batch) /\ h \notin active

\* A failing gate skips the hat but spends an iteration and counts as a failure.
GateFails(h) ==
  /\ Activating(h)
  /\ h \in Gated
  /\ consecutiveFailures' = consecutiveFailures + 1
  /\ iterations' = iterations + 1
  /\ batch' = Tail(batch)
  /\ IF TooManyFailures(consecutiveFailures')
     THEN Return("Failed")
     ELSE UNCHANGED <<pc, result>>
  /\ UNCHANGED <<activations, globalSequence, seen, active, pending, outbox,
                 brokerVars, jobs, storeVars, injections>>

\* The gates pass, the job is built and created.
CreateJob(h) ==
  /\ Activating(h)
  /\ jobs' = Append(jobs, [hat |-> h, cause |-> cursor, status |-> "running",
                           out |-> Silent, emits |-> <<>>, sent |-> 0])
  /\ active' = active \cup {h}
  /\ iterations' = iterations + 1
  /\ activations' = [activations EXCEPT ![h] = @ + 1]
  /\ pending' = Append(pending, Len(jobs'))
  /\ batch' = Tail(batch)
  /\ UNCHANGED <<pc, result, consecutiveFailures, globalSequence, seen, outbox,
                 brokerVars, storeVars, injections>>

\* A missing secret, or the runtime, makes `?` end the run.
CreateJobFails(h) ==
  /\ Activating(h)
  /\ "job" \in Faults
  /\ Return("Error")
  /\ UNCHANGED <<counters, active, batch, pending, outbox, brokerVars, jobs,
                 storeVars, injections>>

AwaitBatch ==
  /\ pc = "activate"
  /\ batch = <<>>
  /\ pc' = "wait"
  /\ UNCHANGED <<result, counters, active, batch, pending, outbox, brokerVars,
                 jobs, storeVars, injections>>

-----------------------------------------------------------------------------
(* Phase 2, lines 225-362: the jobs of the batch, one by one, in order.    *)

Waiting(j) == pc = "wait" /\ pending # <<>> /\ j = Head(pending)

(***************************************************************************)
(* What a succeeded job makes the controller publish (lines 244-297): its  *)
(* own events; failing that a completion it printed in passing; failing    *)
(* that its hat's default event.                                           *)
(***************************************************************************)
Published(h, out) ==
  IF out.events # <<>> THEN out.events
  ELSE IF out.promise THEN <<Completion>>
  ELSE IF h \in DOMAIN DefaultTopic THEN <<Plain(DefaultTopic[h])>>
  ELSE <<>>

Numbered(emissions, base, j) ==
  [i \in 1..Len(emissions) |->
     MakeEvent(emissions[i], base + i - 1, j, "controller")]

\* Mutation: completion and default events are not counted.
SequenceAfterParsed(h, out) == globalSequence + Len(out.events)

\* global_sequence once what the job made the controller publish is numbered.
SequenceAfter(h, out) == globalSequence + Len(Published(h, out))

\* Mutation: a success does not wipe out the failures before it.
FailuresKept == consecutiveFailures

FailuresAfterSuccess == 0

JobSucceeded(j) ==
  /\ Waiting(j)
  /\ jobs[j].status = "succeeded"
  /\ outbox' = Numbered(Published(jobs[j].hat, jobs[j].out), globalSequence, j)
  /\ globalSequence' = SequenceAfter(jobs[j].hat, jobs[j].out)
  /\ consecutiveFailures' = FailuresAfterSuccess
  /\ active' = active \ {jobs[j].hat}
  /\ pc' = "publish"
  /\ UNCHANGED <<result, iterations, activations, seen, batch, pending,
                 brokerVars, jobs, storeVars, injections>>

\* Mutation: a job that has not succeeded yet is taken for failed.
HasFailedEarly(j) == jobs[j].status # "succeeded"

HasFailed(j) == jobs[j].status = "failed"

\* Mutation: a failed job breaks out of the loop over the batch.
NoneAfterFailure == <<>>

\* Mutation: the job that failed is waited for again.
FailedAgain == pending

\* A failed job does not keep the loop from waiting for the others.
AfterFailure == Tail(pending)

\* Three failures in a row end the run; nothing cancels the jobs still pending.
JobFailed(j) ==
  /\ Waiting(j)
  /\ HasFailed(j)
  /\ consecutiveFailures' = consecutiveFailures + 1
  /\ active' = active \ {jobs[j].hat}
  /\ pending' = AfterFailure
  /\ IF TooManyFailures(consecutiveFailures')
     THEN Return("Failed")
     ELSE UNCHANGED <<pc, result>>
  /\ UNCHANGED <<iterations, activations, globalSequence, seen, batch, outbox,
                 brokerVars, jobs, storeVars, injections>>

\* wait_job itself fails: `?` ends the run.
WaitFails ==
  /\ pc = "wait"
  /\ pending # <<>>
  /\ "job" \in Faults
  /\ Return("Error")
  /\ UNCHANGED <<counters, active, batch, pending, outbox, brokerVars, jobs,
                 storeVars, injections>>

Publish ==
  /\ pc = "publish"
  /\ outbox # <<>>
  /\ stream' = Append(stream, Head(outbox))
  /\ outbox' = Tail(outbox)
  /\ UNCHANGED <<pc, result, counters, active, batch, pending, cursor, jobs,
                 storeVars, injections>>

\* A publish that is not confirmed ends the run; the job's notes are lost.
PublishFails ==
  /\ pc = "publish"
  /\ outbox # <<>>
  /\ "broker" \in Faults
  /\ Return("Error")
  /\ MaybePublished(Head(outbox))
  /\ UNCHANGED <<counters, active, batch, pending, outbox, cursor, jobs,
                 storeVars, injections>>

\* Mutation: the notes of a job that emits nothing are passed over.
HasNotesWithEvents(j) == jobs[j].out.notes /\ jobs[j].out.events # <<>>

HasNotes(j) == jobs[j].out.notes

(* Lines 299-353: memories, task actions and scratchpad lines are written; *)
(* a write that fails is ignored.                                          *)
PersistNotes ==
  /\ pc = "publish"
  /\ outbox = <<>>
  /\ \/ noted' = IF HasNotes(Head(pending))
                 THEN noted \cup {Head(pending)} ELSE noted
     \/ "store" \in Faults /\ noted' = noted
  /\ pending' = Tail(pending)
  /\ pc' = "wait"
  /\ UNCHANGED <<result, counters, active, batch, outbox, brokerVars, jobs,
                 checkpoint, injections>>

-----------------------------------------------------------------------------
(* Line 365 and the record of lines 366-374.  run_id is the run itself and *)
(* config_hash is always empty.                                            *)
CheckpointDue ==
  CheckpointInterval > 0 /\ iterations % CheckpointInterval = 0

Snapshot ==
  [iterations |-> iterations, activations |-> activations,
   consecutiveFailures |-> consecutiveFailures,
   globalSequence |-> globalSequence, seen |-> seen]

(* Lines 364-377: the checkpoint, when it is due; a failed save is ignored. *)
EndIteration ==
  /\ pc = "wait"
  /\ pending = <<>>
  /\ pc' = "receive"
  /\ \/ checkpoint' = IF CheckpointDue THEN Snapshot ELSE checkpoint
     \/ "store" \in Faults /\ checkpoint' = checkpoint
  /\ UNCHANGED <<result, counters, active, batch, pending, outbox, brokerVars,
                 jobs, noted, injections>>

-----------------------------------------------------------------------------
(* The jobs.  They outlive the controller's run when nothing waits for     *)
(* them any more.                                                          *)

SetJob(j, job) == jobs' = [jobs EXCEPT ![j] = job]

\* A local process exits with status 0: the controller parses its stdout.
LocalJobSucceeds(j) ==
  /\ ~InCluster
  /\ jobs[j].status = "running"
  /\ \E out \in Outputs :
       SetJob(j, [jobs[j] EXCEPT !.status = "succeeded", !.out = out])
  /\ UNCHANGED <<controllerVars, brokerVars, storeVars, injections>>

(* In a pod the agent's command exits with status 0 and leaves its emits   *)
(* in a file (boring-agent main.rs:139-175).                               *)
CommandSucceeds(j) ==
  /\ InCluster
  /\ jobs[j].status = "running"
  /\ \E out \in Outputs :
       SetJob(j, [jobs[j] EXCEPT !.status = "publishing", !.emits = out.events])
  /\ UNCHANGED <<controllerVars, brokerVars, storeVars, injections>>

\* main.rs:186-222: the agent publishes them itself, numbering from 0.
AgentEvent(j) == MakeEvent(Head(jobs[j].emits), jobs[j].sent, j, "agent")

AgentPublishes(j) ==
  /\ jobs[j].status = "publishing"
  /\ jobs[j].emits # <<>>
  /\ stream' = Append(stream, AgentEvent(j))
  /\ SetJob(j, [jobs[j] EXCEPT !.emits = Tail(@), !.sent = @ + 1])
  /\ UNCHANGED <<controllerVars, cursor, storeVars, injections>>

(* The pod ends.  For the controller its output is the pod's log: what the *)
(* agent logs on its way (the command, topics, payloads, and the lines it  *)
(* passes over: main.rs:143, 203, 218) and the command's stderr (157).  A  *)
(* marker anywhere in a line of it counts (parse_output), so the           *)
(* controller may publish again what the agent has, or something else.     *)
AgentExits(j) ==
  /\ jobs[j].status = "publishing"
  /\ jobs[j].emits = <<>>
  /\ \E log \in Logs :
       SetJob(j, [jobs[j] EXCEPT !.status = "succeeded", !.out = log])
  /\ UNCHANGED <<controllerVars, brokerVars, storeVars, injections>>

\* The command, the agent or its pod fails, whatever it has published; what it
\* was publishing may have reached the stream.
JobFails(j) ==
  /\ jobs[j].status \in Unfinished
  /\ SetJob(j, [jobs[j] EXCEPT !.status = "failed"])
  /\ \/ UNCHANGED stream
     \/ jobs[j].emits # <<>> /\ stream' = Append(stream, AgentEvent(j))
  /\ UNCHANGED <<controllerVars, cursor, storeVars, injections>>

\* `boring emit`: an operator publishes an event, always with sequence 0.
OperatorEmits ==
  /\ injections < MaxInjections
  /\ stream # <<>>
  /\ \E topic \in OperatorTopics :
       stream' = Append(stream, MakeEvent(Plain(topic), 0, 0, "operator"))
  /\ injections' = injections + 1
  /\ UNCHANGED <<controllerVars, cursor, jobs, storeVars>>

-----------------------------------------------------------------------------
\* What the controller does while the calls it makes succeed ...
Progress ==
  \/ Start
  \/ StopAtMaxIterations \/ TimeOut
  \/ Complete \/ Receive
  \/ \E h \in Hats : GateFails(h) \/ CreateJob(h)
  \/ AwaitBatch
  \/ \E j \in JobIds : JobSucceeded(j) \/ JobFailed(j)
  \/ Publish \/ PersistNotes
  \/ EndIteration

\* ... and when one of them fails.
Fault ==
  \/ StartFails
  \/ SubscriptionEnds
  \/ \E h \in Hats : CreateJobFails(h)
  \/ WaitFails
  \/ PublishFails

JobStep(j) ==
  \/ LocalJobSucceeds(j) \/ CommandSucceeds(j)
  \/ AgentPublishes(j) \/ AgentExits(j)
  \/ JobFails(j)

\* The run is over and nothing of it is left running.
AllDone ==
  /\ pc = "stopped"
  /\ \A j \in JobIds : IsFinished(j)
  /\ UNCHANGED vars

Next ==
  \/ Progress \/ Fault
  \/ \E j \in JobIds : JobStep(j)
  \/ OperatorEmits
  \/ AllDone

Spec == Init /\ [][Next]_vars

(***************************************************************************)
(* The tokio task runs, so the controller takes a step it keeps being able *)
(* to take; that a call fails is never owed.  A job ends sooner or later:  *)
(* a pod because of its active_deadline_seconds (k8s.rs), a local process  *)
(* by assumption, since nothing in local.rs limits it.                     *)
(***************************************************************************)
MaxJobs == MaxIterations + Cardinality(Hats)

Fairness ==
  /\ WF_vars(Progress)
  /\ \A j \in 1..MaxJobs : WF_vars(j \in JobIds /\ JobStep(j))

FairSpec == Spec /\ Fairness

-----------------------------------------------------------------------------
Events ==
  [topic : Topics, payload : Payloads, target : {NoTarget}, sequence : Nat,
   origin : Nat, via : {"controller", "agent", "operator"}]

Jobs ==
  [hat : Hats, cause : Nat \ {0}, status : Unfinished \cup Finished,
   out : JobOutputs, emits : Seq(Emissions), sent : Nat]

Checkpoints ==
  [iterations : Nat, activations : [Hats -> Nat], consecutiveFailures : 0..3,
   globalSequence : Nat, seen : Seq(Topics)]

Results == {"none", "Completed", "MaxIterationsReached", "TimedOut", "Failed", "Error"}

TypeOK ==
  /\ pc \in {"start", "receive", "activate", "wait", "publish", "stopped"}
  /\ result \in Results
  /\ iterations \in Nat
  /\ activations \in [Hats -> Nat]
  /\ consecutiveFailures \in 0..3
  /\ globalSequence \in Nat \ {0}
  /\ seen \in Seq(Topics)
  /\ active \subseteq Hats
  /\ batch \in Seq(Hats)
  /\ pending \in Seq(Nat \ {0})
  /\ outbox \in Seq(Events)
  /\ stream \in Seq(Events)
  /\ cursor \in 0..Len(stream)
  /\ jobs \in Seq(Jobs)
  /\ noted \subseteq JobIds
  /\ checkpoint \in Checkpoints \cup {NoCheckpoint}
  /\ injections \in 0..MaxInjections

(* A hat is never started more often than its max_activations              *)
(* (event_router.rs:65-82), although the limit is read once per event and  *)
(* the counter is bumped job by job (reconciler.rs:166, 220).              *)
ActivationLimit ==
  /\ \A h \in DOMAIN MaxActivations :
       Cardinality({j \in JobIds : jobs[j].hat = h}) <= MaxActivations[h]
  /\ \A h \in Hats : activations[h] = Cardinality({j \in JobIds : jobs[j].hat = h})

(* The budget is tested between batches only (reconciler.rs:136), so a run *)
(* may overshoot max_iterations, but by less than the hats interested in   *)
(* the event it took last.                                                 *)
IterationBound ==
  cursor > 0 =>
    iterations < MaxIterations + Cardinality(Interested(stream[cursor]))

(* Two unfinished jobs are never of the same hat: parallelism is across    *)
(* hats only, and the guard on active_jobs (reconciler.rs:172) is idle.    *)
OneJobPerHat ==
  \A j, k \in JobIds :
    j # k /\ ~IsFinished(j) /\ ~IsFinished(k) => jobs[j].hat # jobs[k].hat

(* Each event starts each hat at most once, and events are acted on in the *)
(* order they were published (reconciler.rs:140-223).                      *)
OncePerEventInOrder ==
  \A j, k \in JobIds : j < k =>
    \/ jobs[j].cause < jobs[k].cause
    \/ jobs[j].cause = jobs[k].cause /\ jobs[j].hat # jobs[k].hat

(* seen_events, which a resumed run is restored from, is exactly what the  *)
(* subscription has delivered, and it starts at the run's first event      *)
(* (reconciler.rs:125-133, 158-160).                                       *)
Delivered == {i \in 1..cursor : ~IsSystem(stream[i].topic)}
DeliveredUpTo(i) == {k \in Delivered : k <= i}

SeenIsDelivered ==
  /\ Len(seen) = Cardinality(Delivered)
  /\ \A i \in Delivered : seen[Cardinality(DeliveredUpTo(i))] = stream[i].topic

(* A job starts only when the job behind its event is over and, as long as *)
(* the store works, the notes that job left are already there to be read   *)
(* (reconciler.rs:204-211 against 299-353).                                *)
PredecessorSettled ==
  \A k \in JobIds :
    LET j == stream[jobs[k].cause].origin
    IN  j # 0 => /\ IsFinished(j)
                 /\ ("store" \notin Faults /\ jobs[j].status = "succeeded"
                     /\ jobs[j].out.notes => j \in noted)

(* A run that completes, runs out of iterations or times out leaves no job *)
(* behind; only failures and errors do (reconciler.rs:135-164, 225-362).   *)
QuietStop ==
  result \in {"Completed", "MaxIterationsReached", "TimedOut"} =>
    \A j \in JobIds : IsFinished(j)

(* Events the controller publishes carry strictly increasing sequence      *)
(* numbers, whatever mix of parsed, completion and default events they are *)
(* (reconciler.rs:240-294).                                                *)
SequenceIncreasing ==
  \A i, k \in DOMAIN stream :
    /\ i < k
    /\ stream[i].via = "controller"
    /\ stream[k].via = "controller"
    => stream[i].sequence < stream[k].sequence

(***************************************************************************)
(* Three failures in a row, gates and jobs together, always end the run,   *)
(* and nothing less ends it as failed while the subscription lasts.  In a  *)
(* row they are: what the counter holds is made of the jobs that failed    *)
(* since the last success among those waited for so far (the Strikes), and *)
(* of hats a gate stopped, which spent an iteration without a job; a       *)
(* success between two failures lets none of the earlier ones count        *)
(* (reconciler.rs:193-200, 233, 355-360).                                  *)
(***************************************************************************)
Judged == Len(jobs) - Len(pending)
Strikes == {j \in 1..Judged : \A k \in j..Judged : jobs[k].status = "failed"}
Stopped == iterations - Len(jobs)

EndsOnThree ==
  /\ consecutiveFailures >= 3 => result = "Failed"
  /\ result = "Failed" /\ "subscription" \notin Faults => consecutiveFailures >= 3

ThreeStrikes ==
  EndsOnThree /\ consecutiveFailures <= Stopped + Cardinality(Strikes)

(* What a checkpoint counts as started is over: no work in flight is ever  *)
(* recorded as done (reconciler.rs:364-377).                               *)
CheckpointCoversFinished ==
  checkpoint # NoCheckpoint =>
    \A j \in JobIds :
      Cardinality({k \in 1..j : jobs[k].hat = jobs[j].hat})
        <= checkpoint.activations[jobs[j].hat]
      => IsFinished(j)

(* What is left behind for good is over: the jobs of a run that returned   *)
(* without a failure, and those a checkpoint vouches for.                  *)
NothingInFlight == QuietStop /\ CheckpointCoversFinished

(* Every run ends: completed, exhausted, timed out or failed.              *)
Termination == <>(pc = "stopped")

(***************************************************************************)
(* No run goes on forever: every step uses up something there is only so   *)
(* much of, in this order: the run itself, the operator's events, the      *)
(* iterations of the budget and of the last batch, the work of a job, and  *)
(* the controller's chores with what it waits for, publishes and takes     *)
(* (reconciler.rs:135-377; max_runtime_seconds, line 142, limits each wait *)
(* only).  An event that wakes nobody spends no iteration; a run ends      *)
(* nonetheless when nobody sends more of them.                             *)
(***************************************************************************)
Lower(v, u) == \E i \in DOMAIN u : v[i] < u[i] /\ \A k \in 1..(i - 1) : v[k] = u[k]

Means ==
  <<CASE pc = "start" -> 2 [] pc = "stopped" -> 0 [] OTHER -> 1,
    MaxInjections - injections,
    MaxJobs - iterations>>

WorkOf(job) ==
  <<CASE job.status = "running" -> 2 [] job.status = "publishing" -> 1 [] OTHER -> 0,
    Len(job.emits)>>

Chores ==
  <<Len(pending), IF pc = "publish" THEN 0 ELSE 1, Len(outbox), Len(stream) - cursor,
    CASE pc = "activate" -> 2 [] pc = "wait" -> 1 [] OTHER -> 0>>

RunWindsDown ==
  [][/\ Means' \in Seq(Nat) /\ Chores' \in Seq(Nat)
     /\ \/ Lower(Means', Means)
        \/ /\ UNCHANGED Means
           /\ \E j \in JobIds : /\ Lower(WorkOf(jobs'[j]), WorkOf(jobs[j]))
                                /\ jobs' = [jobs EXCEPT ![j] = jobs'[j]]
        \/ UNCHANGED <<Means, jobs>> /\ Lower(Chores', Chores)]_vars

(***************************************************************************)
(* The run implements EventLoop: whatever the batches, gates, failures and *)
(* races, hats are started for events as that specification allows         *)
(* (reconciler.rs:83-379, event_router.rs:31-83).                          *)
(***************************************************************************)
Starts == {<<jobs[j].cause, jobs[j].hat>> : j \in JobIds}

Loop == INSTANCE EventLoop
          WITH log <- stream, taken <- cursor, started <- Starts, outcome <- result

Contract == Loop!LoopSpec
=============================================================================
