------------------------- MODULE Reconciler_proofs -------------------------
(***************************************************************************)
(* Theorems about the controller's loop, for any configuration of hats,    *)
(* triggers, limits and gates, any outputs and any failing calls: types    *)
(* and control, which every later part rests on (TypeInv); safety, one     *)
(* inductive invariant to a theorem; what a run may start and when; that   *)
(* the loop implements EventLoop; and what holds across crashes and        *)
(* continued runs (Resume).                                                *)
(***************************************************************************)
EXTENDS Resume, SequenceTheorems, FiniteSetTheorems, TLAPS

-----------------------------------------------------------------------------
(* Facts about the data.                                                   *)

LEMMA FunctionIsSeq ==
  ASSUME NEW S, NEW n \in Nat, NEW f \in [1..n -> S]
  PROVE  f \in Seq(S) /\ Len(f) = n /\ DOMAIN f = 1..n
<1>1. f \in Seq(S)
  BY SeqDef
<1>2. DOMAIN f = 1..n /\ DOMAIN f = 1..Len(f) /\ Len(f) \in Nat
  BY <1>1, LenProperties
<1> QED
  BY <1>1, <1>2

LEMMA MakeEventType ==
  ASSUME NEW e \in Emissions, NEW n \in Nat, NEW j \in Nat,
         NEW via \in {"controller", "agent", "operator"}
  PROVE  MakeEvent(e, n, j, via) \in Events
  BY DEF MakeEvent, Emissions, Events

LEMMA PlainType ==
  ASSUME NEW topic \in Topics
  PROVE  Plain(topic) \in Emissions
  BY DEF Plain, Emissions, Payloads

LEMMA CompletionType == Completion \in Emissions
<1>1. SystemCompletion \in Topics
  BY DEF SystemCompletion, Topics, Segments
<1> QED
  BY <1>1 DEF Completion, Emissions, Payloads

LEMMA FirstEventType == FirstEvent \in Events
  BY ConfigAssumption, PlainType, MakeEventType DEF FirstEvent

LEMMA PublishedType ==
  ASSUME NEW h \in Hats, NEW out \in JobOutputs
  PROVE  Published(h, out) \in Seq(Emissions)
<1>1. out.events \in Seq(Emissions)
  BY DEF JobOutputs
<1>2. <<Completion>> \in Seq(Emissions)
  BY CompletionType
<1>3. h \in DOMAIN DefaultTopic => <<Plain(DefaultTopic[h])>> \in Seq(Emissions)
  BY ConfigAssumption, PlainType
<1>4. <<>> \in Seq(Emissions)
  OBVIOUS
<1> QED
  BY <1>1, <1>2, <1>3, <1>4 DEF Published

LEMMA NumberedType ==
  ASSUME NEW emissions \in Seq(Emissions), NEW base \in Nat, NEW j \in Nat
  PROVE  /\ Numbered(emissions, base, j) \in Seq(Events)
         /\ Len(Numbered(emissions, base, j)) = Len(emissions)
         /\ \A i \in 1..Len(emissions) :
              /\ Numbered(emissions, base, j)[i].via = "controller"
              /\ Numbered(emissions, base, j)[i].sequence = base + i - 1
<1>1. Len(emissions) \in Nat
  OBVIOUS
<1>2. \A i \in 1..Len(emissions) :
        MakeEvent(emissions[i], base + i - 1, j, "controller") \in Events
  BY MakeEventType, <1>1
<1>3. Numbered(emissions, base, j) \in [1..Len(emissions) -> Events]
  BY <1>2 DEF Numbered
<1>4. \A i \in 1..Len(emissions) :
        /\ Numbered(emissions, base, j)[i].via = "controller"
        /\ Numbered(emissions, base, j)[i].sequence = base + i - 1
  BY DEF Numbered, MakeEvent
<1> QED
  BY <1>1, <1>3, <1>4, FunctionIsSeq

\* What the router returns is a sequence of hats, no longer than the set of
\* hats interested in the event.
LEMMA RouteType ==
  ASSUME NEW event, NEW acts, NEW order \in RouteWithState(event, acts)
  PROVE  /\ order \in Seq(Hats)
         /\ Len(order) <= Cardinality(Interested(event))
         /\ Cardinality(Interested(event)) \in Nat
         /\ Cardinality(Interested(event)) <= Cardinality(Hats)
<1> DEFINE eligible == {h \in Interested(event) : BelowLimit(h, acts)}
<1>1. Interested(event) \subseteq Hats /\ eligible \subseteq Interested(event)
  BY DEF Interested
<1>2. IsFiniteSet(Hats)
  BY HatsAssumption
<1>3. /\ IsFiniteSet(Interested(event))
      /\ Cardinality(Interested(event)) <= Cardinality(Hats)
  BY <1>1, <1>2, FS_Subset
<1>4. IsFiniteSet(eligible) /\ Cardinality(eligible) <= Cardinality(Interested(event))
  BY <1>1, <1>3, FS_Subset
<1>5. Cardinality(eligible) \in Nat /\ Cardinality(Interested(event)) \in Nat
  BY <1>3, <1>4, FS_CardinalityType
<1>6. order \in [1..Cardinality(eligible) -> eligible]
  BY DEF RouteWithState, Orders
<1>7. order \in [1..Cardinality(eligible) -> Hats]
  BY <1>1, <1>6
<1>8. order \in Seq(Hats) /\ Len(order) = Cardinality(eligible)
  BY <1>5, <1>7, FunctionIsSeq
<1> QED
  BY <1>3, <1>4, <1>5, <1>8

-----------------------------------------------------------------------------
(***************************************************************************)
(* The first invariant: types, and what the control point says of the      *)
(* controller's locals.  TypeOK alone is not inductive: that a job index   *)
(* is in range, or that a third failure is the last, depends on where the  *)
(* loop is.                                                                *)
(***************************************************************************)
Control ==
  /\ result = "none" <=> pc # "stopped"
  /\ pc # "stopped" => consecutiveFailures < 3
  /\ pc = "start" => stream = <<>> /\ jobs = <<>> /\ globalSequence = 1
  /\ pc \in {"start", "receive", "wait", "publish"} => batch = <<>>
  /\ pc \in {"start", "receive"} => pending = <<>>
  /\ pc \in {"start", "receive", "activate", "wait"} => outbox = <<>>
  /\ pc = "publish" => pending # <<>>
  /\ pc = "activate" => cursor > 0
  /\ \A i \in 1..Len(pending) : pending[i] \in 1..Len(jobs)

TypeInv == TypeOK /\ Control

LEMMA InitTypeInv == Init => TypeInv
<1> SUFFICES ASSUME Init PROVE TypeInv
  OBVIOUS
<1>1. TypeOK
  BY EnvironmentAssumption DEF Init, TypeOK, Results, JobIds
<1>2. Control
  BY DEF Init, Control
<1> QED
  BY <1>1, <1>2 DEF TypeInv

\* Appending keeps what is already in the stream where it is.
LEMMA AppendEvent ==
  ASSUME NEW s \in Seq(Events), NEW e \in Events
  PROVE  /\ Append(s, e) \in Seq(Events)
         /\ Len(Append(s, e)) = Len(s) + 1
         /\ \A i \in 1..Len(s) : Append(s, e)[i] = s[i]
         /\ Append(s, e)[Len(s) + 1] = e
  BY AppendProperties

\* At most one more event.
LEMMA StreamExtended ==
  ASSUME stream \in Seq(Events),
         stream' = stream \/ \E event \in Events : stream' = Append(stream, event)
  PROVE  stream' \in Seq(Events) /\ Len(stream') >= Len(stream)
<1>1. CASE stream' = stream
  BY <1>1, LenProperties
<1>2. ASSUME NEW event \in Events, stream' = Append(stream, event)
      PROVE  stream' \in Seq(Events) /\ Len(stream') >= Len(stream)
  <2>1. Len(stream) \in Nat /\ Len(stream') = Len(stream) + 1 /\ stream' \in Seq(Events)
    BY <1>2, AppendEvent, LenProperties
  <2> QED
    BY <2>1
<1> QED
  BY <1>1, <1>2

LEMMA MaybePublishedType ==
  ASSUME stream \in Seq(Events), NEW e \in Events, MaybePublished(e)
  PROVE  /\ stream' \in Seq(Events)
         /\ Len(stream') \in Nat /\ Len(stream') >= Len(stream)
  BY AppendEvent DEF MaybePublished

\* The steps of jobs and operators leave the controller alone.
LEMMA OutsideStep ==
  ASSUME TypeInv,
         UNCHANGED <<controllerVars, cursor, storeVars>>,
         stream' \in Seq(Events), Len(stream') >= Len(stream),
         pc = "start" => UNCHANGED <<stream, jobs>>,
         jobs' \in Seq(Jobs), Len(jobs') = Len(jobs),
         injections' \in 0..MaxInjections
  PROVE  TypeInv'
<1>1. TypeOK'
  <2>1. DOMAIN jobs' = DOMAIN jobs
    BY LenProperties DEF TypeInv, TypeOK
  <2>2. cursor' \in 0..Len(stream')
    BY DEF TypeInv, TypeOK
  <2> QED
    BY <2>1, <2>2 DEF TypeInv, TypeOK, JobIds, controllerVars, storeVars
<1>2. Control'
  BY DEF TypeInv, Control, controllerVars, storeVars
<1> QED
  BY <1>1, <1>2 DEF TypeInv

LEMMA SetJobType ==
  ASSUME jobs \in Seq(Jobs), NEW j \in JobIds, NEW job \in Jobs, SetJob(j, job)
  PROVE  /\ jobs' \in Seq(Jobs)
         /\ Len(jobs') = Len(jobs)
         /\ \A k \in JobIds : jobs'[k] = IF k = j THEN job ELSE jobs[k]
<1>1. JobIds = 1..Len(jobs)
  BY LenProperties DEF JobIds
<1> QED
  BY <1>1, ExceptSeq DEF SetJob

\* What a job step makes of a job is a job still, of the same hat.
LEMMA JobUpdates ==
  ASSUME NEW job \in Jobs
  PROVE  /\ \A status \in Unfinished \cup Finished :
              [job EXCEPT !.status = status] \in Jobs
         /\ \A out \in JobOutputs :
              /\ [job EXCEPT !.status = "succeeded", !.out = out] \in Jobs
              /\ [job EXCEPT !.status = "publishing", !.emits = out.events] \in Jobs
         /\ job.emits # <<>> =>
              [job EXCEPT !.emits = Tail(@), !.sent = @ + 1] \in Jobs
<1>1. ASSUME NEW out \in JobOutputs PROVE out.events \in Seq(Emissions)
  BY DEF JobOutputs
<1>2. job.emits \in Seq(Emissions) /\ job.sent \in Nat
  BY DEF Jobs
<1>3. job.emits # <<>> => Tail(job.emits) \in Seq(Emissions) /\ job.sent + 1 \in Nat
  BY <1>2, HeadTailProperties
<1>4. \A status \in Unfinished \cup Finished : [job EXCEPT !.status = status] \in Jobs
  BY DEF Jobs
<1>5. ASSUME NEW out \in JobOutputs
      PROVE  /\ [job EXCEPT !.status = "succeeded", !.out = out] \in Jobs
             /\ [job EXCEPT !.status = "publishing", !.emits = out.events] \in Jobs
  BY <1>1, <1>5 DEF Jobs, Unfinished, Finished
<1>6. ASSUME job.emits # <<>>
      PROVE  [job EXCEPT !.emits = Tail(@), !.sent = @ + 1] \in Jobs
  BY <1>3, <1>6 DEF Jobs
<1> QED
  BY <1>4, <1>5, <1>6

\* What a job is of never changes: its hat and the event that caused it.
SameOrigin(job, other) == job.hat = other.hat /\ job.cause = other.cause

LEMMA AgentEventType ==
  ASSUME jobs \in Seq(Jobs), NEW j \in JobIds, jobs[j].emits # <<>>
  PROVE  /\ AgentEvent(j) \in Events
         /\ AgentEvent(j).via = "agent" /\ AgentEvent(j).origin = j
<1>1. jobs[j] \in Jobs /\ j \in Nat
  BY LenProperties, ElementOfSeq DEF JobIds
<1>2. Head(jobs[j].emits) \in Emissions /\ jobs[j].sent \in Nat
  BY <1>1, HeadTailProperties DEF Jobs
<1>3. AgentEvent(j) \in Events
  BY <1>1, <1>2, MakeEventType DEF AgentEvent
<1>4. AgentEvent(j).via = "agent" /\ AgentEvent(j).origin = j
  BY DEF AgentEvent, MakeEvent
<1> QED
  BY <1>3, <1>4

\* What a job step makes of the jobs and the stream; the rest it leaves alone.
LEMMA JobStepKeeps ==
  ASSUME jobs \in Seq(Jobs), stream \in Seq(Events), NEW j \in JobIds, JobStep(j)
  PROVE  /\ jobs' \in Seq(Jobs) /\ Len(jobs') = Len(jobs)
         /\ \A k \in JobIds : SameOrigin(jobs'[k], jobs[k])
         /\ \/ stream' = stream
            \/ \E event \in Events : /\ stream' = Append(stream, event)
                                     /\ event.via = "agent"
         /\ UNCHANGED <<controllerVars, cursor, storeVars, injections>>
<1>1. jobs[j] \in Jobs
  BY LenProperties, ElementOfSeq DEF JobIds
<1>2. ASSUME NEW job \in Jobs, SetJob(j, job), SameOrigin(job, jobs[j])
      PROVE  /\ jobs' \in Seq(Jobs) /\ Len(jobs') = Len(jobs)
             /\ \A k \in JobIds : SameOrigin(jobs'[k], jobs[k])
  BY <1>2, SetJobType DEF SameOrigin
<1>3. CASE LocalJobSucceeds(j)
  <2>1. PICK out \in Outputs :
          SetJob(j, [jobs[j] EXCEPT !.status = "succeeded", !.out = out])
    BY <1>3 DEF LocalJobSucceeds
  <2>2. [jobs[j] EXCEPT !.status = "succeeded", !.out = out] \in Jobs
    BY <1>1, JobUpdates, EnvironmentAssumption
  <2>3. SameOrigin([jobs[j] EXCEPT !.status = "succeeded", !.out = out], jobs[j])
    BY <1>1 DEF Jobs, SameOrigin
  <2> QED
    BY <1>2, <1>3, <2>1, <2>2, <2>3 DEF LocalJobSucceeds, brokerVars
<1>4. CASE CommandSucceeds(j)
  <2>1. PICK out \in Outputs :
          SetJob(j, [jobs[j] EXCEPT !.status = "publishing", !.emits = out.events])
    BY <1>4 DEF CommandSucceeds
  <2>2. [jobs[j] EXCEPT !.status = "publishing", !.emits = out.events] \in Jobs
    BY <1>1, JobUpdates, EnvironmentAssumption
  <2>3. SameOrigin([jobs[j] EXCEPT !.status = "publishing", !.emits = out.events], jobs[j])
    BY <1>1 DEF Jobs, SameOrigin
  <2> QED
    BY <1>2, <1>4, <2>1, <2>2, <2>3 DEF CommandSucceeds, brokerVars
<1>5. CASE AgentPublishes(j)
  <2> DEFINE job == [jobs[j] EXCEPT !.emits = Tail(@), !.sent = @ + 1]
             event == AgentEvent(j)
  <2>1. SetJob(j, job) /\ job \in Jobs /\ SameOrigin(job, jobs[j])
    BY <1>1, <1>5, JobUpdates DEF AgentPublishes, Jobs, SameOrigin
  <2>2. event \in Events /\ event.via = "agent"
    BY <1>5, AgentEventType DEF AgentPublishes
  <2>3. stream' = Append(stream, event)
        /\ UNCHANGED <<controllerVars, cursor, storeVars, injections>>
    BY <1>5 DEF AgentPublishes
  <2> HIDE DEF job, event
  <2> QED
    BY <1>2, <2>1, <2>2, <2>3
<1>6. CASE AgentExits(j)
  <2>1. PICK log \in Logs :
          SetJob(j, [jobs[j] EXCEPT !.status = "succeeded", !.out = log])
    BY <1>6 DEF AgentExits
  <2>2. [jobs[j] EXCEPT !.status = "succeeded", !.out = log] \in Jobs
    BY <1>1, JobUpdates, EnvironmentAssumption
  <2>3. SameOrigin([jobs[j] EXCEPT !.status = "succeeded", !.out = log], jobs[j])
    BY <1>1 DEF Jobs, SameOrigin
  <2> QED
    BY <1>2, <1>6, <2>1, <2>2, <2>3 DEF AgentExits, brokerVars
<1>7. CASE JobFails(j)
  <2>1. [jobs[j] EXCEPT !.status = "failed"] \in Jobs
    BY <1>1, JobUpdates DEF Finished
  <2>2. SameOrigin([jobs[j] EXCEPT !.status = "failed"], jobs[j])
    BY <1>1 DEF Jobs, SameOrigin
  <2>3. \/ stream' = stream
        \/ \E event \in Events : stream' = Append(stream, event) /\ event.via = "agent"
    BY <1>7, AgentEventType DEF JobFails
  <2>4. /\ SetJob(j, [jobs[j] EXCEPT !.status = "failed"])
        /\ UNCHANGED <<controllerVars, cursor, storeVars, injections>>
    BY <1>7 DEF JobFails
  <2> QED
    BY <1>2, <2>1, <2>2, <2>3, <2>4
<1> QED
  BY <1>3, <1>4, <1>5, <1>6, <1>7 DEF JobStep

LEMMA JobStepTypeInv ==
  ASSUME TypeInv, NEW j \in JobIds, JobStep(j)
  PROVE  TypeInv' /\ \A k \in JobIds : SameOrigin(jobs'[k], jobs[k])
<1>1. jobs \in Seq(Jobs) /\ stream \in Seq(Events)
  BY DEF TypeInv, TypeOK
<1>2. /\ jobs' \in Seq(Jobs) /\ Len(jobs') = Len(jobs)
      /\ \A k \in JobIds : SameOrigin(jobs'[k], jobs[k])
      /\ \/ stream' = stream
         \/ \E event \in Events : stream' = Append(stream, event)
      /\ UNCHANGED <<controllerVars, cursor, storeVars, injections>>
  BY <1>1, JobStepKeeps
<1>3. stream' \in Seq(Events) /\ Len(stream') >= Len(stream)
  BY <1>1, <1>2, StreamExtended
<1>4. pc # "start"
  BY DEF TypeInv, Control, JobIds
<1>5. injections' \in 0..MaxInjections
  BY <1>2 DEF TypeInv, TypeOK
<1> QED
  BY <1>2, <1>3, <1>4, <1>5, OutsideStep

LEMMA OperatorTypeInv == TypeInv /\ OperatorEmits => TypeInv'
<1> SUFFICES ASSUME TypeInv, OperatorEmits PROVE TypeInv'
  OBVIOUS
<1> USE DEF TypeInv
<1>1. stream \in Seq(Events)
  BY DEF TypeOK
<1>2. PICK topic \in OperatorTopics :
        stream' = Append(stream, MakeEvent(Plain(topic), 0, 0, "operator"))
  BY DEF OperatorEmits
<1>3. MakeEvent(Plain(topic), 0, 0, "operator") \in Events
  BY EnvironmentAssumption, PlainType, MakeEventType
<1>4. stream' \in Seq(Events) /\ Len(stream') >= Len(stream)
  BY <1>1, <1>2, <1>3, AppendEvent, LenProperties
<1>5. /\ UNCHANGED <<controllerVars, cursor, storeVars>> /\ jobs' = jobs
      /\ pc # "start"
  BY DEF OperatorEmits, Control
<1>6. injections' \in 0..MaxInjections
  BY EnvironmentAssumption DEF OperatorEmits, TypeOK
<1>7. jobs' \in Seq(Jobs) /\ Len(jobs') = Len(jobs)
  BY <1>5 DEF TypeOK
<1> QED
  BY <1>4, <1>5, <1>6, <1>7, OutsideStep

\* Steps that end the run and change nothing else of the controller's.
LEMMA StopStep ==
  ASSUME TypeInv, pc # "stopped",
         NEW value \in Results \ {"none"}, Return(value),
         UNCHANGED <<counters, active, batch, pending, outbox, cursor, jobs,
                     storeVars, injections>>,
         stream' \in Seq(Events), Len(stream') >= Len(stream)
  PROVE  TypeInv'
<1> USE DEF TypeInv, counters, storeVars, Return
<1>1. TypeOK'
  BY DEF TypeOK, JobIds
<1>2. Control'
  BY DEF Control, Results
<1> QED
  BY <1>1, <1>2

LEMMA StopTypeInv ==
  ASSUME TypeInv,
         \/ StartFails \/ StopAtMaxIterations \/ TimeOut \/ SubscriptionEnds
         \/ \E h \in Hats : CreateJobFails(h)
         \/ WaitFails \/ PublishFails
  PROVE  TypeInv'
<1>1. stream \in Seq(Events) /\ Len(stream) \in Nat
  BY DEF TypeInv, TypeOK
<1>2. CASE StartFails
  <2>1. stream' \in Seq(Events) /\ Len(stream') >= Len(stream)
    BY <1>1, <1>2, FirstEventType, MaybePublishedType DEF StartFails
  <2> QED
    BY <1>2, <2>1, StopStep DEF StartFails, Results
<1>3. CASE StopAtMaxIterations
  BY <1>1, <1>3, StopStep DEF StopAtMaxIterations, Results, brokerVars
<1>4. CASE TimeOut
  BY <1>1, <1>4, StopStep DEF TimeOut, Listening, Results, brokerVars
<1>5. CASE SubscriptionEnds
  BY <1>1, <1>5, StopStep DEF SubscriptionEnds, Listening, Results, brokerVars
<1>6. ASSUME NEW h \in Hats, CreateJobFails(h) PROVE TypeInv'
  BY <1>1, <1>6, StopStep DEF CreateJobFails, Activating, Results, brokerVars
<1>7. CASE WaitFails
  BY <1>1, <1>7, StopStep DEF WaitFails, Results, brokerVars
<1>8. CASE PublishFails
  <2>1. Head(outbox) \in Events
    BY <1>8, HeadTailProperties DEF PublishFails, TypeInv, TypeOK
  <2>2. stream' \in Seq(Events) /\ Len(stream') >= Len(stream)
    BY <1>1, <1>8, <2>1, MaybePublishedType DEF PublishFails
  <2> QED
    BY <1>8, <2>2, StopStep DEF PublishFails, Results
<1> QED
  BY <1>2, <1>3, <1>4, <1>5, <1>6, <1>7, <1>8

LEMMA StartTypeInv == TypeInv /\ Start => TypeInv'
<1> SUFFICES ASSUME TypeInv, Start PROVE TypeInv'
  OBVIOUS
<1> USE DEF TypeInv, Start, counters, storeVars
<1>1. stream \in Seq(Events) /\ Len(stream) = 0
  BY DEF TypeOK, Control
<1>2. stream' \in Seq(Events) /\ Len(stream') \in Nat
  <2>1. Append(stream, FirstEvent) \in Seq(Events)
    BY <1>1, FirstEventType, AppendEvent
  <2> QED
    BY <1>1, <2>1, LenProperties
<1>3. cursor' = 0
  BY <1>1 DEF Subscribed
<1>4. TypeOK'
  BY <1>2, <1>3 DEF TypeOK, JobIds
<1>5. Control'
  BY DEF Control
<1> QED
  BY <1>4, <1>5

LEMMA DeliverTypes ==
  ASSUME TypeInv, Deliver
  PROVE  /\ NextEvent \in Events
         /\ seen' \in Seq(Topics)
         /\ cursor' \in 1..Len(stream) /\ cursor' = cursor + 1
         /\ stream' = stream
<1> USE DEF TypeInv, Deliver
<1>1. stream \in Seq(Events) /\ cursor + 1 \in 1..Len(stream)
  BY DEF TypeOK
<1>2. NextEvent \in Events
  BY <1>1, ElementOfSeq DEF NextEvent
<1>3. NextEvent.topic \in Topics
  BY <1>2 DEF Events
<1>4. seen' \in Seq(Topics)
  BY <1>3, AppendProperties DEF TypeOK
<1> QED
  BY <1>1, <1>2, <1>4

LEMMA ReceiveTypeInv == TypeInv /\ (Complete \/ Receive) => TypeInv'
<1> SUFFICES ASSUME TypeInv, Complete \/ Receive PROVE TypeInv'
  OBVIOUS
<1> USE DEF TypeInv
<1>1. Deliver
  BY DEF Complete, Receive
<1>2. /\ seen' \in Seq(Topics) /\ stream' = stream
      /\ cursor' \in 1..Len(stream) /\ pc = "receive"
  BY <1>1, DeliverTypes DEF Deliver, Listening
<1>3. CASE Complete
  <2>1. TypeOK'
    BY <1>1, <1>2, <1>3 DEF Complete, Deliver, Return, TypeOK, Results, JobIds, storeVars
  <2>2. Control'
    BY <1>2, <1>3 DEF Complete, Deliver, Return, Control
  <2> QED
    BY <2>1, <2>2
<1>4. CASE Receive
  <2>1. batch' \in Seq(Hats)
    BY <1>4, RouteType DEF Receive
  <2>2. TypeOK'
    BY <1>1, <1>2, <1>4, <2>1 DEF Receive, Deliver, TypeOK, JobIds, storeVars
  <2>3. Control'
    BY <1>1, <1>2, <1>4 DEF Receive, Deliver, Control
  <2> QED
    BY <2>2, <2>3
<1> QED
  BY <1>3, <1>4

\* The two steps that count a failure, and end the run with the third one.
LEMMA Strike ==
  ASSUME TypeInv, pc # "stopped",
         consecutiveFailures' = consecutiveFailures + 1,
         IF TooManyFailures(consecutiveFailures')
         THEN Return("Failed")
         ELSE UNCHANGED <<pc, result>>
  PROVE  /\ consecutiveFailures' \in 0..3
         /\ pc' \in {pc, "stopped"}
         /\ result' \in Results
         /\ result' = "none" <=> pc' # "stopped"
         /\ pc' # "stopped" => consecutiveFailures' < 3
         /\ result' = "Failed" => consecutiveFailures' >= 3
<1>1. consecutiveFailures \in 0..2 /\ result = "none"
  BY DEF TypeInv, TypeOK, Control
<1>2. consecutiveFailures' \in 1..3
  BY <1>1
<1>3. CASE TooManyFailures(consecutiveFailures')
  <2>1. pc' = "stopped" /\ result' = "Failed"
    BY <1>3 DEF Return
  <2>2. consecutiveFailures' >= 3
    BY <1>3 DEF TooManyFailures
  <2> QED
    BY <1>2, <2>1, <2>2 DEF Results
<1>4. CASE ~TooManyFailures(consecutiveFailures')
  <2>1. pc' = pc /\ result' = "none"
    BY <1>1, <1>4
  <2>2. consecutiveFailures' < 3
    BY <1>2, <1>4 DEF TooManyFailures
  <2> QED
    BY <1>2, <2>1, <2>2 DEF Results
<1> QED
  BY <1>3, <1>4

LEMMA GateTypeInv == ASSUME TypeInv, NEW h \in Hats, GateFails(h) PROVE TypeInv'
<1> USE DEF TypeInv
<1>1. /\ pc = "activate" /\ pc' \in {pc, "stopped"}
      /\ consecutiveFailures' \in 0..3 /\ result' \in Results
      /\ result' = "none" <=> pc' # "stopped"
      /\ pc' # "stopped" => consecutiveFailures' < 3
  BY Strike DEF GateFails, Activating
<1>2. batch' \in Seq(Hats)
  <2>1. batch \in Seq(Hats) /\ batch # <<>> /\ batch' = Tail(batch)
    BY DEF GateFails, Activating, TypeOK
  <2> QED
    BY <2>1, HeadTailProperties
<1>3. TypeOK'
  BY <1>1, <1>2 DEF GateFails, TypeOK, JobIds, brokerVars, storeVars
<1>4. Control'
  BY <1>1 DEF GateFails, Control, brokerVars
<1> QED
  BY <1>3, <1>4

LEMMA CreateTypeInv == ASSUME TypeInv, NEW h \in Hats, CreateJob(h) PROVE TypeInv'
<1> DEFINE job == [hat |-> h, cause |-> cursor, status |-> "running",
                   out |-> Silent, emits |-> <<>>, sent |-> 0]
<1> USE DEF TypeInv
<1>1. jobs \in Seq(Jobs) /\ Len(jobs) \in Nat /\ DOMAIN jobs = 1..Len(jobs)
  BY LenProperties DEF TypeOK
<1>2. job \in Jobs
  <2>1. Silent \in JobOutputs /\ <<>> \in Seq(Emissions)
    BY DEF Silent, JobOutputs
  <2>2. cursor \in Nat \ {0}
    BY DEF CreateJob, Activating, Control, TypeOK
  <2> QED
    BY <2>1, <2>2 DEF Jobs, Unfinished
<1>3. jobs' = Append(jobs, job)
  BY DEF CreateJob
<1> HIDE DEF job
<1>4. /\ jobs' \in Seq(Jobs) /\ Len(jobs') = Len(jobs) + 1
      /\ DOMAIN jobs' = 1..Len(jobs')
  BY <1>1, <1>2, <1>3, AppendProperties, LenProperties
<1>5. /\ pending \in Seq(Nat \ {0}) /\ Len(jobs') \in Nat \ {0}
      /\ pending' = Append(pending, Len(jobs'))
  <2>1. pending \in Seq(Nat \ {0}) /\ pending' = Append(pending, Len(jobs'))
    BY DEF CreateJob, TypeOK
  <2>2. Len(jobs') \in Nat \ {0}
    BY <1>1, <1>4
  <2> QED
    BY <2>1, <2>2
<1>6. /\ pending' \in Seq(Nat \ {0}) /\ Len(pending') = Len(pending) + 1
      /\ \A i \in 1..Len(pending) : pending'[i] = pending[i]
      /\ pending'[Len(pending) + 1] = Len(jobs')
  BY <1>5, AppendProperties
<1>7. batch' \in Seq(Hats)
  <2>1. batch \in Seq(Hats) /\ batch # <<>> /\ batch' = Tail(batch)
    BY DEF CreateJob, Activating, TypeOK
  <2> QED
    BY <2>1, HeadTailProperties
<1>8. TypeOK'
  <2>1. active' \subseteq Hats /\ iterations' \in Nat /\ activations' \in [Hats -> Nat]
    <3>1. /\ active \subseteq Hats /\ active' = active \cup {h}
          /\ iterations \in Nat /\ iterations' = iterations + 1
          /\ activations \in [Hats -> Nat]
          /\ activations' = [activations EXCEPT ![h] = @ + 1]
      BY DEF CreateJob, TypeOK
    <3> QED
      BY <3>1
  <2>2. noted' \subseteq DOMAIN jobs'
    BY <1>1, <1>4, LenProperties DEF CreateJob, TypeOK, JobIds, storeVars
  <2>3. UNCHANGED <<pc, result, consecutiveFailures, globalSequence, seen, outbox,
                    stream, cursor, checkpoint, injections>>
    BY DEF CreateJob, brokerVars, storeVars
  <2> QED
    BY <1>4, <1>6, <1>7, <2>1, <2>2, <2>3 DEF TypeOK, JobIds
<1>9. Control'
  <2>1. \A i \in 1..Len(pending') : pending'[i] \in 1..Len(jobs')
    <3> SUFFICES ASSUME NEW i \in 1..Len(pending') PROVE pending'[i] \in 1..Len(jobs')
      OBVIOUS
    <3>1. Len(pending) \in Nat
      BY <1>5, LenProperties
    <3>2. CASE i \in 1..Len(pending)
      BY <1>1, <1>4, <1>6, <3>2 DEF Control
    <3>3. CASE i = Len(pending) + 1
      BY <1>1, <1>4, <1>6, <3>3
    <3> QED
      BY <1>6, <3>1, <3>2, <3>3
  <2>2. /\ pc = "activate" /\ pc' = pc /\ result' = result /\ outbox' = outbox
        /\ consecutiveFailures' = consecutiveFailures /\ cursor' = cursor
    BY DEF CreateJob, Activating, brokerVars
  <2> QED
    BY <2>1, <2>2 DEF Control
<1> QED
  BY <1>8, <1>9

\* Dropping the head of the pending jobs leaves job numbers.
LEMMA TailPending ==
  ASSUME TypeInv, pending # <<>>
  PROVE  /\ Tail(pending) \in Seq(Nat \ {0})
         /\ \A i \in 1..Len(Tail(pending)) : Tail(pending)[i] \in 1..Len(jobs)
         /\ Head(pending) \in 1..Len(jobs)
<1>1. pending \in Seq(Nat \ {0}) /\ Len(pending) \in Nat \ {0}
  BY EmptySeq DEF TypeInv, TypeOK
<1>2. /\ Tail(pending) \in Seq(Nat \ {0}) /\ Len(Tail(pending)) = Len(pending) - 1
      /\ \A i \in 1..Len(Tail(pending)) : Tail(pending)[i] = pending[i + 1]
  BY <1>1, HeadTailProperties
<1>3. Head(pending) = pending[1]
  BY <1>1
<1> QED
  BY <1>1, <1>2, <1>3 DEF TypeInv, Control

LEMMA SucceededTypeInv == ASSUME TypeInv, NEW j \in JobIds, JobSucceeded(j) PROVE TypeInv'
<1> USE DEF TypeInv
<1>1. jobs[j] \in Jobs /\ j \in Nat
  BY LenProperties, ElementOfSeq DEF TypeOK, JobIds
<1>2. Published(jobs[j].hat, jobs[j].out) \in Seq(Emissions)
  BY <1>1, PublishedType DEF Jobs
<1>3. outbox' \in Seq(Events)
  BY <1>1, <1>2, NumberedType DEF JobSucceeded, TypeOK
<1>4. globalSequence' \in Nat \ {0}
  BY <1>2, LenProperties DEF JobSucceeded, SequenceAfter, TypeOK
<1>5. TypeOK'
  BY <1>3, <1>4 DEF JobSucceeded, FailuresAfterSuccess, TypeOK, JobIds, brokerVars, storeVars
<1>6. Control'
  BY DEF JobSucceeded, FailuresAfterSuccess, Waiting, Control, brokerVars
<1> QED
  BY <1>5, <1>6

LEMMA FailedTypeInv == ASSUME TypeInv, NEW j \in JobIds, JobFailed(j) PROVE TypeInv'
<1> USE DEF TypeInv
<1>1. /\ pc = "wait" /\ pc' \in {pc, "stopped"}
      /\ consecutiveFailures' \in 0..3 /\ result' \in Results
      /\ result' = "none" <=> pc' # "stopped"
      /\ pc' # "stopped" => consecutiveFailures' < 3
  BY Strike DEF JobFailed, Waiting
<1>2. /\ pending' \in Seq(Nat \ {0})
      /\ \A i \in 1..Len(pending') : pending'[i] \in 1..Len(jobs)
  BY TailPending DEF JobFailed, Waiting, AfterFailure
<1>3. TypeOK'
  BY <1>1, <1>2 DEF JobFailed, TypeOK, JobIds, brokerVars, storeVars
<1>4. Control'
  BY <1>1, <1>2 DEF JobFailed, Control, brokerVars
<1> QED
  BY <1>3, <1>4

LEMMA PublishTypeInv == TypeInv /\ Publish => TypeInv'
<1> SUFFICES ASSUME TypeInv, Publish PROVE TypeInv'
  OBVIOUS
<1> USE DEF TypeInv
<1>1. /\ stream \in Seq(Events) /\ outbox \in Seq(Events)
      /\ Head(outbox) \in Events /\ Tail(outbox) \in Seq(Events)
  BY HeadTailProperties DEF Publish, TypeOK
<1>2. stream' \in Seq(Events) /\ Len(stream') = Len(stream) + 1 /\ Len(stream) \in Nat
  BY <1>1, AppendEvent, LenProperties DEF Publish
<1>3. TypeOK'
  BY <1>1, <1>2 DEF Publish, TypeOK, JobIds, counters, storeVars
<1>4. Control'
  BY DEF Publish, Control, counters
<1> QED
  BY <1>3, <1>4

LEMMA PersistTypeInv == TypeInv /\ PersistNotes => TypeInv'
<1> SUFFICES ASSUME TypeInv, PersistNotes PROVE TypeInv'
  OBVIOUS
<1> USE DEF TypeInv
<1>1. /\ pending' \in Seq(Nat \ {0})
      /\ \A i \in 1..Len(pending') : pending'[i] \in 1..Len(jobs)
      /\ Head(pending) \in 1..Len(jobs)
  BY TailPending DEF PersistNotes, Control
<1>2. noted' \subseteq JobIds
  BY <1>1, LenProperties DEF PersistNotes, TypeOK, JobIds
<1>3. TypeOK'
  BY <1>1, <1>2 DEF PersistNotes, TypeOK, JobIds, counters, brokerVars
<1>4. Control'
  BY <1>1 DEF PersistNotes, Control, counters, brokerVars
<1> QED
  BY <1>3, <1>4

LEMMA TurnTypeInv == TypeInv /\ (AwaitBatch \/ EndIteration) => TypeInv'
<1> SUFFICES ASSUME TypeInv, AwaitBatch \/ EndIteration PROVE TypeInv'
  OBVIOUS
<1> USE DEF TypeInv
<1>1. checkpoint' \in Checkpoints \cup {NoCheckpoint}
  <2>1. Snapshot \in Checkpoints
    BY DEF Snapshot, Checkpoints, TypeOK
  <2> QED
    BY <2>1 DEF AwaitBatch, EndIteration, storeVars, TypeOK
<1>2. TypeOK'
  BY <1>1 DEF AwaitBatch, EndIteration, TypeOK, JobIds, counters, brokerVars, storeVars
<1>3. Control'
  BY DEF AwaitBatch, EndIteration, Control, counters, brokerVars
<1> QED
  BY <1>2, <1>3

LEMMA NextTypeInv == TypeInv /\ [Next]_vars => TypeInv'
<1> SUFFICES ASSUME TypeInv, [Next]_vars PROVE TypeInv'
  OBVIOUS
<1>1. CASE Progress
  BY <1>1, StartTypeInv, StopTypeInv, ReceiveTypeInv, GateTypeInv, CreateTypeInv,
     TurnTypeInv, SucceededTypeInv, FailedTypeInv, PublishTypeInv, PersistTypeInv
     DEF Progress
<1>2. CASE Fault
  BY <1>2, StopTypeInv DEF Fault
<1>3. CASE \E j \in JobIds : JobStep(j)
  BY <1>3, JobStepTypeInv
<1>4. CASE OperatorEmits
  BY <1>4, OperatorTypeInv
<1>5. CASE UNCHANGED vars
  BY <1>5 DEF TypeInv, TypeOK, Control, JobIds, vars, controllerVars, brokerVars, storeVars
<1> QED
  BY <1>1, <1>2, <1>3, <1>4, <1>5 DEF Next, AllDone

LEMMA TypeInvariant == Spec => []TypeInv
  BY InitTypeInv, NextTypeInv, PTL DEF Spec

(***************************************************************************)
(* Type correctness: every value of the controller, the stream, the jobs   *)
(* and the store has its type in every reachable state, for every          *)
(* configuration (reconciler.rs:83-379).                                   *)
(***************************************************************************)
THEOREM TypeCorrect == Spec => []TypeOK
  BY TypeInvariant, PTL DEF TypeInv

-----------------------------------------------------------------------------
(* Frames: what every step leaves alone.                                   *)

StreamKept ==
  /\ stream \in Seq(Events) /\ stream' \in Seq(Events)
  /\ Len(stream) \in Nat /\ Len(stream') \in Nat
  /\ Len(stream') >= Len(stream)
  /\ \A i \in 1..Len(stream) : stream'[i] = stream[i]

\* The stream only ever grows at its end.
LEMMA StreamGrows == TypeInv /\ [Next]_vars => StreamKept
<1> SUFFICES ASSUME TypeInv, [Next]_vars PROVE StreamKept
  OBVIOUS
<1>1. TypeInv'
  BY NextTypeInv
<1>2. /\ stream \in Seq(Events) /\ stream' \in Seq(Events)
      /\ Len(stream) \in Nat /\ Len(stream') \in Nat
  BY <1>1, LenProperties DEF TypeInv, TypeOK
<1>3. ASSUME NEW e, stream' = Append(stream, e) PROVE StreamKept
  BY <1>2, <1>3 DEF StreamKept
<1>4. CASE stream' = stream
  BY <1>2, <1>4 DEF StreamKept
<1>5. CASE Progress
  BY <1>3, <1>4, <1>5
     DEF Progress, Start, StopAtMaxIterations, TimeOut, Complete, Receive, Deliver,
         GateFails, CreateJob, AwaitBatch, JobSucceeded, JobFailed, Publish,
         PersistNotes, EndIteration, brokerVars
<1>6. CASE Fault
  BY <1>3, <1>4, <1>6
     DEF Fault, StartFails, SubscriptionEnds, CreateJobFails, WaitFails, PublishFails,
         MaybePublished, brokerVars
<1>7. CASE \E j \in JobIds : JobStep(j)
  BY <1>3, <1>4, <1>7
     DEF JobStep, LocalJobSucceeds, CommandSucceeds, AgentPublishes, AgentExits,
         JobFails, brokerVars
<1>8. CASE OperatorEmits
  BY <1>3, <1>8 DEF OperatorEmits
<1> QED
  BY <1>4, <1>5, <1>6, <1>7, <1>8 DEF Next, AllDone, vars, brokerVars


-----------------------------------------------------------------------------
(* The iteration budget.                                                   *)

(***************************************************************************)
(* IterationBound is not inductive: inside a batch, the hats still to      *)
(* start have a claim on the budget too.                                   *)
(***************************************************************************)
BudgetInv ==
  /\ cursor = 0 => iterations = 0 /\ batch = <<>>
  /\ cursor > 0 =>
       iterations + Len(batch)
         < MaxIterations + Cardinality(Interested(stream[cursor]))

LEMMA NextBudgetInv == TypeInv /\ BudgetInv /\ [Next]_vars => BudgetInv'
<1> SUFFICES ASSUME TypeInv, BudgetInv, [Next]_vars PROVE BudgetInv'
  OBVIOUS
<1>1. StreamKept
  BY StreamGrows
<1>2. /\ cursor \in 0..Len(stream) /\ iterations \in Nat /\ batch \in Seq(Hats)
      /\ Len(batch) \in Nat /\ MaxIterations \in Nat
  BY ConfigAssumption, LenProperties DEF TypeInv, TypeOK
<1>3. \A event : Cardinality(Interested(event)) \in Nat
  <2> TAKE event
  <2>1. Interested(event) \subseteq Hats /\ IsFiniteSet(Hats)
    BY HatsAssumption DEF Interested
  <2> QED
    BY <2>1, FS_Subset, FS_CardinalityType
<1>4. cursor > 0 => stream'[cursor] = stream[cursor]
  BY <1>1, <1>2 DEF StreamKept
<1>5. CASE UNCHANGED <<iterations, batch, cursor>>
  BY <1>2, <1>4, <1>5 DEF BudgetInv
<1>6. CASE Start
  <2>1. Len(stream) = 0
    BY <1>6 DEF Start, TypeInv, Control
  <2>2. cursor = 0 /\ cursor' = 0 /\ iterations' = iterations /\ batch' = batch
    BY <1>2, <1>6, <2>1 DEF Start, Subscribed, counters
  <2> QED
    BY <2>2 DEF BudgetInv
<1>7. CASE Complete \/ Receive
  <2>1. /\ cursor' = cursor + 1 /\ iterations' = iterations
        /\ stream' = stream /\ iterations < MaxIterations /\ batch = <<>>
    BY <1>7 DEF Complete, Receive, Deliver, Listening, BudgetLeft, TypeInv, Control
  <2>2. Len(batch') <= Cardinality(Interested(stream'[cursor'])) /\ Len(batch') \in Nat
    <3>1. CASE Complete
      BY <1>3, <2>1, <3>1 DEF Complete
    <3>2. CASE Receive
      BY <2>1, <3>2, RouteType, LenProperties DEF Receive, NextEvent
    <3> QED
      BY <1>7, <3>1, <3>2
  <2> QED
    BY <1>2, <1>3, <2>1, <2>2 DEF BudgetInv
<1>8. ASSUME NEW h \in Hats, GateFails(h) \/ CreateJob(h) PROVE BudgetInv'
  <2>1. /\ iterations' = iterations + 1 /\ batch' = Tail(batch) /\ batch # <<>>
        /\ cursor' = cursor
    BY <1>8 DEF GateFails, CreateJob, Activating, brokerVars
  <2>2. Len(batch') = Len(batch) - 1
    BY <1>2, <2>1, HeadTailProperties
  <2> QED
    BY <1>2, <1>3, <1>4, <2>1, <2>2 DEF BudgetInv
<1>9. CASE Progress
  <2>1. CASE \E j \in JobIds : JobSucceeded(j) \/ JobFailed(j)
    BY <1>5, <2>1 DEF JobSucceeded, JobFailed, brokerVars
  <2>2. CASE StopAtMaxIterations \/ TimeOut \/ AwaitBatch \/ Publish \/ PersistNotes
               \/ EndIteration
    BY <1>5, <2>2
       DEF StopAtMaxIterations, TimeOut, AwaitBatch, Publish, PersistNotes,
           EndIteration, counters, brokerVars
  <2> QED
    BY <1>6, <1>7, <1>8, <1>9, <2>1, <2>2 DEF Progress
<1>10. CASE Fault
  BY <1>5, <1>10
     DEF Fault, StartFails, SubscriptionEnds, CreateJobFails, WaitFails, PublishFails,
         counters, brokerVars
<1>11. CASE \E j \in JobIds : JobStep(j)
  BY <1>5, <1>11
     DEF JobStep, LocalJobSucceeds, CommandSucceeds, AgentPublishes, AgentExits,
         JobFails, brokerVars, controllerVars
<1> QED
  BY <1>5, <1>9, <1>10, <1>11
     DEF Next, AllDone, OperatorEmits, vars, controllerVars, brokerVars

(***************************************************************************)
(* However many hats an event wakes, the run overshoots max_iterations by  *)
(* less than the number of hats interested in the last event it took: the  *)
(* budget is read once per batch (reconciler.rs:136) and every hat of the  *)
(* batch spends one iteration, started or stopped by a gate (194, 219).    *)
(***************************************************************************)
THEOREM BudgetHolds == Spec => []IterationBound
<1>1. Init => BudgetInv
  BY DEF Init, BudgetInv
<1>2. TypeInv /\ BudgetInv => IterationBound
  <2> SUFFICES ASSUME TypeInv, BudgetInv PROVE IterationBound
    OBVIOUS
  <2>1. iterations \in Nat /\ Len(batch) \in Nat /\ MaxIterations \in Nat
    BY ConfigAssumption, LenProperties DEF TypeInv, TypeOK
  <2>2. Cardinality(Interested(stream[cursor])) \in Nat
    <3>1. Interested(stream[cursor]) \subseteq Hats /\ IsFiniteSet(Hats)
      BY HatsAssumption DEF Interested
    <3> QED
      BY <3>1, FS_Subset, FS_CardinalityType
  <2> QED
    BY <2>1, <2>2 DEF BudgetInv, IterationBound
<1> QED
  BY <1>1, <1>2, NextBudgetInv, TypeInvariant, PTL DEF Spec

-----------------------------------------------------------------------------
(* Quiet stops.                                                            *)

(***************************************************************************)
(* QuietStop speaks of the end only; while the run is on, every unfinished *)
(* job is still on the list of jobs to wait for.                           *)
(***************************************************************************)
Awaited(j) == \E i \in 1..Len(pending) : pending[i] = j

AwaitInv ==
  /\ pc # "stopped" => \A j \in 1..Len(jobs) : IsFinished(j) \/ Awaited(j)
  /\ pc = "publish" => IsFinished(Head(pending))
  /\ QuietStop

\* Jobs keep their number, hat and cause, and one that is over changes no more.
JobKept(j) ==
  /\ jobs'[j].hat = jobs[j].hat
  /\ jobs'[j].cause = jobs[j].cause
  /\ IsFinished(j) => IsFinished(j)' /\ jobs'[j] = jobs[j]

JobsKept ==
  /\ jobs \in Seq(Jobs) /\ jobs' \in Seq(Jobs)
  /\ DOMAIN jobs = 1..Len(jobs) /\ DOMAIN jobs' = 1..Len(jobs')
  /\ Len(jobs) \in Nat /\ Len(jobs') \in Nat
  /\ Len(jobs') >= Len(jobs)
  /\ \A j \in 1..Len(jobs) : JobKept(j)

LEMMA SetJobKeeps ==
  ASSUME TypeInv, NEW j \in JobIds, JobStep(j)
  PROVE  /\ Len(jobs') = Len(jobs)
         /\ \A k \in 1..Len(jobs) : JobKept(k)
<1>1. jobs \in Seq(Jobs) /\ JobIds = 1..Len(jobs)
  BY LenProperties DEF TypeInv, TypeOK, JobIds
<1>2. TypeInv' /\ \A k \in JobIds : SameOrigin(jobs'[k], jobs[k])
  BY JobStepTypeInv
<1>3. ~IsFinished(j)
  BY DEF JobStep, LocalJobSucceeds, CommandSucceeds, AgentPublishes, AgentExits,
         JobFails, IsFinished, Finished, Unfinished
<1>4. PICK job : jobs' = [jobs EXCEPT ![j] = job]
  BY DEF JobStep, LocalJobSucceeds, CommandSucceeds, AgentPublishes, AgentExits,
         JobFails, SetJob
<1>5. /\ Len(jobs') = Len(jobs)
      /\ \A k \in JobIds : k # j => jobs'[k] = jobs[k]
  <2>1. DOMAIN jobs' = DOMAIN jobs
    BY <1>4
  <2>2. /\ DOMAIN jobs = 1..Len(jobs) /\ DOMAIN jobs' = 1..Len(jobs')
        /\ Len(jobs) \in Nat /\ Len(jobs') \in Nat
    BY <1>1, <1>2, LenProperties DEF TypeInv, TypeOK
  <2> QED
    BY <1>4, <2>1, <2>2 DEF JobIds
<1> QED
  BY <1>1, <1>2, <1>3, <1>5 DEF JobKept, SameOrigin, IsFinished

LEMMA JobsGrow == TypeInv /\ [Next]_vars => JobsKept
<1> SUFFICES ASSUME TypeInv, [Next]_vars PROVE JobsKept
  OBVIOUS
<1>1. TypeInv'
  BY NextTypeInv
<1>2. /\ jobs \in Seq(Jobs) /\ jobs' \in Seq(Jobs)
      /\ DOMAIN jobs = 1..Len(jobs) /\ DOMAIN jobs' = 1..Len(jobs')
      /\ Len(jobs) \in Nat /\ Len(jobs') \in Nat
  BY <1>1, LenProperties DEF TypeInv, TypeOK
<1>3. CASE jobs' = jobs
  BY <1>2, <1>3 DEF JobsKept, JobKept, IsFinished
<1>4. ASSUME NEW h \in Hats, CreateJob(h) PROVE JobsKept
  <2>1. PICK job : jobs' = Append(jobs, job)
    BY <1>4 DEF CreateJob
  <2> QED
    BY <1>2, <2>1 DEF JobsKept, JobKept, IsFinished
<1>5. ASSUME NEW j \in JobIds, JobStep(j) PROVE JobsKept
  <2>1. /\ Len(jobs') = Len(jobs)
        /\ \A k \in 1..Len(jobs) : JobKept(k)
    BY <1>5, SetJobKeeps
  <2> QED
    BY <1>2, <2>1 DEF JobsKept
<1>6. CASE Progress
  <2>1. CASE \E j \in JobIds : JobSucceeded(j) \/ JobFailed(j)
    BY <1>3, <2>1 DEF JobSucceeded, JobFailed
  <2>2. CASE \E h \in Hats : GateFails(h)
    BY <1>3, <2>2 DEF GateFails
  <2> QED
    BY <1>3, <1>4, <1>6, <2>1, <2>2
       DEF Progress, Start, StopAtMaxIterations, TimeOut, Complete, Receive, Deliver,
           AwaitBatch, Publish, PersistNotes, EndIteration
<1>7. CASE Fault
  BY <1>3, <1>7 DEF Fault, StartFails, SubscriptionEnds, CreateJobFails, WaitFails,
                    PublishFails
<1> QED
  BY <1>3, <1>5, <1>6, <1>7 DEF Next, OperatorEmits, AllDone, vars

LEMMA NextAwaitInv == TypeInv /\ AwaitInv /\ [Next]_vars => AwaitInv'
<1> SUFFICES ASSUME TypeInv, AwaitInv, [Next]_vars PROVE AwaitInv'
  OBVIOUS
<1>1. JobsKept
  BY JobsGrow
<1>2. /\ pending \in Seq(Nat \ {0}) /\ Len(pending) \in Nat
      /\ pc # "stopped" => result = "none"
      /\ pc' # "stopped" => result' = "none"
  BY NextTypeInv, LenProperties DEF TypeInv, TypeOK, Control
<1>3. JobIds = 1..Len(jobs) /\ JobIds' = 1..Len(jobs')
  BY <1>1 DEF JobsKept, JobIds
<1>4. pc = "publish" => Head(pending) \in 1..Len(jobs) /\ IsFinished(Head(pending))
  BY TailPending DEF AwaitInv, TypeInv, Control
\* Steps that leave the list of jobs to wait for alone.
<1>5. ASSUME Len(jobs') = Len(jobs), pending' = pending,
             pc' = "publish" => pc = "publish",
             pc = "stopped" => pc' = "stopped" /\ result' = result,
             pc # "stopped" /\ pc' = "stopped"
               => result' \in {"Error", "Failed"} \/ pending = <<>>
      PROVE  AwaitInv'
  <2>1. pc' = "publish" => IsFinished(Head(pending))'
    BY <1>1, <1>4, <1>5 DEF JobsKept, JobKept
  <2>2. ASSUME NEW j \in 1..Len(jobs'), IsFinished(j) \/ Awaited(j)
        PROVE  (IsFinished(j) \/ Awaited(j))'
    BY <1>1, <1>5, <2>2 DEF JobsKept, JobKept, Awaited
  <2>3. pc # "stopped" => \A j \in 1..Len(jobs') : (IsFinished(j) \/ Awaited(j))'
    BY <1>5, <2>2 DEF AwaitInv
  <2>4. QuietStop'
    <3>1. CASE pc' # "stopped"
      BY <1>2, <3>1 DEF QuietStop
    <3>2. CASE pc = "stopped"
      BY <1>1, <1>3, <1>5, <3>2 DEF AwaitInv, QuietStop, JobsKept, JobKept
    <3>3. CASE pc # "stopped" /\ pending = <<>>
      BY <1>3, <1>5, <2>3, <3>3 DEF QuietStop, Awaited
    <3>4. CASE pc # "stopped" /\ pc' = "stopped" /\ result' \in {"Error", "Failed"}
      BY <3>4 DEF QuietStop
    <3> QED
      BY <1>5, <3>1, <3>2, <3>3, <3>4
  <2> QED
    BY <1>5, <2>1, <2>3, <2>4 DEF AwaitInv
<1>6. ASSUME NEW h \in Hats, CreateJob(h) PROVE AwaitInv'
  <2>1. /\ Len(jobs') = Len(jobs) + 1
        /\ pending' = Append(pending, Len(jobs'))
        /\ pc = "activate" /\ pc' = pc /\ result' = "none"
    BY <1>1, <1>2, <1>6 DEF CreateJob, Activating, JobsKept
  <2>2. /\ \A i \in 1..Len(pending) : pending'[i] = pending[i]
        /\ pending'[Len(pending) + 1] = Len(jobs')
        /\ Len(pending') = Len(pending) + 1
    BY <1>2, <2>1
  <2>3. ASSUME NEW j \in 1..Len(jobs) PROVE (IsFinished(j) \/ Awaited(j))'
    <3>1. CASE IsFinished(j)
      BY <1>1, <3>1 DEF JobsKept, JobKept
    <3>2. CASE Awaited(j)
      BY <1>2, <2>2, <3>2 DEF Awaited
    <3> QED
      BY <2>1, <3>1, <3>2 DEF AwaitInv
  <2>4. \E i \in 1..Len(pending') : pending'[i] = Len(jobs')
    BY <1>2, <2>2
  <2>5. \A j \in 1..Len(jobs') : j \in 1..Len(jobs) \/ j = Len(jobs')
    BY <1>1, <2>1 DEF JobsKept
  <2> QED
    BY <2>1, <2>3, <2>4, <2>5 DEF AwaitInv, QuietStop, Awaited
\* Steps that stop waiting for a job that is over.
<1>7. ASSUME jobs' = jobs, pending # <<>>, pending' = Tail(pending),
             IsFinished(Head(pending)), pc # "stopped",
             pc' = "wait" \/ (pc' = "stopped" /\ result' = "Failed")
      PROVE  AwaitInv'
  <2>1. /\ Len(pending') = Len(pending) - 1 /\ Len(pending) > 0
        /\ \A i \in 1..Len(pending') : pending'[i] = pending[i + 1]
        /\ Head(pending) = pending[1]
    BY <1>2, <1>7, HeadTailProperties
  <2>2. ASSUME NEW j \in 1..Len(jobs), ~IsFinished(j) PROVE Awaited(j)'
    <3>1. PICK i \in 1..Len(pending) : pending[i] = j
      BY <1>7, <2>2 DEF AwaitInv, Awaited
    <3>2. i # 1
      BY <1>7, <2>1, <2>2, <3>1
    <3>3. i - 1 \in 1..Len(pending') /\ pending'[i - 1] = j
      BY <1>2, <2>1, <3>1, <3>2
    <3> QED
      BY <3>3 DEF Awaited
  <2>3. \A j \in 1..Len(jobs') : (IsFinished(j) \/ Awaited(j))'
    BY <1>7, <2>2 DEF IsFinished
  <2> QED
    BY <1>2, <1>7, <2>3 DEF AwaitInv, QuietStop
<1>8. ASSUME NEW j \in JobIds, JobFailed(j) PROVE AwaitInv'
  <2>1. IsFinished(Head(pending)) /\ pc = "wait" /\ pending # <<>> /\ jobs' = jobs
    BY <1>8 DEF JobFailed, Waiting, HasFailed, IsFinished, Finished
  <2>2. pending' = Tail(pending)
        /\ (pc' = "wait" \/ (pc' = "stopped" /\ result' = "Failed"))
    BY <1>8, <2>1 DEF JobFailed, AfterFailure, Return
  <2> QED
    BY <1>7, <2>1, <2>2
<1>9. CASE PersistNotes
  BY <1>4, <1>7, <1>9 DEF PersistNotes, TypeInv, Control
<1>10. ASSUME NEW j \in JobIds, JobSucceeded(j) PROVE AwaitInv'
  <2>1. /\ jobs' = jobs /\ pending' = pending /\ pc = "wait" /\ pc' = "publish"
        /\ IsFinished(Head(pending)) /\ result' = "none"
    BY <1>2, <1>10 DEF JobSucceeded, Waiting, IsFinished, Finished
  <2> QED
    BY <2>1 DEF AwaitInv, QuietStop, IsFinished, Awaited
<1>11. CASE Start \/ AwaitBatch \/ Publish \/ EndIteration \/ Receive
  BY <1>5, <1>11
     DEF Start, AwaitBatch, Publish, EndIteration, Receive, Deliver, Listening
<1>12. CASE StopAtMaxIterations \/ TimeOut \/ Complete
  BY <1>5, <1>12
     DEF StopAtMaxIterations, TimeOut, Complete, Deliver, Listening, Return, TypeInv,
         Control
<1>13. ASSUME NEW h \in Hats, GateFails(h) PROVE AwaitInv'
  BY <1>5, <1>13 DEF GateFails, Activating, Return
<1>14. CASE Fault
  <2>1. CASE \E h \in Hats : CreateJobFails(h)
    BY <1>5, <2>1 DEF CreateJobFails, Activating, Return
  <2> QED
    BY <1>5, <1>14, <2>1
       DEF Fault, StartFails, SubscriptionEnds, Listening, WaitFails, PublishFails, Return
<1>15. ASSUME NEW j \in JobIds, JobStep(j) PROVE AwaitInv'
  <2>1. Len(jobs') = Len(jobs) /\ UNCHANGED controllerVars
    BY <1>15, SetJobKeeps
       DEF JobStep, LocalJobSucceeds, CommandSucceeds, AgentPublishes, AgentExits,
           JobFails
  <2> QED
    BY <1>5, <2>1 DEF controllerVars
<1>16. CASE OperatorEmits \/ UNCHANGED vars
  BY <1>5, <1>16 DEF OperatorEmits, vars, controllerVars
<1> QED
  BY <1>6, <1>8, <1>9, <1>10, <1>11, <1>12, <1>13, <1>14, <1>15, <1>16
     DEF Next, Progress, AllDone

LEMMA AwaitInvariant == Spec => []AwaitInv
<1>1. Init => AwaitInv
  BY DEF Init, AwaitInv, QuietStop
<1> QED
  BY <1>1, NextAwaitInv, TypeInvariant, PTL DEF Spec

(***************************************************************************)
(* A run that completes, times out or exhausts its iterations leaves no    *)
(* job behind, whatever the jobs did and in whatever order they ended;     *)
(* only the early returns of a failing run can (reconciler.rs:135-164,     *)
(* 225-362).                                                               *)
(***************************************************************************)
THEOREM QuietStopHolds == Spec => []QuietStop
<1>1. AwaitInv => QuietStop
  BY DEF AwaitInv
<1> QED
  BY <1>1, AwaitInvariant, PTL

-----------------------------------------------------------------------------
(* Sequence numbers.                                                       *)

(***************************************************************************)
(* The events of the current job that are not published yet hold the last  *)
(* numbers given out; what the controller has published is below them.     *)
(***************************************************************************)
Below(n) ==
  \A i \in 1..Len(stream) : stream[i].via = "controller" => stream[i].sequence < n

NumberInv ==
  /\ pc # "stopped" =>
       /\ \A i \in 1..Len(outbox) :
            /\ outbox[i].via = "controller"
            /\ outbox[i].sequence = globalSequence - Len(outbox) + i - 1
       /\ Below(globalSequence - Len(outbox))
  /\ SequenceIncreasing

LEMMA AppendKeepsOrder ==
  ASSUME stream \in Seq(Events), SequenceIncreasing,
         NEW e, stream' = Append(stream, e),
         e.via = "controller" => Below(e.sequence)
  PROVE  SequenceIncreasing'
<1>1. Len(stream) \in Nat /\ DOMAIN stream = 1..Len(stream)
  BY LenProperties
<1>2. /\ DOMAIN stream' = 1..(Len(stream) + 1)
      /\ \A i \in 1..Len(stream) : stream'[i] = stream[i]
      /\ stream'[Len(stream) + 1] = e
  BY <1>1
<1> QED
  BY <1>1, <1>2 DEF SequenceIncreasing, Below

LEMMA NextNumberInv == TypeInv /\ NumberInv /\ [Next]_vars => NumberInv'
<1> SUFFICES ASSUME TypeInv, NumberInv, [Next]_vars PROVE NumberInv'
  OBVIOUS
<1>1. /\ stream \in Seq(Events) /\ Len(stream) \in Nat
      /\ outbox \in Seq(Events) /\ Len(outbox) \in Nat /\ globalSequence \in Nat
  BY LenProperties DEF TypeInv, TypeOK
<1>2. CASE /\ UNCHANGED <<outbox, globalSequence, stream>>
           /\ pc = "stopped" => pc' = "stopped"
  BY <1>2 DEF NumberInv, SequenceIncreasing, Below
<1>3. CASE Start \/ StartFails
  <2>1. /\ stream = <<>> /\ outbox = <<>> /\ globalSequence = 1
        /\ stream' = <<>> \/ stream' = Append(<<>>, FirstEvent)
        /\ outbox' = outbox /\ globalSequence' = globalSequence
    BY <1>3 DEF Start, StartFails, MaybePublished, TypeInv, Control, counters
  <2>2. FirstEvent.sequence = 0
    BY DEF FirstEvent, MakeEvent
  <2>3. CASE stream' = <<>>
    BY <2>1, <2>3 DEF NumberInv, SequenceIncreasing, Below
  <2>4. CASE stream' = Append(<<>>, FirstEvent)
    <3>1. Len(stream') = 1 /\ DOMAIN stream' = 1..1 /\ stream'[1] = FirstEvent
      BY <2>4
    <3>2. SequenceIncreasing'
      BY <3>1 DEF SequenceIncreasing
    <3>3. /\ Len(outbox') = 0 /\ globalSequence' = 1
          /\ \A i \in 1..Len(stream') : stream'[i] = FirstEvent
      BY <2>1, <3>1
    <3> QED
      BY <2>2, <3>2, <3>3 DEF NumberInv, Below
  <2> QED
    BY <2>1, <2>3, <2>4
<1>4. ASSUME NEW j \in JobIds, JobSucceeded(j) PROVE NumberInv'
  <2>1. jobs[j] \in Jobs /\ j \in Nat
    BY LenProperties, ElementOfSeq DEF TypeInv, TypeOK, JobIds
  <2> DEFINE said == Published(jobs[j].hat, jobs[j].out)
  <2>2. said \in Seq(Emissions) /\ Len(said) \in Nat
    BY <2>1, PublishedType, LenProperties DEF Jobs
  <2>3. /\ outbox' = Numbered(said, globalSequence, j)
        /\ globalSequence' = globalSequence + Len(said)
        /\ outbox = <<>> /\ stream' = stream /\ pc # "stopped"
    BY <1>4 DEF JobSucceeded, SequenceAfter, Waiting, TypeInv, Control, brokerVars
  <2> HIDE DEF said
  <2>4. /\ Len(outbox') = Len(said)
        /\ \A i \in 1..Len(said) : /\ outbox'[i].via = "controller"
                                   /\ outbox'[i].sequence = globalSequence + i - 1
    <3>1. globalSequence \in Nat
      BY <1>1
    <3>2. /\ Len(Numbered(said, globalSequence, j)) = Len(said)
          /\ \A i \in 1..Len(said) :
               /\ Numbered(said, globalSequence, j)[i].via = "controller"
               /\ Numbered(said, globalSequence, j)[i].sequence = globalSequence + i - 1
      BY <2>1, <2>2, <3>1, NumberedType
    <3> QED
      BY <2>3, <3>2
  <2>5. globalSequence' - Len(outbox') = globalSequence
    BY <1>1, <2>2, <2>3, <2>4
  <2>6. Below(globalSequence)
    BY <1>1, <2>3 DEF NumberInv
  <2> QED
    BY <1>1, <2>2, <2>3, <2>4, <2>5, <2>6 DEF NumberInv, Below, SequenceIncreasing
<1>5. ASSUME pc = "publish", outbox # <<>>, stream' = Append(stream, Head(outbox))
      PROVE  /\ SequenceIncreasing'
             /\ \A i \in 1..Len(stream') : stream'[i].via = "controller" =>
                  stream'[i].sequence < globalSequence - Len(outbox) + 1
  <2>1. /\ Head(outbox).via = "controller"
        /\ Head(outbox).sequence = globalSequence - Len(outbox)
        /\ Below(globalSequence - Len(outbox))
    BY <1>1, <1>5 DEF NumberInv
  <2>2. SequenceIncreasing'
    BY <1>1, <1>5, <2>1, AppendKeepsOrder DEF NumberInv
  <2>3. /\ Len(stream') = Len(stream) + 1
        /\ \A i \in 1..Len(stream) : stream'[i] = stream[i]
        /\ stream'[Len(stream) + 1] = Head(outbox)
    BY <1>1, <1>5
  <2>4. ASSUME NEW i \in 1..Len(stream'), stream'[i].via = "controller"
        PROVE  stream'[i].sequence < globalSequence - Len(outbox) + 1
    <3>1. CASE i = Len(stream) + 1
      BY <1>1, <2>1, <2>3, <3>1
    <3>2. CASE i \in 1..Len(stream)
      <4>1. stream[i].sequence < globalSequence - Len(outbox)
        BY <2>1, <2>3, <2>4, <3>2 DEF Below
      <4>2. stream[i] \in Events
        BY <1>1, <3>2, ElementOfSeq
      <4>3. stream[i].sequence \in Nat
        BY <4>2 DEF Events
      <4> QED
        BY <1>1, <2>3, <3>2, <4>1, <4>3
    <3> QED
      BY <1>1, <2>3, <3>1, <3>2
  <2> QED
    BY <2>2, <2>4
<1>6. CASE Publish
  <2>1. /\ Len(outbox') = Len(outbox) - 1 /\ globalSequence' = globalSequence
        /\ \A i \in 1..Len(outbox') : outbox'[i] = outbox[i + 1]
        /\ pc = "publish" /\ pc' = pc
    BY <1>1, <1>6, HeadTailProperties DEF Publish, counters
  <2>2. globalSequence' - Len(outbox') = globalSequence - Len(outbox) + 1
    BY <1>1, <2>1
  <2>3. \A i \in 1..Len(outbox') :
          /\ outbox'[i].via = "controller"
          /\ outbox'[i].sequence = globalSequence' - Len(outbox') + i - 1
    <3> SUFFICES ASSUME NEW i \in 1..Len(outbox')
                 PROVE  /\ outbox'[i].via = "controller"
                        /\ outbox'[i].sequence = globalSequence' - Len(outbox') + i - 1
      OBVIOUS
    <3>1. i + 1 \in 1..Len(outbox)
      BY <1>1, <2>1
    <3>2. /\ outbox[i + 1].via = "controller"
          /\ outbox[i + 1].sequence = globalSequence - Len(outbox) + (i + 1) - 1
      BY <2>1, <3>1 DEF NumberInv
    <3>3. outbox'[i] = outbox[i + 1]
      BY <2>1
    <3> QED
      BY <1>1, <2>1, <2>2, <3>2, <3>3
  <2> QED
    BY <1>5, <1>6, <2>1, <2>2, <2>3 DEF NumberInv, Below, Publish
<1>7. CASE PublishFails
  <2>1. SequenceIncreasing'
    BY <1>5, <1>7 DEF PublishFails, MaybePublished, NumberInv, SequenceIncreasing
  <2> QED
    BY <1>7, <2>1 DEF PublishFails, Return, NumberInv
<1>8. ASSUME NEW e, e.via # "controller", stream' = Append(stream, e),
             UNCHANGED controllerVars
      PROVE  NumberInv'
  <2>1. SequenceIncreasing'
    BY <1>1, <1>8, AppendKeepsOrder DEF NumberInv
  <2>2. /\ Len(stream') = Len(stream) + 1
        /\ \A i \in 1..Len(stream) : stream'[i] = stream[i]
        /\ stream'[Len(stream) + 1] = e
    BY <1>1, <1>8
  <2>3. \A n : Below(n) => Below(n)'
    BY <1>1, <1>8, <2>2 DEF Below
  <2> QED
    BY <1>8, <2>1, <2>3 DEF NumberInv, controllerVars, Below
<1>9. ASSUME NEW j \in JobIds, JobStep(j) PROVE NumberInv'
  <2>1. /\ UNCHANGED controllerVars
        /\ \/ stream' = stream
           \/ \E event \in Events : stream' = Append(stream, event) /\ event.via = "agent"
    BY <1>9, JobStepKeeps DEF TypeInv, TypeOK
  <2> QED
    BY <1>2, <1>8, <2>1 DEF controllerVars
<1>10. CASE OperatorEmits
  BY <1>8, <1>10 DEF OperatorEmits, MakeEvent
<1>11. ASSUME NEW h \in Hats, GateFails(h) \/ CreateJob(h) \/ CreateJobFails(h)
       PROVE  NumberInv'
  BY <1>2, <1>11 DEF GateFails, CreateJob, CreateJobFails, Activating, brokerVars, counters
<1>12. ASSUME NEW j \in JobIds, JobFailed(j) PROVE NumberInv'
  BY <1>2, <1>12 DEF JobFailed, Waiting, brokerVars
<1>13. CASE StopAtMaxIterations \/ TimeOut \/ Complete \/ Receive \/ AwaitBatch
             \/ PersistNotes \/ EndIteration \/ SubscriptionEnds \/ WaitFails
  BY <1>2, <1>13
     DEF StopAtMaxIterations, TimeOut, Complete, Receive, Deliver, Listening, AwaitBatch,
         PersistNotes, EndIteration, SubscriptionEnds, WaitFails, brokerVars, counters
<1>14. CASE UNCHANGED vars
  BY <1>2, <1>14 DEF vars, controllerVars, brokerVars
<1> QED
  BY <1>3, <1>4, <1>6, <1>7, <1>9, <1>10, <1>11, <1>12, <1>13, <1>14
     DEF Next, Progress, Fault, AllDone

LEMMA NumberInvariant == Spec => []NumberInv
<1>1. Init => NumberInv
  BY DEF Init, NumberInv, Below, SequenceIncreasing
<1> QED
  BY <1>1, NextNumberInv, TypeInvariant, PTL DEF Spec

(***************************************************************************)
(* However parsed, completion and default events mix, and whoever else     *)
(* publishes in between, the controller's own events appear in the stream  *)
(* in strictly increasing order of their numbers (reconciler.rs:240-294).  *)
(***************************************************************************)
THEOREM SequenceHolds == Spec => []SequenceIncreasing
<1>1. NumberInv => SequenceIncreasing
  BY DEF NumberInv
<1> QED
  BY <1>1, NumberInvariant, PTL

-----------------------------------------------------------------------------
(* Activation limits.                                                      *)

JobsOf(h) == {j \in JobIds : jobs[j].hat = h}

(***************************************************************************)
(* The limit is tested when the event is routed, the counter moves when    *)
(* the job is created.  In between, no hat of the batch has reached its    *)
(* limit, because none is in the batch twice.                              *)
(***************************************************************************)
CountInv ==
  /\ \A h \in Hats : activations[h] = Cardinality(JobsOf(h))
  /\ \A h \in DOMAIN MaxActivations : activations[h] <= MaxActivations[h]
  /\ \A i \in 1..Len(batch) : BelowLimit(batch[i], activations)
  /\ \A i, k \in 1..Len(batch) : batch[i] = batch[k] => i = k

LEMMA RouteBelowLimit ==
  ASSUME NEW event, NEW acts, NEW order \in RouteWithState(event, acts)
  PROVE  /\ \A i \in 1..Len(order) : BelowLimit(order[i], acts)
         /\ \A i, k \in 1..Len(order) : order[i] = order[k] => i = k
<1> DEFINE eligible == {h \in Interested(event) : BelowLimit(h, acts)}
<1>1. /\ order \in [1..Cardinality(eligible) -> eligible]
      /\ \A i, k \in 1..Cardinality(eligible) : order[i] = order[k] => i = k
  BY DEF RouteWithState, Orders
<1>2. order \in Seq(Hats)
  BY RouteType
<1>3. DOMAIN order = 1..Len(order)
  BY <1>2, LenProperties
<1>4. 1..Len(order) = 1..Cardinality(eligible)
  BY <1>1, <1>3
<1> QED
  BY <1>1, <1>4

LEMMA NextCountInv == TypeInv /\ CountInv /\ [Next]_vars => CountInv'
<1> SUFFICES ASSUME TypeInv, CountInv, [Next]_vars PROVE CountInv'
  OBVIOUS
<1>1. JobsKept
  BY JobsGrow
<1>2. /\ batch \in Seq(Hats) /\ Len(batch) \in Nat /\ activations \in [Hats -> Nat]
      /\ \A h \in DOMAIN MaxActivations : h \in Hats /\ MaxActivations[h] \in Nat
  BY LimitAssumption, LenProperties DEF TypeInv, TypeOK
<1>3. ASSUME Len(jobs') = Len(jobs) PROVE \A h : JobsOf(h)' = JobsOf(h)
  BY <1>1, <1>3 DEF JobsOf, JobIds, JobsKept, JobKept
<1>4. CASE Len(jobs') = Len(jobs) /\ UNCHANGED <<activations, batch>>
  BY <1>3, <1>4 DEF CountInv, BelowLimit
<1>5. CASE Complete \/ Receive
  <2>1. jobs' = jobs /\ activations' = activations
    BY <1>5 DEF Complete, Receive, Deliver
  <2>2. /\ \A i \in 1..Len(batch') : BelowLimit(batch'[i], activations)
        /\ \A i, k \in 1..Len(batch') : batch'[i] = batch'[k] => i = k
    BY <1>5, RouteBelowLimit DEF Complete, Receive, CountInv
  <2> QED
    BY <1>3, <2>1, <2>2 DEF CountInv, BelowLimit
<1>6. ASSUME batch # <<>>, batch' = Tail(batch)
      PROVE  /\ \A i \in 1..Len(batch') : /\ BelowLimit(batch'[i], activations)
                                          /\ batch'[i] # Head(batch)
             /\ \A i, k \in 1..Len(batch') : batch'[i] = batch'[k] => i = k
             /\ BelowLimit(Head(batch), activations)
  <2>1. /\ Len(batch') = Len(batch) - 1
        /\ \A i \in 1..Len(batch') : batch'[i] = batch[i + 1]
        /\ Head(batch) = batch[1]
    BY <1>2, <1>6, HeadTailProperties
  <2>2. \A i \in 1..Len(batch') : i + 1 \in 1..Len(batch) /\ i + 1 # 1
    BY <1>2, <2>1
  <2>3. 1 \in 1..Len(batch)
    BY <1>2, <1>6
  <2>4. \A i, k \in 1..Len(batch') : i + 1 = k + 1 => i = k
    OBVIOUS
  <2> QED
    BY <2>1, <2>2, <2>3, <2>4 DEF CountInv
<1>7. ASSUME NEW h \in Hats, GateFails(h) PROVE CountInv'
  <2>1. /\ jobs' = jobs /\ activations' = activations
        /\ batch # <<>> /\ batch' = Tail(batch)
    BY <1>7 DEF GateFails, Activating
  <2> QED
    BY <1>3, <1>6, <2>1 DEF CountInv, BelowLimit
<1>8. ASSUME NEW h \in Hats, CreateJob(h) PROVE CountInv'
  <2>1. /\ batch # <<>> /\ h = Head(batch) /\ batch' = Tail(batch)
        /\ activations' = [activations EXCEPT ![h] = @ + 1]
    BY <1>8 DEF CreateJob, Activating
  <2>2. PICK job : jobs' = Append(jobs, job) /\ job.hat = h
    BY <1>8 DEF CreateJob
  <2>3. /\ Len(jobs') = Len(jobs) + 1
        /\ \A j \in 1..Len(jobs) : jobs'[j] = jobs[j]
        /\ jobs'[Len(jobs) + 1] = job
    BY <1>1, <2>2 DEF JobsKept
  <2>4. \A g : JobsOf(g)' = IF g = h THEN JobsOf(g) \cup {Len(jobs) + 1} ELSE JobsOf(g)
    BY <1>1, <2>2, <2>3 DEF JobsOf, JobIds, JobsKept
  <2>5. \A g : IsFiniteSet(JobsOf(g)) /\ Len(jobs) + 1 \notin JobsOf(g)
    <3> TAKE g
    <3>1. JobsOf(g) \subseteq 1..Len(jobs) /\ IsFiniteSet(1..Len(jobs))
      BY <1>1, FS_Interval DEF JobsOf, JobIds, JobsKept
    <3> QED
      BY <1>1, <3>1, FS_Subset DEF JobsKept
  <2>6. Cardinality(JobsOf(h) \cup {Len(jobs) + 1}) = Cardinality(JobsOf(h)) + 1
    BY <2>5, FS_AddElement
  <2>7. \A g \in Hats : activations'[g] = Cardinality(JobsOf(g)')
    BY <1>2, <2>1, <2>4, <2>6 DEF CountInv
  <2>8. h \in DOMAIN MaxActivations => activations[h] < MaxActivations[h]
    BY <1>6, <2>1 DEF BelowLimit
  <2>9. \A g \in DOMAIN MaxActivations : activations'[g] <= MaxActivations[g]
    BY <1>2, <2>1, <2>8 DEF CountInv
  <2>10. \A i \in 1..Len(batch') : BelowLimit(batch'[i], activations')
    <3> SUFFICES ASSUME NEW i \in 1..Len(batch') PROVE BelowLimit(batch'[i], activations')
      OBVIOUS
    <3>1. BelowLimit(batch'[i], activations) /\ batch'[i] # h
      BY <1>6, <2>1
    <3> QED
      BY <1>2, <2>1, <3>1 DEF BelowLimit
  <2> QED
    BY <1>6, <2>1, <2>7, <2>9, <2>10 DEF CountInv, BelowLimit
<1>9. CASE Progress
  <2>1. CASE \E j \in JobIds : JobSucceeded(j) \/ JobFailed(j)
    BY <1>4, <2>1 DEF JobSucceeded, JobFailed
  <2> QED
    BY <1>4, <1>5, <1>7, <1>8, <1>9, <2>1
       DEF Progress, Start, StopAtMaxIterations, TimeOut, AwaitBatch, Publish,
           PersistNotes, EndIteration, counters
<1>10. CASE Fault
  BY <1>4, <1>10 DEF Fault, StartFails, SubscriptionEnds, CreateJobFails, WaitFails,
                     PublishFails, counters
<1>11. ASSUME NEW j \in JobIds, JobStep(j) PROVE CountInv'
  <2>1. Len(jobs') = Len(jobs) /\ UNCHANGED controllerVars
    BY <1>11, SetJobKeeps
       DEF JobStep, LocalJobSucceeds, CommandSucceeds, AgentPublishes, AgentExits,
           JobFails
  <2> QED
    BY <1>4, <2>1 DEF controllerVars
<1> QED
  BY <1>4, <1>9, <1>10, <1>11 DEF Next, OperatorEmits, AllDone, vars, controllerVars

LEMMA CountInvariant == Spec => []CountInv
<1>1. Init => CountInv
  <2> SUFFICES ASSUME Init PROVE CountInv
    OBVIOUS
  <2>1. \A h : JobsOf(h) = {}
    BY DEF Init, JobsOf, JobIds
  <2> QED
    BY <2>1, FS_EmptySet, LimitAssumption DEF Init, CountInv
<1> QED
  BY <1>1, NextCountInv, TypeInvariant, PTL DEF Spec

(***************************************************************************)
(* max_activations holds for the jobs really created, over a whole run:    *)
(* although route_with_state reads the counters once per event             *)
(* (event_router.rs:66-83) and the loop raises them job by job             *)
(* (reconciler.rs:166, 220), no hat is started beyond its limit.           *)
(***************************************************************************)
THEOREM ActivationLimitHolds == Spec => []ActivationLimit
<1>1. TypeInv /\ CountInv => ActivationLimit
  BY LimitAssumption DEF CountInv, ActivationLimit, JobsOf
<1> QED
  BY <1>1, CountInvariant, TypeInvariant, PTL

-----------------------------------------------------------------------------
(* What the run has seen.                                                  *)

\* Positions of the stream up to the cursor are finitely many.
LEMMA DeliveredFinite ==
  ASSUME TypeInv
  PROVE  /\ IsFiniteSet(Delivered) /\ Cardinality(Delivered) \in Nat
         /\ \A i \in Delivered :
              /\ IsFiniteSet(DeliveredUpTo(i))
              /\ Cardinality(DeliveredUpTo(i)) \in 1..Cardinality(Delivered)
<1>1. cursor \in Nat
  BY DEF TypeInv, TypeOK
<1>2. IsFiniteSet(1..cursor)
  BY <1>1, FS_Interval
<1>3. IsFiniteSet(Delivered)
  BY <1>2, FS_Subset DEF Delivered
<1>4. ASSUME NEW i \in Delivered
      PROVE  /\ IsFiniteSet(DeliveredUpTo(i))
             /\ Cardinality(DeliveredUpTo(i)) \in 1..Cardinality(Delivered)
  <2>1. i \in DeliveredUpTo(i) /\ DeliveredUpTo(i) \subseteq Delivered
    BY <1>1 DEF Delivered, DeliveredUpTo
  <2>2. IsFiniteSet(DeliveredUpTo(i)) /\ Cardinality(DeliveredUpTo(i)) <= Cardinality(Delivered)
    BY <1>3, <2>1, FS_Subset
  <2>3. Cardinality(DeliveredUpTo(i)) \in Nat /\ Cardinality(DeliveredUpTo(i)) # 0
    BY <2>1, <2>2, FS_CardinalityType, FS_EmptySet
  <2>4. Cardinality(Delivered) \in Nat
    BY <1>3, FS_CardinalityType
  <2> QED
    BY <2>2, <2>3, <2>4
<1> QED
  BY <1>3, <1>4, FS_CardinalityType

\* A step that takes nothing off the stream changes nothing of this.
LEMMA SeenFrame ==
  ASSUME TypeInv, StreamKept, SeenIsDelivered, UNCHANGED <<cursor, seen>>
  PROVE  SeenIsDelivered'
<1>1. cursor \in Nat /\ cursor <= Len(stream)
  BY DEF TypeInv, TypeOK, StreamKept
<1>2. \A i \in 1..cursor : stream'[i] = stream[i]
  BY <1>1 DEF StreamKept
<1>3. Delivered' = Delivered
  BY <1>2 DEF Delivered
<1>4. \A i \in Delivered : DeliveredUpTo(i)' = DeliveredUpTo(i) /\ stream'[i] = stream[i]
  BY <1>2, <1>3 DEF DeliveredUpTo, Delivered
<1> QED
  BY <1>3, <1>4 DEF SeenIsDelivered

LEMMA DeliverSeen ==
  ASSUME TypeInv, SeenIsDelivered, Deliver
  PROVE  SeenIsDelivered'
<1>0. PICK n : n = cursor + 1
  OBVIOUS
<1>1. /\ n = cursor + 1 /\ cursor \in Nat /\ cursor' = n /\ stream' = stream /\ seen \in Seq(Topics)
      /\ Len(seen) \in Nat
  BY <1>0, LenProperties DEF TypeInv, TypeOK, Deliver
<1>2. CASE IsSystem(stream[n].topic)
  <2>1. seen' = seen
    BY <1>1, <1>2 DEF Deliver, NextEvent
  <2>2. Delivered' = Delivered
    BY <1>1, <1>2 DEF Delivered
  <2>3. \A i \in Delivered : DeliveredUpTo(i)' = DeliveredUpTo(i)
    BY <2>2 DEF DeliveredUpTo
  <2> QED
    BY <1>1, <2>1, <2>2, <2>3 DEF SeenIsDelivered
<1>3. CASE ~IsSystem(stream[n].topic)
  <2>1. seen' = Append(seen, stream[n].topic)
    BY <1>1, <1>3 DEF Deliver, NextEvent
  <2>2. stream[n].topic \in Topics
    BY <1>1, DeliverTypes DEF NextEvent, Events
  <2>3. /\ Len(seen') = Len(seen) + 1
        /\ \A k \in 1..Len(seen) : seen'[k] = seen[k]
        /\ seen'[Len(seen) + 1] = stream[n].topic
    BY <1>1, <2>1, <2>2, AppendProperties
  <2>4. Delivered' = Delivered \cup {n} /\ n \notin Delivered
    BY <1>1, <1>3 DEF Delivered
  <2>5. Cardinality(Delivered') = Cardinality(Delivered) + 1
    BY <2>4, DeliveredFinite, FS_AddElement
  <2>6. ASSUME NEW i \in Delivered
        PROVE  seen'[Cardinality(DeliveredUpTo(i)')] = stream'[i].topic
    <3>1. DeliveredUpTo(i)' = DeliveredUpTo(i)
      BY <1>1, <2>4 DEF DeliveredUpTo, Delivered
    <3>2. Cardinality(DeliveredUpTo(i)) \in 1..Len(seen)
      BY DeliveredFinite DEF SeenIsDelivered
    <3> QED
      BY <1>1, <2>3, <3>1, <3>2 DEF SeenIsDelivered
  <2>7. DeliveredUpTo(n)' = Delivered'
    BY <1>1, <2>4 DEF DeliveredUpTo, Delivered
  <2>8. seen'[Cardinality(DeliveredUpTo(n)')] = stream'[n].topic
    BY <1>1, <2>3, <2>5, <2>7 DEF SeenIsDelivered
  <2>9. Len(seen') = Cardinality(Delivered')
    BY <2>3, <2>5 DEF SeenIsDelivered
  <2>10. ASSUME NEW i \in Delivered'
         PROVE  seen'[Cardinality(DeliveredUpTo(i)')] = stream'[i].topic
    BY <2>4, <2>6, <2>8, <2>10
  <2> QED
    BY <2>9, <2>10 DEF SeenIsDelivered
<1> QED
  BY <1>2, <1>3

LEMMA NextSeen == TypeInv /\ SeenIsDelivered /\ [Next]_vars => SeenIsDelivered'
<1> SUFFICES ASSUME TypeInv, SeenIsDelivered, [Next]_vars PROVE SeenIsDelivered'
  OBVIOUS
<1>1. StreamKept
  BY StreamGrows
<1>2. CASE Start
  <2>1. stream = <<>> /\ cursor \in 0..Len(stream) /\ Len(stream) = 0
    BY <1>2 DEF Start, TypeInv, TypeOK, Control
  <2>2. cursor' = cursor /\ seen' = seen
    BY <1>2, <2>1 DEF Start, Subscribed, counters
  <2> QED
    BY <1>1, <2>2, SeenFrame
<1>3. CASE Complete \/ Receive
  BY <1>3, DeliverSeen DEF Complete, Receive
<1>4. CASE UNCHANGED <<cursor, seen>>
  BY <1>1, <1>4, SeenFrame
<1>5. CASE Fault
  <2>1. UNCHANGED <<cursor, seen>>
    BY <1>5
       DEF Fault, StartFails, SubscriptionEnds, CreateJobFails, WaitFails, PublishFails,
           brokerVars, counters
  <2> QED
    BY <1>4, <2>1
<1>6. CASE \E j \in JobIds : JobStep(j)
  <2>1. UNCHANGED <<cursor, seen>>
    BY <1>6
       DEF JobStep, LocalJobSucceeds, CommandSucceeds, AgentPublishes, AgentExits,
           JobFails, brokerVars, controllerVars
  <2> QED
    BY <1>4, <2>1
<1>7. CASE Progress
  <2>1. Start \/ Complete \/ Receive \/ UNCHANGED <<cursor, seen>>
    BY <1>7
       DEF Progress, StopAtMaxIterations, TimeOut, GateFails, CreateJob, AwaitBatch,
           JobSucceeded, JobFailed, Publish, PersistNotes, EndIteration, brokerVars, counters
  <2> QED
    BY <1>2, <1>3, <1>4, <2>1
<1> QED
  BY <1>4, <1>5, <1>6, <1>7
     DEF Next, AllDone, OperatorEmits, vars, controllerVars, brokerVars

(***************************************************************************)
(* seen_events, which a resumed run is restored from, holds the topics of  *)
(* all user events the subscription has delivered, in the stream's order   *)
(* and none twice, from the run's first event on (reconciler.rs:125-133,   *)
(* 158-160), whoever publishes beside the controller.                      *)
(***************************************************************************)
THEOREM SeenHolds == Spec => []SeenIsDelivered
<1>1. Init => SeenIsDelivered
  <2> SUFFICES ASSUME Init PROVE SeenIsDelivered
    OBVIOUS
  <2>1. Delivered = {} /\ seen = <<>>
    BY DEF Init, Delivered
  <2> QED
    BY <2>1, FS_EmptySet DEF SeenIsDelivered
<1> QED
  BY <1>1, NextSeen, TypeInvariant, PTL DEF Spec

-----------------------------------------------------------------------------
(* Each event starts each hat once.                                        *)

(***************************************************************************)
(* Jobs belong to events that were taken; the hats still to be started for *)
(* the event taken last have no job of it yet; and what is unfinished is   *)
(* of that event, because the loop takes no event before all jobs are over.*)
(***************************************************************************)
OnceInv ==
  /\ \A j \in 1..Len(jobs) : jobs[j].cause <= cursor
  /\ \A j \in 1..Len(jobs), i \in 1..Len(batch) :
       jobs[j].cause = cursor => jobs[j].hat # batch[i]
  /\ \A j \in 1..Len(jobs) : IsFinished(j) \/ jobs[j].cause = cursor
  /\ OncePerEventInOrder

\* A step that neither takes an event nor creates a job.
LEMMA OnceFrame ==
  ASSUME TypeInv, OnceInv, JobsKept, Len(jobs') = Len(jobs), cursor' = cursor,
         \A i \in 1..Len(batch') : \E k \in 1..Len(batch) : batch'[i] = batch[k]
  PROVE  OnceInv'
<1>1. JobIds = 1..Len(jobs) /\ JobIds' = 1..Len(jobs)
  BY DEF JobsKept, JobIds
<1>2. OncePerEventInOrder'
  BY <1>1 DEF OnceInv, OncePerEventInOrder, JobsKept, JobKept
<1>3. ASSUME NEW j \in 1..Len(jobs)
      PROVE  /\ jobs'[j].cause = jobs[j].cause
             /\ jobs'[j].hat = jobs[j].hat
             /\ IsFinished(j) => IsFinished(j)'
  BY DEF JobsKept, JobKept
<1>4. \A j \in 1..Len(jobs), i \in 1..Len(batch') :
        jobs[j].cause = cursor => jobs[j].hat # batch'[i]
  BY DEF OnceInv
<1>5. ASSUME NEW j \in 1..Len(jobs')
      PROVE  /\ jobs'[j].cause <= cursor'
             /\ IsFinished(j)' \/ jobs'[j].cause = cursor'
  <2>1. j \in 1..Len(jobs)
    BY <1>5
  <2>2. jobs[j].cause <= cursor /\ (IsFinished(j) \/ jobs[j].cause = cursor)
    BY <2>1 DEF OnceInv, IsFinished
  <2>3. /\ jobs'[j].cause = jobs[j].cause
        /\ IsFinished(j) => IsFinished(j)'
    BY <1>3, <2>1 DEF IsFinished
  <2> QED
    BY <2>2, <2>3
<1>6. ASSUME NEW j \in 1..Len(jobs'), NEW i \in 1..Len(batch'),
             jobs'[j].cause = cursor'
      PROVE  jobs'[j].hat # batch'[i]
  <2>1. j \in 1..Len(jobs)
    BY <1>6
  <2>2. /\ jobs'[j].cause = jobs[j].cause
        /\ jobs'[j].hat = jobs[j].hat
    BY <1>3, <2>1
  <2> QED
    BY <1>4, <1>6, <2>1, <2>2
<1> QED
  BY <1>2, <1>5, <1>6 DEF OnceInv

LEMMA NextOnceInv == TypeInv /\ AwaitInv /\ CountInv /\ OnceInv /\ [Next]_vars => OnceInv'
<1> SUFFICES ASSUME TypeInv, AwaitInv, CountInv, OnceInv, [Next]_vars PROVE OnceInv'
  OBVIOUS
<1>1. JobsKept
  BY JobsGrow
<1>2. /\ batch \in Seq(Hats) /\ Len(batch) \in Nat /\ cursor \in Nat
      /\ jobs \in Seq(Jobs) /\ Len(jobs) \in Nat /\ JobIds = 1..Len(jobs)
      /\ JobIds' = 1..Len(jobs')
  BY <1>1, LenProperties DEF TypeInv, TypeOK, JobsKept, JobIds
<1>3. \A j \in 1..Len(jobs) : jobs[j].cause \in Nat
  <2> SUFFICES ASSUME NEW j \in 1..Len(jobs) PROVE jobs[j].cause \in Nat
    OBVIOUS
  <2>1. jobs[j] \in Jobs
    BY <1>2, ElementOfSeq
  <2> QED
    BY <2>1 DEF Jobs
<1>4. CASE Len(jobs') = Len(jobs) /\ UNCHANGED <<cursor, batch>>
  BY <1>1, <1>4, OnceFrame
<1>5. CASE Start
  <2>1. Len(jobs) = 0 /\ jobs' = jobs
    BY <1>5 DEF Start, TypeInv, Control
  <2> QED
    BY <1>2, <2>1 DEF OnceInv, OncePerEventInOrder
<1>6. CASE Complete \/ Receive
  <2>1. /\ cursor' = cursor + 1 /\ jobs' = jobs /\ pc = "receive" /\ Len(pending) = 0
    BY <1>6 DEF Complete, Receive, Deliver, Listening, TypeInv, Control
  <2>2. \A j \in 1..Len(jobs) : IsFinished(j) /\ IsFinished(j)'
    BY <2>1 DEF AwaitInv, Awaited, IsFinished
  <2>3. \A j \in 1..Len(jobs) : jobs[j].cause <= cursor' /\ jobs[j].cause # cursor'
    BY <1>2, <1>3, <2>1 DEF OnceInv
  <2>4. OncePerEventInOrder'
    BY <1>2, <2>1 DEF OnceInv, OncePerEventInOrder
  <2> QED
    BY <2>1, <2>2, <2>3, <2>4 DEF OnceInv
<1>7. ASSUME batch # <<>>, batch' = Tail(batch)
      PROVE  /\ \A i \in 1..Len(batch') : \E k \in 1..Len(batch) : batch'[i] = batch[k]
             /\ \A i \in 1..Len(batch') : batch'[i] # Head(batch)
             /\ \E k \in 1..Len(batch) : Head(batch) = batch[k]
  <2>1. /\ Len(batch') = Len(batch) - 1
        /\ \A i \in 1..Len(batch') : batch'[i] = batch[i + 1]
        /\ Head(batch) = batch[1]
    BY <1>2, <1>7, HeadTailProperties
  <2>2. /\ \A i \in 1..Len(batch') : i + 1 \in 1..Len(batch) /\ i + 1 # 1
        /\ 1 \in 1..Len(batch)
    BY <1>2, <1>7, <2>1
  <2> QED
    BY <2>1, <2>2 DEF CountInv
<1>8. ASSUME NEW h \in Hats, GateFails(h) PROVE OnceInv'
  <2>1. jobs' = jobs /\ cursor' = cursor /\ batch # <<>> /\ batch' = Tail(batch)
    BY <1>8 DEF GateFails, Activating, brokerVars
  <2>2. \A i \in 1..Len(batch') : \E k \in 1..Len(batch) : batch'[i] = batch[k]
    BY <1>7, <2>1
  <2> QED
    BY <1>1, <2>1, <2>2, OnceFrame
<1>9. ASSUME NEW h \in Hats, CreateJob(h) PROVE OnceInv'
  <2>1. /\ batch # <<>> /\ h = Head(batch) /\ batch' = Tail(batch) /\ cursor' = cursor
    BY <1>9 DEF CreateJob, Activating, brokerVars
  <2>2. PICK job : jobs' = Append(jobs, job) /\ job.hat = h /\ job.cause = cursor
    BY <1>9 DEF CreateJob
  <2>3. /\ Len(jobs') = Len(jobs) + 1
        /\ \A j \in 1..Len(jobs) : jobs'[j] = jobs[j] /\ IsFinished(j)' = IsFinished(j)
        /\ jobs'[Len(jobs')] = job
    BY <1>2, <2>2 DEF IsFinished
  <2>4. \A j \in 1..Len(jobs') : j \in 1..Len(jobs) \/ j = Len(jobs')
    BY <1>2, <2>3
  <2>5. \A j \in 1..Len(jobs) : jobs[j].cause = cursor => jobs[j].hat # h
    BY <1>7, <2>1 DEF OnceInv
  <2>6. OncePerEventInOrder'
    <3> SUFFICES ASSUME NEW j \in 1..Len(jobs'), NEW k \in 1..Len(jobs'), j < k
                 PROVE  \/ jobs'[j].cause < jobs'[k].cause
                        \/ /\ jobs'[j].cause = jobs'[k].cause
                           /\ jobs'[j].hat # jobs'[k].hat
      BY <1>2 DEF OncePerEventInOrder
    <3>1. j \in 1..Len(jobs)
      BY <1>2, <2>3
    <3>2. CASE k \in 1..Len(jobs)
      BY <1>2, <2>3, <3>1, <3>2 DEF OnceInv, OncePerEventInOrder
    <3>3. CASE k = Len(jobs')
      <4>1. jobs'[k].cause = cursor /\ jobs'[k].hat = h /\ jobs'[j] = jobs[j]
        BY <2>2, <2>3, <3>1, <3>3
      <4>2. jobs[j].cause <= cursor /\ jobs[j].cause \in Nat
        BY <1>3, <3>1 DEF OnceInv
      <4> QED
        BY <1>2, <2>5, <3>1, <4>1, <4>2
    <3> QED
      BY <2>4, <3>2, <3>3
  <2>7. \A j \in 1..Len(jobs') : jobs'[j].cause <= cursor'
    BY <1>2, <2>1, <2>2, <2>3, <2>4 DEF OnceInv
  <2>8. \A j \in 1..Len(jobs') : IsFinished(j)' \/ jobs'[j].cause = cursor'
    BY <2>1, <2>2, <2>3, <2>4 DEF OnceInv
  <2>9. \A j \in 1..Len(jobs'), i \in 1..Len(batch') :
          jobs'[j].cause = cursor' => jobs'[j].hat # batch'[i]
    <3> SUFFICES ASSUME NEW j \in 1..Len(jobs'), NEW i \in 1..Len(batch'),
                        jobs'[j].cause = cursor
                 PROVE  jobs'[j].hat # batch'[i]
      BY <2>1
    <3>1. CASE j \in 1..Len(jobs)
      BY <1>7, <2>1, <2>3, <3>1 DEF OnceInv
    <3>2. CASE j = Len(jobs')
      BY <1>7, <2>1, <2>2, <2>3, <3>2
    <3> QED
      BY <2>4, <3>1, <3>2
  <2> QED
    BY <2>6, <2>7, <2>8, <2>9 DEF OnceInv
<1>10. CASE Progress
  <2>1. CASE \E j \in JobIds : JobSucceeded(j) \/ JobFailed(j)
    BY <1>4, <2>1 DEF JobSucceeded, JobFailed, brokerVars
  <2>2. CASE StopAtMaxIterations \/ TimeOut \/ AwaitBatch \/ Publish \/ PersistNotes
               \/ EndIteration
    BY <1>4, <2>2
       DEF StopAtMaxIterations, TimeOut, AwaitBatch, Publish, PersistNotes,
           EndIteration, counters, brokerVars
  <2> QED
    BY <1>5, <1>6, <1>8, <1>9, <1>10, <2>1, <2>2 DEF Progress
<1>11. CASE Fault
  BY <1>4, <1>11
     DEF Fault, StartFails, SubscriptionEnds, CreateJobFails, WaitFails, PublishFails,
         counters, brokerVars
<1>12. ASSUME NEW j \in JobIds, JobStep(j) PROVE OnceInv'
  <2>1. Len(jobs') = Len(jobs) /\ UNCHANGED <<cursor, batch>>
    BY <1>12, SetJobKeeps
       DEF JobStep, LocalJobSucceeds, CommandSucceeds, AgentPublishes, AgentExits,
           JobFails, controllerVars, brokerVars
  <2> QED
    BY <1>4, <2>1
<1> QED
  BY <1>4, <1>10, <1>11, <1>12
     DEF Next, AllDone, OperatorEmits, vars, controllerVars, brokerVars

LEMMA OnceInvariant == Spec => []OnceInv
<1>1. Init => OnceInv
  BY DEF Init, OnceInv, OncePerEventInOrder, JobIds
<1> QED
  BY <1>1, NextOnceInv, TypeInvariant, AwaitInvariant, CountInvariant, PTL DEF Spec

(***************************************************************************)
(* Delivery is at most once per event and hat, and in stream order: jobs   *)
(* are created event by event, never going back, and never the same hat    *)
(* again for the same event (reconciler.rs:140-223).                       *)
(***************************************************************************)
THEOREM OnceHolds == Spec => []OncePerEventInOrder
<1>1. OnceInv => OncePerEventInOrder
  BY DEF OnceInv
<1> QED
  BY <1>1, OnceInvariant, PTL

(***************************************************************************)
(* Two jobs of one hat never run at the same time, not even after the run  *)
(* has given up with jobs still running: this is what the handles of       *)
(* k8s.rs:186, named by run and hat only, depend on.                       *)
(***************************************************************************)
THEOREM OneJobHolds == Spec => []OneJobPerHat
<1>1. TypeInv /\ OnceInv => OneJobPerHat
  <2> SUFFICES ASSUME TypeInv, OnceInv, NEW j \in JobIds, NEW k \in JobIds,
                      j # k, ~IsFinished(j), ~IsFinished(k)
               PROVE  jobs[j].hat # jobs[k].hat
    BY DEF OneJobPerHat
  <2>1. JobIds = 1..Len(jobs) /\ Len(jobs) \in Nat /\ cursor \in Nat
    BY LenProperties DEF TypeInv, TypeOK, JobIds
  <2>2. jobs[j].cause = cursor /\ jobs[k].cause = cursor
    BY <2>1 DEF OnceInv
  <2>3. j < k \/ k < j
    BY <2>1
  <2> QED
    BY <2>1, <2>2, <2>3 DEF OnceInv, OncePerEventInOrder
<1> QED
  BY <1>1, OnceInvariant, TypeInvariant, PTL

-----------------------------------------------------------------------------
(* A job starts only when the job behind its event is settled.             *)

\* The job is over, and the notes of a job that succeeded are in the store.
Settled(j) ==
  /\ IsFinished(j)
  /\ "store" \notin Faults /\ jobs[j].status = "succeeded" /\ jobs[j].out.notes
     => j \in noted

(***************************************************************************)
(* Whatever the controller no longer waits for is settled, so it is when   *)
(* the next event is taken, with the job behind that event.  An event may  *)
(* well be in the stream before: an agent publishes while its job runs.    *)
(***************************************************************************)
SettleInv ==
  /\ \A i \in 1..Len(stream) : stream[i].origin \in 0..Len(jobs)
  /\ \A i \in 1..Len(outbox) : outbox[i].origin \in 0..Len(jobs)
  /\ pc # "stopped" => \A j \in 1..Len(jobs) : Settled(j) \/ Awaited(j)
  /\ \A i \in 1..cursor : stream[i].origin = 0 \/ Settled(stream[i].origin)

\* What is settled stays so, and the origins that are known stay known.
LEMMA SettledStays ==
  ASSUME JobsKept, noted \subseteq noted'
  PROVE  /\ \A j \in 1..Len(jobs) : Settled(j) => Settled(j)'
         /\ \A n \in 0..Len(jobs) : n \in 0..Len(jobs')
BY DEF Settled, JobsKept, JobKept

LEMMA TakenStaySettled ==
  ASSUME TypeInv, SettleInv, JobsKept, StreamKept, noted \subseteq noted',
         NEW i \in 1..cursor
  PROVE  (stream[i].origin = 0 \/ Settled(stream[i].origin))'
<1>1. i \in 1..Len(stream) /\ stream'[i] = stream[i]
  <2>1. cursor \in 0..Len(stream) /\ Len(stream) \in Nat
    BY DEF TypeInv, TypeOK, StreamKept
  <2>2. i \in 1..Len(stream)
    BY <2>1
  <2> QED
    BY <2>2 DEF StreamKept
<1>2. PICK j : j = stream[i].origin
  OBVIOUS
<1>3. CASE j = 0
  BY <1>1, <1>2, <1>3
<1>4. CASE j # 0
  <2>1. Settled(j) /\ j \in 1..Len(jobs)
    BY <1>1, <1>2, <1>4 DEF SettleInv, JobsKept
  <2>2. Settled(j)'
    BY <2>1, SettledStays
  <2>3. stream'[i].origin = j
    BY <1>1, <1>2
  <2> QED
    BY <2>2, <2>3 DEF Settled, IsFinished
<1> QED
  BY <1>3, <1>4

\* What is in the stream has a known origin as long as what is added has.
LEMMA OriginsKnown ==
  ASSUME SettleInv, JobsKept, StreamKept,
         \A i \in 1..Len(stream') : i \in 1..Len(stream) \/ stream'[i].origin \in 0..Len(jobs)
  PROVE  \A i \in 1..Len(stream') : stream'[i].origin \in 0..Len(jobs')
BY DEF SettleInv, JobsKept, StreamKept

\* The steps that create no job and leave the jobs to wait for alone.
LEMMA SettleFrame ==
  ASSUME TypeInv, SettleInv, JobsKept, StreamKept, Len(jobs') = Len(jobs),
         UNCHANGED <<cursor, pending>>, noted \subseteq noted',
         pc = "stopped" => pc' = "stopped",
         \A i \in 1..Len(stream') : i \in 1..Len(stream) \/ stream'[i].origin \in 0..Len(jobs),
         \A i \in 1..Len(outbox') : outbox'[i].origin \in 0..Len(jobs)
  PROVE  SettleInv'
<1>1. \A i \in 1..Len(stream') : stream'[i].origin \in 0..Len(jobs')
  BY OriginsKnown
<1>2. pc' # "stopped" => \A j \in 1..Len(jobs') : Settled(j)' \/ Awaited(j)'
  BY SettledStays DEF SettleInv, Awaited
<1>3. \A i \in 1..cursor' : (stream[i].origin = 0 \/ Settled(stream[i].origin))'
  BY TakenStaySettled
<1> QED
  BY <1>1, <1>2, <1>3 DEF SettleInv

LEMMA NextSettleInv == TypeInv /\ AwaitInv /\ SettleInv /\ [Next]_vars => SettleInv'
<1> SUFFICES ASSUME TypeInv, AwaitInv, SettleInv, [Next]_vars PROVE SettleInv'
  OBVIOUS
<1>1. JobsKept /\ StreamKept
  BY JobsGrow, StreamGrows
<1>2. /\ pending \in Seq(Nat \ {0}) /\ Len(pending) \in Nat /\ cursor \in 0..Len(stream)
      /\ JobIds = 1..Len(jobs) /\ Len(jobs) \in Nat /\ Len(stream) \in Nat
      /\ stream \in Seq(Events) /\ outbox \in Seq(Events) /\ Len(outbox) \in Nat
  BY <1>1, LenProperties DEF TypeInv, TypeOK, JobsKept, JobIds
<1>3. ASSUME jobs' = jobs \/ Len(jobs') = Len(jobs), UNCHANGED <<cursor, pending, noted>>,
             pc = "stopped" => pc' = "stopped", UNCHANGED <<stream, outbox>>
      PROVE  SettleInv'
  <2>1. /\ \A i \in 1..Len(stream') :
             i \in 1..Len(stream) \/ stream'[i].origin \in 0..Len(jobs)
        /\ \A i \in 1..Len(outbox') : outbox'[i].origin \in 0..Len(jobs)
    BY <1>3 DEF SettleInv
  <2> QED
    BY <1>1, <1>3, <2>1, SettleFrame
\* One event is added to the stream.
<1>4. ASSUME NEW e, stream' = Append(stream, e), e.origin \in 0..Len(jobs),
             Len(jobs') = Len(jobs), UNCHANGED <<cursor, pending, noted>>,
             pc = "stopped" => pc' = "stopped",
             \A i \in 1..Len(outbox') : outbox'[i].origin \in 0..Len(jobs)
      PROVE  SettleInv'
  <2>1. \A i \in 1..Len(stream') :
          i \in 1..Len(stream) \/ stream'[i].origin \in 0..Len(jobs)
    BY <1>2, <1>4
  <2> QED
    BY <1>1, <1>4, <2>1, SettleFrame
<1>5. CASE Start
  <2>1. /\ Len(stream) = 0 /\ Len(jobs) = 0 /\ jobs' = jobs /\ cursor' = 0
        /\ stream = <<>> /\ Len(outbox) = 0 /\ outbox' = outbox
        /\ stream' = stream \/ stream' = Append(stream, FirstEvent)
    BY <1>5 DEF Start, Subscribed, TypeInv, Control
  <2>2. FirstEvent.origin = 0
    BY DEF FirstEvent, MakeEvent
  <2>3. \A i \in 1..Len(stream') : stream'[i].origin = 0
    BY <2>1, <2>2
  <2> QED
    BY <2>1, <2>3 DEF SettleInv
<1>6. CASE Complete \/ Receive
  <2>1. /\ cursor' = cursor + 1 /\ jobs' = jobs /\ noted' = noted /\ stream' = stream
        /\ outbox' = outbox /\ pending' = pending
        /\ pc = "receive" /\ Len(pending) = 0 /\ cursor < Len(stream)
    BY <1>6 DEF Complete, Receive, Deliver, Listening, storeVars, TypeInv, Control
  <2>2. \A j \in 1..Len(jobs) : Settled(j)
    BY <2>1 DEF SettleInv, Awaited
  <2>3. \A i \in 1..cursor' : stream[i].origin = 0 \/ Settled(stream[i].origin)
    <3>1. \A i \in 1..cursor' : stream[i].origin \in 0..Len(jobs)
      BY <1>2, <2>1 DEF SettleInv
    <3> QED
      BY <1>2, <2>2, <3>1
  <2> QED
    BY <2>1, <2>2, <2>3 DEF SettleInv, Settled, IsFinished
<1>7. ASSUME NEW h \in Hats, CreateJob(h) PROVE SettleInv'
  <2>1. /\ Len(jobs') = Len(jobs) + 1 /\ pending' = Append(pending, Len(jobs'))
        /\ pc = "activate" /\ noted' = noted /\ UNCHANGED <<stream, outbox, cursor>>
    BY <1>1, <1>7 DEF CreateJob, Activating, JobsKept, storeVars, brokerVars
  <2>2. /\ \A i \in 1..Len(pending) : pending'[i] = pending[i]
        /\ pending'[Len(pending) + 1] = Len(jobs')
        /\ Len(pending') = Len(pending) + 1
    BY <1>2, <2>1
  <2>3. \A j \in 1..Len(jobs) : Settled(j)' \/ Awaited(j)'
    <3> TAKE j \in 1..Len(jobs)
    <3>1. CASE Settled(j)
      BY <1>1, <2>1, <3>1, SettledStays
    <3>2. CASE Awaited(j)
      BY <1>2, <2>2, <3>2 DEF Awaited
    <3> QED
      BY <2>1, <3>1, <3>2 DEF SettleInv
  <2>4. \A j : j = Len(jobs) + 1 => Awaited(j)'
    <3>1. Len(pending) + 1 \in 1..Len(pending')
      BY <1>2, <2>2
    <3> QED
      BY <2>1, <2>2, <3>1 DEF Awaited
  <2>5. \A j \in 1..Len(jobs') : Settled(j)' \/ Awaited(j)'
    BY <1>2, <2>1, <2>3, <2>4
  <2>6. \A i \in 1..cursor' : (stream[i].origin = 0 \/ Settled(stream[i].origin))'
    BY <1>1, <2>1, TakenStaySettled
  <2>7. /\ \A i \in 1..Len(stream') : stream'[i].origin \in 0..Len(jobs')
        /\ \A i \in 1..Len(outbox') : outbox'[i].origin \in 0..Len(jobs')
    <3>1. \A n \in 0..Len(jobs) : n \in 0..Len(jobs')
      BY <1>2, <2>1
    <3> QED
      BY <2>1, <3>1 DEF SettleInv
  <2> QED
    BY <2>5, <2>6, <2>7 DEF SettleInv
\* Steps that stop waiting for a job that is settled.
<1>8. ASSUME jobs' = jobs, pending # <<>>, pending' = Tail(pending),
             NEW n \in 1..Len(jobs), n = Head(pending), Settled(n)',
             noted \subseteq noted', pc # "stopped", UNCHANGED <<stream, outbox, cursor>>
      PROVE  SettleInv'
  <2>1. /\ \A i \in 1..Len(pending) : i = 1 \/ i - 1 \in 1..Len(pending')
        /\ \A i \in 1..Len(pending') : pending'[i] = pending[i + 1]
        /\ Head(pending) = pending[1]
    <3>1. /\ Len(pending') = Len(pending) - 1
          /\ \A i \in 1..Len(pending') : pending'[i] = pending[i + 1]
          /\ Head(pending) = pending[1]
      BY <1>2, <1>8, HeadTailProperties
    <3>2. \A i \in 1..Len(pending) : i = 1 \/ i - 1 \in 1..Len(pending')
      BY <1>2, <3>1
    <3> QED
      BY <3>1, <3>2
  <2>2. \A j \in 1..Len(jobs) : Settled(j)' \/ Awaited(j)'
    <3> TAKE j \in 1..Len(jobs)
    <3>1. CASE Settled(j)
      BY <1>1, <1>8, <3>1, SettledStays
    <3>2. CASE Awaited(j)
      <4>1. PICK i \in 1..Len(pending) : pending[i] = j
        BY <3>2 DEF Awaited
      <4>2. CASE i = 1
        <5>1. j = n
          BY <1>8, <2>1, <4>1, <4>2
        <5> QED
          BY <1>8, <5>1 DEF Settled, IsFinished
      <4>3. CASE i - 1 \in 1..Len(pending')
        <5>1. pending'[i - 1] = j
          <6>1. pending'[i - 1] = pending[(i - 1) + 1] /\ (i - 1) + 1 = i
            BY <2>1, <4>3
          <6> QED
            BY <4>1, <6>1
        <5> QED
          BY <4>3, <5>1 DEF Awaited
      <4> QED
        BY <2>1, <4>2, <4>3
    <3> QED
      BY <1>8, <3>1, <3>2 DEF SettleInv
  <2>3. \A i \in 1..cursor' : (stream[i].origin = 0 \/ Settled(stream[i].origin))'
    BY <1>1, <1>8, TakenStaySettled
  <2> QED
    BY <1>8, <2>2, <2>3 DEF SettleInv
<1>9. ASSUME NEW j \in JobIds, JobFailed(j) PROVE SettleInv'
  <2>1. /\ jobs' = jobs /\ pending # <<>> /\ pending' = Tail(pending) /\ noted' = noted
        /\ pc # "stopped" /\ UNCHANGED <<stream, outbox, cursor>>
        /\ j = Head(pending) /\ jobs[j].status = "failed"
    BY <1>9 DEF JobFailed, Waiting, HasFailed, AfterFailure, storeVars, brokerVars
  <2>2. Settled(j)'
    BY <2>1 DEF Settled, IsFinished, Finished
  <2> QED
    BY <1>2, <1>8, <2>1, <2>2
<1>10. CASE PersistNotes
  <2>1. /\ jobs' = jobs /\ pc = "publish" /\ pending # <<>> /\ pending' = Tail(pending)
        /\ UNCHANGED <<stream, outbox, cursor>>
    BY <1>10 DEF PersistNotes, brokerVars, TypeInv, Control
  <2>2. /\ noted \subseteq noted'
        /\ "store" \notin Faults /\ jobs[Head(pending)].out.notes => Head(pending) \in noted'
    BY <1>10 DEF PersistNotes, HasNotes
  <2>3. PICK n \in 1..Len(jobs) : n = Head(pending)
    BY <2>1, TailPending
  <2>4. IsFinished(n) /\ IsFinished(n)'
    BY <2>1, <2>3 DEF AwaitInv, IsFinished
  <2>5. Settled(n)'
    BY <2>1, <2>2, <2>3, <2>4 DEF Settled
  <2> QED
    BY <1>8, <2>1, <2>2, <2>3, <2>5
<1>11. ASSUME NEW j \in JobIds, JobSucceeded(j) PROVE SettleInv'
  <2>1. /\ jobs' = jobs /\ UNCHANGED <<cursor, pending, noted, stream>> /\ pc # "stopped"
        /\ outbox' = Numbered(Published(jobs[j].hat, jobs[j].out), globalSequence, j)
    BY <1>11 DEF JobSucceeded, Waiting, brokerVars, storeVars
  <2>2. \A i \in 1..Len(outbox') : outbox'[i].origin = j
    <3>1. jobs[j] \in Jobs
      BY <1>2, ElementOfSeq DEF TypeInv, TypeOK
    <3>2. Published(jobs[j].hat, jobs[j].out) \in Seq(Emissions)
      BY <3>1, PublishedType DEF Jobs
    <3> DEFINE said == Published(jobs[j].hat, jobs[j].out)
    <3>3. said \in Seq(Emissions) /\ Len(said) \in Nat
      BY <3>2, LenProperties
    <3>4. outbox' = Numbered(said, globalSequence, j)
      BY <2>1
    <3> HIDE DEF said
    <3>5. \A i \in 1..Len(said) : Numbered(said, globalSequence, j)[i].origin = j
      BY DEF Numbered, MakeEvent
    <3>6. Len(Numbered(said, globalSequence, j)) = Len(said)
      <4>1. globalSequence \in Nat /\ j \in Nat
        BY <1>2 DEF TypeInv, TypeOK
      <4> QED
        BY <3>3, <4>1, NumberedType
    <3> QED
      BY <3>4, <3>5, <3>6
  <2>3. \A i \in 1..Len(outbox') : outbox'[i].origin \in 0..Len(jobs)
    BY <1>2, <2>2
  <2> QED
    BY <1>1, <1>2, <2>1, <2>3, SettleFrame
<1>12. CASE Publish \/ PublishFails
  <2>1. /\ UNCHANGED <<jobs, cursor, pending, noted>> /\ outbox # <<>> /\ pc # "stopped"
        /\ stream' = stream \/ stream' = Append(stream, Head(outbox))
        /\ outbox' = outbox \/ outbox' = Tail(outbox)
        /\ PublishFails => outbox' = outbox
        /\ Publish => stream' = Append(stream, Head(outbox))
    BY <1>12 DEF Publish, PublishFails, MaybePublished, storeVars
  <2>2. /\ Head(outbox).origin \in 0..Len(jobs)
        /\ \A i \in 1..Len(Tail(outbox)) : Tail(outbox)[i].origin \in 0..Len(jobs)
    <3>1. /\ Len(Tail(outbox)) = Len(outbox) - 1
          /\ \A i \in 1..Len(Tail(outbox)) : Tail(outbox)[i] = outbox[i + 1]
          /\ Head(outbox) = outbox[1] /\ Len(outbox) > 0
      BY <1>2, <2>1, HeadTailProperties
    <3>2. \A i \in 1..Len(Tail(outbox)) : i + 1 \in 1..Len(outbox)
      BY <1>2, <3>1
    <3> QED
      BY <1>2, <3>1, <3>2 DEF SettleInv
  <2>3. \A i \in 1..Len(outbox') : outbox'[i].origin \in 0..Len(jobs)
    BY <2>1, <2>2 DEF SettleInv
  <2>4. CASE stream' = Append(stream, Head(outbox))
    BY <1>4, <2>1, <2>2, <2>3, <2>4
  <2>5. CASE stream' = stream
    <3>1. \A i \in 1..Len(stream') : i \in 1..Len(stream)
      BY <2>5
    <3> QED
      BY <1>1, <2>1, <2>3, <3>1, SettleFrame
  <2> QED
    BY <2>1, <2>4, <2>5
<1>13. ASSUME NEW j \in JobIds, JobStep(j) PROVE SettleInv'
  <2>1. Len(jobs') = Len(jobs) /\ UNCHANGED controllerVars
        /\ UNCHANGED <<cursor, noted>>
    BY <1>13, SetJobKeeps
       DEF JobStep, LocalJobSucceeds, CommandSucceeds, AgentPublishes, AgentExits,
           JobFails, brokerVars, storeVars
  <2>2. CASE stream' = stream
    BY <1>3, <2>1, <2>2 DEF controllerVars
  <2>3. CASE jobs[j].emits # <<>> /\ stream' = Append(stream, AgentEvent(j))
    <3>1. PICK e : stream' = Append(stream, e) /\ e.origin = j
      BY <2>3 DEF AgentEvent, MakeEvent
    <3>2. \A i \in 1..Len(outbox') : outbox'[i].origin \in 0..Len(jobs)
      BY <2>1 DEF controllerVars, SettleInv
    <3>3. e.origin \in 0..Len(jobs)
      BY <1>2, <3>1
    <3> QED
      BY <1>4, <2>1, <3>1, <3>2, <3>3 DEF controllerVars
  <2> QED
    BY <1>13, <2>2, <2>3
       DEF JobStep, LocalJobSucceeds, CommandSucceeds, AgentPublishes, AgentExits, JobFails,
           brokerVars
<1>14. CASE OperatorEmits
  <2>1. PICK e : stream' = Append(stream, e) /\ e.origin = 0
    BY <1>14 DEF OperatorEmits, MakeEvent
  <2>2. jobs' = jobs /\ UNCHANGED controllerVars /\ UNCHANGED <<cursor, noted>>
    BY <1>14 DEF OperatorEmits, storeVars
  <2>3. e.origin \in 0..Len(jobs)
    BY <1>2, <2>1
  <2>4. \A i \in 1..Len(outbox') : outbox'[i].origin \in 0..Len(jobs)
    BY <2>2 DEF controllerVars, SettleInv
  <2> QED
    BY <1>4, <2>1, <2>2, <2>3, <2>4 DEF controllerVars
<1>15. CASE StartFails
  <2>1. /\ jobs' = jobs /\ UNCHANGED <<cursor, pending, noted, outbox>> /\ pc # "stopped"
        /\ stream' = stream \/ stream' = Append(stream, FirstEvent)
    BY <1>15 DEF StartFails, MaybePublished, storeVars
  <2>2. FirstEvent.origin = 0
    BY DEF FirstEvent, MakeEvent
  <2>3. \A i \in 1..Len(outbox') : outbox'[i].origin \in 0..Len(jobs)
    BY <2>1 DEF SettleInv
  <2> QED
    BY <1>2, <1>3, <1>4, <2>1, <2>2, <2>3
<1>16. ASSUME NEW h \in Hats, GateFails(h) \/ CreateJobFails(h) PROVE SettleInv'
  BY <1>3, <1>16 DEF GateFails, CreateJobFails, Activating, brokerVars, storeVars
<1>17. CASE StopAtMaxIterations \/ TimeOut \/ AwaitBatch \/ EndIteration
             \/ SubscriptionEnds \/ WaitFails
  BY <1>3, <1>17
     DEF StopAtMaxIterations, TimeOut, AwaitBatch, EndIteration, SubscriptionEnds,
         WaitFails, Listening, brokerVars, storeVars
<1>18. CASE UNCHANGED vars
  BY <1>3, <1>18 DEF vars, controllerVars, brokerVars, storeVars
<1> QED
  BY <1>5, <1>6, <1>7, <1>9, <1>10, <1>11, <1>12, <1>13, <1>14, <1>15, <1>16, <1>17, <1>18
     DEF Next, Progress, Fault, AllDone

(***************************************************************************)
(* When a hat starts, the job that woke it is over and its memories, tasks *)
(* and scratchpad are in the store, although the events that wake the hat  *)
(* are published before they are written (reconciler.rs:246-297 and        *)
(* 299-353), and by an agent even while its job is running.                *)
(***************************************************************************)
THEOREM PredecessorHolds == Spec => []PredecessorSettled
<1>1. Init => SettleInv
  BY DEF Init, SettleInv
<1>2. TypeInv /\ OnceInv /\ SettleInv => PredecessorSettled
  <2> SUFFICES ASSUME TypeInv, OnceInv, SettleInv, NEW k \in JobIds,
                      stream[jobs[k].cause].origin # 0
               PROVE  Settled(stream[jobs[k].cause].origin)
    BY DEF PredecessorSettled, Settled
  <2>1. jobs[k] \in Jobs /\ k \in 1..Len(jobs) /\ cursor \in Nat
    BY LenProperties, ElementOfSeq DEF TypeInv, TypeOK, JobIds
  <2>2. jobs[k].cause \in Nat \ {0}
    BY <2>1 DEF Jobs
  <2>3. jobs[k].cause \in 1..cursor
    BY <2>1, <2>2 DEF OnceInv
  <2> QED
    BY <2>3 DEF SettleInv
<1> QED
  BY <1>1, <1>2, NextSettleInv, OnceInvariant, TypeInvariant, AwaitInvariant, PTL DEF Spec

-----------------------------------------------------------------------------
(* What a checkpoint vouches for.                                          *)

HatJobs(h, n) == {k \in 1..n : jobs[k].hat = h}

(***************************************************************************)
(* A checkpoint stands for a point in the sequence of jobs: all before it  *)
(* are over, and they are what its activations count.                      *)
(***************************************************************************)
CoveredUpTo(n) ==
  /\ \A j \in 1..n : IsFinished(j)
  /\ \A h \in Hats : checkpoint.activations[h] = Cardinality(HatJobs(h, n))

CoverInv == checkpoint # NoCheckpoint => \E n \in 0..Len(jobs) : CoveredUpTo(n)

LEMMA NextCoverInv ==
  TypeInv /\ AwaitInv /\ CountInv /\ CoverInv /\ [Next]_vars => CoverInv'
<1> SUFFICES ASSUME TypeInv, AwaitInv, CountInv, CoverInv, [Next]_vars PROVE CoverInv'
  OBVIOUS
<1>1. JobsKept
  BY JobsGrow
<1>2. Len(jobs) \in Nat /\ JobIds = 1..Len(jobs)
  BY <1>1 DEF JobsKept, JobIds
<1>3. CASE checkpoint' = checkpoint
  <2> SUFFICES ASSUME checkpoint # NoCheckpoint PROVE \E n \in 0..Len(jobs') : CoveredUpTo(n)'
    BY <1>3 DEF CoverInv
  <2>1. PICK n \in 0..Len(jobs) : CoveredUpTo(n)
    BY DEF CoverInv
  <2>2. n \in 0..Len(jobs') /\ \A j \in 1..n : JobKept(j)
    BY <1>1, <2>1 DEF JobsKept
  <2>3. \A h : HatJobs(h, n)' = HatJobs(h, n)
    BY <2>2 DEF HatJobs, JobKept
  <2>4. \A j \in 1..n : IsFinished(j)'
    BY <2>1, <2>2 DEF CoveredUpTo, JobKept
  <2>5. CoveredUpTo(n)'
    BY <1>3, <2>1, <2>3, <2>4 DEF CoveredUpTo
  <2> QED
    BY <2>2, <2>5
<1>4. CASE EndIteration /\ checkpoint' = Snapshot
  <2>1. jobs' = jobs /\ pc = "wait" /\ Len(pending) = 0
    BY <1>4 DEF EndIteration
  <2>2. \A j \in 1..Len(jobs) : IsFinished(j)'
    BY <2>1 DEF AwaitInv, Awaited, IsFinished
  <2>3. \A h \in Hats : checkpoint'.activations[h] = Cardinality(JobsOf(h))
    BY <1>4 DEF CountInv, Snapshot
  <2>4. \A h : \A n : n = Len(jobs) => HatJobs(h, n)' = JobsOf(h)
    BY <1>2, <2>1 DEF HatJobs, JobsOf
  <2>5. \A n : n = Len(jobs) => CoveredUpTo(n)'
    BY <2>2, <2>3, <2>4 DEF CoveredUpTo
  <2>6. Len(jobs) \in 0..Len(jobs')
    BY <1>2, <2>1
  <2> QED
    BY <2>5, <2>6 DEF CoverInv
<1>5. checkpoint' = checkpoint \/ (EndIteration /\ checkpoint' = Snapshot)
  <2>1. CASE Progress
    <3>1. CASE EndIteration
      BY <3>1 DEF EndIteration
    <3> QED
      BY <2>1, <3>1
         DEF Progress, Start, StopAtMaxIterations, TimeOut, Complete, Receive, Deliver,
             GateFails, CreateJob, AwaitBatch, JobSucceeded, JobFailed, Publish,
             PersistNotes, storeVars
  <2>2. CASE Fault
    BY <2>2 DEF Fault, StartFails, SubscriptionEnds, CreateJobFails, WaitFails,
                PublishFails, storeVars
  <2>3. CASE \E j \in JobIds : JobStep(j)
    BY <2>3 DEF JobStep, LocalJobSucceeds, CommandSucceeds, AgentPublishes, AgentExits,
                JobFails, storeVars
  <2> QED
    BY <2>1, <2>2, <2>3 DEF Next, OperatorEmits, AllDone, vars, storeVars
<1> QED
  BY <1>3, <1>4, <1>5

(***************************************************************************)
(* A run continued from its checkpoint takes no unfinished work for done:  *)
(* the jobs its activations count were over when it was written, even when *)
(* others of the same hats have been started since (reconciler.rs:364-377).*)
(***************************************************************************)
THEOREM CheckpointHolds == Spec => []CheckpointCoversFinished
<1>1. Init => CoverInv
  BY DEF Init, CoverInv
<1>2. TypeInv /\ CoverInv => CheckpointCoversFinished
  <2> SUFFICES ASSUME TypeInv, CoverInv, checkpoint # NoCheckpoint, NEW j \in JobIds,
                      Cardinality(HatJobs(jobs[j].hat, j))
                        <= checkpoint.activations[jobs[j].hat]
               PROVE  IsFinished(j)
    BY DEF CheckpointCoversFinished, HatJobs
  <2> DEFINE h == jobs[j].hat
  <2>1. jobs[j] \in Jobs /\ j \in 1..Len(jobs) /\ Len(jobs) \in Nat
    BY LenProperties, ElementOfSeq DEF TypeInv, TypeOK, JobIds
  <2>2. h \in Hats
    BY <2>1 DEF Jobs
  <2> HIDE DEF h
  <2>3. PICK n \in 0..Len(jobs) : CoveredUpTo(n)
    BY DEF CoverInv
  <2>4. Cardinality(HatJobs(h, j)) <= Cardinality(HatJobs(h, n))
    BY <2>2, <2>3 DEF CoveredUpTo, h
  <2>5. CASE j <= n
    BY <2>1, <2>3, <2>5 DEF CoveredUpTo
  <2>6. CASE ~(j <= n)
    <3>1. \A m \in Nat : IsFiniteSet(HatJobs(h, m)) /\ Cardinality(HatJobs(h, m)) \in Nat
      <4> TAKE m \in Nat
      <4>1. HatJobs(h, m) \subseteq 1..m /\ IsFiniteSet(1..m)
        BY FS_Interval DEF HatJobs
      <4> QED
        BY <4>1, FS_Subset, FS_CardinalityType
    <3>2. n \in Nat /\ j \in Nat /\ n < j
      BY <2>1, <2>6
    <3>3. j \notin HatJobs(h, n) /\ HatJobs(h, n) \cup {j} \subseteq HatJobs(h, j)
      BY <2>1, <3>2 DEF HatJobs, h
    <3>4. Cardinality(HatJobs(h, n) \cup {j}) = Cardinality(HatJobs(h, n)) + 1
      BY <3>1, <3>2, <3>3, FS_AddElement
    <3>5. Cardinality(HatJobs(h, n) \cup {j}) <= Cardinality(HatJobs(h, j))
      BY <3>1, <3>2, <3>3, FS_Subset
    <3> QED
      BY <2>4, <3>1, <3>2, <3>4, <3>5
  <2> QED
    BY <2>5, <2>6
<1> QED
  BY <1>1, <1>2, NextCoverInv, TypeInvariant, AwaitInvariant, CountInvariant, PTL DEF Spec

(***************************************************************************)
(* Nothing a run leaves behind for good is still going on: not the jobs of *)
(* a run that returned without a failure, not those its checkpoint counts  *)
(* (reconciler.rs:118-222, 364-377).                                       *)
(***************************************************************************)
THEOREM NothingInFlightHolds == Spec => []NothingInFlight
<1>1. QuietStop /\ CheckpointCoversFinished => NothingInFlight
  BY DEF NothingInFlight
<1> QED
  BY <1>1, QuietStopHolds, CheckpointHolds, PTL

-----------------------------------------------------------------------------
(***************************************************************************)
(* The loop implements EventLoop, for every configuration: each of its     *)
(* steps, seen through the mapping of module Reconciler, is a step of that *)
(* specification or changes nothing there.                                 *)
(***************************************************************************)

(* Both specifications read events in the same way.                        *)

LEMMA SameMatching ==
  \A p, t : /\ Loop!Matches(p, t) = Matches(p, t)
            /\ Loop!Specificity(p) = Specificity(p)
<1>1. \A p, t : Loop!Matches(p, t) = Matches(p, t)
  BY DEF Loop!Matches, Matches, Loop!IsEmptyPattern, IsEmptyPattern,
         Loop!Chevron, Chevron, Loop!Star, Star
<1>2. \A p : Loop!Specificity(p) = Specificity(p)
  BY DEF Loop!Specificity, Specificity, Loop!IsEmptyPattern, IsEmptyPattern,
         Loop!SegmentScore, SegmentScore, Loop!Chevron, Chevron, Loop!Star, Star
<1> QED
  BY <1>1, <1>2

LEMMA SameRouting ==
  /\ \A event : Loop!Interested(event) = Interested(event)
  /\ \A h, t : Loop!BestSpecificity(h, t) = BestSpecificity(h, t)
<1>1. \A h, t : Loop!MatchingTriggers(h, t) = MatchingTriggers(h, t)
  BY SameMatching DEF Loop!MatchingTriggers, MatchingTriggers
<1>2. \A event : Loop!Interested(event) = Interested(event)
  BY <1>1 DEF Loop!Interested, Interested, Loop!IsSystem, IsSystem
<1>3. \A h, t : Loop!BestSpecificity(h, t) = BestSpecificity(h, t)
  BY <1>1, SameMatching DEF Loop!BestSpecificity, BestSpecificity
<1> QED
  BY <1>2, <1>3

LEMMA SameCardinality == \A S : Loop!Cardinality(S) = Cardinality(S)
BY DEF Loop!Cardinality, Cardinality, Loop!IsFiniteSet, IsFiniteSet

-----------------------------------------------------------------------------
(* What is left of the batch.                                              *)

Score(h) == BestSpecificity(h, stream[cursor].topic)

(***************************************************************************)
(* The hats still to be started asked for the event taken last, come most  *)
(* specific first, and come after every hat already started for it.        *)
(***************************************************************************)
PriorityInv ==
  /\ Len(batch) > 0 => cursor > 0
  /\ \A i \in 1..Len(batch) : batch[i] \in Interested(stream[cursor])
  /\ \A i, k \in 1..Len(batch) : i < k => Score(batch[i]) >= Score(batch[k])
  /\ \A j \in 1..Len(jobs), i \in 1..Len(batch) :
       jobs[j].cause = cursor => Score(jobs[j].hat) >= Score(batch[i])

LEMMA RouteOrdered ==
  ASSUME NEW event, NEW acts, NEW order \in RouteWithState(event, acts)
  PROVE  /\ \A i \in 1..Len(order) : order[i] \in Interested(event)
         /\ \A i, k \in 1..Len(order) : i < k =>
              BestSpecificity(order[i], event.topic) >= BestSpecificity(order[k], event.topic)
<1> DEFINE eligible == {h \in Interested(event) : BelowLimit(h, acts)}
<1>1. /\ order \in [1..Cardinality(eligible) -> eligible]
      /\ \A i, k \in DOMAIN order : i < k =>
           BestSpecificity(order[i], event.topic) >= BestSpecificity(order[k], event.topic)
  BY DEF RouteWithState, Orders
<1>2. DOMAIN order = 1..Len(order)
  BY RouteType, LenProperties
<1> QED
  BY <1>1, <1>2

\* A step that leaves event, jobs and the order of what is left alone.
LEMMA PriorityFrame ==
  ASSUME TypeInv, PriorityInv, JobsKept, StreamKept, Len(jobs') = Len(jobs),
         cursor' = cursor, batch' = batch
  PROVE  PriorityInv'
<1>1. CASE Len(batch) = 0
  BY <1>1 DEF PriorityInv
<1>2. CASE Len(batch) # 0
  <2>1. cursor > 0 /\ stream'[cursor] = stream[cursor]
    BY <1>2, LenProperties DEF PriorityInv, StreamKept, TypeInv, TypeOK
  <2>2. \A j \in 1..Len(jobs) : jobs'[j].cause = jobs[j].cause /\ jobs'[j].hat = jobs[j].hat
    BY DEF JobsKept, JobKept
  <2> DEFINE score(h) == Score(h)
  <2>3. /\ \A i, k \in 1..Len(batch) : i < k => score(batch[i]) >= score(batch[k])
        /\ \A j \in 1..Len(jobs), i \in 1..Len(batch) :
             jobs[j].cause = cursor => score(jobs[j].hat) >= score(batch[i])
    BY DEF PriorityInv
  <2>4. \A h : BestSpecificity(h, stream'[cursor'].topic) = score(h)
    BY <2>1 DEF Score
  <2> HIDE DEF score
  <2> QED
    BY <2>1, <2>2, <2>3, <2>4 DEF PriorityInv, Score
<1> QED
  BY <1>1, <1>2

LEMMA NextPriorityInv ==
  TypeInv /\ OnceInv /\ PriorityInv /\ [Next]_vars => PriorityInv'
<1> SUFFICES ASSUME TypeInv, OnceInv, PriorityInv, [Next]_vars PROVE PriorityInv'
  OBVIOUS
<1>1. JobsKept /\ StreamKept
  BY JobsGrow, StreamGrows
<1>2. /\ batch \in Seq(Hats) /\ Len(batch) \in Nat /\ cursor \in 0..Len(stream)
      /\ jobs \in Seq(Jobs) /\ Len(jobs) \in Nat /\ JobIds = 1..Len(jobs)
      /\ Len(stream) \in Nat
  BY <1>1, LenProperties DEF TypeInv, TypeOK, JobsKept, JobIds, StreamKept
<1>3. CASE Len(jobs') = Len(jobs) /\ UNCHANGED <<cursor, batch>>
  BY <1>1, <1>3, PriorityFrame
<1>4. CASE Start
  <2>1. Len(batch) = 0 /\ batch' = batch
    BY <1>4 DEF Start, TypeInv, Control
  <2> QED
    BY <2>1 DEF PriorityInv
<1>5. CASE Complete
  <2>1. Len(batch) = 0 /\ batch' = batch
    BY <1>5 DEF Complete, Deliver, Listening, TypeInv, Control
  <2> QED
    BY <2>1 DEF PriorityInv
<1>6. CASE Receive
  <2>1. /\ cursor' = cursor + 1 /\ jobs' = jobs /\ stream' = stream
        /\ batch' \in RouteWithState(stream[cursor + 1], activations)
    BY <1>6 DEF Receive, Deliver, NextEvent
  <2> DEFINE event == stream[cursor + 1]
  <2>2. /\ \A i \in 1..Len(batch') : batch'[i] \in Interested(event)
        /\ \A i, k \in 1..Len(batch') : i < k =>
             BestSpecificity(batch'[i], event.topic) >= BestSpecificity(batch'[k], event.topic)
    BY <2>1, RouteOrdered
  <2>3. \A j \in 1..Len(jobs) : jobs[j].cause # cursor'
    <3> TAKE j \in 1..Len(jobs)
    <3>1. jobs[j] \in Jobs /\ jobs[j].cause <= cursor
      BY <1>2, ElementOfSeq DEF OnceInv
    <3>2. jobs[j].cause \in Nat
      BY <3>1 DEF Jobs
    <3> QED
      BY <1>2, <2>1, <3>1, <3>2
  <2>4. cursor' > 0 /\ stream'[cursor'] = event
    BY <1>2, <2>1
  <2> HIDE DEF event
  <2> QED
    BY <2>1, <2>2, <2>3, <2>4 DEF PriorityInv, Score
<1>7. ASSUME batch # <<>>, batch' = Tail(batch), cursor' = cursor, stream' = stream
      PROVE  /\ cursor > 0
             /\ \A i \in 1..Len(batch') : /\ batch'[i] \in Interested(stream[cursor])
                                          /\ Score(Head(batch)) >= Score(batch[i + 1])
                                          /\ batch'[i] = batch[i + 1]
                                          /\ i + 1 \in 1..Len(batch)
             /\ \A i, k \in 1..Len(batch') : i < k => Score(batch[i + 1]) >= Score(batch[k + 1])
  <2>1. /\ Len(batch') = Len(batch) - 1 /\ Len(batch) > 0
        /\ \A i \in 1..Len(batch') : batch'[i] = batch[i + 1]
        /\ Head(batch) = batch[1]
    BY <1>2, <1>7, HeadTailProperties
  <2>2. /\ \A i \in 1..Len(batch') : i + 1 \in 1..Len(batch) /\ 1 < i + 1
        /\ \A i, k \in 1..Len(batch') : i < k => i + 1 < k + 1
        /\ 1 \in 1..Len(batch)
    BY <1>2, <2>1
  <2> QED
    BY <2>1, <2>2 DEF PriorityInv
<1>8. ASSUME NEW h \in Hats, GateFails(h) PROVE PriorityInv'
  <2>1. /\ jobs' = jobs /\ cursor' = cursor /\ stream' = stream
        /\ batch # <<>> /\ batch' = Tail(batch)
    BY <1>8 DEF GateFails, Activating, brokerVars
  <2>2. \A g : Score(g)' = Score(g)
    BY <2>1 DEF Score
  <2>3. \A i, k \in 1..Len(batch') : i < k => (Score(batch[i]) >= Score(batch[k]))'
    BY <1>7, <2>1 DEF Score
  <2>4. \A j \in 1..Len(jobs'), i \in 1..Len(batch') :
          (jobs[j].cause = cursor => Score(jobs[j].hat) >= Score(batch[i]))'
    BY <1>7, <2>1 DEF Score, PriorityInv
  <2> QED
    BY <1>7, <2>1, <2>3, <2>4 DEF PriorityInv
<1>9. ASSUME NEW h \in Hats, CreateJob(h) PROVE PriorityInv'
  <2>1. /\ cursor' = cursor /\ stream' = stream /\ batch # <<>> /\ h = Head(batch)
        /\ batch' = Tail(batch)
    BY <1>9 DEF CreateJob, Activating, brokerVars
  <2>2. PICK job : jobs' = Append(jobs, job) /\ job.hat = h
    BY <1>9 DEF CreateJob
  <2>3. /\ Len(jobs') = Len(jobs) + 1
        /\ \A j \in 1..Len(jobs) : jobs'[j] = jobs[j]
        /\ jobs'[Len(jobs')] = job
    BY <1>2, <2>2
  <2>4. \A i, k \in 1..Len(batch') : i < k => (Score(batch[i]) >= Score(batch[k]))'
    BY <1>7, <2>1 DEF Score
  <2>5. \A j \in 1..Len(jobs'), i \in 1..Len(batch') :
          (jobs[j].cause = cursor => Score(jobs[j].hat) >= Score(batch[i]))'
    <3> TAKE j \in 1..Len(jobs'), i \in 1..Len(batch')
    <3>1. CASE j \in 1..Len(jobs)
      BY <1>7, <2>1, <2>3, <3>1 DEF Score, PriorityInv
    <3>2. CASE j = Len(jobs')
      BY <1>7, <2>1, <2>2, <2>3, <3>2 DEF Score
    <3> QED
      BY <1>2, <2>3, <3>1, <3>2
  <2> QED
    BY <1>7, <2>1, <2>4, <2>5 DEF PriorityInv
<1>10. CASE Progress
  <2>1. CASE \E j \in JobIds : JobSucceeded(j) \/ JobFailed(j)
    BY <1>3, <2>1 DEF JobSucceeded, JobFailed, brokerVars
  <2>2. CASE StopAtMaxIterations \/ TimeOut \/ AwaitBatch \/ Publish \/ PersistNotes
               \/ EndIteration
    BY <1>3, <2>2
       DEF StopAtMaxIterations, TimeOut, AwaitBatch, Publish, PersistNotes,
           EndIteration, counters, brokerVars
  <2> QED
    BY <1>4, <1>5, <1>6, <1>8, <1>9, <1>10, <2>1, <2>2 DEF Progress
<1>11. CASE Fault
  BY <1>3, <1>11
     DEF Fault, StartFails, SubscriptionEnds, CreateJobFails, WaitFails, PublishFails,
         counters, brokerVars
<1>12. ASSUME NEW j \in JobIds, JobStep(j) PROVE PriorityInv'
  <2>1. Len(jobs') = Len(jobs) /\ UNCHANGED <<cursor, batch>>
    BY <1>12, SetJobKeeps
       DEF JobStep, LocalJobSucceeds, CommandSucceeds, AgentPublishes, AgentExits,
           JobFails, controllerVars, brokerVars
  <2> QED
    BY <1>3, <2>1
<1> QED
  BY <1>3, <1>10, <1>11, <1>12
     DEF Next, AllDone, OperatorEmits, vars, controllerVars, brokerVars

LEMMA PriorityInvariant == Spec => []PriorityInv
<1>1. Init => PriorityInv
  BY DEF Init, PriorityInv
<1> QED
  BY <1>1, NextPriorityInv, TypeInvariant, OnceInvariant, PTL DEF Spec

-----------------------------------------------------------------------------
(* The simulation: one lemma per action of EventLoop.                      *)

Simulated == Loop!LoopNext \/ UNCHANGED Loop!loopVars

\* Only CreateJob adds a start.
LEMMA StartsKept ==
  ASSUME JobsKept, Len(jobs') = Len(jobs)
  PROVE  Starts' = Starts
<1>1. JobIds = 1..Len(jobs) /\ JobIds' = 1..Len(jobs)
  BY DEF JobsKept, JobIds
<1>2. \A j \in 1..Len(jobs) : jobs'[j].cause = jobs[j].cause /\ jobs'[j].hat = jobs[j].hat
  BY DEF JobsKept, JobKept
<1> QED
  BY <1>1, <1>2 DEF Starts

LEMMA IdleSimulated ==
  ASSUME JobsKept, Len(jobs') = Len(jobs), UNCHANGED <<stream, cursor, result>>
  PROVE  Simulated
BY StartsKept DEF Simulated, Loop!loopVars

LEMMA PublishSimulated ==
  ASSUME TypeInv, JobsKept, Len(jobs') = Len(jobs), UNCHANGED <<cursor, result>>,
         NEW e, stream' = Append(stream, e)
  PROVE  Simulated
<1>1. Len(stream') = Len(stream) + 1 /\ \A i \in 1..Len(stream) : stream'[i] = stream[i]
  BY DEF TypeInv, TypeOK
<1> QED
  BY <1>1, StartsKept DEF Simulated, Loop!LoopNext, Loop!PublishOne, Loop!LogGrows

LEMMA TakeSimulated ==
  ASSUME TypeInv, JobsKept, Complete \/ Receive
  PROVE  Simulated
<1>1. /\ cursor' = cursor + 1 /\ cursor < Len(stream) /\ stream' = stream
      /\ jobs' = jobs /\ result = "none"
  BY DEF Complete, Receive, Deliver, Listening, TypeInv, Control
<1>2. \A event : Loop!IsPromise(event) = IsCompletion(event)
  BY DEF Loop!IsPromise, IsCompletion, SystemCompletion
<1>3. result' = IF Loop!IsPromise(stream[cursor']) THEN "Completed" ELSE "none"
  BY <1>1, <1>2 DEF Complete, Receive, Return, NextEvent
<1> QED
  BY <1>1, <1>3, StartsKept DEF Simulated, Loop!LoopNext, Loop!TakeOne

LEMMA GiveUpSimulated ==
  ASSUME TypeInv, JobsKept, jobs' = jobs, cursor' = cursor, pc # "stopped",
         \/ stream' = stream /\ result' \in {"MaxIterationsReached", "Failed", "Error"}
         \/ stream' = stream /\ cursor = Len(stream) /\ result' = "TimedOut"
         \/ result' = "Error" /\ \E e : stream' = Append(stream, e)
  PROVE  Simulated
<1>1. result = "none"
  BY DEF TypeInv, Control
<1>2. \/ stream' = stream
      \/ /\ result' = "Error" /\ Len(stream') = Len(stream) + 1
         /\ \A i \in 1..Len(stream) : stream'[i] = stream[i]
  <2>1. stream \in Seq(Events)
    BY DEF TypeInv, TypeOK
  <2>2. ASSUME NEW e, stream' = Append(stream, e)
        PROVE  /\ Len(stream') = Len(stream) + 1
               /\ \A i \in 1..Len(stream) : stream'[i] = stream[i]
    BY <2>1, <2>2
  <2> QED
    BY <2>2
<1>3. result' \in Loop!Timeless \cup (IF cursor = Len(stream) THEN {"TimedOut"} ELSE {})
  BY DEF Loop!Timeless
<1>4. Loop!GiveUp
  BY <1>1, <1>2, <1>3, StartsKept DEF Loop!GiveUp, Loop!LogGrows
<1> QED
  BY <1>4 DEF Simulated, Loop!LoopNext

(***************************************************************************)
(* The events a hat was started for are not more than its jobs, so a limit *)
(* on the jobs is a limit on them.                                         *)
(***************************************************************************)
LEMMA StartsWithinLimit ==
  ASSUME TypeInv, CountInv, NEW h \in DOMAIN MaxActivations,
         BelowLimit(h, activations)
  PROVE  Cardinality(Loop!StartsOf(h)) < MaxActivations[h]
<1> DEFINE causes == {jobs[j].cause : j \in JobsOf(h)}
<1>1. JobsOf(h) \subseteq 1..Len(jobs) /\ Len(jobs) \in Nat
  BY LenProperties DEF TypeInv, TypeOK, JobsOf, JobIds
<1>2. IsFiniteSet(JobsOf(h))
  <2>1. IsFiniteSet(1..Len(jobs))
    BY <1>1, FS_Interval
  <2> QED
    BY <1>1, <2>1, FS_Subset
<1>3. IsFiniteSet(causes) /\ Cardinality(causes) <= Cardinality(JobsOf(h))
  <2> DEFINE f == [j \in JobsOf(h) |-> jobs[j].cause]
  <2>1. f \in Surjection(JobsOf(h), causes)
    BY DEF Surjection
  <2> QED
    BY <1>2, <2>1, FS_Surjection
<1>4. Loop!StartsOf(h) \subseteq causes
  BY DEF Loop!StartsOf, Starts, JobsOf
<1>5. Cardinality(Loop!StartsOf(h)) <= Cardinality(causes) /\ IsFiniteSet(Loop!StartsOf(h))
  BY <1>3, <1>4, FS_Subset
<1>6. h \in Hats /\ MaxActivations[h] \in Nat
  BY LimitAssumption
<1>7. Cardinality(JobsOf(h)) < MaxActivations[h]
  BY <1>6 DEF CountInv, BelowLimit
<1>8. /\ Cardinality(Loop!StartsOf(h)) \in Nat
      /\ Cardinality(causes) \in Nat
      /\ Cardinality(JobsOf(h)) \in Nat
  BY <1>2, <1>3, <1>5, FS_CardinalityType
<1> HIDE DEF causes
<1> QED
  BY <1>3, <1>5, <1>6, <1>7, <1>8

LEMMA CreateSimulated ==
  ASSUME TypeInv, CountInv, OnceInv, PriorityInv, JobsKept,
         NEW h \in Hats, CreateJob(h)
  PROVE  Simulated
<1>1. /\ pc = "activate" /\ batch # <<>> /\ h = Head(batch)
      /\ UNCHANGED <<stream, cursor, result>>
  BY DEF CreateJob, Activating, brokerVars
<1>2. Len(batch) > 0 /\ 1 \in 1..Len(batch) /\ batch[1] = h
  BY <1>1, LenProperties DEF TypeInv, TypeOK
<1>3. JobIds = 1..Len(jobs) /\ Len(jobs) \in Nat
  BY DEF JobsKept, JobIds
<1>4. PICK job : jobs' = Append(jobs, job) /\ job.hat = h /\ job.cause = cursor
  BY DEF CreateJob
<1>5. /\ JobIds' = 1..(Len(jobs) + 1)
      /\ \A j \in 1..Len(jobs) : jobs'[j] = jobs[j]
      /\ jobs'[Len(jobs) + 1] = job
  BY <1>4 DEF JobsKept, JobIds
<1>6. Starts' = Starts \cup {<<cursor, h>>}
  <2>1. JobIds' = JobIds \cup {Len(jobs) + 1}
    BY <1>3, <1>5
  <2> QED
    BY <1>3, <1>4, <1>5, <2>1 DEF Starts
<1>7. <<cursor, h>> \notin Starts
  BY <1>2, <1>3 DEF Starts, OnceInv
<1>8. cursor > 0 /\ h \in Interested(stream[cursor])
  BY <1>2 DEF PriorityInv
<1>9. \A g \in Hats : <<cursor, g>> \in Starts =>
        BestSpecificity(g, stream[cursor].topic) >= BestSpecificity(h, stream[cursor].topic)
  BY <1>2, <1>3 DEF Starts, PriorityInv, Score
<1>10. h \in DOMAIN MaxActivations => Loop!Cardinality(Loop!StartsOf(h)) < MaxActivations[h]
  BY <1>2, StartsWithinLimit, SameCardinality DEF CountInv
<1>11. result = "none"
  BY <1>1 DEF TypeInv, Control
<1>12. h \in Loop!Interested(stream[cursor])
  BY <1>8, SameRouting
<1>13. \A g \in Hats : <<cursor, g>> \in Starts =>
         Loop!BestSpecificity(g, stream[cursor].topic)
           >= Loop!BestSpecificity(h, stream[cursor].topic)
  BY <1>9, SameRouting
<1>14. Loop!StartHat(h)
  BY <1>1, <1>6, <1>7, <1>8, <1>10, <1>11, <1>12, <1>13 DEF Loop!StartHat
<1> QED
  BY <1>14 DEF Simulated, Loop!LoopNext

LEMMA NextSimulated ==
  TypeInv /\ CountInv /\ OnceInv /\ PriorityInv /\ [Next]_vars => Simulated
<1> SUFFICES ASSUME TypeInv, CountInv, OnceInv, PriorityInv, [Next]_vars PROVE Simulated
  OBVIOUS
<1>1. JobsKept
  BY JobsGrow
<1>2. CASE Len(jobs') = Len(jobs) /\ UNCHANGED <<stream, cursor, result>>
  BY <1>1, <1>2, IdleSimulated
<1>3. CASE Start
  <2>1. /\ Len(stream) = 0 /\ cursor' = Len(stream) /\ jobs' = jobs /\ result' = result
        /\ stream' = stream \/ stream' = Append(stream, FirstEvent)
    BY <1>3 DEF Start, Subscribed, TypeInv, Control
  <2>2. cursor' = cursor
    BY <2>1 DEF TypeInv, TypeOK
  <2> QED
    BY <1>1, <2>1, <2>2, IdleSimulated, PublishSimulated
<1>4. CASE StartFails
  <2>1. /\ pc # "stopped" /\ cursor' = cursor /\ jobs' = jobs /\ result' = "Error"
        /\ stream' = stream \/ stream' = Append(stream, FirstEvent)
    BY <1>4 DEF StartFails, Return, MaybePublished
  <2> QED
    BY <1>1, <2>1, GiveUpSimulated
<1>5. CASE StopAtMaxIterations \/ SubscriptionEnds \/ WaitFails
             \/ \E h \in Hats : CreateJobFails(h)
  <2>1. /\ pc # "stopped" /\ cursor' = cursor /\ jobs' = jobs /\ stream' = stream
        /\ result' \in {"MaxIterationsReached", "Failed", "Error"}
    BY <1>5 DEF StopAtMaxIterations, SubscriptionEnds, Listening, WaitFails,
                CreateJobFails, Activating, Return, brokerVars
  <2> QED
    BY <1>1, <2>1, GiveUpSimulated
<1>6. CASE TimeOut
  <2>1. /\ pc # "stopped" /\ cursor' = cursor /\ jobs' = jobs /\ stream' = stream
        /\ cursor = Len(stream) /\ result' = "TimedOut"
    BY <1>6 DEF TimeOut, Listening, NothingDelivered, Return, brokerVars
  <2> QED
    BY <1>1, <2>1, GiveUpSimulated
<1>7. CASE PublishFails
  <2>1. /\ pc # "stopped" /\ cursor' = cursor /\ jobs' = jobs /\ result' = "Error"
        /\ stream' = stream \/ \E e : stream' = Append(stream, e)
    BY <1>7 DEF PublishFails, Return, MaybePublished
  <2> QED
    BY <1>1, <2>1, GiveUpSimulated
<1>8. CASE \/ \E h \in Hats : GateFails(h)
           \/ \E j \in JobIds : JobFailed(j)
  <2>1. /\ pc # "stopped" /\ cursor' = cursor /\ jobs' = jobs /\ stream' = stream
        /\ result' = result \/ result' = "Failed"
    BY <1>8 DEF GateFails, Activating, JobFailed, Waiting, Return, brokerVars
  <2> QED
    BY <1>1, <2>1, IdleSimulated, GiveUpSimulated
<1>9. CASE Publish \/ OperatorEmits
  <2>1. /\ cursor' = cursor /\ jobs' = jobs /\ result' = result
        /\ \E e : stream' = Append(stream, e)
    BY <1>9 DEF Publish, OperatorEmits, controllerVars
  <2> QED
    BY <1>1, <2>1, PublishSimulated
<1>10. ASSUME NEW j \in JobIds, JobStep(j) PROVE Simulated
  <2>1. Len(jobs') = Len(jobs)
    BY <1>10, SetJobKeeps
  <2>2. /\ UNCHANGED <<cursor, result>>
        /\ stream' = stream \/ \E e : stream' = Append(stream, e)
    BY <1>10
       DEF JobStep, LocalJobSucceeds, CommandSucceeds, AgentPublishes, AgentExits,
           JobFails, controllerVars, brokerVars
  <2> QED
    BY <1>1, <2>1, <2>2, IdleSimulated, PublishSimulated
<1>11. CASE AwaitBatch \/ PersistNotes \/ EndIteration \/ UNCHANGED vars
             \/ \E j \in JobIds : JobSucceeded(j)
  BY <1>2, <1>11
     DEF AwaitBatch, PersistNotes, EndIteration, JobSucceeded, vars, controllerVars,
         brokerVars
<1>12. CASE Complete \/ Receive
  BY <1>1, <1>12, TakeSimulated
<1>13. ASSUME NEW h \in Hats, CreateJob(h) PROVE Simulated
  BY <1>1, <1>13, CreateSimulated
<1> QED
  BY <1>3, <1>4, <1>5, <1>6, <1>7, <1>8, <1>9, <1>10, <1>11, <1>12, <1>13
     DEF Next, Progress, Fault, AllDone

(***************************************************************************)
(* Whatever batches, gates, failures, agents and operators do, the run is  *)
(* one of EventLoop: events are taken one by one in order, only hats that  *)
(* asked for the event taken last are started, once each, the most         *)
(* specific first and within their limits, and the run ends for one of the *)
(* reasons it gives (reconciler.rs:83-379, event_router.rs:31-83).         *)
(***************************************************************************)
THEOREM ContractHolds == Spec => Contract
<1>1. Init => Loop!LoopInit
  <2> SUFFICES ASSUME Init PROVE Loop!LoopInit
    OBVIOUS
  <2>1. Starts = {}
    BY DEF Init, Starts, JobIds
  <2> QED
    BY <2>1 DEF Init, Loop!LoopInit
<1>2. TypeInv /\ CountInv /\ OnceInv /\ PriorityInv /\ [Next]_vars
        => [Loop!LoopNext]_Loop!loopVars
  BY NextSimulated DEF Simulated
<1> QED
  BY <1>1, <1>2, TypeInvariant, CountInvariant, OnceInvariant, PriorityInvariant, PTL
     DEF Spec, Contract, Loop!LoopSpec

-----------------------------------------------------------------------------
(* The jobs of a run are bounded.                                          *)

(***************************************************************************)
(* A job costs an iteration, and the iterations are bounded, so the jobs   *)
(* of a run are among 1..MaxJobs, of which FairSpec speaks.                *)
(***************************************************************************)
JobsPaid == Len(jobs) <= iterations

LEMMA NextJobsPaid == TypeInv /\ JobsPaid /\ [Next]_vars => JobsPaid'
<1> SUFFICES ASSUME TypeInv, JobsPaid, [Next]_vars PROVE JobsPaid'
  OBVIOUS
<1>1. jobs \in Seq(Jobs) /\ Len(jobs) \in Nat /\ iterations \in Nat
  BY LenProperties DEF TypeInv, TypeOK
<1>2. CASE Len(jobs') = Len(jobs) /\ iterations' = iterations
  BY <1>2 DEF JobsPaid
<1>3. ASSUME NEW h \in Hats, GateFails(h) \/ CreateJob(h) PROVE JobsPaid'
  <2>1. /\ iterations' = iterations + 1
        /\ jobs' = jobs \/ \E job : jobs' = Append(jobs, job)
    BY <1>3 DEF GateFails, CreateJob
  <2>2. Len(jobs') = Len(jobs) \/ Len(jobs') = Len(jobs) + 1
    BY <1>1, <2>1
  <2> QED
    BY <1>1, <2>1, <2>2 DEF JobsPaid
<1>4. ASSUME NEW j \in JobIds, JobStep(j) PROVE JobsPaid'
  <2>1. Len(jobs') = Len(jobs) /\ UNCHANGED controllerVars
    BY <1>1, <1>4, JobStepKeeps DEF TypeInv, TypeOK
  <2> QED
    BY <1>2, <2>1 DEF controllerVars
<1>5. CASE Progress
  <2>1. CASE \E j \in JobIds : JobSucceeded(j) \/ JobFailed(j)
    BY <1>2, <2>1 DEF JobSucceeded, JobFailed
  <2> QED
    BY <1>2, <1>3, <1>5, <2>1
       DEF Progress, Start, StopAtMaxIterations, TimeOut, Complete, Receive, Deliver,
           AwaitBatch, Publish, PersistNotes, EndIteration, counters
<1>6. CASE Fault
  BY <1>2, <1>6 DEF Fault, StartFails, SubscriptionEnds, CreateJobFails, WaitFails,
                    PublishFails, counters
<1> QED
  BY <1>2, <1>4, <1>5, <1>6
     DEF Next, OperatorEmits, AllDone, vars, controllerVars, counters

Bounded == JobIds \subseteq 1..MaxJobs

LEMMA BoundedIs == TypeInv /\ BudgetInv /\ JobsPaid => Bounded
<1> SUFFICES ASSUME TypeInv, BudgetInv, JobsPaid PROVE Bounded
  OBVIOUS
<1>1. /\ jobs \in Seq(Jobs) /\ Len(jobs) \in Nat /\ JobIds = 1..Len(jobs)
      /\ iterations \in Nat /\ Len(batch) \in Nat /\ MaxIterations \in Nat /\ cursor \in Nat
  BY ConfigAssumption, LenProperties DEF TypeInv, TypeOK, JobIds
<1>2. /\ Cardinality(Interested(stream[cursor])) \in Nat /\ Cardinality(Hats) \in Nat
      /\ Cardinality(Interested(stream[cursor])) <= Cardinality(Hats)
  <2>1. Interested(stream[cursor]) \subseteq Hats /\ IsFiniteSet(Hats)
    BY HatsAssumption DEF Interested
  <2> QED
    BY <2>1, FS_Subset, FS_CardinalityType
<1>3. iterations <= MaxIterations + Cardinality(Hats)
  BY <1>1, <1>2 DEF BudgetInv
<1>4. Len(jobs) <= MaxJobs /\ MaxJobs \in Nat
  BY <1>1, <1>2, <1>3 DEF JobsPaid, MaxJobs
<1> QED
  BY <1>1, <1>4 DEF Bounded

(***************************************************************************)
(* A run creates at most MaxJobs jobs, whatever its hats and events        *)
(* (reconciler.rs:136, 219-220).                                           *)
(***************************************************************************)
THEOREM JobsBounded == Spec => []Bounded
<1>1. Init => BudgetInv /\ JobsPaid
  BY DEF Init, BudgetInv, JobsPaid
<1> QED
  BY <1>1, BoundedIs, TypeInvariant, NextBudgetInv, NextJobsPaid, PTL DEF Spec

-----------------------------------------------------------------------------
(* Three strikes.                                                          *)

LEMMA NextEndsOnThree == TypeInv /\ EndsOnThree /\ [Next]_vars => EndsOnThree'
<1> SUFFICES ASSUME TypeInv, EndsOnThree, [Next]_vars PROVE EndsOnThree'
  OBVIOUS
<1>1. TypeInv'
  BY NextTypeInv
<1>2. consecutiveFailures \in 0..3 /\ consecutiveFailures' \in 0..3
  BY <1>1 DEF TypeInv, TypeOK
<1>3. pc # "stopped" => consecutiveFailures < 3 /\ result = "none"
  BY DEF TypeInv, Control
<1>4. pc' # "stopped" => consecutiveFailures' < 3 /\ result' = "none"
  BY <1>1 DEF TypeInv, Control
<1>5. CASE UNCHANGED <<consecutiveFailures, result>>
  BY <1>5 DEF EndsOnThree
<1>6. ASSUME consecutiveFailures' = consecutiveFailures, result' # "Failed",
             pc # "stopped"
      PROVE  EndsOnThree'
  BY <1>2, <1>3, <1>6 DEF EndsOnThree
<1>7. CASE StartFails \/ StopAtMaxIterations \/ TimeOut \/ Complete \/ WaitFails
             \/ PublishFails \/ \E h \in Hats : CreateJobFails(h)
  BY <1>6, <1>7
     DEF StartFails, StopAtMaxIterations, TimeOut, Complete, Deliver, Listening,
         WaitFails, PublishFails, CreateJobFails, Activating, Return, counters
<1>8. CASE SubscriptionEnds
  BY <1>2, <1>3, <1>8
     DEF SubscriptionEnds, Listening, Return, counters, EndsOnThree
<1>9. CASE Start \/ Receive \/ AwaitBatch \/ Publish \/ PersistNotes \/ EndIteration
  BY <1>5, <1>9 DEF Start, Receive, Deliver, AwaitBatch, Publish, PersistNotes,
                    EndIteration, counters
<1>10. CASE \E h \in Hats : CreateJob(h)
  BY <1>5, <1>10 DEF CreateJob
<1>11. ASSUME NEW h \in Hats, GateFails(h) PROVE EndsOnThree'
  BY <1>2, <1>3, <1>11
     DEF GateFails, Activating, TooManyFailures, Return, EndsOnThree
<1>12. ASSUME NEW j \in JobIds, JobFailed(j) PROVE EndsOnThree'
  BY <1>2, <1>3, <1>12
     DEF JobFailed, Waiting, TooManyFailures, Return, EndsOnThree
<1>13. ASSUME NEW j \in JobIds, JobSucceeded(j) PROVE EndsOnThree'
  BY <1>3, <1>13 DEF JobSucceeded, FailuresAfterSuccess, Waiting, EndsOnThree
<1>14. ASSUME NEW j \in JobIds, JobStep(j) PROVE EndsOnThree'
  BY <1>5, <1>14
     DEF JobStep, LocalJobSucceeds, CommandSucceeds, AgentPublishes, AgentExits,
         JobFails, controllerVars
<1> QED
  BY <1>5, <1>7, <1>8, <1>9, <1>10, <1>11, <1>12, <1>13, <1>14
     DEF Next, Progress, Fault, OperatorEmits, AllDone, vars, controllerVars

(***************************************************************************)
(* The jobs waited for so far are the first ones: the pending ones are     *)
(* those that follow, in order.  The first ones are over, so what they     *)
(* came to is settled, and the counter is made of the strikes among them.  *)
(***************************************************************************)
InLine ==
  /\ Len(pending) <= Len(jobs)
  /\ \A i \in 1..Len(pending) : pending[i] = Judged + i

StrikeInv ==
  /\ InLine
  /\ \A j \in 1..Judged : IsFinished(j)
  /\ pc = "publish" => consecutiveFailures = 0
  /\ consecutiveFailures <= Stopped + Cardinality(Strikes)

StrikeTypes ==
  /\ Len(jobs) \in Nat /\ Len(pending) \in Nat /\ Judged \in Int
  /\ iterations \in Nat /\ consecutiveFailures \in Nat
  /\ pending \in Seq(Nat \ {0}) /\ jobs \in Seq(Jobs)
  /\ JobIds = 1..Len(jobs)

LEMMA StrikesTyped == TypeInv => StrikeTypes
  BY LenProperties DEF TypeInv, TypeOK, StrikeTypes, Judged, JobIds

LEMMA StrikesFinite ==
  ASSUME StrikeTypes
  PROVE  IsFiniteSet(Strikes) /\ Cardinality(Strikes) \in Nat
<1>1. Strikes \subseteq 1..Judged
  BY DEF Strikes
<1>2. IsFiniteSet(1..Judged)
  BY FS_Interval DEF StrikeTypes
<1> QED
  BY <1>1, <1>2, FS_Subset, FS_CardinalityType

\* As long as the jobs waited for and the counts stay, so do the strikes.
LEMMA StrikeFrame ==
  ASSUME StrikeTypes, StrikeInv,
         Len(jobs') = Len(jobs),
         \A j \in 1..Judged : jobs'[j] = jobs[j],
         UNCHANGED <<pending, iterations, consecutiveFailures>>,
         pc' = "publish" => consecutiveFailures = 0
  PROVE  StrikeInv'
<1>1. Judged' = Judged /\ Stopped' = Stopped
  BY DEF Judged, Stopped
<1>2. Strikes' = Strikes
  BY <1>1 DEF Strikes, StrikeTypes
<1>3. InLine' /\ \A j \in 1..Judged' : IsFinished(j)'
  BY <1>1 DEF StrikeInv, InLine, IsFinished
<1> QED
  BY <1>1, <1>2, <1>3 DEF StrikeInv

\* One more job waited for.
LEMMA NextJudged ==
  ASSUME StrikeTypes, InLine, pending # <<>>, pending' = Tail(pending), jobs' = jobs
  PROVE  /\ Judged \in Nat /\ Judged' = Judged + 1 /\ Head(pending) = Judged + 1
         /\ InLine'
<1>1. /\ Len(pending) >= 1 /\ Len(pending') = Len(pending) - 1
      /\ \A i \in 1..Len(pending') : pending'[i] = pending[i + 1]
      /\ Head(pending) = pending[1]
  BY EmptySeq, HeadTailProperties DEF StrikeTypes
<1>2. Judged \in Nat /\ Judged' = Judged + 1
  BY <1>1 DEF StrikeTypes, InLine, Judged
<1>3. Head(pending) = Judged + 1
  BY <1>1 DEF InLine, StrikeTypes
<1>4. InLine'
  BY <1>1, <1>2 DEF InLine, StrikeTypes
<1> QED
  BY <1>2, <1>3, <1>4

LEMMA FailedStrike ==
  ASSUME TypeInv, StrikeInv, NEW j \in JobIds, JobFailed(j)
  PROVE  StrikeInv'
<1>1. StrikeTypes
  BY StrikesTyped
<1>2. /\ pending # <<>> /\ pending' = Tail(pending) /\ j = Head(pending) /\ jobs' = jobs
      /\ pc' # "publish" /\ iterations' = iterations
      /\ consecutiveFailures' = consecutiveFailures + 1
      /\ jobs[j].status = "failed"
  BY DEF JobFailed, Waiting, AfterFailure, HasFailed, Return
<1>3. Judged \in Nat /\ Judged' = Judged + 1 /\ j = Judged + 1 /\ InLine'
  BY <1>1, <1>2, NextJudged DEF StrikeInv
<1>4. \A k \in 1..Judged' : IsFinished(k)'
  BY <1>2, <1>3 DEF StrikeInv, IsFinished, Finished
<1>5. Strikes' = Strikes \cup {j} /\ j \notin Strikes
  BY <1>2, <1>3 DEF Strikes
<1>6. Cardinality(Strikes') = Cardinality(Strikes) + 1
  BY <1>1, <1>5, StrikesFinite, FS_AddElement
<1>7. Stopped' = Stopped /\ Stopped \in Int
  BY <1>1, <1>2 DEF Stopped, StrikeTypes
<1>8. consecutiveFailures' <= Stopped' + Cardinality(Strikes')
  BY <1>1, <1>2, <1>6, <1>7, StrikesFinite DEF StrikeInv, StrikeTypes
<1> QED
  BY <1>2, <1>3, <1>4, <1>8 DEF StrikeInv

LEMMA NotedStrike ==
  ASSUME TypeInv, TypeInv', AwaitInv, JobsPaid, StrikeInv, PersistNotes
  PROVE  StrikeInv'
<1>1. StrikeTypes /\ StrikeTypes'
  <2>1. (TypeInv => StrikeTypes)'
    BY StrikesTyped, PTL
  <2> QED
    BY <2>1, StrikesTyped
<1>2. /\ pending # <<>> /\ pending' = Tail(pending) /\ jobs' = jobs
      /\ pc' # "publish" /\ iterations' = iterations
      /\ consecutiveFailures' = 0 /\ IsFinished(Head(pending))
  BY DEF PersistNotes, TypeInv, Control, StrikeInv, AwaitInv, counters
<1>3. Judged \in Nat /\ Judged' = Judged + 1 /\ Head(pending) = Judged + 1 /\ InLine'
  BY <1>1, <1>2, NextJudged DEF StrikeInv
<1>4. \A k \in 1..Judged' : IsFinished(k)'
  BY <1>2, <1>3 DEF StrikeInv, IsFinished
<1>5. Stopped' \in Nat
  BY <1>1, <1>2 DEF Stopped, StrikeTypes, JobsPaid
<1>6. Cardinality(Strikes') \in Nat
  <2>1. (StrikeTypes => Cardinality(Strikes) \in Nat)'
    BY StrikesFinite, PTL
  <2> QED
    BY <1>1, <2>1
<1> QED
  BY <1>2, <1>3, <1>4, <1>5, <1>6 DEF StrikeInv

LEMMA CreateStrike ==
  ASSUME TypeInv, StrikeInv, NEW h \in Hats, CreateJob(h)
  PROVE  StrikeInv'
<1>1. StrikeTypes
  BY StrikesTyped
<1>2. /\ pc' # "publish" /\ iterations' = iterations + 1
      /\ UNCHANGED consecutiveFailures
      /\ pending' = Append(pending, Len(jobs'))
      /\ \E job : jobs' = Append(jobs, job)
  BY DEF CreateJob, Activating
<1>3. /\ Len(jobs') = Len(jobs) + 1 /\ \A j \in 1..Len(jobs) : jobs'[j] = jobs[j]
      /\ Len(pending') = Len(pending) + 1
      /\ \A i \in 1..Len(pending) : pending'[i] = pending[i]
      /\ pending'[Len(pending) + 1] = Len(jobs) + 1
  BY <1>1, <1>2 DEF StrikeTypes
<1>4. Judged' = Judged /\ Judged \in Int /\ Judged <= Len(jobs)
  BY <1>1, <1>3 DEF Judged, StrikeTypes
<1>5. Stopped' = Stopped
  BY <1>1, <1>2, <1>3 DEF Stopped, StrikeTypes
<1>6. Strikes' = Strikes
  <2>1. \A k \in 1..Judged : jobs'[k] = jobs[k]
    BY <1>1, <1>3, <1>4 DEF StrikeTypes
  <2> QED
    BY <1>4, <2>1 DEF Strikes
<1>7. InLine'
  <2>1. Len(pending') <= Len(jobs')
    BY <1>1, <1>3 DEF StrikeInv, InLine, StrikeTypes
  <2>2. ASSUME NEW i \in 1..Len(pending') PROVE pending'[i] = Judged' + i
    <3>1. CASE i \in 1..Len(pending)
      BY <1>3, <1>4, <3>1 DEF StrikeInv, InLine
    <3>2. CASE i = Len(pending) + 1
      BY <1>1, <1>3, <1>4, <3>2 DEF Judged, StrikeTypes
    <3> QED
      BY <1>1, <1>3, <3>1, <3>2 DEF StrikeTypes
  <2> QED
    BY <2>1, <2>2 DEF InLine
<1>8. \A j \in 1..Judged' : IsFinished(j)'
  BY <1>1, <1>3, <1>4 DEF StrikeInv, IsFinished, StrikeTypes
<1> QED
  BY <1>2, <1>4, <1>5, <1>6, <1>7, <1>8 DEF StrikeInv

LEMMA NextStrikeInv ==
  TypeInv /\ AwaitInv /\ JobsPaid /\ StrikeInv /\ [Next]_vars => StrikeInv'
<1> SUFFICES ASSUME TypeInv, AwaitInv, JobsPaid, StrikeInv, [Next]_vars
             PROVE  StrikeInv'
  OBVIOUS
<1>1. TypeInv' /\ StrikeTypes /\ JobsKept
  BY NextTypeInv, StrikesTyped, JobsGrow
<1>2. /\ \A j \in 1..Judged : j \in 1..Len(jobs)
      /\ \A j \in 1..Judged : jobs'[j] = jobs[j]
  BY <1>1 DEF StrikeTypes, StrikeInv, Judged, JobsKept, JobKept
<1>3. CASE /\ Len(jobs') = Len(jobs)
           /\ UNCHANGED <<pending, iterations, consecutiveFailures>>
           /\ pc' = "publish" => pc = "publish"
  BY <1>1, <1>2, <1>3, StrikeFrame DEF StrikeInv
<1>4. ASSUME NEW h \in Hats, GateFails(h) PROVE StrikeInv'
  <2>1. /\ consecutiveFailures' = consecutiveFailures + 1 /\ iterations' = iterations + 1
        /\ UNCHANGED <<pending, jobs>> /\ pc' # "publish"
    BY <1>4 DEF GateFails, Activating, Return
  <2>2. Judged' = Judged /\ Stopped' = Stopped + 1 /\ Stopped \in Int
    BY <1>1, <2>1 DEF Judged, Stopped, StrikeTypes
  <2>3. Strikes' = Strikes /\ Cardinality(Strikes) \in Nat
    BY <1>1, <2>1, <2>2, StrikesFinite DEF Strikes
  <2>4. InLine' /\ \A j \in 1..Judged' : IsFinished(j)'
    BY <2>1, <2>2 DEF StrikeInv, InLine, IsFinished
  <2>5. consecutiveFailures' <= Stopped' + Cardinality(Strikes')
    BY <1>1, <2>1, <2>2, <2>3 DEF StrikeInv, StrikeTypes
  <2> QED
    BY <2>1, <2>4, <2>5 DEF StrikeInv
<1>5. ASSUME NEW j \in JobIds, JobSucceeded(j) PROVE StrikeInv'
  <2>1. UNCHANGED <<pending, iterations, jobs>> /\ consecutiveFailures' = 0
    BY <1>5 DEF JobSucceeded, FailuresAfterSuccess
  <2>2. Judged' = Judged /\ Stopped' = Stopped /\ Stopped \in Nat
    BY <1>1, <2>1 DEF Judged, Stopped, StrikeTypes, JobsPaid
  <2>3. Strikes' = Strikes /\ Cardinality(Strikes) \in Nat
    BY <1>1, <2>1, <2>2, StrikesFinite DEF Strikes
  <2> QED
    BY <2>1, <2>2, <2>3 DEF StrikeInv, InLine, IsFinished
<1>6. ASSUME NEW j \in JobIds, JobStep(j) PROVE StrikeInv'
  <2>1. Len(jobs') = Len(jobs) /\ UNCHANGED controllerVars
    BY <1>6, JobStepKeeps DEF TypeInv, TypeOK
  <2> QED
    BY <1>3, <2>1 DEF controllerVars, counters
<1>7. CASE Progress
  BY <1>3, <1>4, <1>5, <1>7, FailedStrike, NotedStrike, CreateStrike, <1>1
     DEF Progress, Start, StopAtMaxIterations, TimeOut, Complete, Receive, Deliver,
         AwaitBatch, Publish, EndIteration, Return, counters
<1>8. CASE Fault
  BY <1>3, <1>8 DEF Fault, StartFails, SubscriptionEnds, CreateJobFails, WaitFails,
                    PublishFails, Return, counters
<1>9. CASE OperatorEmits \/ AllDone \/ UNCHANGED vars
  BY <1>3, <1>9 DEF OperatorEmits, AllDone, vars, controllerVars, counters
<1> QED
  BY <1>6, <1>7, <1>8, <1>9 DEF Next

(***************************************************************************)
(* Failures of gates and of jobs count together; the third in a row ends   *)
(* the run, and unless the subscription is lost nothing else ends it as    *)
(* failed (reconciler.rs:193-200, 355-360).  A success starts the count of *)
(* failed jobs again (233): it is never more than the jobs that failed     *)
(* since, with the hats gates have stopped.                                *)
(***************************************************************************)
THEOREM ThreeStrikesHold == Spec => []ThreeStrikes
<1>1. Init => EndsOnThree /\ StrikeInv /\ JobsPaid
  <2> SUFFICES ASSUME Init PROVE EndsOnThree /\ StrikeInv /\ JobsPaid
    OBVIOUS
  <2>1. Len(jobs) = 0 /\ Len(pending) = 0 /\ iterations = 0 /\ consecutiveFailures = 0
        /\ pc = "start" /\ result = "none"
    BY DEF Init
  <2>2. Judged = 0 /\ Stopped = 0
    BY <2>1 DEF Judged, Stopped
  <2>3. Strikes = {}
    BY <2>2 DEF Strikes
  <2>4. Cardinality(Strikes) = 0
    BY <2>3, FS_EmptySet
  <2> QED
    BY <2>1, <2>2, <2>4 DEF EndsOnThree, StrikeInv, InLine, JobsPaid
<1>2. EndsOnThree /\ StrikeInv => ThreeStrikes
  BY DEF StrikeInv, ThreeStrikes
<1> QED
  BY <1>1, <1>2, NextEndsOnThree, NextStrikeInv, NextJobsPaid, TypeInvariant,
     AwaitInvariant, PTL DEF Spec

-----------------------------------------------------------------------------
(* Runs are finite.                                                        *)

LEMMA LowerAt ==
  ASSUME NEW u, NEW v, NEW i \in DOMAIN u, v[i] < u[i], \A k \in 1..(i - 1) : v[k] = u[k]
  PROVE  Lower(v, u)
BY DEF Lower

LEMMA MeansAre == TypeInv /\ BudgetInv => Means \in Seq(Nat) /\ Chores \in Seq(Nat)
<1> SUFFICES ASSUME TypeInv, BudgetInv PROVE Means \in Seq(Nat) /\ Chores \in Seq(Nat)
  OBVIOUS
<1>1. /\ iterations \in Nat /\ Len(batch) \in Nat /\ MaxIterations \in Nat
      /\ MaxInjections - injections \in Nat /\ Len(stream) - cursor \in Nat
      /\ Len(pending) \in Nat /\ Len(outbox) \in Nat /\ cursor \in Nat
  BY ConfigAssumption, EnvironmentAssumption, LenProperties DEF TypeInv, TypeOK
<1>2. /\ Cardinality(Interested(stream[cursor])) \in Nat /\ Cardinality(Hats) \in Nat
      /\ Cardinality(Interested(stream[cursor])) <= Cardinality(Hats)
  <2>1. Interested(stream[cursor]) \subseteq Hats /\ IsFiniteSet(Hats)
    BY HatsAssumption DEF Interested
  <2> QED
    BY <2>1, FS_Subset, FS_CardinalityType
<1>3. MaxJobs - iterations \in Nat
  <2>1. CASE cursor = 0
    <3>1. iterations = 0
      BY <2>1 DEF BudgetInv
    <3> QED
      BY <1>1, <1>2, <3>1 DEF MaxJobs
  <2>2. CASE cursor > 0
    <3>1. iterations + Len(batch) < MaxIterations + Cardinality(Interested(stream[cursor]))
      BY <2>2 DEF BudgetInv
    <3>2. iterations <= MaxIterations + Cardinality(Hats)
      BY <1>1, <1>2, <3>1
    <3> QED
      BY <1>1, <1>2, <3>2 DEF MaxJobs
  <2> QED
    BY <1>1, <2>1, <2>2
<1>4. Means \in Seq(Nat)
  <2>1. (CASE pc = "start" -> 2 [] pc = "stopped" -> 0 [] OTHER -> 1) \in Nat
    OBVIOUS
  <2> QED
    BY <1>1, <1>3, <2>1 DEF Means
<1>5. Chores \in Seq(Nat)
  <2>1. (IF pc = "publish" THEN 0 ELSE 1) \in Nat
    OBVIOUS
  <2>2. (CASE pc = "activate" -> 2 [] pc = "wait" -> 1 [] OTHER -> 0) \in Nat
    OBVIOUS
  <2> QED
    BY <1>1, <2>1, <2>2 DEF Chores
<1> QED
  BY <1>4, <1>5

\* Returning, an operator's event and an iteration each use up some of the means.
LEMMA MeansUsed ==
  ASSUME TypeInv, TypeInv'
  PROVE  /\ pc # "stopped" /\ pc' = "stopped" => Lower(Means', Means)
         /\ pc = "start" /\ pc' # "start" => Lower(Means', Means)
         /\ pc' = pc /\ injections' = injections + 1 => Lower(Means', Means)
         /\ pc' = pc /\ injections' = injections /\ iterations' = iterations + 1
              => Lower(Means', Means)
<1>1. injections \in Nat /\ iterations \in Nat /\ MaxInjections \in Nat /\ MaxJobs \in Int
  <2>1. Cardinality(Hats) \in Nat
    BY HatsAssumption, FS_CardinalityType
  <2>2. MaxIterations \in Nat /\ MaxInjections \in Nat
    BY ConfigAssumption, EnvironmentAssumption
  <2>3. iterations \in Nat /\ injections \in 0..MaxInjections
    BY DEF TypeInv, TypeOK
  <2> QED
    BY <2>1, <2>2, <2>3 DEF MaxJobs
<1>2. DOMAIN Means = 1..3
  BY DEF Means
<1>3. ASSUME \/ pc # "stopped" /\ pc' = "stopped"
             \/ pc = "start" /\ pc' # "start"
      PROVE  Lower(Means', Means)
  <2>1. Means'[1] < Means[1]
    BY <1>3 DEF Means
  <2> QED
    BY <1>2, <2>1, LowerAt
<1>4. ASSUME pc' = pc, injections' = injections + 1 PROVE Lower(Means', Means)
  <2>1. Means'[1] = Means[1] /\ Means'[2] < Means[2]
    BY <1>1, <1>4 DEF Means
  <2> QED
    BY <1>2, <2>1, LowerAt
<1>5. ASSUME pc' = pc, injections' = injections, iterations' = iterations + 1
      PROVE  Lower(Means', Means)
  <2>1. Means'[1] = Means[1] /\ Means'[2] = Means[2] /\ Means'[3] < Means[3]
    BY <1>1, <1>5 DEF Means
  <2>2. 3 \in DOMAIN Means /\ 1..(3 - 1) = {1, 2}
    BY <1>2
  <2> QED
    BY <2>1, <2>2, LowerAt
<1> QED
  BY <1>3, <1>4, <1>5

SpendsMeans == Lower(Means', Means)
DoesChore == UNCHANGED <<Means, jobs>> /\ Lower(Chores', Chores)
WorksOn(j) ==
  /\ UNCHANGED Means
  /\ Lower(WorkOf(jobs'[j]), WorkOf(jobs[j])) /\ jobs' = [jobs EXCEPT ![j] = jobs'[j]]

LEMMA ChoresDone ==
  ASSUME TypeInv, TypeInv', pc \notin {"start", "stopped"}, pc' \notin {"start", "stopped"},
         UNCHANGED <<jobs, injections, iterations>>,
         \/ Len(pending') < Len(pending)
         \/ /\ pending' = pending
            /\ \/ pc # "publish" /\ pc' = "publish"
               \/ /\ pc = "publish" <=> pc' = "publish"
                  /\ \/ Len(outbox') < Len(outbox)
                     \/ /\ outbox' = outbox
                        /\ \/ cursor' = cursor + 1 /\ stream' = stream
                           \/ /\ UNCHANGED <<cursor, stream>>
                              /\ \/ pc = "activate" /\ pc' = "wait"
                                 \/ pc = "wait" /\ pc' = "receive"
  PROVE  DoesChore
<1>1. /\ Len(pending) \in Nat /\ Len(outbox) \in Nat /\ Len(stream) \in Nat /\ cursor \in Nat
  BY LenProperties DEF TypeInv, TypeOK
<1>2. DOMAIN Chores = 1..5
  BY DEF Chores
<1>3. UNCHANGED Means
  BY DEF Means
<1>4. CASE Len(pending') < Len(pending)
  <2>1. Chores'[1] < Chores[1]
    BY <1>4 DEF Chores
  <2>2. Lower(Chores', Chores)
    BY <1>2, <2>1, LowerAt
  <2> QED
    BY <1>3, <2>2 DEF DoesChore
<1>5. CASE pending' = pending /\ pc # "publish" /\ pc' = "publish"
  <2>1. Chores'[1] = Chores[1] /\ Chores'[2] < Chores[2]
    BY <1>5 DEF Chores
  <2>2. Lower(Chores', Chores)
    BY <1>2, <2>1, LowerAt
  <2> QED
    BY <1>3, <2>2 DEF DoesChore
<1>6. CASE pending' = pending /\ (pc = "publish" <=> pc' = "publish") /\ Len(outbox') < Len(outbox)
  <2>1. Chores'[1] = Chores[1] /\ Chores'[2] = Chores[2] /\ Chores'[3] < Chores[3]
    BY <1>6 DEF Chores
  <2>2. 3 \in DOMAIN Chores /\ 1..(3 - 1) = {1, 2}
    BY <1>2
  <2>3. Lower(Chores', Chores)
    BY <2>1, <2>2, LowerAt
  <2> QED
    BY <1>3, <2>3 DEF DoesChore
<1>7. CASE /\ pending' = pending /\ (pc = "publish" <=> pc' = "publish") /\ outbox' = outbox
           /\ cursor' = cursor + 1 /\ stream' = stream
  <2>1. /\ Chores'[1] = Chores[1] /\ Chores'[2] = Chores[2] /\ Chores'[3] = Chores[3]
        /\ Chores'[4] < Chores[4]
    BY <1>1, <1>7 DEF Chores
  <2>2. 4 \in DOMAIN Chores /\ 1..(4 - 1) = {1, 2, 3}
    BY <1>2
  <2>3. Lower(Chores', Chores)
    BY <2>1, <2>2, LowerAt
  <2> QED
    BY <1>3, <2>3 DEF DoesChore
<1>8. CASE /\ pending' = pending /\ (pc = "publish" <=> pc' = "publish") /\ outbox' = outbox
           /\ UNCHANGED <<cursor, stream>>
           /\ \/ pc = "activate" /\ pc' = "wait"
              \/ pc = "wait" /\ pc' = "receive"
  <2>1. /\ Chores'[1] = Chores[1] /\ Chores'[2] = Chores[2] /\ Chores'[3] = Chores[3]
        /\ Chores'[4] = Chores[4] /\ Chores'[5] < Chores[5]
    BY <1>1, <1>8 DEF Chores
  <2>2. 5 \in DOMAIN Chores /\ 1..(5 - 1) = {1, 2, 3, 4}
    BY <1>2
  <2>3. Lower(Chores', Chores)
    BY <2>1, <2>2, LowerAt
  <2> QED
    BY <1>3, <2>3 DEF DoesChore
<1> QED
  BY <1>4, <1>5, <1>6, <1>7, <1>8, Zenon

LEMMA JobWorks ==
  ASSUME TypeInv, NEW j \in JobIds, JobStep(j)
  PROVE  WorksOn(j)
<1>1. jobs \in Seq(Jobs) /\ jobs[j] \in Jobs
  BY LenProperties, ElementOfSeq DEF TypeInv, TypeOK, JobIds
<1>2. UNCHANGED Means
  BY DEF JobStep, LocalJobSucceeds, CommandSucceeds, AgentPublishes, AgentExits, JobFails,
         Means, controllerVars
<1>3. ASSUME NEW job \in Jobs, SetJob(j, job),
             \/ jobs[j].status = "running" /\ job.status # "running"
             \/ jobs[j].status = "publishing" /\ job.status \in Finished
             \/ job.status = jobs[j].status /\ Len(job.emits) < Len(jobs[j].emits)
      PROVE  WorksOn(j)
  <2>1. jobs'[j] = job /\ jobs' = [jobs EXCEPT ![j] = jobs'[j]]
    BY <1>1, <1>3 DEF SetJob, JobIds
  <2>2. DOMAIN WorkOf(jobs[j]) = 1..2
    BY DEF WorkOf
  <2>3. \/ WorkOf(job)[1] < WorkOf(jobs[j])[1]
        \/ WorkOf(job)[1] = WorkOf(jobs[j])[1] /\ WorkOf(job)[2] < WorkOf(jobs[j])[2]
    BY <1>3, <1>1 DEF WorkOf, Finished
  <2>4. Lower(WorkOf(job), WorkOf(jobs[j]))
    BY <2>2, <2>3, LowerAt
  <2> QED
    BY <1>2, <2>1, <2>4 DEF WorksOn
<1>4. CASE LocalJobSucceeds(j)
  <2>1. PICK out \in Outputs : SetJob(j, [jobs[j] EXCEPT !.status = "succeeded", !.out = out])
    BY <1>4 DEF LocalJobSucceeds
  <2> DEFINE job == [jobs[j] EXCEPT !.status = "succeeded", !.out = out]
  <2>2. job \in Jobs
    BY <1>1, JobUpdates, EnvironmentAssumption
  <2>3. jobs[j].status = "running" /\ job.status = "succeeded"
    BY <1>1, <1>4 DEF LocalJobSucceeds, Jobs
  <2> QED
    BY <1>3, <2>1, <2>2, <2>3
<1>5. CASE CommandSucceeds(j)
  <2>1. PICK out \in Outputs : SetJob(j, [jobs[j] EXCEPT !.status = "publishing", !.emits = out.events])
    BY <1>5 DEF CommandSucceeds
  <2> DEFINE job == [jobs[j] EXCEPT !.status = "publishing", !.emits = out.events]
  <2>2. job \in Jobs
    BY <1>1, JobUpdates, EnvironmentAssumption
  <2>3. jobs[j].status = "running" /\ job.status = "publishing"
    BY <1>1, <1>5 DEF CommandSucceeds, Jobs
  <2> QED
    BY <1>3, <2>1, <2>2, <2>3
<1>6. CASE AgentPublishes(j)
  <2> DEFINE job == [jobs[j] EXCEPT !.emits = Tail(@), !.sent = @ + 1]
  <2>1. jobs[j].emits # <<>> /\ jobs[j].emits \in Seq(Emissions) /\ SetJob(j, job)
    BY <1>1, <1>6 DEF AgentPublishes, Jobs
  <2>2. job \in Jobs
    BY <1>1, <2>1, JobUpdates
  <2>3. job.status = jobs[j].status /\ job.emits = Tail(jobs[j].emits)
    BY <1>1 DEF Jobs
  <2>4. Len(job.emits) < Len(jobs[j].emits)
    BY <2>1, <2>3, HeadTailProperties, LenProperties
  <2> QED
    BY <1>3, <2>1, <2>2, <2>3, <2>4
<1>7. CASE AgentExits(j)
  <2>1. PICK log \in Logs : SetJob(j, [jobs[j] EXCEPT !.status = "succeeded", !.out = log])
    BY <1>7 DEF AgentExits
  <2> DEFINE job == [jobs[j] EXCEPT !.status = "succeeded", !.out = log]
  <2>2. job \in Jobs
    BY <1>1, JobUpdates, EnvironmentAssumption
  <2>3. jobs[j].status = "publishing" /\ job.status \in Finished
    BY <1>1, <1>7 DEF AgentExits, Jobs, Finished
  <2> QED
    BY <1>3, <2>1, <2>2, <2>3
<1>8. CASE JobFails(j)
  <2> DEFINE job == [jobs[j] EXCEPT !.status = "failed"]
  <2>1. job \in Jobs /\ job.status = "failed"
    BY <1>1, JobUpdates DEF Jobs, Finished
  <2>2. jobs[j].status \in {"running", "publishing"} /\ SetJob(j, job)
    BY <1>8 DEF JobFails, Unfinished
  <2> QED
    BY <1>3, <2>1, <2>2 DEF Finished
<1> QED
  BY <1>4, <1>5, <1>6, <1>7, <1>8 DEF JobStep

LEMMA StepWindsDown ==
  ASSUME TypeInv, TypeInv', Next, ~UNCHANGED vars
  PROVE  SpendsMeans \/ DoesChore \/ \E j \in JobIds : WorksOn(j)
<1>1. CASE pc # "stopped" /\ pc' = "stopped"
  BY <1>1, MeansUsed DEF SpendsMeans
<1>2. CASE Start
  BY <1>2, MeansUsed DEF Start, SpendsMeans
<1>3. CASE Receive
  <2>1. /\ pc = "receive" /\ pc' = "activate" /\ cursor' = cursor + 1
        /\ UNCHANGED <<jobs, injections, iterations, pending, outbox, stream>>
    BY <1>3 DEF Receive, Deliver, Listening
  <2> QED
    BY <2>1, ChoresDone
<1>4. ASSUME NEW h \in Hats, GateFails(h) \/ CreateJob(h) PROVE SpendsMeans
  <2>1. /\ pc # "stopped" /\ pc' \in {pc, "stopped"}
        /\ injections' = injections /\ iterations' = iterations + 1
    BY <1>4 DEF GateFails, CreateJob, Activating, Return
  <2> QED
    BY <2>1, MeansUsed DEF SpendsMeans
<1>5. CASE AwaitBatch \/ EndIteration
  BY <1>5, ChoresDone DEF AwaitBatch, EndIteration, counters, brokerVars
<1>6. ASSUME NEW j \in JobIds, JobSucceeded(j) PROVE DoesChore
  BY <1>6, ChoresDone DEF JobSucceeded, Waiting
<1>7. ASSUME NEW j \in JobIds, JobFailed(j), pc' # "stopped" PROVE DoesChore
  <2>1. pending \in Seq(Nat \ {0}) /\ pending # <<>>
    BY <1>7 DEF JobFailed, Waiting, TypeInv, TypeOK
  <2>2. Len(pending') < Len(pending)
    BY <1>7, <2>1, HeadTailProperties, LenProperties DEF JobFailed, AfterFailure
  <2>3. pc = "wait" /\ pc' = "wait" /\ UNCHANGED <<jobs, injections, iterations>>
    BY <1>7 DEF JobFailed, Waiting, Return
  <2> QED
    BY <2>2, <2>3, ChoresDone
<1>8. CASE Publish
  <2>1. outbox \in Seq(Events) /\ outbox # <<>>
    BY <1>8 DEF Publish, TypeInv, TypeOK
  <2>2. Len(outbox') < Len(outbox)
    BY <1>8, <2>1, HeadTailProperties, LenProperties DEF Publish
  <2>3. /\ pc = "publish" /\ pc' = "publish"
        /\ UNCHANGED <<jobs, injections, iterations, pending>>
    BY <1>8 DEF Publish, counters
  <2> QED
    BY <2>2, <2>3, ChoresDone
<1>9. CASE PersistNotes
  <2>1. pending \in Seq(Nat \ {0}) /\ pending # <<>>
    BY <1>9 DEF PersistNotes, TypeInv, TypeOK, Control
  <2>2. Len(pending') < Len(pending)
    BY <1>9, <2>1, HeadTailProperties, LenProperties DEF PersistNotes
  <2>3. pc = "publish" /\ pc' = "wait" /\ UNCHANGED <<jobs, injections, iterations>>
    BY <1>9 DEF PersistNotes, counters
  <2> QED
    BY <2>2, <2>3, ChoresDone
<1>10. CASE StopAtMaxIterations \/ TimeOut \/ Complete
  BY <1>1, <1>10 DEF StopAtMaxIterations, TimeOut, Complete, Deliver, Listening, Return
<1>11. CASE Fault
  BY <1>1, <1>11 DEF Fault, StartFails, SubscriptionEnds, Listening, CreateJobFails, Activating,
                     WaitFails, PublishFails, Return
<1>12. CASE OperatorEmits
  <2>1. pc' = pc /\ injections' = injections + 1
    BY <1>12 DEF OperatorEmits, controllerVars
  <2> QED
    BY <2>1, MeansUsed DEF SpendsMeans
<1>13. CASE \E j \in JobIds : JobStep(j)
  BY <1>13, JobWorks
<1>14. CASE \E j \in JobIds : JobFailed(j)
  <2>1. pc = "wait"
    BY <1>14 DEF JobFailed, Waiting
  <2> QED
    BY <1>1, <1>7, <1>14, <2>1
<1>15. CASE Progress
  BY <1>2, <1>3, <1>4, <1>5, <1>6, <1>8, <1>9, <1>10, <1>14, <1>15 DEF Progress
<1> QED
  BY <1>11, <1>12, <1>13, <1>15 DEF Next, AllDone

(***************************************************************************)
(* Every step of a run, of its jobs and of the operator uses up something  *)
(* that is bounded below and never comes back, so no behaviour goes on     *)
(* forever, whatever the hats, the events, the outputs and the failures    *)
(* (reconciler.rs:135-377).  What fairness adds, and TLC checks, is that   *)
(* the last step leaves the run stopped.                                   *)
(***************************************************************************)
THEOREM RunWindsDownHolds == Spec => RunWindsDown
<1>1. ASSUME TypeInv, TypeInv', BudgetInv', [Next]_vars
      PROVE  [/\ Means' \in Seq(Nat) /\ Chores' \in Seq(Nat)
              /\ \/ Lower(Means', Means)
                 \/ /\ UNCHANGED Means
                    /\ \E j \in JobIds : /\ Lower(WorkOf(jobs'[j]), WorkOf(jobs[j]))
                                         /\ jobs' = [jobs EXCEPT ![j] = jobs'[j]]
                 \/ UNCHANGED <<Means, jobs>> /\ Lower(Chores', Chores)]_vars
  <2> SUFFICES ASSUME Next, ~UNCHANGED vars
               PROVE  /\ Means' \in Seq(Nat) /\ Chores' \in Seq(Nat)
                      /\ SpendsMeans \/ DoesChore \/ \E j \in JobIds : WorksOn(j)
    BY <1>1 DEF SpendsMeans, DoesChore, WorksOn
  <2>1. Means' \in Seq(Nat) /\ Chores' \in Seq(Nat)
    <3>1. (Means \in Seq(Nat) /\ Chores \in Seq(Nat))'
      BY <1>1, MeansAre, PTL
    <3> QED
      BY <3>1
  <2> QED
    BY <1>1, <2>1, StepWindsDown
<1>2. Init => BudgetInv
  BY DEF Init, BudgetInv
<1> QED
  BY <1>1, <1>2, TypeInvariant, NextBudgetInv, PTL DEF Spec, RunWindsDown

-----------------------------------------------------------------------------
(***************************************************************************)
(* Continued runs.  What is proved above of one run rests on invariants a  *)
(* restart breaks: the counters go back to the checkpoint's, and jobs      *)
(* outlive the controller that waited for them.                            *)
(***************************************************************************)
(***************************************************************************)
(* The types that survive a restart.                                       *)
(***************************************************************************)
LastingTypes ==
  /\ stream \in Seq(Events)
  /\ outbox \in Seq(Events)
  /\ cursor \in 0..Len(stream)
  /\ jobs \in Seq(Jobs)
  /\ batch \in Seq(Hats)
  /\ iterations \in Nat
  /\ globalSequence \in Nat
  /\ seen \in Seq(Topics)
  /\ pc = "activate" => cursor > 0

(***************************************************************************)
(* The controller is never behind its checkpoint.                          *)
(***************************************************************************)
AheadOfCheckpoint ==
  checkpoint # NoCheckpoint =>
    /\ checkpoint.iterations \in Nat /\ checkpoint.iterations <= iterations
    /\ checkpoint.globalSequence \in Nat /\ checkpoint.globalSequence <= globalSequence
    /\ checkpoint.seen \in Seq(Topics) /\ Len(checkpoint.seen) <= Len(seen)

(***************************************************************************)
(* Jobs belong to events that were taken, and the hats still to be started *)
(* for the event taken last have no job of it: not even from before the    *)
(* crash, since a new subscription begins at the end of the stream.        *)
(***************************************************************************)
NeverAgain ==
  /\ \A j \in 1..Len(jobs) : jobs[j].cause \in Nat /\ jobs[j].cause <= cursor
  /\ \A j \in 1..Len(jobs), i \in 1..Len(batch) :
       jobs[j].cause = cursor => jobs[j].hat # batch[i]
  /\ \A i, k \in 1..Len(batch) : batch[i] = batch[k] => i = k
  /\ pc = "start" => batch = <<>>
  /\ OncePerEventInOrder

LastingInv == LastingTypes /\ AheadOfCheckpoint /\ NeverAgain

LEMMA InitLastingInv == ResumeInit => LastingInv
<1> SUFFICES ASSUME ResumeInit PROVE LastingInv
  OBVIOUS
<1>1. LastingTypes
  BY DEF ResumeInit, Init, LastingTypes
<1>2. AheadOfCheckpoint
  BY DEF ResumeInit, Init, AheadOfCheckpoint
<1>3. NeverAgain
  BY DEF ResumeInit, Init, NeverAgain, OncePerEventInOrder, JobIds
<1> QED
  BY <1>1, <1>2, <1>3 DEF LastingInv

-----------------------------------------------------------------------------
(* The steps of a run.                                                     *)

\* The lengths and domains the steps below refer to.
LEMMA Lengths ==
  ASSUME LastingTypes
  PROVE  /\ Len(stream) \in Nat /\ Len(jobs) \in Nat /\ Len(batch) \in Nat
         /\ Len(seen) \in Nat /\ cursor \in Nat /\ JobIds = 1..Len(jobs)
         /\ \A j \in 1..Len(jobs) : jobs[j] \in Jobs /\ jobs[j].cause \in Nat
<1>1. \A j \in 1..Len(jobs) : jobs[j] \in Jobs
  BY ElementOfSeq DEF LastingTypes
<1>2. \A job \in Jobs : job.cause \in Nat
  BY DEF Jobs
<1>3. /\ Len(stream) \in Nat /\ Len(jobs) \in Nat /\ Len(batch) \in Nat
      /\ Len(seen) \in Nat
  BY LenProperties DEF LastingTypes
<1>4. cursor \in Nat /\ JobIds = 1..Len(jobs)
  BY <1>3 DEF LastingTypes, JobIds
<1> QED
  BY <1>1, <1>2, <1>3, <1>4

(***************************************************************************)
(* Steps that create no job, take no event and leave the counters alone.   *)
(***************************************************************************)
LEMMA QuietStep ==
  ASSUME LastingInv,
         stream' \in Seq(Events), Len(stream') >= Len(stream),
         outbox' \in Seq(Events), cursor' = cursor,
         jobs' \in Seq(Jobs), Len(jobs') = Len(jobs),
         \A k \in JobIds : SameOrigin(jobs'[k], jobs[k]),
         UNCHANGED <<batch, iterations, globalSequence, seen, checkpoint>>,
         pc' = "activate" => pc = "activate", pc' = "start" => pc = "start"
  PROVE  LastingInv'
<1>1. /\ Len(stream) \in Nat /\ Len(jobs) \in Nat /\ cursor \in Nat
      /\ JobIds = 1..Len(jobs) /\ JobIds' = 1..Len(jobs)
  BY Lengths, LenProperties DEF LastingInv, JobIds
<1>2. LastingTypes'
  BY <1>1, LenProperties DEF LastingInv, LastingTypes
<1>3. AheadOfCheckpoint'
  BY DEF LastingInv, AheadOfCheckpoint
<1>4. \A k \in 1..Len(jobs) : jobs'[k].hat = jobs[k].hat /\ jobs'[k].cause = jobs[k].cause
  BY <1>1 DEF SameOrigin
<1>5. OncePerEventInOrder'
  BY <1>1, <1>4 DEF LastingInv, NeverAgain, OncePerEventInOrder
<1>6. UNCHANGED <<cursor, batch>> /\ (pc' = "start" => batch = <<>>)
  BY DEF LastingInv, NeverAgain
<1>7. \A j \in 1..Len(jobs) : jobs'[j].cause \in Nat /\ jobs'[j].cause <= cursor
  BY <1>4 DEF LastingInv, NeverAgain
<1>8. \A j \in 1..Len(jobs), i \in 1..Len(batch) :
        jobs'[j].cause = cursor => jobs'[j].hat # batch[i]
  BY <1>4 DEF LastingInv, NeverAgain
<1>9. \A i, k \in 1..Len(batch) : batch[i] = batch[k] => i = k
  BY DEF LastingInv, NeverAgain
<1>10. NeverAgain'
  BY <1>5, <1>6, <1>7, <1>8, <1>9 DEF NeverAgain
<1> QED
  BY <1>2, <1>3, <1>10 DEF LastingInv

\* The counters never shrink while a run is on.
LEMMA AheadFrame ==
  ASSUME LastingInv, checkpoint' = checkpoint,
         iterations' \in Nat, iterations' >= iterations,
         globalSequence' \in Nat, globalSequence' >= globalSequence,
         Len(seen') \in Nat, Len(seen') >= Len(seen)
  PROVE  AheadOfCheckpoint'
<1>1. iterations \in Nat /\ globalSequence \in Nat /\ Len(seen) \in Nat
  BY Lengths DEF LastingInv, LastingTypes
<1>2. checkpoint # NoCheckpoint => Len(checkpoint.seen) \in Nat
  BY LenProperties DEF LastingInv, AheadOfCheckpoint
<1> QED
  BY <1>1, <1>2 DEF LastingInv, AheadOfCheckpoint

LEMMA StartLastingInv == LastingInv /\ Start => LastingInv'
<1> SUFFICES ASSUME LastingInv, Start PROVE LastingInv'
  OBVIOUS
<1>1. /\ Len(stream) \in Nat /\ Len(jobs) \in Nat /\ cursor \in Nat
      /\ JobIds = 1..Len(jobs) /\ cursor <= Len(stream) /\ Len(seen) \in Nat
  BY Lengths DEF LastingInv, LastingTypes
<1>2. stream' \in Seq(Events) /\ Len(stream') \in Nat /\ Len(stream') >= Len(stream)
  BY <1>1, FirstEventType, AppendEvent DEF Start, LastingInv, LastingTypes
<1>3. /\ cursor' = Len(stream) /\ batch = <<>> /\ pc' = "receive"
      /\ UNCHANGED <<iterations, globalSequence, seen, jobs, batch, outbox, checkpoint>>
  BY DEF Start, Subscribed, counters, storeVars, LastingInv, NeverAgain
<1>4. LastingTypes'
  BY <1>1, <1>2, <1>3 DEF LastingInv, LastingTypes
<1>5. AheadOfCheckpoint'
  BY <1>3 DEF LastingInv, AheadOfCheckpoint
<1>6. \A j \in 1..Len(jobs) : jobs[j].cause \in Nat /\ jobs[j].cause <= cursor'
  BY <1>1, <1>3 DEF LastingInv, NeverAgain
<1>7. Len(batch) = 0 /\ OncePerEventInOrder'
  BY <1>3 DEF LastingInv, NeverAgain, OncePerEventInOrder, JobIds
<1>8. NeverAgain'
  BY <1>3, <1>6, <1>7 DEF NeverAgain
<1> QED
  BY <1>4, <1>5, <1>8 DEF LastingInv

LEMMA DeliverLastingInv == LastingInv /\ (Complete \/ Receive) => LastingInv'
<1> SUFFICES ASSUME LastingInv, Complete \/ Receive PROVE LastingInv'
  OBVIOUS
<1>1. /\ Len(stream) \in Nat /\ Len(jobs) \in Nat /\ cursor \in Nat
      /\ JobIds = 1..Len(jobs) /\ Len(seen) \in Nat
  BY Lengths DEF LastingInv
<1>2. Deliver
  BY DEF Complete, Receive
<1>3. /\ cursor' = cursor + 1 /\ cursor + 1 \in 1..Len(stream)
      /\ UNCHANGED <<iterations, globalSequence, jobs, outbox, stream, checkpoint>>
  BY <1>1, <1>2 DEF Deliver, storeVars
<1>4. seen' \in Seq(Topics) /\ Len(seen') \in Nat /\ Len(seen') >= Len(seen)
  <2>1. NextEvent \in Events
    BY <1>3, ElementOfSeq DEF NextEvent, LastingInv, LastingTypes
  <2>2. NextEvent.topic \in Topics /\ seen \in Seq(Topics)
    BY <2>1 DEF Events, LastingInv, LastingTypes
  <2> QED
    BY <1>1, <1>2, <2>2, AppendProperties DEF Deliver
<1>5. /\ batch' \in Seq(Hats) /\ pc' # "start"
      /\ \A i, k \in 1..Len(batch') : batch'[i] = batch'[k] => i = k
  <2>1. CASE Complete
    BY <2>1 DEF Complete, Return, LastingInv, LastingTypes, NeverAgain
  <2>2. CASE Receive
    BY <2>2, RouteType, RouteBelowLimit DEF Receive
  <2> QED
    BY <2>1, <2>2
<1>6. LastingTypes'
  BY <1>1, <1>3, <1>4, <1>5 DEF LastingInv, LastingTypes
<1>7. AheadOfCheckpoint'
  BY <1>3, <1>4, AheadFrame DEF LastingInv, LastingTypes
<1>8. \A j \in 1..Len(jobs) : /\ jobs[j].cause \in Nat /\ jobs[j].cause <= cursor'
                              /\ jobs[j].cause # cursor'
  BY <1>1, <1>3 DEF LastingInv, NeverAgain
<1>9. OncePerEventInOrder'
  BY <1>3 DEF LastingInv, NeverAgain, OncePerEventInOrder, JobIds
<1>10. NeverAgain'
  BY <1>3, <1>5, <1>8, <1>9 DEF NeverAgain
<1> QED
  BY <1>6, <1>7, <1>10 DEF LastingInv

\* The hats left in the batch are some of those that were there, all different.
LEMMA TailBatch ==
  ASSUME LastingInv, batch # <<>>
  PROVE  /\ Tail(batch) \in Seq(Hats) /\ Len(Tail(batch)) \in Nat
         /\ \A i \in 1..Len(Tail(batch)) : /\ i + 1 \in 1..Len(batch)
                                           /\ Tail(batch)[i] = batch[i + 1]
                                           /\ Tail(batch)[i] # Head(batch)
         /\ \A i, k \in 1..Len(Tail(batch)) : Tail(batch)[i] = Tail(batch)[k] => i = k
         /\ 1 \in 1..Len(batch) /\ Head(batch) = batch[1]
<1>1. batch \in Seq(Hats) /\ Len(batch) \in Nat \ {0}
  BY EmptySeq, LenProperties DEF LastingInv, LastingTypes
<1>2. /\ Tail(batch) \in Seq(Hats) /\ Len(Tail(batch)) = Len(batch) - 1
      /\ \A i \in 1..Len(Tail(batch)) : Tail(batch)[i] = batch[i + 1]
      /\ Head(batch) = batch[1]
  BY <1>1, HeadTailProperties
<1>3. \A i \in 1..Len(Tail(batch)) : i + 1 \in 1..Len(batch) /\ i + 1 # 1 /\ i \in Nat
  BY <1>1, <1>2
<1>4. \A i, k \in 1..Len(batch) : batch[i] = batch[k] => i = k
  BY DEF LastingInv, NeverAgain
<1>5. 1 \in 1..Len(batch)
  BY <1>1
<1>6. \A i \in 1..Len(Tail(batch)) : Tail(batch)[i] # Head(batch)
  BY <1>2, <1>3, <1>4, <1>5
<1>7. ASSUME NEW i \in 1..Len(Tail(batch)), NEW k \in 1..Len(Tail(batch)),
             Tail(batch)[i] = Tail(batch)[k]
      PROVE  i = k
  <2>1. i + 1 = k + 1
    BY <1>2, <1>3, <1>4, <1>7
  <2> QED
    BY <1>3, <2>1
<1>8. /\ Tail(batch) \in Seq(Hats) /\ Len(Tail(batch)) \in Nat
      /\ \A i \in 1..Len(Tail(batch)) : /\ i + 1 \in 1..Len(batch)
                                        /\ Tail(batch)[i] = batch[i + 1]
                                        /\ Tail(batch)[i] # Head(batch)
  BY <1>1, <1>2, <1>3, <1>6
<1> QED
  BY <1>2, <1>5, <1>7, <1>8

LEMMA GateLastingInv == ASSUME LastingInv, NEW h \in Hats, GateFails(h) PROVE LastingInv'
<1>1. /\ pc = "activate" /\ pc' # "start" /\ batch # <<>> /\ batch' = Tail(batch)
      /\ iterations' = iterations + 1
      /\ UNCHANGED <<globalSequence, seen, jobs, outbox, stream, cursor, checkpoint>>
  BY DEF GateFails, Activating, Return, brokerVars, storeVars
<1>2. /\ Len(seen) \in Nat /\ iterations \in Nat /\ globalSequence \in Nat /\ cursor > 0
  BY <1>1, Lengths DEF LastingInv, LastingTypes
<1>3. LastingTypes'
  BY <1>1, <1>2, TailBatch DEF LastingInv, LastingTypes
<1>4. AheadOfCheckpoint'
  BY <1>1, <1>2, AheadFrame
<1>5. OncePerEventInOrder'
  BY <1>1 DEF LastingInv, NeverAgain, OncePerEventInOrder, JobIds
<1>6. \A j \in 1..Len(jobs), i \in 1..Len(batch') :
        jobs[j].cause = cursor => jobs[j].hat # batch'[i]
  BY <1>1, TailBatch DEF LastingInv, NeverAgain
<1>7. /\ \A j \in 1..Len(jobs) : jobs[j].cause \in Nat /\ jobs[j].cause <= cursor
      /\ \A i, k \in 1..Len(batch') : batch'[i] = batch'[k] => i = k
  BY <1>1, TailBatch DEF LastingInv, NeverAgain
<1>8. NeverAgain'
  BY <1>1, <1>5, <1>6, <1>7 DEF NeverAgain
<1> QED
  BY <1>3, <1>4, <1>8 DEF LastingInv

LEMMA CreateLastingInv == ASSUME LastingInv, NEW h \in Hats, CreateJob(h) PROVE LastingInv'
<1>1. /\ pc = "activate" /\ pc' = pc /\ batch # <<>> /\ h = Head(batch)
      /\ batch' = Tail(batch) /\ iterations' = iterations + 1
      /\ UNCHANGED <<globalSequence, seen, outbox, stream, cursor, checkpoint>>
  BY DEF CreateJob, Activating, brokerVars, storeVars
<1>2. /\ Len(jobs) \in Nat /\ JobIds = 1..Len(jobs) /\ jobs \in Seq(Jobs)
      /\ Len(seen) \in Nat /\ iterations \in Nat /\ globalSequence \in Nat
      /\ cursor \in Nat \ {0}
      /\ \A j \in 1..Len(jobs) : jobs[j].cause \in Nat /\ jobs[j].cause <= cursor
  BY <1>1, Lengths DEF LastingInv, LastingTypes, NeverAgain
<1>3. PICK job \in Jobs : jobs' = Append(jobs, job) /\ job.hat = h /\ job.cause = cursor
  <2> DEFINE job == [hat |-> h, cause |-> cursor, status |-> "running",
                     out |-> Silent, emits |-> <<>>, sent |-> 0]
  <2>1. Silent \in JobOutputs /\ <<>> \in Seq(Emissions)
    BY DEF Silent, JobOutputs
  <2>2. job \in Jobs
    BY <1>2, <2>1 DEF Jobs, Unfinished
  <2>3. jobs' = Append(jobs, job)
    BY DEF CreateJob
  <2> QED
    BY <2>2, <2>3
<1>4. /\ jobs' \in Seq(Jobs) /\ Len(jobs') = Len(jobs) + 1 /\ JobIds' = 1..Len(jobs')
      /\ \A j \in 1..Len(jobs) : jobs'[j] = jobs[j]
      /\ jobs'[Len(jobs')] = job
      /\ \A j \in 1..Len(jobs') : j \in 1..Len(jobs) \/ j = Len(jobs')
  BY <1>2, <1>3, AppendProperties, LenProperties DEF JobIds
<1>5. LastingTypes'
  BY <1>1, <1>2, <1>4, TailBatch DEF LastingInv, LastingTypes
<1>6. AheadOfCheckpoint'
  BY <1>1, <1>2, AheadFrame
<1>7. \A j \in 1..Len(jobs) : jobs[j].cause = cursor => jobs[j].hat # h
  BY <1>1, TailBatch DEF LastingInv, NeverAgain
<1>8. OncePerEventInOrder'
  <2> SUFFICES ASSUME NEW j \in 1..Len(jobs'), NEW k \in 1..Len(jobs'), j < k
               PROVE  \/ jobs'[j].cause < jobs'[k].cause
                      \/ /\ jobs'[j].cause = jobs'[k].cause
                         /\ jobs'[j].hat # jobs'[k].hat
    BY <1>4 DEF OncePerEventInOrder
  <2>1. j \in 1..Len(jobs)
    BY <1>2, <1>4
  <2>2. CASE k \in 1..Len(jobs)
    <3>1. \/ jobs[j].cause < jobs[k].cause
          \/ jobs[j].cause = jobs[k].cause /\ jobs[j].hat # jobs[k].hat
      BY <1>2, <2>1, <2>2 DEF LastingInv, NeverAgain, OncePerEventInOrder
    <3> QED
      BY <1>4, <2>1, <2>2, <3>1
  <2>3. CASE k = Len(jobs')
    BY <1>2, <1>3, <1>4, <1>7, <2>1, <2>3
  <2> QED
    BY <1>4, <2>2, <2>3
<1>9. \A j \in 1..Len(jobs') : jobs'[j].cause \in Nat /\ jobs'[j].cause <= cursor
  BY <1>2, <1>3, <1>4
<1>10. \A j \in 1..Len(jobs'), i \in 1..Len(batch') :
         jobs'[j].cause = cursor => jobs'[j].hat # batch'[i]
  <2> SUFFICES ASSUME NEW j \in 1..Len(jobs'), NEW i \in 1..Len(batch'),
                      jobs'[j].cause = cursor
               PROVE  jobs'[j].hat # batch'[i]
    OBVIOUS
  <2>1. /\ i + 1 \in 1..Len(batch) /\ batch'[i] = batch[i + 1] /\ batch'[i] # h
    BY <1>1, TailBatch
  <2>2. CASE j \in 1..Len(jobs)
    <3>1. jobs[j].cause = cursor => jobs[j].hat # batch[i + 1]
      BY <2>1, <2>2 DEF LastingInv, NeverAgain
    <3> QED
      BY <1>4, <2>1, <2>2, <3>1
  <2>3. CASE j = Len(jobs')
    BY <1>3, <1>4, <2>1, <2>3
  <2> QED
    BY <1>4, <2>2, <2>3
<1>11. \A i, k \in 1..Len(batch') : batch'[i] = batch'[k] => i = k
  BY <1>1, TailBatch
<1>12. NeverAgain'
  BY <1>1, <1>8, <1>9, <1>10, <1>11 DEF NeverAgain
<1> QED
  BY <1>5, <1>6, <1>12 DEF LastingInv

\* Steps of the controller that leave the jobs and the batch alone.
LEMMA CountingStep ==
  ASSUME LastingInv, outbox' \in Seq(Events),
         iterations' \in Nat, globalSequence' \in Nat,
         UNCHANGED <<seen, stream, cursor, jobs, batch>>,
         pc' # "activate", pc' # "start",
         AheadOfCheckpoint'
  PROVE  LastingInv'
<1>1. LastingTypes'
  BY DEF LastingInv, LastingTypes
<1>2. OncePerEventInOrder'
  BY DEF LastingInv, NeverAgain, OncePerEventInOrder, JobIds
<1>3. NeverAgain'
  BY <1>2 DEF LastingInv, NeverAgain
<1> QED
  BY <1>1, <1>3 DEF LastingInv

LEMMA SucceededLastingInv ==
  ASSUME LastingInv, NEW j \in JobIds, JobSucceeded(j)
  PROVE  LastingInv'
<1>1. /\ jobs[j] \in Jobs /\ j \in Nat /\ Len(seen) \in Nat
      /\ iterations \in Nat /\ globalSequence \in Nat
  BY Lengths DEF LastingInv, LastingTypes
<1>2. /\ Published(jobs[j].hat, jobs[j].out) \in Seq(Emissions)
      /\ Len(Published(jobs[j].hat, jobs[j].out)) \in Nat
  BY <1>1, PublishedType, LenProperties DEF Jobs
<1>3. outbox' \in Seq(Events)
  BY <1>1, <1>2, NumberedType DEF JobSucceeded
<1>4. globalSequence' \in Nat /\ globalSequence' >= globalSequence
  BY <1>1, <1>2 DEF JobSucceeded, SequenceAfter
<1>5. /\ pc' = "publish"
      /\ UNCHANGED <<iterations, seen, stream, cursor, jobs, batch, checkpoint>>
  BY DEF JobSucceeded, brokerVars, storeVars
<1>6. AheadOfCheckpoint'
  BY <1>1, <1>4, <1>5, AheadFrame
<1> QED
  BY <1>1, <1>3, <1>4, <1>5, <1>6, CountingStep

LEMMA EndLastingInv == LastingInv /\ EndIteration => LastingInv'
<1> SUFFICES ASSUME LastingInv, EndIteration PROVE LastingInv'
  OBVIOUS
<1>1. /\ iterations \in Nat /\ globalSequence \in Nat /\ seen \in Seq(Topics)
      /\ Len(seen) \in Nat /\ outbox \in Seq(Events)
  BY Lengths DEF LastingInv, LastingTypes
<1>2. /\ pc' = "receive"
      /\ UNCHANGED <<iterations, globalSequence, seen, stream, cursor, jobs, batch, outbox>>
  BY DEF EndIteration, counters, brokerVars
<1>3. checkpoint' \in {Snapshot, checkpoint}
  BY DEF EndIteration
<1>4. AheadOfCheckpoint'
  <2>1. CASE checkpoint' = Snapshot
    BY <1>1, <1>2, <2>1 DEF AheadOfCheckpoint, Snapshot
  <2>2. CASE checkpoint' = checkpoint
    BY <1>1, <1>2, <2>2, AheadFrame
  <2> QED
    BY <1>3, <2>1, <2>2
<1> QED
  BY <1>1, <1>2, <1>4, CountingStep

\* What else the controller does.
LEMMA OtherLastingInv ==
  ASSUME LastingInv,
         \/ StopAtMaxIterations \/ TimeOut \/ SubscriptionEnds \/ StartFails
         \/ \E h \in Hats : CreateJobFails(h)
         \/ WaitFails \/ Publish \/ PublishFails \/ PersistNotes \/ AwaitBatch
         \/ \E j \in JobIds : JobFailed(j)
         \/ OperatorEmits
  PROVE  LastingInv'
<1>1. /\ stream \in Seq(Events) /\ outbox \in Seq(Events) /\ Len(stream) \in Nat
      /\ jobs \in Seq(Jobs) /\ \A k \in JobIds : SameOrigin(jobs[k], jobs[k])
  BY Lengths DEF LastingInv, LastingTypes, SameOrigin
<1>2. ASSUME UNCHANGED <<cursor, batch, iterations, globalSequence, seen, jobs, checkpoint>>,
             pc' \in {"stopped", "wait", pc}, outbox' \in Seq(Events),
             stream' \in Seq(Events), Len(stream') >= Len(stream)
      PROVE  LastingInv'
  BY <1>1, <1>2, QuietStep
<1>3. outbox # <<>> => Head(outbox) \in Events /\ Tail(outbox) \in Seq(Events)
  BY <1>1, HeadTailProperties
<1>4. \A event \in Events : /\ Append(stream, event) \in Seq(Events)
                            /\ Len(Append(stream, event)) >= Len(stream)
  BY <1>1, AppendEvent
<1>5. CASE StopAtMaxIterations \/ TimeOut \/ SubscriptionEnds \/ WaitFails \/ AwaitBatch
  BY <1>1, <1>2, <1>5
     DEF StopAtMaxIterations, TimeOut, SubscriptionEnds, WaitFails, AwaitBatch, Return,
         counters, brokerVars, storeVars
<1>6. CASE StartFails
  <2>1. stream' = stream \/ stream' = Append(stream, FirstEvent)
    BY <1>6 DEF StartFails, MaybePublished
  <2>2. stream' \in Seq(Events) /\ Len(stream') >= Len(stream)
    BY <1>1, <2>1, FirstEventType, StreamExtended
  <2>3. /\ UNCHANGED <<cursor, batch, iterations, globalSequence, seen, jobs, checkpoint>>
        /\ pc' = "stopped" /\ outbox' = outbox
    BY <1>6 DEF StartFails, Return, counters, storeVars
  <2> QED
    BY <1>1, <1>2, <2>2, <2>3
<1>7. ASSUME NEW h \in Hats, CreateJobFails(h) PROVE LastingInv'
  BY <1>1, <1>2, <1>7 DEF CreateJobFails, Return, counters, brokerVars, storeVars
<1>8. CASE Publish
  BY <1>1, <1>2, <1>3, <1>4, <1>8 DEF Publish, counters, storeVars
<1>9. CASE PublishFails
  <2>1. /\ UNCHANGED <<cursor, batch, iterations, globalSequence, seen, jobs, checkpoint>>
        /\ outbox # <<>> /\ pc' = "stopped" /\ outbox' = outbox
    BY <1>9 DEF PublishFails, Return, counters, storeVars
  <2>2. stream' = stream \/ stream' = Append(stream, Head(outbox))
    BY <1>9 DEF PublishFails, MaybePublished
  <2>3. stream' \in Seq(Events) /\ Len(stream') >= Len(stream)
    <3>1. CASE stream' = stream
      BY <1>1, <3>1
    <3>2. CASE stream' = Append(stream, Head(outbox))
      BY <1>3, <1>4, <2>1, <3>2
    <3> QED
      BY <2>2, <3>1, <3>2
  <2> QED
    BY <1>1, <1>2, <2>1, <2>3
<1>10. CASE PersistNotes
  <2>1. /\ UNCHANGED <<cursor, batch, iterations, globalSequence, seen, jobs, checkpoint>>
        /\ pc' = "wait" /\ outbox' = outbox /\ stream' = stream
    BY <1>10 DEF PersistNotes, counters, brokerVars
  <2> QED
    BY <1>1, <1>2, <2>1
<1>11. ASSUME NEW j \in JobIds, JobFailed(j) PROVE LastingInv'
  BY <1>1, <1>2, <1>11 DEF JobFailed, Return, brokerVars, storeVars
<1>12. CASE OperatorEmits
  <2>1. PICK topic \in OperatorTopics :
          stream' = Append(stream, MakeEvent(Plain(topic), 0, 0, "operator"))
    BY <1>12 DEF OperatorEmits
  <2>2. MakeEvent(Plain(topic), 0, 0, "operator") \in Events
    BY EnvironmentAssumption, PlainType, MakeEventType
  <2> QED
    BY <1>1, <1>2, <1>4, <1>12, <2>1, <2>2 DEF OperatorEmits, controllerVars, counters, storeVars
<1> QED
  BY <1>5, <1>6, <1>7, <1>8, <1>9, <1>10, <1>11, <1>12

LEMMA NextLastingInv == LastingInv /\ [Next]_vars => LastingInv'
<1> SUFFICES ASSUME LastingInv, [Next]_vars PROVE LastingInv'
  OBVIOUS
<1>1. /\ stream \in Seq(Events) /\ outbox \in Seq(Events) /\ Len(stream) \in Nat
      /\ jobs \in Seq(Jobs) /\ \A k \in JobIds : SameOrigin(jobs[k], jobs[k])
  BY Lengths DEF LastingInv, LastingTypes, SameOrigin
<1>2. CASE Progress
  BY <1>2, StartLastingInv, DeliverLastingInv, GateLastingInv, CreateLastingInv,
     SucceededLastingInv, EndLastingInv, OtherLastingInv DEF Progress
<1>3. CASE Fault
  BY <1>3, OtherLastingInv DEF Fault
<1>4. ASSUME NEW j \in JobIds, JobStep(j) PROVE LastingInv'
  <2>1. /\ jobs' \in Seq(Jobs) /\ Len(jobs') = Len(jobs)
        /\ \A k \in JobIds : SameOrigin(jobs'[k], jobs[k])
        /\ \/ stream' = stream
           \/ \E event \in Events : stream' = Append(stream, event)
        /\ UNCHANGED <<controllerVars, cursor, storeVars>>
    BY <1>1, <1>4, JobStepKeeps
  <2>2. stream' \in Seq(Events) /\ Len(stream') >= Len(stream)
    BY <1>1, <2>1, StreamExtended
  <2> QED
    BY <1>1, <2>1, <2>2, QuietStep DEF controllerVars, counters, storeVars
<1>5. CASE UNCHANGED vars
  <2>1. UNCHANGED <<pc, cursor, batch, iterations, globalSequence, seen, jobs, outbox,
                    stream, checkpoint>>
    BY <1>5 DEF vars, controllerVars, brokerVars, storeVars
  <2> QED
    BY <1>1, <2>1, QuietStep
<1> QED
  BY <1>2, <1>3, <1>4, <1>5, OtherLastingInv DEF Next, AllDone

-----------------------------------------------------------------------------
(* Crashes and continued runs.                                             *)

LEMMA CrashLastingInv == LastingInv /\ Crash => LastingInv'
<1> SUFFICES ASSUME LastingInv, Crash PROVE LastingInv'
  OBVIOUS
<1>1. /\ stream \in Seq(Events) /\ outbox \in Seq(Events) /\ Len(stream) \in Nat
      /\ jobs \in Seq(Jobs) /\ Len(jobs) \in Nat /\ JobIds = 1..Len(jobs)
      /\ \A k \in JobIds : jobs[k] \in Jobs
  BY Lengths DEF LastingInv, LastingTypes
<1>2. PICK dead : jobs' = [j \in JobIds |-> IF j \in dead
                                            THEN [jobs[j] EXCEPT !.status = "failed"]
                                            ELSE jobs[j]]
  BY DEF Crash
<1>3. \A k \in JobIds : /\ jobs'[k] \in Jobs
                        /\ SameOrigin(jobs'[k], jobs[k])
  <2> SUFFICES ASSUME NEW k \in JobIds
               PROVE  jobs'[k] \in Jobs /\ SameOrigin(jobs'[k], jobs[k])
    OBVIOUS
  <2>1. [jobs[k] EXCEPT !.status = "failed"] \in Jobs /\ jobs[k] \in Jobs
    BY <1>1, JobUpdates DEF Finished
  <2>2. SameOrigin([jobs[k] EXCEPT !.status = "failed"], jobs[k])
    BY <2>1 DEF SameOrigin, Jobs
  <2>3. jobs'[k] = [jobs[k] EXCEPT !.status = "failed"] \/ jobs'[k] = jobs[k]
    BY <1>2
  <2> QED
    BY <2>1, <2>2, <2>3 DEF SameOrigin
<1>4. jobs' \in [1..Len(jobs) -> Jobs]
  BY <1>1, <1>2, <1>3
<1>5. jobs' \in Seq(Jobs) /\ Len(jobs') = Len(jobs)
  BY <1>1, <1>4, FunctionIsSeq
<1>6. /\ pc' = "crashed"
      /\ UNCHANGED <<cursor, batch, iterations, globalSequence, seen, outbox, stream,
                     checkpoint>>
  BY DEF Crash, counters, brokerVars, storeVars
<1> QED
  BY <1>1, <1>3, <1>5, <1>6, QuietStep

LEMMA ContinueLastingInv == LastingInv /\ Continue => LastingInv'
<1> SUFFICES ASSUME LastingInv, Continue PROVE LastingInv'
  OBVIOUS
<1>1. /\ checkpoint # NoCheckpoint
      /\ iterations' = checkpoint.iterations
      /\ globalSequence' = checkpoint.globalSequence
      /\ seen' = checkpoint.seen
  BY DEF Continue, Restored
<1>2. /\ pc' = "start" /\ batch' = <<>> /\ outbox' = <<>>
      /\ UNCHANGED <<stream, cursor, jobs, checkpoint>>
  BY DEF Continue, Reboot, brokerVars, storeVars
<1>3. /\ iterations' \in Nat /\ globalSequence' \in Nat /\ seen' \in Seq(Topics)
      /\ Len(seen') \in Nat
  BY <1>1, LenProperties DEF LastingInv, AheadOfCheckpoint
<1>4. <<>> \in Seq(Events) /\ <<>> \in Seq(Hats) /\ Len(<<>>) = 0
  OBVIOUS
<1>5. LastingTypes'
  BY <1>2, <1>3, <1>4 DEF LastingInv, LastingTypes
<1>6. AheadOfCheckpoint'
  BY <1>1, <1>2, <1>3 DEF AheadOfCheckpoint
<1>7. OncePerEventInOrder'
  BY <1>2 DEF LastingInv, NeverAgain, OncePerEventInOrder, JobIds
<1>8. \A j \in 1..Len(jobs) : jobs[j].cause \in Nat /\ jobs[j].cause <= cursor
  BY DEF LastingInv, NeverAgain
<1>9. NeverAgain'
  BY <1>2, <1>4, <1>7, <1>8 DEF NeverAgain
<1> QED
  BY <1>5, <1>6, <1>9 DEF LastingInv

LEMMA AfreshLastingInv == StartAfresh => LastingInv'
<1> SUFFICES ASSUME StartAfresh PROVE LastingInv'
  OBVIOUS
<1>1. /\ pc' = "start" /\ batch' = <<>> /\ outbox' = <<>> /\ stream' = <<>>
      /\ jobs' = <<>> /\ cursor' = 0 /\ iterations' = 0 /\ globalSequence' = 1
      /\ seen' = <<>> /\ checkpoint' = NoCheckpoint
  BY DEF StartAfresh, Reboot
<1>2. LastingTypes'
  BY <1>1 DEF LastingTypes
<1>3. AheadOfCheckpoint'
  BY <1>1 DEF AheadOfCheckpoint
<1>4. NeverAgain'
  BY <1>1 DEF NeverAgain, OncePerEventInOrder, JobIds
<1> QED
  BY <1>2, <1>3, <1>4 DEF LastingInv

LEMMA LastingInvariant == ResumeSpec => []LastingInv
<1>1. LastingInv /\ [ResumeNext]_resumeVars => LastingInv'
  BY NextLastingInv, CrashLastingInv, ContinueLastingInv, AfreshLastingInv
     DEF ResumeNext, Running, resumeVars
<1> QED
  BY <1>1, InitLastingInv, PTL DEF ResumeSpec

(***************************************************************************)
(* Delivery is at most once across restarts: however often the controller  *)
(* crashes and is continued, no hat is started twice for an event, and no  *)
(* event is gone back to (reconciler.rs:69-133, nats.rs:94-115).           *)
(***************************************************************************)
THEOREM OnceAcrossRestarts == ResumeSpec => []OncePerEventInOrder
<1>1. LastingInv => OncePerEventInOrder
  BY DEF LastingInv, NeverAgain
<1> QED
  BY <1>1, LastingInvariant, PTL

(***************************************************************************)
(* A run's checkpoint never goes back, although a continued run counts     *)
(* from an older state than the one the crash cut off                      *)
(* (reconciler.rs:94-102, 364-375).                                        *)
(***************************************************************************)
THEOREM CheckpointAlwaysAdvances == ResumeSpec => CheckpointAdvances
<1> DEFINE Advance ==
      checkpoint # NoCheckpoint =>
        /\ checkpoint'.iterations >= checkpoint.iterations
        /\ checkpoint'.globalSequence >= checkpoint.globalSequence
        /\ Len(checkpoint'.seen) >= Len(checkpoint.seen)
<1>1. LastingInv /\ [ResumeNext]_resumeVars => [Advance]_checkpoint
  <2> SUFFICES ASSUME LastingInv, [ResumeNext]_resumeVars, checkpoint' # checkpoint
               PROVE  Advance
    OBVIOUS
  <2>1. EndIteration
    <3>1. ~Crash /\ ~Continue /\ ~StartAfresh
      BY DEF Crash, Continue, StartAfresh, storeVars
    <3>2. Next
      BY <3>1 DEF ResumeNext, Running, resumeVars, vars, storeVars
    <3> QED
      BY <3>2
         DEF Next, Progress, Fault, JobStep, Start, StopAtMaxIterations, TimeOut, Complete,
             Receive, Deliver, GateFails, CreateJob, AwaitBatch, JobSucceeded, JobFailed,
             Publish, PersistNotes, StartFails, SubscriptionEnds, CreateJobFails,
             WaitFails, PublishFails, LocalJobSucceeds, CommandSucceeds, AgentPublishes,
             AgentExits, JobFails, OperatorEmits, AllDone, vars, storeVars
  <2>2. checkpoint' = Snapshot
    BY <2>1 DEF EndIteration
  <2>3. /\ checkpoint'.iterations = iterations /\ checkpoint'.seen = seen
        /\ checkpoint'.globalSequence = globalSequence
    BY <2>2 DEF Snapshot
  <2>4. /\ iterations \in Nat /\ globalSequence \in Nat /\ Len(seen) \in Nat
        /\ checkpoint # NoCheckpoint => Len(checkpoint.seen) \in Nat
    BY Lengths, LenProperties DEF LastingInv, LastingTypes, AheadOfCheckpoint
  <2> QED
    BY <2>3, <2>4 DEF LastingInv, AheadOfCheckpoint
<1> QED
  BY <1>1, LastingInvariant, PTL DEF ResumeSpec, CheckpointAdvances

-----------------------------------------------------------------------------
(***************************************************************************)
(* The starting event.  A run is fresh when it has seen nothing yet; seen  *)
(* leaves system events out, so this argument needs the starting event not *)
(* to be one of them.                                                      *)
(***************************************************************************)
OfStart(event) == event.origin = 0 /\ event.via = "controller"

StartInv ==
  /\ \A i, k \in 1..Len(stream) : OfStart(stream[i]) /\ OfStart(stream[k]) => i = k
  /\ \A i \in 1..Len(outbox) : ~OfStart(outbox[i])
  /\ pc = "start" /\ seen = <<>> => stream = <<>>
  /\ pc \in {"activate", "wait", "publish"} => seen # <<>>
  /\ pc = "receive" /\ seen = <<>> =>
       cursor = 0 /\ Len(stream) > 0 /\ ~IsSystem(stream[1].topic)
  /\ checkpoint # NoCheckpoint => checkpoint.seen # <<>>

\* Steps that publish nothing or something else, and read nothing new.
LEMMA StartFrame ==
  ASSUME LastingInv, StartInv,
         \/ stream' = stream
         \/ \E event \in Events : stream' = Append(stream, event) /\ ~OfStart(event),
         pc = "start" /\ seen = <<>> => stream' = stream,
         \A i \in 1..Len(outbox') : ~OfStart(outbox'[i]),
         UNCHANGED <<seen, cursor>>,
         pc' = "start" => pc = "start",
         pc' = "receive" => pc \in {"receive", "wait"},
         pc' \in {"activate", "wait", "publish"} => pc \in {"activate", "wait", "publish"},
         checkpoint' # NoCheckpoint => checkpoint'.seen # <<>>
  PROVE  StartInv'
<1>1. Len(stream) \in Nat /\ stream \in Seq(Events)
  BY Lengths DEF LastingInv, LastingTypes
<1>2. /\ \A i \in 1..Len(stream) : stream'[i] = stream[i]
      /\ \A i \in 1..Len(stream') : i \in 1..Len(stream) \/ ~OfStart(stream'[i])
      /\ Len(stream') \in Nat /\ Len(stream') >= Len(stream)
  <2>1. CASE stream' = stream
    BY <1>1, <2>1
  <2>2. ASSUME NEW event \in Events, stream' = Append(stream, event), ~OfStart(event)
        PROVE  /\ \A i \in 1..Len(stream) : stream'[i] = stream[i]
               /\ \A i \in 1..Len(stream') : i \in 1..Len(stream) \/ ~OfStart(stream'[i])
               /\ Len(stream') \in Nat /\ Len(stream') >= Len(stream)
    <3>1. /\ Len(stream') = Len(stream) + 1 /\ stream'[Len(stream) + 1] = event
          /\ \A i \in 1..Len(stream) : stream'[i] = stream[i]
      BY <1>1, <2>2, AppendEvent
    <3> QED
      BY <1>1, <2>2, <3>1
  <2> QED
    BY <2>1, <2>2
<1>3. \A i, k \in 1..Len(stream') : OfStart(stream'[i]) /\ OfStart(stream'[k]) => i = k
  BY <1>2 DEF StartInv
<1>4. pc' = "receive" /\ seen' = <<>> =>
        cursor' = 0 /\ Len(stream') > 0 /\ ~IsSystem(stream'[1].topic)
  <2>1. SUFFICES ASSUME pc' = "receive", seen' = <<>>
                 PROVE  cursor' = 0 /\ Len(stream') > 0 /\ ~IsSystem(stream'[1].topic)
    OBVIOUS
  <2>2. cursor = 0 /\ Len(stream) > 0 /\ ~IsSystem(stream[1].topic)
    BY <2>1 DEF StartInv
  <2>3. 1 \in 1..Len(stream)
    BY <1>1, <2>2
  <2> QED
    BY <1>1, <1>2, <2>2, <2>3
<1>5. pc' = "start" /\ seen' = <<>> => stream' = <<>>
  BY DEF StartInv
<1>6. pc' \in {"activate", "wait", "publish"} => seen' # <<>>
  BY DEF StartInv
<1> QED
  BY <1>3, <1>4, <1>5, <1>6 DEF StartInv

\* Publishing the starting event in an empty stream.
LEMMA FirstPublished ==
  ASSUME stream = <<>>, stream' = Append(stream, FirstEvent)
  PROVE  /\ Len(stream') = 1 /\ stream'[1].topic = StartingEvent
         /\ \A i, k \in 1..Len(stream') : i = k
<1>1. /\ stream \in Seq(Events) /\ Len(stream) = 0
  OBVIOUS
<1>2. Len(stream') = 1 /\ stream'[1] = FirstEvent
  BY <1>1, FirstEventType, AppendEvent
<1> QED
  BY <1>2 DEF FirstEvent, MakeEvent, Plain

LEMMA StartStartInv ==
  ASSUME ~IsSystem(StartingEvent), LastingInv, StartInv, Start \/ StartFails
  PROVE  StartInv'
<1>1. /\ pc = "start" /\ UNCHANGED <<seen, outbox, checkpoint>>
      /\ pc' \in {"receive", "stopped"}
  BY DEF Start, StartFails, Return, counters, storeVars
<1>2. CASE seen # <<>>
  <2>1. stream' = stream
    BY <1>2 DEF Start, StartFails, IsFresh
  <2> QED
    BY <1>1, <1>2, <2>1 DEF StartInv
<1>3. CASE seen = <<>>
  <2>1. stream = <<>> /\ Len(stream) = 0
    BY <1>1, <1>3 DEF StartInv
  <2>2. stream' = stream \/ stream' = Append(stream, FirstEvent)
    BY DEF Start, StartFails, MaybePublished
  <2>3. Start => stream' = Append(stream, FirstEvent) /\ cursor' = 0
    BY <1>3, <2>1 DEF Start, IsFresh, Subscribed
  <2>4. pc' = "receive" => Start
    BY DEF StartFails, Return
  <2>5. \A i, k \in 1..Len(stream') : i = k
    BY <2>1, <2>2, FirstPublished
  <2>6. pc' = "receive" =>
          cursor' = 0 /\ Len(stream') > 0 /\ ~IsSystem(stream'[1].topic)
    <3> SUFFICES ASSUME pc' = "receive"
                 PROVE  cursor' = 0 /\ Len(stream') > 0 /\ ~IsSystem(stream'[1].topic)
      OBVIOUS
    <3>1. cursor' = 0 /\ stream' = Append(stream, FirstEvent)
      BY <2>3, <2>4
    <3>2. Len(stream') = 1 /\ stream'[1].topic = StartingEvent
      BY <2>1, <3>1, FirstPublished
    <3> QED
      BY <3>1, <3>2
  <2>7. /\ \A i \in 1..Len(outbox') : ~OfStart(outbox'[i])
        /\ checkpoint' # NoCheckpoint => checkpoint'.seen # <<>>
    BY <1>1 DEF StartInv
  <2> QED
    BY ONLY <1>1, <2>5, <2>6, <2>7 DEF StartInv, OfStart
<1> QED
  BY <1>2, <1>3

LEMMA DeliverStartInv ==
  ASSUME LastingInv, StartInv, Complete \/ Receive
  PROVE  StartInv'
<1>1. /\ Deliver /\ pc = "receive" /\ pc' \in {"activate", "stopped"}
      /\ UNCHANGED <<stream, outbox, checkpoint>>
  BY DEF Complete, Receive, Deliver, Listening, Return, storeVars
<1>2. seen' # <<>>
  <2>1. seen \in Seq(Topics) /\ Len(seen) \in Nat
    BY Lengths DEF LastingInv, LastingTypes
  <2>2. CASE seen = <<>>
    <3>1. NextEvent = stream[1] /\ ~IsSystem(NextEvent.topic)
      BY <1>1, <2>2 DEF StartInv, NextEvent
    <3>2. seen' = Append(seen, NextEvent.topic)
      BY <1>1, <3>1 DEF Deliver
    <3> QED
      BY <2>2, <3>2
  <2>3. CASE seen # <<>>
    <3>1. seen' = seen \/ seen' = Append(seen, NextEvent.topic)
      BY <1>1 DEF Deliver
    <3>2. cursor + 1 \in 1..Len(stream)
      BY <1>1, Lengths DEF Deliver, LastingInv
    <3>3. NextEvent \in Events
      BY <3>2, ElementOfSeq DEF NextEvent, LastingInv, LastingTypes
    <3>4. NextEvent.topic \in Topics
      BY <3>3 DEF Events
    <3> QED
      BY <2>1, <2>3, <3>1, <3>4, AppendProperties
  <2> QED
    BY <2>2, <2>3
<1> QED
  BY <1>1, <1>2 DEF StartInv

LEMMA SucceededStartInv ==
  ASSUME LastingInv, StartInv, NEW j \in JobIds, JobSucceeded(j)
  PROVE  StartInv'
<1> DEFINE emissions == Published(jobs[j].hat, jobs[j].out)
<1>1. jobs[j] \in Jobs /\ j \in Nat \ {0} /\ globalSequence \in Nat
  BY Lengths DEF LastingInv, LastingTypes
<1>2. emissions \in Seq(Emissions) /\ Len(emissions) \in Nat
  BY <1>1, PublishedType, LenProperties DEF Jobs
<1>3. outbox' = Numbered(emissions, globalSequence, j)
  BY DEF JobSucceeded
<1>4. Len(outbox') = Len(emissions)
  BY <1>1, <1>2, <1>3, NumberedType
<1>5. \A i \in 1..Len(emissions) : Numbered(emissions, globalSequence, j)[i].origin = j
  BY DEF Numbered, MakeEvent
<1>6. \A i \in 1..Len(outbox') : ~OfStart(outbox'[i])
  BY <1>1, <1>3, <1>4, <1>5 DEF OfStart
<1>7. /\ pc = "wait" /\ pc' = "publish"
      /\ UNCHANGED <<seen, stream, cursor, checkpoint>>
  BY DEF JobSucceeded, Waiting, brokerVars, storeVars
<1> QED
  BY <1>6, <1>7, StartFrame DEF StartInv

LEMMA EndStartInv == ASSUME LastingInv, StartInv, EndIteration PROVE StartInv'
<1>1. /\ pc = "wait" /\ pc' = "receive" /\ seen # <<>>
      /\ UNCHANGED <<seen, stream, cursor, outbox>>
  BY DEF EndIteration, StartInv, counters, brokerVars
<1>2. checkpoint' = Snapshot \/ checkpoint' = checkpoint
  BY DEF EndIteration
<1>3. checkpoint' # NoCheckpoint => checkpoint'.seen # <<>>
  BY <1>1, <1>2 DEF Snapshot, StartInv
<1> QED
  BY <1>1, <1>3, StartFrame DEF StartInv

LEMMA PublishStartInv ==
  ASSUME LastingInv, StartInv, Publish \/ PublishFails
  PROVE  StartInv'
<1>1. /\ outbox # <<>> /\ outbox \in Seq(Events)
  BY DEF Publish, PublishFails, LastingInv, LastingTypes
<1>2. Len(outbox) \in Nat /\ Len(outbox) # 0
  BY <1>1, EmptySeq, LenProperties
<1>3. /\ Head(outbox) = outbox[1] /\ Head(outbox) \in Events
      /\ Len(Tail(outbox)) = Len(outbox) - 1
      /\ \A i \in 1..Len(Tail(outbox)) : Tail(outbox)[i] = outbox[i + 1]
  BY <1>1, HeadTailProperties
<1>4. 1 \in 1..Len(outbox) /\ \A i \in 1..Len(Tail(outbox)) : i + 1 \in 1..Len(outbox)
  BY <1>2, <1>3
<1>5. /\ ~OfStart(Head(outbox))
      /\ \A i \in 1..Len(Tail(outbox)) : ~OfStart(Tail(outbox)[i])
  BY <1>3, <1>4 DEF StartInv
<1>6. stream' = stream \/ stream' = Append(stream, Head(outbox))
  BY DEF Publish, PublishFails, MaybePublished
<1>7. outbox' = outbox \/ outbox' = Tail(outbox)
  BY DEF Publish, PublishFails
<1>8. \A i \in 1..Len(outbox') : ~OfStart(outbox'[i])
  BY <1>5, <1>7 DEF StartInv
<1>9. /\ pc = "publish" /\ pc' \in {"publish", "stopped"}
      /\ UNCHANGED <<seen, cursor, checkpoint>>
  BY DEF Publish, PublishFails, Return, counters, storeVars
<1> QED
  BY <1>3, <1>5, <1>6, <1>8, <1>9, StartFrame DEF StartInv

\* Agents and operators publish nothing before the starting event is out.
LEMMA OutsideStartInv ==
  ASSUME LastingInv, StartInv,
         OperatorEmits \/ \E j \in JobIds : JobStep(j)
  PROVE  StartInv'
<1>1. /\ stream \in Seq(Events) /\ Len(stream) \in Nat /\ jobs \in Seq(Jobs)
      /\ cursor \in 0..Len(stream) /\ JobIds = 1..Len(jobs)
  BY Lengths DEF LastingInv, LastingTypes
<1>2. CASE OperatorEmits
  <2>1. PICK topic \in OperatorTopics :
          stream' = Append(stream, MakeEvent(Plain(topic), 0, 0, "operator"))
    BY <1>2 DEF OperatorEmits
  <2>2. /\ MakeEvent(Plain(topic), 0, 0, "operator") \in Events
        /\ ~OfStart(MakeEvent(Plain(topic), 0, 0, "operator"))
    BY EnvironmentAssumption, PlainType, MakeEventType DEF MakeEvent, OfStart
  <2>3. ~(pc = "start" /\ seen = <<>>) /\ UNCHANGED <<pc, seen, outbox, cursor, checkpoint>>
    BY <1>2 DEF OperatorEmits, StartInv, controllerVars, counters, storeVars
  <2> QED
    BY <2>1, <2>2, <2>3, StartFrame DEF StartInv
<1>3. ASSUME NEW j \in JobIds, JobStep(j) PROVE StartInv'
  <2>1. /\ \/ stream' = stream
           \/ \E event \in Events : stream' = Append(stream, event) /\ event.via = "agent"
        /\ UNCHANGED <<pc, seen, outbox, cursor, checkpoint>>
    BY <1>1, <1>3, JobStepKeeps DEF controllerVars, counters, storeVars
  <2>2. ~(pc = "start" /\ seen = <<>>)
    <3>1. jobs[j] \in Jobs /\ jobs[j].cause <= cursor
      BY <1>1, Lengths DEF LastingInv, NeverAgain
    <3>2. jobs[j].cause \in Nat \ {0}
      BY <3>1 DEF Jobs
    <3>3. Len(stream) > 0
      BY <1>1, <3>1, <3>2
    <3> QED
      BY <3>3 DEF StartInv
  <2> QED
    BY <2>1, <2>2, StartFrame DEF OfStart, StartInv
<1> QED
  BY <1>2, <1>3

LEMMA NextStartInv ==
  ASSUME ~IsSystem(StartingEvent), LastingInv, StartInv, [Next]_vars
  PROVE  StartInv'
<1>1. ASSUME UNCHANGED <<stream, outbox, seen, cursor, checkpoint>>,
             \/ pc' \in {pc, "stopped"}
             \/ pc \in {"activate", "publish"} /\ pc' = "wait"
      PROVE  StartInv'
  BY <1>1, StartFrame DEF StartInv
<1>2. CASE StopAtMaxIterations \/ TimeOut \/ SubscriptionEnds \/ WaitFails \/ AwaitBatch
  BY <1>1, <1>2
     DEF StopAtMaxIterations, TimeOut, SubscriptionEnds, WaitFails, AwaitBatch, Return,
         counters, brokerVars, storeVars
<1>3. CASE PersistNotes
  BY <1>1, <1>3 DEF PersistNotes, counters, brokerVars
<1>4. ASSUME NEW h \in Hats, GateFails(h) \/ CreateJob(h) \/ CreateJobFails(h)
      PROVE  StartInv'
  BY <1>1, <1>4 DEF GateFails, CreateJob, CreateJobFails, Return, counters, brokerVars,
                    storeVars
<1>5. ASSUME NEW j \in JobIds, JobFailed(j) PROVE StartInv'
  BY <1>1, <1>5 DEF JobFailed, Return, brokerVars, storeVars
<1>6. CASE UNCHANGED vars
  BY <1>1, <1>6 DEF vars, controllerVars, counters, brokerVars, storeVars
<1>7. CASE Progress
  BY <1>2, <1>3, <1>4, <1>5, <1>7, StartStartInv, DeliverStartInv, SucceededStartInv,
     PublishStartInv, EndStartInv DEF Progress
<1>8. CASE Fault
  BY <1>2, <1>4, <1>8, StartStartInv, PublishStartInv DEF Fault
<1> QED
  BY <1>6, <1>7, <1>8, OutsideStartInv DEF Next, AllDone

LEMMA ResumeStartInv ==
  ASSUME ~IsSystem(StartingEvent), LastingInv, StartInv, [ResumeNext]_resumeVars
  PROVE  StartInv'
<1>1. CASE [Next]_vars
  BY <1>1, NextStartInv
<1>2. CASE Crash
  BY <1>2, StartFrame DEF Crash, StartInv, counters, brokerVars, storeVars
<1>3. CASE Continue
  <2>1. /\ pc' = "start" /\ outbox' = <<>> /\ seen' = checkpoint.seen
        /\ checkpoint # NoCheckpoint /\ UNCHANGED <<stream, checkpoint>>
    BY <1>3 DEF Continue, Reboot, Restored, brokerVars, storeVars
  <2>2. seen' # <<>> /\ Len(outbox') = 0
    BY <2>1 DEF StartInv
  <2> QED
    BY <2>1, <2>2 DEF StartInv
<1>4. CASE StartAfresh
  BY <1>4 DEF StartAfresh, Reboot, StartInv
<1> QED
  BY <1>1, <1>2, <1>3, <1>4 DEF ResumeNext, Running, resumeVars

\* At most one event is of the start, said with cardinalities.
LEMMA AtMostOneStart == ASSUME LastingInv, StartInv PROVE StartedOnce
<1> DEFINE S == {i \in DOMAIN stream : stream[i].origin = 0 /\ stream[i].via = "controller"}
<1>1. DOMAIN stream = 1..Len(stream)
  BY LenProperties DEF LastingInv, LastingTypes
<1>2. \A i, k \in S : i = k
  BY <1>1 DEF StartInv, OfStart
<1>3. CASE S = {}
  BY <1>3, FS_EmptySet DEF StartedOnce
<1>4. ASSUME NEW i \in S PROVE Cardinality(S) <= 1
  <2>1. S = {i}
    BY <1>2
  <2>2. Cardinality({i}) = 1
    BY FS_Singleton
  <2>3. Cardinality(S) = 1
    BY <2>1, <2>2
  <2> HIDE DEF S
  <2> QED
    BY <2>3
<1> QED
  BY <1>3, <1>4 DEF StartedOnce

(***************************************************************************)
(* The starting event is published once per run, however often the run is  *)
(* interrupted before or after it was seen and continued, unless it is a   *)
(* system event, which seen_events leaves out (reconciler.rs:128-133).     *)
(***************************************************************************)
THEOREM StartsOnce == ~IsSystem(StartingEvent) => (ResumeSpec => []StartedOnce)
<1> SUFFICES ASSUME ~IsSystem(StartingEvent) PROVE ResumeSpec => []StartedOnce
  OBVIOUS
<1>1. ResumeInit => StartInv
  BY DEF ResumeInit, Init, StartInv
<1>2. LastingInv /\ StartInv /\ [ResumeNext]_resumeVars => StartInv'
  BY ResumeStartInv
<1>3. LastingInv /\ StartInv => StartedOnce
  BY AtMostOneStart
<1> QED
  BY <1>1, <1>2, <1>3, LastingInvariant, PTL DEF ResumeSpec

-----------------------------------------------------------------------------
(* The jobs of a run that is continued.                                    *)

(***************************************************************************)
(* Continuing takes the counter back to the checkpoint's, but jobs remain: *)
(* those of the sessions before are paid for by the restarts, and those of *)
(* this one by its iterations.  BudgetInv is no invariant here, since the  *)
(* event at the new cursor is another; its bound by all hats is.           *)
(***************************************************************************)
InBudget == iterations + Len(batch) < MaxIterations + Cardinality(Hats)
PaidFor == Len(jobs) <= restarts * MaxJobs + iterations

SessionsPaid == restarts \in 0..MaxRestarts /\ InBudget /\ PaidFor

LEMMA Sizes ==
  /\ MaxIterations \in Nat /\ Cardinality(Hats) \in Nat /\ Cardinality(Hats) > 0
  /\ MaxJobs = MaxIterations + Cardinality(Hats)
<1>1. Cardinality(Hats) \in Nat /\ Cardinality(Hats) # 0
  BY HatsAssumption, FS_CardinalityType, FS_EmptySet
<1> QED
  BY <1>1, ConfigAssumption DEF MaxJobs

LEMMA SessionTypes ==
  ASSUME LastingInv, SessionsPaid
  PROVE  /\ Len(jobs) \in Nat /\ Len(batch) \in Nat /\ batch \in Seq(Hats)
         /\ jobs \in Seq(Jobs) /\ stream \in Seq(Events)
         /\ iterations \in Nat /\ restarts \in Nat /\ MaxRestarts \in Nat
         /\ restarts * MaxJobs \in Nat /\ MaxJobs \in Nat /\ iterations <= MaxJobs
<1>1. /\ Len(jobs) \in Nat /\ Len(batch) \in Nat /\ batch \in Seq(Hats)
      /\ jobs \in Seq(Jobs) /\ stream \in Seq(Events) /\ iterations \in Nat
  BY Lengths DEF LastingInv, LastingTypes
<1>2. restarts \in Nat /\ MaxRestarts \in Nat
  BY RestartsAssumption DEF SessionsPaid
<1>3. MaxJobs \in Nat
  BY Sizes
<1>4. restarts * MaxJobs \in Nat
  BY <1>2, <1>3
<1>5. iterations <= MaxJobs
  BY <1>1, Sizes DEF SessionsPaid, InBudget
<1> QED
  BY <1>1, <1>2, <1>3, <1>4, <1>5

LEMMA NextSessionsPaid ==
  ASSUME LastingInv, SessionsPaid, [Next]_vars, UNCHANGED restarts
  PROVE  SessionsPaid'
<1>1. /\ Len(jobs) \in Nat /\ Len(batch) \in Nat /\ batch \in Seq(Hats)
      /\ jobs \in Seq(Jobs) /\ stream \in Seq(Events)
      /\ iterations \in Nat
  BY SessionTypes
<1>9. restarts * MaxJobs \in Nat
  BY SessionTypes
<1>2. CASE Len(jobs') = Len(jobs) /\ UNCHANGED <<iterations, batch>>
  BY <1>2 DEF SessionsPaid, InBudget, PaidFor
<1>3. CASE Start
  <2>1. jobs' = jobs /\ UNCHANGED <<iterations, batch>>
    BY <1>3 DEF Start, counters
  <2> QED
    BY <1>2, <2>1
<1>4. CASE Complete \/ Receive
  <2>1. iterations < MaxIterations /\ UNCHANGED <<iterations, jobs>>
    BY <1>4 DEF Complete, Receive, Deliver, Listening, BudgetLeft
  <2>2. batch' = batch \/ (Len(batch') \in Nat /\ Len(batch') <= Cardinality(Hats))
    <3>1. CASE Complete
      BY <3>1 DEF Complete
    <3>2. CASE Receive
      <4>1. PICK order \in RouteWithState(NextEvent, activations) : batch' = order
        BY <3>2 DEF Receive
      <4>2. /\ batch' \in Seq(Hats) /\ Len(batch') <= Cardinality(Interested(NextEvent))
            /\ Cardinality(Interested(NextEvent)) \in Nat
            /\ Cardinality(Interested(NextEvent)) <= Cardinality(Hats)
        BY <4>1, RouteType
      <4>3. Len(batch') \in Nat
        BY <4>2, LenProperties
      <4> QED
        BY <4>2, <4>3, Sizes
    <3> QED
      BY <1>4, <3>1, <3>2
  <2>3. CASE batch' = batch
    BY <1>2, <2>1, <2>3
  <2>4. CASE Len(batch') \in Nat /\ Len(batch') <= Cardinality(Hats)
    <3>1. InBudget'
      BY <1>1, <2>1, <2>4, Sizes DEF InBudget
    <3> QED
      BY <2>1, <3>1 DEF SessionsPaid, PaidFor
  <2> QED
    BY <2>2, <2>3, <2>4
<1>5. ASSUME NEW h \in Hats, GateFails(h) \/ CreateJob(h) PROVE SessionsPaid'
  <2>1. /\ iterations' = iterations + 1 /\ batch' = Tail(batch) /\ batch # <<>>
        /\ jobs' = jobs \/ \E job : jobs' = Append(jobs, job)
    BY <1>5 DEF GateFails, CreateJob, Activating
  <2>2. Len(batch') = Len(batch) - 1
    BY <1>1, <2>1, HeadTailProperties
  <2>3. Len(jobs') = Len(jobs) \/ Len(jobs') = Len(jobs) + 1
    BY <1>1, <2>1
  <2>4. InBudget'
    BY <1>1, <2>1, <2>2, Sizes DEF SessionsPaid, InBudget
  <2> DEFINE before == restarts * MaxJobs
  <2>5. PaidFor'
    <3>1. Len(jobs) <= before + iterations /\ before \in Nat /\ restarts' = restarts
      BY <1>9 DEF SessionsPaid, PaidFor
    <3>2. Len(jobs') <= Len(jobs) + 1 /\ Len(jobs') \in Nat
      BY <1>1, <2>3
    <3> HIDE DEF before
    <3>3. Len(jobs') <= before + iterations'
      BY <1>1, <2>1, <3>1, <3>2
    <3> QED
      BY <3>1, <3>3 DEF PaidFor, before
  <2> QED
    BY <2>4, <2>5 DEF SessionsPaid
<1>6. ASSUME NEW j \in JobIds, JobStep(j) PROVE SessionsPaid'
  BY <1>1, <1>2, <1>6, JobStepKeeps DEF controllerVars, counters
<1>7. CASE Progress
  <2>1. CASE \E j \in JobIds : JobSucceeded(j) \/ JobFailed(j)
    BY <1>2, <2>1 DEF JobSucceeded, JobFailed
  <2>2. CASE StopAtMaxIterations \/ TimeOut \/ AwaitBatch \/ Publish \/ PersistNotes
               \/ EndIteration
    BY <1>2, <2>2
       DEF StopAtMaxIterations, TimeOut, AwaitBatch, Publish, PersistNotes, EndIteration, counters
  <2> QED
    BY <1>3, <1>4, <1>5, <1>7, <2>1, <2>2 DEF Progress
<1>8. CASE Fault
  BY <1>2, <1>8 DEF Fault, StartFails, SubscriptionEnds, CreateJobFails, WaitFails,
                    PublishFails, counters
<1> QED
  BY <1>2, <1>6, <1>7, <1>8
     DEF Next, OperatorEmits, AllDone, vars, controllerVars, counters

LEMMA RestartSessionsPaid ==
  ASSUME LastingInv, SessionsPaid, Crash \/ Continue \/ StartAfresh
  PROVE  SessionsPaid'
<1>1. /\ Len(jobs) \in Nat /\ Len(batch) \in Nat /\ jobs \in Seq(Jobs)
      /\ iterations \in Nat /\ restarts \in Nat /\ MaxRestarts \in Nat
  BY SessionTypes
<1>5. restarts * MaxJobs \in Nat /\ MaxJobs \in Nat /\ iterations <= MaxJobs
  BY SessionTypes
<1>2. Len(<<>>) = 0
  OBVIOUS
<1>3. CASE Crash
  <2>1. UNCHANGED <<iterations, batch, restarts>>
    BY <1>3 DEF Crash, counters
  <2>2. PICK dead : jobs' = [j \in JobIds |-> IF j \in dead
                                              THEN [jobs[j] EXCEPT !.status = "failed"]
                                              ELSE jobs[j]]
    BY <1>3 DEF Crash
  <2>3. Len(jobs') = Len(jobs)
    BY <1>1, <2>2 DEF JobIds
  <2> QED
    BY <2>1, <2>3 DEF SessionsPaid, InBudget, PaidFor
<1>4. CASE Continue \/ StartAfresh
  <2>1. restarts < MaxRestarts /\ restarts' = restarts + 1 /\ batch' = <<>>
    BY <1>4 DEF Continue, StartAfresh, Reboot
  <2>2. (restarts + 1) * MaxJobs = restarts * MaxJobs + MaxJobs
    BY <1>1, <1>5
  <2> DEFINE before == restarts * MaxJobs
  <2>5. before \in Nat /\ restarts' * MaxJobs = before + MaxJobs /\ Len(jobs) <= before + MaxJobs
    <3>1. Len(jobs) <= before + iterations
      BY DEF SessionsPaid, PaidFor
    <3> QED
      BY <1>1, <1>5, <2>1, <2>2, <3>1
  <2> HIDE DEF before
  <2>3. CASE Continue
    <3>1. jobs' = jobs /\ iterations' = checkpoint.iterations /\ checkpoint # NoCheckpoint
      BY <2>3 DEF Continue, Restored
    <3>2. iterations' \in Nat /\ iterations' <= iterations
      BY <3>1 DEF LastingInv, AheadOfCheckpoint
    <3>3. PaidFor'
      BY <1>1, <1>5, <2>5, <3>1, <3>2 DEF PaidFor
    <3>4. InBudget'
      BY <1>1, <1>2, <2>1, <3>2, Sizes DEF SessionsPaid, InBudget
    <3> QED
      BY <1>1, <2>1, <3>3, <3>4 DEF SessionsPaid
  <2>4. CASE StartAfresh
    <3>1. jobs' = <<>> /\ iterations' = 0
      BY <2>4 DEF StartAfresh
    <3>2. PaidFor'
      BY <1>2, <1>5, <2>5, <3>1 DEF PaidFor
    <3>3. InBudget'
      BY <1>2, <2>1, <3>1, Sizes DEF InBudget
    <3> QED
      BY <1>1, <2>1, <3>2, <3>3 DEF SessionsPaid
  <2> QED
    BY <1>4, <2>3, <2>4
<1> QED
  BY <1>3, <1>4

(***************************************************************************)
(* However often a run is continued, each session starts no more jobs than *)
(* one run may: the fairness of ResumeFairSpec speaks of all of them, and  *)
(* a crash can make work be done again but not without end                 *)
(* (reconciler.rs:69-118, 136, 219-220).                                   *)
(***************************************************************************)
THEOREM JobsBoundedAcrossRestarts ==
  ResumeSpec => [](JobIds \subseteq 1..((MaxRestarts + 1) * MaxJobs))
<1>1. ResumeInit => SessionsPaid
  BY Sizes, RestartsAssumption DEF ResumeInit, Init, SessionsPaid, InBudget, PaidFor
<1>2. LastingInv /\ SessionsPaid /\ [ResumeNext]_resumeVars => SessionsPaid'
  BY NextSessionsPaid, RestartSessionsPaid DEF ResumeNext, Running, resumeVars
<1>3. LastingInv /\ SessionsPaid => JobIds \subseteq 1..((MaxRestarts + 1) * MaxJobs)
  <2> SUFFICES ASSUME LastingInv, SessionsPaid
               PROVE  JobIds \subseteq 1..((MaxRestarts + 1) * MaxJobs)
    OBVIOUS
  <2>1. /\ JobIds = 1..Len(jobs) /\ Len(jobs) \in Nat
        /\ iterations \in Nat /\ restarts \in Nat /\ MaxRestarts \in Nat
        /\ MaxJobs \in Nat /\ iterations <= MaxJobs
    BY SessionTypes DEF JobIds
  <2>2. restarts + 1 <= MaxRestarts + 1
    BY <2>1 DEF SessionsPaid
  <2>3. \A a, b, c \in Nat : a <= b => a * c <= b * c
    OBVIOUS
  <2>4. (restarts + 1) * MaxJobs <= (MaxRestarts + 1) * MaxJobs
    BY <2>1, <2>2, <2>3
  <2>5. (restarts + 1) * MaxJobs = restarts * MaxJobs + MaxJobs
    BY <2>1
  <2> DEFINE before == restarts * MaxJobs
             all == (MaxRestarts + 1) * MaxJobs
  <2>6. /\ before \in Nat /\ all \in Nat /\ before + MaxJobs <= all
        /\ Len(jobs) <= before + iterations
    BY <2>1, <2>4, <2>5 DEF SessionsPaid, PaidFor
  <2> HIDE DEF before, all
  <2>7. 1..Len(jobs) \subseteq 1..all
    BY <2>1, <2>6
  <2> QED
    BY <2>1, <2>7 DEF all
<1> QED
  BY <1>1, <1>2, <1>3, LastingInvariant, PTL DEF ResumeSpec
=============================================================================
