------------------------------- MODULE Resume -------------------------------
(***************************************************************************)
(* A run whose controller dies or returns, completed or not, and that is   *)
(* continued with `boring run --continue`: Reconciler::resume and the      *)
(* first lines of run_inner (boring-controller/src/reconciler.rs:69-133).  *)
(*                                                                         *)
(* What survives is the stream, the jobs that were running, and the store; *)
(* what is restored is the checkpoint.  The new subscription is a plain    *)
(* NATS subscription (boring-broker/src/nats.rs:94-115): it delivers what  *)
(* is published from then on.                                              *)
(***************************************************************************)
EXTENDS Reconciler

CONSTANT MaxRestarts        \* bound: how many times the run is continued

ASSUME RestartsAssumption == MaxRestarts \in Nat

VARIABLE restarts

resumeVars == <<vars, restarts>>

ResumeInit == Init /\ restarts = 0

(***************************************************************************)
(* The controller process dies.  Pods run on; local children either run on *)
(* (the controller was killed) or die with it (Ctrl-C reaches the group).  *)
(***************************************************************************)
Orphans == {j \in JobIds : ~IsFinished(j)}

Crash ==
  /\ pc \notin {"stopped", "crashed"}
  /\ pc' = "crashed"
  /\ \E dead \in {{}} \cup (IF InCluster THEN {} ELSE {Orphans}) :
       jobs' = [j \in JobIds |-> IF j \in dead
                                 THEN [jobs[j] EXCEPT !.status = "failed"]
                                 ELSE jobs[j]]
  /\ UNCHANGED <<result, counters, active, batch, pending, outbox, brokerVars,
                 storeVars, injections, restarts>>

\* However the run ended: a completed run is continued as well.
Reboot ==
  /\ pc \in {"crashed", "stopped"}
  /\ restarts < MaxRestarts
  /\ restarts' = restarts + 1
  /\ pc' = "start"
  /\ result' = "none"
  /\ active' = {}
  /\ batch' = <<>>
  /\ pending' = <<>>
  /\ outbox' = <<>>
  /\ UNCHANGED injections

\* Mutation: the iteration counter starts over.
RestoredPartly == [checkpoint EXCEPT !.iterations = 0]

\* resume finds the checkpoint of this run and takes everything from it.
Restored == checkpoint

Continue ==
  /\ Reboot
  /\ checkpoint # NoCheckpoint
  /\ iterations' = Restored.iterations
  /\ activations' = Restored.activations
  /\ consecutiveFailures' = Restored.consecutiveFailures
  /\ globalSequence' = Restored.globalSequence
  /\ seen' = Restored.seen
  /\ UNCHANGED <<brokerVars, jobs, storeVars>>

(***************************************************************************)
(* There is no checkpoint: a fresh run under a new run id, with a subject, *)
(* jobs and store keys of its own.                                         *)
(***************************************************************************)
StartAfresh ==
  /\ Reboot
  /\ checkpoint = NoCheckpoint
  /\ iterations' = 0
  /\ activations' = [h \in Hats |-> 0]
  /\ consecutiveFailures' = 0
  /\ globalSequence' = 1
  /\ seen' = <<>>
  /\ stream' = <<>>
  /\ cursor' = 0
  /\ jobs' = <<>>
  /\ noted' = {}
  /\ UNCHANGED checkpoint

Running == Next /\ UNCHANGED restarts

ResumeNext == Running \/ Crash \/ Continue \/ StartAfresh

ResumeSpec == ResumeInit /\ [][ResumeNext]_resumeVars

\* Nothing obliges anyone to continue a run; once running, it proceeds.
ResumeFairness ==
  /\ WF_resumeVars(Progress /\ UNCHANGED restarts)
  /\ \A j \in 1..((MaxRestarts + 1) * MaxJobs) :
       WF_resumeVars(j \in JobIds /\ JobStep(j) /\ UNCHANGED restarts)

ResumeFairSpec == ResumeSpec /\ ResumeFairness

-----------------------------------------------------------------------------
(* Continuing never starts a hat twice for one event, nor goes back in the *)
(* stream: delivery is at most once across restarts (OncePerEventInOrder   *)
(* of module Reconciler is checked here too).                              *)

(* The starting event is published once per run, however often the run is  *)
(* continued (reconciler.rs:128-133).                                      *)
StartedOnce ==
  Cardinality({i \in DOMAIN stream :
                 stream[i].origin = 0 /\ stream[i].via = "controller"}) <= 1

(* A run's checkpoint never goes back: what a continued run saves counts   *)
(* at least what it was continued from (reconciler.rs:94-102, 364-375).    *)
CheckpointAdvances ==
  [][checkpoint # NoCheckpoint =>
       /\ checkpoint'.iterations >= checkpoint.iterations
       /\ checkpoint'.globalSequence >= checkpoint.globalSequence
       /\ Len(checkpoint'.seen) >= Len(checkpoint.seen)]_checkpoint

(* However often it is continued, a run ends or is interrupted again.      *)
RunsEnd == []<>(pc \in {"stopped", "crashed"})

(* What a reader of "Resume an interrupted run" (boring-cli main.rs:40) and *)
(* "persistence" (README.md:16) expects: a run that times out waiting for   *)
(* an event has been handed every event of its stream.                     *)
NothingStranded ==
  result = "TimedOut" =>
    Len(seen) = Cardinality({i \in DOMAIN stream : ~IsSystem(stream[i].topic)})
=============================================================================
