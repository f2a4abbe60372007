---------------------------- MODULE Agent_proofs ----------------------------
(***************************************************************************)
(* Theorems about module Agent, for any number of pods, emit files and     *)
(* faults: a pod does what the controller's model assumes of it, speaks    *)
(* only after its workspace is stored, fails only with nothing pushed, and *)
(* gives its work up only to rivals.                                       *)
(***************************************************************************)
EXTENDS Agent, SequenceTheorems, TLAPS

-----------------------------------------------------------------------------
(* Where main stands.                                                      *)

ControlOK ==
  /\ pc \in [Pods -> Phases]
  /\ exit \in [Pods -> {"running", "ok", "error", "killed"}]
  /\ emits = [p \in Pods |-> emits[p]]
  /\ \A p \in Pods : exit[p] = "running" <=> pc[p] # "done"

\* What is emitted is published before code is committed and pushed.
Emptied ==
  \A p \in Pods :
    pc[p] \in {"commit", "push", "hook", "send", "fix"} \/ exit[p] = "ok" => emits[p] = <<>>

\* The workspace is stored before anything is published.
Stored == \A p \in Pods : pc[p] = "publish" => p \in synced

\* The phases before the push, and a failure of one of them.
Early(p) ==
  \/ pc[p] \in {"start", "clone", "materialize", "run", "sync", "publish", "commit"}
  \/ exit[p] = "error"

\* The phases within the attempts to push.
Pushing == {"push", "hook", "send", "fix"}

LEMMA Order ==
  /\ After("start") = "clone" /\ After("clone") = "materialize"
  /\ After("materialize") = "run" /\ After("run") = "sync" /\ After("sync") = "publish"
  /\ After("publish") = "commit" /\ After("commit") = "push" /\ After("push") = "done"
BY DEF After

\* What a phase that is over leaves behind.
LEMMA LeaveMoves ==
  ASSUME ControlOK, NEW p \in Pods, NEW phase, Leave(p, phase),
         phase \in {"start", "clone", "materialize", "run", "sync", "publish", "commit", "push"}
  PROVE  /\ pc' = [pc EXCEPT ![p] = After(phase)]
         /\ phase # "push" => exit' = exit
         /\ phase = "push" => exit' = [exit EXCEPT ![p] = "ok"]
BY Order DEF Leave, Goto

\* What a failed push leaves behind.
LEMMA PushFailedMoves ==
  ASSUME ControlOK, NEW p \in Pods, PushFailed(p)
  PROVE  \/ pc' = [pc EXCEPT ![p] = "done"] /\ exit' = [exit EXCEPT ![p] = "ok"]
         \/ pc' = [pc EXCEPT ![p] = "fix"] /\ exit' = exit
BY Order DEF PushFailed, Leave, Goto

(***************************************************************************)
(* The moves of a pod.  Forward is a step from one of the phases before    *)
(* the publishing to the next; Attempt is one within the attempts to push, *)
(* the last of which ends main; Fails ends it with an error, and Ends is   *)
(* the deadline of the pod, wherever main stands.                          *)
(***************************************************************************)
Forward(p, from, to) ==
  /\ pc[p] = from /\ pc' = [pc EXCEPT ![p] = to] /\ exit' = exit

Attempt(p) ==
  /\ pc[p] \in Pushing
  /\ \/ exit' = exit /\ \E phase \in Pushing : pc' = [pc EXCEPT ![p] = phase]
     \/ exit' = [exit EXCEPT ![p] = "ok"] /\ pc' = [pc EXCEPT ![p] = "done"]

Fails(p) ==
  /\ pc[p] \in {"start", "clone", "materialize", "run", "sync", "publish"}
  /\ pc' = [pc EXCEPT ![p] = "done"]
  /\ exit' = [exit EXCEPT ![p] = "error"]

Ends(p) ==
  /\ pc[p] # "done"
  /\ pc' = [pc EXCEPT ![p] = "done"]
  /\ exit' = [exit EXCEPT ![p] = "killed"]

PushStep(p) ==
  \/ PushNothing(p) \/ BeginPush(p) \/ HookPasses(p) \/ HookHasNoUpstream(p)
  \/ HookRebases(p) \/ SendPack(p) \/ PushRejected(p) \/ Fix(p)
  \/ HookStopsAtConflict(p) \/ AckLost(p) \/ FixesNothing(p) \/ FixFails(p)

LEMMA PushStepAttempts ==
  ASSUME ControlOK, NEW p \in Pods, PushStep(p)
  PROVE  Attempt(p) /\ UNCHANGED podVars
<1>1. ASSUME PushNothing(p) \/ SendPack(p) \/ FixFails(p) PROVE Attempt(p) /\ UNCHANGED podVars
  <2>1. pc[p] \in Pushing /\ Leave(p, "push") /\ UNCHANGED podVars
    BY <1>1 DEF PushNothing, SendPack, FixFails, Pushing
  <2> QED
    BY <2>1, LeaveMoves, Order DEF Attempt
<1>2. ASSUME HookHasNoUpstream(p) \/ HookStopsAtConflict(p) \/ PushRejected(p) \/ AckLost(p)
      PROVE  Attempt(p) /\ UNCHANGED podVars
  <2>1. pc[p] \in Pushing /\ PushFailed(p) /\ UNCHANGED podVars
    BY <1>2 DEF HookHasNoUpstream, HookStopsAtConflict, HookRuns, PushRejected, AckLost, Pushing
  <2> QED
    BY <2>1, PushFailedMoves DEF Attempt, Pushing
<1>3. ASSUME BeginPush(p) \/ HookPasses(p) \/ HookRebases(p) \/ Fix(p) \/ FixesNothing(p)
      PROVE  Attempt(p) /\ UNCHANGED podVars
  <2>1. pc[p] \in Pushing /\ exit' = exit /\ UNCHANGED podVars
    BY <1>3 DEF BeginPush, HookPasses, HookRebases, HookRuns, Fix, FixesNothing, Retry, Pushing
  <2>2. \E phase \in Pushing : pc' = [pc EXCEPT ![p] = phase]
    BY <1>3 DEF BeginPush, HookPasses, HookRebases, Fix, FixesNothing, Retry, Goto, Pushing
  <2> QED
    BY <2>1, <2>2 DEF Attempt
<1> QED
  BY <1>1, <1>2, <1>3 DEF PushStep

\* The steps before the push, each with where it leads.
LEMMA EarlyMoves ==
  ASSUME ControlOK, NEW p \in Pods
  PROVE  /\ Connect(p) => Forward(p, "start", "clone") /\ UNCHANGED podVars
         /\ CloneWorkBranch(p) \/ CloneBaseBranch(p)
              => Forward(p, "clone", "materialize") /\ UNCHANGED podVars
         /\ Materialize(p) => Forward(p, "materialize", "run") /\ UNCHANGED podVars
         /\ RunCommand(p) => Forward(p, "run", "sync") /\ UNCHANGED <<stream, synced>>
         /\ SyncBack(p) => Forward(p, "sync", "publish") /\ UNCHANGED <<emits, stream>>
         /\ AllPublished(p) => Forward(p, "publish", "commit") /\ UNCHANGED podVars
         /\ Commit(p) => Forward(p, "commit", "push") /\ UNCHANGED podVars
         /\ PhaseFails(p) => Fails(p) /\ UNCHANGED podVars
         /\ PublishFails(p) => Fails(p) /\ pc[p] = "publish" /\ UNCHANGED <<emits, synced>>
<1>1. Connect(p) => Forward(p, "start", "clone") /\ UNCHANGED podVars
  BY LeaveMoves, Order DEF Connect, Forward
<1>2. CloneWorkBranch(p) \/ CloneBaseBranch(p)
        => Forward(p, "clone", "materialize") /\ UNCHANGED podVars
  BY LeaveMoves, Order DEF CloneWorkBranch, CloneBaseBranch, Forward
<1>3. Materialize(p) => Forward(p, "materialize", "run") /\ UNCHANGED podVars
  BY LeaveMoves, Order DEF Materialize, Forward
<1>4. RunCommand(p) => Forward(p, "run", "sync") /\ UNCHANGED <<stream, synced>>
  BY LeaveMoves, Order DEF RunCommand, Forward
<1>5. SyncBack(p) => Forward(p, "sync", "publish") /\ UNCHANGED <<emits, stream>>
  BY LeaveMoves, Order DEF SyncBack, Forward
<1>6. AllPublished(p) => Forward(p, "publish", "commit") /\ UNCHANGED podVars
  BY LeaveMoves, Order DEF AllPublished, Forward
<1>7. Commit(p) => Forward(p, "commit", "push") /\ UNCHANGED podVars
  BY LeaveMoves, Order DEF Commit, Forward
<1>8. PhaseFails(p) => Fails(p) /\ UNCHANGED podVars
  BY DEF PhaseFails, Fails, Goto
<1>9. PublishFails(p) => Fails(p) /\ pc[p] = "publish" /\ UNCHANGED <<emits, synced>>
  BY DEF PublishFails, Fails, Goto
<1> QED
  BY <1>1, <1>2, <1>3, <1>4, <1>5, <1>6, <1>7, <1>8, <1>9

-----------------------------------------------------------------------------
(***************************************************************************)
(* The shape of a step: the pod it is of moves as above, and the others    *)
(* stay where they are.                                                    *)
(***************************************************************************)
Moves(p) ==
  \/ /\ \/ Forward(p, "start", "clone") \/ Forward(p, "clone", "materialize")
        \/ Forward(p, "materialize", "run")
     /\ UNCHANGED podVars
  \/ /\ Forward(p, "run", "sync") /\ UNCHANGED <<stream, synced>>
     /\ \E calls \in EmitFiles : emits' = [emits EXCEPT ![p] = Effective(calls)]
  \/ /\ Forward(p, "sync", "publish") /\ UNCHANGED <<emits, stream>>
     /\ synced' = synced \cup {p}
  \/ /\ pc[p] = "publish" /\ emits[p] # <<>> /\ UNCHANGED <<pc, exit, synced>>
     /\ stream' = Emitted(p) /\ emits' = [emits EXCEPT ![p] = Tail(@)]
  \/ Forward(p, "publish", "commit") /\ emits[p] = <<>> /\ UNCHANGED podVars
  \/ Forward(p, "commit", "push") /\ UNCHANGED podVars
  \/ Attempt(p) /\ UNCHANGED podVars
  \/ /\ Fails(p) \/ Ends(p)
     /\ UNCHANGED <<emits, synced>>
     /\ \/ UNCHANGED stream
        \/ pc[p] = "publish" /\ emits[p] # <<>> /\ stream' = Emitted(p)

LEMMA StepMoves ==
  ASSUME ControlOK, NEW p \in Pods, Step(p) \/ Fault(p)
  PROVE  Moves(p)
<1>1. CASE PushStep(p)
  BY <1>1, PushStepAttempts DEF Moves
<1>2. CASE Connect(p) \/ CloneWorkBranch(p) \/ CloneBaseBranch(p) \/ Materialize(p) \/ Commit(p)
  BY <1>2, EarlyMoves DEF Moves
<1>3. CASE RunCommand(p)
  BY <1>3, EarlyMoves DEF Moves, RunCommand
<1>4. CASE SyncBack(p)
  BY <1>4, EarlyMoves DEF Moves, SyncBack
<1>5. CASE Publish(p)
  BY <1>5 DEF Moves, Publish
<1>6. CASE AllPublished(p)
  BY <1>6, EarlyMoves DEF Moves, AllPublished
<1>7. CASE PhaseFails(p)
  BY <1>7, EarlyMoves DEF Moves, podVars
<1>8. CASE PublishFails(p)
  BY <1>8, EarlyMoves DEF Moves, PublishFails
<1>9. CASE Killed(p)
  BY <1>9 DEF Moves, Killed, Ends, Goto
<1> QED
  BY <1>1, <1>2, <1>3, <1>4, <1>5, <1>6, <1>7, <1>8, <1>9 DEF Step, Fault, PushStep

\* Moves seen at one pod.
LEMMA MovesOf ==
  ASSUME ControlOK, NEW p \in Pods, Moves(p)
  PROVE  /\ \A q \in Pods \ {p} : pc'[q] = pc[q] /\ exit'[q] = exit[q] /\ emits'[q] = emits[q]
         /\ pc' \in [Pods -> Phases] /\ exit' \in [Pods -> {"running", "ok", "error", "killed"}]
         /\ emits' = [q \in Pods |-> emits'[q]]
         /\ exit'[p] = "running" <=> pc'[p] # "done"
<1>1. ASSUME NEW from, NEW to \in Phases \ {"done"}, Forward(p, from, to), from # "done"
      PROVE  /\ \A q \in Pods \ {p} : pc'[q] = pc[q] /\ exit'[q] = exit[q]
             /\ pc' \in [Pods -> Phases] /\ exit' \in [Pods -> {"running", "ok", "error", "killed"}]
             /\ exit'[p] = "running" <=> pc'[p] # "done"
  BY <1>1 DEF ControlOK, Forward
<1>2. ASSUME Attempt(p) \/ Fails(p) \/ Ends(p)
      PROVE  /\ \A q \in Pods \ {p} : pc'[q] = pc[q] /\ exit'[q] = exit[q]
             /\ pc' \in [Pods -> Phases] /\ exit' \in [Pods -> {"running", "ok", "error", "killed"}]
             /\ exit'[p] = "running" <=> pc'[p] # "done"
  <2>1. pc[p] # "done" /\ exit[p] = "running"
    BY <1>2 DEF ControlOK, Attempt, Fails, Ends, Pushing
  <2>2. \/ exit' = exit /\ \E phase \in Phases \ {"done"} : pc' = [pc EXCEPT ![p] = phase]
        \/ (\E e \in {"ok", "error", "killed"} : exit' = [exit EXCEPT ![p] = e]) /\ pc' = [pc EXCEPT ![p] = "done"]
    BY <1>2 DEF Attempt, Fails, Ends, Pushing, Phases
  <2> QED
    BY <2>1, <2>2 DEF ControlOK, Phases
<1>3. ASSUME UNCHANGED <<pc, exit>>
      PROVE  /\ \A q \in Pods \ {p} : pc'[q] = pc[q] /\ exit'[q] = exit[q]
             /\ pc' \in [Pods -> Phases] /\ exit' \in [Pods -> {"running", "ok", "error", "killed"}]
             /\ exit'[p] = "running" <=> pc'[p] # "done"
  BY <1>3 DEF ControlOK
<1>4. UNCHANGED emits \/ \E x : emits' = [emits EXCEPT ![p] = x]
  BY DEF Moves, podVars
<1>5. /\ \A q \in Pods \ {p} : emits'[q] = emits[q]
      /\ emits' = [q \in Pods |-> emits'[q]]
  BY <1>4 DEF ControlOK
<1>6. {"start", "clone", "materialize", "run", "sync", "publish", "commit", "push"} \subseteq Phases \ {"done"}
  BY DEF Phases
<1> QED
  BY <1>1, <1>2, <1>3, <1>5, <1>6 DEF Moves

LEMMA ControlNext == ControlOK /\ [Next]_vars => ControlOK'
<1> SUFFICES ASSUME ControlOK, [Next]_vars PROVE ControlOK'
  OBVIOUS
<1>1. CASE UNCHANGED vars
  BY <1>1 DEF vars, podVars, ControlOK
<1>2. ASSUME NEW p \in Pods, Step(p) \/ Fault(p) PROVE ControlOK'
  <2>1. Moves(p)
    BY <1>2, StepMoves
  <2> QED
    BY <2>1, MovesOf DEF ControlOK
<1> QED
  BY <1>1, <1>2 DEF Next, AllExited

LEMMA EmptiedNext == ControlOK /\ Emptied /\ [Next]_vars => Emptied'
<1> SUFFICES ASSUME ControlOK, Emptied, [Next]_vars PROVE Emptied'
  OBVIOUS
<1>1. CASE UNCHANGED vars
  BY <1>1 DEF vars, podVars, Emptied
<1>2. ASSUME NEW p \in Pods, Step(p) \/ Fault(p) PROVE Emptied'
  <2>1. Moves(p)
    BY <1>2, StepMoves
  <2>2. pc'[p] \in {"commit", "push", "hook", "send", "fix"} \/ exit'[p] = "ok" => emits'[p] = <<>>
    <3>1. ASSUME NEW from, NEW to, Forward(p, from, to)
          PROVE  pc'[p] = to /\ exit'[p] = exit[p] /\ pc[p] = from
      BY <3>1 DEF Forward, ControlOK
    <3>2. CASE Attempt(p) /\ UNCHANGED podVars
      BY <3>2 DEF Attempt, Pushing, Emptied, podVars
    <3>3. CASE Fails(p) \/ Ends(p)
      BY <3>3 DEF Fails, Ends, ControlOK
    <3>4. pc[p] # "done" => exit[p] = "running"
      BY DEF ControlOK
    <3> QED
      BY <2>1, <3>1, <3>2, <3>3, <3>4 DEF Moves, Emptied, podVars
  <2> QED
    BY <2>1, <2>2, MovesOf DEF Emptied
<1> QED
  BY <1>1, <1>2 DEF Next, AllExited

-----------------------------------------------------------------------------
(* What is heard.                                                          *)

StreamOK == Len(stream) \in Nat /\ stream = [i \in 1..Len(stream) |-> stream[i]]

LEMMA EmittedIs ==
  ASSUME StreamOK, NEW p \in Pods
  PROVE  /\ Len(Emitted(p)) = Len(stream) + 1
         /\ DOMAIN Emitted(p) = 1..(Len(stream) + 1)
         /\ \A i \in 1..Len(stream) : Emitted(p)[i] = stream[i]
         /\ Emitted(p)[Len(stream) + 1].pod = p
<1> DEFINE entry == [pod |-> p, event |-> Head(emits[p])]
           S == {stream[i] : i \in 1..Len(stream)} \cup {entry}
<1>1. stream \in [1..Len(stream) -> S]
  BY DEF StreamOK
<1>2. stream \in Seq(S) /\ entry \in S
  BY <1>1, SeqDef DEF StreamOK
<1> HIDE DEF S, entry
<1>3. /\ Append(stream, entry) \in Seq(S)
      /\ Len(Append(stream, entry)) = Len(stream) + 1
      /\ \A i \in 1..Len(stream) : Append(stream, entry)[i] = stream[i]
      /\ Append(stream, entry)[Len(stream) + 1] = entry
  BY <1>2, AppendProperties
<1>4. DOMAIN Append(stream, entry) = 1..(Len(stream) + 1)
  BY <1>3, LenProperties
<1>5. Emitted(p) = Append(stream, entry) /\ entry.pod = p
  BY DEF Emitted, entry
<1> QED
  BY <1>3, <1>4, <1>5

HeardInv == ControlOK /\ Emptied /\ Stored /\ StreamOK /\ SyncedBeforeHeard

LEMMA HeardInit == Init => HeardInv
<1> SUFFICES ASSUME Init PROVE HeardInv
  OBVIOUS
<1>1. /\ Len(stream) = 0 /\ DOMAIN stream = {} /\ 1..Len(stream) = {}
  BY DEF Init
<1>2. StreamOK /\ SyncedBeforeHeard
  BY <1>1 DEF Init, StreamOK, SyncedBeforeHeard
<1>3. ControlOK /\ Emptied /\ Stored
  BY DEF Init, ControlOK, Emptied, Stored, Phases
<1> QED
  BY <1>2, <1>3 DEF HeardInv

LEMMA HeardNext == HeardInv /\ [Next]_vars => HeardInv'
<1> SUFFICES ASSUME HeardInv, [Next]_vars PROVE HeardInv'
  OBVIOUS
<1>1. ControlOK' /\ Emptied'
  BY ControlNext, EmptiedNext DEF HeardInv
<1>2. CASE UNCHANGED vars
  BY <1>1, <1>2 DEF vars, podVars, HeardInv, Stored, StreamOK, SyncedBeforeHeard
<1>3. ASSUME NEW p \in Pods, Step(p) \/ Fault(p) PROVE Stored' /\ StreamOK' /\ SyncedBeforeHeard'
  <2>1. Moves(p)
    BY <1>3, StepMoves DEF HeardInv
  <2>2. synced \subseteq synced'
    BY <2>1 DEF Moves, podVars
  <2>3. Stored'
    <3>1. pc'[p] = "publish" => p \in synced'
      <4>1. ASSUME NEW from, NEW to, Forward(p, from, to)
            PROVE  pc'[p] = to /\ pc[p] = from
        BY <4>1 DEF Forward, HeardInv, ControlOK
      <4>2. CASE Attempt(p) \/ Fails(p) \/ Ends(p)
        BY <4>2 DEF Attempt, Fails, Ends, Pushing, HeardInv, ControlOK
      <4> QED
        BY <2>1, <2>2, <4>1, <4>2 DEF Moves, HeardInv, Stored
    <3> QED
      BY <2>1, <2>2, <3>1, MovesOf DEF HeardInv, Stored
  <2>4. stream' = stream \/ (p \in synced /\ stream' = Emitted(p))
    BY <2>1 DEF Moves, podVars, HeardInv, Stored
  <2>5. CASE stream' = stream
    BY <2>2, <2>3, <2>5 DEF HeardInv, StreamOK, SyncedBeforeHeard
  <2>6. CASE p \in synced /\ stream' = Emitted(p)
    <3>1. /\ Len(stream') = Len(stream) + 1
          /\ DOMAIN stream' = 1..(Len(stream) + 1)
          /\ \A i \in 1..Len(stream) : stream'[i] = stream[i]
          /\ stream'[Len(stream) + 1].pod = p
      BY <2>6, EmittedIs DEF HeardInv
    <3>2. Len(stream) \in Nat /\ DOMAIN stream = 1..Len(stream)
      BY DEF HeardInv, StreamOK
    <3>3. stream' = [i \in 1..Len(stream') |-> stream'[i]]
      <4>1. stream' = [i \in DOMAIN stream' |-> stream'[i]]
        BY <2>6 DEF Emitted
      <4> QED
        BY <3>1, <4>1
    <3>4. StreamOK'
      BY <3>1, <3>2, <3>3 DEF StreamOK
    <3>5. \A i \in 1..(Len(stream) + 1) : i \in 1..Len(stream) \/ i = Len(stream) + 1
      BY <3>2
    <3>6. SyncedBeforeHeard'
      BY <2>2, <2>6, <3>1, <3>2, <3>5 DEF HeardInv, SyncedBeforeHeard
    <3> QED
      BY <2>3, <3>4, <3>6
  <2> QED
    BY <2>4, <2>5, <2>6
<1> QED
  BY <1>1, <1>2, <1>3 DEF HeardInv, Next, AllExited

LEMMA HeardInvariant == Spec => []HeardInv
BY HeardInit, HeardNext, PTL DEF Spec

(***************************************************************************)
(* Who reads an event of a pod finds the pod's workspace in the store      *)
(* (main.rs:171-225), whatever fails in any of the pods.                   *)
(***************************************************************************)
THEOREM SyncedHolds == Spec => []SyncedBeforeHeard
BY HeardInvariant, PTL DEF HeardInv

-----------------------------------------------------------------------------
(* What the controller may count on.                                       *)

LEMMA JobSimulated ==
  ASSUME HeardInv, NEW p \in Pods, Moves(p)
  PROVE  [Job!Next]_Job!vars
<1> USE DEF HeardInv
<1>1. /\ \A q \in Pods \ {p} : Status(q)' = Status(q)
      /\ pc[p] # "done" => exit[p] = "running"
      /\ ControlOK'
  BY MovesOf DEF ControlOK, Status
<1>2. ASSUME NEW from, NEW to, Forward(p, from, to), from # "done", to # "done"
      PROVE  /\ pc[p] = from /\ pc'[p] = to
             /\ exit[p] = "running" /\ exit'[p] = "running"
  BY <1>1, <1>2 DEF Forward, ControlOK
<1>3. ASSUME Status(p)' = Status(p), UNCHANGED <<emits, stream>> PROVE UNCHANGED Job!vars
  BY <1>1, <1>3 DEF Job!vars
<1>4. CASE UNCHANGED podVars /\ \/ Forward(p, "start", "clone") \/ Forward(p, "clone", "materialize")
                                \/ Forward(p, "materialize", "run")
  <2>1. Status(p)' = Status(p)
    BY <1>2, <1>4 DEF Status
  <2> QED
    BY <1>3, <1>4, <2>1 DEF podVars
<1>5. CASE /\ Forward(p, "run", "sync") /\ UNCHANGED <<stream, synced>>
           /\ \E calls \in EmitFiles : emits' = [emits EXCEPT ![p] = Effective(calls)]
  <2>1. Status(p) = "running" /\ Status(p)' = "publishing"
    BY <1>2, <1>5 DEF Status
  <2>2. Job!CommandSucceeds(p)
    BY <1>1, <1>5, <2>1 DEF Job!CommandSucceeds
  <2> QED
    BY <2>2 DEF Job!Next, Job!PodStep
<1>6. CASE UNCHANGED <<emits, stream>> /\
             (Forward(p, "sync", "publish") \/ Forward(p, "publish", "commit") \/ Forward(p, "commit", "push"))
  <2>1. Status(p)' = Status(p)
    BY <1>2, <1>6 DEF Status
  <2> QED
    BY <1>3, <1>6, <2>1
<1>7. CASE /\ pc[p] = "publish" /\ emits[p] # <<>> /\ UNCHANGED <<pc, exit, synced>>
           /\ stream' = Emitted(p) /\ emits' = [emits EXCEPT ![p] = Tail(@)]
  <2>1. Status(p) = "publishing" /\ Status(p)' = "publishing"
    BY <1>1, <1>7 DEF Status
  <2>2. Job!Publishes(p)
    BY <1>1, <1>7, <2>1 DEF Job!Publishes, Job!Out, Emitted
  <2> QED
    BY <2>2 DEF Job!Next, Job!PodStep
<1>8. CASE Attempt(p) /\ UNCHANGED podVars
  <2>1. exit[p] = "running" /\ Status(p) = "publishing" /\ emits[p] = <<>>
    BY <1>1, <1>8 DEF Attempt, Pushing, Status, Emptied
  <2>2. CASE exit' = exit
    <3>1. Status(p)' = "publishing"
      BY <1>8, <2>1, <2>2 DEF Attempt, Pushing, Status, ControlOK
    <3> QED
      BY <1>3, <1>8, <2>1, <3>1 DEF podVars
  <2>3. CASE exit' = [exit EXCEPT ![p] = "ok"]
    <3>1. Status(p)' = "succeeded"
      BY <2>3 DEF Status, ControlOK
    <3>2. Job!Succeeds(p)
      BY <1>1, <1>8, <2>1, <3>1 DEF Job!Succeeds, podVars
    <3> QED
      BY <3>2 DEF Job!Next, Job!PodStep
  <2> QED
    BY <1>8, <2>2, <2>3 DEF Attempt
<1>9. CASE /\ Fails(p) \/ Ends(p)
           /\ UNCHANGED <<emits, synced>>
           /\ \/ UNCHANGED stream
              \/ pc[p] = "publish" /\ emits[p] # <<>> /\ stream' = Emitted(p)
  <2>1. Status(p) \in {"running", "publishing"} /\ Status(p)' = "failed"
    BY <1>1, <1>9 DEF Fails, Ends, Status, ControlOK
  <2>2. Job!Fails(p)
    BY <1>1, <1>9, <2>1 DEF Job!Fails, Job!Out, Emitted
  <2> QED
    BY <2>2 DEF Job!Next, Job!PodStep
<1> QED
  BY <1>4, <1>5, <1>6, <1>7, <1>8, <1>9 DEF Moves, podVars

(***************************************************************************)
(* A pod is what module Reconciler takes it for: it says nothing before    *)
(* its command has succeeded, publishes what that emitted in order, and    *)
(* ends well only when all of it is out (main.rs:84-284).                  *)
(***************************************************************************)
THEOREM JobContractHolds == Spec => JobContract
<1>1. Init => Job!Init
  <2> SUFFICES ASSUME Init PROVE Job!Init
    OBVIOUS
  <2>1. \A p \in Pods : Status(p) = "running"
    BY DEF Init, Status
  <2> QED
    BY <2>1 DEF Init, Job!Init
<1>2. HeardInv /\ [Next]_vars => [Job!Next]_Job!vars
  <2> SUFFICES ASSUME HeardInv, [Next]_vars PROVE [Job!Next]_Job!vars
    OBVIOUS
  <2>1. ASSUME NEW p \in Pods, Step(p) \/ Fault(p) PROVE [Job!Next]_Job!vars
    BY <2>1, StepMoves, JobSimulated DEF HeardInv
  <2>2. CASE UNCHANGED vars
    BY <2>2 DEF vars, podVars, Job!vars, Status
  <2> QED
    BY <2>1, <2>2 DEF Next, AllExited
<1> QED
  BY <1>1, <1>2, HeardInvariant, PTL DEF Spec, JobContract, Job!Spec

-----------------------------------------------------------------------------
(***************************************************************************)
(* Where a pod's commit is.  Until a pod comes to its push nothing holds   *)
(* its commit: no branch of the remote and no clone, of its own or of      *)
(* another pod.  Whatever a step puts somewhere, another place held it, or *)
(* it is a clone with its pod's own commit.                                *)
(***************************************************************************)
RepoOK ==
  /\ remote \in [Branches -> Branch]
  /\ base \in [Pods -> Commits]
  /\ committed \in [Pods -> BOOLEAN]
  /\ tracking \in [Pods -> Branch]
  /\ offered \in [Pods -> Commits]
  /\ rebasing \in [Pods -> BOOLEAN]
  /\ \A p \in Pods : rebasing[p] => tracking[p] # Absent

LEMMA BranchOfPod == \A p \in Pods : WorkBranch(p) \in Branches
BY DEF WorkBranch, Branches

LEMMA LocalIs ==
  ASSUME RepoOK, NEW p \in Pods
  PROVE  Local(p) \in Commits
BY AppendProperties DEF RepoOK, Local, Commits

FromRemote(p, s) == remote[WorkBranch(p)] # Absent /\ s = remote[WorkBranch(p)]

\* What a step of a pod puts where.
Puts(p) ==
  /\ remote' = remote \/ remote' = [remote EXCEPT ![WorkBranch(p)] = offered[p]]
  /\ \/ base' = base
     \/ \E s \in Commits : /\ base' = [base EXCEPT ![p] = s]
                           /\ FromRemote(p, s) \/ s = tracking[p]
  /\ \/ tracking' = tracking
     \/ \E s \in Commits : /\ tracking' = [tracking EXCEPT ![p] = s]
                           /\ FromRemote(p, s) \/ s = offered[p]
  /\ offered' = offered \/ offered' = [offered EXCEPT ![p] = Local(p)]
  /\ \/ committed' = committed
     \/ committed' = [committed EXCEPT ![p] = TRUE] /\ pc'[p] = "push"
     \/ \E b \in BOOLEAN : committed' = [committed EXCEPT ![p] = b] /\ (b => committed[p])
  /\ \/ rebasing' = rebasing
     \/ rebasing' = [rebasing EXCEPT ![p] = FALSE]
     \/ rebasing' = [rebasing EXCEPT ![p] = TRUE] /\ tracking' # tracking
     \/ rebasing' = [rebasing EXCEPT ![p] = TRUE] /\ tracking[p] # Absent

LEMMA StepPuts ==
  ASSUME RepoOK, ControlOK, NEW p \in Pods, Step(p) \/ Fault(p)
  PROVE  Puts(p)
<1> DEFINE kept == UNCHANGED <<base, committed, tracking, rebasing>>
<1>1. CASE \/ Connect(p) \/ CloneBaseBranch(p) \/ Materialize(p) \/ RunCommand(p) \/ SyncBack(p)
           \/ Publish(p) \/ AllPublished(p) \/ PushNothing(p) \/ HookPasses(p)
           \/ HookHasNoUpstream(p) \/ PushRejected(p) \/ PhaseFails(p) \/ PublishFails(p)
           \/ FixesNothing(p) \/ FixFails(p)
  <2>1. UNCHANGED <<remote, offered>> /\ kept
    BY <1>1 DEF Connect, CloneBaseBranch, Materialize, RunCommand, SyncBack, Publish,
                AllPublished, PushNothing, HookPasses, HookHasNoUpstream, PushRejected,
                PhaseFails, PublishFails, FixesNothing, FixFails, Retry, cloneVars, pushVars
  <2> QED
    BY <2>1 DEF Puts
<1>2. ASSUME remote[WorkBranch(p)] # Absent
      PROVE  remote[WorkBranch(p)] \in Commits /\ FromRemote(p, remote[WorkBranch(p)])
  BY <1>2, BranchOfPod DEF RepoOK, Branch, FromRemote
<1>3. CASE CloneWorkBranch(p)
  BY <1>2, <1>3 DEF CloneWorkBranch, Puts, pushVars
<1>4. CASE Commit(p)
  <2>1. pc'[p] = "push"
    BY <1>4, EarlyMoves DEF Forward, ControlOK
  <2> QED
    BY <1>4, <2>1 DEF Commit, Puts, pushVars
<1>5. CASE BeginPush(p)
  BY <1>5 DEF BeginPush, Puts, cloneVars
<1>6. CASE HookRebases(p)
  <2>1. StillOwn(p, remote[WorkBranch(p)]) \in BOOLEAN
        /\ (StillOwn(p, remote[WorkBranch(p)]) => committed[p])
    BY DEF StillOwn, RepoOK
  <2> QED
    BY <1>2, <1>6, <2>1 DEF HookRebases, HookRuns, Puts, pushVars
<1>7. CASE HookStopsAtConflict(p)
  BY <1>2, <1>7 DEF HookStopsAtConflict, HookRuns, Puts, pushVars
<1>8. CASE SendPack(p) \/ AckLost(p)
  <2>1. offered[p] \in Commits
    BY DEF RepoOK
  <2> QED
    BY <1>8, <2>1 DEF SendPack, AckLost, Accepted, Puts, pushVars, cloneVars
<1>9. CASE Fix(p)
  <2>1. rebasing[p] => tracking[p] \in Commits
    BY DEF RepoOK, Branch
  <2> QED
    BY <1>9, <2>1 DEF Fix, Retry, Puts, pushVars
<1>10. CASE Killed(p)
  BY <1>10 DEF Killed, Accepted, Puts, pushVars, cloneVars
<1> QED
  BY <1>1, <1>3, <1>4, <1>5, <1>6, <1>7, <1>8, <1>9, <1>10 DEF Step, Fault

LEMMA PutsRepoOK ==
  ASSUME RepoOK, NEW p \in Pods, Puts(p)
  PROVE  RepoOK'
<1>1. remote' \in [Branches -> Branch]
  BY BranchOfPod DEF RepoOK, Puts, Branch
<1>2. base' \in [Pods -> Commits]
  BY DEF RepoOK, Puts
<1>3. committed' \in [Pods -> BOOLEAN] /\ rebasing' \in [Pods -> BOOLEAN]
  BY DEF RepoOK, Puts
<1>4. tracking' \in [Pods -> Branch]
  BY DEF RepoOK, Puts, Branch
<1>5. offered' \in [Pods -> Commits]
  BY LocalIs DEF RepoOK, Puts
<1>6. \A s \in Commits : s # Absent
  BY AgentAssumption DEF Commits
<1>7. \A q \in Pods : tracking[q] # Absent => tracking'[q] # Absent
  BY <1>6 DEF RepoOK, Puts
<1>8. \A q \in Pods : rebasing'[q] => tracking'[q] # Absent
  <2> SUFFICES ASSUME NEW q \in Pods, rebasing'[q], tracking'[q] = Absent PROVE FALSE
    OBVIOUS
  <2>1. tracking[q] = Absent
    BY <1>7
  <2>2. ~rebasing[q]
    BY <2>1 DEF RepoOK
  <2>3. q = p /\ tracking' # tracking
    BY <2>1, <2>2 DEF Puts, RepoOK
  <2>4. PICK s \in Commits : tracking' = [tracking EXCEPT ![p] = s]
    BY <2>3 DEF Puts
  <2> QED
    BY <1>6, <2>3, <2>4 DEF RepoOK
<1> QED
  BY <1>1, <1>2, <1>3, <1>4, <1>5, <1>8 DEF RepoOK

Lacks(s, p) == s = Absent \/ p \notin Range(s)

Unpushed ==
  \A p \in Pods : Early(p) =>
    /\ ~committed[p]
    /\ \A b \in Branches : Lacks(remote[b], p)
    /\ \A q \in Pods : /\ Lacks(base[q], p)
                       /\ Lacks(tracking[q], p)
                       /\ Lacks(offered[q], p)

LEMMA RangeAppend ==
  ASSUME NEW s \in Seq(Pods), NEW q \in Pods, NEW p \in Range(Append(s, q))
  PROVE  p \in Range(s) \/ p = q
<1>1. PICK i \in DOMAIN Append(s, q) : p = Append(s, q)[i]
  BY DEF Range
<1>2. /\ DOMAIN Append(s, q) = 1..(Len(s) + 1) /\ DOMAIN s = 1..Len(s) /\ Len(s) \in Nat
      /\ \A k \in 1..Len(s) : Append(s, q)[k] = s[k]
      /\ Append(s, q)[Len(s) + 1] = q
  BY AppendProperties, LenProperties
<1>3. i \in 1..Len(s) \/ i = Len(s) + 1
  BY <1>1, <1>2
<1> QED
  BY <1>1, <1>2, <1>3 DEF Range

LEMMA EarlyIsLeft ==
  ASSUME ControlOK, NEW p \in Pods, NEW q \in Pods, Moves(q), Early(p)'
  PROVE  Early(p)
<1>1. CASE p # q
  BY <1>1, MovesOf DEF Early
<1>2. CASE p = q
  <2>1. ASSUME NEW from, NEW to, Forward(p, from, to) PROVE pc[p] = from
    BY <2>1 DEF Forward
  <2>2. ~Attempt(p)
    <3> SUFFICES ASSUME Attempt(p) PROVE FALSE
      OBVIOUS
    <3>1. exit[p] = "running"
      BY DEF Attempt, Pushing, ControlOK
    <3> QED
      BY <3>1 DEF Attempt, Pushing, ControlOK, Early
  <2>3. ~Ends(p)
    BY <1>2 DEF Ends, ControlOK, Early
  <2> QED
    BY <1>2, <2>1, <2>2, <2>3 DEF Moves, Fails, Early
<1> QED
  BY <1>1, <1>2

CleanInv == ControlOK /\ RepoOK /\ Unpushed

LEMMA UnpushedKept ==
  ASSUME CleanInv, NEW q \in Pods, Moves(q), Puts(q)
  PROVE  Unpushed'
<1> SUFFICES ASSUME NEW p \in Pods, Early(p)'
             PROVE  /\ ~committed'[p]
                    /\ \A b \in Branches : Lacks(remote'[b], p)
                    /\ \A r \in Pods : /\ Lacks(base'[r], p)
                                       /\ Lacks(tracking'[r], p)
                                       /\ Lacks(offered'[r], p)
  BY DEF Unpushed, Lacks
<1>1. /\ Early(p) /\ ~committed[p]
      /\ \A b \in Branches : Lacks(remote[b], p)
      /\ \A r \in Pods : Lacks(base[r], p) /\ Lacks(tracking[r], p) /\ Lacks(offered[r], p)
  BY EarlyIsLeft DEF CleanInv, Unpushed
<1>2. RepoOK /\ ControlOK /\ ControlOK'
  BY MovesOf DEF CleanInv, ControlOK
<1>3. ~committed'[p]
  <2>1. ~(Early(p)' /\ pc'[p] = "push")
    BY <1>2 DEF Early, ControlOK
  <2> QED
    BY <1>1, <1>2, <2>1 DEF Puts, RepoOK
<1>4. Lacks(Local(q), p)
  <2>1. CASE committed[q]
    <3>1. q # p /\ base[q] \in Seq(Pods) /\ base[q] # Absent
      BY <1>1, <1>2, <2>1, AgentAssumption DEF RepoOK, Commits
    <3>2. p \notin Range(Append(base[q], q))
      BY <1>1, <3>1, RangeAppend DEF Lacks
    <3> QED
      BY <2>1, <3>2 DEF Local, Lacks
  <2>2. CASE ~committed[q]
    BY <1>1, <2>2 DEF Local
  <2> QED
    BY <2>1, <2>2
<1>5. \A b \in Branches : Lacks(remote'[b], p)
  BY <1>1, <1>2 DEF Puts, RepoOK
<1>6. \A s : FromRemote(q, s) => Lacks(s, p)
  BY <1>1, BranchOfPod DEF FromRemote
<1>7. \A r \in Pods : Lacks(base'[r], p)
  BY <1>1, <1>2, <1>6 DEF Puts, RepoOK
<1>8. \A r \in Pods : Lacks(tracking'[r], p)
  BY <1>1, <1>2, <1>6 DEF Puts, RepoOK
<1>9. \A r \in Pods : Lacks(offered'[r], p)
  BY <1>1, <1>2, <1>4 DEF Puts, RepoOK
<1> QED
  BY <1>3, <1>5, <1>7, <1>8, <1>9

LEMMA CleanInit == Init => CleanInv
<1> SUFFICES ASSUME Init PROVE CleanInv
  OBVIOUS
<1>1. ControlOK
  BY HeardInit DEF HeardInv
<1>2. <<>> \in Commits
  BY EmptySeq DEF Commits
<1>3. RepoOK
  BY <1>2 DEF Init, RepoOK, Branch
<1>4. \A p : Lacks(<<>>, p) /\ Lacks(Absent, p)
  BY DEF Lacks, Range
<1>5. Unpushed
  BY <1>4 DEF Init, Unpushed
<1> QED
  BY <1>1, <1>3, <1>5 DEF CleanInv

LEMMA CleanNext == CleanInv /\ [Next]_vars => CleanInv'
<1> SUFFICES ASSUME CleanInv, [Next]_vars PROVE CleanInv'
  OBVIOUS
<1>1. ControlOK'
  BY ControlNext DEF CleanInv
<1>2. CASE UNCHANGED vars
  <2>1. RepoOK'
    BY <1>2 DEF vars, cloneVars, pushVars, CleanInv, RepoOK
  <2>2. Unpushed'
    BY <1>2 DEF vars, cloneVars, pushVars, CleanInv, Unpushed, Early, Lacks
  <2> QED
    BY <1>1, <2>1, <2>2 DEF CleanInv
<1>3. ASSUME NEW p \in Pods, Step(p) \/ Fault(p) PROVE CleanInv'
  <2>1. Moves(p) /\ Puts(p)
    BY <1>3, StepMoves, StepPuts DEF CleanInv
  <2> QED
    BY <1>1, <2>1, PutsRepoOK, UnpushedKept DEF CleanInv
<1> QED
  BY <1>2, <1>3 DEF Next, AllExited

LEMMA CleanInvariant == Spec => []CleanInv
BY CleanInit, CleanNext, PTL DEF Spec

(***************************************************************************)
(* A pod that the controller counts as failed has left no commit on any    *)
(* branch, though others push there at the same time (main.rs:86-284,      *)
(* git.rs:129-166).                                                        *)
(***************************************************************************)
THEOREM FailureIsCleanHolds == Spec => []FailureIsClean
<1>1. CleanInv => FailureIsClean
  BY BranchOfPod DEF CleanInv, Unpushed, Early, FailureIsClean, OnRemote, Lacks
<1> QED
  BY <1>1, CleanInvariant, PTL

-----------------------------------------------------------------------------
(* A branch only grows.                                                   *)

LEMMA OnlyAcceptedPushes ==
  ASSUME RepoOK, NEW p \in Pods, Step(p) \/ Fault(p)
  PROVE  remote' = remote \/ Accepted(p)
<1>1. CASE \/ Connect(p) \/ CloneWorkBranch(p) \/ CloneBaseBranch(p) \/ Materialize(p)
           \/ RunCommand(p) \/ SyncBack(p) \/ Publish(p) \/ AllPublished(p) \/ Commit(p)
           \/ PushNothing(p) \/ BeginPush(p) \/ HookPasses(p) \/ HookHasNoUpstream(p)
           \/ HookRebases(p) \/ HookStopsAtConflict(p) \/ PushRejected(p) \/ Fix(p)
           \/ FixesNothing(p) \/ FixFails(p) \/ PhaseFails(p) \/ PublishFails(p)
  BY <1>1 DEF Connect, CloneWorkBranch, CloneBaseBranch, Materialize, RunCommand, SyncBack,
     Publish, AllPublished, Commit, PushNothing, BeginPush, HookPasses, HookHasNoUpstream,
     HookRebases, HookStopsAtConflict, PushRejected, Fix, FixesNothing, FixFails, Retry,
     PhaseFails, PublishFails
<1>2. CASE SendPack(p) \/ AckLost(p) \/ Killed(p)
  BY <1>2 DEF SendPack, AckLost, Killed
<1> QED
  BY <1>1, <1>2 DEF Step, Fault

LEMMA PrefixIs ==
  ASSUME NEW s \in Commits, NEW t \in Commits
  PROVE  IsPrefix(s, t) <=> Len(s) <= Len(t) /\ \A i \in 1..Len(s) : s[i] = t[i]
<1>1. /\ Len(s) \in Nat /\ Len(t) \in Nat
      /\ DOMAIN s = 1..Len(s) /\ DOMAIN t = 1..Len(t)
  BY LenProperties DEF Commits
<1>2. ASSUME Len(s) <= Len(t)
      PROVE  SubSeq(s, 1, Len(s)) = SubSeq(t, 1, Len(s)) <=> \A i \in 1..Len(s) : s[i] = t[i]
  <2>1. Len(s) \in 0..Len(s) /\ Len(s) \in 0..Len(t)
    BY <1>1, <1>2
  <2>2. /\ SubSeq(s, 1, Len(s)) = [i \in 1..Len(s) |-> s[i]]
        /\ SubSeq(t, 1, Len(s)) = [i \in 1..Len(s) |-> t[i]]
    BY <2>1, SubSeqRestrict DEF Restrict, Commits
  <2> QED
    BY <2>2
<1> QED
  BY <1>1, <1>2 DEF IsPrefix

\* A longer branch holds what a shorter one of it holds.
LEMMA Longer ==
  ASSUME NEW s \in Commits, NEW t \in Commits, IsPrefix(s, t)
  PROVE  /\ Range(s) \subseteq Range(t)
         /\ s = t \/ Len(s) < Len(t)
         /\ IsPrefix(t, s) => s = t
<1>1. /\ Len(s) \in Nat /\ Len(t) \in Nat /\ Len(s) <= Len(t)
      /\ DOMAIN s = 1..Len(s) /\ DOMAIN t = 1..Len(t)
      /\ \A i \in 1..Len(s) : s[i] = t[i]
  BY LenProperties, PrefixIs DEF Commits
<1>2. Range(s) \subseteq Range(t)
  <2>1. ASSUME NEW i \in 1..Len(s) PROVE i \in 1..Len(t)
    BY <1>1
  <2> QED
    BY <1>1, <2>1 DEF Range
<1>3. Len(s) = Len(t) => s = t
  BY <1>1, SeqEqual DEF Commits
<1>4. IsPrefix(t, s) => Len(t) <= Len(s)
  BY PrefixIs
<1>5. Len(s) \in Nat /\ Len(t) \in Nat /\ Len(s) <= Len(t)
  BY <1>1
<1>6. Len(s) = Len(t) \/ Len(s) < Len(t)
  BY <1>5
<1>7. IsPrefix(t, s) => Len(s) = Len(t)
  BY <1>4, <1>5
<1> QED
  BY <1>2, <1>3, <1>6, <1>7

LEMMA PrefixTransitive ==
  ASSUME NEW s \in Commits, NEW t \in Commits, NEW u \in Commits,
         IsPrefix(s, t), IsPrefix(t, u)
  PROVE  IsPrefix(s, u)
<1>1. Len(s) \in Nat /\ Len(t) \in Nat /\ Len(u) \in Nat /\ Len(s) <= Len(t) /\ Len(t) <= Len(u)
  BY LenProperties, PrefixIs DEF Commits
<1>2. ASSUME NEW i \in 1..Len(s) PROVE s[i] = u[i]
  <2>1. i \in 1..Len(t)
    BY <1>1
  <2>2. s[i] = t[i] /\ t[i] = u[i]
    BY <2>1, PrefixIs
  <2> QED
    BY <2>2
<1>3. Len(s) <= Len(u)
  BY <1>1
<1>4. IsPrefix(s, u) <=> Len(s) <= Len(u) /\ \A i \in 1..Len(s) : s[i] = u[i]
  BY PrefixIs
<1> QED
  BY <1>2, <1>3, <1>4

LEMMA Appended ==
  ASSUME NEW s \in Commits, NEW p \in Pods
  PROVE  /\ Append(s, p) \in Commits
         /\ IsPrefix(s, Append(s, p)) /\ IsPrefix(s, s)
         /\ p \in Range(Append(s, p))
<1>1. /\ Len(s) \in Nat /\ Append(s, p) \in Seq(Pods)
      /\ Len(Append(s, p)) = Len(s) + 1
      /\ \A i \in 1..Len(s) : Append(s, p)[i] = s[i]
      /\ Append(s, p)[Len(s) + 1] = p
  BY AppendProperties, LenProperties DEF Commits
<1>2. DOMAIN Append(s, p) = 1..(Len(s) + 1)
  BY <1>1, LenProperties
<1>3. IsPrefix(s, Append(s, p)) /\ IsPrefix(s, s)
  <2>1. Len(s) <= Len(Append(s, p)) /\ Len(s) <= Len(s)
    BY <1>1
  <2>2. Append(s, p) \in Commits
    BY <1>1 DEF Commits
  <2> QED
    BY <1>1, <2>1, <2>2, PrefixIs
<1>4. Len(s) + 1 \in DOMAIN Append(s, p)
  BY <1>1, <1>2
<1> QED
  BY <1>1, <1>3, <1>4 DEF Range, Commits

\* What the remote holds only grows: it takes no offer that is not built on it.
LEMMA StepGrows ==
  ASSUME RepoOK, NEW p \in Pods, Step(p) \/ Fault(p), NEW b \in Branches, remote[b] # Absent
  PROVE  remote'[b] # Absent /\ IsPrefix(remote[b], remote'[b])
<1>1. remote[b] \in Commits
  BY DEF RepoOK, Branch
<1>2. IsPrefix(remote[b], remote[b])
  BY <1>1, PrefixIs, LenProperties DEF Commits
<1>3. CASE Accepted(p) /\ b = WorkBranch(p)
  <2>1. remote'[b] = offered[p] /\ offered[p] # Absent
    BY <1>1, <1>3, AgentAssumption DEF Accepted, RepoOK, Commits
  <2> QED
    BY <1>3, <2>1 DEF Accepted, Accepts
<1>4. CASE Accepted(p) /\ b # WorkBranch(p)
  BY <1>2, <1>4 DEF Accepted, RepoOK
<1> QED
  BY <1>2, <1>3, <1>4, OnlyAcceptedPushes

-----------------------------------------------------------------------------
(***************************************************************************)
(* What the attempts of a pod have cost.  Whatever rivals push after the   *)
(* work branch was cloned, each of their commits pays for two attempts.    *)
(***************************************************************************)
Work(p) == remote[WorkBranch(p)]

CountOK ==
  /\ advertised \in [Pods -> Branch]
  /\ attempt \in [Pods -> Nat]
  /\ cloned \in [Pods -> Nat]

\* What a step of a pod counts.
Counts(p) ==
  /\ \/ advertised' = advertised
     \/ advertised' = [advertised EXCEPT ![p] = Work(p)]
  /\ \/ attempt' = attempt
     \/ attempt' = [attempt EXCEPT ![p] = @ + 1]
  /\ \/ cloned' = cloned
     \/ Work(p) # Absent /\ cloned' = [cloned EXCEPT ![p] = Len(Work(p))]

LEMMA StepCounts ==
  ASSUME NEW p \in Pods, Step(p) \/ Fault(p)
  PROVE  Counts(p)
<1>1. CASE \/ Connect(p) \/ CloneBaseBranch(p) \/ Materialize(p) \/ RunCommand(p) \/ SyncBack(p)
           \/ Publish(p) \/ AllPublished(p) \/ Commit(p) \/ PushNothing(p) \/ HookPasses(p)
           \/ HookHasNoUpstream(p) \/ HookRebases(p) \/ HookStopsAtConflict(p) \/ SendPack(p)
           \/ PushRejected(p) \/ AckLost(p) \/ PhaseFails(p) \/ PublishFails(p) \/ FixFails(p)
           \/ Killed(p)
  BY <1>1 DEF Connect, CloneBaseBranch, Materialize, RunCommand, SyncBack, Publish,
     AllPublished, Commit, PushNothing, HookPasses, HookHasNoUpstream, HookRebases,
     HookStopsAtConflict, SendPack, PushRejected, AckLost, PhaseFails, PublishFails, FixFails,
     Killed, cloneVars, pushVars, Counts
<1>2. CASE CloneWorkBranch(p)
  BY <1>2 DEF CloneWorkBranch, pushVars, Counts, Work
<1>3. CASE BeginPush(p)
  BY <1>3 DEF BeginPush, cloneVars, Counts, Work
<1>4. CASE Fix(p) \/ FixesNothing(p)
  BY <1>4 DEF Fix, FixesNothing, Retry, cloneVars, pushVars, Counts
<1> QED
  BY <1>1, <1>2, <1>3, <1>4 DEF Step, Fault

LEMMA CountsCountOK ==
  ASSUME RepoOK, CountOK, NEW p \in Pods, Counts(p)
  PROVE  CountOK'
<1>1. Work(p) \in Branch
  BY BranchOfPod DEF RepoOK, Work
<1>2. Work(p) # Absent => Len(Work(p)) \in Nat
  BY <1>1, LenProperties DEF Branch, Commits
<1>3. advertised' \in [Pods -> Branch]
  BY <1>1 DEF CountOK, Counts
<1>4. attempt' \in [Pods -> Nat]
  BY DEF CountOK, Counts
<1>5. cloned' \in [Pods -> Nat]
  BY <1>2 DEF CountOK, Counts
<1> QED
  BY <1>3, <1>4, <1>5 DEF CountOK

Upstream(p) ==
  tracking[p] # Absent =>
    Work(p) # Absent /\ IsPrefix(base[p], Work(p)) /\ IsPrefix(tracking[p], Work(p))

BeforePush(p) ==
  pc[p] \in {"start", "clone", "materialize", "run", "sync", "publish", "commit"} =>
    /\ attempt[p] = 1 /\ ~rebasing[p]
    /\ tracking[p] # Absent => cloned[p] = Len(base[p])

\* The pod has a commit that the branch it cloned does not hold.
Owing(p) == tracking[p] # Absent /\ committed[p] /\ p \notin Range(Work(p))

\* The commits of s that came after the cloning pay for n attempts, or for all
\* but one of them, which the first commit of t that is not in s will pay for.
Paid(p, n, s) == n <= 2 * (Len(s) - cloned[p])
PaidBut(p, n, s, t) == Paid(p, n, s) \/ (s # t /\ Paid(p, n - 1, s))

AtPush(p) == ~rebasing[p] /\ PaidBut(p, attempt[p] - 1, base[p], Work(p))

AtHook(p) ==
  /\ ~rebasing[p]
  /\ offered[p] = Append(base[p], p)
  /\ advertised[p] # Absent
  /\ IsPrefix(base[p], advertised[p]) /\ IsPrefix(advertised[p], Work(p))
  /\ PaidBut(p, attempt[p] - 1, base[p], advertised[p])

\* Either the offer is built on what the remote advertised, and that on all
\* that is paid for, or this attempt is paid for as well.
AtSend(p) ==
  /\ ~rebasing[p]
  /\ p \in Range(offered[p])
  /\ \/ Paid(p, attempt[p], base[p])
     \/ /\ Paid(p, attempt[p] - 1, base[p])
        /\ offered[p] = Append(base[p], p) /\ advertised[p] = base[p]

AtFix(p) ==
  IF rebasing[p] THEN Paid(p, attempt[p], tracking[p])
                 ELSE PaidBut(p, attempt[p], base[p], Work(p))

AtEnd(p) == Paid(p, MaxRetries, Work(p))

Counted(p) ==
  Owing(p) =>
    /\ pc[p] = "push" => AtPush(p)
    /\ pc[p] = "hook" => AtHook(p)
    /\ pc[p] = "send" => AtSend(p)
    /\ pc[p] = "fix" => AtFix(p)
    /\ exit[p] = "ok" => AtEnd(p)

LostInv ==
  /\ CleanInv /\ CountOK
  /\ \A p \in Pods : Upstream(p) /\ BeforePush(p) /\ Counted(p)

\* Where a branch has grown, less of it is owed, and what was behind still is.
LEMMA BehindStays ==
  ASSUME NEW s \in Commits, NEW t \in Commits, NEW u \in Commits,
         IsPrefix(s, t), IsPrefix(t, u), s # t
  PROVE  s # u
BY Longer

LEMMA OthersKeep ==
  ASSUME LostInv, NEW p \in Pods, Step(p) \/ Fault(p), NEW q \in Pods \ {p}
  PROVE  (Upstream(q) /\ BeforePush(q) /\ Counted(q))'
<1>1. RepoOK /\ ControlOK /\ CountOK
  BY DEF LostInv, CleanInv
<1>2. Moves(p) /\ Puts(p) /\ Counts(p)
  BY <1>1, StepMoves, StepPuts, StepCounts
<1>3. RepoOK' /\ CountOK'
  BY <1>1, <1>2, PutsRepoOK, CountsCountOK
<1>4. pc'[q] = pc[q] /\ exit'[q] = exit[q]
  BY <1>1, <1>2, MovesOf
<1>5. base'[q] = base[q] /\ tracking'[q] = tracking[q] /\ offered'[q] = offered[q]
  BY <1>1, <1>2 DEF Puts, RepoOK
<1>6. committed'[q] = committed[q] /\ rebasing'[q] = rebasing[q]
  BY <1>1, <1>2 DEF Puts, RepoOK
<1>7. advertised'[q] = advertised[q] /\ attempt'[q] = attempt[q] /\ cloned'[q] = cloned[q]
  BY <1>1, <1>2 DEF Counts, CountOK
<1>8. Upstream(q) /\ BeforePush(q) /\ Counted(q)
  BY DEF LostInv
<1>9. BeforePush(q)'
  BY <1>4, <1>5, <1>6, <1>7, <1>8 DEF BeforePush
<1>10. CASE tracking[q] = Absent
  BY <1>5, <1>9, <1>10 DEF Upstream, Counted, Owing
<1>11. CASE tracking[q] # Absent
  <2>1. /\ Work(q) # Absent /\ Work(q)' # Absent /\ IsPrefix(Work(q), Work(q)')
        /\ Work(q) \in Branch /\ Work(q)' \in Branch
    BY <1>1, <1>3, <1>8, <1>11, BranchOfPod, StepGrows DEF Upstream, Work, RepoOK
  <2>2. /\ Work(q) \in Commits /\ Work(q)' \in Commits
        /\ base[q] \in Commits /\ tracking[q] \in Commits
    BY <1>1, <1>11, <2>1 DEF RepoOK, Branch
  <2>3. /\ IsPrefix(base[q], Work(q)) /\ IsPrefix(tracking[q], Work(q))
        /\ IsPrefix(base[q], Work(q)') /\ IsPrefix(tracking[q], Work(q)')
    BY <1>8, <1>11, <2>1, <2>2, PrefixTransitive DEF Upstream
  <2>4. Upstream(q)'
    BY <1>5, <2>1, <2>3 DEF Upstream
  <2>5. Range(Work(q)) \subseteq Range(Work(q)')
        /\ (Work(q) = Work(q)' \/ Len(Work(q)) < Len(Work(q)'))
    BY <2>1, <2>2, Longer
  <2>6. ASSUME Owing(q)' PROVE Owing(q)
    BY <1>5, <1>6, <2>5, <2>6 DEF Owing
  <2>7. base[q] # Work(q) => base[q] # Work(q)'
    BY <2>1, <2>2, <2>3, BehindStays
  <2>8. ASSUME Owing(q), pc[q] = "hook", AtHook(q) PROVE AtHook(q)'
    <3>1. advertised[q] \in Commits
      BY <1>1, <2>8 DEF AtHook, CountOK, Branch
    <3>2. IsPrefix(advertised[q], Work(q)')
      BY <2>1, <2>2, <2>8, <3>1, PrefixTransitive DEF AtHook
    <3> QED
      BY <1>5, <1>6, <1>7, <2>8, <3>2 DEF AtHook, PaidBut, Paid
  <2>9. ASSUME AtEnd(q) PROVE AtEnd(q)'
    <3>1. Len(Work(q)) \in Nat /\ Len(Work(q)') \in Nat /\ cloned[q] \in Nat /\ MaxRetries \in Nat
      BY <1>1, <2>2, LenProperties, AgentAssumption DEF Commits, CountOK
    <3>2. Len(Work(q)) <= Len(Work(q)')
      BY <2>5, <3>1
    <3> QED
      BY <1>7, <2>9, <3>1, <3>2 DEF AtEnd, Paid
  <2>10. ASSUME AtPush(q) PROVE AtPush(q)'
    BY <1>5, <1>6, <1>7, <2>7, <2>10 DEF AtPush, PaidBut, Paid
  <2>11. ASSUME AtSend(q) PROVE AtSend(q)'
    BY <1>5, <1>6, <1>7, <2>11 DEF AtSend, Paid
  <2>12. ASSUME AtFix(q) PROVE AtFix(q)'
    BY <1>5, <1>6, <1>7, <2>7, <2>12 DEF AtFix, PaidBut, Paid
  <2>13. Counted(q)'
    BY <1>4, <1>8, <2>6, <2>8, <2>9, <2>10, <2>11, <2>12 DEF Counted
  <2> QED
    BY <1>9, <2>4, <2>13
<1> QED
  BY <1>10, <1>11

\* What is known of a pod that cloned the work branch.
LEMMA ClonedFacts ==
  ASSUME LostInv, NEW p \in Pods, tracking[p] # Absent
  PROVE  /\ Work(p) \in Commits /\ base[p] \in Commits /\ tracking[p] \in Commits
         /\ Work(p) # Absent /\ IsPrefix(base[p], Work(p)) /\ IsPrefix(tracking[p], Work(p))
         /\ Len(Work(p)) \in Nat /\ Len(base[p]) \in Nat /\ Len(tracking[p]) \in Nat
         /\ cloned[p] \in Nat /\ attempt[p] \in Nat /\ MaxRetries \in Nat
<1>1. RepoOK /\ CountOK /\ Upstream(p)
  BY DEF LostInv, CleanInv
<1>2. Work(p) \in Branch /\ Work(p) # Absent
  BY <1>1, BranchOfPod DEF RepoOK, Upstream, Work
<1>3. Work(p) \in Commits /\ base[p] \in Commits /\ tracking[p] \in Commits
  BY <1>1, <1>2 DEF RepoOK, Branch
<1> QED
  BY <1>1, <1>2, <1>3, LenProperties, AgentAssumption DEF Upstream, CountOK, Commits

\* Up to the commit nothing is counted.
LEMMA EarlyKeep ==
  ASSUME LostInv, NEW p \in Pods,
         \/ Connect(p) \/ CloneBaseBranch(p) \/ Materialize(p) \/ RunCommand(p) \/ SyncBack(p)
         \/ Publish(p) \/ AllPublished(p) \/ PhaseFails(p) \/ PublishFails(p)
  PROVE  (Upstream(p) /\ BeforePush(p) /\ Counted(p))'
<1>1. ControlOK /\ CountOK /\ RepoOK /\ Upstream(p) /\ BeforePush(p)
  BY DEF LostInv, CleanInv
<1>2. UNCHANGED <<remote, base, committed, tracking, rebasing, cloned, attempt>>
  BY DEF Connect, CloneBaseBranch, Materialize, RunCommand, SyncBack, Publish, AllPublished,
         PhaseFails, PublishFails, cloneVars
<1>3. pc[p] \in {"start", "clone", "materialize", "run", "sync", "publish"}
  BY DEF Connect, CloneBaseBranch, Materialize, RunCommand, SyncBack, Publish, AllPublished,
         PhaseFails, PublishFails
<1>4. pc'[p] \notin {"push", "hook", "send", "fix"} /\ exit'[p] # "ok"
  <2>1. exit[p] = "running"
    BY <1>1, <1>3 DEF ControlOK
  <2>2. ASSUME NEW from, NEW to, Forward(p, from, to) PROVE pc'[p] = to /\ exit'[p] = exit[p]
    BY <1>1, <2>2 DEF Forward, ControlOK
  <2>3. Fails(p) => pc'[p] = "done" /\ exit'[p] = "error"
    BY <1>1 DEF Fails, ControlOK
  <2>4. Publish(p) => pc'[p] = "publish" /\ exit'[p] = exit[p]
    BY DEF Publish
  <2> QED
    BY <1>1, <2>1, <2>2, <2>3, <2>4, EarlyMoves
<1> QED
  BY <1>1, <1>2, <1>3, <1>4 DEF Upstream, BeforePush, Counted, Work

LEMMA CloneKeeps ==
  ASSUME LostInv, NEW p \in Pods, CloneWorkBranch(p)
  PROVE  (Upstream(p) /\ BeforePush(p) /\ Counted(p))'
<1>1. ControlOK /\ CountOK /\ RepoOK /\ BeforePush(p)
  BY DEF LostInv, CleanInv
<1>2. Work(p) \in Commits /\ Work(p) # Absent
  BY <1>1, BranchOfPod DEF CloneWorkBranch, RepoOK, Branch, Work
<1>3. base'[p] = Work(p) /\ tracking'[p] = Work(p) /\ cloned'[p] = Len(Work(p))
  BY <1>1 DEF CloneWorkBranch, RepoOK, CountOK, Work
<1>4. Work(p)' = Work(p) /\ attempt'[p] = attempt[p] /\ rebasing'[p] = rebasing[p]
  BY DEF CloneWorkBranch, Work
<1>5. pc[p] = "clone" /\ pc'[p] = "materialize" /\ exit'[p] = "running"
  BY <1>1, EarlyMoves DEF Forward, ControlOK
<1>6. IsPrefix(Work(p), Work(p))
  BY <1>2, PrefixIs, LenProperties DEF Commits
<1> QED
  BY <1>1, <1>2, <1>3, <1>4, <1>5, <1>6 DEF Upstream, BeforePush, Counted

LEMMA CommitKeeps ==
  ASSUME LostInv, NEW p \in Pods, Commit(p)
  PROVE  (Upstream(p) /\ BeforePush(p) /\ Counted(p))'
<1>1. ControlOK /\ Upstream(p) /\ BeforePush(p)
  BY DEF LostInv, CleanInv
<1>2. UNCHANGED <<remote, base, tracking, rebasing, cloned, attempt>>
  BY DEF Commit
<1>3. pc[p] = "commit" /\ pc'[p] = "push" /\ exit'[p] = "running"
  BY <1>1, EarlyMoves DEF Forward, ControlOK
<1>4. ASSUME tracking[p] # Absent PROVE AtPush(p)'
  <2>1. cloned[p] = Len(base[p]) /\ attempt[p] - 1 = 0 /\ ~rebasing[p] /\ Len(base[p]) \in Nat
    BY <1>1, <1>3, <1>4, ClonedFacts DEF BeforePush
  <2> QED
    BY <1>2, <2>1 DEF AtPush, PaidBut, Paid
<1> QED
  BY <1>1, <1>2, <1>3, <1>4 DEF Upstream, BeforePush, Counted, Owing, Work

\* Within the attempts to push, what is left to show.
LEMMA PushStepKeeps ==
  ASSUME LostInv, NEW p \in Pods, PushStep(p),
         tracking'[p] # Absent =>
           /\ Upstream(p)'
           /\ Owing(p)' => \/ pc'[p] = "push" /\ exit'[p] # "ok" /\ AtPush(p)'
                           \/ pc'[p] = "hook" /\ exit'[p] # "ok" /\ AtHook(p)'
                           \/ pc'[p] = "send" /\ exit'[p] # "ok" /\ AtSend(p)'
                           \/ pc'[p] = "fix" /\ exit'[p] # "ok" /\ AtFix(p)'
                           \/ pc'[p] = "done" /\ AtEnd(p)'
  PROVE  (Upstream(p) /\ BeforePush(p) /\ Counted(p))'
<1>1. ControlOK
  BY DEF LostInv, CleanInv
<1>2. pc'[p] \in Pushing \cup {"done"}
  BY <1>1, PushStepAttempts DEF Attempt, Pushing, ControlOK
<1>3. BeforePush(p)'
  BY <1>2 DEF BeforePush, Pushing
<1>4. Upstream(p)'
  BY DEF Upstream
<1>5. Counted(p)'
  BY <1>2 DEF Counted, Owing
<1> QED
  BY <1>3, <1>4, <1>5

\* The pod's commit is on the branch, or there is none: nothing is lost.
LEMMA NothingOwedKeeps ==
  ASSUME LostInv, NEW p \in Pods, PushNothing(p) \/ SendPack(p) \/ AckLost(p)
  PROVE  (Upstream(p) /\ BeforePush(p) /\ Counted(p))'
<1>1. RepoOK /\ CountOK /\ ControlOK /\ Upstream(p) /\ Counted(p)
  BY DEF LostInv, CleanInv
<1>2. RepoOK'
  BY <1>1, StepPuts, PutsRepoOK DEF Step, Fault
<1> SUFFICES ASSUME tracking'[p] # Absent PROVE Upstream(p)' /\ ~Owing(p)'
  BY PushStepKeeps DEF PushStep
<1>3. tracking[p] # Absent /\ committed'[p] = committed[p] /\ base'[p] = base[p]
  BY <1>1 DEF PushNothing, SendPack, AckLost, cloneVars
<1>4. /\ Work(p) \in Commits /\ base[p] \in Commits /\ tracking[p] \in Commits
      /\ Work(p) # Absent /\ IsPrefix(base[p], Work(p)) /\ IsPrefix(tracking[p], Work(p))
  BY <1>3, ClonedFacts
<1>5. CASE PushNothing(p)
  <2>1. Work(p)' = Work(p) /\ tracking'[p] = tracking[p]
    BY <1>5 DEF PushNothing, cloneVars, Work
  <2>2. committed[p] => p \in Range(Work(p))
    <3>1. committed[p] => p \in Range(Local(p))
      BY <1>4, Appended DEF Local
    <3>2. Range(Local(p)) \subseteq Range(tracking[p])
      BY <1>5 DEF PushNothing, NothingNew
    <3> QED
      BY <1>4, <3>1, <3>2, Longer
  <2> QED
    BY <1>1, <1>3, <2>1, <2>2 DEF Upstream, Owing
<1>6. CASE SendPack(p) \/ AckLost(p)
  <2>1. /\ pc[p] = "send" /\ Accepted(p)
        /\ tracking'[p] = tracking[p] \/ tracking'[p] = offered[p]
    BY <1>1, <1>6 DEF SendPack, AckLost, cloneVars, RepoOK
  <2>2. Work(p)' = offered[p] /\ offered[p] \in Commits /\ offered[p] # Absent
    BY <1>1, <2>1, BranchOfPod, AgentAssumption DEF Accepted, RepoOK, Work, Commits
  <2>3. IsPrefix(Work(p), offered[p])
    BY <1>4, <2>1 DEF Accepted, Accepts, Work
  <2>4. Upstream(p)'
    <3>1. IsPrefix(base[p], offered[p]) /\ IsPrefix(tracking[p], offered[p])
      BY <1>4, <2>2, <2>3, PrefixTransitive
    <3>2. IsPrefix(offered[p], offered[p])
      BY <2>2, PrefixIs, LenProperties DEF Commits
    <3> QED
      BY <1>3, <2>1, <2>2, <3>1, <3>2 DEF Upstream
  <2>5. committed[p] => p \in Range(offered[p])
    <3>1. p \in Range(Work(p)) => p \in Range(offered[p])
      BY <1>4, <2>2, <2>3, Longer
    <3> QED
      BY <1>1, <1>3, <2>1, <3>1 DEF Counted, Owing, AtSend
  <2> QED
    BY <1>3, <2>2, <2>4, <2>5 DEF Owing
<1> QED
  BY <1>5, <1>6

LEMMA BeginPushKeeps ==
  ASSUME LostInv, NEW p \in Pods, BeginPush(p)
  PROVE  (Upstream(p) /\ BeforePush(p) /\ Counted(p))'
<1>1. RepoOK /\ CountOK /\ ControlOK /\ Upstream(p) /\ Counted(p)
  BY DEF LostInv, CleanInv
<1> SUFFICES ASSUME tracking'[p] # Absent
             PROVE  /\ Upstream(p)'
                    /\ Owing(p)' => pc'[p] = "hook" /\ exit'[p] # "ok" /\ AtHook(p)'
  BY PushStepKeeps DEF PushStep
<1>2. /\ UNCHANGED <<exit, remote, base, committed, tracking, rebasing, cloned, attempt>>
      /\ Work(p)' = Work(p)
  BY DEF BeginPush, cloneVars, Work
<1>3. pc[p] = "push" /\ pc'[p] = "hook" /\ exit[p] # "ok"
  BY <1>1 DEF BeginPush, Goto, ControlOK
<1>4. advertised'[p] = Work(p) /\ offered'[p] = Local(p)
  BY <1>1 DEF BeginPush, CountOK, RepoOK, Work
<1>5. /\ Work(p) \in Commits /\ Work(p) # Absent
      /\ IsPrefix(base[p], Work(p)) /\ IsPrefix(Work(p), Work(p))
  BY <1>2, ClonedFacts, PrefixIs
<1>6. ASSUME Owing(p)' PROVE AtHook(p)'
  <2>1. AtPush(p) /\ committed[p]
    BY <1>1, <1>2, <1>3, <1>6 DEF Counted, Owing
  <2>2. offered'[p] = Append(base[p], p)
    BY <1>4, <2>1 DEF Local
  <2>3. PaidBut(p, attempt[p] - 1, base[p], advertised[p])'
    BY <1>2, <1>4, <2>1 DEF AtPush, PaidBut, Paid
  <2>4. ~rebasing'[p]
    BY <1>2, <2>1 DEF AtPush
  <2> QED
    BY <1>2, <1>4, <1>5, <2>2, <2>3, <2>4 DEF AtHook
<1> QED
  BY <1>1, <1>2, <1>3, <1>6 DEF Upstream

\* Without a rebase going on, the hook of a pod that cloned the work branch
\* does not pass unused.
LEMMA HookPassesKeeps ==
  ASSUME LostInv, NEW p \in Pods, HookPasses(p) \/ HookHasNoUpstream(p)
  PROVE  (Upstream(p) /\ BeforePush(p) /\ Counted(p))'
<1>1. RepoOK /\ CountOK /\ ControlOK /\ Upstream(p) /\ Counted(p)
  BY DEF LostInv, CleanInv
<1> SUFFICES ASSUME tracking'[p] # Absent PROVE Upstream(p)' /\ ~Owing(p)'
  BY PushStepKeeps DEF PushStep
<1>2. UNCHANGED <<remote, base, committed, tracking, rebasing>> /\ Work(p)' = Work(p)
  BY DEF HookPasses, HookHasNoUpstream, cloneVars, Work
<1>3. HookPasses(p)
  BY <1>2 DEF HookHasNoUpstream
<1>4. pc[p] = "hook" /\ (rebasing[p] \/ Work(p) = Absent)
  BY <1>3 DEF HookPasses, Work
<1> QED
  BY <1>1, <1>2, <1>4 DEF Upstream, Counted, Owing, AtHook

\* Work is given up at the last attempt only.
LEMMA PushFailedAt ==
  ASSUME ControlOK, NEW p \in Pods, PushFailed(p), pc[p] \in Pushing
  PROVE  \/ pc'[p] = "done" /\ attempt[p] >= MaxRetries
         \/ pc'[p] = "fix" /\ exit'[p] # "ok"
<1>1. CASE LastAttempt(p)
  <2>1. pc'[p] = "done"
    BY <1>1, LeaveMoves, Order DEF PushFailed, ControlOK
  <2> QED
    BY <1>1, <2>1 DEF LastAttempt
<1>2. CASE ~LastAttempt(p)
  BY <1>2 DEF PushFailed, Goto, ControlOK, Pushing
<1> QED
  BY <1>1, <1>2

\* What pays for attempts pays for them with more commits, and with one more
\* for two attempts more.
LEMMA OneMorePays ==
  ASSUME NEW n \in Nat, NEW b \in Nat, NEW w \in Nat, NEW c \in Nat
  PROVE  /\ b <= w /\ n <= 2 * (b - c) => n <= 2 * (w - c)
         /\ b + 1 <= w /\ n - 1 <= 2 * (b - c) => n <= 2 * (w - c)
         /\ b + 1 <= w /\ n - 1 - 1 <= 2 * (b - c) => n <= 2 * (w - c)
OBVIOUS

LEMMA RejectedKeeps ==
  ASSUME LostInv, NEW p \in Pods, PushRejected(p)
  PROVE  (Upstream(p) /\ BeforePush(p) /\ Counted(p))'
<1>1. ControlOK /\ Upstream(p) /\ Counted(p)
  BY DEF LostInv, CleanInv
<1> SUFFICES ASSUME tracking'[p] # Absent
             PROVE  /\ Upstream(p)'
                    /\ Owing(p)' => \/ pc'[p] = "fix" /\ exit'[p] # "ok" /\ AtFix(p)'
                                    \/ pc'[p] = "done" /\ AtEnd(p)'
  BY PushStepKeeps DEF PushStep
<1>2. /\ UNCHANGED <<remote, base, committed, tracking, rebasing, cloned, attempt>>
      /\ Work(p)' = Work(p) /\ pc[p] = "send" /\ PushFailed(p)
  BY DEF PushRejected, cloneVars, Work
<1>3. /\ Work(p) \in Commits /\ base[p] \in Commits /\ IsPrefix(base[p], Work(p))
      /\ Len(Work(p)) \in Nat /\ Len(base[p]) \in Nat
      /\ cloned[p] \in Nat /\ attempt[p] \in Nat /\ MaxRetries \in Nat
  BY <1>2, ClonedFacts
<1>4. \/ pc'[p] = "done" /\ attempt[p] >= MaxRetries
      \/ pc'[p] = "fix" /\ exit'[p] # "ok"
  BY <1>1, <1>2, PushFailedAt DEF Pushing
<1> SUFFICES ASSUME Owing(p)
             PROVE  AtFix(p)' /\ (attempt[p] >= MaxRetries => AtEnd(p)')
  BY <1>1, <1>2, <1>4 DEF Upstream, Owing
<1>5. AtSend(p)
  BY <1>1, <1>2 DEF Counted
<1>6. \/ Paid(p, attempt[p], base[p])
      \/ Paid(p, attempt[p] - 1, base[p]) /\ base[p] # Work(p)
  <2>1. ASSUME offered[p] = Append(base[p], p), advertised[p] = base[p], base[p] = Work(p)
        PROVE  FALSE
    <3>1. IsPrefix(advertised[p], offered[p])
      BY <1>3, <2>1, Appended
    <3> QED
      BY <2>1, <3>1 DEF PushRejected, Accepts, Work
  <2> QED
    BY <1>5, <2>1 DEF AtSend
<1>7. AtFix(p)'
  BY <1>2, <1>5, <1>6 DEF AtSend, AtFix, PaidBut, Paid
<1>8. Paid(p, attempt[p], Work(p))
  <2>1. Len(base[p]) <= Len(Work(p)) /\ (base[p] # Work(p) => Len(base[p]) + 1 <= Len(Work(p)))
    BY <1>3, Longer
  <2>2. CASE Paid(p, attempt[p], base[p])
    BY <1>3, <2>1, <2>2, OneMorePays DEF Paid
  <2>3. CASE Paid(p, attempt[p] - 1, base[p]) /\ base[p] # Work(p)
    BY <1>3, <2>1, <2>3, OneMorePays DEF Paid
  <2> QED
    BY <1>6, <2>2, <2>3
<1>9. attempt[p] >= MaxRetries => AtEnd(p)'
  BY <1>2, <1>3, <1>8 DEF AtEnd, Paid
<1> QED
  BY <1>7, <1>9

\* What the hook finds has paid for the attempt, unless the offer is good.
LEMMA HookPaid ==
  ASSUME LostInv, NEW p \in Pods, Owing(p), pc[p] = "hook", AtHook(p)
  PROVE  \/ Paid(p, attempt[p], Work(p))
         \/ Paid(p, attempt[p] - 1, Work(p)) /\ base[p] = Work(p) /\ advertised[p] = Work(p)
<1>1. /\ Work(p) \in Commits /\ base[p] \in Commits /\ IsPrefix(base[p], Work(p))
      /\ Len(Work(p)) \in Nat /\ Len(base[p]) \in Nat
      /\ cloned[p] \in Nat /\ attempt[p] \in Nat
  BY ClonedFacts DEF Owing
<1>2. advertised[p] \in Commits
  BY DEF LostInv, CountOK, AtHook, Branch
<1>3. CASE base[p] = Work(p)
  <2>1. advertised[p] = Work(p)
    BY <1>1, <1>2, <1>3, Longer DEF AtHook
  <2> QED
    BY <1>3, <2>1 DEF AtHook, PaidBut
<1>4. CASE base[p] # Work(p)
  <2>1. Len(base[p]) + 1 <= Len(Work(p))
    BY <1>1, <1>4, Longer
  <2>2. Paid(p, attempt[p] - 1, base[p]) \/ Paid(p, attempt[p] - 1 - 1, base[p])
    BY DEF AtHook, PaidBut
  <2>3. attempt[p] <= 2 * (Len(Work(p)) - cloned[p])
    BY <1>1, <2>1, <2>2, OneMorePays DEF Paid
  <2> QED
    BY <2>3 DEF Paid
<1> QED
  BY <1>3, <1>4

LEMMA HookRebasesKeeps ==
  ASSUME LostInv, NEW p \in Pods, HookRebases(p)
  PROVE  (Upstream(p) /\ BeforePush(p) /\ Counted(p))'
<1>1. RepoOK /\ ControlOK /\ Upstream(p) /\ Counted(p)
  BY DEF LostInv, CleanInv
<1> SUFFICES ASSUME tracking'[p] # Absent
             PROVE  /\ Upstream(p)'
                    /\ Owing(p)' => pc'[p] = "send" /\ exit'[p] # "ok" /\ AtSend(p)'
  BY PushStepKeeps DEF PushStep
<1>2. /\ UNCHANGED <<exit, remote, rebasing, cloned, attempt, advertised, offered>>
      /\ Work(p)' = Work(p) /\ pc[p] = "hook" /\ tracking[p] # Absent
  BY DEF HookRebases, HookRuns, pushVars, Work
<1>3. /\ base'[p] = Work(p) /\ tracking'[p] = Work(p)
      /\ committed'[p] = StillOwn(p, Work(p))
  BY <1>1 DEF HookRebases, RepoOK, Work
<1>4. pc'[p] = "send" /\ exit[p] # "ok"
  BY <1>1, <1>2 DEF HookRebases, Goto, ControlOK
<1>5. /\ Work(p) \in Commits /\ Work(p) # Absent /\ IsPrefix(Work(p), Work(p))
      /\ base[p] \in Commits
  BY <1>2, ClonedFacts, PrefixIs
<1>6. ASSUME Owing(p)' PROVE AtSend(p)'
  <2>1. Owing(p)
    BY <1>2, <1>3, <1>6 DEF Owing, StillOwn
  <2>2. AtHook(p)
    BY <1>1, <1>2, <2>1 DEF Counted
  <2>3. p \in Range(offered[p])
    BY <1>5, <2>2, Appended DEF AtHook
  <2>4. \/ Paid(p, attempt[p], Work(p))
        \/ Paid(p, attempt[p] - 1, Work(p)) /\ base[p] = Work(p) /\ advertised[p] = Work(p)
    BY <1>2, <2>1, <2>2, HookPaid
  <2> QED
    BY <1>2, <1>3, <2>2, <2>3, <2>4 DEF AtSend, AtHook, Paid
<1> QED
  BY <1>2, <1>3, <1>4, <1>5, <1>6 DEF Upstream

LEMMA HookStopsKeeps ==
  ASSUME LostInv, NEW p \in Pods, HookStopsAtConflict(p)
  PROVE  (Upstream(p) /\ BeforePush(p) /\ Counted(p))'
<1>1. RepoOK /\ ControlOK /\ Upstream(p) /\ Counted(p)
  BY DEF LostInv, CleanInv
<1> SUFFICES ASSUME tracking'[p] # Absent
             PROVE  /\ Upstream(p)'
                    /\ Owing(p)' => \/ pc'[p] = "fix" /\ exit'[p] # "ok" /\ AtFix(p)'
                                    \/ pc'[p] = "done" /\ AtEnd(p)'
  BY PushStepKeeps DEF PushStep
<1>2. /\ UNCHANGED <<remote, base, committed, cloned, attempt>>
      /\ Work(p)' = Work(p) /\ pc[p] = "hook" /\ tracking[p] # Absent /\ PushFailed(p)
      /\ base[p] # Work(p)
  BY DEF HookStopsAtConflict, HookRuns, Work
<1>3. tracking'[p] = Work(p) /\ rebasing'[p]
  BY <1>1 DEF HookStopsAtConflict, RepoOK, Work
<1>4. /\ Work(p) \in Commits /\ Work(p) # Absent /\ IsPrefix(Work(p), Work(p))
      /\ IsPrefix(base[p], Work(p))
      /\ Len(Work(p)) \in Nat /\ cloned[p] \in Nat /\ attempt[p] \in Nat /\ MaxRetries \in Nat
  BY <1>2, ClonedFacts, PrefixIs
<1>5. \/ pc'[p] = "done" /\ attempt[p] >= MaxRetries
      \/ pc'[p] = "fix" /\ exit'[p] # "ok"
  BY <1>1, <1>2, PushFailedAt DEF Pushing
<1>6. ASSUME Owing(p)' PROVE AtFix(p)' /\ (attempt[p] >= MaxRetries => AtEnd(p)')
  <2>1. Owing(p)
    BY <1>2, <1>6 DEF Owing
  <2>2. AtHook(p)
    BY <1>1, <1>2, <2>1 DEF Counted
  <2>3. Paid(p, attempt[p], Work(p))
    BY <1>2, <2>1, <2>2, HookPaid
  <2>4. AtFix(p)'
    BY <1>2, <1>3, <2>3 DEF AtFix, Paid
  <2>5. attempt[p] >= MaxRetries => AtEnd(p)'
    BY <1>2, <1>4, <2>3 DEF AtEnd, Paid
  <2> QED
    BY <2>4, <2>5
<1> QED
  BY <1>2, <1>3, <1>4, <1>5, <1>6 DEF Upstream

\* The command that fixes conflicts finishes the rebase.
LEMMA FixKeeps ==
  ASSUME LostInv, NEW p \in Pods, Fix(p)
  PROVE  (Upstream(p) /\ BeforePush(p) /\ Counted(p))'
<1>1. RepoOK /\ CountOK /\ ControlOK /\ Upstream(p) /\ Counted(p)
  BY DEF LostInv, CleanInv
<1> SUFFICES ASSUME tracking'[p] # Absent
             PROVE  /\ Upstream(p)'
                    /\ Owing(p)' => pc'[p] = "push" /\ exit'[p] # "ok" /\ AtPush(p)'
  BY PushStepKeeps DEF PushStep
<1>2. /\ UNCHANGED <<exit, remote, committed, tracking, cloned>>
      /\ Work(p)' = Work(p) /\ pc[p] = "fix"
  BY DEF Fix, Retry, Work
<1>3. pc'[p] = "push" /\ exit[p] # "ok"
  BY <1>1, <1>2 DEF Fix, Retry, Goto, ControlOK
<1>4. ~rebasing'[p] /\ base'[p] = IF rebasing[p] THEN tracking[p] ELSE base[p]
  BY <1>1 DEF Fix, RepoOK
<1>5. attempt'[p] = attempt[p] + 1 /\ attempt[p] \in Nat
  BY <1>1 DEF Fix, Retry, CountOK
<1>6. ASSUME Owing(p)' PROVE AtPush(p)'
  <2>1. AtFix(p) /\ attempt'[p] - 1 = attempt[p]
    BY <1>1, <1>2, <1>5, <1>6 DEF Counted, Owing
  <2> QED
    BY <1>2, <1>4, <2>1 DEF AtFix, AtPush, PaidBut, Paid
<1>7. Upstream(p)'
  BY <1>1, <1>2, <1>4 DEF Upstream
<1> QED
  BY <1>2, <1>3, <1>6, <1>7

\* A pod that its deadline ends has not given up: its exit is "killed".
LEMMA KilledKeeps ==
  ASSUME LostInv, NEW p \in Pods, Killed(p)
  PROVE  (Upstream(p) /\ BeforePush(p) /\ Counted(p))'
<1>1. RepoOK /\ CountOK /\ ControlOK /\ Upstream(p)
  BY DEF LostInv, CleanInv
<1>2. RepoOK'
  BY <1>1, StepPuts, PutsRepoOK DEF Fault
<1>3. pc'[p] = "done" /\ exit'[p] = "killed" /\ UNCHANGED <<base, tracking>>
  BY <1>1 DEF Killed, Goto, ControlOK, cloneVars
<1>4. BeforePush(p)' /\ Counted(p)'
  BY <1>3 DEF BeforePush, Counted
<1>5. ASSUME tracking[p] # Absent PROVE Upstream(p)'
  <2>1. /\ Work(p) \in Commits /\ base[p] \in Commits /\ tracking[p] \in Commits
        /\ Work(p) # Absent /\ IsPrefix(base[p], Work(p)) /\ IsPrefix(tracking[p], Work(p))
    BY <1>5, ClonedFacts
  <2>2. Work(p)' # Absent /\ IsPrefix(Work(p), Work(p)') /\ Work(p)' \in Branch
    BY <1>1, <1>2, <2>1, BranchOfPod, StepGrows DEF Fault, Work, RepoOK
  <2>3. IsPrefix(base[p], Work(p)') /\ IsPrefix(tracking[p], Work(p)')
    BY <2>1, <2>2, PrefixTransitive DEF Branch
  <2> QED
    BY <1>3, <2>2, <2>3 DEF Upstream
<1> QED
  BY <1>3, <1>4, <1>5 DEF Upstream

LEMMA LostInit == Init => LostInv
<1> SUFFICES ASSUME Init PROVE LostInv
  OBVIOUS
<1>1. CountOK
  BY DEF Init, CountOK, Branch
<1>2. ASSUME NEW p \in Pods PROVE Upstream(p) /\ BeforePush(p) /\ Counted(p)
  BY <1>2 DEF Init, Upstream, BeforePush, Counted, Owing
<1> QED
  BY <1>1, <1>2, CleanInit DEF LostInv

LEMMA LostNext ==
  ASSUME "fix" \notin Faults, LostInv, [Next]_vars
  PROVE  LostInv'
<1>1. CleanInv' /\ RepoOK
  BY CleanNext DEF LostInv, CleanInv
<1>2. CASE UNCHANGED vars
  <2>1. CountOK'
    BY <1>2 DEF LostInv, CountOK, vars, cloneVars, pushVars
  <2>2. ASSUME NEW p \in Pods PROVE (Upstream(p) /\ BeforePush(p) /\ Counted(p))'
    BY <1>2 DEF LostInv, vars, cloneVars, pushVars, Upstream, BeforePush, Counted, Owing,
       AtPush, AtHook, AtSend, AtFix, AtEnd, PaidBut, Paid, Work
  <2> QED
    BY <1>1, <2>1, <2>2 DEF LostInv
<1>3. ASSUME NEW p \in Pods, Step(p) \/ Fault(p) PROVE LostInv'
  <2>1. CountOK'
    BY <1>1, <1>3, StepCounts, CountsCountOK DEF LostInv
  <2>2. ASSUME NEW q \in Pods \ {p} PROVE (Upstream(q) /\ BeforePush(q) /\ Counted(q))'
    BY <1>3, OthersKeep
  <2>3. (Upstream(p) /\ BeforePush(p) /\ Counted(p))'
    <3>1. ~FixesNothing(p) /\ ~FixFails(p)
      BY DEF FixesNothing, FixFails
    <3> QED
      BY <1>3, <3>1, EarlyKeep, CloneKeeps, CommitKeeps, NothingOwedKeeps, BeginPushKeeps,
         HookPassesKeeps, HookRebasesKeeps, HookStopsKeeps, RejectedKeeps, FixKeeps, KilledKeeps
         DEF Step, Fault
  <2> QED
    BY <1>1, <2>1, <2>2, <2>3 DEF LostInv
<1> QED
  BY <1>2, <1>3 DEF Next, AllExited

LEMMA LostInvIs == LostInv => LostOnlyToRivals
<1> SUFFICES ASSUME LostInv, NEW p \in Pods, GaveUp(p), tracking[p] # Absent
             PROVE  EnoughRivals(p)
  BY DEF LostOnlyToRivals
<1>1. /\ Work(p) # Absent
      /\ Len(Work(p)) \in Nat /\ cloned[p] \in Nat /\ MaxRetries \in Nat
  BY ClonedFacts
<1>2. AtEnd(p)
  BY <1>1 DEF LostInv, Counted, Owing, GaveUp, OnRemote, Work
<1> QED
  BY <1>1, <1>2 DEF AtEnd, Paid, EnoughRivals, Rivals, Work

(***************************************************************************)
(* As long as the command that fixes conflicts works, a pod that cloned    *)
(* the work branch gives its commit up only when rivals have pushed to it  *)
(* since then, half as many at least as it has attempts (main.rs:240-277,  *)
(* git.rs:93-111).  Where that command fails, FixFails gives up at once.   *)
(***************************************************************************)
THEOREM LostOnlyToRivalsHolds ==
  ASSUME "fix" \notin Faults
  PROVE  Spec => []LostOnlyToRivals
BY LostInit, LostNext, LostInvIs, PTL DEF Spec
-----------------------------------------------------------------------------
(* Pods are finite.                                                        *)

\* An attempt is fixed only when another one is left.
AttemptOK ==
  /\ attempt \in [Pods -> 1..MaxRetries]
  /\ \A p \in Pods : pc[p] = "fix" => attempt[p] < MaxRetries

LEMMA StageIs ==
  /\ Stage["start"] = 11 /\ Stage["clone"] = 10 /\ Stage["materialize"] = 9 /\ Stage["run"] = 8
  /\ Stage["sync"] = 7 /\ Stage["publish"] = 6 /\ Stage["commit"] = 5 /\ Stage["push"] = 4
  /\ Stage["hook"] = 3 /\ Stage["send"] = 2 /\ Stage["fix"] = 1 /\ Stage["done"] = 0
BY DEF Stage

LEMMA StageType == \A phase \in Phases \ {"done"} : Stage[phase] \in 1..11
BY DEF Stage, Phases

LEMMA StepsLeftType ==
  ASSUME ControlOK, AttemptOK, NEW p \in Pods
  PROVE  StepsLeft(p) \in Nat /\ (pc[p] # "done" => StepsLeft(p) > 0)
<1>1. pc[p] \in Phases /\ attempt[p] \in 1..MaxRetries /\ MaxRetries \in Nat
  BY AgentAssumption DEF ControlOK, AttemptOK
<1>2. CASE pc[p] = "done"
  BY <1>2 DEF StepsLeft
<1>3. CASE pc[p] # "done"
  <2>1. Stage[pc[p]] \in 1..11
    BY <1>1, <1>3, StageType
  <2> QED
    BY <1>1, <1>3, <2>1 DEF StepsLeft
<1> QED
  BY <1>2, <1>3

\* Where a step takes its pod, and which attempt that is part of.
Onward(p) ==
  \/ attempt' = attempt /\ pc[p] # "done" /\ pc'[p] = "done"
  \/ attempt' = attempt /\ <<pc[p], pc'[p]>> \in
       {<<"start", "clone">>, <<"clone", "materialize">>, <<"materialize", "run">>,
        <<"run", "sync">>, <<"sync", "publish">>, <<"publish", "commit">>, <<"commit", "push">>,
        <<"push", "hook">>, <<"hook", "send">>}
  \/ /\ attempt' = attempt /\ attempt[p] < MaxRetries
     /\ pc[p] \in {"hook", "send"} /\ pc'[p] = "fix"
  \/ attempt' = [attempt EXCEPT ![p] = @ + 1] /\ pc[p] = "fix" /\ pc'[p] = "push"
  \/ /\ UNCHANGED <<pc, attempt>> /\ pc[p] = "publish"
     /\ emits[p] # <<>> /\ emits' = [emits EXCEPT ![p] = Tail(@)]

\* A failed push ends main at the last attempt only.
LEMMA FailureMoves ==
  ASSUME ControlOK, AttemptOK, NEW p \in Pods, PushFailed(p)
  PROVE  pc'[p] = "done" \/ (pc'[p] = "fix" /\ attempt[p] < MaxRetries)
<1>1. attempt[p] \in Nat /\ MaxRetries \in Nat
  BY AgentAssumption DEF AttemptOK
<1>2. CASE LastAttempt(p)
  BY <1>2, LeaveMoves, Order DEF PushFailed, ControlOK
<1>3. CASE ~LastAttempt(p)
  BY <1>1, <1>3 DEF PushFailed, LastAttempt, Goto, ControlOK
<1> QED
  BY <1>2, <1>3

LEMMA StepOnward ==
  ASSUME ControlOK, AttemptOK, NEW p \in Pods, Step(p) \/ Fault(p)
  PROVE  Onward(p)
<1>1. ASSUME NEW from, NEW to, Forward(p, from, to) PROVE pc[p] = from /\ pc'[p] = to
  BY <1>1 DEF Forward, ControlOK
<1>2. CASE \/ Connect(p) \/ CloneWorkBranch(p) \/ CloneBaseBranch(p) \/ Materialize(p)
           \/ RunCommand(p) \/ SyncBack(p) \/ AllPublished(p) \/ Commit(p)
  <2>1. attempt' = attempt
    BY <1>2 DEF Connect, CloneWorkBranch, CloneBaseBranch, Materialize, RunCommand, SyncBack,
       AllPublished, Commit
  <2> QED
    BY <1>1, <1>2, <2>1, EarlyMoves DEF Onward
<1>3. CASE PhaseFails(p) \/ PublishFails(p) \/ Killed(p)
  <2>1. attempt' = attempt /\ pc[p] # "done"
    BY <1>3 DEF PhaseFails, PublishFails, Killed
  <2>2. pc'[p] = "done"
    BY <1>3 DEF PhaseFails, PublishFails, Killed, Goto, ControlOK
  <2> QED
    BY <2>1, <2>2 DEF Onward
<1>4. CASE Publish(p)
  BY <1>4 DEF Publish, Onward
<1>5. CASE PushNothing(p) \/ SendPack(p) \/ FixFails(p)
  <2>1. attempt' = attempt /\ pc[p] # "done" /\ Leave(p, "push")
    BY <1>5 DEF PushNothing, SendPack, FixFails
  <2>2. pc'[p] = "done"
    BY <2>1, LeaveMoves, Order DEF ControlOK
  <2> QED
    BY <2>1, <2>2 DEF Onward
<1>6. CASE BeginPush(p) \/ HookPasses(p) \/ HookRebases(p)
  <2>1. /\ attempt' = attempt
        /\ \/ pc[p] = "push" /\ pc'[p] = "hook"
           \/ pc[p] = "hook" /\ pc'[p] = "send"
    BY <1>6 DEF BeginPush, HookPasses, HookRebases, HookRuns, Goto, ControlOK
  <2> QED
    BY <2>1 DEF Onward
<1>7. CASE HookHasNoUpstream(p) \/ HookStopsAtConflict(p) \/ PushRejected(p) \/ AckLost(p)
  <2>1. attempt' = attempt /\ pc[p] \in {"hook", "send"} /\ PushFailed(p)
    BY <1>7 DEF HookHasNoUpstream, HookStopsAtConflict, HookRuns, PushRejected, AckLost
  <2> QED
    BY <2>1, FailureMoves DEF Onward
<1>8. CASE Fix(p) \/ FixesNothing(p)
  <2>1. pc[p] = "fix" /\ attempt' = [attempt EXCEPT ![p] = @ + 1] /\ pc'[p] = "push"
    BY <1>8 DEF Fix, FixesNothing, Retry, Goto, ControlOK
  <2> QED
    BY <2>1 DEF Onward
<1> QED
  BY <1>2, <1>3, <1>4, <1>5, <1>6, <1>7, <1>8 DEF Step, Fault

\* What a step leaves its pod to do.
LEMMA OnwardLeaves ==
  ASSUME ControlOK, ControlOK', AttemptOK, NEW p \in Pods, Onward(p)
  PROVE  /\ \/ StepsLeft(p)' < StepsLeft(p)
            \/ StepsLeft(p)' = StepsLeft(p) /\ emits[p] # <<>> /\ emits'[p] = Tail(emits[p])
         /\ attempt' \in [Pods -> 1..MaxRetries]
         /\ pc'[p] = "fix" => attempt'[p] < MaxRetries
         /\ \A q \in Pods \ {p} : attempt'[q] = attempt[q]
<1>1. attempt[p] \in 1..MaxRetries /\ MaxRetries \in Nat
  BY AgentAssumption DEF AttemptOK
<1>2. CASE attempt' = attempt /\ pc[p] # "done" /\ pc'[p] = "done"
  <2>1. StepsLeft(p)' = 0 /\ StepsLeft(p) \in Nat /\ StepsLeft(p) > 0
    BY <1>2, StepsLeftType DEF StepsLeft
  <2> QED
    BY <1>2, <2>1 DEF AttemptOK
<1>3. ASSUME NEW from \in Phases \ {"done"}, NEW to \in Phases \ {"done"}, Stage[to] < Stage[from],
             pc[p] = from, pc'[p] = to, attempt' = attempt, to = "fix" => attempt[p] < MaxRetries
      PROVE  /\ StepsLeft(p)' < StepsLeft(p)
             /\ attempt' \in [Pods -> 1..MaxRetries]
             /\ pc'[p] = "fix" => attempt'[p] < MaxRetries
             /\ \A q \in Pods \ {p} : attempt'[q] = attempt[q]
  <2>1. Stage[from] \in 1..11 /\ Stage[to] \in 1..11
    BY StageType
  <2>2. /\ StepsLeft(p) = 4 * (MaxRetries - attempt[p]) + Stage[from]
        /\ StepsLeft(p)' = 4 * (MaxRetries - attempt[p]) + Stage[to]
    BY <1>3 DEF StepsLeft
  <2>3. StepsLeft(p)' < StepsLeft(p)
    BY <1>1, <1>3, <2>1, <2>2
  <2> QED
    BY <1>3, <2>3 DEF AttemptOK
<1>4. CASE attempt' = attempt /\ <<pc[p], pc'[p]>> \in
       {<<"start", "clone">>, <<"clone", "materialize">>, <<"materialize", "run">>,
        <<"run", "sync">>, <<"sync", "publish">>, <<"publish", "commit">>, <<"commit", "push">>,
        <<"push", "hook">>, <<"hook", "send">>}
  <2>1. pc'[p] # "fix" /\ pc[p] \in Phases \ {"done"} /\ pc'[p] \in Phases \ {"done"}
    BY <1>4 DEF Phases
  <2>2. Stage[pc'[p]] < Stage[pc[p]]
    BY <1>4, StageIs
  <2> QED
    BY <1>3, <1>4, <2>1, <2>2
<1>5. CASE /\ attempt' = attempt /\ attempt[p] < MaxRetries
           /\ pc[p] \in {"hook", "send"} /\ pc'[p] = "fix"
  <2>1. pc[p] \in Phases \ {"done"} /\ pc'[p] \in Phases \ {"done"}
    BY <1>5 DEF Phases
  <2>2. Stage[pc'[p]] < Stage[pc[p]]
    BY <1>5, StageIs
  <2> QED
    BY <1>3, <1>5, <2>1, <2>2
<1>6. CASE attempt' = [attempt EXCEPT ![p] = @ + 1] /\ pc[p] = "fix" /\ pc'[p] = "push"
  <2>1. attempt[p] < MaxRetries /\ attempt'[p] = attempt[p] + 1
    BY <1>6 DEF AttemptOK
  <2>2. /\ StepsLeft(p) = 4 * (MaxRetries - attempt[p]) + 1
        /\ StepsLeft(p)' = 4 * (MaxRetries - attempt'[p]) + 4
    BY <1>6, StageIs DEF StepsLeft
  <2>3. StepsLeft(p)' < StepsLeft(p)
    BY <1>1, <2>1, <2>2
  <2>4. attempt'[p] \in 1..MaxRetries
    BY <1>1, <2>1
  <2>5. attempt' \in [Pods -> 1..MaxRetries] /\ \A q \in Pods \ {p} : attempt'[q] = attempt[q]
    BY <1>6, <2>1, <2>4 DEF AttemptOK
  <2> QED
    BY <1>6, <2>3, <2>5
<1>7. CASE /\ UNCHANGED <<pc, attempt>> /\ pc[p] = "publish"
           /\ emits[p] # <<>> /\ emits' = [emits EXCEPT ![p] = Tail(@)]
  <2>1. StepsLeft(p)' = StepsLeft(p)
    BY <1>7 DEF StepsLeft
  <2>2. emits'[p] = Tail(emits[p])
    BY <1>7 DEF ControlOK
  <2> QED
    BY <1>7, <2>1, <2>2 DEF AttemptOK
<1> QED
  BY <1>2, <1>4, <1>5, <1>6, <1>7 DEF Onward

LEMMA AttemptInit == Init => ControlOK /\ AttemptOK
BY AgentAssumption DEF Init, ControlOK, AttemptOK, Phases

LEMMA AttemptNext == ControlOK /\ AttemptOK /\ [Next]_vars => AttemptOK'
<1> SUFFICES ASSUME ControlOK, AttemptOK, [Next]_vars PROVE AttemptOK'
  OBVIOUS
<1>1. ControlOK'
  BY ControlNext
<1>2. CASE UNCHANGED vars
  BY <1>2 DEF vars, podVars, AttemptOK
<1>3. ASSUME NEW p \in Pods, Step(p) \/ Fault(p) PROVE AttemptOK'
  <2>1. Onward(p) /\ Moves(p)
    BY <1>3, StepOnward, StepMoves
  <2>2. \A q \in Pods \ {p} : pc'[q] = pc[q] /\ attempt'[q] = attempt[q]
    BY <1>1, <2>1, OnwardLeaves, MovesOf
  <2> QED
    BY <1>1, <2>1, <2>2, OnwardLeaves DEF AttemptOK
<1> QED
  BY <1>2, <1>3 DEF Next, AllExited

(***************************************************************************)
(* A pod takes at most eleven steps and four for each further attempt to   *)
(* push, and one for each event it publishes, however many pods race and   *)
(* whatever fails (main.rs:86-284).                                        *)
(***************************************************************************)
THEOREM PodsWindDownHolds == Spec => PodsWindDown
<1>1. ASSUME ControlOK, ControlOK', AttemptOK, AttemptOK', [Next]_vars
      PROVE  [\E p \in Pods :
                /\ StepsLeft(p)' \in Nat
                /\ \/ StepsLeft(p)' < StepsLeft(p)
                   \/ StepsLeft(p)' = StepsLeft(p) /\ emits[p] # <<>> /\ emits'[p] = Tail(emits[p])
                /\ \A q \in Pods \ {p} : StepsLeft(q)' = StepsLeft(q) /\ emits'[q] = emits[q]]_vars
  <2> SUFFICES ASSUME ~UNCHANGED vars
               PROVE  \E p \in Pods :
                /\ StepsLeft(p)' \in Nat
                /\ \/ StepsLeft(p)' < StepsLeft(p)
                   \/ StepsLeft(p)' = StepsLeft(p) /\ emits[p] # <<>> /\ emits'[p] = Tail(emits[p])
                /\ \A q \in Pods \ {p} : StepsLeft(q)' = StepsLeft(q) /\ emits'[q] = emits[q]
    OBVIOUS
  <2>1. PICK p \in Pods : Step(p) \/ Fault(p)
    BY <1>1 DEF Next, AllExited
  <2>2. Onward(p) /\ Moves(p)
    BY <1>1, <2>1, StepOnward, StepMoves
  <2>3. StepsLeft(p)' \in Nat
    <3>1. (StepsLeft(p) \in Nat)'
      BY <1>1, StepsLeftType, PTL
    <3> QED
      BY <3>1
  <2>4. ASSUME NEW q \in Pods \ {p} PROVE StepsLeft(q)' = StepsLeft(q) /\ emits'[q] = emits[q]
    <3>1. pc'[q] = pc[q] /\ emits'[q] = emits[q] /\ attempt'[q] = attempt[q]
      BY <1>1, <2>2, MovesOf, OnwardLeaves
    <3> QED
      BY <3>1 DEF StepsLeft
  <2> QED
    BY <1>1, <2>2, <2>3, <2>4, OnwardLeaves
<1> QED
  BY <1>1, AttemptInit, ControlNext, AttemptNext, PTL DEF Spec, PodsWindDown
=============================================================================
