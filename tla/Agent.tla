-------------------------------- MODULE Agent --------------------------------
(***************************************************************************)
(* boring-agent, the entry point of a pod: boring-agent/src/main.rs and    *)
(* git.rs, with bin/emit.rs.  The pods of a batch run side by side over    *)
(* one git remote, one store and one stream.                               *)
(*                                                                         *)
(* Git, the AI command and the command that fixes conflicts are external.  *)
(* A pod makes at most one commit, named after it; a branch is the         *)
(* sequence of the commits made on top of the base branch.                 *)
(***************************************************************************)
EXTENDS FiniteSets, Integers, Sequences, SequencesExt

CONSTANTS
  Pods,
  Absent,           \* the remote has no such branch, the clone no such ref
  Strategy,         \* git.branch_strategy: "Shared" or "PerHat"
  Fresh,            \* TRUE: no hat has pushed the work branches before
  EmitFiles,        \* sequences of emit calls a command may make
  MaxRetries,       \* main.rs:240
  Faults            \* what may fail: a subset of FaultKinds

FaultKinds ==
  {"phase",         \* a phase before the push fails
   "publish",       \* so does a publish, whether or not it arrived
   "clone",         \* cloning the work branch fails although it is there
   "conflict",      \* commits touch the same files
   "ack",           \* a push that was accepted is reported as failed
   "fix",           \* the fixing command fails, or fixes nothing
   "deadline"}      \* the cluster ends the pod

ASSUME AgentAssumption ==
  /\ IsFiniteSet(Pods)
  /\ Absent \notin Seq(Pods)
  /\ MaxRetries \in Nat \ {0}
  /\ Strategy \in {"Shared", "PerHat"}
  /\ Fresh \in BOOLEAN
  /\ Faults \subseteq FaultKinds

(***************************************************************************)
(* bin/emit.rs.  Each call appends one line of JSON to the emit file.      *)
(* Only double quotes are escaped: an argument with a backslash or a line  *)
(* break ("raw") makes a line that does not parse.  An event with an empty *)
(* topic is written, too.                                                  *)
(***************************************************************************)
Calls == [kind : {"event", "complete", "note"}, text : {"plain", "raw", "empty"}]

Parses(call) == call.text # "raw"

\* main.rs:190-221: the lines that make the agent publish something.
IsPublished(call) ==
  /\ Parses(call)
  /\ \/ call.kind = "event" /\ call.text # "empty"
     \/ call.kind = "complete"

Effective(file) == SelectSeq(file, IsPublished)

-----------------------------------------------------------------------------
(***************************************************************************)
(* job_builder.rs:69-72 writes the strategy with {:?} in lower case, and   *)
(* main.rs:99 compares it with "per_hat".                                  *)
(***************************************************************************)
StrategyArgument == CASE Strategy = "Shared" -> "shared" [] Strategy = "PerHat" -> "perhat"

MainBranch == "main"
WorkBranch(p) == IF StrategyArgument = "per_hat" THEN p ELSE MainBranch
Branches == Pods \cup {MainBranch}

VARIABLES
  pc,               \* where main stands
  exit,             \* "running", "ok" (status 0), "error" or "killed"
  file,             \* the emit file of the pod: the calls made by its command
  emits,            \* what is still to be published of it
  stream,           \* the run's subject
  synced,           \* the pods whose workspace is in the store
  remote,           \* the branches at the remote
  base,             \* what the pod's work branch is built on
  committed,        \* whether its own commit is on top of that
  tracking,         \* origin/<work branch> in the clone
  advertised,       \* what the remote said at the beginning of a push
  offered,          \* what is to be pushed, fixed at the same moment
  rebasing,         \* a rebase has stopped at a conflict
  attempt,          \* of the loop at main.rs:241
  cloned            \* ghost: length of the work branch when it was cloned

podVars == <<file, emits, stream, synced>>
cloneVars == <<base, committed, tracking, rebasing, cloned>>
pushVars == <<advertised, offered>>
vars == <<pc, exit, podVars, remote, cloneVars, pushVars, attempt>>

Commits == Seq(Pods)
Branch == Commits \cup {Absent}
Phases == {"start", "clone", "materialize", "run", "sync", "publish", "commit",
           "push", "hook", "send", "fix", "done"}

TypeOK ==
  /\ pc \in [Pods -> Phases]
  /\ exit \in [Pods -> {"running", "ok", "error", "killed"}]
  /\ file \in [Pods -> Seq(Calls)]
  /\ emits \in [Pods -> Seq(Calls)]
  /\ stream \in Seq([pod : Pods, event : Calls])
  /\ synced \subseteq Pods
  /\ remote \in [Branches -> Branch]
  /\ base \in [Pods -> Commits]
  /\ committed \in [Pods -> BOOLEAN]
  /\ tracking \in [Pods -> Branch]
  /\ advertised \in [Pods -> Branch]
  /\ offered \in [Pods -> Commits]
  /\ rebasing \in [Pods -> BOOLEAN]
  /\ attempt \in [Pods -> 1..MaxRetries]
  /\ cloned \in [Pods -> Nat]

Init ==
  /\ pc = [p \in Pods |-> "start"]
  /\ exit = [p \in Pods |-> "running"]
  /\ file = [p \in Pods |-> <<>>]
  /\ emits = [p \in Pods |-> <<>>]
  /\ stream = <<>>
  /\ synced = {}
  /\ remote = [b \in Branches |-> IF Fresh THEN Absent ELSE <<>>]
  /\ base = [p \in Pods |-> <<>>]
  /\ committed = [p \in Pods |-> FALSE]
  /\ tracking = [p \in Pods |-> Absent]
  /\ advertised = [p \in Pods |-> Absent]
  /\ offered = [p \in Pods |-> <<>>]
  /\ rebasing = [p \in Pods |-> FALSE]
  /\ attempt = [p \in Pods |-> 1]
  /\ cloned = [p \in Pods |-> 0]

-----------------------------------------------------------------------------
\* What the pod's work branch holds.
Local(p) == IF committed[p] THEN Append(base[p], p) ELSE base[p]

\* Mutation: the workspace is written back when the events are out.
AfterEventsFirst(phase) ==
  CASE phase = "start" -> "clone" [] phase = "clone" -> "materialize"
    [] phase = "materialize" -> "run" [] phase = "run" -> "publish"
    [] phase = "publish" -> "sync" [] phase = "sync" -> "commit"
    [] phase = "commit" -> "push" [] phase = "push" -> "done"

\* Mutation: code is pushed before the workspace is written back.
AfterPushFirst(phase) ==
  CASE phase = "start" -> "clone" [] phase = "clone" -> "materialize"
    [] phase = "materialize" -> "run" [] phase = "run" -> "commit"
    [] phase = "commit" -> "push" [] phase = "push" -> "sync"
    [] phase = "sync" -> "publish" [] phase = "publish" -> "done"

\* The order of the phases of main.
After(phase) ==
  CASE phase = "start" -> "clone" [] phase = "clone" -> "materialize"
    [] phase = "materialize" -> "run" [] phase = "run" -> "sync"
    [] phase = "sync" -> "publish" [] phase = "publish" -> "commit"
    [] phase = "commit" -> "push" [] phase = "push" -> "done"

Goto(p, phase) == pc' = [pc EXCEPT ![p] = phase]

\* A phase is over; after the last one main returns Ok.
Leave(p, phase) ==
  /\ Goto(p, After(phase))
  /\ exit' = IF After(phase) = "done" THEN [exit EXCEPT ![p] = "ok"] ELSE exit

(***************************************************************************)
(* Phases 1 to 5.                                                          *)
(***************************************************************************)
Connect(p) ==
  /\ pc[p] = "start"
  /\ Leave(p, "start")
  /\ UNCHANGED <<podVars, remote, cloneVars, pushVars, attempt>>

\* git.rs:52: the work branch was cloned; origin/<work branch> exists.
CloneWorkBranch(p) ==
  /\ pc[p] = "clone"
  /\ remote[WorkBranch(p)] # Absent
  /\ base' = [base EXCEPT ![p] = remote[WorkBranch(p)]]
  /\ tracking' = [tracking EXCEPT ![p] = remote[WorkBranch(p)]]
  /\ cloned' = [cloned EXCEPT ![p] = Len(remote[WorkBranch(p)])]
  /\ Leave(p, "clone")
  /\ UNCHANGED <<podVars, remote, committed, rebasing, pushVars, attempt>>

(***************************************************************************)
(* git.rs:54: whatever made that clone fail, the base branch is cloned     *)
(* instead, with --single-branch: this clone fetches the base branch only, *)
(* so origin/<work branch> does not come into being.                       *)
(***************************************************************************)
CloneBaseBranch(p) ==
  /\ pc[p] = "clone"
  /\ remote[WorkBranch(p)] = Absent \/ "clone" \in Faults
  /\ Leave(p, "clone")
  /\ UNCHANGED <<podVars, remote, cloneVars, pushVars, attempt>>

Materialize(p) ==
  /\ pc[p] = "materialize"
  /\ Leave(p, "materialize")
  /\ UNCHANGED <<podVars, remote, cloneVars, pushVars, attempt>>

RunCommand(p) ==
  /\ pc[p] = "run"
  /\ \E calls \in EmitFiles :
       /\ file' = [file EXCEPT ![p] = calls]
       /\ emits' = [emits EXCEPT ![p] = Effective(calls)]
  /\ Leave(p, "run")
  /\ UNCHANGED <<stream, synced, remote, cloneVars, pushVars, attempt>>

SyncBack(p) ==
  /\ pc[p] = "sync"
  /\ synced' = synced \cup {p}
  /\ Leave(p, "sync")
  /\ UNCHANGED <<file, emits, stream, remote, cloneVars, pushVars, attempt>>

\* Every error of these phases leaves main with `?` or exit(1).
PhaseFails(p) ==
  /\ "phase" \in Faults
  /\ pc[p] \in {"start", "clone", "materialize", "run", "sync", "publish"}
  /\ Goto(p, "done")
  /\ exit' = [exit EXCEPT ![p] = "error"]
  /\ UNCHANGED <<podVars, remote, cloneVars, pushVars, attempt>>

-----------------------------------------------------------------------------
(***************************************************************************)
(* Phase 6, main.rs:188-225: one event per effective line.                 *)
(***************************************************************************)
Emitted(p) == Append(stream, [pod |-> p, event |-> Head(emits[p])])

Publish(p) ==
  /\ pc[p] = "publish"
  /\ emits[p] # <<>>
  /\ stream' = Emitted(p)
  /\ emits' = [emits EXCEPT ![p] = Tail(@)]
  /\ UNCHANGED <<pc, exit, file, synced, remote, cloneVars, pushVars, attempt>>

\* Mutation: the error only ends the loop over the lines.
PublishFailsQuietly(p) ==
  /\ "publish" \in Faults
  /\ pc[p] = "publish"
  /\ emits[p] # <<>>
  /\ Leave(p, "publish")
  /\ UNCHANGED <<podVars, remote, cloneVars, pushVars, attempt>>

PublishFails(p) ==
  /\ "publish" \in Faults
  /\ pc[p] = "publish"
  /\ emits[p] # <<>>
  /\ stream' \in {stream, Emitted(p)}
  /\ Goto(p, "done")
  /\ exit' = [exit EXCEPT ![p] = "error"]
  /\ UNCHANGED <<file, emits, synced, remote, cloneVars, pushVars, attempt>>

AllPublished(p) ==
  /\ pc[p] = "publish"
  /\ emits[p] = <<>>
  /\ Leave(p, "publish")
  /\ UNCHANGED <<podVars, remote, cloneVars, pushVars, attempt>>

(***************************************************************************)
(* Phase 7, main.rs:228-281.  The results of git add and git commit are    *)
(* ignored; there may be nothing to commit.                                *)
(***************************************************************************)
Commit(p) ==
  /\ pc[p] = "commit"
  /\ committed' \in {committed, [committed EXCEPT ![p] = TRUE]}
  /\ Leave(p, "commit")
  /\ UNCHANGED <<podVars, remote, base, tracking, rebasing, cloned, pushVars, attempt>>

\* git.rs:132-151: git log says that there is nothing new.
NothingNew(p) ==
  /\ tracking[p] # Absent
  /\ Range(Local(p)) \subseteq Range(tracking[p])

\* push returns Ok(false), and the loop is left.
PushNothing(p) ==
  /\ pc[p] = "push"
  /\ NothingNew(p)
  /\ Leave(p, "push")
  /\ UNCHANGED <<podVars, remote, cloneVars, pushVars, attempt>>

\* git push asks for the remote's refs and fixes what it will send.
BeginPush(p) ==
  /\ pc[p] = "push"
  /\ ~NothingNew(p)
  /\ advertised' = [advertised EXCEPT ![p] = remote[WorkBranch(p)]]
  /\ offered' = [offered EXCEPT ![p] = Local(p)]
  /\ Goto(p, "hook")
  /\ UNCHANGED <<exit, podVars, remote, cloneVars, attempt>>

(***************************************************************************)
(* git push has failed: the loop asks the AI to fix it, unless this was    *)
(* the last attempt (main.rs:251-268).  Giving up is not an error.         *)
(***************************************************************************)
\* Mutation: one attempt fewer.
LastAttemptEarly(p) == attempt[p] + 1 >= MaxRetries
LastAttempt(p) == attempt[p] >= MaxRetries

PushFailed(p) == IF LastAttempt(p) THEN Leave(p, "push") ELSE Goto(p, "fix") /\ UNCHANGED exit

(***************************************************************************)
(* The pre-push hook, git.rs:93-111.  It passes when a rebase is going on, *)
(* since the branch has no name then, or when the remote has no such       *)
(* branch.  Otherwise it fetches and rebases; git push will nevertheless   *)
(* send what it fixed before.                                              *)
(***************************************************************************)
HookPasses(p) ==
  /\ pc[p] = "hook"
  /\ rebasing[p] \/ remote[WorkBranch(p)] = Absent
  /\ Goto(p, "send")
  /\ UNCHANGED <<exit, podVars, remote, cloneVars, pushVars, attempt>>

HookRuns(p) ==
  /\ pc[p] = "hook"
  /\ ~rebasing[p]
  /\ remote[WorkBranch(p)] # Absent

\* There is no origin/<work branch>: `git rebase` has no upstream and fails.
HookHasNoUpstream(p) ==
  /\ HookRuns(p)
  /\ tracking[p] = Absent
  /\ PushFailed(p)
  /\ UNCHANGED <<podVars, remote, cloneVars, pushVars, attempt>>

\* A commit the remote already has is dropped by the rebase.
StillOwn(p, branch) == committed[p] /\ p \notin Range(branch)

HookRebases(p) ==
  /\ HookRuns(p)
  /\ tracking[p] # Absent
  /\ tracking' = [tracking EXCEPT ![p] = remote[WorkBranch(p)]]
  /\ base' = [base EXCEPT ![p] = remote[WorkBranch(p)]]
  /\ committed' = [committed EXCEPT ![p] = StillOwn(p, remote[WorkBranch(p)])]
  /\ Goto(p, "send")
  /\ UNCHANGED <<exit, podVars, remote, rebasing, cloned, pushVars, attempt>>

HookStopsAtConflict(p) ==
  /\ HookRuns(p)
  /\ "conflict" \in Faults
  /\ tracking[p] # Absent
  /\ StillOwn(p, remote[WorkBranch(p)])
  /\ base[p] # remote[WorkBranch(p)]
  /\ tracking' = [tracking EXCEPT ![p] = remote[WorkBranch(p)]]
  /\ rebasing' = [rebasing EXCEPT ![p] = TRUE]
  /\ PushFailed(p)
  /\ UNCHANGED <<podVars, remote, base, committed, cloned, pushVars, attempt>>

(***************************************************************************)
(* The remote takes what is offered if the branch is as it was advertised  *)
(* and the offer is built on it.                                           *)
(***************************************************************************)
Accepts(p) ==
  /\ remote[WorkBranch(p)] = advertised[p]
  /\ advertised[p] # Absent => IsPrefix(advertised[p], offered[p])

Accepted(p) ==
  /\ Accepts(p)
  /\ remote' = [remote EXCEPT ![WorkBranch(p)] = offered[p]]

SendPack(p) ==
  /\ pc[p] = "send"
  /\ Accepted(p)
  /\ tracking' = IF tracking[p] = Absent THEN tracking
                 ELSE [tracking EXCEPT ![p] = offered[p]]
  /\ Leave(p, "push")
  /\ UNCHANGED <<podVars, base, committed, rebasing, cloned, pushVars, attempt>>

PushRejected(p) ==
  /\ pc[p] = "send"
  /\ ~Accepts(p)
  /\ PushFailed(p)
  /\ UNCHANGED <<podVars, remote, cloneVars, pushVars, attempt>>

\* The branch is updated but git push does not learn of it.
AckLost(p) ==
  /\ "ack" \in Faults
  /\ pc[p] = "send"
  /\ Accepted(p)
  /\ PushFailed(p)
  /\ UNCHANGED <<podVars, cloneVars, pushVars, attempt>>

(***************************************************************************)
(* main.rs:261-277.  The AI is told to finish the rebase that has stopped. *)
(* Without such a rebase there is nothing for it to do.                    *)
(***************************************************************************)
\* Mutation: attempts are not counted.
RetryUncounted(p) ==
  /\ Goto(p, "push")
  /\ UNCHANGED <<exit, podVars, remote, pushVars, attempt>>

Retry(p) ==
  /\ attempt' = [attempt EXCEPT ![p] = @ + 1]
  /\ Goto(p, "push")
  /\ UNCHANGED <<exit, podVars, remote, pushVars>>

Fix(p) ==
  /\ pc[p] = "fix"
  /\ base' = IF rebasing[p] THEN [base EXCEPT ![p] = tracking[p]] ELSE base
  /\ rebasing' = [rebasing EXCEPT ![p] = FALSE]
  /\ Retry(p)
  /\ UNCHANGED <<committed, tracking, cloned>>

FixesNothing(p) ==
  /\ "fix" \in Faults
  /\ pc[p] = "fix"
  /\ Retry(p)
  /\ UNCHANGED cloneVars

FixFails(p) ==
  /\ "fix" \in Faults
  /\ pc[p] = "fix"
  /\ Leave(p, "push")
  /\ UNCHANGED <<podVars, remote, cloneVars, pushVars, attempt>>

(***************************************************************************)
(* k8s.rs:98: active_deadline_seconds ends the pod wherever main stands.   *)
(* What it was publishing or pushing may have arrived.                     *)
(***************************************************************************)
Killed(p) ==
  /\ "deadline" \in Faults
  /\ pc[p] # "done"
  /\ Goto(p, "done")
  /\ exit' = [exit EXCEPT ![p] = "killed"]
  /\ \/ UNCHANGED <<stream, remote>>
     \/ pc[p] = "publish" /\ emits[p] # <<>> /\ stream' = Emitted(p) /\ UNCHANGED remote
     \/ pc[p] = "send" /\ Accepted(p) /\ UNCHANGED stream
  /\ UNCHANGED <<file, emits, synced, cloneVars, pushVars, attempt>>

-----------------------------------------------------------------------------
Step(p) ==
  \/ Connect(p) \/ CloneWorkBranch(p) \/ CloneBaseBranch(p) \/ Materialize(p)
  \/ RunCommand(p) \/ SyncBack(p) \/ Publish(p) \/ AllPublished(p)
  \/ Commit(p) \/ PushNothing(p) \/ BeginPush(p)
  \/ HookPasses(p) \/ HookHasNoUpstream(p) \/ HookRebases(p)
  \/ SendPack(p) \/ PushRejected(p) \/ Fix(p)

Fault(p) ==
  \/ PhaseFails(p) \/ PublishFails(p) \/ HookStopsAtConflict(p)
  \/ AckLost(p) \/ FixesNothing(p) \/ FixFails(p) \/ Killed(p)

AllExited == (\A p \in Pods : pc[p] = "done") /\ UNCHANGED vars

Next == (\E p \in Pods : Step(p) \/ Fault(p)) \/ AllExited

Spec == Init /\ [][Next]_vars

-----------------------------------------------------------------------------
(***************************************************************************)
(* Properties.                                                             *)
(***************************************************************************)
OnRemote(p) == remote[WorkBranch(p)] # Absent /\ p \in Range(remote[WorkBranch(p)])

\* An event can be read only when the workspace of its pod is in the store.
SyncedBeforeHeard == \A i \in DOMAIN stream : stream[i].pod \in synced

\* A pod that ends with an error of its own has pushed nothing, so a second try
\* of the hat starts from the branch as it was.  One ended by its deadline may have.
FailureIsClean == \A p \in Pods : exit[p] = "error" => ~OnRemote(p)

(***************************************************************************)
(* Work is given up (main.rs:252-255) only for rivals: the fixing command  *)
(* assumed to work, a pod that cloned the work branch gives up only when   *)
(* others have pushed to it since then, and one rival is not enough for    *)
(* three attempts.  A rival costs two when it lands between the hook and   *)
(* the sending: that attempt is rejected, and so is the next, whose offer  *)
(* is fixed before its hook rebases.                                       *)
(***************************************************************************)
GaveUp(p) == exit[p] = "ok" /\ committed[p] /\ ~OnRemote(p)
Rivals(p) == Len(remote[WorkBranch(p)]) - cloned[p]
EnoughRivals(p) == 2 * Rivals(p) >= MaxRetries

LostOnlyToRivals ==
  \A p \in Pods : GaveUp(p) /\ tracking[p] # Absent => EnoughRivals(p)

(***************************************************************************)
(* No pod goes on forever, whatever fails and whoever pushes: each of its  *)
(* steps leaves it fewer to take, or as many and one event less to         *)
(* publish, and gives no other pod more to do (main.rs:86-284, the loop of *)
(* pushes at 240-281). As some pod can go on until all are done, all end.  *)
(***************************************************************************)
Stage ==
  [start |-> 11, clone |-> 10, materialize |-> 9, run |-> 8, sync |-> 7, publish |-> 6,
   commit |-> 5, push |-> 4, hook |-> 3, send |-> 2, fix |-> 1, done |-> 0]

StepsLeft(p) ==
  IF pc[p] = "done" THEN 0 ELSE 4 * (MaxRetries - attempt[p]) + Stage[pc[p]]

PodsWindDown ==
  [][\E p \in Pods :
       /\ StepsLeft(p)' \in Nat
       /\ \/ StepsLeft(p)' < StepsLeft(p)
          \/ StepsLeft(p)' = StepsLeft(p) /\ emits[p] # <<>> /\ emits'[p] = Tail(emits[p])
       /\ \A q \in Pods \ {p} : StepsLeft(q)' = StepsLeft(q) /\ emits'[q] = emits[q]]_vars

-----------------------------------------------------------------------------
(***************************************************************************)
(* The pod the controller sees: everything before the command's success is *)
(* "running", everything after it "publishing".                            *)
(***************************************************************************)
Status(p) ==
  CASE exit[p] = "ok" -> "succeeded"
    [] exit[p] \in {"error", "killed"} -> "failed"
    [] exit[p] = "running" ->
         IF pc[p] \in {"start", "clone", "materialize", "run"} THEN "running" ELSE "publishing"

Job == INSTANCE PodJob WITH
  Emissions <- {Effective(calls) : calls \in EmitFiles},
  outbox <- emits,
  status <- [p \in Pods |-> Status(p)]

\* A pod does what the controller's model assumes of it.
JobContract == Job!Spec
=============================================================================
