---------------------------- MODULE ChildRuntime ----------------------------
(***************************************************************************)
(* The runtimes that start child processes: boring-runtime/src/local.rs    *)
(* (bash) and docker.rs (docker run).  The child is a wrapper around the   *)
(* command: killing it, SIGKILL to bash or to the docker client, does not  *)
(* end what it started.                                                    *)
(***************************************************************************)
EXTENDS Integers, FiniteSets

CONSTANTS
  Calls,            \* calls of create_job, each with the wait and the cancel that follow
  Kind,             \* "local" or "docker"
  MaxFaults         \* bound: spawns, waits and docker kills that fail

Nobody == "nobody"

ASSUME ChildAssumption ==
  /\ IsFiniteSet(Calls) /\ Nobody \notin Calls
  /\ Kind \in {"local", "docker"}
  /\ MaxFaults \in Nat

VARIABLES
  pc,               \* of each call: how far it is, see PCs
  handle,           \* the number in the handle its create returns
  nextId,           \* next_id
  children,         \* the table: handle -> the call whose child it holds
  names,            \* container_names: handles (docker only)
  child,            \* each call's child process
  command,          \* and the command or container under it
  told,             \* what the caller of wait_job was told
  cancelled,        \* calls whose handle was given to cancel_job
  cancelling,       \* those of them whose container is still to be killed (docker only)
  faults

vars == <<pc, handle, nextId, children, names, child, command, told, cancelled, cancelling,
          faults>>

Handles == 0..Cardinality(Calls)

PCs == {"idle", "numbered", "created", "taken", "missing", "waiting", "done"}

TypeOK ==
  /\ pc \in [Calls -> PCs]
  /\ handle \in [Calls -> Handles]
  /\ nextId \in Handles
  /\ children \in [Handles -> Calls \cup {Nobody}]
  /\ names \subseteq Handles
  /\ child \in [Calls -> {"none", "running", "ok", "failed", "killed"}]
  /\ command \in [Calls -> {"none", "running", "over"}]
  /\ told \in [Calls -> {"none", "ok", "failed", "error"}]
  /\ cancelled \subseteq Calls
  /\ cancelling \subseteq Calls
  /\ faults \in 0..MaxFaults

Init ==
  /\ pc = [c \in Calls |-> "idle"]
  /\ handle = [c \in Calls |-> 0]
  /\ nextId = 0
  /\ children = [h \in Handles |-> Nobody]
  /\ names = {}
  /\ child = [c \in Calls |-> "none"]
  /\ command = [c \in Calls |-> "none"]
  /\ told = [c \in Calls |-> "none"]
  /\ cancelled = {}
  /\ cancelling = {}
  /\ faults = 0

-----------------------------------------------------------------------------
Goto(c, where) == pc' = [pc EXCEPT ![c] = where]

Tell(c, what) == told' = [told EXCEPT ![c] = what] /\ Goto(c, "done")

Fault == faults < MaxFaults /\ faults' = faults + 1

FollowingId(id) == id + 1

\* Under the lock of next_id; the child is started after its release.
TakeId(c) ==
  /\ pc[c] = "idle"
  /\ handle' = [handle EXCEPT ![c] = nextId]
  /\ nextId' = FollowingId(nextId)
  /\ Goto(c, "numbered")
  /\ UNCHANGED <<children, names, child, command, told, cancelled, cancelling, faults>>

Spawn(c) ==
  /\ pc[c] = "numbered"
  /\ children' = [children EXCEPT ![handle[c]] = c]
  /\ names' = IF Kind = "docker" THEN names \cup {handle[c]} ELSE names
  /\ child' = [child EXCEPT ![c] = "running"]
  /\ command' = [command EXCEPT ![c] = "running"]
  /\ Goto(c, "created")
  /\ UNCHANGED <<handle, nextId, told, cancelled, cancelling, faults>>

SpawnFails(c) ==
  /\ pc[c] = "numbered"
  /\ Fault
  /\ Tell(c, "error")
  /\ UNCHANGED <<handle, nextId, children, names, child, command, cancelled, cancelling>>

\* The child ends with the command, and with its exit code (pipefail).
Ends(c) ==
  /\ command[c] = "running"
  /\ command' = [command EXCEPT ![c] = "over"]
  /\ \E o \in {"ok", "failed"} :
       child' = IF child[c] = "running" THEN [child EXCEPT ![c] = o] ELSE child
  /\ UNCHANGED <<pc, handle, nextId, children, names, told, cancelled, cancelling, faults>>

-----------------------------------------------------------------------------
(***************************************************************************)
(* The table gives a child away once, to a wait or to a cancel.  Under a   *)
(* lock of its own, docker then forgets the name of the container.         *)
(***************************************************************************)
Remove(h) == children' = [children EXCEPT ![h] = Nobody]

Wait(c) ==
  /\ pc[c] = "created"
  /\ Remove(handle[c])
  /\ Goto(c, IF children[handle[c]] = Nobody THEN "missing"
             ELSE IF Kind = "docker" THEN "taken" ELSE "waiting")
  /\ UNCHANGED <<handle, nextId, names, child, command, told, cancelled, cancelling, faults>>

Forget(c) == names' = names \ {handle[c]}

Forgotten(c) ==
  /\ pc[c] = "taken"
  /\ Forget(c)
  /\ Goto(c, "waiting")
  /\ UNCHANGED <<handle, nextId, children, child, command, told, cancelled, cancelling, faults>>

NotFound(c) ==
  /\ pc[c] = "missing"
  /\ Forget(c)
  /\ Tell(c, "failed")
  /\ UNCHANGED <<handle, nextId, children, child, command, cancelled, cancelling, faults>>

\* Mutation: the exit code is not looked at.
SuccessAlways(status) == "ok"
Verdict(status) == IF status = "ok" THEN "ok" ELSE "failed"

\* Mutation: only a success is noticed.
ReapedOk(status) == status = "ok"
Reaped(status) == status \in {"ok", "failed"}

Waited(c) ==
  /\ pc[c] = "waiting"
  /\ Reaped(child[c])
  /\ Tell(c, Verdict(child[c]))
  /\ UNCHANGED <<handle, nextId, children, names, child, command, cancelled, cancelling, faults>>

WaitFails(c) ==
  /\ pc[c] = "waiting"
  /\ Fault
  /\ Tell(c, "error")
  /\ UNCHANGED <<handle, nextId, children, names, child, command, cancelled, cancelling>>

(***************************************************************************)
(* cancel_job.  Killing a child nobody has waited for does not fail; the   *)
(* result of docker kill is ignored.  Between the two, or between the two  *)
(* removals of a wait, others go on: a cancel that comes too late for the  *)
(* child may find the name, and the child then ends with its container.    *)
(***************************************************************************)
MayCancel(c) == pc[c] \in {"created", "taken", "missing", "waiting"} /\ c \notin cancelled

Cancel(c) ==
  LET victim == children[handle[c]] IN
  /\ MayCancel(c)
  /\ Remove(handle[c])
  /\ child' = [d \in Calls |->
                 IF d = victim /\ child[d] = "running" THEN "killed" ELSE child[d]]
  /\ cancelled' = cancelled \cup {c}
  /\ cancelling' = IF Kind = "docker" THEN cancelling \cup {c} ELSE cancelling
  /\ UNCHANGED <<pc, handle, nextId, names, command, told, faults>>

ContainerEnds(c) ==
  /\ command[c] = "running"
  /\ command' = [command EXCEPT ![c] = "over"]
  /\ child' = IF child[c] = "running" THEN [child EXCEPT ![c] = "failed"] ELSE child

CancelContainer(c) ==
  /\ c \in cancelling
  /\ cancelling' = cancelling \ {c}
  /\ Forget(c)
  /\ \/ handle[c] \in names /\ ContainerEnds(c) /\ UNCHANGED faults
     \/ handle[c] \in names /\ Fault /\ UNCHANGED <<command, child>>
     \/ ~(handle[c] \in names /\ command[c] = "running") /\ UNCHANGED <<command, child, faults>>
  /\ UNCHANGED <<pc, handle, nextId, children, told, cancelled>>

AllDone == (\A c \in Calls : pc[c] = "done") /\ UNCHANGED vars

Step(c) ==
  \/ TakeId(c) \/ Spawn(c) \/ SpawnFails(c)
  \/ Wait(c) \/ Forgotten(c) \/ NotFound(c) \/ Waited(c) \/ WaitFails(c)

\* A wait for a child that runs does nothing.
Blocked(c) == pc[c] = "waiting" /\ ~Reaped(child[c]) /\ UNCHANGED vars

Next ==
  \/ \E c \in Calls :
       Step(c) \/ Ends(c) \/ Blocked(c) \/ Cancel(c) \/ CancelContainer(c)
  \/ AllDone

\* The runtime's tasks run on, and no request has to fail; nothing makes a command end.
Spec == Init /\ [][Next]_vars /\ \A c \in Calls : WF_vars(Step(c) /\ UNCHANGED faults)

-----------------------------------------------------------------------------
(***************************************************************************)
(* Properties.                                                             *)
(***************************************************************************)
Runtime == INSTANCE JobRuntime WITH
  execution <- child,
  answer <- told

\* The runtime keeps the trait's promise: a wait reports the end of the child
\* its own create started, whoever else creates, waits and cancels.
Contract == Runtime!Spec

\* A child is in the table or with the one wait it was given to; a table
\* entry is nobody else's.
OwnEntry ==
  \A h \in Handles : children[h] # Nobody =>
    handle[children[h]] = h /\ pc[children[h]] = "created"

\* No wait outlives its child.
AnsweredAtEnd ==
  \A c \in Calls : (pc[c] = "created" /\ child[c] \notin {"none", "running"}) ~> (pc[c] = "done")
=============================================================================
