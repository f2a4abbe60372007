----------------------------- MODULE K8sRuntime -----------------------------
(***************************************************************************)
(* The runtime that makes Kubernetes jobs, boring-runtime/src/k8s.rs, with *)
(* the part of the cluster it talks to.  All calls are of one run, so a    *)
(* handle (run and hat, k8s.rs:183) is a hat.                              *)
(*                                                                         *)
(* Calls of the runtime interleave at each await: a wait looks the handle  *)
(* up, polls the job, fetches its log and forgets the handle, and a cancel *)
(* may come between any two of these.  The API server may refuse or fail   *)
(* any request, MaxFaults times in all.                                    *)
(***************************************************************************)
EXTENDS Integers

CONSTANTS
  Calls,            \* calls of create_job, each with the wait and the cancel that follow
  Hats,
  HatOf,            \* the hat each call is for
  LongHats,         \* hats whose id leaves no room for the unique suffix
  Overlap,          \* may a hat have two jobs at a time (the controller's never has)
  MaxFaults         \* bound: failing requests and jobs that others delete

ASSUME K8sAssumption ==
  /\ HatOf \in [Calls -> Hats]
  /\ LongHats \subseteq Hats
  /\ Overlap \in BOOLEAN
  /\ MaxFaults \in Nat

VARIABLES
  pc,               \* of each call: how far it is, see PCs
  job,              \* what the cluster knows of the job it made
  active,           \* active_jobs: handle -> job name
  name,             \* the local job_name of its wait
  saw,              \* the status its last poll returned
  told,             \* what its caller was told, and with which log
  cancelled,        \* calls whose cancel_job returned Ok
  faults

vars == <<pc, job, active, name, saw, told, cancelled, faults>>

(***************************************************************************)
(* boring-<hat>-<8 digits of a uuid>, cut to 63 characters: the digits are *)
(* those of the call, unless the hat is so long that all are cut off.      *)
(***************************************************************************)
JobName(c) == IF HatOf[c] \in LongHats THEN <<HatOf[c]>> ELSE <<HatOf[c], c>>

Names == {JobName(c) : c \in Calls}
NoName == <<>>

\* A call is idle; has created its job; waits, having looked up the name; has
\* seen the job end, "log" until the log is there; or is done.
PCs == {"idle", "created", "waiting", "log", "done"}
Statuses == {"running", "succeeded", "failed"}
Jobs == [status : {"none"} \cup Statuses, exists : BOOLEAN]
Tellings == {"none", "ok", "ok without log", "failed", "error"}

TypeOK ==
  /\ pc \in [Calls -> PCs]
  /\ job \in [Calls -> Jobs]
  /\ active \in [Hats -> Names \cup {NoName}]
  /\ name \in [Calls -> Names \cup {NoName}]
  /\ saw \in [Calls -> Statuses]
  /\ told \in [Calls -> Tellings]
  /\ cancelled \subseteq Calls
  /\ faults \in 0..MaxFaults

Init ==
  /\ pc = [c \in Calls |-> "idle"]
  /\ job = [c \in Calls |-> [status |-> "none", exists |-> FALSE]]
  /\ active = [h \in Hats |-> NoName]
  /\ name = [c \in Calls |-> NoName]
  /\ saw = [c \in Calls |-> "running"]
  /\ told = [c \in Calls |-> "none"]
  /\ cancelled = {}
  /\ faults = 0

-----------------------------------------------------------------------------
\* The job the cluster has under a name; it takes a name once at a time.
Named(n) == {c \in Calls : job[c].exists /\ JobName(c) = n}

Fault == faults < MaxFaults /\ faults' = faults + 1

Tell(c, what) ==
  /\ told' = [told EXCEPT ![c] = what]
  /\ pc' = [pc EXCEPT ![c] = "done"]

\* Other calls for the hat whose wait is not over.
Rivals(c) == {d \in Calls \ {c} : HatOf[d] = HatOf[c] /\ pc[d] \notin {"idle", "done"}}

MayCreate(c) == pc[c] = "idle" /\ (Overlap \/ Rivals(c) = {})

(***************************************************************************)
(* create_job.  Nothing deletes the jobs that have ended (no ttl is set),  *)
(* so their names stay taken.                                              *)
(***************************************************************************)
Create(c) ==
  /\ MayCreate(c)
  /\ Named(JobName(c)) = {}
  /\ job' = [job EXCEPT ![c] = [status |-> "running", exists |-> TRUE]]
  /\ active' = [active EXCEPT ![HatOf[c]] = JobName(c)]
  /\ pc' = [pc EXCEPT ![c] = "created"]
  /\ UNCHANGED <<name, saw, told, cancelled, faults>>

CreateRefused(c) ==
  /\ MayCreate(c)
  /\ (Named(JobName(c)) # {} /\ UNCHANGED faults) \/ Fault
  /\ Tell(c, "error")
  /\ UNCHANGED <<job, active, name, saw, cancelled>>

(***************************************************************************)
(* wait_job: the name is looked up once, before the polling.               *)
(***************************************************************************)
Wait(c) ==
  /\ pc[c] = "created"
  /\ active[HatOf[c]] # NoName
  /\ name' = [name EXCEPT ![c] = active[HatOf[c]]]
  /\ pc' = [pc EXCEPT ![c] = "waiting"]
  /\ UNCHANGED <<job, active, saw, told, cancelled, faults>>

JobNotFound(c) ==
  /\ pc[c] = "created"
  /\ active[HatOf[c]] = NoName
  /\ Tell(c, "error")
  /\ UNCHANGED <<job, active, name, saw, cancelled, faults>>

Ended(status) == status # "running"

PollRunning(c) ==
  /\ pc[c] = "waiting"
  /\ \E d \in Named(name[c]) : ~Ended(job[d].status)
  /\ UNCHANGED vars

PollEnded(c) ==
  /\ pc[c] = "waiting"
  /\ \E d \in Named(name[c]) :
       Ended(job[d].status) /\ saw' = [saw EXCEPT ![c] = job[d].status]
  /\ pc' = [pc EXCEPT ![c] = "log"]
  /\ UNCHANGED <<job, active, name, told, cancelled, faults>>

\* An error ends the wait; the handle stays in the table.
PollFails(c) ==
  /\ pc[c] = "waiting"
  /\ (Named(name[c]) = {} /\ UNCHANGED faults) \/ Fault
  /\ Tell(c, "error")
  /\ UNCHANGED <<job, active, name, saw, cancelled>>

(***************************************************************************)
(* get_pod_logs, whose failure is an empty log; then the handle is         *)
(* forgotten and the status returned.                                      *)
(***************************************************************************)
\* Mutation: the handle is kept.
KeepHandle(c) == active' = active
ForgetHandle(c) == active' = [active EXCEPT ![HatOf[c]] = NoName]

\* Mutation: a failure is taken for a success.
AlwaysOk(c) == "ok"
Verdict(c) == IF saw[c] = "failed" THEN "failed" ELSE "ok"

Finish(c) ==
  /\ pc[c] = "log"
  /\ ForgetHandle(c)
  /\ \/ Tell(c, Verdict(c)) /\ UNCHANGED faults
     \/ Tell(c, IF Verdict(c) = "ok" THEN "ok without log" ELSE "failed") /\ Fault
  /\ UNCHANGED <<job, name, saw, cancelled>>

(***************************************************************************)
(* cancel_job: the handle is forgotten whether or not the deletion works.  *)
(***************************************************************************)
Cancel(c) ==
  /\ pc[c] \notin {"idle", "done"}
  /\ c \notin cancelled
  /\ cancelled' = cancelled \cup {c}
  /\ ForgetHandle(c)
  /\ \/ /\ job' = [d \in Calls |-> IF d \in Named(active[HatOf[c]])
                                   THEN [job[d] EXCEPT !.exists = FALSE] ELSE job[d]]
        /\ UNCHANGED faults
     \/ active[HatOf[c]] # NoName /\ Fault /\ UNCHANGED job
  /\ UNCHANGED <<pc, name, saw, told>>

(***************************************************************************)
(* The cluster: a job ends, by its deadline of 1800 seconds at the latest  *)
(* (active_deadline_seconds); somebody else may delete it.                 *)
(***************************************************************************)
\* Mutation: no deadline is set.
NeverOverdue(c) == FALSE
Overdue(c) == job[c].exists /\ job[c].status = "running"

JobEnds(c) ==
  /\ Overdue(c)
  /\ \E s \in {"succeeded", "failed"} : job' = [job EXCEPT ![c].status = s]
  /\ UNCHANGED <<pc, active, name, saw, told, cancelled, faults>>

Deleted(c) ==
  /\ job[c].exists
  /\ job' = [job EXCEPT ![c].exists = FALSE]
  /\ Fault
  /\ UNCHANGED <<pc, active, name, saw, told, cancelled>>

Step(c) ==
  \/ CreateRefused(c) \/ Create(c) \/ Wait(c) \/ JobNotFound(c)
  \/ PollEnded(c) \/ PollFails(c) \/ Finish(c)

AllDone == (\A c \in Calls : pc[c] = "done") /\ UNCHANGED vars

Next ==
  \/ \E c \in Calls : Step(c) \/ PollRunning(c) \/ Cancel(c) \/ JobEnds(c) \/ Deleted(c)
  \/ AllDone

\* The runtime's tasks run on, no request has to fail, and a job meets its deadline.
Spec ==
  /\ Init /\ [][Next]_vars
  /\ \A c \in Calls : WF_vars(Step(c) /\ UNCHANGED faults) /\ WF_vars(JobEnds(c))

-----------------------------------------------------------------------------
(***************************************************************************)
(* Properties.                                                             *)
(***************************************************************************)
\* What became of the job a call made; deleted while it ran, it was killed.
Execution(c) ==
  CASE job[c].status = "none" -> "none"
    [] job[c].status = "running" -> IF job[c].exists THEN "running" ELSE "killed"
    [] job[c].status = "succeeded" -> "ok"
    [] job[c].status = "failed" -> "failed"

Told(c) == IF told[c] = "ok without log" THEN "ok" ELSE told[c]

Runtime == INSTANCE JobRuntime WITH
  execution <- [c \in Calls |-> Execution(c)],
  answer <- [c \in Calls |-> Told(c)]

\* The runtime keeps the trait's promise as long as a hat has one job at a
\* time: the status a wait returns is that of the job its create made.
Contract == Runtime!Spec

\* An entry of the table is the job of a call that has not been answered, or
\* was answered with an error; a run without errors leaves none behind.
TableIsCurrent ==
  \A h \in Hats : active[h] # NoName =>
    \E c \in Calls :
      /\ HatOf[c] = h /\ active[h] = JobName(c)
      /\ pc[c] # "idle"
      /\ pc[c] = "done" => told[c] = "error"

\* Whoever creates a job and waits gets an answer, whatever fails and
\* whoever cancels: the deadline bounds the polling.
EveryoneAnswered == \A c \in Calls : <>(pc[c] = "done")
=============================================================================
