-------------------------- MODULE K8sRuntime_proofs --------------------------
(***************************************************************************)
(* Theorems about module K8sRuntime: its table of handles is current, and  *)
(* as long as a hat has one job at a time it keeps the contract of the     *)
(* trait Runtime, for any number of calls, hats and failing requests.      *)
(***************************************************************************)
EXTENDS K8sRuntime, TLAPS

-----------------------------------------------------------------------------
(* Names.                                                                  *)

LEMMA NameIsOfHat ==
  \A c, d \in Calls : JobName(c) = JobName(d) => HatOf[c] = HatOf[d]
<1> SUFFICES ASSUME NEW c \in Calls, NEW d \in Calls, JobName(c) = JobName(d)
             PROVE  HatOf[c] = HatOf[d]
  OBVIOUS
<1>1. JobName(c)[1] = HatOf[c] /\ JobName(d)[1] = HatOf[d]
  BY DEF JobName
<1> QED
  BY <1>1

LEMMA NameIsThere == \A c \in Calls : JobName(c) # NoName /\ JobName(c) \in Names
BY DEF JobName, NoName, Names

LEMMA NamedAreCalls == \A n : Named(n) \subseteq Calls
BY DEF Named

-----------------------------------------------------------------------------
(* Types.                                                                  *)

\* What the cluster has, a call has made; a poll reads the status of such a job.
Made == \A c \in Calls : job[c].exists => job[c].status # "none"

LEMMA TypeInit == Init => TypeOK /\ Made
BY K8sAssumption DEF Init, TypeOK, Made, PCs, Statuses, Jobs, Tellings

LEMMA MadeNext == TypeOK /\ Made /\ [Next]_vars => Made'
<1> SUFFICES ASSUME TypeOK, Made, [Next]_vars, NEW d \in Calls, job'[d].exists
             PROVE  job'[d].status # "none"
  BY DEF Made
<1>1. CASE UNCHANGED job
  BY <1>1 DEF Made
<1>2. job[d] = [status |-> job[d].status, exists |-> job[d].exists]
  BY DEF TypeOK, Jobs
<1>3. ASSUME NEW c \in Calls, Create(c) \/ JobEnds(c) \/ Deleted(c) PROVE job'[d].status # "none"
  BY <1>2, <1>3 DEF Create, JobEnds, Deleted, Made, TypeOK
<1>4. ASSUME NEW c \in Calls, Cancel(c) PROVE job'[d].status # "none"
  BY <1>1, <1>2, <1>4 DEF Cancel, Made
<1> QED
  BY <1>1, <1>3, <1>4
  DEF Next, Step, vars, AllDone, PollRunning, CreateRefused, Wait, JobNotFound,
      PollEnded, PollFails, Finish

LEMMA TypeFault == ASSUME TypeOK, Fault PROVE faults' \in 0..MaxFaults
BY K8sAssumption DEF TypeOK, Fault

LEMMA TypeTell ==
  ASSUME TypeOK, NEW c \in Calls, NEW what \in Tellings, Tell(c, what)
  PROVE  pc' \in [Calls -> PCs] /\ told' \in [Calls -> Tellings]
BY DEF TypeOK, Tell, PCs

LEMMA TypeForget ==
  ASSUME TypeOK, NEW c \in Calls, ForgetHandle(c)
  PROVE  active' \in [Hats -> Names \cup {NoName}]
BY DEF TypeOK, ForgetHandle

LEMMA TypeNext == TypeOK /\ Made /\ [Next]_vars => TypeOK'
<1> SUFFICES ASSUME TypeOK, Made, [Next]_vars PROVE TypeOK'
  OBVIOUS
<1>1. ASSUME NEW c \in Calls, Create(c) PROVE TypeOK'
  BY <1>1, NameIsThere, K8sAssumption DEF Create, TypeOK, PCs, Jobs, Statuses
<1>2. ASSUME NEW c \in Calls, CreateRefused(c) PROVE TypeOK'
  <2>1. faults' \in 0..MaxFaults
    BY <1>2, TypeFault DEF CreateRefused, TypeOK
  <2> QED
    BY <1>2, <2>1, TypeTell DEF CreateRefused, TypeOK, Tellings
<1>3. ASSUME NEW c \in Calls, Wait(c) PROVE TypeOK'
  BY <1>3, K8sAssumption DEF Wait, TypeOK, PCs
<1>4. ASSUME NEW c \in Calls, JobNotFound(c) PROVE TypeOK'
  BY <1>4, TypeTell DEF JobNotFound, TypeOK, Tellings
<1>5. ASSUME NEW c \in Calls, PollEnded(c) PROVE TypeOK'
  <2> PICK d \in Named(name[c]) :
        Ended(job[d].status) /\ saw' = [saw EXCEPT ![c] = job[d].status]
    BY <1>5 DEF PollEnded
  <2>1. job[d] \in Jobs /\ d \in Calls
    BY NamedAreCalls DEF TypeOK
  <2>2. job[d].status \in Statuses
    BY <2>1 DEF Named, Jobs, Made
  <2> QED
    BY <1>5, <2>2 DEF PollEnded, TypeOK, PCs
<1>6. ASSUME NEW c \in Calls, PollFails(c) PROVE TypeOK'
  <2>1. faults' \in 0..MaxFaults
    BY <1>6, TypeFault DEF PollFails, TypeOK
  <2> QED
    BY <1>6, <2>1, TypeTell DEF PollFails, TypeOK, Tellings
<1>7. ASSUME NEW c \in Calls, Finish(c) PROVE TypeOK'
  <2>1. Verdict(c) \in Tellings
    BY DEF Verdict, Tellings
  <2>2. faults' \in 0..MaxFaults
    BY <1>7, TypeFault DEF Finish, TypeOK
  <2>3. pc' \in [Calls -> PCs] /\ told' \in [Calls -> Tellings]
    BY <1>7, <2>1, TypeTell DEF Finish, Tellings
  <2> QED
    BY <1>7, <2>2, <2>3, TypeForget DEF Finish, TypeOK
<1>8. ASSUME NEW c \in Calls, Cancel(c) PROVE TypeOK'
  <2>1. faults' \in 0..MaxFaults
    BY <1>8, TypeFault DEF Cancel, TypeOK
  <2>2. \A d \in Calls : job[d] \in Jobs /\ [job[d] EXCEPT !.exists = FALSE] \in Jobs
    BY DEF TypeOK, Jobs
  <2>3. job' \in [Calls -> Jobs]
    BY <1>8, <2>2 DEF Cancel, TypeOK
  <2> QED
    BY <1>8, <2>1, <2>3, TypeForget DEF Cancel, TypeOK
<1>9. ASSUME NEW c \in Calls, JobEnds(c) PROVE TypeOK'
  BY <1>9 DEF JobEnds, TypeOK, Jobs, Statuses
<1>10. ASSUME NEW c \in Calls, Deleted(c) PROVE TypeOK'
  <2>1. faults' \in 0..MaxFaults
    BY <1>10, TypeFault DEF Deleted
  <2> QED
    BY <1>10, <2>1 DEF Deleted, TypeOK, Jobs, Statuses
<1>11. ASSUME UNCHANGED vars PROVE TypeOK'
  BY <1>11 DEF vars, TypeOK
<1> QED
  BY <1>1, <1>2, <1>3, <1>4, <1>5, <1>6, <1>7, <1>8, <1>9, <1>10, <1>11
  DEF Next, Step, AllDone, PollRunning

(***************************************************************************)
(* Every variable keeps its type, however many calls there are.            *)
(***************************************************************************)
THEOREM TypeCorrect == Spec => []TypeOK
BY TypeInit, TypeNext, MadeNext, PTL DEF Spec

-----------------------------------------------------------------------------
(***************************************************************************)
(* The table is current, also when a hat has several jobs at a time: an    *)
(* entry belongs to a call that is not answered yet, or was answered with  *)
(* an error.  A witness for the entry of a hat stays one unless the hat's  *)
(* entry is written or forgotten.                                          *)
(***************************************************************************)
LEMMA TableNext == TypeOK /\ TableIsCurrent /\ [Next]_vars => TableIsCurrent'
<1> SUFFICES ASSUME TypeOK, TableIsCurrent, [Next]_vars,
                    NEW h \in Hats, active'[h] # NoName
             PROVE  \E c \in Calls :
                      /\ HatOf[c] = h /\ active'[h] = JobName(c)
                      /\ pc'[c] # "idle"
                      /\ pc'[c] = "done" => told'[c] = "error"
  BY DEF TableIsCurrent, JobName
<1> DEFINE Holds(c) == /\ HatOf[c] = h /\ active[h] = JobName(c)
                       /\ pc[c] # "idle"
                       /\ pc[c] = "done" => told[c] = "error"
<1>1. ASSUME active[h] # NoName PROVE \E c \in Calls : Holds(c)
  BY <1>1 DEF TableIsCurrent
<1>2. ASSUME NEW c \in Calls, Create(c) PROVE \E d \in Calls :
        /\ HatOf[d] = h /\ active'[h] = JobName(d)
        /\ pc'[d] # "idle" /\ (pc'[d] = "done" => told'[d] = "error")
  <2>1. CASE HatOf[c] = h
    BY <1>2, <2>1 DEF Create, TypeOK, PCs
  <2>2. CASE HatOf[c] # h
    <3>1. active'[h] = active[h]
      BY <1>2, <2>2 DEF Create, TypeOK
    <3>2. PICK d \in Calls : Holds(d)
      BY <1>1, <3>1
    <3> QED
      BY <1>2, <2>2, <3>1, <3>2 DEF Create, TypeOK
  <2> QED
    BY <2>1, <2>2
<1>3. ASSUME NEW c \in Calls, UNCHANGED active, pc[c] \in {"idle", "created", "waiting"},
             Tell(c, "error")
      PROVE \E d \in Calls :
        /\ HatOf[d] = h /\ active'[h] = JobName(d)
        /\ pc'[d] # "idle" /\ (pc'[d] = "done" => told'[d] = "error")
  BY <1>1, <1>3 DEF Tell, TypeOK
<1>4. ASSUME UNCHANGED <<active, told>>,
             \A d \in Calls : pc[d] # "idle" => pc'[d] # "idle" /\ (pc'[d] = "done" => pc[d] = "done")
      PROVE \E d \in Calls :
        /\ HatOf[d] = h /\ active'[h] = JobName(d)
        /\ pc'[d] # "idle" /\ (pc'[d] = "done" => told'[d] = "error")
  BY <1>1, <1>4
<1>5. ASSUME NEW c \in Calls, ForgetHandle(c),
             \A d \in Calls : HatOf[d] # HatOf[c] => pc'[d] = pc[d] /\ told'[d] = told[d]
      PROVE \E d \in Calls :
        /\ HatOf[d] = h /\ active'[h] = JobName(d)
        /\ pc'[d] # "idle" /\ (pc'[d] = "done" => told'[d] = "error")
  <2>1. HatOf[c] # h /\ active'[h] = active[h]
    BY <1>5 DEF ForgetHandle, TypeOK
  <2> QED
    BY <1>1, <1>5, <2>1
<1>6. ASSUME NEW c \in Calls, CreateRefused(c) \/ JobNotFound(c) \/ PollFails(c)
      PROVE  UNCHANGED active /\ pc[c] \in {"idle", "created", "waiting"} /\ Tell(c, "error")
  BY <1>6 DEF CreateRefused, MayCreate, JobNotFound, PollFails
<1>7. ASSUME NEW c \in Calls, Wait(c) \/ PollEnded(c)
      PROVE  /\ UNCHANGED <<active, told>>
             /\ \A d \in Calls : pc[d] # "idle" =>
                  pc'[d] # "idle" /\ (pc'[d] = "done" => pc[d] = "done")
  BY <1>7 DEF Wait, PollEnded, TypeOK
<1>8. ASSUME NEW c \in Calls, JobEnds(c) \/ Deleted(c) \/ UNCHANGED vars
      PROVE  UNCHANGED <<active, told, pc>>
  BY <1>8 DEF JobEnds, Deleted, vars
<1>9. ASSUME NEW c \in Calls, Finish(c) \/ Cancel(c)
      PROVE  /\ ForgetHandle(c)
             /\ \A d \in Calls : HatOf[d] # HatOf[c] => pc'[d] = pc[d] /\ told'[d] = told[d]
  BY <1>9 DEF Finish, Cancel, Tell, TypeOK
<1>10. CASE UNCHANGED vars
  BY <1>1, <1>10 DEF vars
<1> QED
  BY <1>2, <1>3, <1>4, <1>5, <1>6, <1>7, <1>8, <1>9, <1>10
  DEF Next, Step, AllDone, PollRunning

(***************************************************************************)
(* A run in which no call fails leaves no handle in the table.             *)
(***************************************************************************)
THEOREM TableHolds == Spec => []TableIsCurrent
<1>1. Init => TableIsCurrent
  BY DEF Init, TableIsCurrent
<1> QED
  BY <1>1, TypeCorrect, TableNext, PTL DEF Spec

-----------------------------------------------------------------------------
(* One job of a hat at a time.                                             *)

InProgress(c) == pc[c] \notin {"idle", "done"}

(***************************************************************************)
(* What keeps a wait with its own job.  While a call is in progress no     *)
(* other of its hat is, so nothing else exists under its job's name, and   *)
(* the table's entry of its hat is its own or gone; the status a poll has  *)
(* seen is final.                                                          *)
(***************************************************************************)
Untouched == \A c \in Calls :
  /\ pc[c] = "idle" => job[c].status = "none"
  /\ pc[c] # "done" => told[c] = "none"
  /\ InProgress(c) => job[c].status # "none"

Alone == \A c, d \in Calls :
  InProgress(c) /\ InProgress(d) /\ HatOf[c] = HatOf[d] => c = d

OnlyMine == \A c, d \in Calls :
  InProgress(c) /\ JobName(d) = JobName(c) /\ job[d].exists => c = d

EntryMine == \A c \in Calls : InProgress(c) => active[HatOf[c]] \in {JobName(c), NoName}

NameMine == \A c \in Calls : pc[c] = "waiting" => name[c] = JobName(c)

SawFinal == \A c \in Calls : pc[c] = "log" => saw[c] = job[c].status /\ saw[c] # "running"

CallInv ==
  TypeOK /\ Made /\ Untouched /\ Alone /\ OnlyMine /\ EntryMine /\ NameMine /\ SawFinal

LEMMA NamedIsMine ==
  ASSUME CallInv, NEW c \in Calls, InProgress(c)
  PROVE  /\ Named(JobName(c)) \subseteq {c}
         /\ Named(NoName) = {}
         /\ Named(active[HatOf[c]]) \subseteq {c}
<1>1. Named(JobName(c)) \subseteq {c}
  BY DEF CallInv, OnlyMine, Named
<1>2. Named(NoName) = {}
  BY NameIsThere DEF Named
<1> QED
  BY <1>1, <1>2 DEF CallInv, EntryMine

LEMMA CallInit == Init => CallInv
<1> SUFFICES ASSUME Init PROVE CallInv
  OBVIOUS
<1>1. TypeOK /\ Made
  BY TypeInit
<1>2. \A c \in Calls : pc[c] = "idle" /\ ~InProgress(c)
  BY DEF Init, InProgress
<1> QED
  BY <1>1, <1>2 DEF Init, CallInv, Untouched, Alone, OnlyMine, EntryMine, NameMine, SawFinal

\* How far a step takes a call.
LEMMA PcOf ==
  ASSUME TypeOK, [Next]_vars, NEW d \in Calls
  PROVE  \/ pc'[d] = pc[d] \/ pc'[d] = "done"
         \/ Create(d) /\ pc'[d] = "created"
         \/ Wait(d) /\ pc'[d] = "waiting"
         \/ PollEnded(d) /\ pc'[d] = "log"
<1>1. CASE UNCHANGED pc
  BY <1>1
<1>2. ASSUME NEW c \in Calls, \E what : Tell(c, what) PROVE pc'[d] = pc[d] \/ pc'[d] = "done"
  BY <1>2 DEF Tell, TypeOK
<1>3. ASSUME NEW c \in Calls, Create(c)
      PROVE pc'[d] = pc[d] \/ (Create(d) /\ pc'[d] = "created")
  <2>1. pc' = [pc EXCEPT ![c] = "created"]
    BY <1>3 DEF Create
  <2> QED
    BY <1>3, <2>1 DEF TypeOK
<1>4. ASSUME NEW c \in Calls, Wait(c)
      PROVE pc'[d] = pc[d] \/ (Wait(d) /\ pc'[d] = "waiting")
  <2>1. pc' = [pc EXCEPT ![c] = "waiting"]
    BY <1>4 DEF Wait
  <2> QED
    BY <1>4, <2>1 DEF TypeOK
<1>5. ASSUME NEW c \in Calls, PollEnded(c)
      PROVE pc'[d] = pc[d] \/ (PollEnded(d) /\ pc'[d] = "log")
  <2>1. pc' = [pc EXCEPT ![c] = "log"]
    BY <1>5 DEF PollEnded
  <2> QED
    BY <1>5, <2>1 DEF TypeOK
<1> QED
  BY <1>1, <1>2, <1>3, <1>4, <1>5
  DEF Next, Step, vars, AllDone, PollRunning, CreateRefused, JobNotFound, PollFails,
      Finish, Cancel, JobEnds, Deleted

\* Only Create puts a call in progress.
LEMMA ProgressOf ==
  ASSUME TypeOK, [Next]_vars, NEW d \in Calls, InProgress(d)'
  PROVE  InProgress(d) \/ Create(d)
<1>1. CASE pc'[d] = pc[d] \/ pc'[d] = "done" \/ Create(d)
  BY <1>1 DEF InProgress
<1>2. CASE Wait(d) \/ PollEnded(d)
  BY <1>2 DEF InProgress, Wait, PollEnded
<1> QED
  BY <1>1, <1>2, PcOf

\* What a step does to a job: a new one is made, or one that is there changes.
LEMMA JobOf ==
  ASSUME TypeOK, [Next]_vars, NEW d \in Calls
  PROVE  \/ Create(d)
         \/ /\ job'[d].exists => job[d].exists
            /\ job'[d].status = job[d].status
         \/ /\ job'[d].exists => job[d].exists
            /\ job[d].status = "running" /\ job'[d].status \in {"succeeded", "failed"}
<1>1. CASE UNCHANGED job
  BY <1>1
<1>2. job[d] = [status |-> job[d].status, exists |-> job[d].exists]
  BY DEF TypeOK, Jobs
<1>3. ASSUME NEW c \in Calls, Create(c) \/ JobEnds(c) \/ Deleted(c), ~Create(d)
      PROVE  \/ /\ job'[d].exists => job[d].exists
                /\ job'[d].status = job[d].status
             \/ /\ job'[d].exists => job[d].exists
                /\ job[d].status = "running" /\ job'[d].status \in {"succeeded", "failed"}
  <2>1. CASE c = d
    BY <1>2, <1>3, <2>1 DEF JobEnds, Overdue, Deleted, TypeOK
  <2>2. CASE c # d
    BY <1>3, <2>2 DEF Create, JobEnds, Deleted, TypeOK
  <2> QED
    BY <2>1, <2>2
<1>4. ASSUME NEW c \in Calls, Cancel(c)
      PROVE  (job'[d].exists => job[d].exists) /\ job'[d].status = job[d].status
  BY <1>1, <1>2, <1>4 DEF Cancel
<1> QED
  BY <1>1, <1>3, <1>4
  DEF Next, Step, vars, AllDone, PollRunning, CreateRefused, Wait, JobNotFound,
      PollEnded, PollFails, Finish

LEMMA CreatesAlone ==
  ASSUME CallInv, ~Overlap, NEW c \in Calls, Create(c)
  PROVE  /\ ~InProgress(c) /\ ~job[c].exists
         /\ \A d \in Calls : HatOf[d] = HatOf[c] => ~InProgress(d)
         /\ \A d \in Calls : JobName(d) = JobName(c) => ~job[d].exists
BY DEF Create, MayCreate, Rivals, Named, CallInv, Made, Untouched, InProgress

LEMMA AloneNext ==
  ASSUME CallInv, ~Overlap, [Next]_vars
  PROVE  Alone'
<1> SUFFICES ASSUME NEW c \in Calls, NEW d \in Calls,
                    InProgress(c)', InProgress(d)', HatOf[c] = HatOf[d]
             PROVE  c = d
  BY DEF Alone
<1>1. (InProgress(c) \/ Create(c)) /\ (InProgress(d) \/ Create(d))
  BY ProgressOf DEF CallInv
<1>2. CASE InProgress(c) /\ InProgress(d)
  BY <1>2 DEF CallInv, Alone
<1>3. CASE Create(c) /\ Create(d)
  <2> SUFFICES ASSUME c # d PROVE FALSE
    OBVIOUS
  <2>1. pc'[d] = pc[d]
    BY <1>3 DEF Create, CallInv, TypeOK
  <2> QED
    BY <1>3, <2>1 DEF InProgress, Create, MayCreate
<1> QED
  BY <1>1, <1>2, <1>3, CreatesAlone

LEMMA OnlyMineNext ==
  ASSUME CallInv, ~Overlap, [Next]_vars
  PROVE  OnlyMine'
<1> SUFFICES ASSUME NEW c \in Calls, NEW d \in Calls,
                    InProgress(c)', JobName(d) = JobName(c), job'[d].exists
             PROVE  c = d
  BY DEF OnlyMine, JobName
<1>1. HatOf[d] = HatOf[c]
  BY NameIsOfHat
<1>2. InProgress(c) \/ Create(c)
  BY ProgressOf DEF CallInv
<1>3. job[d].exists \/ Create(d)
  BY JobOf DEF CallInv
<1>4. CASE InProgress(c) /\ job[d].exists
  BY <1>4 DEF CallInv, OnlyMine
<1>5. CASE InProgress(c) /\ Create(d)
  BY <1>1, <1>5, CreatesAlone
<1>6. CASE Create(c) /\ job[d].exists
  BY <1>6, CreatesAlone
<1>7. CASE Create(c) /\ Create(d)
  <2> SUFFICES ASSUME c # d PROVE FALSE
    OBVIOUS
  <2>1. job'[d] = job[d]
    BY <1>7 DEF Create, CallInv, TypeOK
  <2> QED
    BY <1>7, <2>1, CreatesAlone
<1> QED
  BY <1>2, <1>3, <1>4, <1>5, <1>6, <1>7

LEMMA UntouchedNext ==
  ASSUME CallInv, [Next]_vars
  PROVE  Untouched'
<1> SUFFICES ASSUME NEW c \in Calls
             PROVE  /\ pc'[c] = "idle" => job'[c].status = "none"
                    /\ pc'[c] # "done" => told'[c] = "none"
                    /\ InProgress(c)' => job'[c].status # "none"
  BY DEF Untouched
<1>1. TypeOK /\ Untouched
  BY DEF CallInv
<1>2. pc'[c] = "idle" => job'[c].status = "none"
  <2> SUFFICES ASSUME pc'[c] = "idle" PROVE job'[c].status = "none"
    OBVIOUS
  <2>1. pc[c] = "idle"
    BY <1>1, PcOf
  <2>2. ~Create(c)
    BY <1>1 DEF Create, TypeOK
  <2> QED
    BY <1>1, <2>1, <2>2, JobOf DEF Untouched
<1>3. pc'[c] # "done" => told'[c] = "none"
  <2> SUFFICES ASSUME pc'[c] # "done" PROVE told'[c] = "none"
    OBVIOUS
  <2>1. pc[c] # "done" => told[c] = "none"
    BY <1>1 DEF Untouched
  <2>2. CASE UNCHANGED told
    <3>1. pc[c] # "done"
      BY <1>1, PcOf DEF Create, MayCreate, Wait, PollEnded
    <3> QED
      BY <2>1, <2>2, <3>1
  <2>3. ASSUME NEW d \in Calls, \E what : Tell(d, what) PROVE told'[c] = "none"
    BY <1>1, <2>1, <2>3 DEF Tell, TypeOK
  <2> QED
    BY <2>2, <2>3 DEF Next, Step, vars, AllDone, PollRunning, Create, CreateRefused, Wait,
                JobNotFound, PollEnded, PollFails, Finish, Cancel, JobEnds, Deleted
<1>4. InProgress(c)' => job'[c].status # "none"
  <2>1. CASE Create(c)
    BY <1>1, <2>1 DEF Create, TypeOK
  <2>2. CASE ~Create(c) /\ InProgress(c)
    BY <1>1, <2>2, JobOf DEF Untouched
  <2> QED
    BY <1>1, <2>1, <2>2, ProgressOf
<1> QED
  BY <1>2, <1>3, <1>4

LEMMA EntryMineNext ==
  ASSUME CallInv, ~Overlap, [Next]_vars
  PROVE  EntryMine'
<1> SUFFICES ASSUME NEW c \in Calls, InProgress(c)'
             PROVE  active'[HatOf[c]] \in {JobName(c), NoName}
  BY DEF EntryMine, JobName
<1>1. HatOf[c] \in Hats /\ TypeOK
  BY K8sAssumption DEF CallInv
<1>2. CASE Create(c)
  BY <1>1, <1>2 DEF Create, TypeOK
<1>3. CASE InProgress(c) /\ ~Create(c)
  <2>1. active[HatOf[c]] \in {JobName(c), NoName}
    BY <1>3 DEF CallInv, EntryMine
  <2>2. CASE UNCHANGED active
    BY <2>1, <2>2
  <2>3. ASSUME NEW d \in Calls, ForgetHandle(d) PROVE active'[HatOf[c]] \in {JobName(c), NoName}
    BY <1>1, <2>1, <2>3 DEF ForgetHandle, TypeOK
  <2>4. ASSUME NEW d \in Calls, Create(d) PROVE active'[HatOf[c]] \in {JobName(c), NoName}
    <3>1. HatOf[d] # HatOf[c]
      BY <1>3, <2>4, CreatesAlone
    <3> QED
      BY <1>1, <2>1, <2>4, <3>1 DEF Create, TypeOK
  <2> QED
    BY <2>2, <2>3, <2>4
    DEF Next, Step, vars, AllDone, PollRunning, CreateRefused, Wait, JobNotFound,
        PollEnded, PollFails, Finish, Cancel, JobEnds, Deleted
<1> QED
  BY <1>1, <1>2, <1>3, ProgressOf

LEMMA NameMineNext ==
  ASSUME CallInv, [Next]_vars
  PROVE  NameMine'
<1> SUFFICES ASSUME NEW c \in Calls, pc'[c] = "waiting"
             PROVE  name'[c] = JobName(c)
  BY DEF NameMine, JobName
<1>1. TypeOK
  BY DEF CallInv
<1>2. CASE Wait(c)
  <2>1. active[HatOf[c]] = JobName(c)
    BY <1>2 DEF Wait, InProgress, CallInv, EntryMine
  <2> QED
    BY <1>1, <1>2, <2>1 DEF Wait, TypeOK
<1>3. CASE ~Wait(c)
  <2>1. pc[c] = "waiting"
    BY <1>1, <1>3, PcOf
  <2>2. name'[c] = name[c]
    <3>1. CASE UNCHANGED name
      BY <3>1
    <3>2. ASSUME NEW d \in Calls, Wait(d), d # c PROVE name'[c] = name[c]
      BY <1>1, <3>2 DEF Wait, TypeOK
    <3> QED
      BY <1>3, <3>1, <3>2
      DEF Next, Step, vars, AllDone, PollRunning, Create, CreateRefused,
          JobNotFound, PollEnded, PollFails, Finish, Cancel, JobEnds, Deleted
  <2> QED
    BY <2>1, <2>2 DEF CallInv, NameMine
<1> QED
  BY <1>2, <1>3

\* A poll that ends a wait has seen the call's own job.
LEMMA PollsOwnJob ==
  ASSUME CallInv, NEW c \in Calls, PollEnded(c)
  PROVE  /\ job[c].exists /\ job[c].status # "running"
         /\ saw' = [saw EXCEPT ![c] = job[c].status]
<1>1. Named(name[c]) \subseteq {c}
  BY NamedIsMine DEF PollEnded, InProgress, CallInv, NameMine
<1> QED
  BY <1>1 DEF PollEnded, Named, Ended

LEMMA SawFinalNext ==
  ASSUME CallInv, [Next]_vars
  PROVE  SawFinal'
<1> SUFFICES ASSUME NEW c \in Calls, pc'[c] = "log"
             PROVE  saw'[c] = job'[c].status /\ saw'[c] # "running"
  BY DEF SawFinal
<1>1. TypeOK
  BY DEF CallInv
<1>2. CASE PollEnded(c)
  <2>1. job' = job
    BY <1>2 DEF PollEnded
  <2>2. job[c].status # "running" /\ saw' = [saw EXCEPT ![c] = job[c].status]
    BY <1>2, PollsOwnJob
  <2> QED
    BY <1>1, <2>1, <2>2 DEF TypeOK
<1>3. CASE ~PollEnded(c)
  <2>1. pc[c] = "log" /\ ~Create(c)
    BY <1>1, <1>3, PcOf DEF Create, MayCreate
  <2>2. saw'[c] = saw[c]
    <3>1. CASE UNCHANGED saw
      BY <3>1
    <3>2. ASSUME NEW d \in Calls, PollEnded(d), d # c PROVE saw'[c] = saw[c]
      BY <1>1, <3>2, PollsOwnJob DEF TypeOK
    <3> QED
      BY <1>3, <3>1, <3>2
      DEF Next, Step, vars, AllDone, PollRunning, Create, CreateRefused, Wait,
          JobNotFound, PollFails, Finish, Cancel, JobEnds, Deleted
  <2>3. saw[c] = job[c].status /\ saw[c] # "running"
    BY <2>1 DEF CallInv, SawFinal
  <2> QED
    BY <1>1, <2>1, <2>2, <2>3, JobOf
<1> QED
  BY <1>2, <1>3

LEMMA CallNext == CallInv /\ ~Overlap /\ [Next]_vars => CallInv'
<1> SUFFICES ASSUME CallInv, ~Overlap, [Next]_vars PROVE CallInv'
  OBVIOUS
<1>1. TypeOK' /\ Made'
  BY TypeNext, MadeNext DEF CallInv
<1> QED
  BY <1>1, UntouchedNext, AloneNext, OnlyMineNext, EntryMineNext, NameMineNext, SawFinalNext
  DEF CallInv

-----------------------------------------------------------------------------
(***************************************************************************)
(* The contract.  Seen through the mapping, create_job starts an           *)
(* execution, the end of the job or its deletion while it runs ends it, a  *)
(* cancel kills it or does nothing, and what a caller is told is an        *)
(* answer; the polling in between is invisible.                            *)
(***************************************************************************)
SameExecutions == \A d \in Calls : Execution(d)' = Execution(d)
SameAnswers == \A d \in Calls : Told(d)' = Told(d)

LEMMA KeptJobs == UNCHANGED job => SameExecutions
BY DEF SameExecutions, Execution

LEMMA KeptTold == UNCHANGED told => SameAnswers
BY DEF SameAnswers, Told

LEMMA Stutters ==
  ASSUME SameExecutions, SameAnswers, UNCHANGED cancelled
  PROVE  UNCHANGED Runtime!vars
BY DEF SameExecutions, SameAnswers, Runtime!vars

LEMMA CreateStarts ==
  ASSUME CallInv, NEW c \in Calls, Create(c)
  PROVE  Runtime!Start(c)
<1>1. Execution(c) = "none" /\ Told(c) = "none"
  BY DEF CallInv, Untouched, Create, MayCreate, Execution, Told
<1>2. job'[c] = [status |-> "running", exists |-> TRUE]
  BY DEF CallInv, TypeOK, Create
<1>3. Execution(c)' = "running"
  BY <1>2 DEF Execution
<1>4. \A d \in Calls \ {c} : Execution(d)' = Execution(d)
  <2> SUFFICES ASSUME NEW d \in Calls \ {c} PROVE Execution(d)' = Execution(d)
    OBVIOUS
  <2>1. job'[d] = job[d]
    BY DEF CallInv, TypeOK, Create
  <2> QED
    BY <2>1 DEF Execution
<1>5. SameAnswers /\ UNCHANGED cancelled
  BY KeptTold DEF Create
<1> QED
  BY <1>1, <1>3, <1>4, <1>5 DEF Runtime!Start, SameAnswers

\* Words a caller may be told.
LEMMA TellAnswers ==
  ASSUME CallInv, NEW c \in Calls, pc[c] # "done", UNCHANGED <<job, cancelled>>,
         NEW what, Tell(c, what),
         NEW a \in {"ok", "failed", "error"},
         a = (IF what = "ok without log" THEN "ok" ELSE what),
         a = "ok" => Execution(c) = "ok",
         a = "failed" => Execution(c) = "failed"
  PROVE  Runtime!Next
<1>1. Told(c) = "none"
  BY DEF CallInv, Untouched, Told
<1>2. told'[c] = what /\ \A d \in Calls \ {c} : told'[d] = told[d]
  BY DEF Tell, CallInv, TypeOK
<1>3. Told(c)' = a /\ \A d \in Calls \ {c} : Told(d)' = Told(d)
  BY <1>2 DEF Told
<1>4. SameExecutions
  BY KeptJobs
<1>5. Runtime!Answer(c, a)
  BY <1>1, <1>3, <1>4 DEF Runtime!Answer, SameExecutions
<1> QED
  BY <1>5 DEF Runtime!Next

LEMMA FinishAnswers ==
  ASSUME CallInv, NEW c \in Calls, Finish(c)
  PROVE  Runtime!Next
<1>1. /\ pc[c] = "log" /\ UNCHANGED <<job, cancelled>>
      /\ saw[c] = job[c].status /\ saw[c] \in {"succeeded", "failed"}
  BY DEF Finish, CallInv, SawFinal, TypeOK, Statuses
<1>2. CASE saw[c] = "succeeded"
  <2>1. Execution(c) = "ok" /\ Verdict(c) = "ok"
    BY <1>1, <1>2 DEF Execution, Verdict
  <2>2. Tell(c, "ok") \/ Tell(c, "ok without log")
    BY <2>1 DEF Finish
  <2> QED
    BY <1>1, <2>1, <2>2, TellAnswers
<1>3. CASE saw[c] = "failed"
  <2>1. Execution(c) = "failed" /\ Verdict(c) = "failed"
    BY <1>1, <1>3 DEF Execution, Verdict
  <2>2. Tell(c, "failed")
    BY <2>1 DEF Finish
  <2> QED
    BY <1>1, <2>1, <2>2, TellAnswers
<1> QED
  BY <1>1, <1>2, <1>3

LEMMA ErrorAnswers ==
  ASSUME CallInv, NEW c \in Calls, CreateRefused(c) \/ JobNotFound(c) \/ PollFails(c)
  PROVE  Runtime!Next
<1>1. pc[c] # "done" /\ UNCHANGED <<job, cancelled>> /\ Tell(c, "error")
  BY DEF CreateRefused, MayCreate, JobNotFound, PollFails
<1> QED
  BY <1>1, TellAnswers

\* A job that stops running ends an execution, whoever stopped it.
LEMMA EndEnds ==
  ASSUME CallInv, NEW c \in Calls, JobEnds(c) \/ Deleted(c)
  PROVE  [Runtime!Next]_Runtime!vars
<1>1. job[c] = [status |-> job[c].status, exists |-> job[c].exists]
  BY DEF CallInv, TypeOK, Jobs
<1>2. \A d \in Calls \ {c} : Execution(d)' = Execution(d)
  <2> SUFFICES ASSUME NEW d \in Calls \ {c} PROVE Execution(d)' = Execution(d)
    OBVIOUS
  <2>1. job'[d] = job[d]
    BY DEF CallInv, TypeOK, JobEnds, Deleted
  <2> QED
    BY <2>1 DEF Execution
<1>3. \/ Execution(c)' = Execution(c)
      \/ Execution(c) = "running" /\ Execution(c)' \in {"ok", "failed", "killed"}
  <2>1. CASE JobEnds(c)
    <3>1. Execution(c) = "running"
      BY <2>1 DEF JobEnds, Overdue, Execution
    <3>2. job'[c].status \in {"succeeded", "failed"}
      BY <1>1, <2>1 DEF JobEnds, CallInv, TypeOK
    <3>3. Execution(c)' \in {"ok", "failed"}
      BY <3>2 DEF Execution
    <3> QED
      BY <3>1, <3>3
  <2>2. CASE Deleted(c)
    <3>1. job[c].exists /\ job'[c].status = job[c].status /\ job'[c].exists = FALSE
      BY <1>1, <2>2 DEF Deleted, CallInv, TypeOK
    <3>2. CASE job[c].status = "running"
      BY <3>1, <3>2 DEF Execution
    <3>3. CASE job[c].status # "running"
      BY <3>1, <3>3 DEF Execution
    <3> QED
      BY <3>2, <3>3
  <2> QED
    BY <2>1, <2>2
<1>4. SameAnswers /\ UNCHANGED cancelled
  BY KeptTold DEF JobEnds, Deleted
<1>5. CASE Execution(c)' = Execution(c)
  BY <1>2, <1>4, <1>5, Stutters DEF SameExecutions
<1>6. CASE Execution(c) = "running" /\ Execution(c)' \in {"ok", "failed", "killed"}
  <2>1. Runtime!End(c)
    BY <1>2, <1>4, <1>6 DEF Runtime!End, SameAnswers
  <2> QED
    BY <2>1 DEF Runtime!Next
<1> QED
  BY <1>3, <1>5, <1>6

LEMMA CancelCancels ==
  ASSUME CallInv, NEW c \in Calls, Cancel(c)
  PROVE  Runtime!Next
<1>1. Named(active[HatOf[c]]) \subseteq {c}
  BY NamedIsMine DEF Cancel, InProgress
<1>2. \A d \in Calls \ {c} : Execution(d)' = Execution(d)
  <2> SUFFICES ASSUME NEW d \in Calls \ {c} PROVE Execution(d)' = Execution(d)
    OBVIOUS
  <2>1. job'[d] = job[d]
    BY <1>1 DEF Cancel
  <2> QED
    BY <2>1 DEF Execution
<1>3. job[c] = [status |-> job[c].status, exists |-> job[c].exists]
  BY DEF CallInv, TypeOK, Jobs
<1>4. \/ Execution(c)' = Execution(c)
      \/ Execution(c) = "running" /\ Execution(c)' = "killed"
  <2>1. CASE job'[c] = job[c]
    BY <2>1 DEF Execution
  <2>2. CASE job'[c] # job[c]
    <3>1. job'[c] = [job[c] EXCEPT !.exists = FALSE] /\ job[c].exists
      BY <2>2 DEF Cancel, Named
    <3>2. job'[c].status = job[c].status /\ job'[c].exists = FALSE
      BY <1>3, <3>1
    <3>3. CASE job[c].status = "running"
      BY <3>1, <3>2, <3>3 DEF Execution
    <3>4. CASE job[c].status # "running"
      BY <3>2, <3>4 DEF Execution
    <3> QED
      BY <3>3, <3>4
  <2> QED
    BY <2>1, <2>2
<1>5. SameAnswers /\ cancelled' = cancelled \cup {c}
  BY KeptTold DEF Cancel
<1>6. Runtime!Cancel(c)
  BY <1>2, <1>4, <1>5 DEF Runtime!Cancel, SameAnswers
<1> QED
  BY <1>6 DEF Runtime!Next

LEMMA NextSimulated ==
  CallInv /\ [Next]_vars => [Runtime!Next]_Runtime!vars
<1> SUFFICES ASSUME CallInv, [Next]_vars PROVE [Runtime!Next]_Runtime!vars
  OBVIOUS
<1>1. ASSUME NEW c \in Calls, Wait(c) \/ PollEnded(c) PROVE UNCHANGED <<job, told, cancelled>>
  BY <1>1 DEF Wait, PollEnded
<1>2. ASSUME UNCHANGED <<job, told, cancelled>> PROVE UNCHANGED Runtime!vars
  BY <1>2, KeptJobs, KeptTold, Stutters
<1>3. ASSUME NEW c \in Calls, Create(c) PROVE Runtime!Next
  BY <1>3, CreateStarts DEF Runtime!Next
<1> QED
  BY <1>1, <1>2, <1>3, FinishAnswers, ErrorAnswers, EndEnds, CancelCancels
  DEF Next, Step, vars, AllDone, PollRunning

(***************************************************************************)
(* As long as a hat has one job at a time, as the controller sees to       *)
(* (OneJobPerHat of module Reconciler), a wait reports the end of the job  *)
(* its own create made, whatever fails and whoever cancels or deletes.     *)
(***************************************************************************)
THEOREM ContractHolds == ~Overlap => (Spec => Contract)
<1>1. Init => Runtime!Init
  <2> SUFFICES ASSUME Init PROVE Runtime!Init
    OBVIOUS
  <2>1. \A c \in Calls : Execution(c) = "none" /\ Told(c) = "none"
    BY DEF Init, Execution, Told
  <2> QED
    BY <2>1 DEF Init, Runtime!Init
<1>2. CallInv /\ [Next]_vars => [Runtime!Next]_Runtime!vars
  BY NextSimulated
<1>3. CASE ~Overlap
  <2>1. CallInv /\ [Next]_vars => CallInv'
    BY <1>3, CallNext
  <2> QED
    BY <1>1, <1>2, <2>1, CallInit, PTL DEF Spec, Contract, Runtime!Spec
<1> QED
  BY <1>3
=============================================================================
