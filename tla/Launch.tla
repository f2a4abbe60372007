------------------------------- MODULE Launch -------------------------------
(***************************************************************************)
(* The commands run, run --continue, status and logs of boring-cli, as     *)
(* processes in one directory: each loads its configuration, and shares    *)
(* with the others the store under .boring (LocalStore, boring-store/src/  *)
(* local.rs), whose checkpoints find_latest (boring-controller/src/        *)
(* checkpoint.rs) looks through, and one file in /tmp for an inline        *)
(* prompt.  What a run does is Reconciler; here it saves checkpoints, may  *)
(* crash, and ends.                                                        *)
(***************************************************************************)
EXTENDS FiniteSets, Integers

CONSTANTS
  Processes,
  Settings,         \* see Setting
  MaxFaults         \* bound: crashes, and services that do not answer

Commands == {"run", "continue", "status", "logs"}
Option == [command : Commands, prompt : BOOLEAN, config : {"good", "unreadable", "invalid"}]

(***************************************************************************)
(* What is taken for granted of a behaviour: the options processes have,   *)
(* whether each is over before the next begins, whether a file may be      *)
(* seen, or left by a crash, half written, whether jobs leave notes, and   *)
(* as a bound, how many checkpoints a process writes.                      *)
(***************************************************************************)
Setting ==
  [options : SUBSET Option, inTurn : BOOLEAN, torn : BOOLEAN, notes : BOOLEAN, maxSaves : Nat]

\* Run ids are random; their order, by which keys are sorted, is any order.
Runs == 1..Cardinality(Processes)
NoRun == 0

VARIABLES
  setting,
  option,           \* of each process
  pc,               \* see PCs
  inline,           \* the file in /tmp: the process whose prompt it holds
  checkpoint,       \* of each run: how many saves it holds, and is it whole
  scratchpad,       \* runs that have a scratchpad
  began,            \* history: the saves of each run when a search began
  keys, latest,     \* of a search: runs still to look at, the last found; of logs: the run
  run, resumed,     \* the run a process drives, and the saves it starts from
  task,             \* whose prompt the JobBuilder of a process has read
  saves,            \* how often it has saved
  code,             \* exit codes, or NoCode before the end; 9 for a crash
  faults

vars == <<setting, option, pc, inline, checkpoint, scratchpad, began, keys, latest,
          run, resumed, task, saves, code, faults>>

PCs == {"off", "prompt", "connect", "list", "get", "job builder",
        "running", "saving", "over"}

Nobody == "nobody"
Absent == [saves |-> 0, whole |-> TRUE]
Has(r) == checkpoint[r] # Absent
NoCode == 10
NothingFound == [run |-> NoRun, saves |-> 0]

TypeOK ==
  /\ setting \in Settings
  /\ option \in [Processes -> setting.options]
  /\ pc \in [Processes -> PCs]
  /\ inline \in Processes \cup {Nobody}
  /\ checkpoint \in [Runs -> [saves : Nat, whole : BOOLEAN]]
  /\ scratchpad \subseteq Runs
  /\ began \in [Processes -> [Runs -> Nat]]
  /\ keys \in [Processes -> SUBSET Runs]
  /\ latest \in [Processes -> [run : Runs \cup {NoRun}, saves : Nat]]
  /\ run \in [Processes -> Runs \cup {NoRun}]
  /\ resumed \in [Processes -> Nat]
  /\ task \in [Processes -> Processes \cup {Nobody}]
  /\ saves \in [Processes -> 0..setting.maxSaves]
  /\ code \in [Processes -> {0, 1, 2, 9, NoCode}]
  /\ faults \in 0..MaxFaults

Init ==
  /\ setting \in Settings
  /\ option \in [Processes -> setting.options]
  /\ pc = [p \in Processes |-> "off"]
  /\ inline = Nobody
  /\ checkpoint = [r \in Runs |-> Absent]
  /\ scratchpad = {}
  /\ began = [p \in Processes |-> [r \in Runs |-> 0]]
  /\ keys = [p \in Processes |-> {}]
  /\ latest = [p \in Processes |-> NothingFound]
  /\ run = [p \in Processes |-> NoRun]
  /\ resumed = [p \in Processes |-> 0]
  /\ task = [p \in Processes |-> Nobody]
  /\ saves = [p \in Processes |-> 0]
  /\ code = [p \in Processes |-> NoCode]
  /\ faults = 0

storeVars == <<checkpoint, scratchpad>>
searchVars == <<began, keys, latest>>
runVars == <<run, resumed, task, saves>>

-----------------------------------------------------------------------------
Command(p) == option[p].command
Runner(p) == Command(p) \in {"run", "continue"}

Goto(p, where) == pc' = [pc EXCEPT ![p] = where] /\ UNCHANGED code
Exit(p, c) == pc' = [pc EXCEPT ![p] = "over"] /\ code' = [code EXCEPT ![p] = c]

Fault == faults < MaxFaults /\ faults' = faults + 1

Alone(p) == \A q \in Processes \ {p} : pc[q] \in {"off", "over"}

\* A status or logs command has no configuration; the others load theirs.
Begin(p) ==
  /\ pc[p] = "off"
  /\ setting.inTurn => Alone(p)
  /\ IF ~Runner(p) THEN Goto(p, "list")
     ELSE IF option[p].config = "unreadable" THEN Exit(p, 1)
     ELSE Goto(p, IF option[p].prompt THEN "prompt" ELSE "connect")
  /\ UNCHANGED <<setting, option, inline, storeVars, searchVars, runVars, faults>>

\* The inline prompt goes to the one file that all processes use, or cannot be
\* written.
WritePrompt(p) ==
  /\ pc[p] = "prompt"
  /\ \/ inline' = p /\ Goto(p, "connect") /\ UNCHANGED faults
     \/ Fault /\ Exit(p, 1) /\ UNCHANGED inline
  /\ UNCHANGED <<setting, option, storeVars, searchVars, runVars>>

\* validate, then the broker, and in k8s mode the cluster.
Connect(p) ==
  /\ pc[p] = "connect"
  /\ IF option[p].config = "invalid" THEN Exit(p, 2) /\ UNCHANGED faults
     ELSE \/ /\ Goto(p, IF Command(p) = "continue" THEN "list" ELSE "job builder")
             /\ UNCHANGED faults
          \/ Fault /\ Exit(p, 1)
  /\ UNCHANGED <<setting, option, inline, storeVars, searchVars, runVars>>

-----------------------------------------------------------------------------
(***************************************************************************)
(* find_latest: the keys are listed once, in the order of the run ids, and *)
(* read one by one; the last that parses is the result.                    *)
(***************************************************************************)
List(p) ==
  /\ pc[p] = "list" /\ Command(p) # "logs"
  /\ began' = [began EXCEPT ![p] = [r \in Runs |-> checkpoint[r].saves]]
  /\ keys' = [keys EXCEPT ![p] = {r \in Runs : Has(r)}]
  /\ Goto(p, "get")
  /\ UNCHANGED <<setting, option, inline, storeVars, latest, runVars, faults>>

\* Mutation: what does not parse is taken for what it was.
ParsesTorn(r) == TRUE
Parses(r) == checkpoint[r].whole

Least(S) == CHOOSE r \in S : \A k \in S : r <= k

Get(p) ==
  LET r == Least(keys[p]) IN
  /\ pc[p] = "get" /\ keys[p] # {}
  /\ latest' = IF Parses(r)
               THEN [latest EXCEPT ![p] = [run |-> r, saves |-> checkpoint[r].saves]]
               ELSE latest
  /\ keys' = [keys EXCEPT ![p] = @ \ {r}]
  /\ UNCHANGED <<setting, option, pc, inline, storeVars, began, runVars, code, faults>>

\* Listing or reading fails.
SearchFails(p) ==
  /\ pc[p] \in {"list", "get"}
  /\ Fault /\ Exit(p, 1)
  /\ UNCHANGED <<setting, option, inline, storeVars, searchVars, runVars>>

Found(p) ==
  /\ pc[p] = "get" /\ keys[p] = {}
  /\ IF Command(p) = "continue" THEN Goto(p, "job builder")
     ELSE Exit(p, IF latest[p].run = NoRun THEN 1 ELSE 0)
  /\ UNCHANGED <<setting, option, inline, storeVars, searchVars, runVars, faults>>

\* Logs of the run it is given: events are looked for where nothing puts them,
\* then scratchpads.
Logs(p) ==
  /\ pc[p] = "list" /\ Command(p) = "logs"
  /\ \E r \in Runs :
       /\ latest' = [latest EXCEPT ![p] = [run |-> r, saves |-> 0]]
       /\ Exit(p, IF r \in scratchpad THEN 0 ELSE 1)
  /\ UNCHANGED <<setting, option, inline, storeVars, began, keys, runVars, faults>>

-----------------------------------------------------------------------------
Driven == {run[q] : q \in Processes}

FreshRuns == {r \in Runs : ~Has(r) /\ r \notin scratchpad /\ r \notin Driven}

Task(p) == IF option[p].prompt THEN inline ELSE p

\* run_inner: the run to drive, then JobBuilder::new, which reads the prompt.
Enter(p) ==
  /\ pc[p] = "job builder"
  /\ IF latest[p].run # NoRun
     THEN run' = [run EXCEPT ![p] = latest[p].run]
     ELSE \E r \in FreshRuns : run' = [run EXCEPT ![p] = r]
  /\ resumed' = [resumed EXCEPT ![p] = latest[p].saves]
  /\ task' = [task EXCEPT ![p] = Task(p)]
  /\ Goto(p, "running")
  /\ UNCHANGED <<setting, option, inline, storeVars, searchVars, saves, faults>>

Note(p) ==
  /\ setting.notes /\ pc[p] = "running" /\ run[p] \notin scratchpad
  /\ scratchpad' = scratchpad \cup {run[p]}
  /\ UNCHANGED <<setting, option, pc, inline, checkpoint, searchVars, runVars, code, faults>>

Saved(p) == resumed[p] + saves[p] + 1

\* Checkpoint::save over LocalStore::put: truncate, then write.
BeginSave(p) ==
  /\ pc[p] = "running" /\ saves[p] < setting.maxSaves
  /\ checkpoint' = IF setting.torn
                   THEN [checkpoint EXCEPT ![run[p]].whole = FALSE]
                   ELSE checkpoint
  /\ Goto(p, "saving")
  /\ UNCHANGED <<setting, option, inline, scratchpad, searchVars, runVars, faults>>

EndSave(p) ==
  /\ pc[p] = "saving"
  /\ saves' = [saves EXCEPT ![p] = @ + 1]
  /\ checkpoint' = [checkpoint EXCEPT ![run[p]] =
       [saves |-> Saved(p), whole |-> TRUE]]
  /\ Goto(p, "running")
  /\ UNCHANGED <<setting, option, inline, scratchpad, searchVars, run, resumed, task, faults>>

\* A save that fails, before or after it truncates, is passed over.
SaveFails(p) ==
  /\ pc[p] = "saving"
  /\ Fault /\ Goto(p, "running")
  /\ UNCHANGED <<setting, option, inline, storeVars, searchVars, runVars>>

\* RunResult or error, and its exit code.
Ends(p) ==
  /\ pc[p] = "running"
  /\ \E completed \in BOOLEAN : Exit(p, IF completed THEN 0 ELSE 1)
  /\ UNCHANGED <<setting, option, inline, storeVars, searchVars, runVars, faults>>

Crash(p) ==
  /\ pc[p] \in {"running", "saving"}
  /\ Fault /\ Exit(p, 9)
  /\ UNCHANGED <<setting, option, inline, storeVars, searchVars, runVars>>

AllOver == (\A p \in Processes : pc[p] = "over") /\ UNCHANGED vars

Next ==
  \/ \E p \in Processes :
       \/ Begin(p) \/ WritePrompt(p) \/ Connect(p)
       \/ List(p) \/ Get(p) \/ SearchFails(p) \/ Found(p) \/ Logs(p)
       \/ Enter(p) \/ Note(p) \/ BeginSave(p) \/ EndSave(p) \/ SaveFails(p) \/ Ends(p) \/ Crash(p)
  \/ AllOver

Spec == Init /\ [][Next]_vars

-----------------------------------------------------------------------------
(***************************************************************************)
(* Properties.                                                             *)
(***************************************************************************)
Entered(p) == run[p] # NoRun

Drives(p, r) == Entered(p) /\ run[p] = r

\* Two processes have gone on from the same checkpoint of a run, and both have
\* saved: what one had counted the other has counted otherwise.
Forked(r) ==
  \E p, q \in Processes :
    /\ p # q /\ Drives(p, r) /\ Drives(q, r)
    /\ saves[p] > 0 /\ resumed[p] < resumed[q] + saves[q]
    /\ saves[q] > 0 /\ resumed[q] < resumed[p] + saves[p]

\* A process that continues starts from a checkpoint that was written as a
\* whole; and from one no older than its run had when the search began,
\* however other processes save meanwhile, unless that run has forked.
ResumedIsSaved ==
  \A p \in Processes : (Command(p) = "continue" /\ latest[p].run # NoRun) =>
    /\ latest[p].saves > 0
    /\ Forked(latest[p].run) \/ latest[p].saves >= began[p][latest[p].run]

\* A run that is not continued is a new one: nobody has a file of it or
\* drives it.
FreshIsNew ==
  \A p, q \in Processes :
    (p # q /\ Entered(p) /\ Entered(q) /\ run[p] = run[q]) =>
      latest[p].run # NoRun \/ latest[q].run # NoRun

\* While writes are whole, --continue starts a new run only where there was
\* none to continue.
ContinueFinds ==
  \A p \in Processes :
    (~setting.torn /\ Command(p) = "continue" /\ Entered(p) /\ latest[p].run = NoRun) =>
      \A r \in Runs : began[p][r] = 0

\* While processes do not overlap, every run has the prompt it was given,
OwnPrompt == setting.inTurn => \A p \in Processes : Entered(p) => task[p] = p

\* and no run forks.
NeverForks == setting.inTurn => \A r \in Runs : ~Forked(r)
=============================================================================
