----------------------------- MODULE Workspace -----------------------------
(***************************************************************************)
(* The workspace of a pod, boring-agent/src/workspace.rs: `materialize`    *)
(* copies notes of the run from the store into .boring/, the command edits *)
(* them there, and `sync_back` uploads them.  The pods of a batch do so    *)
(* side by side; each get and each put is a step of its own.               *)
(*                                                                         *)
(* A file is the set of the notes in it.  A hat has one pod at a time      *)
(* (OneJobPerHat of module Reconciler) and may be started again later.     *)
(***************************************************************************)
EXTENDS FiniteSets, Integers, Sequences, SequencesExt

CONSTANTS
  Hats,
  Missing,          \* there is no such key, or no such file
  Edits,            \* what a command may edit: sets of "own", "shared", ...
  MaxRounds,        \* bound: how often a hat is started
  Faults            \* a subset of {"get", "list", "put", "command"}

\* A hat's own scratchpad has the hat for its key.
Common == {"shared", "memories", "tasks"}
Keys == Hats \cup Common

VARIABLES
  pc,               \* where the agent of each hat stands
  round,            \* how many pods the hat has had
  store,            \* the run's keys in the store
  copy,             \* the files under .boring/ of each pod
  todo,             \* keys still to be read or written
  edited,           \* the keys whose files the command edited
  found,            \* ghost: the store when the pod started
  unlisted,         \* ghost: the hats whose pod could not list the scratchpads
  overlapped        \* ghost: two pods have been at work at the same time

podVars == <<pc, round, copy, todo, edited, found, unlisted, overlapped>>
vars == <<store, podVars>>

Notes == [hat : Hats, round : 1..MaxRounds]
File == {Missing} \cup SUBSET Notes
Content(file) == IF file = Missing THEN {} ELSE file

TypeOK ==
  /\ pc \in [Hats -> {"idle", "read", "list", "others", "run", "write", "done", "failed"}]
  /\ round \in [Hats -> 0..MaxRounds]
  /\ store \in [Keys -> File]
  /\ copy \in [Hats -> [Keys -> File]]
  /\ todo \in [Hats -> Seq(Keys)]
  /\ edited \in [Hats -> SUBSET Keys]
  /\ found \in [Hats -> [Keys -> File]]
  /\ unlisted \in SUBSET Hats
  /\ overlapped \in BOOLEAN

Nothing == [k \in Keys |-> Missing]

Init ==
  /\ pc = [h \in Hats |-> "idle"]
  /\ round = [h \in Hats |-> 0]
  /\ store = Nothing
  /\ copy = [h \in Hats |-> Nothing]
  /\ todo = [h \in Hats |-> <<>>]
  /\ edited = [h \in Hats |-> {}]
  /\ found = [h \in Hats |-> Nothing]
  /\ unlisted = {}
  /\ overlapped = FALSE

-----------------------------------------------------------------------------
AtWork(h) == pc[h] \notin {"idle", "done", "failed"}

\* Mutation: the tasks are not downloaded.
ReadOrderWithoutTasks(h) == <<h, "shared", "memories">>

\* The keys materialize asks for by name, in its order.
ReadOrder(h) == <<h, "shared", "memories", "tasks">>

\* A pod starts in an empty container.
Start(h) ==
  /\ ~AtWork(h)
  /\ round[h] < MaxRounds
  /\ round' = [round EXCEPT ![h] = @ + 1]
  /\ copy' = [copy EXCEPT ![h] = Nothing]
  /\ todo' = [todo EXCEPT ![h] = ReadOrder(h)]
  /\ edited' = [edited EXCEPT ![h] = {}]
  /\ found' = [found EXCEPT ![h] = store]
  /\ pc' = [pc EXCEPT ![h] = "read"]
  /\ overlapped' = (overlapped \/ \E g \in Hats \ {h} : AtWork(g))
  /\ UNCHANGED <<unlisted, store>>

ReadNext(h) ==
  /\ todo[h] # <<>>
  /\ copy' = [copy EXCEPT ![h][Head(todo[h])] = store[Head(todo[h])]]
  /\ todo' = [todo EXCEPT ![h] = Tail(@)]
  /\ UNCHANGED <<pc, round, edited, found, unlisted, overlapped, store>>

Read(h) == pc[h] = "read" /\ ReadNext(h)

\* workspace.rs:121-129: the scratchpads there are, less those already read.
Others(h) == {k \in Hats \ {h} : store[k] # Missing}

ListScratchpads(h) ==
  /\ pc[h] = "read"
  /\ todo[h] = <<>>
  /\ \E s \in SetToSeqs(Others(h)) : todo' = [todo EXCEPT ![h] = s]
  /\ pc' = [pc EXCEPT ![h] = "others"]
  /\ UNCHANGED <<round, copy, edited, found, unlisted, overlapped, store>>

\* An error of `list` is ignored (line 123), one of `get` is not.
ListFails(h) ==
  /\ "list" \in Faults
  /\ pc[h] = "read"
  /\ todo[h] = <<>>
  /\ pc' = [pc EXCEPT ![h] = "others"]
  /\ unlisted' = unlisted \cup {h}
  /\ UNCHANGED <<round, copy, todo, edited, found, overlapped, store>>

ReadOther(h) == pc[h] = "others" /\ ReadNext(h)

\* The container goes, and the workspace with it.
End(h, how) ==
  /\ pc' = [pc EXCEPT ![h] = how]
  /\ copy' = [copy EXCEPT ![h] = Nothing]
  /\ todo' = [todo EXCEPT ![h] = <<>>]
  /\ found' = [found EXCEPT ![h] = Nothing]
  /\ unlisted' = unlisted \ {h}
  /\ UNCHANGED <<round, edited, overlapped, store>>

Fail(h) == End(h, "failed")

GetFails(h) ==
  /\ "get" \in Faults
  /\ pc[h] \in {"read", "others"}
  /\ todo[h] # <<>>
  /\ Fail(h)

Materialized(h) ==
  /\ pc[h] = "others"
  /\ todo[h] = <<>>
  /\ pc' = [pc EXCEPT ![h] = "run"]
  /\ UNCHANGED <<round, copy, todo, edited, found, unlisted, overlapped, store>>

-----------------------------------------------------------------------------
Note(h) == [hat |-> h, round |-> round[h]]

\* Mutation: every scratchpad in the workspace is uploaded.
WriteOrderAll(h) == <<h, "shared", "memories", "tasks">> \o SetToSeq(Hats \ {h})

\* The files sync_back looks for, in its order.
WriteOrder(h) == <<h, "shared", "memories", "tasks">>

\* The command adds its note to some of the files.
RunCommand(h) ==
  /\ pc[h] = "run"
  /\ \E edit \in Edits :
       LET touched == (edit \ {"own"}) \cup (IF "own" \in edit THEN {h} ELSE {})
           files == [k \in Keys |-> IF k \in touched
                                    THEN Content(copy[h][k]) \cup {Note(h)}
                                    ELSE copy[h][k]]
       IN /\ edited' = [edited EXCEPT ![h] = touched]
          /\ copy' = [copy EXCEPT ![h] = files]
          /\ todo' = [todo EXCEPT ![h] = WriteOrder(h)]
  /\ pc' = [pc EXCEPT ![h] = "write"]
  /\ UNCHANGED <<round, found, unlisted, overlapped, store>>

CommandFails(h) ==
  /\ "command" \in Faults
  /\ pc[h] = "run"
  /\ Fail(h)

Exists(h, k) == copy[h][k] # Missing

\* sync_back uploads what exists, edited or not (lines 152, 161, 170, 179).
Write(h) ==
  /\ pc[h] = "write"
  /\ todo[h] # <<>>
  /\ LET k == Head(todo[h]) IN
     store' = IF Exists(h, k) THEN [store EXCEPT ![k] = copy[h][k]] ELSE store
  /\ todo' = [todo EXCEPT ![h] = Tail(@)]
  /\ UNCHANGED <<pc, round, copy, edited, found, unlisted, overlapped>>

\* What comes after a put that fails is not uploaded, what came before stays.
PutFails(h) ==
  /\ "put" \in Faults
  /\ pc[h] = "write"
  /\ todo[h] # <<>>
  /\ Exists(h, Head(todo[h]))
  /\ Fail(h)

\* main.rs:217: an emitted memory is logged, and that is all.
Finish(h) ==
  /\ pc[h] = "write"
  /\ todo[h] = <<>>
  /\ End(h, "done")

-----------------------------------------------------------------------------
Step(h) ==
  \/ Read(h) \/ ListScratchpads(h) \/ ReadOther(h) \/ Materialized(h)
  \/ RunCommand(h) \/ Write(h) \/ Finish(h)

Fault(h) ==
  \/ GetFails(h) \/ ListFails(h) \/ CommandFails(h) \/ PutFails(h)

Next == \E h \in Hats : Start(h) \/ Step(h) \/ Fault(h)

Spec == Init /\ [][Next]_vars

-----------------------------------------------------------------------------
(***************************************************************************)
(* Properties.                                                             *)
(***************************************************************************)
\* No step of a pod takes a note off a hat's scratchpad: of the pods only the
\* hat's own write it, one at a time, and each of them has read it before
\* (sync_back, materialize).
KeepsScratchpads ==
  \A h \in Hats : Content(store[h]) \subseteq Content(store'[h])

ScratchpadsGrow == [][KeepsScratchpads]_store

\* The command of a pod finds in .boring/scratchpad/ what every hat had stored
\* when the pod started, unless listing failed (workspace.rs:121).
SeesStoredScratchpads ==
  \A h, g \in Hats :
    pc[h] = "run" /\ h \notin unlisted => Content(found[h][g]) \subseteq Content(copy[h][g])

\* What a successful pod wrote into its own scratchpad is stored for good.
DoneIsStored ==
  \A h \in Hats :
    pc[h] = "done" /\ h \in edited[h] => Note(h) \in Content(store[h])

\* As long as no two pods have overlapped, no note of the run is lost: each of
\* the common files still holds what it held when the last pod started.
NothingLostInSequence ==
  ~overlapped =>
    \A h \in Hats, k \in Common :
      AtWork(h) => Content(found[h][k]) \subseteq Content(store[k])

=============================================================================
