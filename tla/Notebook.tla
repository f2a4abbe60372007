------------------------------ MODULE Notebook ------------------------------
(***************************************************************************)
(* What the controller writes down of a job's output: memories             *)
(* (boring-controller/src/memories.rs), task actions (tasks.rs) and        *)
(* scratchpad lines, one after the other as in reconciler.rs:299-353.      *)
(*                                                                         *)
(* Each note is a read, a change and a write of a whole file of the run,   *)
(* with an await at the read and at the write.  A failure is ignored (.ok) *)
(* and the next note is taken.  A controller may crash anywhere; what its  *)
(* memory held is gone.                                                    *)
(*                                                                         *)
(* LocalStore truncates the file before it writes it (local.rs:39), so a   *)
(* crash or a full disk may leave a file of which some end is missing.     *)
(***************************************************************************)
EXTENDS Integers, Sequences, SequencesExt

CONSTANTS
  Writers,          \* the controllers of the run: one, unless it is continued twice
  Outputs,          \* the notes a job may leave, in the order they are written:
                    \* of which file, "add", "done" or "progress", and a task's id
  MaxNotes,         \* bound: notes heard in all
  MaxFaults,        \* bound: reads and writes that fail, and crashes
  TornWrites        \* may a crash leave a file half written

Files == {"memories", "tasks", "scratchpad"}

VARIABLES
  store,            \* the files: entries, and whether the end is missing
  todo,             \* of each writer: the notes it still has to write down
  copy,             \* whether it has read the file of the first, and what it read
  heard,            \* number of notes heard: each entry carries its own
  written,          \* history: of each file, the notes whose write went through
  faults

vars == <<store, todo, copy, heard, written, faults>>

Nothing == [known |-> FALSE, list |-> <<>>]
Known(list) == [known |-> TRUE, list |-> list]

\* Only tasks have a status.
Entry(note) == [id |-> note.id, at |-> note.at, status |-> "pending"]

TypeOK ==
  /\ DOMAIN store = Files
  /\ \A f \in Files : store[f].torn \in BOOLEAN
  /\ \A f \in Files : \A i \in DOMAIN store[f].entries :
       store[f].entries[i].status \in {"pending", "done", "progress"}
  /\ \A f \in Files \ {"tasks"} : \A i \in DOMAIN store[f].entries :
       store[f].entries[i].status = "pending"
  /\ DOMAIN todo = Writers
  /\ \A w \in Writers : copy[w].known => todo[w] # <<>>
  /\ heard \in 0..MaxNotes
  /\ faults \in 0..MaxFaults

Init ==
  /\ store = [f \in Files |-> [torn |-> FALSE, entries |-> <<>>]]
  /\ todo = [w \in Writers |-> <<>>]
  /\ copy = [w \in Writers |-> Nothing]
  /\ heard = 0
  /\ written = [f \in Files |-> <<>>]
  /\ faults = 0

-----------------------------------------------------------------------------
Fault == faults < MaxFaults /\ faults' = faults + 1

\* A job has ended; what it noted is numbered as it is heard.
Hear(w) ==
  /\ todo[w] = <<>>
  /\ \E o \in Outputs :
       /\ heard + Len(o) <= MaxNotes
       /\ todo' = [todo EXCEPT ![w] =
            [i \in DOMAIN o |-> [file |-> o[i].file, action |-> o[i].action,
                                 id |-> o[i].id, at |-> heard + i]]]
       /\ heard' = heard + Len(o)
  /\ UNCHANGED <<store, copy, written, faults>>

File(w) == Head(todo[w]).file

Skip(w) ==
  /\ todo' = [todo EXCEPT ![w] = Tail(@)]
  /\ copy' = [copy EXCEPT ![w] = Nothing]

\* A list whose end is missing is not JSON; a scratchpad is read as it is.
Readable(f) == f = "scratchpad" \/ ~store[f].torn

Get(w) ==
  /\ todo[w] # <<>> /\ ~copy[w].known
  /\ Readable(File(w))
  /\ copy' = [copy EXCEPT ![w] = Known(store[File(w)].entries)]
  /\ UNCHANGED <<store, todo, heard, written, faults>>

\* The scratchpad that cannot be read counts as empty; a list ends the call.
Unread(w) ==
  IF File(w) = "scratchpad"
  THEN copy' = [copy EXCEPT ![w] = Known(<<>>)] /\ UNCHANGED todo
  ELSE Skip(w)

GetFails(w) ==
  /\ todo[w] # <<>> /\ ~copy[w].known
  /\ (Readable(File(w)) /\ Fault) \/ (~Readable(File(w)) /\ UNCHANGED faults)
  /\ Unread(w)
  /\ UNCHANGED <<store, heard, written>>

\* update_status: the first task of that id, if there is one.
WithStatus(list, id, status) ==
  LET i == SelectInSeq(list, LAMBDA t : t.id = id) IN
  IF i = 0 THEN list ELSE [list EXCEPT ![i].status = status]

Changed(list, note) ==
  IF note.action = "add" THEN Append(list, Entry(note))
  ELSE WithStatus(list, note.id, note.action)

Put(w) ==
  LET note == Head(todo[w]) IN
  /\ copy[w].known
  /\ store' = [store EXCEPT ![note.file] =
                 [torn |-> FALSE, entries |-> Changed(copy[w].list, note)]]
  /\ written' = [written EXCEPT ![note.file] = Append(@, note)]
  /\ Skip(w)
  /\ UNCHANGED <<heard, faults>>

\* A write cut short may have got to any point.
CutShort(w) ==
  /\ TornWrites /\ copy[w].known
  /\ \E n \in 0..Len(copy[w].list) :
       store' = [store EXCEPT ![File(w)] =
                   [torn |-> TRUE, entries |-> SubSeq(copy[w].list, 1, n)]]

PutFails(w) ==
  /\ copy[w].known
  /\ Fault
  /\ UNCHANGED store \/ CutShort(w)
  /\ Skip(w)
  /\ UNCHANGED <<heard, written>>

Crash(w) ==
  /\ todo[w] # <<>>
  /\ Fault
  /\ UNCHANGED store \/ CutShort(w)
  /\ todo' = [todo EXCEPT ![w] = <<>>]
  /\ copy' = [copy EXCEPT ![w] = Nothing]
  /\ UNCHANGED <<heard, written>>

Quiet == (\A w \in Writers : todo[w] = <<>>) /\ UNCHANGED vars

Next ==
  \/ \E w \in Writers :
       Hear(w) \/ Get(w) \/ GetFails(w) \/ Put(w) \/ PutFails(w) \/ Crash(w)
  \/ Quiet

Spec == Init /\ [][Next]_vars

-----------------------------------------------------------------------------
(***************************************************************************)
(* Properties.                                                             *)
(***************************************************************************)
Ascending(list) == \A i, j \in DOMAIN list : i < j => list[i].at < list[j].at
Added(list) == {[id |-> list[i].id, at |-> list[i].at] : i \in DOMAIN list}
Adds(f) == {[id |-> n.id, at |-> n.at] : n \in {n \in Range(written[f]) : n.action = "add"}}

\* A list holds exactly what was written for it, in the order it was heard,
\* whatever reads and writes failed between and wherever the controller
\* crashed, unless a write was cut short.
ListsAreThoseWritten ==
  \A f \in {"memories", "tasks"} :
    /\ Ascending(written[f])
    /\ ~store[f].torn => Ascending(store[f].entries) /\ Added(store[f].entries) = Adds(f)

(***************************************************************************)
(* The reference for a status: that of the last written update that was   *)
(* made while the task was the first of its id, in a file that is whole.   *)
(***************************************************************************)
FirstOfId(i) ==
  \A k \in 1..i - 1 : store["tasks"].entries[k].id # store["tasks"].entries[i].id

Updates(task) ==
  {n \in Range(written["tasks"]) : n.action # "add" /\ n.id = task.id /\ n.at > task.at}

IsLast(n, notes) == n \in notes /\ \A m \in notes : m.at <= n.at

StatusIsLastUpdate ==
  ~store["tasks"].torn =>
    \A i \in DOMAIN store["tasks"].entries :
      LET task == store["tasks"].entries[i]
          updates == Updates(task)
      IN IF FirstOfId(i) /\ updates # {}
         THEN \E n \in updates : IsLast(n, updates) /\ task.status = n.action
         ELSE task.status = "pending"
=============================================================================
