------------------------------ MODULE MCNotes ------------------------------
(* Short outputs, few notes, and two hats with two pods each.              *)
EXTENDS Notes, TLC

(***************************************************************************)
(* Lines with one marker, with two, with nothing after the marker, with    *)
(* the promise bare or decorated, and with nothing of interest.            *)
(***************************************************************************)
Marked(ms) == [markers |-> ms, empty |-> FALSE, promise |-> "no"]
Empty(ms) == [markers |-> ms, empty |-> TRUE, promise |-> "no"]
Promise(decoration) == [markers |-> {}, empty |-> FALSE, promise |-> decoration]

MCLines ==
  {Marked({"EMIT"}), Empty({"EMIT"}), Marked({"MEMORY"}), Marked({"EMIT", "MEMORY"}),
   Marked({"TASK"}), Marked({"NOTIFY"}), Marked({"TASK", "SCRATCHPAD"}),
   Marked({"SCRATCHPAD"}), Promise("none"), Promise("dash"), Marked({})}

(***************************************************************************)
(* Outputs with notes of every kind; two tasks share an id, as the tasks   *)
(* of one output do (output_parser.rs:80).                                 *)
(***************************************************************************)
N(f, a, i) == [file |-> f, action |-> a, id |-> i]
Memory == N("memories", "add", "-")
Pad == N("scratchpad", "add", "-")
Task(i) == N("tasks", "add", i)

MCOutputs ==
  {<<Memory, Memory>>, <<Memory, Pad>>, <<Task("t1"), Task("t1")>>,
   <<Task("t2"), N("tasks", "done", "t1"), Pad>>, <<N("tasks", "progress", "t1")>>}

\* Commands that leave everything alone, take private and lasting notes, or
\* edit what is shared.
MCEdits == {{}, {"own", "memories"}, {"shared", "tasks"}}

HatSymmetry == Permutations(Hats)
=============================================================================
