------------------------------- MODULE Notes -------------------------------
(***************************************************************************)
(* What is read and written down of a job's output: the parser, the notes  *)
(* the controller keeps, and the workspaces of a batch of pods.  Each      *)
(* behaviour is of one of them, "part"; the variables of the others keep   *)
(* one value.                                                              *)
(***************************************************************************)
EXTENDS FiniteSets, Integers, Sequences

CONSTANTS
  Lines, MaxLines, PromiseEdges, BaseSequence,   \* of the parser
  Outputs, MaxNotes, MaxFaults, TornWrites,      \* of the notebook
  Hats, Missing, Edits, MaxRounds, Faults        \* of the workspaces

VARIABLES
  part,
  edge, input, next, seq, completionFound, result, published,   \* the parser
  store, todo, copy,                    \* of both that write to the store
  heard, written, faults,               \* the notebook
  pc, round, edited, found, unlisted, overlapped  \* the workspaces

Parser == INSTANCE OutputParser
Controller == INSTANCE Notebook WITH Writers <- {1}
Pods == INSTANCE Workspace

ASSUME BoundsAssumption ==
  /\ MaxLines \in Nat /\ BaseSequence \in Nat
  /\ MaxNotes \in Nat /\ MaxFaults \in Nat /\ MaxRounds \in Nat

ASSUME LinesAssumption == Lines \subseteq Parser!Line /\ PromiseEdges \subseteq Parser!Edges

\* Only tasks are ever updated.
ASSUME OutputsAssumption ==
  \A o \in Outputs :
    /\ o \in Seq([file : Controller!Files, action : {"add", "done", "progress"}, id : STRING])
    /\ \A i \in DOMAIN o : o[i].file # "tasks" => o[i].action = "add"

\* No hat is called as one of the common files.
ASSUME HatsAssumption ==
  /\ IsFiniteSet(Hats) /\ Hats \cap Pods!Common = {}
  /\ \A notes \in SUBSET Pods!Notes : notes # Missing
  /\ Edits \subseteq SUBSET ({"own"} \cup Pods!Common)

parserVars == <<edge, input, next, seq, completionFound, result, published>>
sharedVars == <<store, todo, copy>>
notebookVars == <<heard, written, faults>>
workspaceVars == <<pc, round, edited, found, unlisted, overlapped>>
vars == <<part, parserVars, sharedVars, notebookVars, workspaceVars>>

NoParser ==
  /\ edge = "none" /\ input = <<>> /\ next = 1 /\ seq = 0 /\ completionFound = FALSE
  /\ result = <<>> /\ published = "none"
NoNotes == store = <<>> /\ todo = <<>> /\ copy = <<>>
NoNotebook == heard = 0 /\ written = <<>> /\ faults = 0
NoWorkspace ==
  /\ pc = <<>> /\ round = <<>> /\ edited = <<>> /\ found = <<>>
  /\ unlisted = {} /\ overlapped = FALSE

Init ==
  \/ part = "parser" /\ Parser!Init /\ NoNotes /\ NoNotebook /\ NoWorkspace
  \/ part = "notebook" /\ Controller!Init /\ NoParser /\ NoWorkspace
  \/ part = "pods" /\ Pods!Init /\ NoParser /\ NoNotebook

InParser == part = "parser" /\ UNCHANGED <<part, sharedVars, notebookVars, workspaceVars>>
InNotebook == part = "notebook" /\ UNCHANGED <<part, parserVars, workspaceVars>>
InPods == part = "pods" /\ UNCHANGED <<part, parserVars, notebookVars>>

Next ==
  \/ InParser /\ Parser!Next
  \/ InNotebook /\ Controller!Next
  \/ InPods /\ Pods!Next

Spec == Init /\ [][Next]_vars

-----------------------------------------------------------------------------
(***************************************************************************)
(* The parser's events are the emitted lines and the first promise, in     *)
(* their order, numbered from the base on without a gap; and the           *)
(* reconciler's second look finds a bare promise that begins with a dash.  *)
(***************************************************************************)
EventsAsPrinted ==
  part = "parser" =>
    /\ Parser!TypeOK
    /\ Parser!NumberedWithoutGaps
    /\ Parser!EventsAreThoseEmitted
    /\ Parser!PromiseHeard

(***************************************************************************)
(* Notes are kept.  The controller's lists, of which it is the one writer, *)
(* are what was written for them, in order, and a task has the status of   *)
(* its last update, whichever saves fail in between.  A pod's own notes    *)
(* are stored when it succeeds, all notes are while pods do not overlap,   *)
(* and a command finds what every hat had stored before unless listing     *)
(* failed.                                                                 *)
(***************************************************************************)
NotesAreKept ==
  /\ part = "notebook" =>
       /\ Controller!TypeOK
       /\ Controller!ListsAreThoseWritten
       /\ Controller!StatusIsLastUpdate
  /\ part = "pods" =>
       /\ Pods!TypeOK
       /\ Pods!NothingLostInSequence
       /\ Pods!DoneIsStored
       /\ Pods!SeesStoredScratchpads

\* No step of a pod takes a note off a hat's scratchpad, whichever of the pod's
\* own reads and writes fail.  What the controller writes over a scratchpad it
\* could not read (reconciler.rs:340-352) is no step of a pod.
ScratchpadsGrow == [][part = "pods" => Pods!KeepsScratchpads]_vars
=============================================================================
