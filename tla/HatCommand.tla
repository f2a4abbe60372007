----------------------------- MODULE HatCommand -----------------------------
(***************************************************************************)
(* The command of a hat that runs a configured backend, and what is made   *)
(* of it: the AI's own program, then a shell wrapper (backend_command,     *)
(* boring-proto/src/config.rs), with the emit tool (boring-agent/src/bin/  *)
(* emit.rs) writing to a file of events.  A job of a pod has a file of its *)
(* own, which boring-agent reads (main.rs:167-225); local jobs share one   *)
(* in /tmp, which is there from job to job and from run to run, and        *)
(* nothing reads it.  Of both kinds the controller looks at the output: of *)
(* a local job what it printed, of a pod its log (reconciler.rs:242-297).  *)
(***************************************************************************)
EXTENDS Integers, Sequences

CONSTANTS
  Jobs,             \* jobs; any number of them at a time, as in a batch
  Speaking,         \* those whose hat has a default topic
  MaxEmits          \* bound: calls of emit by one AI

VARIABLES
  place,            \* where the jobs run: "pod" or "local"
  pc,               \* of each job: "waiting", "ai", "wrapper", "agent", "controller", "ended"
  calls,            \* history: how often its AI called emit
  emitted,          \* history: the lines those calls wrote
  printed,          \* jobs in whose output the controller finds a marker or the promise
  there,            \* the files that exist
  lines,            \* what is in each
  read,             \* how many lines of its file the agent is through with
  status,           \* of the job: "none", "ok", "failed"; "aborted" if the run ends over it
  heard,            \* what the agent has published, with the line each came from
  said              \* what the controller has

vars == <<place, pc, calls, emitted, printed, there, lines, read, status, heard, said>>

FileOf(j) == IF place = "pod" THEN j ELSE "shared"
FileNames == Jobs \cup {"shared"}

\* "unheard" is a line the agent skips: a note, a task, an event with an empty
\* topic, or what does not parse, since emit.rs escapes quotes only.
Emittable == {"event", "complete", "unheard"}
Line == [by : Jobs, what : Emittable \cup {"default"}]

TypeOK ==
  /\ place \in {"pod", "local"}
  /\ pc \in [Jobs -> {"waiting", "ai", "wrapper", "agent", "controller", "ended"}]
  /\ calls \in [Jobs -> 0..MaxEmits]
  /\ emitted \in [Jobs -> Seq(Emittable)]
  /\ printed \subseteq Jobs
  /\ there \subseteq FileNames
  /\ lines \in [FileNames -> Seq(Line)]
  /\ read \in [Jobs -> Nat]
  /\ status \in [Jobs -> {"none", "ok", "failed", "aborted"}]
  /\ heard \in [Jobs -> Seq([nr : Nat, line : Line])]
  /\ said \in [Jobs -> {"none", "nothing", "default", "printed"}]

\* A pod begins without a file; the local one may be there from earlier runs.
Init ==
  /\ place \in {"pod", "local"}
  /\ pc = [j \in Jobs |-> "waiting"]
  /\ calls = [j \in Jobs |-> 0]
  /\ emitted = [j \in Jobs |-> <<>>]
  /\ printed = {}
  /\ there \in IF place = "pod" THEN {{}} ELSE SUBSET {"shared"}
  /\ lines = [f \in FileNames |-> <<>>]
  /\ read = [j \in Jobs |-> 0]
  /\ status = [j \in Jobs |-> "none"]
  /\ heard = [j \in Jobs |-> <<>>]
  /\ said = [j \in Jobs |-> "none"]

-----------------------------------------------------------------------------
(***************************************************************************)
(* The AI.  A call of emit creates the file if need be and appends a line, *)
(* or fails before or after the file is there.                             *)
(***************************************************************************)
Goto(j, where) == pc' = [pc EXCEPT ![j] = where]

Emit(j, what) ==
  /\ there' = there \cup {FileOf(j)}
  /\ lines' = [lines EXCEPT ![FileOf(j)] = Append(@, [by |-> j, what |-> what])]

EmitFails(j) == there' \in {there, there \cup {FileOf(j)}} /\ UNCHANGED lines

Start(j) ==
  /\ pc[j] = "waiting"
  /\ Goto(j, "ai")
  /\ UNCHANGED <<place, calls, emitted, printed, there, lines, read, status, heard, said>>

AiEmits(j) ==
  /\ pc[j] = "ai" /\ calls[j] < MaxEmits
  /\ calls' = [calls EXCEPT ![j] = @ + 1]
  /\ \/ \E what \in Emittable :
          Emit(j, what) /\ emitted' = [emitted EXCEPT ![j] = Append(@, what)]
     \/ EmitFails(j) /\ UNCHANGED emitted
  /\ UNCHANGED <<place, pc, printed, read, status, heard, said>>

AiPrints(j) ==
  /\ pc[j] = "ai" /\ j \notin printed
  /\ printed' = printed \cup {j}
  /\ UNCHANGED <<place, pc, calls, emitted, there, lines, read, status, heard, said>>

\* `cli ; if ...`: what its program returns is not looked at.
AiEnds(j) ==
  /\ pc[j] = "ai"
  /\ Goto(j, "wrapper")
  /\ UNCHANGED <<place, calls, emitted, printed, there, lines, read, status, heard, said>>

-----------------------------------------------------------------------------
(***************************************************************************)
(* The wrapper emits the default if there is one and no file: the status   *)
(* of the job is that of this emit, or of the test.                        *)
(***************************************************************************)
\* Mutation: the default goes out in any case.
SilentAlways(j) == TRUE
Silent(j) == FileOf(j) \notin there

SpeaksFor(j) == Silent(j) /\ j \in Speaking

WrapperEnds(j, ended) ==
  /\ pc[j] = "wrapper"
  /\ status' = [status EXCEPT ![j] = ended]
  /\ Goto(j, CASE ended = "failed" -> "ended"
               [] ended = "ok" -> IF place = "pod" THEN "agent" ELSE "controller")
  /\ UNCHANGED <<place, calls, emitted, printed, read, heard, said>>

Wrapper(j) ==
  \/ SpeaksFor(j) /\ Emit(j, "default") /\ WrapperEnds(j, "ok")
  \/ SpeaksFor(j) /\ EmitFails(j) /\ WrapperEnds(j, "failed")
  \/ ~SpeaksFor(j) /\ UNCHANGED <<there, lines>> /\ WrapperEnds(j, "ok")

-----------------------------------------------------------------------------
(***************************************************************************)
(* The agent goes through the file of its pod and publishes what it can.   *)
(* Storing the workspace, connecting or a publish may fail, the latter     *)
(* although the event went through; so ends a pod at its deadline.         *)
(***************************************************************************)
IsHeard(line) == line.what # "unheard"

ReadLine(j) ==
  /\ read[j] < Len(lines[FileOf(j)])
  /\ read' = [read EXCEPT ![j] = @ + 1]
  /\ LET line == lines[FileOf(j)][read[j] + 1]
     IN  heard' = IF IsHeard(line)
                  THEN [heard EXCEPT ![j] = Append(@, [nr |-> read[j] + 1, line |-> line])]
                  ELSE heard

AgentReads(j) ==
  /\ pc[j] = "agent"
  /\ ReadLine(j)
  /\ UNCHANGED <<place, pc, calls, emitted, printed, there, lines, status, said>>

AgentFails(j) ==
  /\ pc[j] = "agent"
  /\ ReadLine(j) \/ UNCHANGED <<read, heard>>
  /\ status' = [status EXCEPT ![j] = "failed"]
  /\ Goto(j, "ended")
  /\ UNCHANGED <<place, calls, emitted, printed, there, lines, said>>

AgentExits(j) ==
  /\ pc[j] = "agent"
  /\ read[j] = Len(lines[FileOf(j)])
  /\ Goto(j, "controller")
  /\ UNCHANGED <<place, calls, emitted, printed, there, lines, read, status, heard, said>>

(***************************************************************************)
(* The controller publishes what it finds in the output, else the default  *)
(* of the hat, of a pod as well.  If that fails the run ends.              *)
(***************************************************************************)
\* Mutation: a pod has its agent to speak for it.
AnswerLocally(j) ==
  IF j \in printed THEN "printed"
  ELSE IF j \in Speaking /\ place = "local" THEN "default" ELSE "nothing"

Answer(j) ==
  IF j \in printed THEN "printed" ELSE IF j \in Speaking THEN "default" ELSE "nothing"

ControllerSays(j) ==
  /\ pc[j] = "controller"
  /\ said' = [said EXCEPT ![j] = Answer(j)]
  /\ Goto(j, "ended")
  /\ UNCHANGED <<place, calls, emitted, printed, there, lines, read, status, heard>>

ControllerFails(j) ==
  /\ pc[j] = "controller" /\ Answer(j) # "nothing"
  /\ said' \in {said, [said EXCEPT ![j] = Answer(j)]}
  /\ status' = [status EXCEPT ![j] = "aborted"]
  /\ Goto(j, "ended")
  /\ UNCHANGED <<place, calls, emitted, printed, there, lines, read, heard>>

AllEnded == (\A j \in Jobs : pc[j] = "ended") /\ UNCHANGED vars

\* What the shell, the agent and the controller do by themselves.
Handles(j) ==
  \/ Wrapper(j) \/ AgentReads(j) \/ AgentFails(j) \/ AgentExits(j)
  \/ ControllerSays(j) \/ ControllerFails(j)

Next ==
  \/ \E j \in Jobs : Start(j) \/ AiEmits(j) \/ AiPrints(j) \/ AiEnds(j) \/ Handles(j)
  \/ AllEnded

\* An AI may never end.
Spec == Init /\ [][Next]_vars /\ \A j \in Jobs : WF_vars(Handles(j))

-----------------------------------------------------------------------------
(***************************************************************************)
(* Properties.                                                             *)
(***************************************************************************)
\* What there is to be heard of a pod's job: what its AI wrote or, of a silent
\* one, the default of the hat.
Script(j) == IF emitted[j] = <<>> /\ j \in Speaking THEN <<"default">> ELSE emitted[j]

\* Nobody's words but its own are heard of a job, word for word.
Literal(j) ==
  \A i \in DOMAIN heard[j] :
    /\ heard[j][i].nr \in DOMAIN Script(j)
    /\ heard[j][i].line = [by |-> j, what |-> Script(j)[heard[j][i].nr]]

InOrder(j) == \A i, k \in DOMAIN heard[j] : i < k => heard[j][i].nr < heard[j][k].nr

\* Nothing that can be heard is passed over: neither before what was heard nor,
\* of a pod that succeeds, at the end.  An AI whose emits all failed is the
\* exception: its file may be there, and empty.
Succeeded(j) == pc[j] \in {"controller", "ended"} /\ status[j] # "failed"

Complete(j) ==
  \A n \in DOMAIN Script(j) :
    /\ Script(j)[n] # "unheard"
    /\ \/ \E i \in DOMAIN heard[j] : n <= heard[j][i].nr
       \/ Succeeded(j) /\ (emitted[j] # <<>> \/ calls[j] = 0)
    => \E i \in DOMAIN heard[j] : heard[j][i].nr = n

PodsAreHeard == place = "pod" => \A j \in Jobs : Literal(j) /\ InOrder(j) /\ Complete(j)

\* A job of a hat with a default topic keeps the run going, once its AI ends:
\* something of it is heard, in a pod or not, or it fails or the run does.
IsAnswered(j) ==
  heard[j] # <<>> \/ said[j] \in {"default", "printed"} \/ status[j] \in {"failed", "aborted"}

NeverSilent == \A j \in Speaking : (pc[j] = "wrapper") ~> IsAnswered(j)
=============================================================================
