--------------------------- MODULE MCChildRuntime ---------------------------
(***************************************************************************)
(* The runtimes that start child processes, bash and docker, and what is   *)
(* made of a hat's command, in a pod and locally.  Each behaviour is of    *)
(* one of them, "part"; the variables of the others keep one value.        *)
(***************************************************************************)
EXTENDS ChildRuntime, Sequences

CONSTANTS
  Jobs,             \* the hats' jobs
  Speaking,         \* those whose hat has a default topic
  MaxEmits          \* bound: calls of emit by one AI

ASSUME EmitsAssumption == Speaking \subseteq Jobs /\ "shared" \notin Jobs /\ MaxEmits \in Nat

VARIABLES
  part,
  place, hatPc, calls, emitted, printed, there, lines, read, status, heard, said

\* Kind is the local runtime's here.
Docker == INSTANCE ChildRuntime WITH Kind <- "docker"

Hats == INSTANCE HatCommand WITH pc <- hatPc

hatVars == <<place, hatPc, calls, emitted, printed, there, lines, read, status, heard, said>>
allVars == <<part, vars, hatVars>>

MCInit == Init /\ Hats!Init /\ part \in {"local", "docker", "hats"}

InChild(p) == part = p /\ UNCHANGED <<part, hatVars>>
InHats == part = "hats" /\ UNCHANGED <<part, vars>>

MCNext ==
  \/ InChild("local") /\ Next
  \/ InChild("docker") /\ Docker!Next
  \/ InHats /\ Hats!Next

MCSpec ==
  /\ MCInit /\ [][MCNext]_allVars
  /\ \A c \in Calls :
       /\ WF_allVars(InChild("local") /\ Step(c) /\ UNCHANGED faults)
       /\ WF_allVars(InChild("docker") /\ Docker!Step(c) /\ UNCHANGED faults)
  /\ \A j \in Jobs : WF_allVars(InHats /\ Hats!Handles(j))

-----------------------------------------------------------------------------
\* Of a pod's job is heard what its AI wrote, as far as it can be heard, word
\* for word, in order and with no gap, all of it if the pod succeeds; of an AI
\* that is silent the default of its hat; and nothing of another job.
HeardAsSaid == Hats!TypeOK /\ Hats!PodsAreHeard

\* A job of a hat with a default topic is heard of or fails once its AI ends,
\* in a pod or not.
HeardInTheEnd == Hats!NeverSilent
=============================================================================
