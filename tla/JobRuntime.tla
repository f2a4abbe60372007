----------------------------- MODULE JobRuntime -----------------------------
(***************************************************************************)
(* What the trait Runtime promises (boring-runtime/src/traits.rs:29-41):   *)
(* a call of create_job starts one execution, and wait_job on the handle   *)
(* it returned reports the outcome of that execution and of no other, or   *)
(* fails.                                                                  *)
(***************************************************************************)
CONSTANTS Calls     \* the calls of create_job, each with the wait that follows

VARIABLES
  execution,        \* of each call: what became of what it started
  answer,           \* and what its caller has been told
  cancelled         \* the calls whose handle was given to cancel_job

vars == <<execution, answer, cancelled>>

Init ==
  /\ execution = [c \in Calls |-> "none"]
  /\ answer = [c \in Calls |-> "none"]
  /\ cancelled = {}

Start(c) ==
  /\ execution[c] = "none" /\ answer[c] = "none"
  /\ execution' = [execution EXCEPT ![c] = "running"]
  /\ UNCHANGED <<answer, cancelled>>

End(c) ==
  /\ execution[c] = "running"
  /\ \E o \in {"ok", "failed", "killed"} : execution' = [execution EXCEPT ![c] = o]
  /\ UNCHANGED <<answer, cancelled>>

\* Cancelling may end what runs; of what has ended it changes nothing.
Cancel(c) ==
  /\ cancelled' = cancelled \cup {c}
  /\ \/ execution[c] = "running" /\ execution' = [execution EXCEPT ![c] = "killed"]
     \/ UNCHANGED execution
  /\ UNCHANGED answer

\* A caller hears once, and what the execution came to; a failure also when
\* it was cancelled, whenever that was.
Answer(c, a) ==
  /\ answer[c] = "none"
  /\ a = "ok" => execution[c] = "ok"
  /\ a = "failed" => execution[c] \in {"failed", "killed"} \/ c \in cancelled
  /\ answer' = [answer EXCEPT ![c] = a]
  /\ UNCHANGED <<execution, cancelled>>

Next ==
  \E c \in Calls :
    Start(c) \/ End(c) \/ Cancel(c) \/ \E a \in {"ok", "failed", "error"} : Answer(c, a)

Spec == Init /\ [][Next]_vars
=============================================================================
