------------------------------- MODULE PodJob -------------------------------
(***************************************************************************)
(* What the controller may count on of the pods it starts: a pod says      *)
(* nothing before its command has succeeded, then publishes what the       *)
(* command emitted, in order, and ends well only when all of it is         *)
(* published.  Workspaces, git and the store are left out: this is the     *)
(* view of a pod that module Reconciler takes.  Others publish to the      *)
(* stream of the pods as well, when they like.                             *)
(***************************************************************************)
EXTENDS Sequences

CONSTANTS
  Pods,
  Emissions         \* the sequences of events a command may leave behind

VARIABLES
  status,           \* of each pod
  outbox,           \* what it has still to publish
  stream            \* what all of them, and others, have published

vars == <<status, outbox, stream>>

Init ==
  /\ status = [p \in Pods |-> "running"]
  /\ outbox = [p \in Pods |-> <<>>]
  /\ stream = <<>>

CommandSucceeds(p) ==
  /\ status[p] = "running"
  /\ status' = [status EXCEPT ![p] = "publishing"]
  /\ \E events \in Emissions : outbox' = [outbox EXCEPT ![p] = events]
  /\ UNCHANGED stream

Out(p) == Append(stream, [pod |-> p, event |-> Head(outbox[p])])

Publishes(p) ==
  /\ status[p] = "publishing"
  /\ outbox[p] # <<>>
  /\ stream' = Out(p)
  /\ outbox' = [outbox EXCEPT ![p] = Tail(@)]
  /\ UNCHANGED status

Succeeds(p) ==
  /\ status[p] = "publishing"
  /\ outbox[p] = <<>>
  /\ status' = [status EXCEPT ![p] = "succeeded"]
  /\ UNCHANGED <<outbox, stream>>

\* A publish that failed for the pod may have reached the stream.
Fails(p) ==
  /\ status[p] \in {"running", "publishing"}
  /\ status' = [status EXCEPT ![p] = "failed"]
  /\ UNCHANGED outbox
  /\ \/ UNCHANGED stream
     \/ outbox[p] # <<>> /\ stream' = Out(p)

OthersPublish ==
  /\ stream' # <<>>
  /\ LET last == stream'[Len(stream')]
     IN  last.pod \notin Pods /\ stream' = Append(stream, last)
  /\ UNCHANGED <<status, outbox>>

PodStep(p) == CommandSucceeds(p) \/ Publishes(p) \/ Succeeds(p) \/ Fails(p)

Next == (\E p \in Pods : PodStep(p)) \/ OthersPublish

Spec == Init /\ [][Next]_vars
=============================================================================
