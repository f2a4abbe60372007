----------------------------- MODULE EventLoop -----------------------------
(***************************************************************************)
(* What a run of the controller promises to the hats, with nothing of how  *)
(* it gets there: published events are taken one at a time in the order    *)
(* they were published; the event taken last may start hats that asked for *)
(* it, each once, the most specific first, none beyond its limit; the run  *)
(* completes on a completion event only, and gives up waiting only when    *)
(* there is nothing left to take.                                          *)
(*                                                                         *)
(* Reconciler implements this specification (module Reconciler, Contract). *)
(***************************************************************************)
EXTENDS EventRouter, Sequences

VARIABLES
  log,          \* the events published so far
  taken,        \* how many of them the run has taken
  started,      \* the pairs <<event number, hat>> that were started
  outcome       \* "none" while the run goes on

loopVars == <<log, taken, started, outcome>>

IsPromise(event) ==
  event.topic = <<"_system", "completion">> /\ event.payload = "promise"

Timeless == {"MaxIterationsReached", "Failed", "Error"}

LoopInit ==
  /\ log = <<>>
  /\ taken = 0
  /\ started = {}
  /\ outcome = "none"

LogGrows ==
  /\ Len(log') = Len(log) + 1
  /\ \A i \in 1..Len(log) : log'[i] = log[i]

\* Someone publishes an event, whether or not the run is still on.
PublishOne ==
  /\ LogGrows
  /\ UNCHANGED <<taken, started, outcome>>

TakeOne ==
  /\ outcome = "none"
  /\ taken < Len(log)
  /\ taken' = taken + 1
  /\ outcome' = IF IsPromise(log[taken']) THEN "Completed" ELSE "none"
  /\ UNCHANGED <<log, started>>

StartsOf(h) == {i \in 1..taken : <<i, h>> \in started}

StartHat(h) ==
  /\ outcome = "none"
  /\ taken > 0
  /\ h \in Interested(log[taken])
  /\ <<taken, h>> \notin started
  /\ h \in DOMAIN MaxActivations => Cardinality(StartsOf(h)) < MaxActivations[h]
  /\ \A g \in Hats : <<taken, g>> \in started =>
       BestSpecificity(g, log[taken].topic) >= BestSpecificity(h, log[taken].topic)
  /\ started' = started \cup {<<taken, h>>}
  /\ UNCHANGED <<log, taken, outcome>>

\* The run may break off while it publishes; it times out only when idle.
GiveUp ==
  /\ outcome = "none"
  /\ outcome' \in Timeless \cup (IF taken = Len(log) THEN {"TimedOut"} ELSE {})
  /\ \/ LogGrows /\ outcome' = "Error"
     \/ UNCHANGED log
  /\ UNCHANGED <<taken, started>>

LoopNext == PublishOne \/ TakeOne \/ (\E h \in Hats : StartHat(h)) \/ GiveUp

LoopSpec == LoopInit /\ [][LoopNext]_loopVars
=============================================================================
