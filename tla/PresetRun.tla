----------------------------- MODULE PresetRun ------------------------------
(***************************************************************************)
(* `boring init`, `boring validate` and `boring run` with a preset:        *)
(* commands/init.rs, commands/validate.rs, boring-proto/src/config.rs, and *)
(* the loop of boring-controller/src/reconciler.rs seen from the preset:   *)
(* jobs are local and do not fail.  An event is taken, the hats that       *)
(* EventRouter names run, and what they put out joins the queue in their   *)
(* order.  Reconciler has the loop in full.                                *)
(***************************************************************************)
EXTENDS Presets, FiniteSets, SequencesExt

CONSTANTS
  Asked,            \* names given to `boring init`
  Silence,          \* may a hat put out nothing
  MaxJobs,          \* bound on the jobs of a run, where the preset's is larger
  MaxCopies         \* bound: events of one topic that a job puts out

NoFile == "none"
NoTarget == "none"

VARIABLES
  phase,            \* see Phases
  file,             \* borechestrator.yml: the preset it was made from
  queue,            \* events published and not yet taken
  batch,            \* the hats an event has woken, those still to run
  jobs,             \* iterations
  broken            \* does the project's test suite fail

vars == <<phase, file, queue, batch, jobs, broken>>

Ends == {"refused", "invalid", "completed", "exhausted", "timed out"}
Phases == {"init", "validate", "running"} \cup Ends

Here == Table[file]
HatsHere == DOMAIN Here.hats

Router == INSTANCE EventRouter WITH
  Hats <- HatsHere,
  Triggers <- [h \in HatsHere |-> Here.hats[h].triggers],
  MaxActivations <- [h \in {} |-> 0]

Event(topic) == [topic |-> topic, target |-> NoTarget]

TypeOK ==
  /\ phase \in Phases
  /\ file \in DOMAIN Table \cup {NoFile}
  /\ phase \notin {"init", "refused"} => file # NoFile
  /\ \A i \in DOMAIN queue : queue[i] = Event(queue[i].topic)
  /\ batch # <<>> => phase = "running" /\ ToSet(batch) \subseteq HatsHere
  /\ jobs \in Nat /\ jobs + Len(batch) <= MaxJobs + 2
  /\ broken \in BOOLEAN

Init ==
  /\ phase = "init"
  /\ file \in {NoFile, "minimal"}
  /\ queue = <<>> /\ batch = <<>> /\ jobs = 0
  /\ broken = FALSE

-----------------------------------------------------------------------------
\* boring init: an unknown name or a file that is there is refused.
WritePreset ==
  /\ phase = "init"
  /\ \E name \in Asked :
       IF name \in DOMAIN Table /\ file = NoFile
       THEN file' = name /\ phase' = "validate"
       ELSE UNCHANGED file /\ phase' = "refused"
  /\ UNCHANGED <<queue, batch, jobs, broken>>

\* BoringConfig::validate, and from_yaml's test for hats.
Valid(preset) ==
  /\ DOMAIN preset.hats # {}
  /\ \A h \in DOMAIN preset.hats : preset.hats[h].triggers # {}
  /\ \E h \in DOMAIN preset.hats : \E t \in preset.hats[h].triggers :
       Router!Matches(t, preset.start)

\* boring run validates first, then publishes the starting event.
Validate ==
  /\ phase = "validate"
  /\ IF Valid(Here)
     THEN phase' = "running" /\ queue' = <<Event(Here.start)>>
     ELSE phase' = "invalid" /\ UNCHANGED queue
  /\ UNCHANGED <<file, batch, jobs, broken>>

-----------------------------------------------------------------------------
Min2(a, b) == IF a < b THEN a ELSE b

JobLimit == Min2(Here.limit, MaxJobs)

\* run_gates: every gate's command must end with status 0; of a chain of
\* commands joined by || one that does is enough.
Succeeds(command) == command = "true" \/ (command = "cargo test" /\ ~broken)
GatesPass == \A gate \in Here.gates : \E command \in gate : Succeeds(command)

\* The loop adds the default of a hat that put out nothing.
DefaultOf(h) ==
  IF Here.hats[h].publishes = <<>> THEN <<>>
  ELSE <<Event(Head(Here.hats[h].publishes))>>

Copies(topic) == {[i \in 1..n |-> Event(topic)] :
                    n \in IF topic = Promise THEN {1} ELSE 1..MaxCopies}

\* What a job of hat h may add to the stream.
Outputs(h) ==
  (UNION {Copies(topic) : topic \in Here.hats[h].may \ {Nothing}})
    \cup (IF Silence \/ Nothing \in Here.hats[h].may THEN {DefaultOf(h)} ELSE {})

Between == phase = "running" /\ batch = <<>>

\* Take an event; the hats it wakes are the next batch.
Take ==
  /\ Between /\ jobs < JobLimit
  /\ queue # <<>> /\ Head(queue).topic # Promise
  /\ batch' \in Router!RouteWithState(Head(queue), <<>>)
  /\ queue' = Tail(queue)
  /\ UNCHANGED <<phase, file, jobs, broken>>

\* The next hat of the batch runs, unless a gate stops it.
Work ==
  /\ phase = "running" /\ batch # <<>>
  /\ batch' = Tail(batch)
  /\ jobs' = jobs + 1
  /\ IF GatesPass
     THEN /\ \E puts \in Outputs(Head(batch)) : queue' = queue \o puts
          /\ broken' \in IF Head(batch) = "refactorer" THEN BOOLEAN ELSE {broken}
     ELSE UNCHANGED <<queue, broken>>
  /\ UNCHANGED <<phase, file>>

Stop(result) == phase' = result /\ UNCHANGED <<file, batch, jobs, broken>>

Complete ==
  /\ Between /\ jobs < JobLimit
  /\ queue # <<>> /\ Head(queue).topic = Promise
  /\ queue' = Tail(queue)
  /\ Stop("completed")

Exhaust == Between /\ jobs >= JobLimit /\ Stop("exhausted") /\ UNCHANGED queue

TimeOut ==
  /\ Between /\ jobs < JobLimit
  /\ queue = <<>>
  /\ Stop("timed out") /\ UNCHANGED queue

Over == phase \in Ends /\ UNCHANGED vars

Next == WritePreset \/ Validate \/ Take \/ Work \/ Complete \/ Exhaust \/ TimeOut \/ Over

Spec == Init /\ [][Next]_vars

-----------------------------------------------------------------------------
(***************************************************************************)
(* How the hats of a preset are linked.  Each of the two is the least set  *)
(* of hats that is closed under what it says.                              *)
(***************************************************************************)
Woken(topic) == Router!Interested(Event(topic))
May(h) == Here.hats[h].may \ {Nothing}

\* The hats after which the promise can be heard ...
Leads(h, hats) == Promise \in May(h) \/ \E t \in May(h) : Woken(t) \cap hats # {}

Hopeful ==
  {h \in HatsHere : \A hats \in SUBSET HatsHere :
     (\A k \in HatsHere : Leads(k, hats) => k \in hats) => h \in hats}

\* ... and those that some chain of events from the starting event wakes.
HoldsWoken(hats) ==
  /\ Woken(Here.start) \subseteq hats
  /\ \A k \in hats : \A t \in May(k) : Woken(t) \subseteq hats

Wakeable ==
  {h \in HatsHere : \A hats \in SUBSET HatsHere : HoldsWoken(hats) => h \in hats}

(***************************************************************************)
(* Properties.                                                             *)
(***************************************************************************)
\* A preset that was written is accepted, and has no hat that can never run.
EveryHatWakeable ==
  /\ phase # "invalid"
  /\ phase = "running" => Wakeable = HatsHere

\* As long as a run goes on, whatever was put out so far, some event that
\* waits or some hat at work can lead to the completion promise: no run is
\* caught in a circle of hats or left with events that wake nobody.
InReach(topic) == topic = Promise \/ Woken(topic) \cap Hopeful # {}

PromiseInReach ==
  phase = "running" =>
    \/ \E i \in DOMAIN queue : InReach(queue[i].topic)
    \/ ToSet(batch) \cap Hopeful # {}

\* No event wakes two hats, so one hat at a time works on the directory.
OneHatPerEvent ==
  phase = "running" =>
    \A i \in DOMAIN queue : Cardinality(Woken(queue[i].topic)) <= 1
=============================================================================
