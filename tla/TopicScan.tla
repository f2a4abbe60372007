----------------------------- MODULE TopicScan -----------------------------
(***************************************************************************)
(* The while loop of Topic::matches (boring-proto/src/topic.rs:21-55), one *)
(* iteration per step, for any pattern and subject.  What is checked and   *)
(* proved is that the loop terminates and returns what the comments above  *)
(* it promise (Denotes of module Topic).                                   *)
(***************************************************************************)
EXTENDS Topic

CONSTANTS
  Patterns,     \* the patterns a trigger may hold
  Subjects      \* the event topics that may be matched

ASSUME TopicAssumption ==
  /\ Patterns \subseteq Seq(STRING) \ {<<>>}
  /\ Subjects \subseteq Seq(STRING) \ {<<>>}

\* A subject for a pattern: its wildcards filled in.
Filled(p, word) == [i \in 1..Len(p) |-> IF p[i] \in {Star, Chevron} THEN word ELSE p[i]]

\* Any topic may be an event's.  What a pattern matches shows on few of them:
\* its wildcards filled with either of two words, and one segment more.
ASSUME SubjectsAssumption ==
  \A p \in Patterns : ~IsEmptyPattern(p) =>
    \A word \in {"a", "b"} : {Filled(p, word), Append(Filled(p, word), word)} \subseteq Subjects

VARIABLES
  pattern,      \* pattern_parts
  subject,      \* subject_parts
  pi, si,       \* the loop's indices, from 0 as in the code
  result        \* "running" until the function returns TRUE or FALSE

vars == <<pattern, subject, pi, si, result>>

TypeOK ==
  /\ pattern \in Patterns
  /\ subject \in Subjects
  /\ pi \in 0..Len(pattern)
  /\ si \in 0..Len(subject)
  /\ result \in {"running", "true", "false"}

Init ==
  /\ pattern \in Patterns
  /\ subject \in Subjects
  /\ pi = 0
  /\ si = 0
  /\ result = IF IsEmptyPattern(pattern) THEN "false" ELSE "running"

InLoop == result = "running" /\ pi < Len(pattern) /\ si < Len(subject)

Return(value) ==
  /\ result' = IF value THEN "true" ELSE "false"
  /\ UNCHANGED <<pattern, subject, pi, si>>

\* The arm for ">": a segment is left, so it matches whatever follows.
TrailingWildcard ==
  /\ InLoop
  /\ pattern[pi + 1] = Chevron
  /\ Return(si < Len(subject))

Advance ==
  /\ pi' = pi + 1
  /\ si' = si + 1
  /\ UNCHANGED <<pattern, subject, result>>

\* The arm for "*".
OneSegment ==
  /\ InLoop
  /\ pattern[pi + 1] = Star
  /\ Advance

\* The arm for an exact segment: advance when equal, else return false.
ExactSegment ==
  /\ InLoop
  /\ pattern[pi + 1] \notin {Star, Chevron}
  /\ IF pattern[pi + 1] = subject[si + 1] THEN Advance ELSE Return(FALSE)

\* Mutation: only the pattern has to be used up.
LoopExitPrefix ==
  /\ result = "running"
  /\ ~(pi < Len(pattern) /\ si < Len(subject))
  /\ Return(pi = Len(pattern))

\* The loop condition failed: both sides must be used up.
LoopExit ==
  /\ result = "running"
  /\ ~(pi < Len(pattern) /\ si < Len(subject))
  /\ Return(pi = Len(pattern) /\ si = Len(subject))

\* The function has returned.
Returned == result # "running" /\ UNCHANGED vars

Next == TrailingWildcard \/ OneSegment \/ ExactSegment \/ LoopExit \/ Returned

Spec == Init /\ [][Next]_vars /\ WF_vars(Next)

-----------------------------------------------------------------------------
(***************************************************************************)
(* Once the loop has returned, its answer is the meaning the comments give *)
(* the pattern, for ill-formed patterns too (topic.rs:3-7, 20-55).         *)
(***************************************************************************)
ScanCorrect == result # "running" => (result = "true" <=> Denotes(pattern, subject))

(***************************************************************************)
(* The recursive reading of the loop, which the router uses, agrees with   *)
(* that meaning (topic.rs:21-55, event_router.rs:51).                      *)
(***************************************************************************)
MatchesCorrect == Matches(pattern, subject) = Denotes(pattern, subject)

(***************************************************************************)
(* Routing by specificity is routing by inclusion: a well-formed pattern   *)
(* that matches strictly less than another scores strictly higher, so the  *)
(* hat with the narrower trigger is activated first (topic.rs:62-64).      *)
(***************************************************************************)
Language == [p \in Patterns |-> {s \in Subjects : Denotes(p, s)}]

NarrowerScoresHigher ==
  \A other \in Patterns :
    /\ WellFormed(pattern)
    /\ WellFormed(other)
    /\ Language[pattern] # {}
    /\ Language[pattern] \subseteq Language[other]
    /\ Language[pattern] # Language[other]
    => Specificity(pattern) > Specificity(other)

\* What the router reads off a trigger is right: whom it matches, and which of
\* two matching triggers comes first.
TriggersAreRight == MatchesCorrect /\ NarrowerScoresHigher
=============================================================================
