------------------------------- MODULE Topic -------------------------------
(***************************************************************************)
(* Topic patterns and their matcher, boring-proto/src/topic.rs.            *)
(*                                                                         *)
(* A dotted string is a non-empty sequence of segments, as split('.')      *)
(* yields it; the empty string is the one-segment sequence <<"">>.  A      *)
(* pattern is such a sequence whose segments may be "*" or ">".            *)
(***************************************************************************)
EXTENDS Naturals, Sequences

Star  == "*"
Chevron == ">"

\* Topic::matches returns false at once for the empty pattern string.
IsEmptyPattern(pattern) == pattern = <<"">>

(***************************************************************************)
(* Topic::matches.  The loop advances both of its indices together, so one *)
(* index describes it: Rest[i] is what the loop returns when it is entered *)
(* with pi = si = i - 1.                                                   *)
(***************************************************************************)
Matches(pattern, subject) ==
  LET Rest[i \in Nat] ==
        IF i > Len(pattern) \/ i > Len(subject)
        THEN i > Len(pattern) /\ i > Len(subject)
        ELSE \/ pattern[i] = Chevron
             \/ pattern[i] \in {Star, subject[i]} /\ Rest[i + 1]
  IN  ~IsEmptyPattern(pattern) /\ Rest[1]

\* Mutation: both wildcards score alike.
FlatScore(segment) == IF segment \in {Chevron, Star} THEN 10 ELSE 100

\* The score of one segment in Topic::specificity.
SegmentScore(segment) ==
  CASE segment = Chevron -> 1
    [] segment = Star    -> 10
    [] OTHER             -> 100

(* Topic::specificity: the sum of the scores, 0 for the empty pattern.     *)
Specificity(pattern) ==
  LET Sum[i \in 0..Len(pattern)] ==
        IF i = 0 THEN 0 ELSE Sum[i - 1] + SegmentScore(pattern[i])
  IN  IF IsEmptyPattern(pattern) THEN 0 ELSE Sum[Len(pattern)]

-----------------------------------------------------------------------------
(***************************************************************************)
(* What the comments of topic.rs promise: "*" stands for exactly one       *)
(* segment, ">" for one or more trailing segments.  A ">" that is not the  *)
(* last token ends the pattern where it stands.                            *)
(***************************************************************************)
Covers(segment, word) == segment = Star \/ segment = word

Denotes(pattern, subject) ==
  /\ ~IsEmptyPattern(pattern)
  /\ \/ /\ Len(subject) = Len(pattern)
        /\ \A i \in 1..Len(pattern) :
              pattern[i] # Chevron /\ Covers(pattern[i], subject[i])
     \/ \E k \in 1..Len(pattern) :
          /\ pattern[k] = Chevron
          /\ k <= Len(subject)
          /\ \A i \in 1..(k - 1) :
                pattern[i] # Chevron /\ Covers(pattern[i], subject[i])

\* NATS patterns: ">" only as the last token (topic.rs, "must be last token").
WellFormed(pattern) ==
  \A i \in 1..Len(pattern) : pattern[i] = Chevron => i = Len(pattern)
=============================================================================
