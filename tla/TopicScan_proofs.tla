-------------------------- MODULE TopicScan_proofs --------------------------
(***************************************************************************)
(* The matcher for every pattern and subject, of any length and over any   *)
(* segments: its loop is partially correct, the recursive reading of it    *)
(* that the router uses means the same, and scores order patterns by what  *)
(* they match.                                                             *)
(***************************************************************************)
EXTENDS TopicScan, WellFoundedInduction, TLAPS

\* The segments scanned so far carry no ">" and match one by one.
PrefixMatched ==
  \A i \in 1..pi : pattern[i] # Chevron /\ Covers(pattern[i], subject[i])

(***************************************************************************)
(* The inductive invariant.  ScanCorrect alone is not inductive: it says   *)
(* nothing of a running loop, whose answer depends on what it has scanned. *)
(***************************************************************************)
IInv ==
  /\ TypeOK
  /\ pi = si
  /\ PrefixMatched
  /\ result = "running" => ~IsEmptyPattern(pattern)
  /\ ScanCorrect

LEMMA PatternIsSeq ==
  ASSUME TypeOK
  PROVE  /\ pattern \in Seq(STRING) /\ Len(pattern) \in Nat \ {0}
         /\ subject \in Seq(STRING) /\ Len(subject) \in Nat \ {0}
  BY TopicAssumption DEF TypeOK

LEMMA InitIInv == Init => IInv
<1> SUFFICES ASSUME Init PROVE IInv
  OBVIOUS
<1>1. pattern \in Seq(STRING) /\ subject \in Seq(STRING)
  BY TopicAssumption DEF Init
<1>2. TypeOK
  BY <1>1 DEF Init, TypeOK
<1>3. PrefixMatched
  BY DEF Init, PrefixMatched
<1>4. ScanCorrect
  BY DEF Init, ScanCorrect, Denotes
<1> QED
  BY <1>2, <1>3, <1>4 DEF Init, IInv

LEMMA NextIInv == IInv /\ [Next]_vars => IInv'
<1> SUFFICES ASSUME IInv, [Next]_vars PROVE IInv'
  OBVIOUS
<1> USE DEF IInv
<1>1. /\ pattern \in Seq(STRING) /\ Len(pattern) \in Nat \ {0}
      /\ subject \in Seq(STRING) /\ Len(subject) \in Nat \ {0}
  BY PatternIsSeq
<1>2. CASE TrailingWildcard
  <2>1. result' = "true" /\ UNCHANGED <<pattern, subject, pi, si>>
    BY <1>2 DEF TrailingWildcard, InLoop, Return
  <2>2. Denotes(pattern, subject)
    <3>1. pi + 1 \in 1..Len(pattern) /\ pi + 1 <= Len(subject)
      BY <1>1, <1>2 DEF TrailingWildcard, InLoop, TypeOK
    <3>2. pattern[pi + 1] = Chevron
      BY <1>2 DEF TrailingWildcard
    <3>3. \A i \in 1..((pi + 1) - 1) :
             pattern[i] # Chevron /\ Covers(pattern[i], subject[i])
      BY DEF PrefixMatched, TypeOK
    <3>4. ~IsEmptyPattern(pattern)
      BY <1>2 DEF TrailingWildcard, InLoop
    <3> QED
      BY <3>1, <3>2, <3>3, <3>4 DEF Denotes
  <2> QED
    BY <2>1, <2>2 DEF TypeOK, PrefixMatched, ScanCorrect
<1>3. ASSUME InLoop, Advance,
             pattern[pi + 1] # Chevron, Covers(pattern[pi + 1], subject[pi + 1])
      PROVE  IInv'
  <2>1. TypeOK' /\ (pi = si)'
    BY <1>1, <1>3 DEF InLoop, Advance, TypeOK
  <2>2. PrefixMatched'
    <3>1. \A i \in 1..(pi + 1) : i \in 1..pi \/ i = pi + 1
      BY DEF TypeOK
    <3> QED
      BY <3>1, <1>3 DEF PrefixMatched, Advance
  <2> QED
    BY <1>3, <2>1, <2>2 DEF InLoop, Advance, ScanCorrect
<1>4. CASE OneSegment
  BY <1>3, <1>4 DEF OneSegment, Covers, Star, Chevron
<1>5. CASE ExactSegment
  <2>1. CASE pattern[pi + 1] = subject[si + 1]
    BY <1>3, <1>5, <2>1 DEF ExactSegment, Covers
  <2>2. CASE pattern[pi + 1] # subject[si + 1]
    <3>1. result' = "false" /\ UNCHANGED <<pattern, subject, pi, si>>
      BY <1>5, <2>2 DEF ExactSegment, Return
    <3>2. /\ pi + 1 \in 1..Len(pattern) /\ pi + 1 <= Len(subject)
          /\ pattern[pi + 1] # Chevron
          /\ ~Covers(pattern[pi + 1], subject[pi + 1])
      BY <1>1, <1>5, <2>2 DEF ExactSegment, InLoop, TypeOK, Covers
    <3>3. ~Denotes(pattern, subject)
      <4>1. ASSUME NEW k \in 1..Len(pattern), pattern[k] = Chevron,
                   \A i \in 1..(k - 1) :
                      pattern[i] # Chevron /\ Covers(pattern[i], subject[i])
            PROVE  FALSE
        <5>1. ~(k \in 1..pi)
          BY <4>1 DEF PrefixMatched
        <5>2. k # pi + 1
          BY <3>2, <4>1
        <5>3. pi + 1 \in 1..(k - 1)
          BY <5>1, <5>2 DEF TypeOK
        <5> QED
          BY <5>3, <4>1, <3>2
      <4> QED
        BY <4>1, <3>2 DEF Denotes
    <3> QED
      BY <3>1, <3>3 DEF TypeOK, PrefixMatched, ScanCorrect
  <2> QED
    BY <2>1, <2>2
<1>6. CASE LoopExit
  <2>1. /\ UNCHANGED <<pattern, subject, pi, si>>
        /\ result' = IF pi = Len(pattern) /\ si = Len(subject)
                     THEN "true" ELSE "false"
    BY <1>6 DEF LoopExit, Return
  <2>2. CASE pi = Len(pattern) /\ si = Len(subject)
    <3>1. Denotes(pattern, subject)
      BY <1>6, <2>2 DEF LoopExit, Denotes, PrefixMatched
    <3> QED
      BY <2>1, <2>2, <3>1 DEF TypeOK, PrefixMatched, ScanCorrect
  <2>3. CASE ~(pi = Len(pattern) /\ si = Len(subject))
    <3>1. Len(subject) # Len(pattern)
      BY <1>1, <1>6, <2>3 DEF LoopExit, TypeOK
    <3>2. ASSUME NEW k \in 1..Len(pattern), pattern[k] = Chevron,
                 k <= Len(subject)
          PROVE  FALSE
      <4>1. k \in 1..pi
        BY <1>1, <1>6, <3>2 DEF LoopExit, TypeOK
      <4> QED
        BY <4>1, <3>2 DEF PrefixMatched
    <3>3. ~Denotes(pattern, subject)
      BY <3>1, <3>2 DEF Denotes
    <3> QED
      BY <2>1, <2>3, <3>3 DEF TypeOK, PrefixMatched, ScanCorrect
  <2> QED
    BY <2>2, <2>3
<1>7. CASE UNCHANGED vars
  BY <1>7 DEF vars, TypeOK, PrefixMatched, ScanCorrect
<1> QED
  BY <1>2, <1>4, <1>5, <1>6, <1>7 DEF Next, Returned

(***************************************************************************)
(* Topic::matches answers what its comment promises, for every pattern and *)
(* every subject (topic.rs:3-7, 20-55).                                    *)
(***************************************************************************)
THEOREM MatcherCorrect == Spec => []ScanCorrect
<1>1. IInv => ScanCorrect
  BY DEF IInv
<1> QED
  BY InitIInv, NextIInv, <1>1, PTL DEF Spec

(***************************************************************************)
(* The loop's indices stay within pattern and subject, whatever the length *)
(* of the two (topic.rs:32-54).                                            *)
(***************************************************************************)
THEOREM TypeCorrect == Spec => []TypeOK
<1>1. IInv => TypeOK
  BY DEF IInv
<1> QED
  BY InitIInv, NextIInv, <1>1, PTL DEF Spec
-----------------------------------------------------------------------------
(***************************************************************************)
(* Induction up to a bound, over a set instead of a predicate.             *)
(***************************************************************************)
LEMMA UpToBound ==
  ASSUME NEW n \in Nat, NEW S \in SUBSET (0..n), 0 \in S,
         \A i \in 0..n : (i < n /\ i \in S) => i + 1 \in S
  PROVE  \A i \in 0..n : i \in S
<1> SUFFICES ASSUME NEW j \in 0..n, j \notin S PROVE FALSE
  OBVIOUS
<1> DEFINE Bad == {i \in Nat : i \in 0..n /\ i \notin S}
<1>1. IsWellFoundedOn(OpToRel(<, Nat), Nat)
  BY NatLessThanWellFounded
<1>2. Bad \subseteq Nat /\ Bad # {}
  OBVIOUS
<1>3. PICK m \in Bad : \A k \in Bad : ~(<<k, m>> \in OpToRel(<, Nat))
  BY <1>1, <1>2, WFMin
<1>4. m \in Nat /\ m \in 0..n /\ m \notin S /\ m # 0
  OBVIOUS
<1>5. m - 1 \in Nat /\ m - 1 \in 0..n /\ m - 1 < m
  BY <1>4
<1>6. m - 1 \notin Bad
  BY <1>3, <1>4, <1>5 DEF OpToRel
<1>7. m - 1 \in S /\ (m - 1) + 1 = m
  BY <1>4, <1>5, <1>6
<1> QED
  BY <1>4, <1>5, <1>7

-----------------------------------------------------------------------------
(***************************************************************************)
(* The recursive reading of the matcher.  Its function exists, since what  *)
(* it computes can be said without recursion, and is the only one, by      *)
(* induction from the end.                                                 *)
(***************************************************************************)
IsRest(f, p, s) ==
  f = [i \in Nat |->
        IF i > Len(p) \/ i > Len(s)
        THEN i > Len(p) /\ i > Len(s)
        ELSE \/ p[i] = Chevron
             \/ p[i] \in {Star, s[i]} /\ f[i + 1]]

RestOf(p, s) == CHOOSE f : IsRest(f, p, s)

LEMMA MatchesIsRest ==
  ASSUME NEW p, NEW s
  PROVE  Matches(p, s) = (~IsEmptyPattern(p) /\ RestOf(p, s)[1])
BY DEF Matches, RestOf, IsRest

\* What is meant by the pattern from segment i on.
Agrees(p, s, i, k) == \A j \in i..k : p[j] # Chevron /\ Covers(p[j], s[j])

DenotesFrom(p, s, i) ==
  IF i > Len(p) \/ i > Len(s)
  THEN i > Len(p) /\ i > Len(s)
  ELSE \/ Len(s) = Len(p) /\ Agrees(p, s, i, Len(p))
       \/ \E k \in i..Len(p) : p[k] = Chevron /\ k <= Len(s) /\ Agrees(p, s, i, k - 1)

LEMMA DenotesIsFromOne ==
  ASSUME NEW p \in Seq(STRING) \ {<<>>}, NEW s \in Seq(STRING) \ {<<>>}
  PROVE  Denotes(p, s) <=> ~IsEmptyPattern(p) /\ DenotesFrom(p, s, 1)
<1>1. Len(p) \in Nat \ {0} /\ Len(s) \in Nat \ {0}
  OBVIOUS
<1> QED
  BY <1>1 DEF Denotes, DenotesFrom, Agrees

LEMMA DenotesFromUnfolds ==
  ASSUME NEW p \in Seq(STRING), NEW s \in Seq(STRING),
         NEW i \in Nat \ {0}, i <= Len(p), i <= Len(s)
  PROVE  DenotesFrom(p, s, i) <=>
           (p[i] = Chevron \/ (p[i] \in {Star, s[i]} /\ DenotesFrom(p, s, i + 1)))
<1>1. Len(p) \in Nat /\ Len(s) \in Nat
  OBVIOUS
<1>2. CASE p[i] = Chevron
  <2>1. i \in i..Len(p) /\ Agrees(p, s, i, i - 1)
    BY <1>1 DEF Agrees
  <2> QED
    BY <1>1, <1>2, <2>1 DEF DenotesFrom
<1>3. CASE p[i] # Chevron /\ ~Covers(p[i], s[i])
  <2>1. \A k \in i..Len(p) : ~Agrees(p, s, i, k)
    BY <1>3 DEF Agrees
  <2>2. \A k \in i..Len(p) : p[k] = Chevron => ~Agrees(p, s, i, k - 1)
    <3> SUFFICES ASSUME NEW k \in i..Len(p), p[k] = Chevron PROVE ~Agrees(p, s, i, k - 1)
      OBVIOUS
    <3>1. i \in i..k - 1
      BY <1>1, <1>3
    <3> QED
      BY <1>3, <3>1 DEF Agrees
  <2> QED
    BY <1>1, <1>3, <2>1, <2>2 DEF DenotesFrom, Covers
<1>4. CASE p[i] # Chevron /\ Covers(p[i], s[i])
  <2>1. \A k \in Nat : k >= i => (Agrees(p, s, i, k) <=> Agrees(p, s, i + 1, k))
    <3> SUFFICES ASSUME NEW k \in Nat, k >= i PROVE Agrees(p, s, i, k) <=> Agrees(p, s, i + 1, k)
      OBVIOUS
    <3>1. \A j \in i..k : j = i \/ j \in i + 1..k
      OBVIOUS
    <3>2. \A j \in i + 1..k : j \in i..k
      OBVIOUS
    <3> QED
      BY <1>4, <3>1, <3>2 DEF Agrees
  <2>2. p[i] \in {Star, s[i]}
    BY <1>4 DEF Covers
  <2>3. (\E k \in i..Len(p) : p[k] = Chevron /\ k <= Len(s) /\ Agrees(p, s, i, k - 1))
          <=> \E k \in i + 1..Len(p) : p[k] = Chevron /\ k <= Len(s) /\ Agrees(p, s, i + 1, k - 1)
    <3>1. \A k \in i..Len(p) : p[k] = Chevron => k \in i + 1..Len(p) /\ k - 1 \in Nat /\ k - 1 >= i
      BY <1>1, <1>4
    <3>2. \A k \in i + 1..Len(p) : k \in i..Len(p) /\ k - 1 \in Nat /\ k - 1 >= i
      BY <1>1
    <3> QED
      BY <2>1, <3>1, <3>2
  <2>4. Agrees(p, s, i, Len(p)) <=> Agrees(p, s, i + 1, Len(p))
    BY <1>1, <2>1
  <2>5. CASE i + 1 <= Len(p) /\ i + 1 <= Len(s)
    BY <1>1, <1>4, <2>2, <2>3, <2>4, <2>5 DEF DenotesFrom
  <2>6. CASE i + 1 > Len(p)
    <3>1. Len(p) = i /\ Agrees(p, s, i + 1, Len(p))
      BY <1>1, <2>6 DEF Agrees
    <3>2. ~\E k \in i + 1..Len(p) : p[k] = Chevron /\ k <= Len(s) /\ Agrees(p, s, i + 1, k - 1)
      BY <1>1, <2>6
    <3> QED
      BY <1>1, <1>4, <2>2, <2>3, <2>4, <2>6, <3>1, <3>2 DEF DenotesFrom
  <2>7. CASE i + 1 <= Len(p) /\ i + 1 > Len(s)
    <3>1. Len(s) # Len(p)
      BY <1>1, <2>7
    <3>2. ~\E k \in i + 1..Len(p) : p[k] = Chevron /\ k <= Len(s) /\ Agrees(p, s, i + 1, k - 1)
      BY <1>1, <2>7
    <3> QED
      BY <1>1, <1>4, <2>2, <2>3, <2>7, <3>1, <3>2 DEF DenotesFrom
  <2> QED
    BY <1>1, <2>5, <2>6, <2>7
<1> QED
  BY <1>2, <1>3, <1>4

LEMMA RestExists ==
  ASSUME NEW p \in Seq(STRING) \ {<<>>}, NEW s \in Seq(STRING) \ {<<>>}
  PROVE  IsRest(RestOf(p, s), p, s)
<1> DEFINE First == p[0] = Chevron \/ (p[0] \in {Star, s[0]} /\ DenotesFrom(p, s, 1))
           f == [i \in Nat |-> IF i = 0 THEN First ELSE DenotesFrom(p, s, i)]
           Body(i) == IF i > Len(p) \/ i > Len(s)
                      THEN i > Len(p) /\ i > Len(s)
                      ELSE p[i] = Chevron \/ (p[i] \in {Star, s[i]} /\ f[i + 1])
<1>1. Len(p) \in Nat \ {0} /\ Len(s) \in Nat \ {0}
  OBVIOUS
<1>2. \A i \in Nat : i + 1 \in Nat /\ i + 1 # 0 /\ f[i + 1] = DenotesFrom(p, s, i + 1)
  OBVIOUS
<1> HIDE DEF f
<1>3. ASSUME NEW i \in Nat \ {0} PROVE DenotesFrom(p, s, i) = Body(i)
  <2>1. CASE i > Len(p) \/ i > Len(s)
    BY <2>1 DEF DenotesFrom
  <2>2. CASE ~(i > Len(p) \/ i > Len(s))
    <3>1. i <= Len(p) /\ i <= Len(s)
      BY <1>1, <2>2
    <3>2. DenotesFrom(p, s, i) \in BOOLEAN
      BY DEF DenotesFrom
    <3>3. DenotesFrom(p, s, i) <=> (p[i] = Chevron \/ (p[i] \in {Star, s[i]} /\ f[i + 1]))
      BY <1>2, <3>1, DenotesFromUnfolds
    <3> QED
      BY <2>2, <3>2, <3>3
  <2> QED
    BY <2>1, <2>2
<1>4. First = Body(0)
  <2>1. ~(0 > Len(p) \/ 0 > Len(s)) /\ f[0 + 1] = DenotesFrom(p, s, 1)
    BY <1>1, <1>2
  <2>2. Body(0) = (p[0] = Chevron \/ (p[0] \in {Star, s[0]} /\ f[0 + 1]))
    BY <2>1, Zenon
  <2> QED
    BY <2>1, <2>2, Zenon
<1>5. f = [i \in Nat |-> Body(i)]
  <2> HIDE DEF First, Body
  <2>1. \A i \in Nat : (IF i = 0 THEN First ELSE DenotesFrom(p, s, i)) = Body(i)
    BY <1>3, <1>4
  <2> QED
    BY <2>1, Zenon DEF f
<1>6. IsRest(f, p, s)
  BY <1>5 DEF IsRest
<1> QED
  BY <1>6 DEF RestOf

LEMMA RestIsDenotes ==
  ASSUME NEW p \in Seq(STRING) \ {<<>>}, NEW s \in Seq(STRING) \ {<<>>}
  PROVE  RestOf(p, s)[1] = DenotesFrom(p, s, 1)
<1> DEFINE R == RestOf(p, s)
           n == Len(p)
           S == {d \in 0..n : R[n + 1 - d] = DenotesFrom(p, s, n + 1 - d)}
<1>1. n \in Nat \ {0} /\ Len(s) \in Nat \ {0}
  OBVIOUS
<1>2. \A i \in Nat : R[i] = IF i > Len(p) \/ i > Len(s)
                            THEN i > Len(p) /\ i > Len(s)
                            ELSE p[i] = Chevron \/ (p[i] \in {Star, s[i]} /\ R[i + 1])
  <2>1. IsRest(R, p, s)
    BY RestExists
  <2> HIDE DEF R
  <2>2. R = [i \in Nat |-> IF i > Len(p) \/ i > Len(s)
                           THEN i > Len(p) /\ i > Len(s)
                           ELSE p[i] = Chevron \/ (p[i] \in {Star, s[i]} /\ R[i + 1])]
    BY <2>1, Zenon DEF IsRest
  <2> QED
    BY <2>2, Zenon
<1> HIDE DEF R
<1>3. 0 \in S
  <2>1. n + 1 \in Nat /\ n + 1 > Len(p) /\ n + 1 - 0 = n + 1
    BY <1>1
  <2> QED
    BY <1>1, <1>2, <2>1 DEF DenotesFrom
<1>4. ASSUME NEW d \in 0..n, d < n, d \in S PROVE d + 1 \in S
  <2> DEFINE i == n + 1 - (d + 1)
  <2>1. i \in Nat \ {0} /\ i <= Len(p) /\ i + 1 = n + 1 - d
    BY <1>1, <1>4
  <2>2. R[i + 1] = DenotesFrom(p, s, i + 1)
    BY <1>4, <2>1
  <2> HIDE DEF i
  <2>3. R[i] = DenotesFrom(p, s, i)
    <3>1. CASE i > Len(s)
      BY <1>2, <2>1, <3>1 DEF DenotesFrom
    <3>2. CASE ~(i > Len(s))
      <4>1. i <= Len(s) /\ ~(i > Len(p))
        BY <1>1, <2>1, <3>2
      <4>2. R[i] = (p[i] = Chevron \/ (p[i] \in {Star, s[i]} /\ R[i + 1]))
        BY <1>2, <2>1, <3>2, <4>1
      <4>3. DenotesFrom(p, s, i) \in BOOLEAN
        BY DEF DenotesFrom
      <4> QED
        BY <2>1, <2>2, <4>1, <4>2, <4>3, DenotesFromUnfolds
    <3> QED
      BY <3>1, <3>2
  <2> QED
    BY <1>1, <1>4, <2>3 DEF i
<1>5. n \in S
  <2>1. S \in SUBSET (0..n)
    OBVIOUS
  <2>2. n \in Nat
    BY <1>1
  <2> HIDE DEF S, n
  <2>3. \A d \in 0..n : (d < n /\ d \in S) => d + 1 \in S
    BY <1>4
  <2>4. \A d \in 0..n : d \in S
    BY <1>3, <2>1, <2>2, <2>3, UpToBound
  <2> QED
    BY <2>2, <2>4
<1> QED
  BY <1>1, <1>5 DEF R

LEMMA MatchesIsDenotes ==
  ASSUME NEW p \in Seq(STRING) \ {<<>>}, NEW s \in Seq(STRING) \ {<<>>}
  PROVE  Matches(p, s) = Denotes(p, s)
<1>1. Denotes(p, s) \in BOOLEAN
  BY DEF Denotes
<1> QED
  BY <1>1, MatchesIsRest, RestIsDenotes, DenotesIsFromOne

-----------------------------------------------------------------------------
(***************************************************************************)
(* The score of a pattern, a sum over its segments.                        *)
(***************************************************************************)
LEMMA ScoreIs ==
  ASSUME NEW x
  PROVE  /\ SegmentScore(x) \in Nat /\ SegmentScore(x) >= 1
         /\ x = Chevron => SegmentScore(x) = 1
         /\ x = Star => SegmentScore(x) = 10
         /\ x \notin {Star, Chevron} => SegmentScore(x) = 100
<1>1. CASE x = Chevron
  BY <1>1 DEF SegmentScore, Star, Chevron
<1>2. CASE x = Star
  BY <1>2 DEF SegmentScore, Star, Chevron
<1>3. CASE x \notin {Star, Chevron}
  BY <1>3 DEF SegmentScore
<1> QED
  BY <1>1, <1>2, <1>3

IsSum(f, p, n) ==
  f = [i \in 0..n |-> IF i = 0 THEN 0 ELSE f[i - 1] + SegmentScore(p[i])]

SumOf(p) == CHOOSE f : IsSum(f, p, Len(p))

LEMMA SpecificityIsSum ==
  ASSUME NEW p, ~IsEmptyPattern(p)
  PROVE  Specificity(p) = SumOf(p)[Len(p)]
BY DEF Specificity, SumOf, IsSum

LEMMA SumExists ==
  ASSUME NEW p \in Seq(STRING)
  PROVE  IsSum(SumOf(p), p, Len(p))
<1> DEFINE S == {n \in 0..Len(p) : \E f : IsSum(f, p, n)}
<1>1. Len(p) \in Nat
  OBVIOUS
<1>2. 0 \in S
  <2> DEFINE f == [i \in 0..0 |-> 0]
  <2>1. f = [i \in 0..0 |-> IF i = 0 THEN 0 ELSE f[i - 1] + SegmentScore(p[i])]
    OBVIOUS
  <2>2. IsSum(f, p, 0)
    BY <2>1 DEF IsSum
  <2> QED
    BY <1>1, <2>2
<1>3. ASSUME NEW n \in 0..Len(p), n < Len(p), n \in S PROVE n + 1 \in S
  <2>1. PICK f : IsSum(f, p, n)
    BY <1>3
  <2> DEFINE Next1(i) == IF i <= n THEN f[i] ELSE f[n] + SegmentScore(p[n + 1])
             g == [i \in 0..n + 1 |-> Next1(i)]
             Body(i) == IF i = 0 THEN 0 ELSE g[i - 1] + SegmentScore(p[i])
  <2>2. n \in Nat /\ n + 1 \in 0..Len(p)
    BY <1>1, <1>3
  <2>3. ASSUME NEW i \in 0..n + 1 PROVE Next1(i) = Body(i)
    <3>1. CASE i = 0
      <4>1. f[0] = 0
        BY <2>1, <2>2 DEF IsSum
      <4> QED
        BY <2>2, <3>1, <4>1
    <3>2. CASE i \in 1..n
      <4>1. i - 1 \in 0..n + 1 /\ i - 1 <= n /\ i \in 0..n /\ i # 0 /\ i <= n
        BY <2>2, <3>2
      <4>2. g[i - 1] = f[i - 1]
        BY <4>1
      <4>3. f[i] = f[i - 1] + SegmentScore(p[i])
        BY <2>1, <4>1 DEF IsSum
      <4> QED
        BY <4>1, <4>2, <4>3
    <3>3. CASE i = n + 1
      <4>1. i - 1 = n /\ n \in 0..n + 1 /\ i # 0 /\ ~(i <= n) /\ n <= n
        BY <2>2, <3>3
      <4>2. g[i - 1] = f[n]
        BY <4>1
      <4> QED
        BY <3>3, <4>1, <4>2
    <3> QED
      BY <2>2, <3>1, <3>2, <3>3
  <2>4. g = [i \in 0..n + 1 |-> Body(i)]
    BY <2>3
  <2>5. IsSum(g, p, n + 1)
    BY <2>4 DEF IsSum
  <2> QED
    BY <2>2, <2>5
<1>4. Len(p) \in S
  <2>1. S \in SUBSET (0..Len(p))
    OBVIOUS
  <2> HIDE DEF S
  <2>2. \A d \in 0..Len(p) : (d < Len(p) /\ d \in S) => d + 1 \in S
    BY <1>3
  <2>3. \A d \in 0..Len(p) : d \in S
    BY <1>1, <1>2, <2>1, <2>2, UpToBound
  <2> QED
    BY <1>1, <2>3
<1> QED
  BY <1>4 DEF SumOf

LEMMA SumSteps ==
  ASSUME NEW p \in Seq(STRING)
  PROVE  /\ SumOf(p)[0] = 0
         /\ \A i \in 1..Len(p) : SumOf(p)[i] = SumOf(p)[i - 1] + SegmentScore(p[i])
<1>1. Len(p) \in Nat
  OBVIOUS
<1> DEFINE f == SumOf(p)
<1>2. IsSum(f, p, Len(p))
  BY SumExists
<1> HIDE DEF f
<1>3. f = [i \in 0..Len(p) |-> IF i = 0 THEN 0 ELSE f[i - 1] + SegmentScore(p[i])]
  BY <1>2, Zenon DEF IsSum
<1>4. \A i \in 0..Len(p) : f[i] = IF i = 0 THEN 0 ELSE f[i - 1] + SegmentScore(p[i])
  BY <1>3, Zenon
<1>5. \A i \in 1..Len(p) : i \in 0..Len(p) /\ i # 0
  BY <1>1
<1> QED
  BY <1>1, <1>4, <1>5 DEF f

\* Sums do not fall, and of two patterns one of which scores as high at every
\* segment, and higher at one of them, that has the higher sum.
LEMMA SumGrows ==
  ASSUME NEW p \in Seq(STRING)
  PROVE  \A i \in 0..Len(p) : SumOf(p)[i] \in Nat
<1> DEFINE S == {i \in 0..Len(p) : SumOf(p)[i] \in Nat}
<1>1. Len(p) \in Nat
  OBVIOUS
<1>2. 0 \in S
  BY <1>1, SumSteps
<1>3. ASSUME NEW i \in 0..Len(p), i < Len(p), i \in S PROVE i + 1 \in S
  <2>1. i + 1 \in 1..Len(p) /\ (i + 1) - 1 = i
    BY <1>1, <1>3
  <2>2. SumOf(p)[i + 1] = SumOf(p)[i] + SegmentScore(p[i + 1])
    BY <2>1, SumSteps
  <2> QED
    BY <1>3, <2>1, <2>2, ScoreIs
<1>4. S \in SUBSET (0..Len(p))
  OBVIOUS
<1> HIDE DEF S
<1>5. \A i \in 0..Len(p) : (i < Len(p) /\ i \in S) => i + 1 \in S
  BY <1>3
<1>6. \A i \in 0..Len(p) : i \in S
  BY <1>1, <1>2, <1>4, <1>5, UpToBound
<1> QED
  BY <1>6 DEF S

LEMMA SumPasses ==
  ASSUME NEW p \in Seq(STRING), NEW k \in 0..Len(p)
  PROVE  SumOf(p)[Len(p)] >= SumOf(p)[k]
<1> DEFINE n == Len(p) - k
           S == {d \in 0..n : SumOf(p)[k + d] >= SumOf(p)[k]}
<1>1. Len(p) \in Nat /\ k \in Nat /\ n \in Nat /\ k + n = Len(p)
  OBVIOUS
<1>2. 0 \in S
  BY <1>1, SumGrows
<1>3. ASSUME NEW d \in 0..n, d < n, d \in S PROVE d + 1 \in S
  <2>1. k + d + 1 \in 1..Len(p) /\ (k + d + 1) - 1 = k + d /\ k + d \in 0..Len(p) /\ d + 1 \in 0..n
    BY <1>1, <1>3
  <2>2. SumOf(p)[k + d + 1] = SumOf(p)[k + d] + SegmentScore(p[k + d + 1])
    BY <2>1, SumSteps
  <2>3. /\ SumOf(p)[k + d] \in Nat /\ SumOf(p)[k] \in Nat /\ SegmentScore(p[k + d + 1]) \in Nat
        /\ SumOf(p)[k + d] >= SumOf(p)[k]
    BY <1>3, <2>1, SumGrows, ScoreIs
  <2>4. k + (d + 1) = k + d + 1
    BY <1>1
  <2>5. SumOf(p)[k + (d + 1)] >= SumOf(p)[k]
    BY <2>2, <2>3, <2>4
  <2> QED
    BY <2>1, <2>5
<1>4. S \in SUBSET (0..n)
  OBVIOUS
<1> HIDE DEF S, n
<1>5. \A d \in 0..n : (d < n /\ d \in S) => d + 1 \in S
  BY <1>3
<1>6. \A d \in 0..n : d \in S
  BY <1>1, <1>2, <1>4, <1>5, UpToBound
<1>7. n \in S
  BY <1>1, <1>6
<1> QED
  BY <1>1, <1>7 DEF S

LEMMA SumsCompare ==
  ASSUME NEW p \in Seq(STRING), NEW q \in Seq(STRING),
         NEW k \in Nat, k <= Len(p), k <= Len(q),
         \A j \in 1..k : SegmentScore(p[j]) >= SegmentScore(q[j])
  PROVE  /\ SumOf(p)[k] >= SumOf(q)[k]
         /\ \A j \in 1..k :
              SegmentScore(p[j]) > SegmentScore(q[j]) => SumOf(p)[k] > SumOf(q)[k]
<1> DEFINE Good(i) ==
             /\ SumOf(p)[i] >= SumOf(q)[i]
             /\ \A j \in 1..i :
                  SegmentScore(p[j]) > SegmentScore(q[j]) => SumOf(p)[i] > SumOf(q)[i]
           S == {i \in 0..k : Good(i)}
<1>1. Len(p) \in Nat /\ Len(q) \in Nat
  OBVIOUS
<1>2. 0 \in S
  BY SumSteps
<1>3. ASSUME NEW i \in 0..k, i < k, i \in S PROVE i + 1 \in S
  <2>1. /\ i + 1 \in 1..Len(p) /\ i + 1 \in 1..Len(q) /\ i + 1 \in 1..k
        /\ (i + 1) - 1 = i /\ i \in 0..Len(p) /\ i \in 0..Len(q)
    BY <1>1, <1>3
  <2>2. SumOf(p)[i + 1] = SumOf(p)[i] + SegmentScore(p[i + 1])
    BY <2>1, SumSteps
  <2>3. SumOf(q)[i + 1] = SumOf(q)[i] + SegmentScore(q[i + 1])
    BY <2>1, SumSteps
  <2>4. /\ SumOf(p)[i] \in Nat /\ SumOf(q)[i] \in Nat
        /\ SegmentScore(p[i + 1]) \in Nat /\ SegmentScore(q[i + 1]) \in Nat
        /\ SegmentScore(p[i + 1]) >= SegmentScore(q[i + 1])
    BY <2>1, SumGrows, ScoreIs
  <2>5. SumOf(p)[i + 1] >= SumOf(q)[i + 1]
    BY <1>3, <2>2, <2>3, <2>4
  <2>6. ASSUME NEW j \in 1..i + 1, SegmentScore(p[j]) > SegmentScore(q[j])
        PROVE  SumOf(p)[i + 1] > SumOf(q)[i + 1]
    <3>1. CASE j = i + 1
      BY <1>3, <2>2, <2>3, <2>4, <2>6, <3>1
    <3>2. CASE j \in 1..i
      <4>1. SumOf(p)[i] > SumOf(q)[i]
        BY <1>3, <2>6, <3>2
      <4> QED
        BY <2>2, <2>3, <2>4, <4>1
    <3> QED
      BY <2>1, <3>1, <3>2
  <2> QED
    BY <2>1, <2>5, <2>6
<1>4. S \in SUBSET (0..k)
  OBVIOUS
<1>5. \A i \in 0..k : (i < k /\ i \in S) => i + 1 \in S
  BY <1>3
<1> HIDE DEF S
<1>6. \A i \in 0..k : i \in S
  BY <1>2, <1>4, <1>5, UpToBound
<1>7. k \in S
  BY <1>6
<1> QED
  BY <1>7 DEF S

-----------------------------------------------------------------------------
(***************************************************************************)
(* Patterns and what they match.  A pattern matches itself with its        *)
(* wildcards filled in, by whatever word; one that ends in ">" matches a   *)
(* segment more.                                                           *)
(***************************************************************************)
Usual(p) == p \in Patterns /\ WellFormed(p) /\ ~IsEmptyPattern(p)

LEMMA UsualIs ==
  ASSUME NEW p, Usual(p)
  PROVE  /\ p \in Seq(STRING) \ {<<>>} /\ Len(p) \in Nat \ {0}
         /\ \A i \in 1..Len(p) : p[i] = Chevron => i = Len(p)
BY TopicAssumption DEF Usual, WellFormed

LEMMA FilledMatches ==
  ASSUME NEW p, Usual(p), NEW word \in {"a", "b"}
  PROVE  /\ Filled(p, word) \in Language[p]
         /\ Len(Filled(p, word)) = Len(p)
         /\ \A i \in 1..Len(p) :
              Filled(p, word)[i] = IF p[i] \in {Star, Chevron} THEN word ELSE p[i]
<1> DEFINE s == Filled(p, word)
<1>1. /\ p \in Seq(STRING) \ {<<>>} /\ Len(p) \in Nat \ {0}
      /\ \A i \in 1..Len(p) : p[i] = Chevron => i = Len(p)
  BY UsualIs
<1>2. s \in Subjects
  BY SubjectsAssumption DEF Usual
<1>3. Len(s) = Len(p) /\ \A i \in 1..Len(p) : s[i] = IF p[i] \in {Star, Chevron} THEN word ELSE p[i]
  <2>1. s \in Seq(STRING)
    BY <1>2, TopicAssumption
  <2> QED
    BY <1>1, <2>1 DEF Filled
<1> HIDE DEF s
<1>4. \A i \in 1..Len(p) : p[i] # Chevron => Covers(p[i], s[i])
  BY <1>3 DEF Covers
<1>5. Denotes(p, s)
  <2>1. CASE p[Len(p)] = Chevron
    <3>1. \A i \in 1..Len(p) - 1 : i \in 1..Len(p) /\ i # Len(p)
      BY <1>1
    <3>2. Len(p) \in 1..Len(p) /\ Len(p) <= Len(s)
      BY <1>1, <1>3
    <3> QED
      BY <1>1, <1>4, <2>1, <3>1, <3>2 DEF Denotes, Usual
  <2>2. CASE p[Len(p)] # Chevron
    BY <1>1, <1>3, <1>4, <2>2 DEF Denotes, Usual
  <2> QED
    BY <2>1, <2>2
<1> QED
  BY <1>2, <1>3, <1>5 DEF s, Language, Usual

LEMMA LongerMatches ==
  ASSUME NEW p, Usual(p), p[Len(p)] = Chevron
  PROVE  \E s \in Language[p] : Len(s) = Len(p) + 1
<1> DEFINE f == Filled(p, "a")
           s == Append(f, "a")
<1>1. /\ p \in Seq(STRING) \ {<<>>} /\ Len(p) \in Nat \ {0}
      /\ \A i \in 1..Len(p) : p[i] = Chevron => i = Len(p)
  BY UsualIs
<1>2. f \in Subjects /\ s \in Subjects
  BY SubjectsAssumption DEF Usual
<1>3. Len(f) = Len(p) /\ \A i \in 1..Len(p) : f[i] = IF p[i] \in {Star, Chevron} THEN "a" ELSE p[i]
  BY FilledMatches
<1>4. f \in Seq(STRING)
  BY <1>2, TopicAssumption
<1> HIDE DEF f
<1>5. Len(s) = Len(p) + 1 /\ \A i \in 1..Len(p) : s[i] = f[i]
  BY <1>1, <1>3, <1>4
<1> HIDE DEF s
<1>6. \A i \in 1..Len(p) - 1 : i \in 1..Len(p) /\ p[i] # Chevron /\ Covers(p[i], s[i])
  BY <1>1, <1>3, <1>5 DEF Covers
<1>7. Len(p) \in 1..Len(p) /\ Len(p) <= Len(s)
  BY <1>1, <1>5
<1>8. Denotes(p, s)
  BY <1>6, <1>7 DEF Denotes, Usual
<1> QED
  BY <1>2, <1>5, <1>8 DEF Language, Usual

\* Where one pattern matches no more than another, each of its segments before
\* the other's ">" is the other's, or the other has "*" there.
LEMMA NarrowerSegments ==
  ASSUME NEW p, Usual(p), NEW q, Usual(q), Language[p] \subseteq Language[q]
  PROVE  /\ q[Len(q)] = Chevron => Len(q) <= Len(p)
         /\ q[Len(q)] # Chevron => Len(q) = Len(p) /\ p[Len(p)] # Chevron
         /\ \A i \in 1..Len(q) : q[i] # Chevron =>
              i \in 1..Len(p) /\ (q[i] = p[i] \/ (q[i] = Star /\ p[i] # Chevron))
<1>1. /\ p \in Seq(STRING) \ {<<>>} /\ Len(p) \in Nat \ {0}
      /\ q \in Seq(STRING) \ {<<>>} /\ Len(q) \in Nat \ {0}
      /\ \A i \in 1..Len(p) : p[i] = Chevron => i = Len(p)
      /\ \A i \in 1..Len(q) : q[i] = Chevron => i = Len(q)
  BY UsualIs
<1>2. \A s \in Language[q] : Denotes(q, s)
  BY DEF Language, Usual
<1>3. ASSUME NEW s \in Language[p]
      PROVE  /\ q[Len(q)] # Chevron => Len(s) = Len(q)
             /\ q[Len(q)] = Chevron => Len(q) <= Len(s)
             /\ \A i \in 1..Len(q) : q[i] # Chevron => Covers(q[i], s[i])
  <2>1. Denotes(q, s)
    BY <1>2
  <2>2. CASE /\ Len(s) = Len(q)
             /\ \A i \in 1..Len(q) : q[i] # Chevron /\ Covers(q[i], s[i])
    BY <1>1, <2>2
  <2>3. ASSUME NEW k \in 1..Len(q), q[k] = Chevron, k <= Len(s),
               \A i \in 1..k - 1 : q[i] # Chevron /\ Covers(q[i], s[i])
        PROVE  /\ q[Len(q)] # Chevron => Len(s) = Len(q)
               /\ q[Len(q)] = Chevron => Len(q) <= Len(s)
               /\ \A i \in 1..Len(q) : q[i] # Chevron => Covers(q[i], s[i])
    <3>1. k = Len(q)
      BY <1>1, <2>3
    <3>2. \A i \in 1..Len(q) : i = k \/ i \in 1..k - 1
      BY <1>1, <3>1
    <3> QED
      BY <2>3, <3>1, <3>2
  <2> QED
    BY <2>1, <2>2, <2>3 DEF Denotes
<1> DEFINE A == Filled(p, "a")
           B == Filled(p, "b")
<1>4. /\ A \in Language[p] /\ Len(A) = Len(p)
      /\ \A i \in 1..Len(p) : A[i] = IF p[i] \in {Star, Chevron} THEN "a" ELSE p[i]
  BY FilledMatches
<1>5. /\ B \in Language[p] /\ Len(B) = Len(p)
      /\ \A i \in 1..Len(p) : B[i] = IF p[i] \in {Star, Chevron} THEN "b" ELSE p[i]
  BY FilledMatches
<1> HIDE DEF A, B
<1>6. q[Len(q)] = Chevron => Len(q) <= Len(p)
  BY <1>3, <1>4
<1>7. q[Len(q)] # Chevron => Len(q) = Len(p) /\ p[Len(p)] # Chevron
  <2> SUFFICES ASSUME q[Len(q)] # Chevron PROVE Len(q) = Len(p) /\ p[Len(p)] # Chevron
    OBVIOUS
  <2>1. Len(q) = Len(p)
    BY <1>3, <1>4
  <2>2. ASSUME p[Len(p)] = Chevron PROVE FALSE
    <3>1. PICK s \in Language[p] : Len(s) = Len(p) + 1
      BY <2>2, LongerMatches
    <3>2. Len(s) = Len(q)
      BY <1>3
    <3> QED
      BY <1>1, <2>1, <3>1, <3>2
  <2> QED
    BY <2>1, <2>2
<1>8. ASSUME NEW i \in 1..Len(q), q[i] # Chevron
      PROVE  i \in 1..Len(p) /\ (q[i] = p[i] \/ (q[i] = Star /\ p[i] # Chevron))
  <2>1. i \in 1..Len(p) /\ p[i] # Chevron
    <3>1. CASE q[Len(q)] # Chevron
      <4>1. Len(q) = Len(p) /\ p[Len(p)] # Chevron
        BY <1>7, <3>1
      <4> QED
        BY <1>1, <4>1
    <3>2. CASE q[Len(q)] = Chevron
      <4>1. i # Len(q) /\ Len(q) <= Len(p)
        BY <1>6, <1>8, <3>2
      <4>2. i \in 1..Len(p) /\ i # Len(p)
        BY <1>1, <4>1
      <4> QED
        BY <1>1, <4>2
    <3> QED
      BY <3>1, <3>2
  <2>2. Covers(q[i], A[i]) /\ Covers(q[i], B[i])
    BY <1>3, <1>4, <1>5, <1>8
  <2>3. CASE p[i] = Star
    BY <1>4, <1>5, <2>1, <2>2, <2>3 DEF Covers
  <2>4. CASE p[i] # Star
    BY <1>4, <2>1, <2>2, <2>4 DEF Covers
  <2> QED
    BY <2>1, <2>3, <2>4
<1> QED
  BY <1>6, <1>7, <1>8

\* Two patterns alike are one pattern.
LEMMA AlikeAreEqual ==
  ASSUME NEW p \in Seq(STRING), NEW q \in Seq(STRING), Len(p) = Len(q),
         \A i \in 1..Len(q) : p[i] = q[i]
  PROVE  p = q
OBVIOUS

LEMMA NarrowerIsHigher ==
  ASSUME NEW p, Usual(p), NEW q, Usual(q),
         Language[p] \subseteq Language[q], Language[p] # Language[q]
  PROVE  Specificity(p) > Specificity(q)
<1>1. /\ p \in Seq(STRING) \ {<<>>} /\ Len(p) \in Nat \ {0}
      /\ q \in Seq(STRING) \ {<<>>} /\ Len(q) \in Nat \ {0}
      /\ \A i \in 1..Len(p) : p[i] = Chevron => i = Len(p)
      /\ \A i \in 1..Len(q) : q[i] = Chevron => i = Len(q)
  BY UsualIs
<1>2. Specificity(p) = SumOf(p)[Len(p)] /\ Specificity(q) = SumOf(q)[Len(q)]
  BY SpecificityIsSum DEF Usual
<1>3. Len(q) <= Len(p)
  BY <1>1, NarrowerSegments
<1>4. \A i \in 1..Len(q) : i \in 1..Len(p)
  BY <1>1, <1>3
<1>5. \A i \in 1..Len(q) : q[i] # Chevron =>
        q[i] = p[i] \/ (q[i] = Star /\ p[i] # Chevron)
  BY NarrowerSegments
<1>6. ASSUME NEW i \in 1..Len(q) PROVE SegmentScore(p[i]) >= SegmentScore(q[i])
  <2>1. CASE q[i] = Chevron
    BY <2>1, ScoreIs
  <2>2. CASE q[i] # Chevron
    BY <1>5, <2>2, ScoreIs
  <2> QED
    BY <2>1, <2>2
<1>7. ASSUME NEW i \in 1..Len(q), p[i] # q[i] PROVE SegmentScore(p[i]) > SegmentScore(q[i])
  <2>1. CASE q[i] = Chevron
    <3>1. SegmentScore(q[i]) = 1 /\ SegmentScore(p[i]) \in {10, 100}
      BY <1>7, <2>1, ScoreIs
    <3> QED
      BY <3>1
  <2>2. CASE q[i] # Chevron
    <3>1. q[i] = Star /\ p[i] \notin {Star, Chevron}
      BY <1>5, <1>7, <2>2
    <3> QED
      BY <3>1, ScoreIs
  <2> QED
    BY <2>1, <2>2
<1>8. /\ SumOf(p)[Len(p)] \in Nat /\ SumOf(p)[Len(q)] \in Nat /\ SumOf(q)[Len(q)] \in Nat
      /\ SumOf(p)[Len(p)] >= SumOf(p)[Len(q)]
  <2>1. Len(q) \in 0..Len(p) /\ Len(p) \in 0..Len(p) /\ Len(q) \in 0..Len(q)
    BY <1>1, <1>3
  <2> QED
    BY <1>1, <2>1, SumGrows, SumPasses
<1>9. \E i \in 1..Len(q) : p[i] # q[i]
  <2> SUFFICES ASSUME \A i \in 1..Len(q) : p[i] = q[i] PROVE FALSE
    OBVIOUS
  <2>1. Len(p) = Len(q)
    <3>1. CASE q[Len(q)] # Chevron
      BY <3>1, NarrowerSegments
    <3>2. CASE q[Len(q)] = Chevron
      <4>1. Len(q) \in 1..Len(q)
        BY <1>1
      <4> QED
        BY <1>1, <1>4, <3>2, <4>1
    <3> QED
      BY <3>1, <3>2
  <2>2. p = q
    BY <1>1, <2>1, AlikeAreEqual
  <2> QED
    BY <2>2
<1>10. SumOf(p)[Len(q)] > SumOf(q)[Len(q)]
  <2>1. PICK i \in 1..Len(q) : p[i] # q[i]
    BY <1>9
  <2>2. SegmentScore(p[i]) > SegmentScore(q[i])
    BY <1>7, <2>1
  <2> QED
    BY <1>1, <1>3, <1>6, <2>2, SumsCompare
<1> QED
  BY <1>2, <1>8, <1>10

(***************************************************************************)
(* Whatever triggers hats have and whatever topics events: the router's    *)
(* reading of a trigger is the meaning its comments give it, and of two    *)
(* well-formed ones that which matches strictly less scores strictly       *)
(* higher, so that its hat comes first (topic.rs:20-75, event_router.rs:   *)
(* 42-62).                                                                 *)
(***************************************************************************)
THEOREM TriggersAreRightHolds == Spec => []TriggersAreRight
<1>1. IInv => MatchesCorrect
  <2> SUFFICES ASSUME IInv PROVE MatchesCorrect
    OBVIOUS
  <2>1. pattern \in Seq(STRING) \ {<<>>} /\ subject \in Seq(STRING) \ {<<>>}
    BY TopicAssumption DEF IInv, TypeOK
  <2> QED
    BY <2>1, MatchesIsDenotes DEF MatchesCorrect
<1>2. IInv => NarrowerScoresHigher
  <2> SUFFICES ASSUME IInv, NEW other \in Patterns,
                      WellFormed(pattern), WellFormed(other), Language[pattern] # {},
                      Language[pattern] \subseteq Language[other],
                      Language[pattern] # Language[other]
               PROVE  Specificity(pattern) > Specificity(other)
    BY DEF NarrowerScoresHigher
  <2>1. pattern \in Patterns
    BY DEF IInv, TypeOK
  <2>2. PICK s : s \in Language[pattern] /\ s \in Language[other]
    OBVIOUS
  <2>3. Denotes(pattern, s) /\ Denotes(other, s)
    BY <2>1, <2>2 DEF Language
  <2>4. Usual(pattern) /\ Usual(other)
    BY <2>1, <2>3 DEF Usual, Denotes
  <2> QED
    BY <2>4, NarrowerIsHigher
<1>3. IInv => TriggersAreRight
  BY <1>1, <1>2 DEF TriggersAreRight
<1> QED
  BY InitIInv, NextIInv, <1>3, PTL DEF Spec
=============================================================================
