-------------------------- MODULE Services_proofs --------------------------
(***************************************************************************)
(* Theorems about the services, for any keys, any number of publishers,    *)
(* any sizes of pages and buffers: what a subscription gives the loop, and *)
(* that both stores implement the abstract one (KeyStore) while others     *)
(* write.  Each part has an inductive invariant of its own.                *)
(***************************************************************************)
EXTENDS Services, SequenceTheorems, FiniteSetTheorems, TLAPS

-----------------------------------------------------------------------------
(* The subscription.                                                       *)

\* There is nothing before the controller subscribes, and nothing that is not
\* in the stream.
HeldInStream ==
  /\ stage = "unsubscribed" => taken = <<>> /\ channel = <<>> /\ forwarding = <<>> /\ buffer = <<>>
  /\ \A n \in Range(Broker!Given) : n <= Len(stream)
  /\ \A i \in DOMAIN buffer : buffer[i] <= Len(stream)
  /\ \A n \in dropped : n <= Len(stream)

BrokerInv == Broker!TypeOK /\ Broker!InOrderWithoutGaps /\ HeldInStream

LEMMA Singleton == ASSUME NEW S, NEW e \in S
                   PROVE  <<e>> \in Seq(S) /\ Len(<<e>>) = 1 /\ <<e>>[1] = e /\ Range(<<e>>) = {e}
<1>1. <<e>> \in Seq(S) /\ Len(<<e>>) = 1 /\ <<e>>[1] = e
  OBVIOUS
<1>2. Range(<<e>>) = {<<e>>[i] : i \in 1..1}
  BY <1>1, RangeEquality
<1> QED
  BY <1>1, <1>2

LEMMA RangeOfOneMore ==
  ASSUME NEW S, NEW s \in Seq(S), NEW e \in S
  PROVE  Range(s \o <<e>>) = Range(s) \cup {e} /\ Range(<<e>> \o s) = {e} \cup Range(s)
<1>1. PICK one \in Seq(S) : one = <<e>> /\ Range(one) = {e}
  BY Singleton
<1>2. Range(s \o one) = Range(s) \cup Range(one) /\ Range(one \o s) = Range(one) \cup Range(s)
  BY RangeConcatenation
<1> QED
  BY <1>1, <1>2

LEMMA HeadAndTail ==
  ASSUME NEW S, NEW s \in Seq(S), s # <<>>
  PROVE  Head(s) \in S /\ Tail(s) \in Seq(S) /\ s = <<Head(s)>> \o Tail(s)
         /\ Len(Tail(s)) = Len(s) - 1
<1>1. Head(s) \in S /\ Tail(s) \in Seq(S) /\ Len(Tail(s)) = Len(s) - 1
  BY HeadTailProperties
<1>2. Len(s) \in Nat \ {0}
  BY EmptySeq
<1>3. SubSeq(s, 1, Len(s)) = <<s[1]>> \o SubSeq(s, 2, Len(s))
  BY <1>2, SubSeqRecursiveFirst
<1>4. s[1] = Head(s)
  BY <1>2
<1> QED
  BY <1>1, <1>3, <1>4, SubSeqFull, TailIsSubSeq

\* What comes behind an ascending sequence is above all of it.
LEMMA AscendingConcat ==
  ASSUME NEW s \in Seq(Nat), NEW t \in Seq(Nat)
  PROVE  Broker!Ascending(s \o t)
           <=> /\ Broker!Ascending(s) /\ Broker!Ascending(t)
               /\ \A x \in Range(s), y \in Range(t) : x < y
<1>1. /\ s \o t \in Seq(Nat)
      /\ Len(s \o t) = Len(s) + Len(t)
      /\ \A i \in 1..Len(s) + Len(t) : (s \o t)[i] = IF i <= Len(s) THEN s[i] ELSE t[i - Len(s)]
  BY ConcatProperties
<1>2. /\ Len(s) \in Nat /\ Len(t) \in Nat
      /\ DOMAIN s = 1..Len(s) /\ DOMAIN t = 1..Len(t) /\ DOMAIN (s \o t) = 1..Len(s) + Len(t)
      /\ \A i \in 1..Len(s) : s[i] \in Nat
      /\ \A i \in 1..Len(t) : t[i] \in Nat
  BY <1>1, LenProperties, ElementOfSeq
<1>3. \A x : x \in Range(s) <=> \E i \in 1..Len(s) : x = s[i]
  BY RangeEquality
<1>4. \A y : y \in Range(t) <=> \E j \in 1..Len(t) : y = t[j]
  BY RangeEquality
<1>5. ASSUME Broker!Ascending(s \o t)
      PROVE  /\ Broker!Ascending(s) /\ Broker!Ascending(t)
             /\ \A x \in Range(s), y \in Range(t) : x < y
  <2>1. \A i, j \in 1..Len(s) + Len(t) : i < j => (s \o t)[i] < (s \o t)[j]
    BY <1>2, <1>5 DEF Broker!Ascending
  <2>2. Broker!Ascending(s)
    <3> SUFFICES ASSUME NEW i \in 1..Len(s), NEW j \in 1..Len(s), i < j PROVE s[i] < s[j]
      BY <1>2 DEF Broker!Ascending
    <3>1. i \in 1..Len(s) + Len(t) /\ j \in 1..Len(s) + Len(t) /\ i <= Len(s) /\ j <= Len(s)
      BY <1>2
    <3> QED
      BY <3>1, <2>1, <1>1
  <2>3. Broker!Ascending(t)
    <3> SUFFICES ASSUME NEW i \in 1..Len(t), NEW j \in 1..Len(t), i < j PROVE t[i] < t[j]
      BY <1>2 DEF Broker!Ascending
    <3>1. /\ i + Len(s) \in 1..Len(s) + Len(t) /\ j + Len(s) \in 1..Len(s) + Len(t)
          /\ ~(i + Len(s) <= Len(s)) /\ ~(j + Len(s) <= Len(s)) /\ i + Len(s) < j + Len(s)
          /\ i + Len(s) - Len(s) = i /\ j + Len(s) - Len(s) = j
      BY <1>2
    <3>2. (s \o t)[i + Len(s)] = t[i] /\ (s \o t)[j + Len(s)] = t[j]
      BY <3>1, <1>1
    <3> QED
      BY <3>1, <3>2, <2>1
  <2>4. ASSUME NEW i \in 1..Len(s), NEW j \in 1..Len(t) PROVE s[i] < t[j]
    <3>1. /\ i \in 1..Len(s) + Len(t) /\ j + Len(s) \in 1..Len(s) + Len(t)
          /\ i <= Len(s) /\ ~(j + Len(s) <= Len(s)) /\ i < j + Len(s) /\ j + Len(s) - Len(s) = j
      BY <1>2
    <3>2. (s \o t)[i] = s[i] /\ (s \o t)[j + Len(s)] = t[j]
      BY <3>1, <1>1
    <3> QED
      BY <3>1, <3>2, <2>1
  <2> QED
    BY <2>2, <2>3, <2>4, <1>3, <1>4
<1>6. ASSUME Broker!Ascending(s), Broker!Ascending(t), \A x \in Range(s), y \in Range(t) : x < y
      PROVE  Broker!Ascending(s \o t)
  <2> SUFFICES ASSUME NEW i \in 1..Len(s) + Len(t), NEW j \in 1..Len(s) + Len(t), i < j
               PROVE  (s \o t)[i] < (s \o t)[j]
    BY <1>2 DEF Broker!Ascending
  <2>1. CASE j <= Len(s)
    <3>1. i \in 1..Len(s) /\ j \in 1..Len(s) /\ i <= Len(s)
      BY <2>1, <1>2
    <3>2. s[i] < s[j]
      BY <3>1, <1>6, <1>2 DEF Broker!Ascending
    <3> QED
      BY <3>1, <3>2, <2>1, <1>1
  <2>2. CASE i <= Len(s) /\ ~(j <= Len(s))
    <3>1. i \in 1..Len(s) /\ j - Len(s) \in 1..Len(t)
      BY <2>2, <1>2
    <3>2. s[i] < t[j - Len(s)]
      BY <3>1, <1>6, <1>3, <1>4
    <3> QED
      BY <3>2, <2>2, <1>1
  <2>3. CASE ~(i <= Len(s))
    <3>1. /\ i - Len(s) \in 1..Len(t) /\ j - Len(s) \in 1..Len(t) /\ ~(j <= Len(s))
          /\ i - Len(s) < j - Len(s)
      BY <2>3, <1>2
    <3>2. t[i - Len(s)] < t[j - Len(s)]
      BY <3>1, <1>6, <1>2 DEF Broker!Ascending
    <3> QED
      BY <3>1, <3>2, <2>3, <1>1
  <2> QED
    BY <2>1, <2>2, <2>3, <1>2
<1> QED
  BY <1>5, <1>6

\* The line a message stands in, from the loop back to the client's buffer.
Line == Broker!Given \o buffer

\* What BrokerInv says of the line.
LineFacts ==
  /\ taken \in Seq(Nat) /\ channel \in Seq(Nat) /\ forwarding \in Seq(Nat) /\ buffer \in Seq(Nat)
  /\ Broker!Given \in Seq(Nat)

LEMMA InstanceRange == \A s : Broker!Range(s) = Range(s)
  BY DEF Broker!Range, Range

LEMMA LineIsTyped == Broker!TypeOK => LineFacts
<1> SUFFICES ASSUME Broker!TypeOK PROVE LineFacts
  OBVIOUS
<1>1. /\ taken \in Seq(1..MaxEvents) /\ channel \in Seq(1..MaxEvents)
      /\ forwarding \in Seq(1..MaxEvents) /\ buffer \in Seq(1..MaxEvents)
  BY DEF Broker!TypeOK, Broker!Numbers
<1>2. 1..MaxEvents \subseteq Nat
  BY BoundsAssumption
<1>3. /\ taken \in Seq(Nat) /\ channel \in Seq(Nat)
      /\ forwarding \in Seq(Nat) /\ buffer \in Seq(Nat)
  BY <1>1, <1>2, SeqMonotonic
<1>4. Broker!Given \in Seq(Nat)
  BY <1>3, ConcatProperties DEF Broker!Given
<1> QED
  BY <1>3, <1>4 DEF LineFacts

\* While the loop is there all that is due is in the line, and what it has been
\* given is at the front.
Full == Broker!Range(Broker!Given) \cup {n \in Broker!Range(buffer) : Broker!Parses(n)} = Broker!Due

LEMMA FullIsGapless ==
  /\ Broker!TypeOK /\ Broker!Ascending(Broker!Given \o buffer) /\ Full
  => Broker!Range(taken) \subseteq Broker!Due /\ Broker!Gapless
<1> SUFFICES ASSUME Broker!TypeOK, Broker!Ascending(Broker!Given \o buffer), Full
             PROVE  Range(taken) \subseteq Broker!Due
                    /\ \A n \in Broker!Due, m \in Range(taken) : n <= m => n \in Range(taken)
  BY InstanceRange DEF Broker!Gapless
<1>1. LineFacts
  BY LineIsTyped
<1>2. PICK rest \in Seq(Nat) : Broker!Given = taken \o rest /\ rest = channel \o forwarding
  <2>1. taken \in Seq(Nat) /\ channel \in Seq(Nat) /\ forwarding \in Seq(Nat)
    BY <1>1 DEF LineFacts
  <2>2. (taken \o channel) \o forwarding = taken \o (channel \o forwarding)
    <3>1. /\ taken \in Seq(1..MaxEvents) /\ channel \in Seq(1..MaxEvents)
          /\ forwarding \in Seq(1..MaxEvents)
      BY DEF Broker!TypeOK, Broker!Numbers
    <3> QED
      BY ONLY <3>1, ConcatAssociative
  <2>3. channel \o forwarding \in Seq(Nat)
    BY <2>1, ConcatProperties
  <2>4. Broker!Given = taken \o (channel \o forwarding)
    BY <2>1, <2>2 DEF Broker!Given
  <2> QED
    BY <2>3, <2>4
<1>3. taken \in Seq(Nat) /\ buffer \in Seq(Nat) /\ Broker!Given \in Seq(Nat)
  BY <1>1 DEF LineFacts
<1>4. /\ Broker!Ascending(Broker!Given)
      /\ \A x \in Range(Broker!Given), y \in Range(buffer) : x < y
  BY <1>3, AscendingConcat
<1>5. \A x \in Range(taken), y \in Range(rest) : x < y
  <2>1. Broker!Ascending(taken \o rest)
    BY <1>2, <1>4
  <2> QED
    BY <1>2, <1>3, <2>1, AscendingConcat
<1>6. Range(Broker!Given) = Range(taken) \cup Range(rest)
  <2>1. taken \in Seq(Nat) /\ rest \in Seq(Nat)
    BY <1>2, <1>3
  <2>2. Range(taken \o rest) = Range(taken) \cup Range(rest)
    BY ONLY <2>1, RangeConcatenation
  <2> QED
    BY <1>2, <2>2
<1>7. Range(Broker!Given) \cup {n \in Range(buffer) : Broker!Parses(n)} = Broker!Due
  BY InstanceRange DEF Full
<1>8. \A y : y \in Range(taken) \/ y \in Range(rest) \/ y \in Range(buffer) => y \in Nat
  <2>1. \A s \in Seq(Nat) : \A y \in Range(s) : y \in Nat
    BY ElementOfSeq, LenProperties DEF Range
  <2> QED
    BY <2>1, <1>2, <1>3
<1>9. ASSUME NEW n \in Broker!Due, NEW m \in Range(taken), n <= m PROVE n \in Range(taken)
  <2>1. n \in Range(taken) \/ n \in Range(rest) \/ n \in Range(buffer)
    BY <1>6, <1>7
  <2>2. n \in Range(rest) => m < n
    BY <1>5
  <2>3. n \in Range(buffer) => m < n
    BY <1>4, <1>6
  <2>4. n \in Nat /\ m \in Nat
    BY <1>8, <2>1
  <2> QED
    BY <1>9, <2>1, <2>2, <2>3, <2>4
<1> QED
  BY <1>6, <1>7, <1>9

\* So while the loop is there the order and the fullness of the line are enough,
LEMMA TakingKeeps ==
  ASSUME Broker!TypeOK', HeldInStream', Broker!Ascending(Broker!Given \o buffer)', Full'
  PROVE  BrokerInv'
<1>1. (Broker!Range(taken) \subseteq Broker!Due /\ Broker!Gapless)'
  BY FullIsGapless, PTL
<1> QED
  BY <1>1 DEF BrokerInv, Broker!InOrderWithoutGaps, Full

\* and else that what it has been given, and what was due, stays.
LEMMA AwayKeeps ==
  ASSUME BrokerInv, stage' # "taking", Broker!TypeOK', HeldInStream',
         Broker!Ascending(Broker!Given \o buffer)',
         taken' = taken, Broker!Due' = Broker!Due
  PROVE  BrokerInv'
<1>1. Broker!Range(taken)' = Broker!Range(taken)
  BY InstanceRange
<1>2. Broker!Range(taken) \subseteq Broker!Due /\ Broker!Gapless
  BY DEF BrokerInv, Broker!InOrderWithoutGaps
<1>3. (Broker!Range(taken) \subseteq Broker!Due /\ Broker!Gapless)'
  BY <1>1, <1>2 DEF Broker!Gapless
<1> QED
  BY <1>3 DEF BrokerInv, Broker!InOrderWithoutGaps

\* Handing messages on leaves the line and what is due alone.
LEMMA LineUnmoved ==
  ASSUME BrokerInv, Broker!TypeOK', UNCHANGED <<stream, stage, subscribed, dropped, buffer>>,
         Broker!Given' = Broker!Given, stage = "taking" \/ taken' = taken,
         stage = "unsubscribed" => UNCHANGED <<taken, channel, forwarding>>
  PROVE  BrokerInv'
<1>1. Broker!Due' = Broker!Due /\ \A n : Broker!Parses(n)' = Broker!Parses(n)
  BY DEF Broker!Due, Broker!Parses
<1>2. Broker!Ascending(Broker!Given \o buffer)'
  <2>1. (Broker!Given \o buffer)' = Broker!Given \o buffer
    OBVIOUS
  <2> QED
    BY <2>1 DEF BrokerInv, Broker!InOrderWithoutGaps, Broker!Ascending
<1>3. HeldInStream'
  <2>1. Range(Broker!Given') = Range(Broker!Given)
    OBVIOUS
  <2> QED
    BY <2>1 DEF BrokerInv, HeldInStream
<1>4. CASE stage = "taking"
  <2>1. Full
    BY <1>4 DEF BrokerInv, Broker!InOrderWithoutGaps, Full
  <2>2. Full'
    BY <2>1, <1>1 DEF Full, Broker!Range
  <2> QED
    BY <1>2, <1>3, <2>2, TakingKeeps
<1>5. CASE stage # "taking"
  BY <1>1, <1>2, <1>3, <1>5, AwayKeeps
<1> QED
  BY <1>4, <1>5

LEMMA SubscribeKeeps == BrokerInv /\ Broker!Subscribe => BrokerInv'
<1> SUFFICES ASSUME BrokerInv, Broker!Subscribe PROVE BrokerInv'
  OBVIOUS
<1> USE DEF Broker!Subscribe
<1>1. Len(stream) \in Nat /\ DOMAIN stream = 1..Len(stream)
  BY LenProperties DEF BrokerInv, Broker!TypeOK
<1>2. Broker!TypeOK'
  BY <1>1 DEF BrokerInv, Broker!TypeOK, Broker!Numbers
<1>3. Broker!Due' = {}
  BY <1>1 DEF Broker!Due
<1>4. taken = <<>> /\ channel = <<>> /\ forwarding = <<>> /\ buffer = <<>>
  BY DEF BrokerInv, HeldInStream
<1>5. Broker!Given' = Broker!Given /\ buffer' = buffer
  BY DEF Broker!Given
<1>6. Full'
  <2>1. Range(<<>>) = {}
    BY DEF Range
  <2>2. Broker!Given = <<>>
    BY <1>4, EmptySeq, ConcatEmptySeq DEF Broker!Given
  <2> QED
    BY <1>3, <1>4, <1>5, <2>1, <2>2, InstanceRange DEF Full
<1>7. Broker!Ascending(Broker!Given \o buffer)'
  <2>1. (Broker!Given \o buffer)' = Broker!Given \o buffer
    BY <1>5
  <2> QED
    BY <2>1 DEF BrokerInv, Broker!InOrderWithoutGaps, Broker!Ascending
<1>8. HeldInStream'
  <2>1. Range(Broker!Given') = Range(Broker!Given)
    BY <1>5
  <2> QED
    BY <1>1, <1>4, <1>5, <2>1 DEF BrokerInv, HeldInStream
<1> QED
  BY <1>2, <1>6, <1>7, <1>8, TakingKeeps

LEMMA TakeKeeps == BrokerInv /\ Broker!Take => BrokerInv'
<1> SUFFICES ASSUME BrokerInv, Broker!Take PROVE BrokerInv'
  OBVIOUS
<1> USE DEF Broker!Take
<1>1. /\ taken \in Seq(1..MaxEvents) /\ channel \in Seq(1..MaxEvents) /\ forwarding \in Seq(1..MaxEvents)
      /\ channel # <<>>
  BY DEF BrokerInv, Broker!TypeOK, Broker!Numbers
<1> DEFINE h == Head(channel)
           t == Tail(channel)
<1>2. h \in 1..MaxEvents /\ t \in Seq(1..MaxEvents) /\ channel = <<h>> \o t /\ Len(t) = Len(channel) - 1
  BY <1>1, HeadAndTail
<1>3. taken' = Append(taken, h) /\ channel' = t
  OBVIOUS
<1> HIDE DEF h, t
<1>4. <<h>> \in Seq(1..MaxEvents) /\ taken' = taken \o <<h>> /\ taken' \in Seq(1..MaxEvents)
  BY <1>1, <1>2, <1>3, AppendIsConcat, AppendProperties, Singleton
<1>5. (taken \o <<h>>) \o t = taken \o channel
  BY <1>1, <1>2, <1>4, ConcatAssociative
<1>6. Broker!Given' = Broker!Given
  BY <1>3, <1>4, <1>5 DEF Broker!Given
<1>7. Broker!TypeOK'
  <2>1. Len(channel) \in Nat /\ Len(channel') <= Channel
    BY <1>1, <1>2, <1>3, LenProperties, BoundsAssumption DEF BrokerInv, Broker!TypeOK
  <2> QED
    BY <1>2, <1>3, <1>4, <2>1 DEF BrokerInv, Broker!TypeOK, Broker!Numbers
<1> QED
  BY <1>6, <1>7, LineUnmoved

LEMMA SendKeeps == BrokerInv /\ Broker!Send => BrokerInv'
<1> SUFFICES ASSUME BrokerInv, Broker!Send PROVE BrokerInv'
  OBVIOUS
<1> USE DEF Broker!Send
<1>1. /\ taken \in Seq(1..MaxEvents) /\ channel \in Seq(1..MaxEvents) /\ forwarding \in Seq(1..MaxEvents)
      /\ channel' = channel \o forwarding /\ forwarding' = <<>>
  BY DEF BrokerInv, Broker!TypeOK, Broker!Numbers
<1>2. channel' \in Seq(1..MaxEvents) /\ Len(channel') = Len(channel) + Len(forwarding)
  BY <1>1, ConcatProperties
<1>3. taken \o channel' \in Seq(1..MaxEvents)
  BY <1>1, <1>2, ConcatProperties
<1>4. (taken \o channel') \o <<>> = taken \o channel'
  BY <1>3, ConcatEmptySeq
<1>5. (taken \o channel) \o forwarding = taken \o channel'
  <2>1. /\ taken \in Seq(1..MaxEvents) /\ channel \in Seq(1..MaxEvents)
        /\ forwarding \in Seq(1..MaxEvents)
    BY <1>1
  <2> HIDE DEF Broker!Send
  <2>2. (taken \o channel) \o forwarding = taken \o (channel \o forwarding)
    BY ONLY <2>1, ConcatAssociative
  <2> QED
    BY <1>1, <2>2
<1>6. Broker!Given' = Broker!Given
  BY <1>1, <1>4, <1>5 DEF Broker!Given
<1>7. Broker!TypeOK'
  <2>1. Len(channel) \in Nat /\ Len(forwarding) \in Nat
    BY <1>1, LenProperties
  <2>2. Len(channel) < Channel /\ Len(forwarding) <= 1
    BY DEF BrokerInv, Broker!TypeOK
  <2>3. Len(channel') <= Channel
    BY <1>2, <2>1, <2>2, BoundsAssumption
  <2>4. forwarding' \in Seq(Broker!Numbers) /\ Len(forwarding') <= 1
    BY <1>1, EmptySeq
  <2> QED
    BY <1>2, <2>3, <2>4 DEF BrokerInv, Broker!TypeOK, Broker!Numbers
<1> QED
  BY <1>6, <1>7, LineUnmoved

LEMMA ReceiveKeeps == BrokerInv /\ Broker!Receive => BrokerInv'
<1> SUFFICES ASSUME BrokerInv, Broker!Receive PROVE BrokerInv'
  OBVIOUS
<1>1. /\ taken \in Seq(1..MaxEvents) /\ channel \in Seq(1..MaxEvents)
      /\ buffer \in Seq(1..MaxEvents) /\ buffer # <<>> /\ forwarding = <<>>
  BY DEF BrokerInv, Broker!TypeOK, Broker!Numbers, Broker!Receive, Broker!MayReceive
<1>2. PICK h \in 1..MaxEvents, t \in Seq(1..MaxEvents) :
        h = Head(buffer) /\ t = Tail(buffer) /\ buffer = <<h>> \o t /\ Len(t) = Len(buffer) - 1
  BY <1>1, HeadAndTail
<1>3. /\ buffer' = t
      /\ forwarding' = IF Broker!Parses(h) THEN <<h>> ELSE <<>>
      /\ UNCHANGED <<stream, unconfirmed, stage, subscribed, connected, channel, taken, dropped,
                     disconnects>>
  BY <1>2 DEF Broker!Receive, Broker!NextMessage
<1>4. /\ Broker!Due' = Broker!Due
      /\ \A n : Broker!Parses(n)' = Broker!Parses(n)
  BY <1>3 DEF Broker!Due, Broker!Parses
<1>5. 1..MaxEvents \subseteq Nat
  BY BoundsAssumption
<1>6. /\ taken \in Seq(Nat) /\ channel \in Seq(Nat) /\ buffer \in Seq(Nat) /\ t \in Seq(Nat)
      /\ h \in Nat /\ <<h>> \in Seq(Nat) /\ <<>> \in Seq(Nat) /\ Range(<<h>>) = {h}
  BY <1>1, <1>2, <1>5, SeqMonotonic, Singleton, EmptySeq
<1>7. PICK g \in Seq(Nat) : g = taken \o channel
  BY <1>6, ConcatProperties
<1>8. Broker!Given = g /\ Broker!Given' = g \o forwarding'
  <2>1. g \o <<>> = g
    BY <1>7, ConcatEmptySeq
  <2> QED
    BY <1>1, <1>3, <1>7, <2>1 DEF Broker!Given
<1>9. /\ Broker!Ascending(g \o buffer)
      /\ stage = "taking" => Range(g) \cup {n \in Range(buffer) : Broker!Parses(n)} = Broker!Due
  BY <1>8, InstanceRange DEF BrokerInv, Broker!InOrderWithoutGaps
<1>10. Range(buffer) = {h} \cup Range(t)
  <2>1. t \in Seq(Nat) /\ h \in Nat
    BY <1>6
  <2>2. Range(<<h>> \o t) = {h} \cup Range(t)
    BY ONLY <2>1, RangeOfOneMore
  <2> QED
    BY <1>2, <2>2
<1>11. Len(t) \in Nat /\ DOMAIN t = 1..Len(t)
       /\ Len(buffer) \in Nat /\ DOMAIN buffer = 1..Len(buffer) /\ Len(t) = Len(buffer) - 1
  BY <1>2, <1>6, LenProperties
<1>12. \A i \in 1..Len(t) : t[i] = buffer[i + 1]
  BY <1>1, <1>2, HeadTailProperties
<1>13. Broker!TypeOK'
  <2>1. forwarding' \in Seq(1..MaxEvents) /\ Len(forwarding') <= 1
    <3>1. <<h>> \in Seq(1..MaxEvents) /\ Len(<<h>>) = 1
      BY <1>2, Singleton
    <3>2. <<>> \in Seq(1..MaxEvents) /\ Len(<<>>) = 0
      BY EmptySeq
    <3>3. CASE Broker!Parses(h)
      BY <3>1, <3>3, <1>3
    <3>4. CASE ~Broker!Parses(h)
      BY <3>2, <3>4, <1>3
    <3> QED
      BY <3>3, <3>4
  <2>2. Len(buffer') <= ClientBuffer
    BY <1>3, <1>11, BoundsAssumption DEF BrokerInv, Broker!TypeOK
  <2> QED
    BY <1>2, <1>3, <2>1, <2>2 DEF BrokerInv, Broker!TypeOK, Broker!Numbers
<1>14. HeldInStream'
  <2>1. \A i \in 1..Len(t) : i + 1 \in 1..Len(buffer)
    BY <1>11
  <2>2. \A i \in 1..Len(t) : t[i] <= Len(stream)
    BY <2>1, <1>11, <1>12 DEF BrokerInv, HeldInStream
  <2>3. stage # "unsubscribed"
    BY <1>1 DEF BrokerInv, HeldInStream
  <2>4. h <= Len(stream)
    <3>1. \A i \in 1..Len(buffer) : buffer[i] <= Len(stream)
      BY <1>11 DEF BrokerInv, HeldInStream
    <3>2. 1 \in 1..Len(buffer)
      BY <1>11
    <3>3. h = buffer[1]
      BY <1>1, <1>2, HeadTailProperties
    <3> QED
      BY <3>1, <3>2, <3>3
  <2>5. Range(g \o <<h>>) = Range(g) \cup {h}
    <3>1. g \in Seq(Nat) /\ h \in Nat
      BY <1>6, <1>7
    <3> QED
      BY ONLY <3>1, RangeOfOneMore
  <2>6. g \o <<>> = g
    BY <1>7, ConcatEmptySeq
  <2>7. \A n \in Range(g) : n <= Len(stream)
    BY <1>8 DEF BrokerInv, HeldInStream
  <2>8. \A n \in Range(Broker!Given') : n <= Len(stream)
    BY <1>3, <1>8, <2>4, <2>5, <2>6, <2>7
  <2> QED
    BY <1>3, <1>11, <2>2, <2>3, <2>8 DEF BrokerInv, HeldInStream
<1>15. CASE Broker!Parses(h)
  <2>1. Broker!Given' = g \o <<h>> /\ g \o <<h>> \in Seq(Nat)
    BY <1>3, <1>6, <1>7, <1>8, <1>15, ConcatProperties
  <2>2. (g \o <<h>>) \o t = g \o (<<h>> \o t)
    <3>1. g \in Seq(Nat) /\ <<h>> \in Seq(Nat) /\ t \in Seq(Nat)
      BY <1>6, <1>7
    <3> QED
      BY ONLY <3>1, ConcatAssociative
  <2>3. (Broker!Given \o buffer)' = g \o buffer
    BY <1>2, <1>3, <2>1, <2>2
  <2>4. Broker!Ascending(Broker!Given \o buffer)'
    BY <1>9, <2>3 DEF Broker!Ascending
  <2>5. Range(g \o <<h>>) = Range(g) \cup {h}
    <3>1. g \in Seq(Nat) /\ h \in Nat
      BY <1>6, <1>7
    <3> QED
      BY ONLY <3>1, RangeOfOneMore
  <2>6. CASE stage = "taking"
    <3>1. Range(g \o <<h>>) \cup {n \in Range(t) : Broker!Parses(n)} = Broker!Due
      BY <1>9, <1>10, <1>15, <2>5, <2>6
    <3>2. Full'
      BY <1>3, <1>4, <2>1, <3>1, InstanceRange DEF Full
    <3> QED
      BY <1>13, <1>14, <2>4, <3>2, TakingKeeps
  <2>7. CASE stage # "taking"
    BY <1>3, <1>4, <1>13, <1>14, <2>4, <2>7, AwayKeeps
  <2> QED
    BY <2>6, <2>7
<1>16. CASE ~Broker!Parses(h)
  <2>1. Broker!Given' = g
    BY <1>3, <1>7, <1>8, <1>16, ConcatEmptySeq
  <2>2. (Broker!Given \o buffer)' = g \o t
    BY <1>3, <2>1
  <2>3. Broker!Ascending(g \o t)
    <3>1. /\ Broker!Ascending(g) /\ Broker!Ascending(buffer)
          /\ \A x \in Range(g), y \in Range(buffer) : x < y
      BY <1>6, <1>7, <1>9, AscendingConcat
    <3>2. Broker!Ascending(t)
      <4>1. <<h>> \in Seq(Nat) /\ t \in Seq(Nat)
        BY <1>6
      <4>2. Broker!Ascending(<<h>> \o t) => Broker!Ascending(t)
        BY ONLY <4>1, AscendingConcat
      <4> QED
        BY <1>2, <3>1, <4>2
    <3> QED
      BY <1>6, <1>7, <1>10, <3>1, <3>2, AscendingConcat
  <2>4. Broker!Ascending(Broker!Given \o buffer)'
    BY <2>2, <2>3 DEF Broker!Ascending
  <2>5. CASE stage = "taking"
    <3>1. Range(g) \cup {n \in Range(t) : Broker!Parses(n)} = Broker!Due
      BY <1>9, <1>10, <1>16, <2>5
    <3>2. Full'
      BY <1>3, <1>4, <2>1, <3>1, InstanceRange DEF Full
    <3> QED
      BY <1>13, <1>14, <2>4, <3>2, TakingKeeps
  <2>6. CASE stage # "taking"
    BY <1>3, <1>4, <1>13, <1>14, <2>4, <2>6, AwayKeeps
  <2> QED
    BY <2>5, <2>6
<1> QED
  BY <1>15, <1>16

\* Without the channel, or without what is behind it, the line is in order.
LEMMA ShorterLine ==
  ASSUME BrokerInv
  PROVE  /\ Broker!Ascending(taken \o channel) /\ taken \o channel \in Seq(Nat)
         /\ Range(taken \o channel) \subseteq Range(Broker!Given)
         /\ Broker!Ascending((taken \o forwarding) \o buffer) /\ taken \o forwarding \in Seq(Nat)
         /\ Range(taken \o forwarding) \subseteq Range(Broker!Given)
<1>1. /\ taken \in Seq(Nat) /\ channel \in Seq(Nat) /\ forwarding \in Seq(Nat) /\ buffer \in Seq(Nat)
      /\ Broker!Given \in Seq(Nat)
  BY LineIsTyped DEF BrokerInv, LineFacts
<1>2. taken \o channel \in Seq(Nat) /\ taken \o forwarding \in Seq(Nat)
  BY <1>1, ConcatProperties
<1>3. /\ Range(taken \o channel) = Range(taken) \cup Range(channel)
      /\ Range(taken \o forwarding) = Range(taken) \cup Range(forwarding)
      /\ Range(Broker!Given) = Range(taken \o channel) \cup Range(forwarding)
  <2>1. /\ taken \in Seq(Nat) /\ channel \in Seq(Nat) /\ forwarding \in Seq(Nat)
        /\ taken \o channel \in Seq(Nat)
    BY <1>1, <1>2
  <2>2. /\ Range(taken \o channel) = Range(taken) \cup Range(channel)
        /\ Range(taken \o forwarding) = Range(taken) \cup Range(forwarding)
        /\ Range((taken \o channel) \o forwarding) = Range(taken \o channel) \cup Range(forwarding)
    <3>1. \A a, b \in Seq(Nat) : Range(a \o b) = Range(a) \cup Range(b)
      BY RangeConcatenation
    <3> QED
      BY <2>1, <3>1
  <2>3. Broker!Given = (taken \o channel) \o forwarding
    BY DEF Broker!Given
  <2> QED
    BY <2>2, <2>3
<1>4. Broker!Ascending(Broker!Given \o buffer)
  BY DEF BrokerInv, Broker!InOrderWithoutGaps
<1>5. /\ Broker!Ascending(Broker!Given) /\ Broker!Ascending(buffer)
      /\ \A x \in Range(Broker!Given), y \in Range(buffer) : x < y
  BY <1>1, <1>4, AscendingConcat
<1>6. /\ Broker!Ascending(taken \o channel) /\ Broker!Ascending(forwarding)
      /\ \A x \in Range(taken \o channel), y \in Range(forwarding) : x < y
  BY <1>1, <1>2, <1>5, AscendingConcat DEF Broker!Given
<1>7. Broker!Ascending(taken)
  BY <1>1, <1>6, AscendingConcat
<1>8. Broker!Ascending(taken \o forwarding)
  BY <1>1, <1>3, <1>6, <1>7, AscendingConcat
<1>9. Broker!Ascending((taken \o forwarding) \o buffer)
  BY <1>1, <1>2, <1>3, <1>5, <1>8, AscendingConcat
<1> QED
  BY <1>2, <1>3, <1>6, <1>9

LEMMA SendFailsKeeps == BrokerInv /\ Broker!SendFails => BrokerInv'
<1> SUFFICES ASSUME BrokerInv, Broker!SendFails PROVE BrokerInv'
  OBVIOUS
<1>1. /\ stage = "returned" /\ stage' = "ended" /\ forwarding' = <<>> /\ buffer' = <<>>
      /\ UNCHANGED <<stream, unconfirmed, subscribed, connected, channel, taken, dropped, disconnects>>
  BY DEF Broker!SendFails, Broker!Breaks
<1>2. /\ Broker!Ascending(taken \o channel) /\ taken \o channel \in Seq(Nat)
      /\ Range(taken \o channel) \subseteq Range(Broker!Given)
  BY ShorterLine
<1>3. Broker!Given' = taken \o channel /\ (Broker!Given \o buffer)' = taken \o channel
  <2>1. (taken \o channel) \o <<>> = taken \o channel
    BY <1>2, ConcatEmptySeq
  <2> QED
    BY <1>1, <2>1 DEF Broker!Given
<1>4. Broker!TypeOK'
  <2>1. Len(buffer) \in Nat /\ 0 <= ClientBuffer
    BY BoundsAssumption, LenProperties
  <2> QED
    BY <1>1, <2>1, EmptySeq, BoundsAssumption DEF BrokerInv, Broker!TypeOK
<1>5. Broker!Ascending(Broker!Given \o buffer)'
  BY <1>2, <1>3 DEF Broker!Ascending
<1>6. HeldInStream'
  <2>1. \A n \in Range(taken \o channel) : n <= Len(stream)
    BY <1>2 DEF BrokerInv, HeldInStream
  <2>2. DOMAIN <<>> = {}
    OBVIOUS
  <2> QED
    BY <1>1, <1>3, <2>1, <2>2 DEF BrokerInv, HeldInStream
<1>7. Broker!Due' = Broker!Due
  BY <1>1 DEF Broker!Due, Broker!Parses
<1> QED
  BY <1>1, <1>4, <1>5, <1>6, <1>7, AwayKeeps

LEMMA LoopReturnsKeeps == BrokerInv /\ Broker!LoopReturns => BrokerInv'
<1> SUFFICES ASSUME BrokerInv, Broker!LoopReturns PROVE BrokerInv'
  OBVIOUS
<1>1. /\ stage = "taking" /\ stage' = "returned" /\ channel' = <<>>
      /\ UNCHANGED <<stream, unconfirmed, subscribed, connected, buffer, forwarding, taken, dropped,
                     disconnects>>
  BY DEF Broker!LoopReturns
<1>2. /\ Broker!Ascending((taken \o forwarding) \o buffer)
      /\ Range(taken \o forwarding) \subseteq Range(Broker!Given)
  BY ShorterLine
<1>3. Broker!Given' = taken \o forwarding
  <2>1. taken \in Seq(Nat)
    BY LineIsTyped DEF BrokerInv, LineFacts
  <2>2. taken \o <<>> = taken
    BY <2>1, ConcatEmptySeq
  <2> QED
    BY <1>1, <2>2 DEF Broker!Given
<1>4. Broker!TypeOK'
  BY <1>1, EmptySeq, BoundsAssumption DEF BrokerInv, Broker!TypeOK
<1>5. Broker!Ascending(Broker!Given \o buffer)'
  BY <1>1, <1>2, <1>3 DEF Broker!Ascending
<1>6. HeldInStream'
  <2>1. \A n \in Range(taken \o forwarding) : n <= Len(stream)
    BY <1>2 DEF BrokerInv, HeldInStream
  <2> QED
    BY <1>1, <1>3, <2>1 DEF BrokerInv, HeldInStream
<1>7. Broker!Due' = Broker!Due
  BY <1>1 DEF Broker!Due, Broker!Parses
<1> QED
  BY <1>1, <1>4, <1>5, <1>6, <1>7, AwayKeeps

LEMMA PublishKeeps == ASSUME NEW p \in Publishers PROVE BrokerInv /\ Broker!Publish(p) => BrokerInv'
<1> SUFFICES ASSUME BrokerInv, Broker!Publish(p) PROVE BrokerInv'
  OBVIOUS
<1> DEFINE M == Broker!Kinds
<1>1. /\ stream \in Seq(M) /\ Len(stream) \in Nat /\ DOMAIN stream = 1..Len(stream)
      /\ Len(stream) < MaxEvents
      /\ Len(stream) + 1 \in 1..MaxEvents
  <2>1. stream \in Seq(M)
    BY DEF BrokerInv, Broker!TypeOK
  <2>2. Len(stream) \in Nat /\ DOMAIN stream = 1..Len(stream)
    BY <2>1, LenProperties
  <2> QED
    BY <2>1, <2>2, BoundsAssumption DEF Broker!Publish
<1>n. PICK n \in 1..MaxEvents : n = Len(stream) + 1
  BY <1>1
<1>2. /\ stream' \in Seq(M) /\ Len(stream') = n /\ DOMAIN stream' = 1..n
      /\ \A i \in 1..Len(stream) : stream'[i] = stream[i]
  <2>1. PICK m \in M : stream' = Append(stream, m)
    BY DEF Broker!Publish
  <2>2. stream' \in Seq(M) /\ Len(stream') = Len(stream) + 1 /\ \A i \in 1..Len(stream) : stream'[i] = stream[i]
    BY <1>1, <2>1, AppendProperties
  <2> QED
    BY <2>2, <1>n, LenProperties
<1>3. UNCHANGED <<stage, subscribed, connected, forwarding, channel, taken, disconnects>>
  BY DEF Broker!Publish
<1>4. LineFacts
  BY LineIsTyped DEF BrokerInv
<1>5. Broker!Given' = Broker!Given
  BY <1>3 DEF Broker!Given
<1>6. \/ UNCHANGED <<buffer, dropped>> /\ stage \in {"unsubscribed", "ended"}
      \/ buffer' = Append(buffer, n) /\ UNCHANGED dropped /\ stage # "unsubscribed" /\ Len(buffer) < ClientBuffer
      \/ dropped' = dropped \cup {n} /\ UNCHANGED buffer
  BY <1>n DEF Broker!Publish, Broker!Arrives
<1>7. unconfirmed' = unconfirmed \cup {p}
  BY DEF Broker!Publish
<1> HIDE DEF M
<1>8. /\ \A i \in DOMAIN buffer : buffer[i] \in 1..Len(stream)
      /\ \A x \in Range(buffer) : x \in 1..Len(stream)
      /\ \A x \in dropped : x \in 1..Len(stream)
      /\ subscribed \in 0..Len(stream)
      /\ buffer \in Seq(1..MaxEvents) /\ dropped \subseteq 1..MaxEvents
  <2>1. /\ buffer \in Seq(1..MaxEvents) /\ dropped \subseteq 1..MaxEvents /\ subscribed \in 0..Len(stream)
    BY DEF BrokerInv, Broker!TypeOK, Broker!Numbers
  <2>2. \A i \in DOMAIN buffer : buffer[i] \in 1..MaxEvents
    BY <2>1, LenProperties, ElementOfSeq
  <2>3. \A i \in DOMAIN buffer : buffer[i] \in 1..Len(stream)
    BY <2>2, <1>1, BoundsAssumption DEF BrokerInv, HeldInStream
  <2>4. \A x \in Range(buffer) : \E i \in DOMAIN buffer : x = buffer[i]
    BY DEF Range
  <2>5. \A x \in dropped : x \in 1..Len(stream)
    BY <2>1, <1>1, BoundsAssumption DEF BrokerInv, HeldInStream
  <2> QED
    BY <2>1, <2>3, <2>4, <2>5
<1>gs. \A x \in Range(Broker!Given) : x \in Nat /\ x <= Len(stream)
  <2>1. \A x \in Range(Broker!Given) : x \in Nat
    BY <1>4, RangeOfSeq DEF LineFacts
  <2> QED
    BY <2>1 DEF BrokerInv, HeldInStream
<1>9. \A x \in 1..Len(stream) : x \in 1..n /\ x # n /\ (Broker!Parses(x)' <=> Broker!Parses(x))
  BY <1>1, <1>2, <1>n DEF Broker!Parses
<1>10. \A x : x \in 1..n => x \in 1..Len(stream) \/ x = n
  BY <1>1, <1>n
<1>11. \A x \in Broker!Due : x \in 1..Len(stream)
  BY <1>1 DEF Broker!Due
<1>12. Broker!TypeOK'
  <2>1. buffer' \in Seq(1..MaxEvents) /\ Len(buffer') <= ClientBuffer
    <3>1. CASE buffer' = Append(buffer, n) /\ Len(buffer) < ClientBuffer
      <4>1. Len(buffer) \in Nat
        BY <1>8, LenProperties
      <4>2. buffer' \in Seq(1..MaxEvents) /\ Len(buffer') = Len(buffer) + 1
        BY <3>1, <1>1, <1>8, AppendProperties
      <4> QED
        BY <3>1, <4>1, <4>2, BoundsAssumption
    <3>2. CASE UNCHANGED buffer
      BY <3>2, <1>8 DEF BrokerInv, Broker!TypeOK
    <3> QED
      BY <3>1, <3>2, <1>6
  <2>2. dropped' \subseteq 1..MaxEvents
    BY <1>1, <1>6, <1>8
  <2>3. stream' \in Seq(Broker!Kinds) /\ Len(stream') <= MaxEvents
    BY <1>1, <1>2 DEF M
  <2>4. subscribed' \in 0..Len(stream')
    BY <1>1, <1>2, <1>3, <1>8, <1>n
  <2> QED
    BY <1>3, <1>7, <2>1, <2>2, <2>3, <2>4 DEF BrokerInv, Broker!TypeOK, Broker!Numbers
<1>13. HeldInStream'
  <2>1. stage' = "unsubscribed" =>
          taken' = <<>> /\ channel' = <<>> /\ forwarding' = <<>> /\ buffer' = <<>>
    BY <1>3, <1>6, EmptySeq DEF BrokerInv, HeldInStream
  <2>2. \A i \in DOMAIN buffer' : buffer'[i] <= n
    <3>1. CASE buffer' = Append(buffer, n)
      <4>1. /\ Len(buffer) \in Nat /\ DOMAIN buffer = 1..Len(buffer)
            /\ buffer' \in Seq(1..MaxEvents) /\ Len(buffer') = Len(buffer) + 1
            /\ \A i \in 1..Len(buffer) : buffer'[i] = buffer[i]
            /\ buffer'[Len(buffer) + 1] = n
        BY <3>1, <1>1, <1>8, AppendProperties, LenProperties
      <4>2. DOMAIN buffer' = 1..Len(buffer) + 1
        BY <4>1, LenProperties
      <4> QED
        BY <4>1, <4>2, <1>1, <1>8, <1>n
    <3>2. CASE UNCHANGED buffer
      BY <3>2, <1>8, <1>1, <1>n
    <3> QED
      BY <3>1, <3>2, <1>6
  <2>3. ASSUME NEW x \in dropped' PROVE x <= n
    <3>1. x \in 1..Len(stream) \/ x = n
      BY <1>6, <1>8
    <3> QED
      BY <3>1, <1>1, <1>n
  <2>4. \A x \in Range(Broker!Given') : x <= n
    BY <1>1, <1>5, <1>n, <1>gs
  <2> QED
    BY <1>2, <2>1, <2>2, <2>3, <2>4 DEF HeldInStream
<1>14. Broker!Ascending(Broker!Given \o buffer)'
  <2>0. Broker!Ascending(Broker!Given \o buffer)
    BY DEF BrokerInv, Broker!InOrderWithoutGaps
  <2>1. CASE UNCHANGED buffer
    BY <2>0, <2>1, <1>5 DEF Broker!Ascending
  <2>2. CASE buffer' = Append(buffer, n)
    <3>1. /\ Broker!Given \in Seq(Nat) /\ buffer \in Seq(Nat) /\ n \in Nat
          /\ <<n>> \in Seq(Nat) /\ Range(<<n>>) = {n}
          /\ Broker!Given \o buffer \in Seq(Nat)
      <4>1. Broker!Given \in Seq(Nat) /\ buffer \in Seq(Nat) /\ n \in Nat
        BY <1>1, <1>4, <1>n DEF LineFacts
      <4> QED
        BY <4>1, Singleton, ConcatProperties
    <3>2. (Broker!Given \o buffer)' = (Broker!Given \o buffer) \o <<n>>
      <4>1. Append(buffer, n) = buffer \o <<n>>
        BY <3>1, AppendIsConcat
      <4>2. (Broker!Given \o buffer) \o <<n>> = Broker!Given \o (buffer \o <<n>>)
        BY <3>1, ConcatAssociative
      <4> QED
        BY <4>1, <4>2, <2>2, <1>5
    <3>3. Range(Broker!Given \o buffer) = Range(Broker!Given) \cup Range(buffer)
      BY <3>1, RangeConcatenation
    <3>4. \A x \in Range(Broker!Given \o buffer) : x < n
      BY <3>3, <1>1, <1>8, <1>gs, <1>n
    <3>5. Broker!Ascending(<<n>>)
      BY DEF Broker!Ascending
    <3>6. Broker!Ascending((Broker!Given \o buffer) \o <<n>>)
      <4> DEFINE s == Broker!Given \o buffer
      <4>1. s \in Seq(Nat) /\ <<n>> \in Seq(Nat)
        BY <3>1
      <4>2. \A x \in Range(s), y \in Range(<<n>>) : x < y
        BY <3>1, <3>4
      <4>3. Broker!Ascending(s)
        BY <2>0
      <4> HIDE DEF s
      <4>4. Broker!Ascending(s \o <<n>>)
        BY ONLY <3>5, <4>1, <4>2, <4>3, AscendingConcat
      <4> QED
        BY <4>4 DEF s
    <3> QED
      BY <3>2, <3>6 DEF Broker!Ascending
  <2> QED
    BY <2>1, <2>2, <1>6
<1>15. /\ \A x : x \in Broker!Due <=>
             x \in 1..Len(stream) /\ stage # "unsubscribed" /\ x > subscribed /\ Broker!Parses(x)
             /\ x \notin dropped
       /\ \A x : x \in Broker!Due' <=>
             x \in 1..n /\ stage # "unsubscribed" /\ x > subscribed /\ Broker!Parses(x)'
             /\ x \notin dropped'
       /\ n > subscribed /\ n \notin dropped /\ n \in 1..n
  <2>1. n > subscribed /\ n \notin dropped /\ n \in 1..n
    BY <1>1, <1>8, <1>n
  <2> QED
    BY <2>1, <1>1, <1>2, <1>3 DEF Broker!Due
<1>16. CASE stage = "taking"
  <2>1. /\ Range(Broker!Given) \cup {k \in Range(buffer) : Broker!Parses(k)} = Broker!Due
        /\ Range(Broker!Given)' = Range(Broker!Given)
    BY <1>5, <1>16, InstanceRange DEF BrokerInv, Broker!InOrderWithoutGaps
  <2>2. CASE buffer' = Append(buffer, n) /\ UNCHANGED dropped
    <3>1. Range(buffer') = Range(buffer) \cup {n}
      <4>1. buffer \in Seq(Nat) /\ n \in Nat
        BY <1>1, <1>4, <1>n DEF LineFacts
      <4>2. buffer' = buffer \o <<n>>
        BY <4>1, <2>2, AppendIsConcat
      <4> QED
        BY <4>1, <4>2, RangeOfOneMore
    <3>2. ASSUME NEW x PROVE x \in Broker!Due' <=> x \in Broker!Due \/ (x = n /\ Broker!Parses(n)')
      <4>1. CASE x = n
        BY <4>1, <1>15, <1>16, <2>2, <1>9
      <4>2. CASE x # n
        BY <4>2, <1>15, <2>2, <1>9, <1>10
      <4> QED
        BY <4>1, <4>2
    <3>3. \A x \in Range(buffer) : (Broker!Parses(x)' <=> Broker!Parses(x))
      BY <1>8, <1>9
    <3>4. ASSUME NEW x
          PROVE  x \in Range(Broker!Given) \/ (x \in Range(buffer') /\ Broker!Parses(x)') <=> x \in Broker!Due'
      <4>1. x \in Range(buffer') <=> x \in Range(buffer) \/ x = n
        BY <3>1
      <4>2. x \in Broker!Due <=> x \in Range(Broker!Given) \/ (x \in Range(buffer) /\ Broker!Parses(x))
        BY <2>1
      <4>3. CASE x = n
        <5>1. x \notin Broker!Due
          BY <4>3, <1>15, <1>9
        <5> QED
          BY <4>1, <4>2, <4>3, <5>1, <3>2
      <4>4. CASE x # n
        BY <4>1, <4>2, <4>4, <3>2, <3>3
      <4> QED
        BY <4>3, <4>4
    <3>5. Range(Broker!Given) \cup {k \in Range(buffer') : Broker!Parses(k)'} = Broker!Due'
      BY <3>4
    <3>6. Full'
      BY <2>1, <3>5, InstanceRange DEF Full
    <3> QED
      BY <3>6, <1>12, <1>13, <1>14, TakingKeeps
  <2>3. CASE dropped' = dropped \cup {n} /\ UNCHANGED buffer
    <3>1. \A x : x \in Broker!Due' <=> x \in Broker!Due
      BY <1>15, <2>3, <1>9, <1>10
    <3>2. \A x \in Range(buffer) : (Broker!Parses(x)' <=> Broker!Parses(x))
      BY <1>8, <1>9
    <3>3. Range(Broker!Given) \cup {k \in Range(buffer) : Broker!Parses(k)'} = Broker!Due'
      BY <2>1, <3>1, <3>2
    <3>4. Full'
      BY <2>1, <2>3, <3>3, InstanceRange DEF Full
    <3> QED
      BY <3>4, <1>12, <1>13, <1>14, TakingKeeps
  <2> QED
    BY <2>2, <2>3, <1>6, <1>16
<1>17. CASE stage # "taking"
  <2>1. /\ \A x \in Range(taken) : x \in Broker!Due
        /\ \A x \in Broker!Due, m \in Range(taken) : x <= m => x \in Range(taken)
    BY InstanceRange DEF BrokerInv, Broker!InOrderWithoutGaps, Broker!Gapless
  <2>2. \A x : x # n => (x \in Broker!Due <=> x \in Broker!Due')
    BY <1>6, <1>9, <1>10, <1>15
  <2>3. \A x \in Range(taken) : x \in 1..Len(stream)
    BY <2>1, <1>11
  <2>4. \A x \in Range(taken) : x \in Broker!Due'
    BY <2>1, <2>2, <2>3, <1>9
  <2>5. ASSUME NEW x \in Broker!Due', NEW m \in Range(taken), x <= m PROVE x \in Range(taken)
    <3>1. x # n
      BY <2>3, <2>5, <1>1, <1>n
    <3> QED
      BY <3>1, <2>1, <2>2, <2>5
  <2>6. (Broker!Range(taken) \subseteq Broker!Due /\ Broker!Gapless)'
    BY <1>3, <2>4, <2>5, InstanceRange DEF Broker!Gapless
  <2> QED
    BY <2>6, <1>3, <1>12, <1>13, <1>14, <1>17 DEF BrokerInv, Broker!InOrderWithoutGaps
<1> QED
  BY <1>16, <1>17

\* The rest concerns neither the line nor what is due.
LEMMA OthersKeep ==
  ASSUME BrokerInv,
         UNCHANGED <<stream, stage, subscribed, buffer, forwarding, channel, taken, dropped>>,
         unconfirmed' \subseteq Publishers, connected' \in BOOLEAN, disconnects' \in 0..MaxDisconnects
  PROVE  BrokerInv'
<1>1. Broker!TypeOK'
  BY DEF BrokerInv, Broker!TypeOK
<1> QED
  BY <1>1, LineUnmoved DEF Broker!Given

LEMMA BrokerStep == BrokerInv /\ (Broker!Next \/ UNCHANGED brokerVars) => BrokerInv'
<1> SUFFICES ASSUME BrokerInv, Broker!Next \/ UNCHANGED brokerVars PROVE BrokerInv'
  OBVIOUS
<1>0. unconfirmed \subseteq Publishers /\ connected \in BOOLEAN /\ disconnects \in 0..MaxDisconnects
  BY DEF BrokerInv, Broker!TypeOK
<1>1. ASSUME NEW p \in Publishers, Broker!Confirmed(p) PROVE BrokerInv'
  BY <1>0, <1>1, OthersKeep DEF Broker!Confirmed
<1>2. CASE Broker!Disconnect
  <2>1. disconnects' \in 0..MaxDisconnects
    BY <1>0, <1>2, BoundsAssumption DEF Broker!Disconnect
  <2> QED
    BY <1>0, <1>2, <2>1, OthersKeep DEF Broker!Disconnect
<1>3. CASE Broker!Reconnect
  BY <1>0, <1>3, OthersKeep DEF Broker!Reconnect
<1>4. CASE Broker!Idle \/ UNCHANGED brokerVars
  BY <1>0, <1>4, OthersKeep DEF Broker!Idle, Broker!vars, brokerVars
<1> QED
  BY <1>1, <1>2, <1>3, <1>4, SubscribeKeeps, PublishKeeps, ReceiveKeeps, SendKeeps, SendFailsKeeps,
     TakeKeeps, LoopReturnsKeeps
     DEF Broker!Next

LEMMA BrokerStart == Broker!Init => BrokerInv
<1> SUFFICES ASSUME Broker!Init PROVE BrokerInv
  OBVIOUS
<1> USE DEF Broker!Init
<1>1. <<>> \o <<>> = <<>> /\ Broker!Given = <<>>
  BY ConcatEmptySeq, EmptySeq DEF Broker!Given
<1>2. Range(<<>>) = {} /\ DOMAIN <<>> = {}
  BY DEF Range
<1>3. Broker!TypeOK
  BY EmptySeq, BoundsAssumption DEF Broker!TypeOK
<1>4. Broker!InOrderWithoutGaps
  BY <1>1, <1>2, InstanceRange
     DEF Broker!InOrderWithoutGaps, Broker!Ascending, Broker!Due, Broker!Gapless
<1>5. HeldInStream
  BY <1>1, <1>2 DEF HeldInStream
<1> QED
  BY <1>3, <1>4, <1>5 DEF BrokerInv

-----------------------------------------------------------------------------
(* Paths.                                                                  *)

LEMMA PathPrefix ==
  ASSUME NEW s \in Paths, NEW t \in Paths
  PROVE  Local!IsPrefix(s, t) <=> Len(s) <= Len(t) /\ \A i \in 1..Len(s) : s[i] = t[i]
<1>1. /\ Len(s) \in Nat /\ Len(t) \in Nat
      /\ DOMAIN s = 1..Len(s) /\ DOMAIN t = 1..Len(t)
  BY LenProperties DEF Paths
<1>2. ASSUME Len(s) <= Len(t)
      PROVE  SubSeq(s, 1, Len(s)) = SubSeq(t, 1, Len(s)) <=> \A i \in 1..Len(s) : s[i] = t[i]
  <2>1. Len(s) \in 0..Len(s) /\ Len(s) \in 0..Len(t)
    BY <1>1, <1>2
  <2>2. /\ SubSeq(s, 1, Len(s)) = [i \in 1..Len(s) |-> s[i]]
        /\ SubSeq(t, 1, Len(s)) = [i \in 1..Len(s) |-> t[i]]
    BY <2>1, SubSeqRestrict DEF Restrict, Paths
  <2> QED
    BY <2>2
<1> QED
  BY <1>1, <1>2 DEF Local!IsPrefix

LEMMA PathPrefixTransitive ==
  ASSUME NEW s \in Paths, NEW t \in Paths, NEW u \in Paths,
         Local!IsPrefix(s, t), Local!IsPrefix(t, u)
  PROVE  Local!IsPrefix(s, u)
<1>1. Len(s) \in Nat /\ Len(t) \in Nat /\ Len(u) \in Nat /\ Len(s) <= Len(t) /\ Len(t) <= Len(u)
  BY LenProperties, PathPrefix DEF Paths
<1>2. ASSUME NEW i \in 1..Len(s) PROVE s[i] = u[i]
  <2>1. i \in 1..Len(t)
    BY <1>1
  <2>2. s[i] = t[i] /\ t[i] = u[i]
    BY <2>1, PathPrefix
  <2> QED
    BY <2>2
<1>3. Len(s) <= Len(u)
  BY <1>1
<1> QED
  BY <1>2, <1>3, PathPrefix

LEMMA PathPrefixItself == \A s \in Paths : Local!IsPrefix(s, s)
<1> SUFFICES ASSUME NEW s \in Paths PROVE Local!IsPrefix(s, s)
  OBVIOUS
<1>1. Len(s) \in Nat
  BY LenProperties DEF Paths
<1> QED
  BY <1>1, PathPrefix

\* A path that is a prefix of another and as long is that path.
LEMMA PathPrefixAsLong ==
  ASSUME NEW s \in Paths, NEW t \in Paths, Local!IsPrefix(s, t), Len(s) >= Len(t)
  PROVE  s = t
<1>1. Len(s) \in Nat /\ Len(t) \in Nat /\ Len(s) <= Len(t)
  BY LenProperties, PathPrefix DEF Paths
<1>2. Len(s) = Len(t)
  BY <1>1
<1> QED
  BY <1>2, PathPrefix, SeqEqual DEF Paths

\* Of two prefixes of one path the shorter is a prefix of the longer.
LEMMA PrefixesOfOnePath ==
  ASSUME NEW s \in Paths, NEW t \in Paths, NEW u \in Paths,
         Local!IsPrefix(s, u), Local!IsPrefix(t, u), Len(s) <= Len(t)
  PROVE  Local!IsPrefix(s, t)
<1>1. Len(s) \in Nat /\ Len(t) \in Nat /\ Len(u) \in Nat
  BY LenProperties DEF Paths
<1>2. ASSUME NEW i \in 1..Len(s) PROVE s[i] = t[i]
  <2>1. i \in 1..Len(t)
    BY <1>1
  <2>2. s[i] = u[i] /\ t[i] = u[i]
    BY <2>1, PathPrefix
  <2> QED
    BY <2>2
<1> QED
  BY <1>2, PathPrefix

\* What a directory holds of a path below it.
LEMMA EntryToward ==
  ASSUME NEW d \in Paths, NEW k \in Paths, Local!IsPrefix(d, k), d # k
  PROVE  \E e \in Paths :
           /\ Local!IsPrefix(d, e) /\ Local!IsPrefix(e, k) /\ Len(e) = Len(d) + 1
           /\ e = k \/ e \in Local!Parents(k)
<1>1. Len(d) \in Nat /\ Len(k) \in Nat /\ Len(d) <= Len(k)
  BY LenProperties, PathPrefix DEF Paths
<1>2. Len(d) < Len(k)
  BY <1>1, PathPrefixAsLong
<1> DEFINE n == Len(d) + 1
<1>3. n \in 0..Len(k) /\ n \in Nat
  BY <1>1, <1>2
<1>4. PICK e : e = SubSeq(k, 1, n)
  OBVIOUS
<1> HIDE DEF n
<1>5. \A i \in 1..n : i \in 1..Len(k) /\ k[i] \in STRING
  <2>1. \A i \in 1..n : i \in 1..Len(k)
    BY <1>1, <1>3
  <2> QED
    BY <2>1, ElementOfSeq DEF Paths
<1>6. e \in Paths /\ Len(e) = n /\ \A i \in 1..n : e[i] = k[i]
  <2>1. n \in Int /\ 1 \in Int /\ 1 <= n /\ n - 1 + 1 = n
    BY <1>1, <1>3 DEF n
  <2>2. /\ SubSeq(k, 1, n) \in Seq(STRING)
        /\ Len(SubSeq(k, 1, n)) = IF 1 <= n THEN n - 1 + 1 ELSE 0
        /\ \A i \in 1..n - 1 + 1 : SubSeq(k, 1, n)[i] = k[1 + i - 1]
    BY <1>5, <2>1, SubSeqProperties
  <2>3. \A i \in 1..n : 1 + i - 1 = i
    BY <2>1
  <2> QED
    BY <1>4, <2>1, <2>2, <2>3 DEF Paths
<1>7. Local!IsPrefix(e, k)
  BY <1>1, <1>3, <1>6, PathPrefix
<1>8. Local!IsPrefix(d, e)
  BY <1>1, <1>6, <1>7, PrefixesOfOnePath DEF n
<1>9. e = k \/ e \in Local!Parents(k)
  <2>1. CASE n = Len(k)
    <3>1. e = k
      BY <2>1, <1>1, <1>6, <1>7, PathPrefixAsLong
    <3> QED
      BY <3>1
  <2>2. CASE n # Len(k)
    <3>1. n \in 0..Len(k) - 1
      BY <2>2, <1>1, <1>3
    <3> QED
      BY <3>1, <1>4 DEF Local!Parents
  <2> QED
    BY <2>1, <2>2
<1> QED
  BY <1>6, <1>7, <1>8, <1>9 DEF n

\* A prefix of a path is that path or a directory it lies in.
LEMMA PrefixIsParent ==
  ASSUME NEW e \in Paths, NEW k \in Paths, Local!IsPrefix(e, k)
  PROVE  e = k \/ e \in Local!Parents(k)
<1>1. Len(e) \in Nat /\ Len(k) \in Nat /\ Len(e) <= Len(k)
  BY LenProperties, PathPrefix DEF Paths
<1>2. CASE Len(e) = Len(k)
  BY <1>1, <1>2, PathPrefixAsLong
<1>3. CASE Len(e) < Len(k)
  <2>1. SubSeq(e, 1, Len(e)) = SubSeq(k, 1, Len(e))
    BY DEF Local!IsPrefix
  <2>2. SubSeq(e, 1, Len(e)) = e
    BY SubSeqFull DEF Paths
  <2>3. Len(e) \in 0..Len(k) - 1
    BY <1>1, <1>3
  <2> QED
    BY <2>1, <2>2, <2>3 DEF Local!Parents
<1> QED
  BY <1>1, <1>2, <1>3

LEMMA LocalKeyFacts ==
  /\ Local!Keys \subseteq Paths
  /\ \A k \in Local!Keys : \A d \in Local!Parents(k) :
       d \in Paths /\ Local!IsPrefix(d, k) /\ d \notin Local!Keys /\ d # Local!NoDir
  /\ \A k, l \in Local!Keys : Local!IsPrefix(k, l) => k = l
<1>1. Local!Keys \subseteq Paths
  <2>1. Local!Keys = Range(LocalOrder)
    BY DEF Local!Keys, Local!Range, Range
  <2> QED
    BY <2>1, KeysAssumption, RangeOfSeq
<1>2. ASSUME NEW k \in Local!Keys, NEW n \in 0..Len(k)
      PROVE  /\ SubSeq(k, 1, n) \in Paths /\ Len(SubSeq(k, 1, n)) = n
             /\ \A i \in 1..n : SubSeq(k, 1, n)[i] = k[i]
             /\ Local!IsPrefix(SubSeq(k, 1, n), k)
  <2>1. k \in Paths /\ Len(k) \in Nat /\ n \in Nat /\ n <= Len(k)
    BY <1>1, LenProperties DEF Paths
  <2>2. \A i \in 1..n : i \in 1..Len(k) /\ k[i] \in STRING /\ 1 + i - 1 = i
    <3>1. \A i \in 1..n : i \in 1..Len(k) /\ 1 + i - 1 = i
      BY <2>1
    <3> QED
      BY <2>1, <3>1, ElementOfSeq DEF Paths
  <2>3. /\ SubSeq(k, 1, n) \in Seq(STRING)
        /\ Len(SubSeq(k, 1, n)) = IF 1 <= n THEN n - 1 + 1 ELSE 0
        /\ \A i \in 1..n - 1 + 1 : SubSeq(k, 1, n)[i] = k[1 + i - 1]
    BY <2>1, <2>2, SubSeqProperties
  <2>4. (IF 1 <= n THEN n - 1 + 1 ELSE 0) = n /\ n - 1 + 1 = n
    BY <2>1
  <2>5. /\ SubSeq(k, 1, n) \in Paths /\ Len(SubSeq(k, 1, n)) = n
        /\ \A i \in 1..n : SubSeq(k, 1, n)[i] = k[i]
    BY <2>2, <2>3, <2>4 DEF Paths
  <2> QED
    BY <2>1, <2>5, PathPrefix
<1>3. ASSUME NEW k \in Local!Keys, NEW d \in Local!Parents(k)
      PROVE  d \in Paths /\ Local!IsPrefix(d, k) /\ d \notin Local!Keys /\ d # Local!NoDir
  <2>1. PICK n \in 0..Len(k) - 1 : d = SubSeq(k, 1, n)
    BY DEF Local!Parents
  <2>2. n \in 0..Len(k)
    BY <1>1, LenProperties DEF Paths
  <2> QED
    BY <1>2, <2>1, <2>2, DirectoriesAssumption
<1>4. ASSUME NEW k \in Local!Keys, NEW l \in Local!Keys, Local!IsPrefix(k, l)
      PROVE  k = l
  <2>1. k \in Paths /\ l \in Paths /\ Len(k) \in Nat /\ Len(l) \in Nat
    BY <1>1, LenProperties DEF Paths
  <2>2. Len(k) <= Len(l) /\ \A i \in 1..Len(k) : k[i] = l[i]
    BY <1>4, <2>1, PathPrefix
  <2>3. CASE Len(k) = Len(l)
    BY <1>4, <2>1, <2>3, PathPrefixAsLong
  <2>4. CASE Len(k) < Len(l)
    <3>1. Len(k) \in 0..Len(l) - 1 /\ Len(k) \in 0..Len(l)
      BY <2>1, <2>4
    <3>2. PICK d : d = SubSeq(l, 1, Len(k))
      OBVIOUS
    <3>3. d \in Paths /\ Len(d) = Len(k) /\ \A i \in 1..Len(k) : d[i] = l[i]
      BY <1>2, <3>1, <3>2
    <3>4. d = k
      BY <2>1, <2>2, <3>3, SeqEqual DEF Paths
    <3>5. d \in Local!Parents(l)
      BY <3>1, <3>2 DEF Local!Parents
    <3> QED
      BY <3>4, <3>5, DirectoriesAssumption
  <2> QED
    BY <2>1, <2>2, <2>3, <2>4
<1> QED
  BY <1>1, <1>3, <1>4

\* The directories a key lies in are those of a path from the base.
LEMMA ParentsClosed ==
  ASSUME NEW k \in Local!Keys, NEW d \in Local!Parents(k), NEW e \in Paths, Local!IsPrefix(e, d)
  PROVE  e \in Local!Parents(k)
<1>1. d \in Paths /\ k \in Paths /\ Local!IsPrefix(d, k) /\ d \notin Local!Keys
  BY LocalKeyFacts
<1>2. e = k \/ e \in Local!Parents(k)
  BY <1>1, PathPrefixTransitive, PrefixIsParent
<1>3. e # k
  <2> SUFFICES ASSUME Local!IsPrefix(k, d) PROVE FALSE
    OBVIOUS
  <2>1. Len(k) \in Nat /\ Len(d) \in Nat /\ Len(d) >= Len(k)
    BY <1>1, PathPrefix, LenProperties DEF Paths
  <2>2. k = d
    <3>1. Len(k) >= Len(d)
      BY <1>1, <2>1, PathPrefix
    <3> QED
      BY <1>1, <3>1, PathPrefixAsLong
  <2> QED
    BY <1>1, <2>2
<1> QED
  BY <1>2, <1>3

-----------------------------------------------------------------------------
(***************************************************************************)
(* The walk of the local store.  Directories on the stack lie apart, and   *)
(* apart from the unread entries of the one that is read: each is read at  *)
(* most once.                                                              *)
(***************************************************************************)
WalkTypes ==
  /\ Local!TypeOK
  /\ stack \in Seq(Paths)
  /\ dirs \subseteq UNION {Local!Parents(k) : k \in Local!Keys}
  /\ \A d \in dirs, e \in Paths : Local!IsPrefix(e, d) => e \in dirs

Apart(d, e) == ~Local!IsPrefix(d, e) /\ ~Local!IsPrefix(e, d)

WalkInv ==
  /\ \A i, j \in DOMAIN stack : i # j => ~Local!IsPrefix(stack[i], stack[j])
  /\ current # Local!NoDir =>
       /\ \A i \in DOMAIN stack : ~Local!IsPrefix(stack[i], current)
       /\ \A e \in owed \cup late :
            /\ e \in present \cup dirs
            /\ e \in Paths /\ Len(e) = Len(current) + 1 /\ Local!IsPrefix(current, e)
            /\ \A i \in DOMAIN stack : Apart(stack[i], e)

\* A key that was there all along is found, or lies where the walk still goes;
ToCome(k) ==
  \/ \E i \in DOMAIN stack : Local!IsPrefix(stack[i], k)
  \/ current # Local!NoDir /\ \E e \in owed : Local!IsPrefix(e, k)

\* once found, it lies where the walk does not go again.
MayCome(k) ==
  \/ \E i \in DOMAIN stack : Local!IsPrefix(stack[i], k)
  \/ current # Local!NoDir /\ \E e \in owed \cup late : Local!IsPrefix(e, k)

LocalPromise ==
  call = "listing" =>
    /\ since \subseteq present /\ present \subseteq ever /\ keys \subseteq ever
    /\ \A k \in since : k \in keys \/ ToCome(k)

FoundOnce ==
  call = "listing" =>
    /\ twice \cap since = {}
    /\ \A k \in keys \cap since : ~MayCome(k)

LocalInv == WalkTypes /\ WalkInv /\ LocalPromise /\ FoundOnce

\* What the steps need of the types.
LEMMA WalkFacts ==
  WalkTypes =>
    /\ present \subseteq Local!Keys /\ since \subseteq Local!Keys
    /\ \A d \in dirs : d \in Paths /\ d \notin Local!Keys /\ d # Local!NoDir
    /\ Local!Keys \subseteq Paths
    /\ \A i \in DOMAIN stack : stack[i] \in dirs /\ stack[i] \in Paths
    /\ DOMAIN stack = 1..Len(stack) /\ Len(stack) \in Nat
    /\ current # Local!NoDir => current \in dirs
    /\ current # Local!NoDir => call = "listing"
<1> SUFFICES ASSUME WalkTypes
             PROVE  /\ present \subseteq Local!Keys /\ since \subseteq Local!Keys
                    /\ \A d \in dirs : d \in Paths /\ d \notin Local!Keys /\ d # Local!NoDir
                    /\ Local!Keys \subseteq Paths
                    /\ \A i \in DOMAIN stack : stack[i] \in dirs /\ stack[i] \in Paths
                    /\ DOMAIN stack = 1..Len(stack) /\ Len(stack) \in Nat
                    /\ current # Local!NoDir => current \in dirs
                    /\ current # Local!NoDir => call = "listing"
  OBVIOUS
<1>1. present \subseteq Local!Keys /\ since \subseteq Local!Keys
  BY DEF WalkTypes, Local!TypeOK
<1>2. \A d \in dirs : d \in Paths /\ d \notin Local!Keys /\ d # Local!NoDir
  BY LocalKeyFacts DEF WalkTypes
<1>3. \A i \in DOMAIN stack : stack[i] \in dirs
  BY DEF WalkTypes, Local!TypeOK, Local!ToSet
<1>4. DOMAIN stack = 1..Len(stack) /\ Len(stack) \in Nat
  BY LenProperties DEF WalkTypes
<1>5. (current # Local!NoDir => current \in dirs) /\ (current # Local!NoDir => call = "listing")
  BY DEF WalkTypes, Local!TypeOK
<1> QED
  BY <1>1, <1>2, <1>3, <1>4, <1>5, LocalKeyFacts

\* What comes to the directory that is read lies apart from all the walk has
\* still to read, and nothing that was there lies under it.
LEMMA NewcomerFacts ==
  ASSUME LocalInv, current # Local!NoDir,
         NEW e \in Paths, e \notin present \cup dirs,
         Len(e) = Len(current) + 1, Local!IsPrefix(current, e)
  PROVE  /\ \A i \in DOMAIN stack : Apart(stack[i], e)
         /\ \A k \in present : ~Local!IsPrefix(e, k)
<1>1. /\ current \in dirs /\ current \in Paths
      /\ \A i \in DOMAIN stack : /\ stack[i] \in dirs /\ stack[i] \in Paths
                               /\ ~Local!IsPrefix(stack[i], current)
  BY WalkFacts DEF LocalInv, WalkInv
<1>2. \A d \in dirs : ~Local!IsPrefix(e, d)
  BY DEF LocalInv, WalkTypes
<1>3. ASSUME NEW d \in dirs, d \in Paths, ~Local!IsPrefix(d, current) PROVE ~Local!IsPrefix(d, e)
  <2> SUFFICES ASSUME Local!IsPrefix(d, e) PROVE FALSE
    OBVIOUS
  <2>1. Len(d) \in Nat /\ Len(current) \in Nat /\ Len(d) <= Len(current) + 1
    BY <1>1, <1>3, LenProperties, PathPrefix DEF Paths
  <2>2. CASE Len(d) <= Len(current)
    BY <1>1, <1>3, <2>2, PrefixesOfOnePath
  <2>3. CASE Len(d) = Len(current) + 1
    <3>1. Len(d) >= Len(e)
      BY <2>1, <2>3
    <3>2. d = e
      BY <1>3, <3>1, PathPrefixAsLong
    <3> QED
      BY <3>2
  <2> QED
    BY <2>1, <2>2, <2>3
<1>4. ASSUME NEW k \in present PROVE ~Local!IsPrefix(e, k)
  <2>1. k \in Paths /\ Local!Parents(k) \subseteq dirs
    BY WalkFacts DEF LocalInv, WalkTypes, Local!TypeOK
  <2>2. e # k /\ e \notin Local!Parents(k)
    BY <2>1
  <2> QED
    BY <2>1, <2>2, PrefixIsParent
<1> QED
  BY <1>1, <1>2, <1>3, <1>4 DEF Apart

\* So what others write leaves the walk alone.
LEMMA WritingKeeps ==
  ASSUME LocalInv, WalkTypes', UNCHANGED <<since, call, stack, current, keys, twice, owed>>,
         Local!Comes, present \subseteq present', dirs \subseteq dirs',
         present' \cup dirs' \subseteq Paths,
         call = "listing" => present' \subseteq ever' /\ ever \subseteq ever'
  PROVE  LocalInv'
<1>1. current # Local!NoDir => call = "listing"
  BY WalkFacts DEF LocalInv
<1>2. ASSUME current # Local!NoDir, NEW e \in late', e \notin late
      PROVE  /\ e \in present' \cup dirs' /\ e \in Paths
             /\ Len(e) = Len(current) + 1 /\ Local!IsPrefix(current, e)
             /\ \A i \in DOMAIN stack : Apart(stack[i], e)
             /\ \A k \in present : ~Local!IsPrefix(e, k)
  <2>1. e \in Local!Entries(current)' /\ e \notin Local!Entries(current)
    BY <1>2 DEF Local!Comes
  <2>2. e \in present' \cup dirs' /\ Len(e) = Len(current) + 1 /\ Local!IsPrefix(current, e)
    BY <2>1 DEF Local!Entries
  <2>3. e \notin present \cup dirs /\ e \in Paths
    BY <2>1, <2>2 DEF Local!Entries
  <2> QED
    BY <1>2, <2>2, <2>3, NewcomerFacts
<1>3. WalkInv'
  <2>1. \A i, j \in DOMAIN stack : i # j => ~Local!IsPrefix(stack[i], stack[j])
    BY DEF LocalInv, WalkInv
  <2>2. ASSUME current # Local!NoDir
        PROVE  /\ \A i \in DOMAIN stack : ~Local!IsPrefix(stack[i], current)
               /\ \A e \in owed \cup late :
                    /\ e \in present \cup dirs
                    /\ e \in Paths /\ Len(e) = Len(current) + 1 /\ Local!IsPrefix(current, e)
                    /\ \A i \in DOMAIN stack : Apart(stack[i], e)
    BY <2>2 DEF LocalInv, WalkInv
  <2>3. ASSUME current # Local!NoDir, NEW e \in owed \cup late'
        PROVE  /\ e \in present' \cup dirs'
               /\ e \in Paths /\ Len(e) = Len(current) + 1 /\ Local!IsPrefix(current, e)
               /\ \A i \in DOMAIN stack : Apart(stack[i], e)
    BY <1>2, <2>2, <2>3
  <2> QED
    BY <2>1, <2>2, <2>3 DEF WalkInv, Apart
<1>4. LocalPromise'
  BY DEF LocalInv, LocalPromise, ToCome
<1>5. FoundOnce'
  <2> SUFFICES ASSUME call = "listing"
               PROVE  twice \cap since = {} /\ \A k \in keys \cap since : ~MayCome(k)'
    BY DEF FoundOnce
  <2>1. twice \cap since = {} /\ since \subseteq present
    BY DEF LocalInv, FoundOnce, LocalPromise
  <2>2. ASSUME NEW k \in keys \cap since PROVE ~MayCome(k)'
    <3>1. ~MayCome(k) /\ k \in present
      BY <2>1 DEF LocalInv, FoundOnce
    <3>2. ASSUME current # Local!NoDir, NEW e \in owed \cup late' PROVE ~Local!IsPrefix(e, k)
      BY <1>2, <3>1, <3>2 DEF MayCome
    <3> QED
      BY <3>1, <3>2 DEF MayCome
  <2> QED
    BY <2>1, <2>2
<1> QED
  BY <1>3, <1>4, <1>5 DEF LocalInv

LEMMA CreateDirsKeeps == ASSUME NEW k \in Local!Keys PROVE LocalInv /\ Local!CreateDirs(k) => LocalInv'
<1> SUFFICES ASSUME LocalInv, Local!CreateDirs(k) PROVE LocalInv'
  OBVIOUS
<1>1. /\ UNCHANGED <<present, since, ever, call, answer, stack, current, keys, twice, owed, faults>>
      /\ dirs' = dirs \cup Local!Parents(k) /\ Local!Comes
  BY DEF Local!CreateDirs, Local!vars, Local!walkVars
<1>2. Local!Keys \subseteq Paths /\ present \subseteq Local!Keys /\ \A d \in dirs : d \in Paths
  BY WalkFacts DEF LocalInv
<1>3. WalkTypes'
  <2>1. Local!TypeOK'
    BY <1>1 DEF LocalInv, WalkTypes, Local!TypeOK, Local!ToSet, Local!IsInjective
  <2>2. ASSUME NEW d \in dirs', NEW e \in Paths, Local!IsPrefix(e, d) PROVE e \in dirs'
    <3>1. CASE d \in dirs
      BY <1>1, <2>2, <3>1 DEF LocalInv, WalkTypes
    <3>2. CASE d \in Local!Parents(k)
      BY <1>1, <2>2, <3>2, ParentsClosed
    <3> QED
      BY <1>1, <3>1, <3>2
  <2> QED
    BY <1>1, <2>1, <2>2 DEF LocalInv, WalkTypes
<1>4. present' \cup dirs' \subseteq Paths
  BY <1>1, <1>2, LocalKeyFacts
<1>5. call = "listing" => present' \subseteq ever' /\ ever \subseteq ever'
  BY <1>1 DEF LocalInv, LocalPromise
<1> QED
  BY <1>1, <1>3, <1>4, <1>5, WritingKeeps

LEMMA WriteFileKeeps == ASSUME NEW k \in Local!Keys PROVE LocalInv /\ Local!WriteFile(k) => LocalInv'
<1> SUFFICES ASSUME LocalInv, Local!WriteFile(k) PROVE LocalInv'
  OBVIOUS
<1>1. /\ UNCHANGED <<since, call, answer, dirs, stack, current, keys, twice, owed>>
      /\ present' = present \cup {k} /\ Local!Parents(k) \subseteq dirs
      /\ ever' = IF call = "listing" THEN ever \cup {k} ELSE ever
      /\ Local!Comes
  BY DEF Local!WriteFile, Local!Put, Local!walkVars
<1>2. faults' \in 0..MaxFaults
  BY BoundsAssumption DEF Local!WriteFile, Local!Fault, LocalInv, WalkTypes, Local!TypeOK
<1>3. WalkTypes'
  <2>1. Local!TypeOK'
    BY <1>1, <1>2 DEF LocalInv, WalkTypes, Local!TypeOK, Local!ToSet, Local!IsInjective
  <2> QED
    BY <1>1, <2>1 DEF LocalInv, WalkTypes
<1>4. present' \cup dirs' \subseteq Paths
  BY <1>1, WalkFacts DEF LocalInv
<1>5. call = "listing" => present' \subseteq ever' /\ ever \subseteq ever'
  BY <1>1 DEF LocalInv, LocalPromise
<1> QED
  BY <1>1, <1>3, <1>4, <1>5, WritingKeeps

LEMMA RemoveFileKeeps == ASSUME NEW k \in Local!Keys PROVE LocalInv /\ Local!RemoveFile(k) => LocalInv'
<1> SUFFICES ASSUME LocalInv, Local!RemoveFile(k) PROVE LocalInv'
  OBVIOUS
<1>1. /\ UNCHANGED <<ever, call, answer, dirs, stack, current, keys, twice>>
      /\ present' = present \ {k} /\ since' = since \ {k}
      /\ owed' = owed \ {k} /\ late' = late \ {k}
  BY DEF Local!RemoveFile, Local!Delete, Local!walkVars
<1>2. faults' \in 0..MaxFaults
  BY BoundsAssumption DEF Local!RemoveFile, Local!Fault, LocalInv, WalkTypes, Local!TypeOK
<1>3. WalkTypes'
  <2>1. Local!TypeOK'
    BY <1>1, <1>2 DEF LocalInv, WalkTypes, Local!TypeOK, Local!ToSet, Local!IsInjective
  <2> QED
    BY <1>1, <2>1 DEF LocalInv, WalkTypes
<1>4. WalkInv'
  BY <1>1 DEF LocalInv, WalkInv, Apart
<1>5. LocalPromise'
  <2> SUFFICES ASSUME call = "listing"
               PROVE  /\ since' \subseteq present' /\ present' \subseteq ever /\ keys \subseteq ever
                      /\ \A l \in since' : l \in keys \/ ToCome(l)'
    BY <1>1 DEF LocalPromise
  <2>1. ASSUME NEW l \in since' PROVE l \in keys \/ ToCome(l)'
    <3>1. l \in since /\ l # k /\ l \in Local!Keys
      BY <1>1, WalkFacts DEF LocalInv
    <3>2. l \in keys \/ ToCome(l)
      BY <3>1 DEF LocalInv, LocalPromise
    <3>3. ASSUME NEW e \in owed, Local!IsPrefix(e, l) PROVE e \in owed'
      BY <1>1, <3>1, <3>3, LocalKeyFacts
    <3> QED
      BY <1>1, <3>2, <3>3 DEF ToCome
  <2> QED
    BY <1>1, <2>1 DEF LocalInv, LocalPromise
<1>6. FoundOnce'
  BY <1>1 DEF LocalInv, FoundOnce, MayCome
<1> QED
  BY <1>3, <1>4, <1>5, <1>6 DEF LocalInv

LEMMA LocalListBeginsKeeps ==
  ASSUME NEW p \in LocalDirectories
  PROVE  LocalInv /\ Local!ListBegins(p) => LocalInv'
<1> SUFFICES ASSUME LocalInv, Local!ListBegins(p) PROVE LocalInv'
  OBVIOUS
<1>1. /\ call' = "listing" /\ since' = present \cap Local!Under(p) /\ ever' = present
      /\ stack' = <<p>> /\ p \in dirs /\ current' = Local!NoDir
      /\ owed' = {} /\ late' = {} /\ keys' = {} /\ twice' = {}
      /\ UNCHANGED <<present, dirs, faults>>
  BY DEF Local!ListBegins, Local!Begin
<1>2. p \in Paths /\ p # Local!NoDir
  BY <1>1, WalkFacts DEF LocalInv
<1>3. stack' \in Seq(Paths) /\ DOMAIN stack' = {1} /\ stack'[1] = p
  <2>1. stack' \in Seq(Paths) /\ Len(stack') = 1 /\ stack'[1] = p
    BY <1>1, <1>2, Singleton
  <2>2. DOMAIN stack' = 1..1
    BY <2>1, LenProperties
  <2> QED
    BY <2>1, <2>2
<1>4. WalkTypes'
  <2>1. Local!TypeOK'
    BY <1>1, <1>3 DEF LocalInv, WalkTypes, Local!TypeOK, Local!ToSet, Local!IsInjective
  <2> QED
    BY <1>1, <1>3, <2>1 DEF LocalInv, WalkTypes
<1>5. WalkInv'
  BY <1>1, <1>3 DEF WalkInv
<1>6. LocalPromise'
  <2>1. \A k \in since' : Local!IsPrefix(stack'[1], k)
    BY <1>1, <1>3 DEF Local!Under
  <2> QED
    BY <1>1, <1>3, <2>1 DEF LocalPromise, ToCome
<1>7. FoundOnce'
  BY <1>1 DEF FoundOnce
<1> QED
  BY <1>4, <1>5, <1>6, <1>7 DEF LocalInv

LEMMA ListsNothingKeeps ==
  ASSUME NEW p \in LocalDirectories
  PROVE  LocalInv /\ Local!ListsNothing(p) => LocalInv'
<1> SUFFICES ASSUME LocalInv, Local!ListsNothing(p) PROVE LocalInv'
  OBVIOUS
<1>1. /\ call # "listing" /\ call' = "listed" /\ since' = {} /\ ever' = {}
      /\ UNCHANGED <<present, dirs, stack, current, keys, twice, owed, late, faults>>
  BY DEF Local!ListsNothing, Local!walkVars
<1>2. WalkTypes'
  <2>1. Local!TypeOK'
    BY <1>1 DEF LocalInv, WalkTypes, Local!TypeOK, Local!ToSet, Local!IsInjective
  <2> QED
    BY <1>1, <2>1 DEF LocalInv, WalkTypes
<1>3. WalkInv'
  BY <1>1 DEF LocalInv, WalkInv, Apart
<1> QED
  BY <1>1, <1>2, <1>3 DEF LocalInv, LocalPromise, FoundOnce

\* Reading a directory owes, for each key below it, the entry towards that key.
LEMMA OpenDirKeeps == LocalInv /\ Local!OpenDir => LocalInv'
<1> SUFFICES ASSUME LocalInv, Local!OpenDir PROVE LocalInv'
  OBVIOUS
<1> DEFINE n == Len(stack)
<1>1. PICK d : d = stack[n]
  OBVIOUS
<1>2. /\ call = "listing" /\ current = Local!NoDir /\ stack # <<>>
      /\ current' = d /\ stack' = SubSeq(stack, 1, n - 1) /\ owed' = Local!Entries(d) /\ late' = {}
      /\ UNCHANGED <<present, since, ever, call, answer, dirs, keys, twice, faults>>
  BY <1>1 DEF Local!OpenDir, Local!Last, Local!Popped, Local!Front, Local!vars
<1>3. /\ stack \in Seq(Paths) /\ n \in Nat \ {0} /\ DOMAIN stack = 1..n
      /\ \A i \in 1..n : stack[i] \in dirs /\ stack[i] \in Paths
  BY <1>2, WalkFacts, EmptySeq DEF LocalInv, WalkTypes
<1>4. d \in dirs /\ d \in Paths /\ d # Local!NoDir
  BY <1>1, <1>3, WalkFacts DEF LocalInv
<1> HIDE DEF n
<1>5. /\ stack' \in Seq(Paths) /\ DOMAIN stack' = 1..n - 1
      /\ \A i \in 1..n - 1 : stack'[i] = stack[i] /\ i \in 1..n /\ i # n
  <2>1. n - 1 \in 0..n /\ \A i \in 1..n - 1 : i \in 1..n /\ i # n
    BY <1>3
  <2>2. SubSeq(stack, 1, n - 1) = [i \in 1..n - 1 |-> stack[i]]
    BY <1>3, <2>1, SubSeqRestrict DEF Restrict, n
  <2>3. stack' = [i \in 1..n - 1 |-> stack[i]]
    BY <1>2, <2>2
  <2>4. n - 1 \in Nat /\ \A i \in 1..n - 1 : stack[i] \in Paths
    BY <1>3, <2>1
  <2>5. stack' \in [1..n - 1 -> Paths]
    BY <2>3, <2>4
  <2>6. stack' \in Seq(Paths)
    BY <2>4, <2>5, SeqDef
  <2> QED
    BY <2>1, <2>3, <2>6
<1>6. \A i, j \in 1..n : i # j => ~Local!IsPrefix(stack[i], stack[j])
  BY <1>3 DEF LocalInv, WalkInv
<1>7. \A i \in 1..n - 1 : ~Local!IsPrefix(stack[i], d) /\ ~Local!IsPrefix(d, stack[i])
  <2>1. n \in 1..n
    BY <1>3
  <2> QED
    BY <1>1, <1>5, <1>6, <2>1 DEF n
<1>8. WalkTypes'
  <2>1. Local!ToSet(stack)' \subseteq dirs
    BY <1>3, <1>5 DEF Local!ToSet
  <2>2. Local!IsInjective(stack)'
    <3>1. Local!IsInjective(stack)
      BY DEF LocalInv, WalkTypes, Local!TypeOK
    <3> QED
      BY <3>1, <1>3, <1>5 DEF Local!IsInjective
  <2>3. d \notin Local!ToSet(stack)'
    BY <1>4, <1>5, <1>7, PathPrefixItself DEF Local!ToSet
  <2>4. Local!TypeOK'
    BY <1>2, <1>4, <2>1, <2>2, <2>3 DEF LocalInv, WalkTypes, Local!TypeOK
  <2> QED
    BY <1>2, <1>5, <2>4 DEF LocalInv, WalkTypes
<1>9. \A e \in owed' : /\ e \in present \cup dirs /\ e \in Paths
                       /\ Len(e) = Len(d) + 1 /\ Local!IsPrefix(d, e)
  BY <1>2, <1>4, WalkFacts DEF Local!Entries, LocalInv
<1>10. WalkInv'
  <2>1. \A i, j \in DOMAIN stack' : i # j => ~Local!IsPrefix(stack'[i], stack'[j])
    BY <1>5, <1>6
  <2>2. \A i \in DOMAIN stack' : ~Local!IsPrefix(stack'[i], current')
    BY <1>2, <1>5, <1>7
  <2>3. ASSUME NEW e \in owed', NEW i \in DOMAIN stack' PROVE Apart(stack'[i], e)
    <3>1. PICK s : s = stack'[i]
      OBVIOUS
    <3>2. s \in Paths /\ ~Local!IsPrefix(s, d) /\ ~Local!IsPrefix(d, s)
      BY <3>1, <1>3, <1>5, <1>7
    <3>3. e \in Paths /\ Len(e) = Len(d) + 1 /\ Local!IsPrefix(d, e)
      BY <1>9
    <3>4. Len(s) \in Nat /\ Len(d) \in Nat /\ Len(e) \in Nat
      BY <1>4, <3>2, <3>3, LenProperties DEF Paths
    <3>5. ~Local!IsPrefix(e, s)
      BY <1>4, <3>2, <3>3, PathPrefixTransitive
    <3>6. ~Local!IsPrefix(s, e)
      <4> SUFFICES ASSUME Local!IsPrefix(s, e) PROVE FALSE
        OBVIOUS
      <4>1. CASE Len(s) <= Len(d)
        BY <4>1, <1>4, <3>2, <3>3, PrefixesOfOnePath
      <4>2. CASE Len(d) <= Len(s)
        BY <4>2, <1>4, <3>2, <3>3, PrefixesOfOnePath
      <4> QED
        BY <4>1, <4>2, <3>4
    <3> QED
      BY <3>1, <3>5, <3>6 DEF Apart
  <2> QED
    BY <1>2, <1>9, <2>1, <2>2, <2>3 DEF WalkInv, Apart
<1>11. LocalPromise'
  <2>1. ASSUME NEW k \in since PROVE k \in keys \/ ToCome(k)'
    <3>1. k \in present /\ k \in Local!Keys /\ k \in Paths /\ (k \in keys \/ ToCome(k))
      BY <1>2, WalkFacts DEF LocalInv, LocalPromise
    <3>2. ASSUME NEW i \in 1..n, Local!IsPrefix(stack[i], k), i # n PROVE ToCome(k)'
      <4>1. i \in 1..n - 1
        BY <3>2, <1>3
      <4> QED
        BY <3>2, <4>1, <1>5 DEF ToCome
    <3>3. ASSUME Local!IsPrefix(d, k) PROVE ToCome(k)'
      <4>1. d # k
        BY <1>4, <3>1, WalkFacts DEF LocalInv
      <4>2. PICK e \in Paths :
              /\ Local!IsPrefix(d, e) /\ Local!IsPrefix(e, k) /\ Len(e) = Len(d) + 1
              /\ e = k \/ e \in Local!Parents(k)
        BY <1>4, <3>1, <3>3, <4>1, EntryToward
      <4>3. e \in present \cup dirs
        BY <3>1, <4>2 DEF LocalInv, WalkTypes, Local!TypeOK
      <4>4. e \in owed'
        BY <1>2, <4>2, <4>3 DEF Local!Entries
      <4> QED
        BY <1>2, <1>4, <4>2, <4>4 DEF ToCome
    <3>4. CASE k \in keys
      BY <3>4
    <3>5. CASE \E i \in 1..n : Local!IsPrefix(stack[i], k)
      BY <3>5, <3>2, <3>3, <1>1 DEF n
    <3> QED
      BY <3>1, <3>4, <3>5, <1>2, <1>3 DEF ToCome
  <2> QED
    BY <1>2, <2>1 DEF LocalInv, LocalPromise
<1>12. FoundOnce'
  <2>1. twice \cap since = {} /\ since \subseteq Local!Keys /\ Local!Keys \subseteq Paths
    BY <1>2, WalkFacts DEF LocalInv, FoundOnce
  <2>2. ASSUME NEW k \in keys \cap since PROVE ~MayCome(k)'
    <3>1. k \in Paths /\ \A i \in 1..n : ~Local!IsPrefix(stack[i], k)
      BY <1>2, <1>3, <2>1 DEF LocalInv, FoundOnce, MayCome
    <3>2. ~Local!IsPrefix(d, k)
      <4>1. n \in 1..n /\ d = stack[n]
        BY <1>1, <1>3 DEF n
      <4> QED
        BY <3>1, <4>1
    <3>3. \A e \in owed' : ~Local!IsPrefix(e, k)
      BY <1>4, <1>9, <3>1, <3>2, PathPrefixTransitive
    <3> QED
      BY <1>2, <1>5, <3>1, <3>3 DEF MayCome
  <2> QED
    BY <1>2, <2>1, <2>2 DEF FoundOnce
<1> QED
  BY <1>8, <1>10, <1>11, <1>12 DEF LocalInv

\* An entry is a directory to be walked or a file found.
LEMMA NextEntryKeeps == LocalInv /\ Local!NextEntry => LocalInv'
<1> SUFFICES ASSUME LocalInv, Local!NextEntry PROVE LocalInv'
  OBVIOUS
<1>1. PICK e \in owed \cup late :
        /\ IF e \in dirs
           THEN stack' = Append(stack, e) /\ UNCHANGED <<keys, twice>>
           ELSE keys' = keys \cup {e} /\ twice' = twice \cup ({e} \cap keys) /\ UNCHANGED stack
        /\ owed' = owed \ {e} /\ late' = late \ {e}
  BY DEF Local!NextEntry, Local!Pushed, Local!FileFound
<1>2. current # Local!NoDir /\ UNCHANGED <<present, since, ever, call, answer, dirs, current, faults>>
  BY DEF Local!NextEntry, Local!vars
<1>3. call = "listing" /\ current \in dirs /\ current \in Paths
  BY <1>2, WalkFacts DEF LocalInv
<1>5. since \subseteq present /\ present \subseteq ever /\ keys \subseteq ever
  BY <1>3 DEF LocalInv, LocalPromise
<1>6. /\ \A i, j \in DOMAIN stack : i # j => ~Local!IsPrefix(stack[i], stack[j])
      /\ \A i \in DOMAIN stack : ~Local!IsPrefix(stack[i], current)
      /\ \A f \in owed \cup late :
           /\ f \in present \cup dirs
           /\ f \in Paths /\ Len(f) = Len(current) + 1 /\ Local!IsPrefix(current, f)
           /\ \A i \in DOMAIN stack : Apart(stack[i], f)
  BY <1>2 DEF LocalInv, WalkInv
<1>4. e \in present \cup dirs /\ Len(e) = Len(current) + 1 /\ Local!IsPrefix(current, e)
  BY <1>6
<1>o. /\ twice \cap since = {}
      /\ \A k \in keys \cap since :
           /\ \A i \in DOMAIN stack : ~Local!IsPrefix(stack[i], k)
           /\ \A f \in owed \cup late : ~Local!IsPrefix(f, k)
  BY <1>2, <1>3 DEF LocalInv, FoundOnce, MayCome
<1>7. CASE e \in dirs
  <2>1. stack' = Append(stack, e) /\ keys' = keys /\ twice' = twice
    BY <1>1, <1>7
  <2>2. e \in Paths /\ e # Local!NoDir
    BY <1>1, <1>7, WalkFacts DEF LocalInv
  <2> DEFINE n == Len(stack)
  <2>3. /\ stack \in Seq(Paths) /\ n \in Nat /\ DOMAIN stack = 1..n
        /\ \A i \in 1..n : stack[i] \in dirs /\ stack[i] \in Paths
    BY WalkFacts DEF LocalInv, WalkTypes
  <2>4. /\ stack' \in Seq(Paths) /\ DOMAIN stack' = 1..n + 1
        /\ \A i \in 1..n : stack'[i] = stack[i]
        /\ stack'[n + 1] = e
    BY <2>1, <2>2, <2>3, AppendProperties, LenProperties
  <2> HIDE DEF n
  <2>5. \A i \in 1..n + 1 : i \in 1..n \/ i = n + 1
    BY <2>3
  <2>6. \A i \in 1..n : Apart(stack[i], e)
    BY <1>6, <2>2, <2>3
  <2>7. ~Local!IsPrefix(e, current)
    <3>1. Len(e) \in Nat /\ Len(current) \in Nat /\ ~(Len(e) <= Len(current))
      BY <1>3, <1>4, <2>2, LenProperties DEF Paths
    <3> QED
      BY <3>1, <1>3, <2>2, PathPrefix
  <2>8. WalkTypes'
    <3>1. Local!ToSet(stack)' \subseteq dirs
      BY <1>7, <2>3, <2>4, <2>5 DEF Local!ToSet
    <3>2. Local!IsInjective(stack)'
      <4>1. Local!IsInjective(stack)
        BY DEF LocalInv, WalkTypes, Local!TypeOK
      <4>2. \A i, j \in 1..n : stack[i] = stack[j] => i = j
        BY <2>3, <4>1 DEF Local!IsInjective
      <4>3. \A i \in 1..n : stack[i] # e
        BY <2>2, <2>6, PathPrefixItself DEF Apart
      <4> QED
        BY <2>4, <2>5, <4>2, <4>3 DEF Local!IsInjective
    <3>3. current \notin Local!ToSet(stack)'
      BY <1>3, <1>6, <2>3, <2>4, <2>5, <2>7, PathPrefixItself DEF Local!ToSet
    <3>4. Local!TypeOK'
      BY <1>2, <1>3, <2>1, <3>1, <3>2, <3>3 DEF LocalInv, WalkTypes, Local!TypeOK
    <3> QED
      BY <1>2, <2>4, <3>4 DEF LocalInv, WalkTypes
  <2>9. WalkInv'
    <3>1. ASSUME NEW i \in 1..n + 1, NEW j \in 1..n + 1, i # j
          PROVE  ~Local!IsPrefix(stack'[i], stack'[j])
      <4>1. CASE i \in 1..n /\ j \in 1..n
        BY <3>1, <4>1, <1>6, <2>3, <2>4
      <4>2. CASE i \in 1..n /\ j = n + 1
        BY <4>2, <2>4, <2>6 DEF Apart
      <4>3. CASE i = n + 1 /\ j \in 1..n
        BY <4>3, <2>4, <2>6 DEF Apart
      <4> QED
        BY <3>1, <4>1, <4>2, <4>3, <2>5
    <3>2. \A i \in 1..n + 1 : ~Local!IsPrefix(stack'[i], current)
      BY <1>6, <2>3, <2>4, <2>5, <2>7
    <3>3. ASSUME NEW f \in owed' \cup late', NEW i \in 1..n + 1 PROVE Apart(stack'[i], f)
      <4>1. f \in owed \cup late /\ f # e /\ f \in Paths /\ Len(f) = Len(e)
        BY <1>1, <1>4, <1>6
      <4>2. CASE i \in 1..n
        BY <4>1, <4>2, <1>6, <2>3, <2>4
      <4>3. CASE i = n + 1
        <5>1. Len(e) \in Nat /\ Len(e) >= Len(f) /\ Len(f) >= Len(e)
          BY <2>2, <4>1, LenProperties DEF Paths
        <5>2. Apart(e, f)
          BY <2>2, <4>1, <5>1, PathPrefixAsLong DEF Apart
        <5> QED
          BY <4>3, <5>2, <2>4
      <4> QED
        BY <4>2, <4>3, <2>5
    <3>4. \A f \in owed' \cup late' : /\ f \in present \cup dirs /\ f \in Paths
                                    /\ Len(f) = Len(current) + 1 /\ Local!IsPrefix(current, f)
      BY <1>1, <1>6
    <3> QED
      BY <1>2, <2>4, <3>1, <3>2, <3>3, <3>4 DEF WalkInv, Apart
  <2>10. LocalPromise'
    <3>1. ASSUME NEW k \in since PROVE k \in keys \/ ToCome(k)'
      <4>1. k \in keys \/ ToCome(k)
        BY <1>3 DEF LocalInv, LocalPromise
      <4>2. ASSUME NEW i \in 1..n, Local!IsPrefix(stack[i], k) PROVE ToCome(k)'
        <5>1. i \in DOMAIN stack' /\ stack'[i] = stack[i]
          BY <2>3, <2>4
        <5> QED
          BY <4>2, <5>1 DEF ToCome
      <4>3. ASSUME Local!IsPrefix(e, k) PROVE ToCome(k)'
        <5>1. n + 1 \in DOMAIN stack' /\ stack'[n + 1] = e
          BY <2>3, <2>4
        <5> QED
          BY <4>3, <5>1 DEF ToCome
      <4>4. ASSUME NEW f \in owed, Local!IsPrefix(f, k), f # e PROVE ToCome(k)'
        BY <1>1, <1>2, <4>4 DEF ToCome
      <4> QED
        BY <4>1, <4>2, <4>3, <4>4, <2>3 DEF ToCome
    <3> QED
      BY <1>2, <1>5, <2>1, <3>1 DEF LocalPromise
  <2>11. FoundOnce'
    <3>1. ASSUME NEW k \in keys \cap since PROVE ~MayCome(k)'
      <4>1. \A i \in 1..n + 1 : ~Local!IsPrefix(stack'[i], k)
        BY <1>o, <2>3, <2>4, <2>5
      <4> QED
        BY <1>1, <1>o, <2>4, <4>1 DEF MayCome
    <3> QED
      BY <1>2, <1>o, <2>1, <3>1 DEF FoundOnce
  <2> QED
    BY <2>8, <2>9, <2>10, <2>11 DEF LocalInv
<1>8. CASE e \notin dirs
  <2>1. /\ keys' = keys \cup {e} /\ twice' = twice \cup ({e} \cap keys)
        /\ stack' = stack /\ e \in present /\ e \in Local!Keys /\ e \in Paths
    BY <1>1, <1>4, <1>8, WalkFacts DEF LocalInv
  <2>2. WalkTypes'
    <3>1. Local!TypeOK'
      BY <1>2, <2>1 DEF LocalInv, WalkTypes, Local!TypeOK, Local!ToSet, Local!IsInjective
    <3> QED
      BY <1>2, <2>1, <3>1 DEF LocalInv, WalkTypes
  <2>3. WalkInv'
    <3>1. \A f \in owed' \cup late' : f \in owed \cup late
      BY <1>1
    <3> QED
      BY <1>2, <1>6, <2>1, <3>1 DEF WalkInv, Apart
  <2>4. LocalPromise'
    <3>1. ASSUME NEW k \in since PROVE k \in keys' \/ ToCome(k)'
      <4>1. (k \in keys \/ ToCome(k)) /\ k \in Local!Keys
        BY <1>3, WalkFacts DEF LocalInv, LocalPromise
      <4>2. ASSUME NEW f \in owed, Local!IsPrefix(f, k) PROVE k \in keys' \/ f \in owed'
        BY <1>1, <2>1, <4>1, <4>2, LocalKeyFacts
      <4> QED
        BY <1>2, <2>1, <4>1, <4>2 DEF ToCome
    <3> QED
      BY <1>2, <1>5, <2>1, <3>1 DEF LocalPromise
  <2>5. FoundOnce'
    <3>1. twice' \cap since = {}
      <4> SUFFICES ASSUME e \in keys, e \in since PROVE FALSE
        BY <1>o, <2>1
      <4> QED
        BY <1>o, <2>1, PathPrefixItself
    <3>2. ASSUME NEW k \in keys' \cap since PROVE ~MayCome(k)'
      <4>1. CASE k \in keys
        BY <1>1, <1>o, <2>1, <4>1 DEF MayCome
      <4>2. CASE k = e
        <5>1. \A i \in DOMAIN stack : ~Local!IsPrefix(stack[i], e)
          BY <1>6 DEF Apart
        <5>2. ASSUME NEW f \in owed' \cup late' PROVE ~Local!IsPrefix(f, e)
          <6>1. f \in Paths /\ f # e /\ Len(f) = Len(e)
            BY <1>1, <1>4, <1>6
          <6>2. Len(e) \in Nat /\ Len(f) >= Len(e)
            BY <2>1, <6>1, LenProperties DEF Paths
          <6> QED
            BY <2>1, <6>1, <6>2, PathPrefixAsLong
        <5> QED
          BY <2>1, <4>2, <5>1, <5>2 DEF MayCome
      <4> QED
        BY <2>1, <4>1, <4>2
    <3> QED
      BY <1>2, <3>1, <3>2 DEF FoundOnce
  <2> QED
    BY <2>2, <2>3, <2>4, <2>5 DEF LocalInv
<1> QED
  BY <1>7, <1>8

LEMMA CloseDirKeeps == LocalInv /\ Local!CloseDir => LocalInv'
<1> SUFFICES ASSUME LocalInv, Local!CloseDir PROVE LocalInv'
  OBVIOUS
<1>1. /\ owed = {} /\ current' = Local!NoDir
      /\ UNCHANGED <<present, since, ever, call, answer, dirs, stack, owed, keys, twice, faults>>
  BY DEF Local!CloseDir, Local!vars
<1>2. WalkTypes'
  <2>1. Local!TypeOK'
    BY <1>1 DEF LocalInv, WalkTypes, Local!TypeOK, Local!ToSet, Local!IsInjective
  <2> QED
    BY <1>1, <2>1 DEF LocalInv, WalkTypes
<1>3. WalkInv'
  BY <1>1 DEF LocalInv, WalkInv
<1>4. LocalPromise'
  BY <1>1 DEF LocalInv, LocalPromise, ToCome
<1>5. FoundOnce'
  BY <1>1 DEF LocalInv, FoundOnce, MayCome
<1> QED
  BY <1>2, <1>3, <1>4, <1>5 DEF LocalInv

LEMMA ListReturnsKeeps == LocalInv /\ Local!ListReturns => LocalInv'
<1> SUFFICES ASSUME LocalInv, Local!ListReturns PROVE LocalInv'
  OBVIOUS
<1>1. /\ call' = "listed" /\ current = Local!NoDir /\ stack = <<>>
      /\ UNCHANGED <<present, since, ever, dirs, stack, current, owed, late, keys, twice, faults>>
  BY DEF Local!ListReturns, Local!walkVars, Local!NothingLeft
<1>2. WalkTypes'
  <2>1. Local!TypeOK'
    BY <1>1 DEF LocalInv, WalkTypes, Local!TypeOK, Local!ToSet, Local!IsInjective
  <2> QED
    BY <1>1, <2>1 DEF LocalInv, WalkTypes
<1>3. WalkInv'
  BY <1>1 DEF LocalInv, WalkInv, Apart
<1> QED
  BY <1>1, <1>2, <1>3 DEF LocalInv, LocalPromise, FoundOnce

LEMMA ReadFailsKeeps == LocalInv /\ Local!ReadFails => LocalInv'
<1> SUFFICES ASSUME LocalInv, Local!ReadFails PROVE LocalInv'
  OBVIOUS
<1>1. /\ call' = "failed" /\ stack' = <<>> /\ current' = Local!NoDir
      /\ UNCHANGED <<present, since, ever, answer, dirs, keys, twice>>
  BY DEF Local!ReadFails
<1>2. faults' \in 0..MaxFaults
  BY BoundsAssumption DEF Local!ReadFails, Local!Fault, LocalInv, WalkTypes, Local!TypeOK
<1>3. stack' \in Seq(Paths) /\ DOMAIN stack' = {}
  BY <1>1, EmptySeq
<1>4. WalkTypes'
  <2>1. Local!TypeOK'
    BY <1>1, <1>2, <1>3 DEF LocalInv, WalkTypes, Local!TypeOK, Local!ToSet, Local!IsInjective
  <2> QED
    BY <1>1, <1>3, <2>1 DEF LocalInv, WalkTypes
<1>5. WalkInv'
  BY <1>1, <1>3 DEF WalkInv
<1> QED
  BY <1>1, <1>4, <1>5 DEF LocalInv, LocalPromise, FoundOnce

localVars == <<storeVars, walkVars>>

LEMMA LocalStart == Local!LocalInit => LocalInv
<1> SUFFICES ASSUME Local!LocalInit PROVE LocalInv
  OBVIOUS
<1> USE DEF Local!LocalInit, Local!Init
<1>1. stack \in Seq(Paths) /\ DOMAIN stack = {}
  BY EmptySeq
<1>2. dirs = UNION {Local!Parents(k) : k \in present} /\ present \subseteq Local!Keys
  OBVIOUS
<1>3. \A k \in present : Local!Parents(k) \subseteq dirs
  BY <1>2
<1>4. dirs \subseteq UNION {Local!Parents(k) : k \in Local!Keys}
  BY <1>2
<1>5. Local!TypeOK
  BY <1>1, <1>2, <1>3, BoundsAssumption DEF Local!TypeOK, Local!ToSet, Local!IsInjective
<1>6. ASSUME NEW d \in dirs, NEW e \in Paths, Local!IsPrefix(e, d) PROVE e \in dirs
  <2>1. PICK k \in present : d \in Local!Parents(k)
    BY <1>2
  <2>2. e \in Local!Parents(k)
    BY <1>2, <1>6, <2>1, ParentsClosed
  <2> QED
    BY <1>3, <2>2
<1> QED
  BY <1>1, <1>4, <1>5, <1>6 DEF LocalInv, WalkTypes, WalkInv, LocalPromise, FoundOnce

LEMMA LocalStep == LocalInv /\ (Local!LocalNext \/ UNCHANGED localVars) => LocalInv'
<1> SUFFICES ASSUME LocalInv, Local!LocalNext \/ UNCHANGED localVars PROVE LocalInv'
  OBVIOUS
<1>1. CASE UNCHANGED localVars
  <2>1. UNCHANGED <<present, since, ever, call, answer, keys, faults, dirs, stack, current, owed,
                    late, twice>>
    BY <1>1 DEF localVars, storeVars, walkVars
  <2>2. WalkTypes'
    <3>1. Local!TypeOK'
      BY <2>1 DEF LocalInv, WalkTypes, Local!TypeOK, Local!ToSet, Local!IsInjective
    <3> QED
      BY <2>1, <3>1 DEF LocalInv, WalkTypes
  <2>3. WalkInv'
    BY <2>1 DEF LocalInv, WalkInv, Apart
  <2>4. LocalPromise' /\ FoundOnce'
    BY <2>1 DEF LocalInv, LocalPromise, FoundOnce, ToCome, MayCome
  <2> QED
    BY <2>2, <2>3, <2>4 DEF LocalInv
<1>2. CASE Local!LocalNext
  <2>1. ASSUME NEW k \in Local!Keys, Local!CreateDirs(k) \/ Local!WriteFile(k) \/ Local!RemoveFile(k)
        PROVE  LocalInv'
    BY <2>1, CreateDirsKeeps, WriteFileKeeps, RemoveFileKeeps
  <2>2. ASSUME NEW p \in LocalDirectories, Local!ListBegins(p) \/ Local!ListsNothing(p)
        PROVE  LocalInv'
    BY <2>2, LocalListBeginsKeeps, ListsNothingKeeps
  <2>3. CASE Local!Walk
    BY <2>3, OpenDirKeeps, NextEntryKeeps, CloseDirKeeps, ListReturnsKeeps DEF Local!Walk
  <2> QED
    BY <1>2, <2>1, <2>2, <2>3, ReadFailsKeeps DEF Local!LocalNext
<1> QED
  BY <1>1, <1>2

\* Each step of the walk is a step of the abstract store, or none.
LEMMA LocalKeeps == LocalInv /\ Local!LocalNext => [Local!KeepsPromise]_Local!vars
<1> SUFFICES ASSUME LocalInv, Local!LocalNext PROVE [Local!KeepsPromise]_Local!vars
  OBVIOUS
<1>1. ASSUME NEW k \in Local!Keys, Local!CreateDirs(k) \/ Local!WriteFile(k) \/ Local!RemoveFile(k)
      PROVE  [Local!KeepsPromise]_Local!vars
  BY <1>1 DEF Local!CreateDirs, Local!WriteFile, Local!RemoveFile, Local!KeepsPromise, Local!Next
<1>2. ASSUME NEW p \in LocalDirectories, Local!ListBegins(p) \/ Local!ListsNothing(p)
      PROVE  [Local!KeepsPromise]_Local!vars
  BY <1>2 DEF Local!ListBegins, Local!KeepsPromise, Local!Next
<1>3. CASE Local!OpenDir \/ Local!NextEntry \/ Local!CloseDir
  BY <1>3 DEF Local!OpenDir, Local!NextEntry, Local!CloseDir
<1>4. CASE Local!ListReturns
  <2>1. /\ call = "listing" /\ call' = "listed" /\ current = Local!NoDir /\ stack = <<>>
        /\ answer' \in Local!Found /\ UNCHANGED <<present, since, ever>>
    BY <1>4 DEF Local!ListReturns, Local!NothingLeft
  <2>2. keys \subseteq Local!Keys /\ twice \subseteq keys /\ keys \subseteq ever
    BY <2>1 DEF LocalInv, WalkTypes, Local!TypeOK, LocalPromise
  <2>3. since \subseteq keys /\ twice \cap since = {}
    BY <2>1 DEF LocalInv, LocalPromise, FoundOnce, ToCome
  <2>4. /\ answer' \in Seq(ever)
        /\ since \subseteq Local!Range(answer')
        /\ Local!InOrder(answer') /\ Local!Once(answer', since)
    <3>1. /\ answer' \in [1..Cardinality(keys) + Cardinality(twice) -> keys]
          /\ Local!InOrder(answer') /\ Local!Once(answer', keys \ twice)
          /\ Local!Range(answer') = keys
      <4>1. \A S : Local!Cardinality(S) = Cardinality(S)
        BY DEF Local!Cardinality, Cardinality
      <4> QED
        BY <2>1, <4>1 DEF Local!Found
    <3>2. IsFiniteSet(keys) /\ IsFiniteSet(twice)
      <4>1. PICK n \in Nat : DOMAIN LocalOrder = 1..n
        BY KeysAssumption, LenProperties
      <4>2. Local!Keys = {LocalOrder[i] : i \in 1..n}
        BY <4>1 DEF Local!Keys, Local!Range
      <4>3. LocalOrder \in Surjection(1..n, Local!Keys)
        <5>1. LocalOrder \in [1..n -> Local!Keys]
          BY <4>1, <4>2, KeysAssumption, SeqDef
        <5> QED
          BY <4>2, <5>1 DEF Surjection
      <4>4. IsFiniteSet(Local!Keys)
        <5>1. IsFiniteSet(1..n)
          BY FS_Interval
        <5> QED
          BY ONLY <4>3, <5>1, FS_Surjection
      <4> QED
        BY <2>2, <4>4, FS_Subset
    <3>3. Cardinality(keys) + Cardinality(twice) \in Nat
      BY <3>2, FS_CardinalityType
    <3>4. answer' \in Seq(keys)
      BY <3>1, <3>3, SeqDef
    <3>5. answer' \in Seq(ever)
      BY <2>2, <3>4, SeqMonotonic
    <3>6. Local!Once(answer', since)
      BY <2>3, <3>1 DEF Local!Once
    <3> QED
      BY <2>3, <3>1, <3>5, <3>6
  <2>5. Local!Return
    BY <2>1, <2>4 DEF Local!Return
  <2> QED
    BY <2>5 DEF Local!KeepsPromise, Local!Next
<1>5. CASE Local!ReadFails
  <2>1. Local!Fail
    BY <1>5 DEF Local!ReadFails, Local!Fail
  <2> QED
    BY <2>1 DEF Local!KeepsPromise, Local!Next
<1> QED
  BY <1>1, <1>2, <1>3, <1>4, <1>5 DEF Local!LocalNext, Local!Walk

-----------------------------------------------------------------------------
(***************************************************************************)
(* The paged listing of the bucket.  The keys collected ascend and lie at  *)
(* or before the token; of those there all along, so do no others.         *)
(***************************************************************************)
RankOf(k) == Bucket!Rank(k)

CollectedInv ==
  \A i, j \in DOMAIN keys : i < j => RankOf(keys[i]) < RankOf(keys[j])

BucketPromise ==
  call = "listing" =>
    /\ since \subseteq present \cap Bucket!Under(prefix) /\ present \subseteq ever
    /\ \A i \in DOMAIN keys : keys[i] \in ever /\ RankOf(keys[i]) <= token
    /\ \A k \in since : RankOf(k) <= token => k \in Range(keys)

BucketInv == Bucket!TypeOK /\ CollectedInv /\ BucketPromise

LEMMA OrderFacts ==
  /\ Len(S3Order) \in Nat
  /\ \A k \in Bucket!Keys : RankOf(k) \in 1..Len(S3Order)
  /\ \A k, l \in Bucket!Keys : RankOf(k) = RankOf(l) => k = l
<1>1. Len(S3Order) \in Nat /\ DOMAIN S3Order = 1..Len(S3Order)
  BY KeysAssumption, LenProperties
<1>2. ASSUME NEW k \in Bucket!Keys
      PROVE  RankOf(k) \in 1..Len(S3Order) /\ S3Order[RankOf(k)] = k
  <2>1. \E i \in DOMAIN S3Order : S3Order[i] = k
    BY DEF Bucket!Keys, Bucket!Range
  <2> QED
    BY <1>1, <2>1 DEF RankOf, Bucket!Rank
<1> QED
  BY <1>1, <1>2

\* What is below a prefix are keys.
LEMMA UnderFacts ==
  ASSUME NEW p, NEW s \in Seq(Bucket!Under(p))
  PROVE  /\ Len(s) \in Nat /\ DOMAIN s = 1..Len(s)
         /\ \A i \in 1..Len(s) : /\ s[i] \in Bucket!Under(p) /\ s[i] \in Bucket!Keys
                                 /\ RankOf(s[i]) \in 1..Len(S3Order)
<1>1. Len(s) \in Nat /\ DOMAIN s = 1..Len(s) /\ \A i \in 1..Len(s) : s[i] \in Bucket!Under(p)
  BY LenProperties, ElementOfSeq
<1> QED
  BY <1>1, OrderFacts DEF Bucket!Under

\* There are no more keys in ascending order than there are keys.
LEMMA AscendingIsShort ==
  ASSUME NEW p, NEW s \in Seq(Bucket!Under(p)),
         \A i, j \in DOMAIN s : i < j => RankOf(s[i]) < RankOf(s[j])
  PROVE  Len(s) <= Len(S3Order)
<1>1. PICK m \in Nat, n \in Nat :
        /\ m = Len(s) /\ DOMAIN s = 1..m /\ n = Len(S3Order)
        /\ \A i \in 1..m : RankOf(s[i]) \in 1..n
  BY UnderFacts, OrderFacts
<1>2. PICK f : f = [i \in 1..m |-> RankOf(s[i])]
  OBVIOUS
<1>3. f \in [1..m -> 1..n]
  BY <1>1, <1>2
<1>4. ASSUME NEW i \in 1..m, NEW j \in 1..m, f[i] = f[j] PROVE i = j
  <2>1. f[i] \in Int /\ ~(f[i] < f[j]) /\ ~(f[j] < f[i])
    BY <1>3, <1>4
  <2>2. i < j => f[i] < f[j]
    BY <1>1, <1>2
  <2>3. j < i => f[j] < f[i]
    BY <1>1, <1>2
  <2> QED
    BY <2>1, <2>2, <2>3
<1>5. f \in Injection(1..m, 1..n)
  BY <1>3, <1>4 DEF Injection, IsInjective
<1>6. Cardinality(1..m) <= Cardinality(1..n)
  <2>1. IsFiniteSet(1..n)
    BY FS_Interval
  <2> QED
    BY ONLY <1>5, <2>1, FS_Injection
<1>7. Cardinality(1..m) = m /\ Cardinality(1..n) = n
  BY FS_Interval
<1> QED
  BY <1>1, <1>6, <1>7

\* A page behind what is collected, above all of it.
LEMMA PageCollected ==
  ASSUME BucketInv, call = "listing",
         NEW S, S \subseteq Bucket!Left, NEW page, Bucket!IsListing(page, S),
         NEW both, both = Bucket!Collected(page)
  PROVE  /\ both \in Seq(Bucket!Under(prefix))
         /\ \A i, j \in DOMAIN both : i < j => RankOf(both[i]) < RankOf(both[j])
         /\ Range(both) = Range(keys) \cup S
         /\ S # {} => Len(both) # 0
         /\ S # {} => both[Len(both)] = page[Len(page)]
         /\ S # {} => page[Len(page)] \in S
         /\ S \subseteq ever
<1>1. keys \in Seq(Bucket!Under(prefix)) /\ token \in 0..Len(S3Order)
  BY DEF BucketInv, Bucket!TypeOK
<1>2. S \subseteq Bucket!Under(prefix) /\ S \subseteq present /\ present \subseteq ever
      /\ \A k \in S : RankOf(k) > token
  BY DEF Bucket!Left, BucketInv, BucketPromise, RankOf
<1>3. page \in Seq(S) /\ Range(page) = S
      /\ \A i, j \in DOMAIN page : i < j => RankOf(page[i]) < RankOf(page[j])
  BY DEF Bucket!IsListing, RankOf, Bucket!Range, Range
<1>4. page \in Seq(Bucket!Under(prefix))
  BY <1>2, <1>3, SeqMonotonic
<1>5. PICK m, n : m = Len(keys) /\ n = Len(page)
  OBVIOUS
<1>6. /\ m \in Nat /\ DOMAIN keys = 1..m
      /\ \A i \in 1..m : RankOf(keys[i]) \in Nat /\ RankOf(keys[i]) <= token
  BY <1>1, <1>5, UnderFacts DEF BucketInv, BucketPromise
<1>7. /\ n \in Nat /\ DOMAIN page = 1..n
      /\ \A i \in 1..n : RankOf(page[i]) \in Nat /\ page[i] \in S /\ RankOf(page[i]) > token
  <2>1. n \in Nat /\ DOMAIN page = 1..n /\ \A i \in 1..n : RankOf(page[i]) \in Nat
    BY <1>4, <1>5, UnderFacts
  <2> QED
    BY <1>2, <1>3, <1>5, <2>1, ElementOfSeq
<1>8. /\ both \in Seq(Bucket!Under(prefix)) /\ Len(both) = m + n
      /\ \A i \in 1..m + n : both[i] = IF i <= m THEN keys[i] ELSE page[i - m]
  BY <1>1, <1>4, <1>5, ConcatProperties DEF Bucket!Collected
<1>9. DOMAIN both = 1..m + n
  BY <1>8, LenProperties
<1>10. ASSUME NEW i \in 1..m + n, NEW j \in 1..m + n, i < j PROVE RankOf(both[i]) < RankOf(both[j])
  <2>1. CASE j <= m
    <3>1. i \in 1..m /\ j \in 1..m /\ i <= m
      BY <1>6, <1>7, <1>10, <2>1
    <3>2. RankOf(keys[i]) < RankOf(keys[j])
      BY <1>6, <1>10, <3>1 DEF BucketInv, CollectedInv
    <3> QED
      BY <1>8, <2>1, <3>1, <3>2
  <2>2. CASE i <= m /\ ~(j <= m)
    <3>1. i \in 1..m /\ j - m \in 1..n
      BY <1>6, <1>7, <2>2
    <3>2. /\ RankOf(keys[i]) \in Nat /\ RankOf(keys[i]) <= token
          /\ RankOf(page[j - m]) \in Nat /\ RankOf(page[j - m]) > token
      BY <1>6, <1>7, <3>1
    <3>3. RankOf(keys[i]) < RankOf(page[j - m])
      BY <1>1, <3>2
    <3> QED
      BY <1>8, <2>2, <3>3
  <2>3. CASE ~(i <= m)
    <3>1. i - m \in 1..n /\ j - m \in 1..n /\ i - m < j - m /\ ~(j <= m)
      BY <1>6, <1>7, <1>10, <2>3
    <3>2. RankOf(page[i - m]) < RankOf(page[j - m])
      BY <1>3, <1>7, <3>1
    <3> QED
      BY <1>8, <2>3, <3>1, <3>2
  <2> QED
    BY <2>1, <2>2, <2>3, <1>6, <1>7
<1>11. Range(both) = Range(keys) \cup S
  BY <1>1, <1>3, <1>4, RangeConcatenation DEF Bucket!Collected
<1>12. ASSUME S # {}
       PROVE  Len(both) # 0 /\ both[Len(both)] = page[n] /\ page[n] \in S
  <2>1. n \in Nat \ {0}
    <3>1. page # <<>>
      BY <1>3, <1>12 DEF Range
    <3> QED
      BY <1>3, <1>5, <3>1, EmptySeq
  <2>2. PICK q \in Nat : q = m + n
    BY <1>6, <1>7
  <2>3. q \in 1..m + n /\ ~(q <= m) /\ q - m = n /\ n \in 1..n /\ q # 0
    BY <2>1, <2>2, <1>6
  <2>4. both[q] = page[q - m]
    BY <1>8, <2>3
  <2>5. both[q] = page[n] /\ page[n] \in S
    BY <1>7, <2>3, <2>4
  <2>6. Len(both) = q
    BY <1>8, <2>2
  <2> QED
    BY <2>3, <2>5, <2>6
<1> QED
  BY <1>2, <1>5, <1>8, <1>9, <1>10, <1>11, <1>12

LEMMA BucketStart == Bucket!S3Init => BucketInv
<1> SUFFICES ASSUME Bucket!S3Init PROVE BucketInv
  OBVIOUS
<1> USE DEF Bucket!S3Init, Bucket!Init
<1>1. keys \in Seq(Bucket!Under(prefix)) /\ DOMAIN keys = {} /\ Len(keys) = 0
  BY EmptySeq
<1>2. 0 \in 0..Len(S3Order) /\ 0 <= Len(S3Order) /\ 0 \in 0..MaxFaults /\ ~(0 > 0)
  BY OrderFacts, BoundsAssumption
<1>3. Bucket!TypeOK
  BY <1>1, <1>2 DEF Bucket!TypeOK
<1> QED
  BY <1>1, <1>3 DEF BucketInv, CollectedInv, BucketPromise

LEMMA S3PutKeeps == ASSUME NEW k \in Bucket!Keys PROVE BucketInv /\ Bucket!S3Put(k) => BucketInv'
<1> SUFFICES ASSUME BucketInv, Bucket!S3Put(k) PROVE BucketInv'
  OBVIOUS
<1>1. /\ present' = present \cup {k} /\ ever' = IF call = "listing" THEN ever \cup {k} ELSE ever
      /\ UNCHANGED <<since, call, answer, prefix, token, keys>>
  BY DEF Bucket!S3Put, Bucket!Put
<1>2. faults' \in 0..MaxFaults
  BY BoundsAssumption DEF Bucket!S3Put, Bucket!Fault, BucketInv, Bucket!TypeOK
<1>3. Bucket!TypeOK'
  BY <1>1, <1>2 DEF BucketInv, Bucket!TypeOK
<1>4. BucketPromise'
  BY <1>1 DEF BucketInv, BucketPromise, RankOf
<1> QED
  BY <1>1, <1>3, <1>4 DEF BucketInv, CollectedInv, RankOf

LEMMA S3DeleteKeeps == ASSUME NEW k \in Bucket!Keys PROVE BucketInv /\ Bucket!S3Delete(k) => BucketInv'
<1> SUFFICES ASSUME BucketInv, Bucket!S3Delete(k) PROVE BucketInv'
  OBVIOUS
<1>1. /\ present' = present \ {k} /\ since' = since \ {k}
      /\ UNCHANGED <<ever, call, answer, prefix, token, keys>>
  BY DEF Bucket!S3Delete, Bucket!Delete
<1>2. faults' \in 0..MaxFaults
  BY BoundsAssumption DEF Bucket!S3Delete, Bucket!Fault, BucketInv, Bucket!TypeOK
<1>3. Bucket!TypeOK'
  BY <1>1, <1>2 DEF BucketInv, Bucket!TypeOK
<1>4. BucketPromise'
  BY <1>1 DEF BucketInv, BucketPromise, RankOf
<1> QED
  BY <1>1, <1>3, <1>4 DEF BucketInv, CollectedInv, RankOf

LEMMA S3ListBeginsKeeps ==
  ASSUME NEW p \in S3Directories
  PROVE  BucketInv /\ Bucket!ListBegins(p) => BucketInv'
<1> SUFFICES ASSUME BucketInv, Bucket!ListBegins(p) PROVE BucketInv'
  OBVIOUS
<1>1. /\ call' = "listing" /\ since' = present \cap Bucket!Under(p) /\ ever' = present
      /\ prefix' = p /\ token' = 0 /\ keys' = <<>>
      /\ UNCHANGED <<present, faults>>
  BY DEF Bucket!ListBegins, Bucket!Begin
<1>2. keys' \in Seq(Bucket!Under(p)) /\ DOMAIN keys' = {} /\ Len(keys') = 0
  BY <1>1, EmptySeq
<1>3. 0 \in 0..Len(S3Order) /\ 0 <= Len(S3Order) /\ ~(0 > 0)
  BY OrderFacts
<1>4. Bucket!TypeOK'
  BY <1>1, <1>2, <1>3 DEF BucketInv, Bucket!TypeOK
<1>5. \A k \in since' : ~(RankOf(k) <= 0)
  BY <1>1, OrderFacts DEF Bucket!Under
<1>6. BucketPromise'
  BY <1>1, <1>2, <1>5 DEF BucketPromise, RankOf
<1> QED
  BY <1>2, <1>4, <1>6 DEF BucketInv, CollectedInv

LEMMA NextPageKeeps == BucketInv /\ Bucket!NextPage => BucketInv'
<1> SUFFICES ASSUME BucketInv, Bucket!NextPage PROVE BucketInv'
  OBVIOUS
<1>1. call = "listing" /\ Bucket!Truncated /\ UNCHANGED <<present, since, ever, call, answer, prefix, faults>>
  BY DEF Bucket!NextPage
<1>2. PICK S, page :
        /\ S \in SUBSET Bucket!Left
        /\ Bucket!IsPageOf(S) /\ Bucket!IsListing(page, S)
        /\ keys' = Bucket!Collected(page) /\ token' = RankOf(page[Len(page)])
  BY DEF Bucket!NextPage, Bucket!Pages, Bucket!Listings, Bucket!Advance, Bucket!NextToken, Bucket!Last, RankOf
<1>3. S # {}
  BY <1>1, <1>2, FS_EmptySet, BoundsAssumption
     DEF Bucket!IsPageOf, Bucket!Cardinality, Cardinality
<1>4. PICK both : both = Bucket!Collected(page)
  OBVIOUS
<1>5. /\ both \in Seq(Bucket!Under(prefix))
      /\ \A i, j \in DOMAIN both : i < j => RankOf(both[i]) < RankOf(both[j])
      /\ Range(both) = Range(keys) \cup S
      /\ Len(both) # 0 /\ both[Len(both)] = page[Len(page)] /\ page[Len(page)] \in S
      /\ S \subseteq ever
  <2>1. call = "listing" /\ S \subseteq Bucket!Left /\ Bucket!IsListing(page, S) /\ S # {}
    BY <1>1, <1>2, <1>3
  <2>2. \A i, j \in DOMAIN both : i < j => RankOf(both[i]) < RankOf(both[j])
    BY <2>1, <1>4, PageCollected
  <2>3. both \in Seq(Bucket!Under(prefix)) /\ Range(both) = Range(keys) \cup S /\ S \subseteq ever
    BY <2>1, <1>4, PageCollected
  <2>4. Len(both) # 0
    BY <2>1, <1>4, PageCollected
  <2>5. both[Len(both)] = page[Len(page)]
    BY <2>1, <1>4, PageCollected
  <2>6. page[Len(page)] \in S
    BY <2>1, <1>4, PageCollected
  <2> QED
    BY <2>2, <2>3, <2>4, <2>5, <2>6
<1>6. keys' = both /\ token' = RankOf(both[Len(both)])
  BY <1>2, <1>4, <1>5
<1>7. /\ Len(both) \in Nat \ {0} /\ DOMAIN both = 1..Len(both)
      /\ \A i \in 1..Len(both) : RankOf(both[i]) \in 1..Len(S3Order)
  BY <1>5, UnderFacts
<1>8. token' \in 1..Len(S3Order)
  BY <1>6, <1>7
<1>9. Bucket!TypeOK'
  <2>1. Len(both) <= Len(S3Order)
    BY <1>5, AscendingIsShort
  <2>2. Bucket!Rank(Bucket!Last(keys))' = token'
    BY <1>6 DEF RankOf, Bucket!Last
  <2>3. token' \in 0..Len(S3Order)
    BY <1>8, OrderFacts
  <2> QED
    BY <1>1, <1>5, <1>6, <2>1, <2>2, <2>3 DEF BucketInv, Bucket!TypeOK
<1>10. CollectedInv'
  BY <1>5, <1>6 DEF CollectedInv, RankOf
<1>11. BucketPromise'
  <2>1. /\ since \subseteq present \cap Bucket!Under(prefix) /\ present \subseteq ever
        /\ \A i \in DOMAIN keys : keys[i] \in ever
        /\ \A k \in since : RankOf(k) <= token => k \in Range(keys)
    BY <1>1 DEF BucketInv, BucketPromise
  <2>2. Range(keys) \subseteq ever
    BY <2>1 DEF Range
  <2>3. \A i \in DOMAIN both : both[i] \in ever
    <3>1. Range(both) \subseteq ever
      BY <1>5, <2>2
    <3> QED
      BY <3>1 DEF Range
  <2>4. ASSUME NEW i \in DOMAIN both PROVE RankOf(both[i]) <= token'
    <3> DEFINE n == Len(both)
    <3>1. n \in DOMAIN both /\ i \in 1..n /\ n \in Nat
      BY <1>7
    <3>2. i = n \/ i < n
      BY <3>1
    <3>3. RankOf(both[i]) \in Nat /\ RankOf(both[n]) \in Nat
      BY <1>7, <3>1
    <3>4. CASE i = n
      BY <3>3, <3>4, <1>6
    <3>5. CASE i < n
      <4>1. RankOf(both[i]) < RankOf(both[n])
        BY <3>1, <3>5, <1>5
      <4> QED
        BY <3>3, <4>1, <1>6
    <3> QED
      BY <3>2, <3>4, <3>5
  <2>5. ASSUME NEW k \in since, RankOf(k) <= token' PROVE k \in Range(both)
    <3>1. CASE RankOf(k) <= token
      BY <3>1, <2>1, <1>5
    <3>2. CASE ~(RankOf(k) <= token)
      <4>1. k \in Bucket!Keys /\ RankOf(k) \in Nat /\ token \in Nat
        BY <2>1, OrderFacts DEF Bucket!Under, BucketInv, Bucket!TypeOK
      <4>2. k \in Bucket!Left
        BY <2>1, <3>2, <4>1 DEF Bucket!Left, RankOf
      <4>3. k \notin S => RankOf(page[Len(page)]) < RankOf(k)
        BY <1>2, <1>5, <4>2 DEF Bucket!IsPageOf, RankOf
      <4>4. token' = RankOf(page[Len(page)])
        BY <1>2
      <4>5. k \in S
        BY <2>5, <4>1, <4>3, <4>4, <1>8
      <4> QED
        BY <4>5, <1>5
    <3> QED
      BY <3>1, <3>2
  <2>6. \A k \in since' : RankOf(k) <= token' => k \in Range(keys')
    BY <2>5, <1>1, <1>6
  <2> QED
    BY <1>1, <1>6, <2>1, <2>3, <2>4, <2>6 DEF BucketPromise, RankOf
<1> QED
  BY <1>9, <1>10, <1>11 DEF BucketInv

\* The last page has all that is left.
LastCollected(both) ==
  /\ both \in Seq(Bucket!Under(prefix))
  /\ \A i, j \in DOMAIN both : i < j => RankOf(both[i]) < RankOf(both[j])
  /\ since \subseteq Range(both) /\ Range(both) \subseteq ever

LEMMA LastPageCollects == BucketInv /\ Bucket!LastPage => call = "listing" /\ LastCollected(keys')
<1> SUFFICES ASSUME BucketInv, Bucket!LastPage PROVE call = "listing" /\ LastCollected(keys')
  OBVIOUS
<1>1. call = "listing" /\ ~Bucket!Truncated
  BY DEF Bucket!LastPage
<1>2. PICK page : Bucket!IsListing(page, Bucket!Left) /\ keys' = Bucket!Collected(page)
  BY <1>1 DEF Bucket!LastPage, Bucket!Pages, Bucket!Listings, Bucket!IsPageOf
<1>3. PICK both : both = keys'
  OBVIOUS
<1>4. /\ both \in Seq(Bucket!Under(prefix))
      /\ \A i, j \in DOMAIN both : i < j => RankOf(both[i]) < RankOf(both[j])
      /\ Range(both) = Range(keys) \cup Bucket!Left
      /\ Bucket!Left \subseteq ever
  BY <1>1, <1>2, <1>3, PageCollected
<1>5. /\ since \subseteq present \cap Bucket!Under(prefix)
      /\ \A i \in DOMAIN keys : keys[i] \in ever
      /\ \A k \in since : RankOf(k) <= token => k \in Range(keys)
  BY <1>1 DEF BucketInv, BucketPromise
<1>6. Range(keys) \subseteq ever
  BY <1>5 DEF Range
<1>7. ASSUME NEW k \in since PROVE k \in Range(both)
  <2>1. RankOf(k) \in Nat /\ token \in Nat
    BY <1>5, OrderFacts DEF Bucket!Under, BucketInv, Bucket!TypeOK
  <2>2. CASE RankOf(k) <= token
    BY <2>2, <1>4, <1>5
  <2>3. CASE ~(RankOf(k) <= token)
    BY <2>1, <2>3, <1>4, <1>5 DEF Bucket!Left, RankOf
  <2> QED
    BY <2>2, <2>3
<1> QED
  BY <1>1, <1>3, <1>4, <1>6, <1>7 DEF LastCollected

LEMMA LastPageKeeps == BucketInv /\ Bucket!LastPage => BucketInv'
<1> SUFFICES ASSUME BucketInv, Bucket!LastPage PROVE BucketInv'
  OBVIOUS
<1>1. LastCollected(keys')
  BY LastPageCollects
<1>2. call' = "listed" /\ token' = 0 /\ UNCHANGED <<present, since, ever, prefix, faults>>
  BY DEF Bucket!LastPage
<1>3. Len(keys') <= Len(S3Order)
  BY <1>1, AscendingIsShort DEF LastCollected
<1>4. 0 \in 0..Len(S3Order) /\ ~(0 > 0)
  BY OrderFacts
<1>5. Bucket!TypeOK'
  BY <1>1, <1>2, <1>3, <1>4 DEF BucketInv, Bucket!TypeOK, LastCollected
<1> QED
  BY <1>1, <1>2, <1>5 DEF BucketInv, CollectedInv, BucketPromise, LastCollected, RankOf

LEMMA RequestFailsKeeps == BucketInv /\ Bucket!RequestFails => BucketInv'
<1> SUFFICES ASSUME BucketInv, Bucket!RequestFails PROVE BucketInv'
  OBVIOUS
<1>1. call' = "failed" /\ UNCHANGED <<present, since, ever, answer, prefix, token, keys>>
  BY DEF Bucket!RequestFails
<1>2. faults' \in 0..MaxFaults
  BY BoundsAssumption DEF Bucket!RequestFails, Bucket!Fault, BucketInv, Bucket!TypeOK
<1>3. Bucket!TypeOK'
  BY <1>1, <1>2 DEF BucketInv, Bucket!TypeOK
<1> QED
  BY <1>1, <1>3 DEF BucketInv, CollectedInv, BucketPromise, RankOf

bucketVars == <<storeVars, pageVars>>

LEMMA BucketStep == BucketInv /\ (Bucket!S3Next \/ UNCHANGED bucketVars) => BucketInv'
<1> SUFFICES ASSUME BucketInv, Bucket!S3Next \/ UNCHANGED bucketVars PROVE BucketInv'
  OBVIOUS
<1>1. CASE UNCHANGED bucketVars
  <2>1. UNCHANGED <<present, since, ever, call, answer, keys, faults, prefix, token>>
    BY <1>1 DEF bucketVars, storeVars, pageVars
  <2>2. Bucket!TypeOK'
    BY <2>1 DEF BucketInv, Bucket!TypeOK
  <2> QED
    BY <2>1, <2>2 DEF BucketInv, CollectedInv, BucketPromise, RankOf
<1>2. ASSUME NEW k \in Bucket!Keys, Bucket!S3Put(k) \/ Bucket!S3Delete(k) PROVE BucketInv'
  BY <1>2, S3PutKeeps, S3DeleteKeeps
<1>3. ASSUME NEW p \in S3Directories, Bucket!ListBegins(p) PROVE BucketInv'
  BY <1>3, S3ListBeginsKeeps
<1> QED
  BY <1>1, <1>2, <1>3, NextPageKeeps, LastPageKeeps, RequestFailsKeeps DEF Bucket!S3Next, Bucket!TakePage

\* Sorting a sequence of keys, each once, lists them.
LEMMA SortedIsListing ==
  ASSUME NEW p, NEW s \in Seq(Bucket!Under(p)),
         \A i, j \in DOMAIN s : i < j => RankOf(s[i]) < RankOf(s[j]),
         NEW t \in Bucket!Sorted(s)
  PROVE  Bucket!IsListing(t, Range(s))
<1>1. PICK n \in Nat :
        /\ n = Len(s) /\ DOMAIN s = 1..n
        /\ \A i \in 1..n : s[i] \in Bucket!Keys /\ RankOf(s[i]) \in Nat
  BY UnderFacts
<1>2. PICK q \in Bucket!Bijection(1..n, 1..n) :
        /\ t = [i \in 1..n |-> s[q[i]]]
        /\ \A i, j \in 1..n : i < j => RankOf(t[i]) <= RankOf(t[j])
  BY <1>1 DEF Bucket!Sorted, RankOf
<1>3. /\ q \in [1..n -> 1..n]
      /\ \A i, j \in 1..n : q[i] = q[j] => i = j
      /\ \A j \in 1..n : \E i \in 1..n : q[i] = j
  BY DEF Bucket!Bijection, Bucket!Injection, Bucket!Surjection, Bucket!IsInjective
<1>4. \A i \in 1..n : q[i] \in 1..n /\ t[i] = s[q[i]]
  BY <1>2, <1>3
<1>5. \A x : x \in Range(s) <=> \E i \in 1..n : x = s[i]
  BY <1>1 DEF Range
<1>6. t \in Seq(Range(s)) /\ DOMAIN t = 1..n
  <2>1. t \in [1..n -> Range(s)]
    BY <1>2, <1>4, <1>5
  <2> QED
    BY <1>1, <2>1, SeqDef
<1>7. Bucket!Range(t) = Range(s)
  <2>1. ASSUME NEW x \in Range(s) PROVE \E i \in 1..n : t[i] = x
    <3>1. PICK j \in 1..n : x = s[j]
      BY <1>5
    <3>2. PICK i \in 1..n : q[i] = j
      BY <1>3
    <3>3. t[i] = x
      BY <1>4, <3>1, <3>2
    <3> QED
      BY <3>3
  <2>2. \A i \in 1..n : t[i] \in Range(s)
    BY <1>4, <1>5
  <2>3. \A x : x \in Bucket!Range(t) <=> \E i \in 1..n : x = t[i]
    BY <1>6 DEF Bucket!Range
  <2>4. Bucket!Range(t) \subseteq Range(s)
    BY <2>2, <2>3
  <2>5. ASSUME NEW x \in Range(s) PROVE x \in Bucket!Range(t)
    <3>1. \E i \in 1..n : x = t[i]
      BY <2>1
    <3> QED
      BY <2>3, <3>1
  <2> QED
    BY <2>4, <2>5
<1>8. ASSUME NEW i \in 1..n, NEW j \in 1..n, i < j PROVE RankOf(t[i]) < RankOf(t[j])
  <2>1. RankOf(t[i]) \in Nat /\ RankOf(t[j]) \in Nat /\ RankOf(t[i]) <= RankOf(t[j])
    BY <1>1, <1>2, <1>4, <1>8
  <2>2. RankOf(t[i]) # RankOf(t[j])
    <3> SUFFICES ASSUME RankOf(s[q[i]]) = RankOf(s[q[j]]) PROVE FALSE
      BY <1>4
    <3>1. PICK a \in 1..n, b \in 1..n : a = q[i] /\ b = q[j]
      BY <1>4
    <3>2. a # b
      BY <1>3, <1>8, <3>1
    <3>3. a < b \/ b < a
      BY <3>2
    <3>4. RankOf(s[a]) < RankOf(s[b]) \/ RankOf(s[b]) < RankOf(s[a])
      BY <1>1, <3>3
    <3>5. RankOf(s[a]) \in Nat /\ RankOf(s[b]) \in Nat /\ RankOf(s[a]) = RankOf(s[b])
      BY <1>1, <3>1
    <3> QED
      BY <3>4, <3>5
  <2> QED
    BY <2>1, <2>2
<1> QED
  BY <1>6, <1>7, <1>8 DEF Bucket!IsListing, RankOf

\* A listing is in order and has no key twice.
LEMMA ListingFacts ==
  ASSUME NEW S, NEW t, Bucket!IsListing(t, S), S \subseteq Bucket!Keys, NEW E, S \subseteq E
  PROVE  /\ t \in Seq(E) /\ Bucket!Range(t) = S
         /\ Bucket!InOrder(t) /\ Bucket!Once(t, Bucket!Keys)
<1>1. /\ t \in Seq(S) /\ Bucket!Range(t) = S
      /\ \A i, j \in DOMAIN t : i < j => RankOf(t[i]) < RankOf(t[j])
  BY DEF Bucket!IsListing, RankOf
<1>2. t \in Seq(E)
  BY <1>1, SeqMonotonic
<1>3. \A i \in DOMAIN t : RankOf(t[i]) \in Nat
  <2>1. \A i \in DOMAIN t : t[i] \in S
    BY <1>1 DEF Bucket!Range
  <2> QED
    BY <2>1, OrderFacts
<1>4. \A i, j \in DOMAIN t : i < j => RankOf(t[i]) <= RankOf(t[j]) /\ t[i] # t[j]
  BY <1>1, <1>3
<1> QED
  BY <1>1, <1>2, <1>4 DEF Bucket!InOrder, Bucket!Once, RankOf

\* Each page is a step of the abstract store, or none.
LEMMA BucketKeeps == BucketInv /\ Bucket!S3Next => [Bucket!KeepsPromise]_Bucket!vars
<1> SUFFICES ASSUME BucketInv, Bucket!S3Next PROVE [Bucket!KeepsPromise]_Bucket!vars
  OBVIOUS
<1>1. ASSUME NEW k \in Bucket!Keys, Bucket!S3Put(k) \/ Bucket!S3Delete(k)
      PROVE  [Bucket!KeepsPromise]_Bucket!vars
  BY <1>1 DEF Bucket!S3Put, Bucket!S3Delete, Bucket!Put, Bucket!Delete, Bucket!KeepsPromise,
              Bucket!Next
<1>2. ASSUME NEW p \in S3Directories, Bucket!ListBegins(p)
      PROVE  [Bucket!KeepsPromise]_Bucket!vars
  BY <1>2 DEF Bucket!ListBegins, Bucket!Begin, Bucket!KeepsPromise, Bucket!Next
<1>3. CASE Bucket!NextPage
  BY <1>3 DEF Bucket!NextPage, Bucket!vars
<1>4. CASE Bucket!LastPage
  <2>1. call = "listing" /\ LastCollected(keys')
    BY <1>4, LastPageCollects
  <2>2. call' = "listed" /\ answer' \in Bucket!Sorted(keys') /\ UNCHANGED <<present, since, ever>>
    BY <1>4 DEF Bucket!LastPage
  <2>3. PICK S : S = Range(keys')
    OBVIOUS
  <2>4. Bucket!IsListing(answer', S)
    BY <2>1, <2>2, <2>3, SortedIsListing DEF LastCollected
  <2>5. since \subseteq S /\ S \subseteq ever /\ ever \subseteq Bucket!Keys
    BY <2>1, <2>3 DEF LastCollected, BucketInv, Bucket!TypeOK
  <2>6. /\ answer' \in Seq(ever) /\ since \subseteq Bucket!Range(answer')
        /\ Bucket!InOrder(answer') /\ Bucket!Once(answer', Bucket!Keys)
    BY <2>4, <2>5, ListingFacts
  <2>7. Bucket!Once(answer', since)
    BY <2>5, <2>6 DEF Bucket!Once
  <2>8. Bucket!Return
    BY <2>1, <2>2, <2>6, <2>7 DEF Bucket!Return
  <2> QED
    BY <2>1, <2>6, <2>8 DEF Bucket!KeepsPromise, Bucket!Next
<1>5. CASE Bucket!RequestFails
  <2>1. Bucket!Fail /\ call' = "failed"
    BY <1>5 DEF Bucket!RequestFails, Bucket!Fail
  <2> QED
    BY <2>1 DEF Bucket!KeepsPromise, Bucket!Next
<1> QED
  BY <1>1, <1>2, <1>3, <1>4, <1>5 DEF Bucket!S3Next, Bucket!TakePage

-----------------------------------------------------------------------------
(* The services together.                                                  *)

ServicesInv ==
  /\ part \in {"local", "s3", "broker"}
  /\ part = "local" => LocalInv
  /\ part = "s3" => BucketInv
  /\ part = "broker" => BrokerInv

LEMMA ServicesStart == Init => ServicesInv
BY LocalStart, BucketStart, BrokerStart DEF Init, ServicesInv

LEMMA ServicesStep == ServicesInv /\ [Next]_vars => ServicesInv'
<1> SUFFICES ASSUME ServicesInv, [Next]_vars PROVE ServicesInv'
  OBVIOUS
<1>1. part' = part
  BY DEF Next, InLocal, InBucket, InBroker, vars
<1>2. CASE part = "local"
  <2>1. LocalInv /\ (Local!LocalNext \/ UNCHANGED localVars)
    BY <1>2 DEF ServicesInv, Next, InLocal, InBucket, InBroker, vars, localVars
  <2> QED
    BY <1>1, <1>2, <2>1, LocalStep DEF ServicesInv
<1>3. CASE part = "s3"
  <2>1. BucketInv /\ (Bucket!S3Next \/ UNCHANGED bucketVars)
    BY <1>3 DEF ServicesInv, Next, InLocal, InBucket, InBroker, vars, bucketVars
  <2> QED
    BY <1>1, <1>3, <2>1, BucketStep DEF ServicesInv
<1>4. CASE part = "broker"
  <2>1. BrokerInv /\ (Broker!Next \/ UNCHANGED brokerVars)
    BY <1>4 DEF ServicesInv, Next, InLocal, InBucket, InBroker, vars
  <2> QED
    BY <1>1, <1>4, <2>1, BrokerStep DEF ServicesInv
<1> QED
  BY <1>2, <1>3, <1>4 DEF ServicesInv

THEOREM ServicesInvariant == Spec => []ServicesInv
BY ServicesStart, ServicesStep, PTL DEF Spec

\* The loop is given every event the client did not lose once, in the order of
\* the stream and, up to the last it was given, without a gap (Subscription::next
\* behind the client's buffer, the task and the channel), whatever is published,
\* confirmed or disconnected meanwhile, and whenever the loop returns.
THEOREM TakenInOrderHolds == Spec => []TakenInOrder
<1>1. ServicesInv => TakenInOrder
  BY DEF ServicesInv, TakenInOrder, TypeOK, LocalInv, WalkTypes, BucketInv, BrokerInv
<1> QED
  BY <1>1, ServicesInvariant, PTL

\* Both stores implement the abstract one while others write: what list returns
\* has every key that was there all along, once, none that never was, and is in
\* order (Store::list of LocalStore and S3Store).
THEOREM ListContractHolds == Spec => ListContract
<1>1. ServicesInv /\ [Next]_vars
        => [/\ part = "local" => Local!KeepsPromise
            /\ part = "s3" => Bucket!KeepsPromise]_vars
  <2> SUFFICES ASSUME ServicesInv, Next
               PROVE  [/\ part = "local" => Local!KeepsPromise
                       /\ part = "s3" => Bucket!KeepsPromise]_vars
    OBVIOUS
  <2>1. CASE InLocal /\ Local!LocalNext
    BY <2>1, LocalKeeps DEF ServicesInv, InLocal, Local!KeepsPromise
  <2>2. CASE InBucket /\ Bucket!S3Next
    BY <2>2, BucketKeeps DEF ServicesInv, InBucket, Bucket!KeepsPromise, Bucket!vars
  <2>3. CASE InBroker /\ Broker!Next
    BY <2>3 DEF InBroker
  <2> QED
    BY <2>1, <2>2, <2>3 DEF Next
<1> QED
  BY <1>1, ServicesInvariant, PTL DEF Spec, ListContract
=============================================================================
