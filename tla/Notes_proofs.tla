---------------------------- MODULE Notes_proofs ----------------------------
(***************************************************************************)
(* Theorems about what is read and written down of a job's output, for any *)
(* outputs, any numbers of notes, faults, hats and rounds.  Each part of   *)
(* Notes has an inductive invariant of its own: ScanInv of the parser,     *)
(* PodsInv of the workspaces and BookInv of the notebook.                  *)
(***************************************************************************)
EXTENDS Notes, SequenceTheorems, FiniteSetTheorems, WellFoundedInduction, TLAPS

-----------------------------------------------------------------------------
(***************************************************************************)
(* The parser.                                                             *)
(***************************************************************************)
\* The smallest of some of the six markers.
LEMMA FirstMarker ==
  ASSUME NEW S \in SUBSET (1..6), S # {}
  PROVE  /\ Parser!Min(S) \in S
         /\ \A k \in S : Parser!Min(S) <= k
<1>1. \E m \in S : \A k \in S : m <= k
  <2>1. CASE 1 \in S  BY <2>1
  <2>2. CASE 1 \notin S /\ 2 \in S  BY <2>2
  <2>3. CASE 1 \notin S /\ 2 \notin S /\ 3 \in S  BY <2>3
  <2>4. CASE 1 \notin S /\ 2 \notin S /\ 3 \notin S /\ 4 \in S  BY <2>4
  <2>5. CASE 1 \notin S /\ 2 \notin S /\ 3 \notin S /\ 4 \notin S /\ 5 \in S  BY <2>5
  <2>6. CASE 1 \notin S /\ 2 \notin S /\ 3 \notin S /\ 4 \notin S /\ 5 \notin S
    <3>1. PICK m \in S : TRUE  OBVIOUS
    <3>2. \A k \in S : k = 6 /\ m <= k  BY <2>6
    <3> QED  BY <3>1, <3>2
  <2> QED  BY <2>1, <2>2, <2>3, <2>4, <2>5, <2>6
<1> QED  BY <1>1 DEF Parser!Min

\* EMIT is what decides wherever it occurs, and something does in every line
\* with a marker.
LEMMA MarkerLemma ==
  ASSUME NEW line \in Parser!Line
  PROVE  /\ Parser!Is(line, "EMIT") <=> "EMIT" \in line.markers
         /\ Parser!MarkerOf(line) = 0 <=> line.markers = {}
         /\ \A m \in {"MEMORY", "TASK", "HUMAN", "NOTIFY", "SCRATCHPAD"} :
              Parser!Is(line, m) => "EMIT" \notin line.markers /\ line.markers # {}
<1> DEFINE S == {i \in 1..Len(Parser!Markers) : Parser!Markers[i] \in line.markers}
<1>1. Parser!MarkerOf(line) = IF S # {} THEN Parser!Min(S) ELSE 0
  BY DEF Parser!MarkerOf, Parser!SelectInSeq
<1>2. Len(Parser!Markers) = 6  BY DEF Parser!Markers
<1>3. S \in SUBSET (1..6)  BY <1>2
<1>4. \A m \in line.markers : \E i \in 1..6 : Parser!Markers[i] = m
  <2>1. line.markers \subseteq Parser!Range(Parser!Markers)  BY DEF Parser!Line
  <2>2. Parser!Range(Parser!Markers) = {Parser!Markers[i] : i \in 1..6}
    BY <1>2 DEF Parser!Range, Parser!Markers
  <2> QED  BY <2>1, <2>2
<1>5. S = {} <=> line.markers = {}
  BY <1>2, <1>4
<1>6. S # {} => Parser!Min(S) \in S /\ \A k \in S : Parser!Min(S) <= k
  BY <1>3, FirstMarker
<1>7. Parser!MarkerOf(line) = 0 <=> line.markers = {}
  BY <1>1, <1>3, <1>5, <1>6
<1>8. "EMIT" \in line.markers <=> 1 \in S
  <2>1. Parser!Markers[1] = "EMIT"  BY DEF Parser!Markers
  <2> QED  BY <1>2, <2>1
<1>9. "EMIT" \in line.markers => Parser!MarkerOf(line) = 1
  <2>1. 1 \in S => Parser!Min(S) = 1  BY <1>3, <1>6
  <2> QED  BY <1>1, <1>8, <2>1
<1>10. \A m : Parser!Is(line, m) => Parser!MarkerOf(line) \in S /\ Parser!Markers[Parser!MarkerOf(line)] = m
  BY <1>1, <1>6 DEF Parser!Is
<1>11. Parser!Markers[1] = "EMIT"  BY DEF Parser!Markers
<1> HIDE DEF S
<1>12. Parser!Is(line, "EMIT") <=> "EMIT" \in line.markers
  <2>1. "EMIT" \in line.markers => Parser!Is(line, "EMIT")  BY <1>9, <1>11 DEF Parser!Is
  <2>2. Parser!Is(line, "EMIT") => "EMIT" \in line.markers
    BY <1>10 DEF S
  <2> QED  BY <2>1, <2>2
<1>13. \A m \in {"MEMORY", "TASK", "HUMAN", "NOTIFY", "SCRATCHPAD"} :
         Parser!Is(line, m) => "EMIT" \notin line.markers /\ line.markers # {}
  <2> SUFFICES ASSUME NEW m \in {"MEMORY", "TASK", "HUMAN", "NOTIFY", "SCRATCHPAD"},
                      Parser!Is(line, m)
               PROVE  "EMIT" \notin line.markers /\ line.markers # {}
    OBVIOUS
  <2>1. "EMIT" \notin line.markers  BY <1>9, <1>10, <1>11
  <2>2. line.markers # {}  BY <1>5, <1>10
  <2> QED  BY <2>1, <2>2
<1> QED  BY <1>7, <1>12, <1>13

\* What has been printed as events so far.
Printed == result.events
Event == [line : Nat, seq : Nat]

ScanTypes ==
  /\ edge \in PromiseEdges
  /\ input \in UNION {[1..n -> Lines] : n \in 0..MaxLines}
  /\ next \in 1..Len(input) + 1
  /\ completionFound \in BOOLEAN
  /\ DOMAIN result = Parser!Lists \cup {"events"}
  /\ Printed \in Seq(Event)
  /\ published \in {"none", "events", "completion", "default"}

\* The events are those of the lines before the next one.
ScanInv ==
  /\ ScanTypes
  /\ seq = BaseSequence + Len(Printed)
  /\ Len(Printed) <= next - 1
  /\ \A i \in 1..Len(Printed) : Printed[i].seq = BaseSequence + i - 1 /\ Printed[i].line \in 1..next - 1
  /\ \A i, j \in 1..Len(Printed) : i < j => Printed[i].line < Printed[j].line
  /\ \A k \in 1..next - 1 : Parser!IsEvent(k) => \E i \in 1..Len(Printed) : Printed[i].line = k
  /\ \A i \in 1..Len(Printed) : Parser!IsEvent(Printed[i].line)
  /\ completionFound <=> \E k \in 1..next - 1 : Parser!IsPromise(input[k])
  /\ published # "none" => next = Len(input) + 1
  /\ published = "default" =>
       Printed = <<>> /\ \A i \in 1..Len(input) : ~Parser!LooksLikePromise(input[i])

\* The output is a sequence of lines.
LEMMA InputIsSequence ==
  ASSUME input \in UNION {[1..n -> Lines] : n \in 0..MaxLines}
  PROVE  /\ input \in Seq(Lines) /\ DOMAIN input = 1..Len(input)
         /\ \A i \in 1..Len(input) : input[i] \in Parser!Line
<1>1. PICK n \in 0..MaxLines : input \in [1..n -> Lines]  OBVIOUS
<1>2. n \in Nat  BY BoundsAssumption
<1>3. input \in Seq(Lines) /\ Len(input) = n  BY <1>1, <1>2
<1> QED  BY <1>1, <1>3, LinesAssumption

\* Before the first line nothing has been printed.
LEMMA ScanInit ==
  ASSUME Parser!Init
  PROVE  ScanInv
<1> USE DEF Parser!Init
<1>1. input \in UNION {[1..n -> Lines] : n \in 0..MaxLines}  OBVIOUS
<1>2. result = [l \in Parser!Lists \cup {"events"} |-> <<>>] /\ Printed = <<>>
  BY DEF Printed
<1>3. Len(input) \in Nat  BY <1>1, InputIsSequence
<1>5. Len(Printed) = 0  BY <1>2
<1>6. /\ next = 1 /\ seq = BaseSequence /\ completionFound = FALSE
      /\ published = "none" /\ edge \in PromiseEdges
  OBVIOUS
<1> HIDE DEF Parser!Init
<1>4. ScanTypes
  <2>1. <<>> \in Seq(Event)  OBVIOUS
  <2>2. next \in 1..Len(input) + 1  BY <1>3, <1>6
  <2>3. DOMAIN result = Parser!Lists \cup {"events"}  BY <1>2
  <2> QED  BY <1>1, <1>2, <1>6, <2>1, <2>2, <2>3 DEF ScanTypes
<1> QED  BY <1>3, <1>4, <1>5, <1>6, BoundsAssumption DEF ScanInv

\* A line either adds its event or is none.
LEMMA LineCases ==
  ASSUME ScanInv, Parser!Scan
  PROVE  /\ input' = input /\ edge' = edge /\ published' = published
         /\ next \in 1..Len(input) /\ next' = next + 1
         /\ DOMAIN result' = DOMAIN result
         /\ completionFound' <=> (completionFound \/ Parser!IsPromise(input[next]))
         /\ completionFound' \in BOOLEAN
         /\ \/ /\ Parser!IsEvent(next)
               /\ Printed' = Append(Printed, [line |-> next, seq |-> seq])
               /\ seq' = seq + 1
            \/ ~Parser!IsEvent(next) /\ Printed' = Printed /\ seq' = seq
<1> DEFINE line == input[next]
<1>1. ScanTypes /\ next \in 1..Len(input)
  BY InputIsSequence DEF ScanInv, ScanTypes, Parser!Scan, Parser!Scanning
<1>2. line \in Parser!Line /\ DOMAIN input = 1..Len(input)
  BY <1>1, InputIsSequence DEF ScanTypes
<1>3. input' = input /\ edge' = edge /\ published' = published /\ next' = next + 1
  BY DEF Parser!Scan
<1>4. \A list \in Parser!Lists : \A e : Parser!Add(list, e) =>
        DOMAIN result' = DOMAIN result /\ Printed' = Printed
  BY <1>1 DEF Parser!Add, Parser!Lists, Printed, ScanTypes
<1>5. \A e : Parser!Add("events", e) =>
        DOMAIN result' = DOMAIN result /\ Printed' = Append(Printed, e)
  BY <1>1 DEF Parser!Add, Parser!Lists, Printed, ScanTypes
<1>6. result' = result => DOMAIN result' = DOMAIN result /\ Printed' = Printed
  BY DEF Printed
<1>7. /\ Parser!Is(line, "EMIT") <=> "EMIT" \in line.markers
      /\ Parser!MarkerOf(line) = 0 <=> line.markers = {}
      /\ \A m \in {"MEMORY", "TASK", "HUMAN", "NOTIFY", "SCRATCHPAD"} :
           Parser!Is(line, m) => "EMIT" \notin line.markers /\ line.markers # {}
  BY <1>2, MarkerLemma
<1>8. completionFound <=> \E k \in 1..next - 1 : Parser!IsPromise(input[k])
  BY DEF ScanInv
<1>9. Parser!Before(next) = 1..next - 1
  BY <1>1, <1>2 DEF Parser!Before
<1>10. Parser!IsEvent(next) <=>
         \/ "EMIT" \in line.markers /\ ~line.empty
         \/ Parser!IsPromise(line) /\ ~completionFound
  BY <1>8, <1>9 DEF Parser!IsEvent
<1>11. Parser!IsPromise(line) => line.markers = {}
  BY DEF Parser!IsPromise
<1>12. Parser!Here = line  BY DEF Parser!Here
<1>13. completionFound \in BOOLEAN  BY <1>1 DEF ScanTypes
<1> HIDE DEF line
<1> DEFINE Conclusion ==
      /\ DOMAIN result' = DOMAIN result
      /\ completionFound' <=> (completionFound \/ Parser!IsPromise(line))
      /\ completionFound' \in BOOLEAN
      /\ \/ /\ Parser!IsEvent(next)
            /\ Printed' = Append(Printed, [line |-> next, seq |-> seq])
            /\ seq' = seq + 1
         \/ ~Parser!IsEvent(next) /\ Printed' = Printed /\ seq' = seq
<1>14. ASSUME Parser!EmitLine  PROVE Conclusion
  <2>1. "EMIT" \in line.markers /\ ~Parser!IsPromise(line) /\ completionFound' = completionFound
    BY <1>14, <1>7, <1>11, <1>12 DEF Parser!EmitLine
  <2>2. CASE line.empty
    BY <1>14, <1>6, <1>10, <1>12, <1>13, <2>1, <2>2 DEF Parser!EmitLine
  <2>3. CASE ~line.empty
    BY <1>14, <1>5, <1>10, <1>12, <1>13, <2>1, <2>3 DEF Parser!EmitLine, Parser!Count
  <2> QED  BY <2>2, <2>3
<1>15. ASSUME Parser!MemoryLine \/ Parser!TaskLine \/ Parser!HumanLine \/ Parser!ScratchpadLine
       PROVE  Conclusion
  <2>1. "EMIT" \notin line.markers /\ line.markers # {}
    BY <1>15, <1>7, <1>12 DEF Parser!MemoryLine, Parser!TaskLine, Parser!HumanLine, Parser!ScratchpadLine
  <2>2. ~Parser!IsEvent(next) /\ ~Parser!IsPromise(line)  BY <1>10, <1>11, <2>1
  <2>3. completionFound' = completionFound /\ seq' = seq
    BY <1>15 DEF Parser!MemoryLine, Parser!TaskLine, Parser!HumanLine, Parser!ScratchpadLine
  <2>4. DOMAIN result' = DOMAIN result /\ Printed' = Printed
    <3>1. CASE Parser!MemoryLine
      BY <3>1, <1>4, <1>6 DEF Parser!MemoryLine, Parser!Lists
    <3>2. CASE Parser!TaskLine
      BY <3>2, <1>4, <1>6 DEF Parser!TaskLine, Parser!Lists
    <3>3. CASE Parser!HumanLine
      BY <3>3, <1>4, <1>6 DEF Parser!HumanLine, Parser!Lists
    <3>4. CASE Parser!ScratchpadLine
      BY <3>4, <1>4, <1>6 DEF Parser!ScratchpadLine, Parser!Lists
    <3> QED  BY <1>15, <3>1, <3>2, <3>3, <3>4
  <2> QED  BY <1>13, <2>2, <2>3, <2>4
<1>16. ASSUME Parser!PromiseLine  PROVE Conclusion
  <2>1. ~completionFound /\ Parser!IsPromise(line) /\ completionFound' = TRUE
    BY <1>16, <1>12 DEF Parser!PromiseLine, Parser!FirstPromise
  <2>2. Parser!Add("events", [line |-> next, seq |-> seq]) /\ seq' = seq + 1
    BY <1>16 DEF Parser!PromiseLine, Parser!Count
  <2> QED  BY <1>5, <1>10, <2>1, <2>2
<1>17. ASSUME Parser!OtherLine  PROVE Conclusion
  <2>1. line.markers = {} /\ (completionFound \/ ~Parser!IsPromise(line))
    BY <1>17, <1>7, <1>12 DEF Parser!OtherLine, Parser!FirstPromise
  <2>2. result' = result /\ seq' = seq /\ completionFound' = completionFound
    BY <1>17 DEF Parser!OtherLine
  <2> QED  BY <1>6, <1>10, <1>13, <2>1, <2>2
<1>18. Conclusion
  BY <1>14, <1>15, <1>16, <1>17 DEF Parser!Scan
<1> QED  BY <1>1, <1>3, <1>18 DEF line

\* A line scanned adds its event, if it is one.
LEMMA ScanStep ==
  ASSUME ScanInv, Parser!Scan
  PROVE  ScanInv'
<1>1. /\ input' = input /\ edge' = edge /\ published' = published
      /\ next \in 1..Len(input) /\ next' = next + 1
      /\ DOMAIN result' = DOMAIN result
      /\ completionFound' <=> (completionFound \/ Parser!IsPromise(input[next]))
      /\ completionFound' \in BOOLEAN
  BY LineCases
<1>2. \/ /\ Parser!IsEvent(next)
         /\ Printed' = Append(Printed, [line |-> next, seq |-> seq])
         /\ seq' = seq + 1
      \/ ~Parser!IsEvent(next) /\ Printed' = Printed /\ seq' = seq
  BY LineCases
<1>3. Len(input) \in Nat /\ Printed \in Seq(Event) /\ Len(Printed) \in Nat
  BY InputIsSequence, LenProperties DEF ScanInv, ScanTypes
<1>4. seq \in Nat /\ BaseSequence \in Nat /\ seq = BaseSequence + Len(Printed)
  BY <1>3, BoundsAssumption DEF ScanInv
<1>5. [line |-> next, seq |-> seq] \in Event  BY <1>1, <1>4 DEF Event
<1>6. Printed' \in Seq(Event) /\ Len(Printed') \in Nat
  BY <1>2, <1>3, <1>5, AppendProperties, LenProperties
<1>7. ScanTypes'
  <2>1. published = "none" \/ published \in {"none", "events", "completion", "default"}
    BY DEF ScanInv, ScanTypes
  <2> QED  BY <1>1, <1>3, <1>6 DEF ScanInv, ScanTypes
<1>8. \A k : Parser!IsEvent(k)' <=> Parser!IsEvent(k)
  BY <1>1 DEF Parser!IsEvent, Parser!IsPromise, Parser!Before
<1>9. \A x : Parser!IsPromise(x)' <=> Parser!IsPromise(x)
  BY <1>1 DEF Parser!IsPromise
<1>10. \A x : Parser!LooksLikePromise(x)' <=> Parser!LooksLikePromise(x)
  BY <1>1 DEF Parser!LooksLikePromise
<1>11. completionFound' <=> \E k \in 1..next' - 1 : Parser!IsPromise(input[k])
  <2>1. completionFound <=> \E k \in 1..next - 1 : Parser!IsPromise(input[k])
    BY DEF ScanInv
  <2>2. 1..next' - 1 = (1..next - 1) \cup {next}  BY <1>1, <1>3
  <2> QED  BY <1>1, <2>1, <2>2
<1>12. published' = "none"
  <2>1. published # "none" => next = Len(input) + 1  BY DEF ScanInv
  <2> QED  BY <1>1, <1>3, <2>1
<1>13. \A i \in 1..Len(Printed) :
         /\ Printed[i].seq = BaseSequence + i - 1 /\ Printed[i].line \in 1..next - 1
         /\ Parser!IsEvent(Printed[i].line)
  BY DEF ScanInv
<1>14. \A i, j \in 1..Len(Printed) : i < j => Printed[i].line < Printed[j].line
  BY DEF ScanInv
<1>15. \A k \in 1..next - 1 : Parser!IsEvent(k) => \E i \in 1..Len(Printed) : Printed[i].line = k
  BY DEF ScanInv
<1>16. Len(Printed) <= next - 1  BY DEF ScanInv
<1> DEFINE Good ==
      /\ seq' = BaseSequence + Len(Printed')
      /\ Len(Printed') <= next' - 1
      /\ \A i \in 1..Len(Printed') :
           /\ Printed'[i].seq = BaseSequence + i - 1 /\ Printed'[i].line \in 1..next' - 1
           /\ Parser!IsEvent(Printed'[i].line)
      /\ \A i, j \in 1..Len(Printed') : i < j => Printed'[i].line < Printed'[j].line
      /\ \A k \in 1..next' - 1 : Parser!IsEvent(k) => \E i \in 1..Len(Printed') : Printed'[i].line = k
<1>17. ASSUME ~Parser!IsEvent(next), Printed' = Printed, seq' = seq
       PROVE  Good
  <2>1. 1..next' - 1 = (1..next - 1) \cup {next}  BY <1>1, <1>3
  <2>2. Len(Printed') <= next' - 1  BY <1>1, <1>3, <1>16, <1>17
  <2> QED  BY <1>4, <1>13, <1>14, <1>15, <1>17, <2>1, <2>2
<1>18. ASSUME Parser!IsEvent(next), seq' = seq + 1,
              Printed' = Append(Printed, [line |-> next, seq |-> seq])
       PROVE  Good
  <2> DEFINE e == [line |-> next, seq |-> seq]
  <2>1. PICK n : n = Len(Printed) + 1  OBVIOUS
  <2>2. n \in Nat /\ 1..n = (1..Len(Printed)) \cup {n} /\ n \notin 1..Len(Printed)
    BY <1>3, <2>1
  <2>3. Len(Printed') = n
    BY <1>3, <1>5, <1>18, <2>1, AppendProperties
  <2>4. Printed'[n] = e
    BY <1>3, <1>5, <1>18, <2>1, AppendProperties
  <2>5. \A i \in 1..Len(Printed) : Printed'[i] = Printed[i]
    BY <1>3, <1>5, <1>18, AppendProperties
  <2>6. 1..next' - 1 = (1..next - 1) \cup {next}  BY <1>1, <1>3
  <2>7. e.line = next /\ e.seq = seq  OBVIOUS
  <2> HIDE DEF e
  <2>8. seq' = BaseSequence + Len(Printed')  BY <1>3, <1>4, <1>18, <2>1, <2>3
  <2>9. Len(Printed') <= next' - 1  BY <1>1, <1>3, <1>16, <2>1, <2>3
  <2>10. ASSUME NEW i \in 1..n
         PROVE  /\ Printed'[i].seq = BaseSequence + i - 1 /\ Printed'[i].line \in 1..next' - 1
                /\ Parser!IsEvent(Printed'[i].line)
    <3>1. CASE i \in 1..Len(Printed)  BY <3>1, <1>13, <2>5, <2>6
    <3>2. CASE i = n
      <4>1. Printed'[i] = e  BY <3>2, <2>4
      <4>2. e.seq = BaseSequence + i - 1  BY <1>3, <1>4, <2>1, <2>7, <3>2
      <4> QED  BY <1>18, <2>6, <2>7, <4>1, <4>2
    <3> QED  BY <2>2, <3>1, <3>2
  <2>11. ASSUME NEW i \in 1..n, NEW j \in 1..n, i < j
         PROVE  Printed'[i].line < Printed'[j].line
    <3>1. i \in 1..Len(Printed)  BY <1>3, <2>1, <2>2, <2>11
    <3>2. CASE j \in 1..Len(Printed)  BY <2>5, <2>11, <1>14, <3>1, <3>2
    <3>3. CASE j = n
      <4>1. Printed'[i].line \in 1..next - 1  BY <1>13, <2>5, <3>1
      <4>2. Printed'[j].line = next  BY <2>4, <2>7, <3>3
      <4> QED  BY <1>1, <1>3, <4>1, <4>2
    <3> QED  BY <2>2, <3>2, <3>3
  <2>12. ASSUME NEW k \in 1..next' - 1, Parser!IsEvent(k)
         PROVE  \E i \in 1..n : Printed'[i].line = k
    <3>1. CASE k = next  BY <2>2, <2>4, <2>7, <3>1
    <3>2. CASE k \in 1..next - 1
      <4>1. PICK i \in 1..Len(Printed) : Printed[i].line = k  BY <1>15, <2>12, <3>2
      <4> QED  BY <2>2, <2>5, <4>1
    <3> QED  BY <2>6, <3>1, <3>2
  <2> QED  BY <2>3, <2>8, <2>9, <2>10, <2>11, <2>12
<1>19. Good  BY <1>2, <1>17, <1>18
<1> HIDE DEF Good
<1>20. (Len(Printed))' = Len(Printed')  OBVIOUS
<1> QED
  BY <1>1, <1>7, <1>8, <1>9, <1>11, <1>12, <1>19 DEF ScanInv, Good

\* What is published is decided when every line has been scanned.
LEMMA PublishStep ==
  ASSUME ScanInv, Parser!Publish
  PROVE  ScanInv'
<1>1. edge' = edge /\ input' = input /\ next' = next /\ seq' = seq
      /\ completionFound' = completionFound /\ result' = result
  BY DEF Parser!Publish
<1>2. Printed' = Printed  BY <1>1 DEF Printed
<1>3. Len(input) \in Nat /\ DOMAIN input = 1..Len(input)
  BY InputIsSequence DEF ScanInv, ScanTypes
<1>4. next = Len(input) + 1
  BY <1>3 DEF ScanInv, ScanTypes, Parser!Publish, Parser!Scanning
<1>5. published' \in {"none", "events", "completion", "default"}
  BY DEF Parser!Publish
<1>6. published' = "default" =>
        Printed = <<>> /\ \A i \in 1..Len(input) : ~Parser!LooksLikePromise(input[i])
  BY <1>3 DEF Parser!Publish, Printed
<1>7. \A k : Parser!IsEvent(k)' <=> Parser!IsEvent(k)
  BY <1>1 DEF Parser!IsEvent, Parser!IsPromise, Parser!Before
<1>8. \A x : Parser!IsPromise(x)' <=> Parser!IsPromise(x)
  BY <1>1 DEF Parser!IsPromise
<1>9. \A x : Parser!LooksLikePromise(x)' <=> Parser!LooksLikePromise(x)
  BY <1>1 DEF Parser!LooksLikePromise
<1>10. ScanTypes'  BY <1>1, <1>2, <1>5 DEF ScanInv, ScanTypes
<1> QED  BY <1>1, <1>2, <1>4, <1>6, <1>7, <1>8, <1>9, <1>10 DEF ScanInv

\* The parser keeps what has been printed equal to what was scanned.
LEMMA ParserStep ==
  ASSUME ScanInv, Parser!Next \/ UNCHANGED parserVars
  PROVE  ScanInv'
<1>1. CASE Parser!Scan  BY <1>1, ScanStep
<1>2. CASE Parser!Publish  BY <1>2, PublishStep
<1>3. CASE UNCHANGED parserVars
  BY <1>3 DEF parserVars, ScanInv, ScanTypes, Printed, Parser!IsEvent, Parser!IsPromise,
              Parser!Before, Parser!LooksLikePromise
<1>4. Parser!Done => UNCHANGED parserVars
  BY DEF Parser!Done, Parser!vars, parserVars
<1> QED  BY <1>1, <1>2, <1>3, <1>4 DEF Parser!Next

\* What the invariant says of the finished output.
LEMMA ScanImplies ==
  ASSUME ScanInv
  PROVE  /\ Parser!TypeOK /\ Parser!NumberedWithoutGaps
         /\ Parser!EventsAreThoseEmitted /\ Parser!PromiseHeard
<1>1. Len(input) \in Nat /\ DOMAIN input = 1..Len(input)
  BY InputIsSequence DEF ScanInv, ScanTypes
<1>2. Printed \in Seq(Event) /\ Len(Printed) \in Nat /\ DOMAIN Printed = 1..Len(Printed)
  BY LenProperties DEF ScanInv, ScanTypes
<1>3. Parser!TypeOK
  <2>1. seq \in BaseSequence..BaseSequence + Len(input)
    <3>1. seq = BaseSequence + Len(Printed) /\ Len(Printed) <= next - 1  BY DEF ScanInv
    <3>2. next \in 1..Len(input) + 1 /\ BaseSequence \in Nat
      BY BoundsAssumption DEF ScanInv, ScanTypes
    <3> QED  BY <1>1, <1>2, <3>1, <3>2
  <2> QED  BY <2>1 DEF ScanInv, ScanTypes, Parser!TypeOK
<1>4. Parser!NumberedWithoutGaps
  BY <1>2 DEF ScanInv, Printed, Parser!NumberedWithoutGaps
<1>5. Parser!EventsAreThoseEmitted
  <2> SUFFICES ASSUME published # "none"
               PROVE  /\ {Printed[i].line : i \in DOMAIN Printed} = {i \in DOMAIN input : Parser!IsEvent(i)}
                      /\ \A i, j \in DOMAIN Printed : i < j => Printed[i].line < Printed[j].line
    BY DEF Parser!EventsAreThoseEmitted, Printed
  <2>1. 1..next - 1 = DOMAIN input
    <3>1. next = Len(input) + 1  BY DEF ScanInv
    <3> QED  BY <1>1, <3>1
  <2>2. \A k \in DOMAIN input : Parser!IsEvent(k) => \E i \in DOMAIN Printed : Printed[i].line = k
    BY <1>2, <2>1 DEF ScanInv
  <2>3. \A i \in DOMAIN Printed : Printed[i].line \in DOMAIN input /\ Parser!IsEvent(Printed[i].line)
    BY <1>2, <2>1 DEF ScanInv
  <2>4. \A i, j \in DOMAIN Printed : i < j => Printed[i].line < Printed[j].line
    BY <1>2 DEF ScanInv
  <2> QED  BY <2>2, <2>3, <2>4
<1>6. Parser!PromiseHeard
  <2> SUFFICES ASSUME published = "default", edge # "mark", NEW i \in 1..Len(input),
                      input[i].promise = "none"
               PROVE  FALSE
    BY <1>1 DEF Parser!PromiseHeard
  <2>1. edge \in {"none", "dash"}
    BY LinesAssumption DEF ScanInv, ScanTypes, Parser!Edges
  <2>2. ~Parser!LooksLikePromise(input[i])  BY DEF ScanInv
  <2> QED  BY <2>1, <2>2 DEF Parser!LooksLikePromise
<1> QED  BY <1>3, <1>4, <1>5, <1>6

-----------------------------------------------------------------------------
(***************************************************************************)
(* The workspaces.                                                         *)
(***************************************************************************)
\* The keys a pod has still to read or to write.
Elements(s) == {s[i] : i \in 1..Len(s)}
Left(h) == Elements(todo[h])

\* A pod whose command may run has all its hat's scratchpad holds, what it
\* writes it has put there, and its scratchpad is nobody else's.
OwnPad(h) ==
  /\ Pods!AtWork(h) =>
       (pc[h] = "read" /\ h \in Left(h))
         \/ Pods!Content(store[h]) \subseteq Pods!Content(copy[h][h])
  /\ pc[h] = "write" => Left(h) \subseteq {h} \cup Pods!Common
  /\ pc[h] = "write" /\ h \in edited[h] =>
       /\ Pods!Note(h) \in Pods!Content(copy[h][h])
       /\ h \in Left(h) \/ Pods!Note(h) \in Pods!Content(store[h])
  /\ pc[h] = "done" /\ h \in edited[h] => Pods!Note(h) \in Pods!Content(store[h])

\* What a pod found in the scratchpads is still there, and once listed is on
\* its way into the workspace.
OtherPads(h) ==
  /\ Pods!AtWork(h) =>
       /\ round[h] \in 1..MaxRounds
       /\ \A g \in Hats : Pods!Content(found[h][g]) \subseteq Pods!Content(store[g])
  /\ pc[h] = "others" /\ h \notin unlisted =>
       \A g \in Hats \ {h} :
         g \in Left(h) \/ Pods!Content(found[h][g]) \subseteq Pods!Content(copy[h][g])
  /\ pc[h] = "run" /\ h \notin unlisted =>
       \A g \in Hats : Pods!Content(found[h][g]) \subseteq Pods!Content(copy[h][g])

\* One pod at a time: what it found in the common files is stored, and is in
\* its copy when it has read them.
InSequence(h) ==
  Pods!AtWork(h) =>
    /\ \A g \in Hats : Pods!AtWork(g) => g = h
    /\ \A k \in Pods!Common :
         /\ Pods!Content(found[h][k]) \subseteq Pods!Content(store[k])
         /\ \/ pc[h] = "read" /\ k \in Left(h)
            \/ Pods!Content(found[h][k]) \subseteq Pods!Content(copy[h][k])

PodsInv ==
  /\ Pods!TypeOK
  /\ \A h \in Hats : OwnPad(h) /\ OtherPads(h)
  /\ ~overlapped => \A h \in Hats : InSequence(h)

\* Every element of a set comes in every sequence made of it.
LEMMA AllListed ==
  ASSUME NEW S, IsFiniteSet(S), NEW s \in Pods!SetToSeqs(S)
  PROVE  s \in Seq(S) /\ S = {s[i] : i \in 1..Len(s)}
<1> DEFINE n == Cardinality(S)
<1>1. n \in Nat  BY FS_CardinalityType
<1>2. s \in [1..n -> S] /\ \A i, j \in 1..n : i # j => s[i] # s[j]
  <2>1. Pods!SetToSeqs(S) = {f \in [1..n -> S] : \A i, j \in 1..n : i # j => f[i] # f[j]}
    BY DEF Pods!SetToSeqs, Pods!Cardinality, Cardinality
  <2> QED  BY <2>1, Zenon
<1>3. s \in Injection(1..n, S)  BY <1>2 DEF Injection, IsInjective
<1>4. Cardinality(1..n) = n  BY <1>1, FS_Interval
<1>5. s \in Surjection(1..n, S)  BY <1>3, <1>4, FS_Injection
<1>6. s \in Seq(S) /\ Len(s) = n  BY <1>1, <1>2
<1> QED  BY <1>5, <1>6 DEF Surjection

\* What is left after the first is taken.
LEMMA LeftAfter ==
  ASSUME NEW S, NEW s \in Seq(S), s # <<>>
  PROVE  /\ Head(s) \in S /\ Tail(s) \in Seq(S)
         /\ \A k : (\E i \in 1..Len(s) : s[i] = k) <=>
                      (k = Head(s) \/ \E i \in 1..Len(Tail(s)) : Tail(s)[i] = k)
<1>1. Len(s) \in Nat \ {0} /\ Head(s) = s[1] /\ Head(s) \in S /\ Tail(s) \in Seq(S)
  BY EmptySeq, HeadTailProperties, LenProperties
<1>2. Len(Tail(s)) = Len(s) - 1 /\ \A i \in 1..Len(s) - 1 : Tail(s)[i] = s[i + 1]
  BY <1>1, HeadTailProperties
<1>3. ASSUME NEW i \in 1..Len(s)
      PROVE  s[i] = Head(s) \/ \E j \in 1..Len(Tail(s)) : Tail(s)[j] = s[i]
  <2>1. CASE i = 1  BY <1>1, <2>1
  <2>2. CASE i # 1
    <3>1. PICK j : j = i - 1  OBVIOUS
    <3>2. j \in 1..Len(s) - 1 /\ i = j + 1  BY <1>1, <2>2, <3>1
    <3> QED  BY <1>2, <3>2
  <2> QED  BY <2>1, <2>2
<1>4. ASSUME NEW j \in 1..Len(Tail(s))
      PROVE  \E i \in 1..Len(s) : s[i] = Tail(s)[j]
  <2>1. PICK i : i = j + 1  OBVIOUS
  <2>2. j \in 1..Len(s) - 1 /\ i \in 1..Len(s)  BY <1>1, <1>2, <2>1
  <2> QED  BY <1>2, <2>1, <2>2
<1>5. 1 \in 1..Len(s)  BY <1>1
<1> QED  BY <1>1, <1>3, <1>4, <1>5

\* The same of the set of its elements.
LEMMA ElementsAfter ==
  ASSUME NEW S, NEW s \in Seq(S), s # <<>>
  PROVE  Elements(s) = {Head(s)} \cup Elements(Tail(s))
<1>1. \A k : (\E i \in 1..Len(s) : s[i] = k) <=>
               (k = Head(s) \/ \E i \in 1..Len(Tail(s)) : Tail(s)[i] = k)
  BY LeftAfter
<1>2. \A k : k \in Elements(s) <=> \E i \in 1..Len(s) : s[i] = k
  BY DEF Elements
<1>3. \A k : k \in Elements(Tail(s)) <=> \E i \in 1..Len(Tail(s)) : Tail(s)[i] = k
  BY DEF Elements
<1> QED  BY <1>1, <1>2, <1>3

PodAction(h) == Pods!Start(h) \/ Pods!Step(h) \/ Pods!Fault(h)

\* The keys are what the hats are called and the three common files.
LEMMA KeyFacts ==
  /\ Pods!Keys = Hats \cup Pods!Common
  /\ \A h \in Hats : h \notin Pods!Common
  /\ \A h \in Hats : h \in Pods!Keys
  /\ \A k \in Pods!Common : k \in Pods!Keys
  /\ Missing \in Pods!File
  /\ \A f \in Pods!File : Pods!Content(f) \in SUBSET Pods!Notes
  /\ \A f \in SUBSET Pods!Notes : f \in Pods!File /\ f # Missing /\ Pods!Content(f) = f
  /\ Pods!Content(Missing) = {}
  /\ Pods!Nothing \in [Pods!Keys -> Pods!File]
  /\ \A k \in Pods!Keys : Pods!Nothing[k] = Missing
<1>1. Pods!Keys = Hats \cup Pods!Common  BY DEF Pods!Keys
<1>2. \A h \in Hats : h \notin Pods!Common  BY HatsAssumption
<1>3. \A f : f \in Pods!File <=> (f \in SUBSET Pods!Notes \/ f = Missing)  BY DEF Pods!File
<1>4. \A f : Pods!Content(f) = IF f = Missing THEN {} ELSE f  BY DEF Pods!Content
<1>5. \A f \in SUBSET Pods!Notes : f # Missing  BY HatsAssumption
<1>6. Missing \in Pods!File /\ Pods!Content(Missing) = {}  BY <1>3, <1>4
<1>7. \A f \in Pods!File : Pods!Content(f) \in SUBSET Pods!Notes  BY <1>3, <1>4
<1>8. \A f \in SUBSET Pods!Notes : f \in Pods!File /\ f # Missing /\ Pods!Content(f) = f
  BY <1>3, <1>4, <1>5
<1>9. Pods!Nothing \in [Pods!Keys -> Pods!File] /\ \A k \in Pods!Keys : Pods!Nothing[k] = Missing
  BY <1>6 DEF Pods!Nothing
<1> QED  BY <1>1, <1>2, <1>6, <1>7, <1>8, <1>9

\* The order of reading and that of writing name the hat and the common files.
LEMMA OrderFacts ==
  ASSUME NEW h \in Hats, NEW s, s = <<h, "shared", "memories", "tasks">>
  PROVE  /\ s \in Seq(Pods!Keys)
         /\ {s[i] : i \in 1..Len(s)} = {h} \cup Pods!Common
<1>1. h \in Pods!Keys /\ "shared" \in Pods!Keys /\ "memories" \in Pods!Keys /\ "tasks" \in Pods!Keys
  BY KeyFacts DEF Pods!Common
<1>2. s \in Seq(Pods!Keys)  BY <1>1
<1>3. Len(s) = 4 /\ s[1] = h /\ s[2] = "shared" /\ s[3] = "memories" /\ s[4] = "tasks"
  OBVIOUS
<1>4. 1..4 = {1, 2, 3, 4}  OBVIOUS
<1>5. {s[i] : i \in 1..Len(s)} = {s[1], s[2], s[3], s[4]}  BY <1>3, <1>4
<1> QED  BY <1>2, <1>3, <1>5 DEF Pods!Common

-----------------------------------------------------------------------------
\* The types of one pod's step.
LEMMA PodTypes ==
  ASSUME PodsInv, NEW h \in Hats, PodAction(h)
  PROVE  Pods!TypeOK'
<1> USE KeyFacts
<1>1. /\ pc \in [Hats -> {"idle", "read", "list", "others", "run", "write", "done", "failed"}]
      /\ round \in [Hats -> 0..MaxRounds]
      /\ store \in [Pods!Keys -> Pods!File]
      /\ copy \in [Hats -> [Pods!Keys -> Pods!File]]
      /\ todo \in [Hats -> Seq(Pods!Keys)]
      /\ edited \in [Hats -> SUBSET Pods!Keys]
      /\ found \in [Hats -> [Pods!Keys -> Pods!File]]
      /\ unlisted \in SUBSET Hats
      /\ overlapped \in BOOLEAN
  BY DEF PodsInv, Pods!TypeOK
<1>2. todo[h] # <<>> => Head(todo[h]) \in Pods!Keys /\ Tail(todo[h]) \in Seq(Pods!Keys)
  BY <1>1, LeftAfter
<1>3. MaxRounds \in Nat  BY BoundsAssumption
<1>4. CASE Pods!Start(h)
  <2>1. Pods!ReadOrder(h) \in Seq(Pods!Keys)  BY OrderFacts DEF Pods!ReadOrder
  <2>2. round[h] + 1 \in 0..MaxRounds  BY <1>1, <1>3, <1>4 DEF Pods!Start
  <2>3. round' \in [Hats -> 0..MaxRounds]  BY <1>1, <1>4, <2>2 DEF Pods!Start
  <2>4. todo' \in [Hats -> Seq(Pods!Keys)]  BY <1>1, <1>4, <2>1 DEF Pods!Start
  <2>5. overlapped' \in BOOLEAN  BY <1>1, <1>4 DEF Pods!Start
  <2> QED  BY <1>1, <1>4, <2>3, <2>4, <2>5 DEF Pods!Start, Pods!TypeOK
<1>5. CASE Pods!Read(h) \/ Pods!ReadOther(h)
  <2>1. Pods!ReadNext(h)  BY <1>5 DEF Pods!Read, Pods!ReadOther
  <2>2. [copy[h] EXCEPT ![Head(todo[h])] = store[Head(todo[h])]] \in [Pods!Keys -> Pods!File]
    BY <1>1, <1>2, <2>1 DEF Pods!ReadNext
  <2>3. copy' = [copy EXCEPT ![h] = [copy[h] EXCEPT ![Head(todo[h])] = store[Head(todo[h])]]]
    BY <1>1, <2>1 DEF Pods!ReadNext
  <2>4. copy' \in [Hats -> [Pods!Keys -> Pods!File]]  BY <1>1, <2>2, <2>3
  <2>5. todo' \in [Hats -> Seq(Pods!Keys)]  BY <1>1, <1>2, <2>1 DEF Pods!ReadNext
  <2> QED  BY <1>1, <2>1, <2>4, <2>5 DEF Pods!ReadNext, Pods!TypeOK
<1>6. CASE Pods!ListScratchpads(h)
  <2>1. PICK s \in Pods!SetToSeqs(Pods!Others(h)) : todo' = [todo EXCEPT ![h] = s]
    BY <1>6 DEF Pods!ListScratchpads
  <2>2. Pods!Others(h) \subseteq Hats /\ IsFiniteSet(Pods!Others(h))
    BY HatsAssumption, FS_Subset DEF Pods!Others
  <2>3. s \in Seq(Pods!Others(h))  BY <2>1, <2>2, AllListed
  <2>4. s \in Seq(Pods!Keys)  BY <2>2, <2>3, SeqMonotonic
  <2>5. todo' \in [Hats -> Seq(Pods!Keys)]  BY <1>1, <2>1, <2>4
  <2>6. pc' \in [Hats -> {"idle", "read", "list", "others", "run", "write", "done", "failed"}]
    BY <1>1, <1>6 DEF Pods!ListScratchpads
  <2> QED  BY <1>1, <1>6, <2>5, <2>6 DEF Pods!ListScratchpads, Pods!TypeOK
<1>7. CASE Pods!ListFails(h)
  BY <1>1, <1>7 DEF Pods!ListFails, Pods!TypeOK
<1>8. CASE Pods!Materialized(h)
  BY <1>1, <1>8 DEF Pods!Materialized, Pods!TypeOK
<1>9. CASE Pods!RunCommand(h)
  <2>1. PICK edit \in Edits :
          LET touched == (edit \ {"own"}) \cup (IF "own" \in edit THEN {h} ELSE {})
              files == [k \in Pods!Keys |-> IF k \in touched
                                       THEN Pods!Content(copy[h][k]) \cup {Pods!Note(h)}
                                       ELSE copy[h][k]]
          IN /\ edited' = [edited EXCEPT ![h] = touched]
             /\ copy' = [copy EXCEPT ![h] = files]
             /\ todo' = [todo EXCEPT ![h] = Pods!WriteOrder(h)]
    BY <1>9 DEF Pods!RunCommand
  <2> DEFINE touched == (edit \ {"own"}) \cup (IF "own" \in edit THEN {h} ELSE {})
             files == [k \in Pods!Keys |-> IF k \in touched
                                      THEN Pods!Content(copy[h][k]) \cup {Pods!Note(h)}
                                      ELSE copy[h][k]]
  <2>2. touched \subseteq Pods!Keys
    <3>1. edit \subseteq {"own"} \cup Pods!Common  BY HatsAssumption
    <3> QED  BY <3>1
  <2>3. Pods!Note(h) \in Pods!Notes
    <3>1. round[h] \in 1..MaxRounds
      BY <1>9 DEF PodsInv, OtherPads, Pods!AtWork, Pods!RunCommand
    <3> QED  BY <3>1 DEF Pods!Note, Pods!Notes
  <2>4. files \in [Pods!Keys -> Pods!File]
    <3>1. ASSUME NEW k \in Pods!Keys PROVE files[k] \in Pods!File
      <4>1. copy[h][k] \in Pods!File  BY <1>1
      <4>2. Pods!Content(copy[h][k]) \cup {Pods!Note(h)} \in Pods!File  BY <2>3, <4>1
      <4> QED  BY <4>1, <4>2
    <3> QED  BY <3>1
  <2>5. Pods!WriteOrder(h) \in Seq(Pods!Keys)  BY OrderFacts DEF Pods!WriteOrder
  <2>6. edited' = [edited EXCEPT ![h] = touched] /\ copy' = [copy EXCEPT ![h] = files]
    BY <2>1
  <2> HIDE DEF touched, files
  <2>7. edited' \in [Hats -> SUBSET Pods!Keys]  BY <1>1, <2>2, <2>6
  <2>8. copy' \in [Hats -> [Pods!Keys -> Pods!File]]  BY <1>1, <2>4, <2>6
  <2>9. todo' \in [Hats -> Seq(Pods!Keys)]  BY <1>1, <2>1, <2>5
  <2>10. pc' \in [Hats -> {"idle", "read", "list", "others", "run", "write", "done", "failed"}]
    BY <1>1, <1>9 DEF Pods!RunCommand
  <2> QED  BY <1>1, <1>9, <2>7, <2>8, <2>9, <2>10 DEF Pods!RunCommand, Pods!TypeOK
<1>10. CASE Pods!Write(h)
  <2>1. store' \in [Pods!Keys -> Pods!File]
    BY <1>1, <1>2, <1>10 DEF Pods!Write
  <2>2. todo' \in [Hats -> Seq(Pods!Keys)]  BY <1>1, <1>2, <1>10 DEF Pods!Write
  <2> QED  BY <1>1, <1>10, <2>1, <2>2 DEF Pods!Write, Pods!TypeOK
<1>11. ASSUME NEW how \in {"done", "failed"}, Pods!End(h, how)
       PROVE  Pods!TypeOK'
  <2>1. <<>> \in Seq(Pods!Keys)  OBVIOUS
  <2>2. todo' \in [Hats -> Seq(Pods!Keys)]  BY <1>1, <1>11, <2>1 DEF Pods!End
  <2> QED  BY <1>1, <1>11, <2>2 DEF Pods!End, Pods!TypeOK
<1>12. CASE Pods!Finish(h)  BY <1>11, <1>12 DEF Pods!Finish
<1>13. CASE Pods!GetFails(h) \/ Pods!CommandFails(h) \/ Pods!PutFails(h)
  BY <1>11, <1>13 DEF Pods!GetFails, Pods!CommandFails, Pods!PutFails, Pods!Fail
<1> QED
  BY <1>4, <1>5, <1>6, <1>7, <1>8, <1>9, <1>10, <1>12, <1>13
     DEF PodAction, Pods!Step, Pods!Fault

Shared(h) ==
  \A k \in Pods!Common :
    /\ Pods!Content(found[h][k]) \subseteq Pods!Content(store[k])
    /\ \/ pc[h] = "read" /\ k \in Left(h)
       \/ Pods!Content(found[h][k]) \subseteq Pods!Content(copy[h][k])

\* What a pod does leaves the others', and their scratchpads, as they are.
LEMMA PodFrame ==
  ASSUME PodsInv, NEW h \in Hats, PodAction(h)
  PROVE  /\ \A g \in Hats \ {h} :
              /\ pc'[g] = pc[g] /\ round'[g] = round[g] /\ copy'[g] = copy[g]
              /\ todo'[g] = todo[g] /\ edited'[g] = edited[g] /\ found'[g] = found[g]
              /\ g \in unlisted' <=> g \in unlisted
              /\ store'[g] = store[g]
         /\ ~overlapped' => ~overlapped
         /\ Pods!AtWork(h) => overlapped' = overlapped
<1>1. /\ pc \in [Hats -> {"idle", "read", "list", "others", "run", "write", "done", "failed"}]
      /\ round \in [Hats -> 0..MaxRounds]
      /\ store \in [Pods!Keys -> Pods!File]
      /\ copy \in [Hats -> [Pods!Keys -> Pods!File]]
      /\ todo \in [Hats -> Seq(Pods!Keys)]
      /\ edited \in [Hats -> SUBSET Pods!Keys]
      /\ found \in [Hats -> [Pods!Keys -> Pods!File]]
  BY DEF PodsInv, Pods!TypeOK
<1> USE <1>1
<1>2. CASE Pods!Start(h)  BY <1>2 DEF Pods!Start
<1>3. CASE Pods!Read(h) \/ Pods!ReadOther(h)
  <2>1. Pods!ReadNext(h)  BY <1>3 DEF Pods!Read, Pods!ReadOther
  <2>2. copy' = [copy EXCEPT ![h] = [copy[h] EXCEPT ![Head(todo[h])] = store[Head(todo[h])]]]
    BY <2>1 DEF Pods!ReadNext
  <2> QED  BY <2>1, <2>2 DEF Pods!ReadNext
<1>4. CASE Pods!ListScratchpads(h)
  <2>1. PICK s : todo' = [todo EXCEPT ![h] = s]  BY <1>4 DEF Pods!ListScratchpads
  <2> QED  BY <1>4, <2>1 DEF Pods!ListScratchpads
<1>5. CASE Pods!ListFails(h)  BY <1>5 DEF Pods!ListFails
<1>6. CASE Pods!Materialized(h)  BY <1>6 DEF Pods!Materialized
<1>7. CASE Pods!RunCommand(h)
  <2>1. PICK a, b, c : /\ edited' = [edited EXCEPT ![h] = a]
                       /\ copy' = [copy EXCEPT ![h] = b]
                       /\ todo' = [todo EXCEPT ![h] = c]
    BY <1>7 DEF Pods!RunCommand
  <2> QED  BY <1>7, <2>1 DEF Pods!RunCommand
<1>8. CASE Pods!Write(h)
  <2>1. Head(todo[h]) \in {h} \cup Pods!Common
    <3>1. Left(h) \subseteq {h} \cup Pods!Common  BY <1>8 DEF PodsInv, OwnPad, Pods!Write
    <3>2. Head(todo[h]) \in Left(h)  BY <1>8, LeftAfter DEF Left, Elements, Pods!Write
    <3> QED  BY <3>1, <3>2
  <2>2. \A g \in Hats \ {h} : store'[g] = store[g]
    BY <1>8, <2>1, KeyFacts DEF Pods!Write
  <2> QED  BY <1>8, <2>2 DEF Pods!Write
<1>9. ASSUME NEW how, Pods!End(h, how)
      PROVE  /\ \A g \in Hats \ {h} :
                  /\ pc'[g] = pc[g] /\ round'[g] = round[g] /\ copy'[g] = copy[g]
                  /\ todo'[g] = todo[g] /\ edited'[g] = edited[g] /\ found'[g] = found[g]
                  /\ g \in unlisted' <=> g \in unlisted
                  /\ store'[g] = store[g]
             /\ overlapped' = overlapped
  BY <1>9 DEF Pods!End
<1>10. CASE Pods!Finish(h)  BY <1>9, <1>10 DEF Pods!Finish
<1>11. CASE Pods!GetFails(h) \/ Pods!CommandFails(h) \/ Pods!PutFails(h)
  BY <1>9, <1>11 DEF Pods!GetFails, Pods!CommandFails, Pods!PutFails, Pods!Fail
<1> QED
  BY <1>2, <1>3, <1>4, <1>5, <1>6, <1>7, <1>8, <1>10, <1>11
     DEF PodAction, Pods!Step, Pods!Fault

\* What the next two lemmas say of each action.
PodGoes(h) ==
  /\ OwnPad(h)'
  /\ OtherPads(h)'
  /\ Pods!AtWork(h) => (Shared(h) /\ Pods!AtWork(h)' => Shared(h)')
  /\ ~Pods!AtWork(h) => (Pods!AtWork(h)' => Shared(h)')
  /\ Pods!Content(store[h]) \subseteq Pods!Content(store'[h])

\* Materializing the workspace takes no note out of the store or the copy.
LEMMA PodReads ==
  ASSUME PodsInv, NEW h \in Hats,
         \/ Pods!Start(h) \/ Pods!Read(h) \/ Pods!ListScratchpads(h) \/ Pods!ListFails(h)
         \/ Pods!ReadOther(h) \/ Pods!Materialized(h)
  PROVE  PodGoes(h)
<1>1. /\ pc \in [Hats -> {"idle", "read", "list", "others", "run", "write", "done", "failed"}]
      /\ round \in [Hats -> 0..MaxRounds]
      /\ store \in [Pods!Keys -> Pods!File]
      /\ copy \in [Hats -> [Pods!Keys -> Pods!File]]
      /\ todo \in [Hats -> Seq(Pods!Keys)]
      /\ edited \in [Hats -> SUBSET Pods!Keys]
      /\ found \in [Hats -> [Pods!Keys -> Pods!File]]
  BY DEF PodsInv, Pods!TypeOK
<1>2. OwnPad(h) /\ OtherPads(h)  BY DEF PodsInv
<1>3. MaxRounds \in Nat  BY BoundsAssumption
<1>4. CASE Pods!Start(h)
  <2>1. pc'[h] = "read" /\ todo'[h] = Pods!ReadOrder(h) /\ found'[h] = store /\ store' = store
        /\ round'[h] = round[h] + 1
    BY <1>1, <1>4 DEF Pods!Start
  <2>2. Left(h)' = {h} \cup Pods!Common
    BY <2>1, OrderFacts DEF Left, Elements, Pods!ReadOrder
  <2>3. round'[h] \in 1..MaxRounds  BY <1>1, <1>3, <1>4, <2>1 DEF Pods!Start
  <2>4. OwnPad(h)'  BY <2>1, <2>2 DEF OwnPad
  <2>5. OtherPads(h)'  BY <2>1, <2>3 DEF OtherPads
  <2>6. Shared(h)'  BY <2>1, <2>2 DEF Shared
  <2>7. ~Pods!AtWork(h)  BY <1>4 DEF Pods!Start
  <2> QED  BY <2>1, <2>4, <2>5, <2>6, <2>7 DEF PodGoes
<1>5. CASE Pods!Read(h) \/ Pods!ReadOther(h)
  <2>1. Pods!ReadNext(h) /\ pc[h] \in {"read", "others"}
    BY <1>5 DEF Pods!Read, Pods!ReadOther
  <2>2. PICK k : k = Head(todo[h])  OBVIOUS
  <2>3. /\ k \in Pods!Keys
        /\ Left(h) = {k} \cup Left(h)'
    <3>1. todo'[h] = Tail(todo[h])  BY <1>1, <2>1 DEF Pods!ReadNext
    <3>2. todo[h] \in Seq(Pods!Keys) /\ todo[h] # <<>>  BY <1>1, <2>1 DEF Pods!ReadNext
    <3>3. Left(h) = {Head(todo[h])} \cup Left(h)'
      <4>1. PICK s \in Seq(Pods!Keys) : s = todo[h]  BY <3>2
      <4>2. Elements(s) = {Head(s)} \cup Elements(Tail(s))  BY <3>2, <4>1, ElementsAfter
      <4>3. Left(h) = Elements(s)  BY <4>1 DEF Left
      <4>4. Left(h)' = Elements(Tail(s))  BY <3>1, <4>1 DEF Left
      <4> QED  BY <4>1, <4>2, <4>3, <4>4
    <3>4. Head(todo[h]) \in Pods!Keys  BY <3>2, LeftAfter
    <3>5. k \in Pods!Keys  BY <2>2, <3>4
    <3>6. PICK after : after = Left(h)'  OBVIOUS
    <3>7. Left(h) = {k} \cup after  BY <2>2, <3>3, <3>6
    <3> QED  BY <3>5, <3>6, <3>7
  <2>4. copy' = [copy EXCEPT ![h] = [copy[h] EXCEPT ![k] = store[k]]]
    BY <1>1, <2>1, <2>2 DEF Pods!ReadNext
  <2>5. copy'[h][k] = store[k] /\ \A l \in Pods!Keys \ {k} : copy'[h][l] = copy[h][l]
    BY <1>1, <2>3, <2>4
  <2>6. pc' = pc /\ round' = round /\ edited' = edited /\ found' = found
        /\ unlisted' = unlisted /\ store' = store
    BY <2>1 DEF Pods!ReadNext
  <2>7. Pods!AtWork(h)  BY <2>1 DEF Pods!AtWork
  <2>8. \A g \in Hats : Pods!Content(found[h][g]) \subseteq Pods!Content(store[g])
    BY <1>2, <2>7 DEF OtherPads
  <2>9. OwnPad(h)'
    BY <1>2, <2>1, <2>3, <2>5, <2>6, KeyFacts DEF OwnPad, Pods!AtWork
  <2>10. OtherPads(h)'
    <3>1. round[h] \in 1..MaxRounds  BY <1>2, <2>7 DEF OtherPads
    <3>2. ASSUME pc[h] = "others", h \notin unlisted, NEW g \in Hats \ {h}, g \notin Left(h)'
          PROVE  Pods!Content(found[h][g]) \subseteq Pods!Content(copy'[h][g])
      <4>1. CASE g = k  BY <2>5, <2>8, <4>1
      <4>2. CASE g # k
        <5>1. g \notin Left(h)  BY <2>3, <3>2, <4>2
        <5> QED  BY <1>2, <2>5, <3>2, <4>2, <5>1, KeyFacts DEF OtherPads
      <4> QED  BY <4>1, <4>2
    <3> QED  BY <2>1, <2>6, <2>8, <3>1, <3>2 DEF OtherPads
  <2>11. ASSUME Shared(h)  PROVE Shared(h)'
    <3> SUFFICES ASSUME NEW l \in Pods!Common
                 PROVE  \/ pc[h] = "read" /\ l \in Left(h)'
                        \/ Pods!Content(found[h][l]) \subseteq Pods!Content(copy'[h][l])
      BY <2>6, <2>11 DEF Shared
    <3>1. CASE l = k  BY <2>5, <2>11, <3>1 DEF Shared
    <3>2. CASE l # k  BY <2>3, <2>5, <2>11, <3>2, KeyFacts DEF Shared
    <3> QED  BY <3>1, <3>2
  <2> QED  BY <2>6, <2>7, <2>9, <2>10, <2>11 DEF PodGoes
<1>6. ASSUME pc[h] = "read", todo[h] = <<>>, pc' = [pc EXCEPT ![h] = "others"],
             round' = round, copy' = copy, edited' = edited, found' = found, store' = store,
             h \in unlisted' \/ \A g \in Hats \ {h} : g \in Left(h)' \/ store[g] = Missing
      PROVE  PodGoes(h)
  <2>1. Pods!AtWork(h) /\ pc'[h] = "others"  BY <1>1, <1>6 DEF Pods!AtWork
  <2>2. Left(h) = {}  BY <1>6 DEF Left, Elements
  <2>3. OwnPad(h)'  BY <1>2, <1>6, <2>1, <2>2 DEF OwnPad
  <2>4. OtherPads(h)'
    <3>1. \A g \in Hats : Pods!Content(found[h][g]) \subseteq Pods!Content(store[g])
      BY <1>2, <2>1 DEF OtherPads
    <3>2. round[h] \in 1..MaxRounds  BY <1>2, <2>1 DEF OtherPads
    <3> QED  BY <1>6, <2>1, <3>1, <3>2, KeyFacts DEF OtherPads
  <2>5. Shared(h) => Shared(h)'  BY <1>6, <2>1, <2>2 DEF Shared
  <2> QED  BY <1>6, <2>1, <2>3, <2>4, <2>5 DEF PodGoes
<1>7. CASE Pods!ListScratchpads(h)
  <2>1. PICK s \in Pods!SetToSeqs(Pods!Others(h)) : todo' = [todo EXCEPT ![h] = s]
    BY <1>7 DEF Pods!ListScratchpads
  <2>2. IsFiniteSet(Pods!Others(h))  BY HatsAssumption, FS_Subset DEF Pods!Others
  <2>3. Left(h)' = Pods!Others(h)
    <3>1. todo'[h] = s  BY <1>1, <2>1
    <3> QED  BY <2>2, <3>1, AllListed DEF Left, Elements
  <2>4. \A g \in Hats \ {h} : g \in Left(h)' \/ store[g] = Missing  BY <2>3 DEF Pods!Others
  <2> QED  BY <1>6, <1>7, <2>4 DEF Pods!ListScratchpads
<1>8. CASE Pods!ListFails(h)
  BY <1>6, <1>8 DEF Pods!ListFails
<1>9. CASE Pods!Materialized(h)
  <2>1. /\ pc[h] = "others" /\ pc'[h] = "run" /\ Pods!AtWork(h)
        /\ round' = round /\ copy' = copy /\ todo' = todo /\ edited' = edited
        /\ found' = found /\ unlisted' = unlisted /\ store' = store
    BY <1>1, <1>9 DEF Pods!Materialized, Pods!AtWork
  <2>2. Left(h) = {}  BY <1>9 DEF Left, Elements, Pods!Materialized
  <2>3. OwnPad(h)'  BY <1>2, <2>1, <2>2 DEF OwnPad
  <2>4. OtherPads(h)'
    <3>1. \A g \in Hats : Pods!Content(found[h][g]) \subseteq Pods!Content(store[g])
      BY <1>2, <2>1 DEF OtherPads
    <3>2. round[h] \in 1..MaxRounds  BY <1>2, <2>1 DEF OtherPads
    <3>3. Pods!Content(store[h]) \subseteq Pods!Content(copy[h][h])
      BY <1>2, <2>1 DEF OwnPad
    <3>4. h \notin unlisted => \A g \in Hats \ {h} :
            Pods!Content(found[h][g]) \subseteq Pods!Content(copy[h][g])
      BY <1>2, <2>1, <2>2 DEF OtherPads
    <3> QED  BY <2>1, <3>1, <3>2, <3>3, <3>4 DEF OtherPads
  <2>5. Shared(h) => Shared(h)'  BY <2>1 DEF Shared
  <2> QED  BY <2>1, <2>3, <2>4, <2>5 DEF PodGoes
<1> QED  BY <1>4, <1>5, <1>7, <1>8, <1>9

\* Running the command, writing back and ending take none out either.
LEMMA PodWrites ==
  ASSUME PodsInv, NEW h \in Hats,
         \/ Pods!RunCommand(h) \/ Pods!Write(h) \/ Pods!Finish(h)
         \/ Pods!GetFails(h) \/ Pods!CommandFails(h) \/ Pods!PutFails(h)
  PROVE  PodGoes(h)
<1>1. /\ pc \in [Hats -> {"idle", "read", "list", "others", "run", "write", "done", "failed"}]
      /\ round \in [Hats -> 0..MaxRounds]
      /\ store \in [Pods!Keys -> Pods!File]
      /\ copy \in [Hats -> [Pods!Keys -> Pods!File]]
      /\ todo \in [Hats -> Seq(Pods!Keys)]
      /\ edited \in [Hats -> SUBSET Pods!Keys]
      /\ found \in [Hats -> [Pods!Keys -> Pods!File]]
  BY DEF PodsInv, Pods!TypeOK
<1>2. OwnPad(h) /\ OtherPads(h)  BY DEF PodsInv
<1>3. CASE Pods!RunCommand(h)
  <2>1. PICK edit \in Edits :
          LET touched == (edit \ {"own"}) \cup (IF "own" \in edit THEN {h} ELSE {})
              files == [k \in Pods!Keys |-> IF k \in touched
                                       THEN Pods!Content(copy[h][k]) \cup {Pods!Note(h)}
                                       ELSE copy[h][k]]
          IN /\ edited' = [edited EXCEPT ![h] = touched]
             /\ copy' = [copy EXCEPT ![h] = files]
             /\ todo' = [todo EXCEPT ![h] = Pods!WriteOrder(h)]
    BY <1>3 DEF Pods!RunCommand
  <2>2. PICK touched : touched = (edit \ {"own"}) \cup (IF "own" \in edit THEN {h} ELSE {})
    OBVIOUS
  <2>3. PICK files : files = [k \in Pods!Keys |-> IF k \in touched
                                       THEN Pods!Content(copy[h][k]) \cup {Pods!Note(h)}
                                       ELSE copy[h][k]]
    OBVIOUS
  <2>4. edited'[h] = touched /\ copy'[h] = files /\ todo'[h] = Pods!WriteOrder(h)
    BY <1>1, <2>1, <2>2, <2>3
  <2>5. /\ pc[h] = "run" /\ pc'[h] = "write" /\ Pods!AtWork(h)
        /\ round' = round /\ found' = found /\ unlisted' = unlisted /\ store' = store
    BY <1>1, <1>3 DEF Pods!RunCommand, Pods!AtWork
  <2>6. round[h] \in 1..MaxRounds  BY <1>2, <2>5 DEF OtherPads
  <2>7. Pods!Note(h) \in Pods!Notes /\ Pods!Note(h)' = Pods!Note(h)
    BY <2>5, <2>6 DEF Pods!Note, Pods!Notes
  <2>8. ASSUME NEW k \in Pods!Keys
        PROVE  /\ Pods!Content(copy[h][k]) \subseteq Pods!Content(files[k])
               /\ k \in touched => Pods!Note(h) \in Pods!Content(files[k])
    <3>1. copy[h][k] \in Pods!File  BY <1>1
    <3>2. Pods!Content(copy[h][k]) \cup {Pods!Note(h)} \in SUBSET Pods!Notes
      BY <2>7, <3>1, KeyFacts
    <3>3. CASE k \in touched
      <4>1. files[k] = Pods!Content(copy[h][k]) \cup {Pods!Note(h)}  BY <2>3, <3>3
      <4>2. Pods!Content(files[k]) = Pods!Content(copy[h][k]) \cup {Pods!Note(h)}
        BY <3>2, <4>1, KeyFacts
      <4> QED  BY <4>2
    <3>4. CASE k \notin touched  BY <2>3, <3>4
    <3> QED  BY <3>3, <3>4
  <2>9. Left(h)' = {h} \cup Pods!Common  BY <2>4, OrderFacts DEF Left, Elements, Pods!WriteOrder
  <2>10. OwnPad(h)'
    <3>1. Pods!Content(store[h]) \subseteq Pods!Content(copy[h][h])
      BY <1>2, <2>5 DEF OwnPad
    <3>2. Pods!Content(store[h]) \subseteq Pods!Content(copy'[h][h])
      BY <2>4, <2>8, <3>1, KeyFacts
    <3>3. h \in edited'[h] => Pods!Note(h)' \in Pods!Content(copy'[h][h])
      BY <2>4, <2>7, <2>8, KeyFacts
    <3> QED  BY <2>5, <2>9, <3>2, <3>3 DEF OwnPad
  <2>11. OtherPads(h)'  BY <1>2, <2>5 DEF OtherPads
  <2>12. ASSUME Shared(h)  PROVE Shared(h)'
    <3>1. \A k \in Pods!Common : Pods!Content(found[h][k]) \subseteq Pods!Content(copy'[h][k])
      BY <2>4, <2>5, <2>8, <2>12, KeyFacts DEF Shared
    <3> QED  BY <2>5, <2>12, <3>1 DEF Shared
  <2> QED  BY <2>5, <2>10, <2>11, <2>12 DEF PodGoes
<1>4. CASE Pods!Write(h)
  <2>1. PICK k : k = Head(todo[h])  OBVIOUS
  <2>2. /\ k \in Pods!Keys
        /\ Left(h) = {k} \cup Left(h)'
    <3>1. todo'[h] = Tail(todo[h])  BY <1>1, <1>4 DEF Pods!Write
    <3>2. todo[h] \in Seq(Pods!Keys) /\ todo[h] # <<>>  BY <1>1, <1>4 DEF Pods!Write
    <3>3. Left(h) = {Head(todo[h])} \cup Left(h)'
      <4>1. PICK s \in Seq(Pods!Keys) : s = todo[h]  BY <3>2
      <4>2. Elements(s) = {Head(s)} \cup Elements(Tail(s))  BY <3>2, <4>1, ElementsAfter
      <4>3. Left(h) = Elements(s)  BY <4>1 DEF Left
      <4>4. Left(h)' = Elements(Tail(s))  BY <3>1, <4>1 DEF Left
      <4> QED  BY <4>1, <4>2, <4>3, <4>4
    <3>4. Head(todo[h]) \in Pods!Keys  BY <3>2, LeftAfter
    <3>5. k \in Pods!Keys  BY <2>1, <3>4
    <3>6. PICK after : after = Left(h)'  OBVIOUS
    <3>7. Left(h) = {k} \cup after  BY <2>1, <3>3, <3>6
    <3> QED  BY <3>5, <3>6, <3>7
  <2>3. /\ pc[h] = "write" /\ pc' = pc /\ Pods!AtWork(h)
        /\ round' = round /\ copy' = copy /\ edited' = edited /\ found' = found
        /\ unlisted' = unlisted
    BY <1>4 DEF Pods!Write, Pods!AtWork
  <2>4. Left(h) \subseteq {h} \cup Pods!Common  BY <1>2, <2>3 DEF OwnPad
  <2>5. \A l \in Pods!Keys \ {k} : store'[l] = store[l]
    BY <1>1, <1>4, <2>1, <2>2 DEF Pods!Write
  <2>6. /\ copy[h][k] # Missing => store'[k] = copy[h][k]
        /\ copy[h][k] = Missing => store'[k] = store[k]
    BY <1>1, <1>4, <2>1, <2>2 DEF Pods!Write, Pods!Exists
  <2>7. Pods!Content(copy[h][k]) \subseteq Pods!Content(store'[k])
    BY <2>6, KeyFacts
  <2>8. Pods!Content(store[h]) \subseteq Pods!Content(copy[h][h])
    BY <1>2, <2>3 DEF OwnPad
  <2>9. Pods!Content(store[h]) \subseteq Pods!Content(store'[h])
    BY <2>5, <2>7, <2>8, KeyFacts
  <2>10. OwnPad(h)'
    <3>1. Pods!Content(store'[h]) \subseteq Pods!Content(copy[h][h])
      BY <2>5, <2>6, <2>8, KeyFacts
    <3>2. Pods!Note(h)' = Pods!Note(h)  BY <2>3 DEF Pods!Note
    <3>3. ASSUME h \in edited[h]
          PROVE  /\ Pods!Note(h) \in Pods!Content(copy[h][h])
                 /\ h \in Left(h)' \/ Pods!Note(h) \in Pods!Content(store'[h])
      <4>1. Pods!Note(h) \in Pods!Content(copy[h][h])
            /\ (h \in Left(h) \/ Pods!Note(h) \in Pods!Content(store[h]))
        BY <1>2, <2>3, <3>3 DEF OwnPad
      <4>2. CASE h = k  BY <2>7, <4>1, <4>2
      <4>3. CASE h # k  BY <2>2, <2>9, <4>1, <4>3
      <4> QED  BY <4>1, <4>2, <4>3
    <3>4. Left(h)' \subseteq {h} \cup Pods!Common  BY <2>2, <2>4
    <3> QED  BY <2>3, <3>1, <3>2, <3>3, <3>4 DEF OwnPad
  <2>11. OtherPads(h)'
    <3>1. ASSUME NEW g \in Hats
          PROVE  Pods!Content(found[h][g]) \subseteq Pods!Content(store'[g])
      <4>1. Pods!Content(found[h][g]) \subseteq Pods!Content(store[g])
        BY <1>2, <2>3 DEF OtherPads
      <4>2. CASE g = h  BY <2>9, <4>1, <4>2
      <4>3. CASE g # h
        <5>1. g # k  BY <2>2, <2>4, <4>3, KeyFacts
        <5> QED  BY <2>5, <4>1, <5>1, KeyFacts
      <4> QED  BY <4>2, <4>3
    <3>2. round[h] \in 1..MaxRounds  BY <1>2, <2>3 DEF OtherPads
    <3> QED  BY <2>3, <3>1, <3>2 DEF OtherPads
  <2>12. ASSUME Shared(h)  PROVE Shared(h)'
    <3> SUFFICES ASSUME NEW l \in Pods!Common
                 PROVE  /\ Pods!Content(found[h][l]) \subseteq Pods!Content(store'[l])
                        /\ Pods!Content(found[h][l]) \subseteq Pods!Content(copy[h][l])
      BY <2>3 DEF Shared
    <3>1. /\ Pods!Content(found[h][l]) \subseteq Pods!Content(store[l])
          /\ Pods!Content(found[h][l]) \subseteq Pods!Content(copy[h][l])
      BY <2>3, <2>12 DEF Shared
    <3>2. CASE l = k  BY <2>7, <3>1, <3>2
    <3>3. CASE l # k  BY <2>5, <3>1, <3>3, KeyFacts
    <3> QED  BY <3>1, <3>2, <3>3
  <2> QED  BY <2>3, <2>9, <2>10, <2>11, <2>12 DEF PodGoes
<1>5. CASE Pods!Finish(h)
  <2>1. pc[h] = "write" /\ pc'[h] = "done" /\ store' = store /\ edited' = edited /\ round' = round
    BY <1>1, <1>5 DEF Pods!Finish, Pods!End
  <2>2. Left(h) = {} /\ Pods!AtWork(h) /\ ~Pods!AtWork(h)'
    BY <1>5, <2>1 DEF Left, Elements, Pods!Finish, Pods!AtWork
  <2>3. Pods!Note(h)' = Pods!Note(h)  BY <2>1 DEF Pods!Note
  <2>4. OwnPad(h)'  BY <1>2, <2>1, <2>2, <2>3 DEF OwnPad
  <2>5. OtherPads(h)'  BY <2>1, <2>2 DEF OtherPads
  <2> QED  BY <2>1, <2>2, <2>4, <2>5 DEF PodGoes
<1>6. CASE Pods!GetFails(h) \/ Pods!CommandFails(h) \/ Pods!PutFails(h)
  <2>1. Pods!End(h, "failed") /\ Pods!AtWork(h)
    BY <1>6 DEF Pods!GetFails, Pods!CommandFails, Pods!PutFails, Pods!Fail, Pods!AtWork
  <2>2. pc'[h] = "failed" /\ store' = store /\ ~Pods!AtWork(h)'
    BY <1>1, <2>1 DEF Pods!End, Pods!AtWork
  <2>3. OwnPad(h)' /\ OtherPads(h)'  BY <2>2 DEF OwnPad, OtherPads
  <2> QED  BY <2>1, <2>2, <2>3 DEF PodGoes
<1> QED  BY <1>3, <1>4, <1>5, <1>6

\* A pod's step keeps the invariant, and every scratchpad.
LEMMA PodStep ==
  ASSUME PodsInv, NEW h \in Hats, PodAction(h)
  PROVE  PodsInv' /\ Pods!KeepsScratchpads
<1>1. PodGoes(h)  BY PodReads, PodWrites DEF PodAction, Pods!Step, Pods!Fault
<1>2. /\ \A g \in Hats \ {h} :
           /\ pc'[g] = pc[g] /\ round'[g] = round[g] /\ copy'[g] = copy[g]
           /\ todo'[g] = todo[g] /\ edited'[g] = edited[g] /\ found'[g] = found[g]
           /\ g \in unlisted' <=> g \in unlisted
           /\ store'[g] = store[g]
      /\ ~overlapped' => ~overlapped
  BY PodFrame
<1>3. \A g \in Hats : Pods!Content(store[g]) \subseteq Pods!Content(store'[g])
  BY <1>1, <1>2 DEF PodGoes
<1>4. ASSUME NEW g \in Hats  PROVE OwnPad(g)' /\ OtherPads(g)'
  <2>1. CASE g = h  BY <1>1, <2>1 DEF PodGoes
  <2>2. CASE g # h
    <3>1. /\ pc'[g] = pc[g] /\ round'[g] = round[g] /\ copy'[g] = copy[g]
          /\ todo'[g] = todo[g] /\ edited'[g] = edited[g] /\ found'[g] = found[g]
          /\ g \in unlisted' <=> g \in unlisted
          /\ store'[g] = store[g]
      BY <1>2, <2>2
    <3>2. OwnPad(g) /\ OtherPads(g)  BY DEF PodsInv
    <3>3. Left(g)' = Left(g)  BY <3>1 DEF Left, Elements
    <3>4. Pods!Note(g)' = Pods!Note(g)  BY <3>1 DEF Pods!Note
    <3>5. Pods!AtWork(g)' <=> Pods!AtWork(g)  BY <3>1 DEF Pods!AtWork
    <3>6. OwnPad(g)'  BY <3>1, <3>2, <3>3, <3>4, <3>5 DEF OwnPad
    <3>7. OtherPads(g)'  BY <1>3, <3>1, <3>2, <3>3, <3>5 DEF OtherPads
    <3> QED  BY <3>6, <3>7
  <2> QED  BY <2>1, <2>2
<1>5. ASSUME ~overlapped', NEW g \in Hats, Pods!AtWork(g)'
      PROVE  InSequence(g)'
  <2>1. ~overlapped  BY <1>2, <1>5
  <2>2. \A f \in Hats : InSequence(f)  BY <2>1 DEF PodsInv
  <2>3. \A f \in Hats \ {h} : ~Pods!AtWork(f)
    <3>1. CASE Pods!AtWork(h)  BY <2>2, <3>1 DEF InSequence
    <3>2. CASE ~Pods!AtWork(h)
      <4>1. Pods!Start(h)
        BY <3>2 DEF PodAction, Pods!Step, Pods!Fault, Pods!AtWork, Pods!Read,
             Pods!ListScratchpads, Pods!ListFails, Pods!ReadOther, Pods!Materialized,
             Pods!RunCommand, Pods!Write, Pods!Finish, Pods!GetFails, Pods!CommandFails,
             Pods!PutFails
      <4> QED  BY <1>5, <4>1 DEF Pods!Start
    <3> QED  BY <3>1, <3>2
  <2>4. \A f \in Hats \ {h} : ~Pods!AtWork(f)'  BY <1>2, <2>3 DEF Pods!AtWork
  <2>5. g = h  BY <1>5, <2>4
  <2>6. Shared(h)'
    <3>1. Pods!AtWork(h) => Shared(h)  BY <2>2 DEF InSequence, Shared
    <3> QED  BY <1>1, <1>5, <2>5, <3>1 DEF PodGoes
  <2> QED  BY <2>4, <2>5, <2>6 DEF InSequence, Shared
<1>6. ~overlapped' => \A g \in Hats : InSequence(g)'
  BY <1>5 DEF InSequence
<1>7. Pods!TypeOK'  BY PodTypes
<1> QED  BY <1>3, <1>4, <1>6, <1>7 DEF PodsInv, Pods!KeepsScratchpads

\* No pod has started.
LEMMA PodsInit ==
  ASSUME Pods!Init
  PROVE  PodsInv
<1> USE DEF Pods!Init
<1>1. Pods!TypeOK
  <2>1. <<>> \in Seq(Pods!Keys)  OBVIOUS
  <2>2. 0 \in 0..MaxRounds  BY BoundsAssumption
  <2> QED  BY <2>1, <2>2, KeyFacts DEF Pods!TypeOK
<1>2. \A h \in Hats : pc[h] = "idle" /\ ~Pods!AtWork(h)  BY DEF Pods!AtWork
<1>3. \A h \in Hats : OwnPad(h) /\ OtherPads(h) /\ InSequence(h)
  BY <1>2 DEF OwnPad, OtherPads, InSequence
<1> QED  BY <1>1, <1>3 DEF PodsInv

\* Whatever step one pod takes, all of them keep their notes.
LEMMA PodsStep ==
  ASSUME PodsInv, Pods!Next \/ UNCHANGED <<sharedVars, workspaceVars>>
  PROVE  PodsInv' /\ Pods!KeepsScratchpads
<1>1. CASE Pods!Next  BY <1>1, PodStep DEF Pods!Next, PodAction
<1>2. CASE UNCHANGED <<sharedVars, workspaceVars>>
  <2>1. /\ pc' = pc /\ round' = round /\ store' = store /\ copy' = copy /\ todo' = todo
        /\ edited' = edited /\ found' = found /\ unlisted' = unlisted /\ overlapped' = overlapped
    BY <1>2 DEF sharedVars, workspaceVars
  <2>2. Pods!TypeOK'  BY <2>1 DEF PodsInv, Pods!TypeOK
  <2>3. \A h : (OwnPad(h)' <=> OwnPad(h)) /\ (OtherPads(h)' <=> OtherPads(h))
               /\ (InSequence(h)' <=> InSequence(h))
    BY <2>1 DEF OwnPad, OtherPads, InSequence, Left, Elements, Pods!AtWork, Pods!Note
  <2>4. Pods!KeepsScratchpads  BY <2>1 DEF Pods!KeepsScratchpads
  <2> QED  BY <2>1, <2>2, <2>3, <2>4 DEF PodsInv
<1> QED  BY <1>1, <1>2

\* What the invariant says of the pods.
LEMMA PodsImply ==
  ASSUME PodsInv
  PROVE  /\ Pods!TypeOK /\ Pods!NothingLostInSequence /\ Pods!DoneIsStored
         /\ Pods!SeesStoredScratchpads
BY DEF PodsInv, OwnPad, OtherPads, InSequence, Pods!NothingLostInSequence,
       Pods!DoneIsStored, Pods!SeesStoredScratchpads

-----------------------------------------------------------------------------
(***************************************************************************)
(* The notebook.                                                           *)
(***************************************************************************)
BookNote ==
  [file : Controller!Files, action : {"add", "done", "progress"}, id : STRING, at : Nat]
BookEntry == [id : STRING, at : Nat, status : {"pending", "done", "progress"}]

Pending(list) == \A i \in 1..Len(list) : list[i].status = "pending"
OnlyAdds(notes) == \A i \in 1..Len(notes) : notes[i].file # "tasks" => notes[i].action = "add"

BookTypes ==
  /\ store \in [Controller!Files -> [torn : BOOLEAN, entries : Seq(BookEntry)]]
  /\ todo \in [{1} -> Seq(BookNote)]
  /\ copy \in [{1} -> [known : BOOLEAN, list : Seq(BookEntry)]]
  /\ heard \in 0..MaxNotes
  /\ faults \in 0..MaxFaults
  /\ written \in [Controller!Files -> Seq(BookNote)]
  /\ \A f \in Controller!Files : f # "tasks" => Pending(store[f].entries)
  /\ OnlyAdds(todo[1])

Rising(s) == \A i, j \in 1..Len(s) : i < j => s[i].at < s[j].at

\* Notes are numbered as they are heard, and written down in that order.
InOrder ==
  /\ Rising(todo[1])
  /\ \A i \in 1..Len(todo[1]) : todo[1][i].at <= heard
  /\ \A f \in Controller!Files : \A i \in 1..Len(written[f]) :
       /\ written[f][i].at <= heard
       /\ \A j \in 1..Len(todo[1]) : written[f][i].at < todo[1][j].at

\* The list the controller has read is still the one in the store.
CopyCurrent ==
  copy[1].known =>
    /\ todo[1] # <<>>
    /\ Head(todo[1]).file # "tasks" => Pending(copy[1].list)
    /\ Head(todo[1]).file # "scratchpad" =>
         ~store[Head(todo[1]).file].torn /\ copy[1].list = store[Head(todo[1]).file].entries

\* Entry by entry, a list is what was added to it.
SameNotes(entries, notes) ==
  /\ \A i \in 1..Len(entries) : \E j \in 1..Len(notes) :
       notes[j].action = "add" /\ notes[j].id = entries[i].id /\ notes[j].at = entries[i].at
  /\ \A j \in 1..Len(notes) : notes[j].action = "add" =>
       \E i \in 1..Len(entries) : notes[j].id = entries[i].id /\ notes[j].at = entries[i].at

ListKept(f) ==
  /\ Rising(written[f])
  /\ ~store[f].torn => Rising(store[f].entries) /\ SameNotes(store[f].entries, written[f])

\* A task's status is that of the last update of it, if it is the first of its
\* id, and otherwise what it was added with.
First(entries, i) == \A k \in 1..i - 1 : entries[k].id # entries[i].id
Updates(notes, task, j) ==
  notes[j].action # "add" /\ notes[j].id = task.id /\ notes[j].at > task.at
LastUpdate(notes, task, j) ==
  /\ Updates(notes, task, j)
  /\ \A k \in 1..Len(notes) : Updates(notes, task, k) => k <= j

StatusOf(entries, notes) ==
  \A i \in 1..Len(entries) :
    /\ \A j \in 1..Len(notes) : First(entries, i) /\ LastUpdate(notes, entries[i], j)
         => entries[i].status = notes[j].action
    /\ ~First(entries, i) => entries[i].status = "pending"
    /\ (\A j \in 1..Len(notes) : ~Updates(notes, entries[i], j))
         => entries[i].status = "pending"

StatusKept == ~store["tasks"].torn => StatusOf(store["tasks"].entries, written["tasks"])

BookInv ==
  /\ BookTypes /\ InOrder /\ CopyCurrent
  /\ \A f \in {"memories", "tasks"} : ListKept(f)
  /\ StatusKept

\* Every non-empty set of numbers has a least one.
LEMMA LeastNumber ==
  ASSUME NEW S \in SUBSET Nat, S # {}
  PROVE  \E m \in S : \A k \in S : m <= k
<1>1. IsWellFoundedOn(OpToRel(<, Nat), Nat)  BY NatLessThanWellFounded
<1>2. PICK m \in S : \A k \in S : ~ (<<k, m>> \in OpToRel(<, Nat))
  BY <1>1, WFMin
<1>3. \A k \in S : ~(k < m)
  BY <1>2 DEF OpToRel
<1>4. \A k \in S : m <= k  BY <1>3
<1> QED  BY <1>2, <1>4, Zenon

\* A bounded set of numbers has a greatest one.
LEMMA GreatestNumber ==
  ASSUME NEW n \in Nat, NEW S \in SUBSET (1..n), S # {}
  PROVE  \E m \in S : \A k \in S : k <= m
<1> DEFINE T == {u \in Nat : \A k \in S : k <= u}
<1>1. n \in T  OBVIOUS
<1>2. PICK u \in T : \A v \in T : u <= v  BY <1>1, LeastNumber
<1>3. u \in Nat /\ \A k \in S : k <= u  BY <1>2
<1>4. u \in S
  <2> SUFFICES ASSUME u \notin S  PROVE FALSE  OBVIOUS
  <2>1. PICK k \in S : TRUE  OBVIOUS
  <2>2. k \in 1..n /\ k <= u  BY <1>3
  <2>3. PICK v : v = u - 1  OBVIOUS
  <2>4. v \in Nat /\ v < u  BY <1>3, <2>2, <2>3
  <2>5. \A l \in S : l <= v
    <3> SUFFICES ASSUME NEW l \in S  PROVE l <= v  OBVIOUS
    <3>1. l \in 1..n /\ l <= u /\ l # u  BY <1>3
    <3> QED  BY <1>3, <2>3, <3>1
  <2>6. v \in T  BY <2>4, <2>5
  <2> QED  BY <1>2, <1>3, <2>4, <2>6
<1> QED  BY <1>3, <1>4, Zenon

\* update_status changes the status of the first task of that id and no more.
LEMMA StatusOfFirst ==
  ASSUME NEW list \in Seq(BookEntry), NEW id, NEW status \in {"done", "progress"},
         NEW r, r = Controller!WithStatus(list, id, status)
  PROVE  /\ r \in Seq(BookEntry) /\ Len(r) = Len(list)
         /\ \A i \in 1..Len(list) :
              /\ r[i].id = list[i].id /\ r[i].at = list[i].at
              /\ r[i].status = IF list[i].id = id /\ First(list, i) THEN status ELSE list[i].status
<1> DEFINE I == {i \in 1..Len(list) : list[i].id = id}
           n == Controller!SelectInSeq(list, LAMBDA t : t.id = id)
<1>1. n = IF I # {} THEN Controller!Min(I) ELSE 0
  BY DEF Controller!SelectInSeq
<1>2. I # {} => n \in I /\ \A k \in I : n <= k
  <2> SUFFICES ASSUME I # {}  PROVE n \in I /\ \A k \in I : n <= k
    OBVIOUS
  <2>1. I \in SUBSET Nat  OBVIOUS
  <2>2. \E m \in I : \A k \in I : m <= k  BY <2>1, LeastNumber
  <2>3. Controller!Min(I) \in I /\ \A k \in I : Controller!Min(I) <= k
    BY <2>2 DEF Controller!Min
  <2> QED  BY <1>1, <2>3
<1>3. r = IF n = 0 THEN list ELSE [list EXCEPT ![n].status = status]
  BY DEF Controller!WithStatus
<1>4. I = {} => n = 0  BY <1>1
<1>5. Len(list) \in Nat /\ DOMAIN list = 1..Len(list)  BY LenProperties
<1> HIDE DEF n
<1>6. CASE I = {}
  <2>1. r = list  BY <1>3, <1>4, <1>6
  <2> QED  BY <1>6, <2>1
<1>7. CASE I # {}
  <2>1. n \in 1..Len(list) /\ list[n].id = id /\ \A k \in I : n <= k  BY <1>2, <1>7
  <2>2. r = [list EXCEPT ![n] = [list[n] EXCEPT !.status = status]]
    BY <1>3, <1>5, <2>1
  <2>3. list[n] \in BookEntry  BY <1>5, <2>1
  <2>4. [list[n] EXCEPT !.status = status] \in BookEntry  BY <2>3 DEF BookEntry
  <2>5. r \in Seq(BookEntry) /\ Len(r) = Len(list)  BY <1>5, <2>1, <2>2, <2>4
  <2>6. \A i \in 1..Len(list) : list[i].id = id /\ First(list, i) <=> i = n
    <3>1. ASSUME NEW i \in 1..Len(list), list[i].id = id, First(list, i)
          PROVE  i = n
      <4>1. i \in I /\ n <= i  BY <2>1, <3>1
      <4>2. n < i => n \in 1..i - 1  BY <1>5, <2>1
      <4> QED  BY <1>5, <2>1, <3>1, <4>1, <4>2 DEF First
    <3>2. First(list, n)
      <4> SUFFICES ASSUME NEW k \in 1..n - 1, list[k].id = list[n].id  PROVE FALSE
        BY DEF First
      <4>1. k \in I  BY <1>5, <2>1
      <4> QED  BY <1>5, <2>1, <4>1
    <3> QED  BY <2>1, <3>1, <3>2
  <2>7. ASSUME NEW i \in 1..Len(list)
        PROVE  /\ r[i].id = list[i].id /\ r[i].at = list[i].at
               /\ r[i].status = IF list[i].id = id /\ First(list, i) THEN status ELSE list[i].status
    <3>1. CASE i = n  BY <1>5, <2>1, <2>2, <2>3, <2>6, <3>1 DEF BookEntry
    <3>2. CASE i # n
      <4>1. r[i] = list[i]  BY <1>5, <2>1, <2>2, <3>2
      <4> QED  BY <2>6, <3>2, <4>1
    <3> QED  BY <3>1, <3>2
  <2> QED  BY <2>5, <2>7
<1> QED  BY <1>6, <1>7

\* What one more note does to a sequence of them.
LEMMA OneMore ==
  ASSUME NEW S, NEW s \in Seq(S), NEW e \in S, NEW n, n = Len(s) + 1
  PROVE  /\ n \in Nat /\ 1..n = (1..Len(s)) \cup {n} /\ n \notin 1..Len(s) /\ n \in 1..n
         /\ \A i \in 1..Len(s) : i \in 1..n /\ i < n
         /\ Append(s, e) \in Seq(S) /\ Len(Append(s, e)) = n
         /\ Append(s, e)[n] = e /\ \A i \in 1..Len(s) : Append(s, e)[i] = s[i]
<1>1. Len(s) \in Nat  BY LenProperties
<1> QED  BY <1>1, AppendProperties

\* A sequence in rising order stays so with a later note after it.
LEMMA RisingAppend ==
  ASSUME NEW S, NEW s \in Seq(S), NEW e \in S, Rising(s),
         \A i \in 1..Len(s) : s[i].at < e.at
  PROVE  Rising(Append(s, e))
<1>1. PICK n : n = Len(s) + 1  OBVIOUS
<1> DEFINE t == Append(s, e)
<1>2. /\ n \in Nat /\ 1..n = (1..Len(s)) \cup {n} /\ n \notin 1..Len(s)
      /\ \A i \in 1..Len(s) : i \in 1..n /\ i < n
      /\ Len(t) = n /\ t[n] = e /\ \A i \in 1..Len(s) : t[i] = s[i]
  BY <1>1, OneMore
<1> HIDE DEF t
<1>3. ASSUME NEW i \in 1..n, NEW j \in 1..n, i < j
      PROVE  t[i].at < t[j].at
  <2>1. i # n  BY <1>2, <1>3
  <2>2. i \in 1..Len(s)  BY <1>2, <2>1
  <2>3. CASE j = n  BY <1>2, <2>2, <2>3
  <2>4. CASE j # n
    <3>1. j \in 1..Len(s)  BY <1>2, <2>4
    <3> QED  BY <1>2, <1>3, <2>2, <3>1 DEF Rising
  <2> QED  BY <2>3, <2>4
<1> QED  BY <1>2, <1>3 DEF Rising, t

\* A note that adds its entry.
LEMMA AddKeeps ==
  ASSUME NEW entries \in Seq(BookEntry), NEW notes \in Seq(BookNote), NEW note \in BookNote,
         NEW e, e = [id |-> note.id, at |-> note.at, status |-> "pending"],
         note.action = "add", \A j \in 1..Len(notes) : notes[j].at < note.at,
         Rising(notes), Rising(entries), SameNotes(entries, notes)
  PROVE  /\ Rising(Append(notes, note)) /\ Rising(Append(entries, e))
         /\ SameNotes(Append(entries, e), Append(notes, note))
         /\ StatusOf(entries, notes) => StatusOf(Append(entries, e), Append(notes, note))
<1>1. e \in BookEntry /\ e.id = note.id /\ e.at = note.at /\ e.status = "pending"
  BY DEF BookEntry, BookNote
<1>2. \A i \in 1..Len(entries) : entries[i].at < e.at
  BY <1>1 DEF SameNotes
<1>3. Rising(Append(notes, note))  BY RisingAppend
<1>4. Rising(Append(entries, e))  BY <1>1, <1>2, RisingAppend
<1>5. PICK n : n = Len(notes) + 1  OBVIOUS
<1>6. PICK m : m = Len(entries) + 1  OBVIOUS
<1>7. PICK N : N = Append(notes, note)  OBVIOUS
<1>8. PICK E : E = Append(entries, e)  OBVIOUS
<1>9. /\ n \in Nat /\ 1..n = (1..Len(notes)) \cup {n} /\ n \notin 1..Len(notes) /\ n \in 1..n
      /\ \A j \in 1..Len(notes) : j \in 1..n /\ j < n
      /\ Len(N) = n /\ N[n] = note /\ \A j \in 1..Len(notes) : N[j] = notes[j]
  BY <1>5, <1>7, OneMore
<1>10. /\ m \in Nat /\ 1..m = (1..Len(entries)) \cup {m} /\ m \notin 1..Len(entries) /\ m \in 1..m
       /\ \A i \in 1..Len(entries) : i \in 1..m /\ i < m
       /\ Len(E) = m /\ E[m] = e /\ \A i \in 1..Len(entries) : E[i] = entries[i]
  BY <1>1, <1>6, <1>8, OneMore
<1>11. SameNotes(E, N)
  <2>1. ASSUME NEW i \in 1..m
        PROVE  \E j \in 1..n : N[j].action = "add" /\ N[j].id = E[i].id /\ N[j].at = E[i].at
    <3>1. CASE i = m  BY <1>1, <1>9, <1>10, <3>1
    <3>2. CASE i \in 1..Len(entries)
      <4>1. PICK j \in 1..Len(notes) :
              notes[j].action = "add" /\ notes[j].id = entries[i].id /\ notes[j].at = entries[i].at
        BY <3>2 DEF SameNotes
      <4>2. j \in 1..n /\ N[j] = notes[j] /\ E[i] = entries[i]  BY <1>9, <1>10, <3>2
      <4> QED  BY <4>1, <4>2
    <3> QED  BY <1>10, <3>1, <3>2
  <2>2. ASSUME NEW j \in 1..n, N[j].action = "add"
        PROVE  \E i \in 1..m : N[j].id = E[i].id /\ N[j].at = E[i].at
    <3>1. CASE j = n  BY <1>1, <1>9, <1>10, <3>1
    <3>2. CASE j \in 1..Len(notes)
      <4>1. N[j] = notes[j]  BY <1>9, <3>2
      <4>2. PICK i \in 1..Len(entries) : notes[j].id = entries[i].id /\ notes[j].at = entries[i].at
        BY <2>2, <3>2, <4>1 DEF SameNotes
      <4>3. i \in 1..m /\ E[i] = entries[i]  BY <1>10
      <4> QED  BY <4>1, <4>2, <4>3
    <3> QED  BY <1>9, <3>1, <3>2
  <2> QED  BY <1>9, <1>10, <2>1, <2>2 DEF SameNotes
<1>12. ASSUME StatusOf(entries, notes)
       PROVE  StatusOf(E, N)
  <2> SUFFICES ASSUME NEW i \in 1..m
               PROVE  /\ \A j \in 1..n : First(E, i) /\ LastUpdate(N, E[i], j)
                           => E[i].status = N[j].action
                      /\ ~First(E, i) => E[i].status = "pending"
                      /\ (\A j \in 1..n : ~Updates(N, E[i], j)) => E[i].status = "pending"
    BY <1>9, <1>10 DEF StatusOf
  <2>1. CASE i = m
    <3>1. E[i] = e  BY <1>10, <2>1
    <3>2. \A j \in 1..n : ~Updates(N, E[i], j)
      <4> SUFFICES ASSUME NEW j \in 1..n, N[j].at > e.at, N[j].action # "add"  PROVE FALSE
        BY <3>1 DEF Updates
      <4>1. j \in 1..Len(notes)  BY <1>9
      <4>2. notes[j].at < note.at /\ N[j] = notes[j]  BY <1>9, <4>1
      <4>3. notes[j] \in BookNote /\ note \in BookNote  BY <4>1
      <4>4. notes[j].at \in Nat /\ note.at \in Nat  BY <4>3 DEF BookNote
      <4> QED  BY <1>1, <4>2, <4>4
    <3> QED  BY <1>1, <3>1, <3>2 DEF LastUpdate
  <2>2. CASE i \in 1..Len(entries)
    <3>1. E[i] = entries[i] /\ i < m  BY <1>10, <2>2
    <3>2. First(E, i) <=> First(entries, i)
      <4>1. \A k \in 1..i - 1 : k \in 1..Len(entries)  BY <2>2, LenProperties
      <4> QED  BY <1>10, <3>1, <4>1 DEF First
    <3>3. \A j \in 1..Len(notes) : Updates(N, E[i], j) <=> Updates(notes, entries[i], j)
      BY <1>9, <3>1 DEF Updates
    <3>4. ~Updates(N, E[i], n)  BY <1>9 DEF Updates
    <3>5. ASSUME NEW j \in 1..n, LastUpdate(N, E[i], j)
          PROVE  j \in 1..Len(notes) /\ LastUpdate(notes, entries[i], j)
      <4>1. Updates(N, E[i], j)  BY <3>5 DEF LastUpdate
      <4>2. j \in 1..Len(notes)  BY <1>9, <3>4, <4>1
      <4>3. ASSUME NEW k \in 1..Len(notes), Updates(notes, entries[i], k)
            PROVE  k <= j
        <5>1. k \in 1..Len(N) /\ Updates(N, E[i], k)  BY <1>9, <3>3, <4>3
        <5> QED  BY <3>5, <5>1 DEF LastUpdate
      <4> QED  BY <3>3, <4>1, <4>2, <4>3 DEF LastUpdate
    <3>6. \A j \in 1..n : First(E, i) /\ LastUpdate(N, E[i], j) => E[i].status = N[j].action
      BY <1>9, <1>12, <2>2, <3>1, <3>2, <3>5 DEF StatusOf
    <3>7. ~First(E, i) => E[i].status = "pending"
      BY <1>12, <2>2, <3>1, <3>2 DEF StatusOf
    <3>8. (\A j \in 1..n : ~Updates(N, E[i], j)) => E[i].status = "pending"
      BY <1>9, <1>12, <2>2, <3>1, <3>3 DEF StatusOf
    <3> QED  BY <3>6, <3>7, <3>8
  <2> QED  BY <1>10, <2>1, <2>2
<1> QED  BY <1>3, <1>4, <1>7, <1>8, <1>11, <1>12

\* A note that updates a task.
LEMMA UpdateKeeps ==
  ASSUME NEW entries \in Seq(BookEntry), NEW notes \in Seq(BookNote), NEW note \in BookNote,
         NEW E, E = Controller!WithStatus(entries, note.id, note.action),
         note.action # "add", \A j \in 1..Len(notes) : notes[j].at < note.at,
         Rising(notes), Rising(entries), SameNotes(entries, notes)
  PROVE  /\ Rising(Append(notes, note)) /\ Rising(E)
         /\ SameNotes(E, Append(notes, note))
         /\ StatusOf(entries, notes) => StatusOf(E, Append(notes, note))
<1>1. note.action \in {"done", "progress"}  BY DEF BookNote
<1>2. /\ Len(E) = Len(entries)
      /\ \A i \in 1..Len(entries) :
           /\ E[i].id = entries[i].id /\ E[i].at = entries[i].at
           /\ E[i].status = IF entries[i].id = note.id /\ First(entries, i)
                            THEN note.action ELSE entries[i].status
  BY <1>1, StatusOfFirst
<1>3. PICK n : n = Len(notes) + 1  OBVIOUS
<1>4. PICK N : N = Append(notes, note)  OBVIOUS
<1>5. /\ n \in Nat /\ 1..n = (1..Len(notes)) \cup {n} /\ n \notin 1..Len(notes) /\ n \in 1..n
      /\ \A j \in 1..Len(notes) : j \in 1..n /\ j < n
      /\ Len(N) = n /\ N[n] = note /\ \A j \in 1..Len(notes) : N[j] = notes[j]
  BY <1>3, <1>4, OneMore
<1>6. Rising(N)  BY <1>4, RisingAppend
<1>7. Rising(E)  BY <1>2 DEF Rising
<1>8. SameNotes(E, N)
  <2>1. ASSUME NEW i \in 1..Len(E)
        PROVE  \E j \in 1..n : N[j].action = "add" /\ N[j].id = E[i].id /\ N[j].at = E[i].at
    <3>1. PICK j \in 1..Len(notes) :
            notes[j].action = "add" /\ notes[j].id = entries[i].id /\ notes[j].at = entries[i].at
      BY <1>2 DEF SameNotes
    <3>2. j \in 1..n /\ N[j] = notes[j]  BY <1>5
    <3> QED  BY <1>2, <3>1, <3>2
  <2>2. ASSUME NEW j \in 1..n, N[j].action = "add"
        PROVE  \E i \in 1..Len(E) : N[j].id = E[i].id /\ N[j].at = E[i].at
    <3>1. j \in 1..Len(notes) /\ N[j] = notes[j]  BY <1>5, <2>2
    <3>2. PICK i \in 1..Len(entries) : notes[j].id = entries[i].id /\ notes[j].at = entries[i].at
      BY <2>2, <3>1 DEF SameNotes
    <3> QED  BY <1>2, <3>1, <3>2
  <2>3. Len(N) = n  BY <1>5
  <2> QED  BY <2>1, <2>2, <2>3 DEF SameNotes
<1>9. ASSUME StatusOf(entries, notes)
      PROVE  StatusOf(E, N)
  <2> SUFFICES ASSUME NEW i \in 1..Len(entries)
               PROVE  /\ \A j \in 1..n : First(E, i) /\ LastUpdate(N, E[i], j)
                           => E[i].status = N[j].action
                      /\ ~First(E, i) => E[i].status = "pending"
                      /\ (\A j \in 1..n : ~Updates(N, E[i], j)) => E[i].status = "pending"
    BY <1>2, <1>5 DEF StatusOf
  <2>1. First(E, i) <=> First(entries, i)
    <3>1. \A k \in 1..i - 1 : k \in 1..Len(entries)  BY LenProperties
    <3> QED  BY <1>2, <3>1 DEF First
  <2>2. \A j \in 1..Len(notes) : Updates(N, E[i], j) <=> Updates(notes, entries[i], j)
    BY <1>2, <1>5 DEF Updates
  <2>3. Updates(N, E[i], n) <=> entries[i].id = note.id
    <3>1. PICK j \in 1..Len(notes) : notes[j].at = entries[i].at  BY DEF SameNotes
    <3>2. notes[j] \in BookNote /\ note \in BookNote  OBVIOUS
    <3>3. notes[j].at < note.at /\ notes[j].at \in Nat /\ note.at \in Nat  BY <3>2 DEF BookNote
    <3>4. note.at > entries[i].at  BY <3>1, <3>3
    <3> QED  BY <1>2, <1>5, <3>4 DEF Updates
  <2>4. CASE entries[i].id = note.id
    <3>1. Updates(N, E[i], n)  BY <2>3, <2>4
    <3>2. ASSUME NEW j \in 1..n, LastUpdate(N, E[i], j)  PROVE j = n
      <4>1. n <= j  BY <1>5, <3>1, <3>2 DEF LastUpdate
      <4> QED  BY <1>5, <4>1
    <3>3. First(E, i) => E[i].status = note.action  BY <1>2, <2>1, <2>4
    <3>4. ~First(E, i) => E[i].status = "pending"
      BY <1>2, <1>9, <2>1 DEF StatusOf
    <3> QED  BY <1>5, <3>1, <3>2, <3>3, <3>4
  <2>5. CASE entries[i].id # note.id
    <3>1. E[i].status = entries[i].status  BY <1>2, <2>5
    <3>2. ~Updates(N, E[i], n)  BY <2>3, <2>5
    <3>3. ASSUME NEW j \in 1..n, LastUpdate(N, E[i], j)
          PROVE  j \in 1..Len(notes) /\ LastUpdate(notes, entries[i], j)
      <4>1. Updates(N, E[i], j)  BY <3>3 DEF LastUpdate
      <4>2. j \in 1..Len(notes)  BY <1>5, <3>2, <4>1
      <4>3. ASSUME NEW k \in 1..Len(notes), Updates(notes, entries[i], k)
            PROVE  k <= j
        <5>1. k \in 1..Len(N) /\ Updates(N, E[i], k)  BY <1>5, <2>2, <4>3
        <5> QED  BY <3>3, <5>1 DEF LastUpdate
      <4> QED  BY <2>2, <4>1, <4>2, <4>3 DEF LastUpdate
    <3>4. \A j \in 1..n : First(E, i) /\ LastUpdate(N, E[i], j) => E[i].status = N[j].action
      BY <1>5, <1>9, <2>1, <3>1, <3>3 DEF StatusOf
    <3>5. ~First(E, i) => E[i].status = "pending"  BY <1>9, <2>1, <3>1 DEF StatusOf
    <3>6. (\A j \in 1..n : ~Updates(N, E[i], j)) => E[i].status = "pending"
      BY <1>5, <1>9, <2>2, <3>1 DEF StatusOf
    <3> QED  BY <3>4, <3>5, <3>6
  <2> QED  BY <2>4, <2>5
<1> QED  BY <1>4, <1>6, <1>7, <1>8, <1>9

\* The notebook is empty.
LEMMA BookInit ==
  ASSUME Controller!Init
  PROVE  BookInv
<1> USE DEF Controller!Init
<1>1. <<>> \in Seq(BookEntry) /\ <<>> \in Seq(BookNote) /\ Len(<<>>) = 0  BY EmptySeq
<1>2. 0 \in 0..MaxNotes /\ 0 \in 0..MaxFaults  BY BoundsAssumption
<1>3. BookTypes
  BY <1>1, <1>2 DEF BookTypes, Pending, OnlyAdds, Controller!Nothing
<1>4. InOrder  BY <1>1 DEF InOrder, Rising, Controller!Files
<1>5. CopyCurrent  BY DEF CopyCurrent, Controller!Nothing
<1>6. \A f \in {"memories", "tasks"} : ListKept(f)
  BY <1>1 DEF ListKept, Rising, SameNotes, Controller!Files
<1>7. StatusKept  BY <1>1 DEF StatusKept, StatusOf, Controller!Files
<1> QED  BY <1>3, <1>4, <1>5, <1>6, <1>7 DEF BookInv

\* The first note of several, and the rest.
LEMMA RestOf ==
  ASSUME NEW s \in Seq(BookNote), s # <<>>, Rising(s)
  PROVE  /\ Head(s) \in BookNote /\ Head(s) = s[1] /\ 1 \in 1..Len(s)
         /\ Tail(s) \in Seq(BookNote) /\ Rising(Tail(s))
         /\ \A j \in 1..Len(Tail(s)) :
              /\ j + 1 \in 1..Len(s) /\ Tail(s)[j] = s[j + 1]
              /\ Head(s).at < Tail(s)[j].at
<1>1. Len(s) \in Nat \ {0}  BY EmptySeq
<1>2. /\ Head(s) \in BookNote /\ Head(s) = s[1] /\ 1 \in 1..Len(s)
      /\ Tail(s) \in Seq(BookNote) /\ Len(Tail(s)) = Len(s) - 1
      /\ \A j \in 1..Len(Tail(s)) : Tail(s)[j] = s[j + 1]
  BY <1>1, HeadTailProperties
<1>3. \A j \in 1..Len(Tail(s)) : j + 1 \in 1..Len(s) /\ 1 < j + 1
  BY <1>1, <1>2
<1>4. \A j \in 1..Len(Tail(s)) : Head(s).at < Tail(s)[j].at
  BY <1>2, <1>3 DEF Rising
<1>5. Rising(Tail(s))
  <2> SUFFICES ASSUME NEW i \in 1..Len(Tail(s)), NEW j \in 1..Len(Tail(s)), i < j
               PROVE  Tail(s)[i].at < Tail(s)[j].at
    BY DEF Rising
  <2>1. i + 1 < j + 1  OBVIOUS
  <2> QED  BY <1>2, <1>3, <2>1 DEF Rising
<1> QED  BY <1>2, <1>3, <1>4, <1>5

\* What the types say of the one controller.
LEMMA BookFacts ==
  ASSUME BookTypes
  PROVE  /\ todo[1] \in Seq(BookNote) /\ OnlyAdds(todo[1])
         /\ copy[1].known \in BOOLEAN /\ copy[1].list \in Seq(BookEntry)
         /\ \A f \in Controller!Files :
              /\ store[f].torn \in BOOLEAN /\ store[f].entries \in Seq(BookEntry)
              /\ written[f] \in Seq(BookNote)
              /\ f # "tasks" => Pending(store[f].entries)
BY DEF BookTypes

\* The first note has been dealt with; the file it is for may have changed.
LEMMA SkipKeeps ==
  ASSUME BookTypes, InOrder, todo[1] # <<>>, Controller!Skip(1), heard' = heard
  PROVE  /\ todo' \in [{1} -> Seq(BookNote)] /\ OnlyAdds(todo'[1]) /\ Rising(todo'[1])
         /\ \A i \in 1..Len(todo'[1]) : todo'[1][i].at <= heard /\ Head(todo[1]).at < todo'[1][i].at
         /\ copy' \in [{1} -> [known : BOOLEAN, list : Seq(BookEntry)]]
         /\ ~copy'[1].known
         /\ \A f \in Controller!Files : \A i \in 1..Len(written[f]) :
              /\ written[f][i].at < Head(todo[1]).at
              /\ \A j \in 1..Len(todo'[1]) : written[f][i].at < todo'[1][j].at
<1>1. todo \in [{1} -> Seq(BookNote)] /\ copy \in [{1} -> [known : BOOLEAN, list : Seq(BookEntry)]]
  BY DEF BookTypes
<1>2. PICK s \in Seq(BookNote) : s = todo[1]  BY <1>1
<1>3. Rising(s) /\ OnlyAdds(s) /\ s # <<>>  BY <1>2 DEF InOrder, BookTypes
<1>4. /\ Head(s) \in BookNote /\ Head(s) = s[1] /\ 1 \in 1..Len(s)
      /\ Tail(s) \in Seq(BookNote) /\ Rising(Tail(s))
      /\ \A j \in 1..Len(Tail(s)) :
           /\ j + 1 \in 1..Len(s) /\ Tail(s)[j] = s[j + 1]
           /\ Head(s).at < Tail(s)[j].at
  BY <1>3, RestOf
<1>5. todo' \in [{1} -> Seq(BookNote)] /\ todo'[1] = Tail(s)
  BY <1>1, <1>2, <1>4 DEF Controller!Skip
<1>6. copy'[1] = Controller!Nothing
      /\ copy' \in [{1} -> [known : BOOLEAN, list : Seq(BookEntry)]]
  <2>1. <<>> \in Seq(BookEntry)  OBVIOUS
  <2> QED  BY <1>1, <2>1 DEF Controller!Skip, Controller!Nothing
<1>7. ~copy'[1].known  BY <1>6 DEF Controller!Nothing
<1>8. OnlyAdds(Tail(s))  BY <1>3, <1>4 DEF OnlyAdds
<1>9. \A j \in 1..Len(Tail(s)) : Tail(s)[j].at <= heard
  BY <1>2, <1>4 DEF InOrder
<1>10. \A f \in Controller!Files : \A i \in 1..Len(written[f]) :
         /\ written[f][i].at < Head(s).at
         /\ \A j \in 1..Len(Tail(s)) : written[f][i].at < Tail(s)[j].at
  BY <1>2, <1>4 DEF InOrder
<1> QED  BY <1>2, <1>4, <1>5, <1>6, <1>7, <1>8, <1>9, <1>10

\* The lists are as they were but one, which may have been cut short.
LEMMA CutKeeps ==
  ASSUME BookInv, UNCHANGED store \/ Controller!CutShort(1), UNCHANGED written
  PROVE  /\ store' \in [Controller!Files -> [torn : BOOLEAN, entries : Seq(BookEntry)]]
         /\ \A f \in Controller!Files : f # "tasks" => Pending(store'[f].entries)
         /\ \A f \in {"memories", "tasks"} : ListKept(f)'
         /\ StatusKept'
<1>1. /\ store \in [Controller!Files -> [torn : BOOLEAN, entries : Seq(BookEntry)]]
      /\ \A f \in Controller!Files : f # "tasks" => Pending(store[f].entries)
      /\ \A f \in {"memories", "tasks"} : ListKept(f)
      /\ StatusKept /\ CopyCurrent /\ InOrder
  BY DEF BookInv, BookTypes
<1>2. CASE UNCHANGED store
  BY <1>1, <1>2 DEF ListKept, StatusKept
<1>3. CASE Controller!CutShort(1)
  <2>1. copy[1].list \in Seq(BookEntry) /\ todo[1] \in Seq(BookNote)
    BY BookFacts DEF BookInv
  <2>2. PICK list \in Seq(BookEntry) : list = copy[1].list  BY <2>1
  <2>3. copy[1].known /\ todo[1] # <<>>  BY <1>1, <1>3 DEF CopyCurrent, Controller!CutShort
  <2>4. PICK f : f = Head(todo[1]).file  OBVIOUS
  <2>5. f \in Controller!Files
    <3>1. Head(todo[1]) \in BookNote  BY <2>1, <2>3, HeadTailProperties
    <3> QED  BY <2>4, <3>1 DEF BookNote
  <2>6. PICK n \in 0..Len(list) :
          store' = [store EXCEPT ![f] = [torn |-> TRUE, entries |-> SubSeq(list, 1, n)]]
    BY <1>3, <2>2, <2>4 DEF Controller!CutShort, Controller!File
  <2>7. PICK cut : cut = SubSeq(list, 1, n)  OBVIOUS
  <2>8. /\ cut \in Seq(BookEntry)
        /\ \A i \in 1..Len(cut) : i \in 1..Len(list) /\ cut[i] = list[i]
    <3>1. Len(list) \in Nat  BY LenProperties
    <3>2. n \in Int /\ \A i \in 1..n : i \in 1..Len(list) /\ list[i] \in BookEntry
      BY <3>1
    <3>3. /\ cut \in Seq(BookEntry)
          /\ Len(cut) = IF 1 <= n THEN n - 1 + 1 ELSE 0
          /\ \A i \in 1..n - 1 + 1 : cut[i] = list[1 + i - 1]
      BY <2>7, <3>2, SubSeqProperties
    <3> QED  BY <3>1, <3>3
  <2>9. store'[f] = [torn |-> TRUE, entries |-> cut] /\ \A g \in Controller!Files \ {f} : store'[g] = store[g]
    BY <1>1, <2>5, <2>6, <2>7
  <2>10. store' \in [Controller!Files -> [torn : BOOLEAN, entries : Seq(BookEntry)]]
    BY <1>1, <2>5, <2>6, <2>7, <2>8
  <2>11. ASSUME NEW g \in Controller!Files, g # "tasks"
         PROVE  Pending(store'[g].entries)
    <3>1. CASE g = f
      <4>1. Pending(list)  BY <1>1, <2>2, <2>3, <2>4, <2>11, <3>1 DEF CopyCurrent
      <4>2. Pending(cut)  BY <2>8, <4>1 DEF Pending
      <4> QED  BY <2>9, <3>1, <4>2
    <3>2. CASE g # f  BY <1>1, <2>9, <2>11, <3>2
    <3> QED  BY <3>1, <3>2
  <2>12. ASSUME NEW g \in {"memories", "tasks"}
         PROVE  ListKept(g)'
    <3>1. g \in Controller!Files /\ ListKept(g)  BY <1>1, <2>12 DEF Controller!Files
    <3>2. CASE g = f  BY <2>9, <3>1, <3>2 DEF ListKept
    <3>3. CASE g # f  BY <2>9, <3>1, <3>3 DEF ListKept
    <3> QED  BY <3>2, <3>3
  <2>13. StatusKept'
    <3>1. "tasks" \in Controller!Files  BY DEF Controller!Files
    <3>2. CASE f = "tasks"  BY <2>9, <3>2 DEF StatusKept
    <3>3. CASE f # "tasks"  BY <1>1, <2>9, <3>1, <3>3 DEF StatusKept
    <3> QED  BY <3>2, <3>3
  <2> QED  BY <2>10, <2>11, <2>12, <2>13
<1> QED  BY <1>2, <1>3

\* A note given up, or all of them: the lists hold what they held.
LEMMA GivenUpKeeps ==
  ASSUME BookInv, UNCHANGED <<heard, written>>, faults' \in 0..MaxFaults,
         UNCHANGED store \/ Controller!CutShort(1),
         todo[1] # <<>>,
         \/ Controller!Skip(1)
         \/ /\ todo' = [todo EXCEPT ![1] = <<>>]
            /\ copy' = [copy EXCEPT ![1] = Controller!Nothing]
  PROVE  BookInv'
<1>1. BookTypes /\ InOrder  BY DEF BookInv
<1>2. /\ store' \in [Controller!Files -> [torn : BOOLEAN, entries : Seq(BookEntry)]]
      /\ \A f \in Controller!Files : f # "tasks" => Pending(store'[f].entries)
      /\ \A f \in {"memories", "tasks"} : ListKept(f)'
      /\ StatusKept'
  BY CutKeeps
<1>3. heard' = heard /\ written' = written  OBVIOUS
<1> DEFINE Left2 ==
      /\ todo' \in [{1} -> Seq(BookNote)] /\ OnlyAdds(todo'[1]) /\ Rising(todo'[1])
      /\ \A i \in 1..Len(todo'[1]) : todo'[1][i].at <= heard
      /\ copy' \in [{1} -> [known : BOOLEAN, list : Seq(BookEntry)]]
      /\ ~copy'[1].known
      /\ \A f \in Controller!Files : \A i \in 1..Len(written[f]) :
           \A j \in 1..Len(todo'[1]) : written[f][i].at < todo'[1][j].at
<1>4. ASSUME Controller!Skip(1)  PROVE Left2
  BY <1>1, <1>3, <1>4, SkipKeeps
<1>5. ASSUME todo' = [todo EXCEPT ![1] = <<>>], copy' = [copy EXCEPT ![1] = Controller!Nothing]
      PROVE  Left2
  <2>1. <<>> \in Seq(BookEntry) /\ <<>> \in Seq(BookNote) /\ Len(<<>>) = 0  BY EmptySeq
  <2>2. todo \in [{1} -> Seq(BookNote)] /\ copy \in [{1} -> [known : BOOLEAN, list : Seq(BookEntry)]]
    BY <1>1 DEF BookTypes
  <2>3. todo' \in [{1} -> Seq(BookNote)] /\ todo'[1] = <<>>  BY <1>5, <2>1, <2>2
  <2>4. copy' \in [{1} -> [known : BOOLEAN, list : Seq(BookEntry)]] /\ ~copy'[1].known
    BY <1>5, <2>1, <2>2 DEF Controller!Nothing
  <2> QED  BY <2>1, <2>3, <2>4 DEF OnlyAdds, Rising
<1>6. Left2  BY <1>4, <1>5
<1> HIDE DEF Left2
<1>7. BookTypes'
  BY <1>1, <1>2, <1>3, <1>6 DEF BookTypes, Left2
<1>8. InOrder'
  <2>1. Rising(todo[1])'  BY <1>6 DEF Left2
  <2>2. \A i \in 1..Len(todo'[1]) : todo'[1][i].at <= heard'  BY <1>3, <1>6 DEF Left2
  <2>3. ASSUME NEW f \in Controller!Files, NEW i \in 1..Len(written'[f])
        PROVE  /\ written'[f][i].at <= heard'
               /\ \A j \in 1..Len(todo'[1]) : written'[f][i].at < todo'[1][j].at
    <3>1. written[f][i].at <= heard  BY <1>1, <1>3 DEF InOrder
    <3>2. \A j \in 1..Len(todo'[1]) : written[f][i].at < todo'[1][j].at
      BY <1>3, <1>6 DEF Left2
    <3> QED  BY <1>3, <3>1, <3>2
  <2> QED  BY <2>1, <2>2, <2>3 DEF InOrder
<1>9. CopyCurrent'  BY <1>6 DEF CopyCurrent, Left2
<1> QED  BY <1>2, <1>7, <1>8, <1>9 DEF BookInv

\* What a job noted comes after all that was written down.
LEMMA HearKeeps ==
  ASSUME BookInv, Controller!Hear(1)
  PROVE  BookInv'
<1>1. BookTypes /\ InOrder /\ CopyCurrent  BY DEF BookInv
<1>2. /\ todo[1] = <<>> /\ store' = store /\ copy' = copy /\ written' = written /\ faults' = faults
  BY DEF Controller!Hear
<1>3. ~copy[1].known  BY <1>1, <1>2 DEF CopyCurrent
<1>4. PICK o \in Outputs :
        /\ heard + Len(o) <= MaxNotes /\ heard' = heard + Len(o)
        /\ todo' = [todo EXCEPT ![1] =
             [i \in DOMAIN o |-> [file |-> o[i].file, action |-> o[i].action,
                                  id |-> o[i].id, at |-> heard + i]]]
  BY DEF Controller!Hear
<1> DEFINE N == [file : Controller!Files, action : {"add", "done", "progress"}, id : STRING]
<1>5. o \in Seq(N) /\ \A i \in DOMAIN o : o[i].file # "tasks" => o[i].action = "add"
  BY OutputsAssumption
<1>6. Len(o) \in Nat /\ DOMAIN o = 1..Len(o)  BY <1>5, LenProperties
<1>7. heard \in Nat /\ heard <= MaxNotes /\ MaxNotes \in Nat
  BY <1>1, BoundsAssumption DEF BookTypes
<1>8. PICK s : s = [i \in 1..Len(o) |-> [file |-> o[i].file, action |-> o[i].action,
                                         id |-> o[i].id, at |-> heard + i]]
  OBVIOUS
<1>9. \A i \in 1..Len(o) : o[i] \in N
  <2> HIDE DEF N
  <2> QED  BY <1>5, ElementOfSeq
<1>10. \A i \in 1..Len(o) : s[i] \in BookNote
  <2> SUFFICES ASSUME NEW i \in 1..Len(o)  PROVE s[i] \in BookNote  OBVIOUS
  <2>1. heard + i \in Nat  BY <1>6, <1>7
  <2> QED  BY <1>8, <1>9, <2>1 DEF BookNote
<1>11. s \in Seq(BookNote) /\ Len(s) = Len(o)
  <2>1. s \in [1..Len(o) -> BookNote]  BY <1>8, <1>10
  <2> QED  BY <1>6, <2>1
<1>12. todo' = [todo EXCEPT ![1] = s]  BY <1>4, <1>6, <1>8
<1>13. todo' \in [{1} -> Seq(BookNote)] /\ todo'[1] = s  BY <1>1, <1>11, <1>12 DEF BookTypes
<1>14. \A i \in 1..Len(s) : s[i].at = heard + i /\ s[i].file = o[i].file /\ s[i].action = o[i].action
  BY <1>8, <1>11
<1>15. OnlyAdds(s)  BY <1>5, <1>6, <1>11, <1>14 DEF OnlyAdds
<1>16. heard' = heard + Len(o) /\ heard' \in 0..MaxNotes  BY <1>4, <1>6, <1>7
<1>17. BookTypes'
  BY <1>1, <1>2, <1>13, <1>15, <1>16 DEF BookTypes
<1>18. Rising(s)  BY <1>6, <1>7, <1>11, <1>14 DEF Rising
<1>19. \A i \in 1..Len(s) : s[i].at <= heard'  BY <1>6, <1>7, <1>11, <1>14, <1>16
<1>20. ASSUME NEW f \in Controller!Files, NEW i \in 1..Len(written[f])
       PROVE  /\ written[f][i].at <= heard'
              /\ \A j \in 1..Len(s) : written[f][i].at < s[j].at
  <2>1. written[f][i] \in BookNote  BY <1>1 DEF BookTypes
  <2>2. written[f][i].at \in Nat /\ written[f][i].at <= heard
    BY <1>1, <2>1 DEF InOrder, BookNote
  <2> QED  BY <1>6, <1>7, <1>11, <1>14, <1>16, <2>2
<1>21. InOrder'
  <2>1. Rising(todo[1])'  BY <1>13, <1>18
  <2> QED  BY <1>2, <1>13, <1>19, <1>20, <2>1 DEF InOrder
<1>22. CopyCurrent'  BY <1>2, <1>3 DEF CopyCurrent
<1>23. (\A f \in {"memories", "tasks"} : ListKept(f)') /\ StatusKept'
  BY <1>2 DEF BookInv, ListKept, StatusKept
<1> QED  BY <1>17, <1>21, <1>22, <1>23 DEF BookInv

\* Reading leaves everything but the copy.
LEMMA GetKeeps ==
  ASSUME BookInv, UNCHANGED <<store, todo, heard, written>>, faults' \in 0..MaxFaults,
         todo[1] # <<>>, NEW list \in Seq(BookEntry),
         copy' = [copy EXCEPT ![1] = Controller!Known(list)],
         Head(todo[1]).file # "tasks" => Pending(list),
         Head(todo[1]).file # "scratchpad" =>
           ~store[Head(todo[1]).file].torn /\ list = store[Head(todo[1]).file].entries
  PROVE  BookInv'
<1>1. BookTypes /\ InOrder  BY DEF BookInv
<1>2. store' = store /\ todo' = todo /\ heard' = heard /\ written' = written  OBVIOUS
<1>3. /\ copy' \in [{1} -> [known : BOOLEAN, list : Seq(BookEntry)]]
      /\ copy'[1].list = list
  BY <1>1 DEF BookTypes, Controller!Known
<1>4. BookTypes'  BY <1>1, <1>2, <1>3 DEF BookTypes
<1>5. InOrder'  BY <1>1, <1>2 DEF InOrder
<1>6. CopyCurrent'  BY <1>2, <1>3 DEF CopyCurrent
<1>7. (\A f \in {"memories", "tasks"} : ListKept(f)') /\ StatusKept'
  BY <1>2 DEF BookInv, ListKept, StatusKept
<1> QED  BY <1>4, <1>5, <1>6, <1>7 DEF BookInv

\* A read, and a read that fails.
LEMMA ReadsKeep ==
  ASSUME BookInv, Controller!Get(1) \/ Controller!GetFails(1)
  PROVE  BookInv'
<1>1. BookTypes  BY DEF BookInv
<1>2. todo[1] # <<>> /\ store' = store /\ heard' = heard /\ written' = written
  BY DEF Controller!Get, Controller!GetFails
<1>3. PICK f : f = Head(todo[1]).file  OBVIOUS
<1>4. f \in Controller!Files
  <2>1. Head(todo[1]) \in BookNote  BY <1>1, <1>2, BookFacts, HeadTailProperties
  <2> QED  BY <1>3, <2>1 DEF BookNote
<1>5. store[f].entries \in Seq(BookEntry) /\ (f # "tasks" => Pending(store[f].entries))
  BY <1>1, <1>4, BookFacts
<1>6. CASE Controller!Get(1)
  <2>1. /\ copy' = [copy EXCEPT ![1] = Controller!Known(store[f].entries)]
        /\ todo' = todo /\ faults' = faults
        /\ f # "scratchpad" => ~store[f].torn
    BY <1>3, <1>6 DEF Controller!Get, Controller!File, Controller!Readable
  <2>2. faults' \in 0..MaxFaults  BY <1>1, <2>1 DEF BookTypes
  <2> QED  BY <1>2, <1>3, <1>5, <2>1, <2>2, GetKeeps
<1>7. CASE Controller!GetFails(1)
  <2>1. faults' \in 0..MaxFaults
    <3>1. faults \in 0..MaxFaults /\ MaxFaults \in Nat  BY <1>1, BoundsAssumption DEF BookTypes
    <3>2. faults' = faults \/ (faults < MaxFaults /\ faults' = faults + 1)
      BY <1>7 DEF Controller!GetFails, Controller!Fault
    <3> QED  BY <3>1, <3>2
  <2>2. CASE f = "scratchpad"
    <3>1. copy' = [copy EXCEPT ![1] = Controller!Known(<<>>)] /\ todo' = todo
      BY <1>3, <1>7, <2>2 DEF Controller!GetFails, Controller!Unread, Controller!File
    <3>2. <<>> \in Seq(BookEntry) /\ Pending(<<>>)  BY EmptySeq DEF Pending
    <3> QED  BY <1>2, <1>3, <2>1, <2>2, <3>1, <3>2, GetKeeps
  <2>3. CASE f # "scratchpad"
    <3>1. Controller!Skip(1)
      BY <1>3, <1>7, <2>3 DEF Controller!GetFails, Controller!Unread, Controller!File
    <3> QED  BY <1>2, <2>1, <3>1, GivenUpKeeps
  <2> QED  BY <2>2, <2>3
<1> QED  BY <1>6, <1>7

\* A note of a list is put down on what the list holds.
LEMMA PutInList ==
  ASSUME BookInv, Controller!Put(1), NEW f \in {"memories", "tasks"}, f = Head(todo[1]).file
  PROVE  /\ store'[f].entries \in Seq(BookEntry)
         /\ f # "tasks" => Pending(store'[f].entries)
         /\ Rising(written'[f]) /\ Rising(store'[f].entries)
         /\ SameNotes(store'[f].entries, written'[f])
         /\ f = "tasks" => StatusOf(store'["tasks"].entries, written'["tasks"])
<1>1. BookTypes /\ InOrder /\ CopyCurrent  BY DEF BookInv
<1>2. copy[1].known  BY DEF Controller!Put
<1>3. todo[1] # <<>> /\ todo[1] \in Seq(BookNote) /\ OnlyAdds(todo[1])
  BY <1>1, <1>2, BookFacts DEF CopyCurrent
<1>4. PICK note : note = Head(todo[1])  OBVIOUS
<1>5. note \in BookNote /\ note = todo[1][1] /\ 1 \in 1..Len(todo[1])
  BY <1>1, <1>3, <1>4, RestOf DEF InOrder
<1>6. PICK notes \in Seq(BookNote) : notes = written[f]
  BY <1>1, BookFacts DEF Controller!Files
<1>7. PICK entries \in Seq(BookEntry) : entries = store[f].entries
  BY <1>1, BookFacts DEF Controller!Files
<1>8. copy[1].list = entries /\ ~store[f].torn /\ (f # "tasks" => Pending(entries))
  BY <1>1, <1>2, <1>7 DEF CopyCurrent
<1>9. /\ Rising(notes) /\ Rising(entries) /\ SameNotes(entries, notes)
      /\ f = "tasks" => StatusOf(entries, notes)
  BY <1>6, <1>7, <1>8 DEF BookInv, ListKept, StatusKept
<1>10. \A j \in 1..Len(notes) : notes[j].at < note.at
  BY <1>1, <1>5, <1>6 DEF InOrder, Controller!Files
<1>11. /\ store'[f] = [torn |-> FALSE, entries |-> Controller!Changed(entries, note)]
       /\ written'[f] = Append(notes, note)
  <2>1. f \in DOMAIN store /\ f \in DOMAIN written  BY <1>1 DEF BookTypes, Controller!Files
  <2> QED  BY <1>4, <1>6, <1>8, <2>1 DEF Controller!Put
<1>12. PICK E : E = Controller!Changed(entries, note)  OBVIOUS
<1> DEFINE Good ==
      /\ E \in Seq(BookEntry) /\ (f # "tasks" => Pending(E))
      /\ Rising(Append(notes, note)) /\ Rising(E)
      /\ SameNotes(E, Append(notes, note))
      /\ f = "tasks" => StatusOf(E, Append(notes, note))
<1>13. ASSUME note.action = "add"  PROVE Good
  <2>1. PICK e : e = [id |-> note.id, at |-> note.at, status |-> "pending"]  OBVIOUS
  <2>2. E = Append(entries, e)
    BY <1>12, <1>13, <2>1 DEF Controller!Changed, Controller!Entry
  <2>3. e \in BookEntry /\ e.status = "pending"  BY <1>5, <2>1 DEF BookNote, BookEntry
  <2>4. E \in Seq(BookEntry)  BY <2>2, <2>3
  <2>5. Pending(entries) => Pending(E)
    <3>1. PICK n : n = Len(entries) + 1  OBVIOUS
    <3>2. /\ 1..n = (1..Len(entries)) \cup {n} /\ Len(E) = n /\ E[n] = e
          /\ \A i \in 1..Len(entries) : E[i] = entries[i]
      BY <2>2, <2>3, <3>1, OneMore
    <3> QED  BY <2>3, <3>2 DEF Pending
  <2>6. /\ Rising(Append(notes, note)) /\ Rising(E)
        /\ SameNotes(E, Append(notes, note))
        /\ StatusOf(entries, notes) => StatusOf(E, Append(notes, note))
    BY <1>5, <1>9, <1>10, <1>13, <2>1, <2>2, AddKeeps
  <2> QED  BY <1>8, <1>9, <2>4, <2>5, <2>6
<1>14. ASSUME note.action # "add"  PROVE Good
  <2>1. note.file = "tasks"  BY <1>3, <1>5, <1>14 DEF OnlyAdds
  <2>2. f = "tasks" /\ note.action \in {"done", "progress"}  BY <1>4, <1>5, <1>14, <2>1 DEF BookNote
  <2>3. E = Controller!WithStatus(entries, note.id, note.action)
    BY <1>12, <1>14 DEF Controller!Changed
  <2>4. E \in Seq(BookEntry)  BY <2>2, <2>3, StatusOfFirst
  <2>5. /\ Rising(Append(notes, note)) /\ Rising(E)
        /\ SameNotes(E, Append(notes, note))
        /\ StatusOf(entries, notes) => StatusOf(E, Append(notes, note))
    BY <1>5, <1>9, <1>10, <1>14, <2>3, UpdateKeeps
  <2> QED  BY <1>9, <2>2, <2>4, <2>5
<1>15. Good  BY <1>13, <1>14
<1>16. store'[f].entries = E /\ written'[f] = Append(notes, note)  BY <1>11, <1>12
<1>17. f = "tasks" => StatusOf(store'["tasks"].entries, written'["tasks"])
  <2> SUFFICES ASSUME f = "tasks"
               PROVE  StatusOf(store'["tasks"].entries, written'["tasks"])
    OBVIOUS
  <2>1. store'["tasks"].entries = E /\ written'["tasks"] = Append(notes, note)  BY <1>16
  <2>2. StatusOf(E, Append(notes, note))  BY <1>15
  <2> QED  BY <2>1, <2>2
<1>18. E \in Seq(BookEntry) /\ (f # "tasks" => Pending(E)) /\ Rising(Append(notes, note)) /\ Rising(E)
       /\ SameNotes(E, Append(notes, note))
  BY <1>15
<1> HIDE DEF Good
<1> QED  BY <1>16, <1>17, <1>18

\* A scratchpad's entries are only ever added.
LEMMA PutInPad ==
  ASSUME BookInv, Controller!Put(1), Head(todo[1]).file = "scratchpad"
  PROVE  store'["scratchpad"].entries \in Seq(BookEntry) /\ Pending(store'["scratchpad"].entries)
<1>1. BookTypes /\ InOrder /\ CopyCurrent  BY DEF BookInv
<1>2. copy[1].known  BY DEF Controller!Put
<1>3. todo[1] # <<>> /\ todo[1] \in Seq(BookNote) /\ OnlyAdds(todo[1])
  BY <1>1, <1>2, BookFacts DEF CopyCurrent
<1>4. PICK note : note = Head(todo[1])  OBVIOUS
<1>5. note \in BookNote /\ note = todo[1][1] /\ 1 \in 1..Len(todo[1])
  BY <1>1, <1>3, <1>4, RestOf DEF InOrder
<1>6. PICK list \in Seq(BookEntry) : list = copy[1].list  BY <1>1, BookFacts
<1>7. Pending(list)  BY <1>1, <1>2, <1>6 DEF CopyCurrent
<1>8. note.action = "add"  BY <1>3, <1>4, <1>5 DEF OnlyAdds
<1>9. PICK e : e = [id |-> note.id, at |-> note.at, status |-> "pending"]  OBVIOUS
<1>10. e \in BookEntry /\ e.status = "pending"  BY <1>5, <1>9 DEF BookNote, BookEntry
<1>11. store'["scratchpad"].entries = Append(list, e)
  <2>1. "scratchpad" \in DOMAIN store  BY <1>1 DEF BookTypes, Controller!Files
  <2> QED  BY <1>4, <1>6, <1>8, <1>9, <2>1 DEF Controller!Put, Controller!Changed, Controller!Entry
<1>12. PICK n : n = Len(list) + 1  OBVIOUS
<1>13. PICK E : E = Append(list, e)  OBVIOUS
<1>14. /\ 1..n = (1..Len(list)) \cup {n} /\ Len(E) = n /\ E[n] = e /\ E \in Seq(BookEntry)
       /\ \A i \in 1..Len(list) : E[i] = list[i]
  BY <1>10, <1>12, <1>13, OneMore
<1> QED  BY <1>7, <1>10, <1>11, <1>13, <1>14 DEF Pending

\* A note put down, of whatever file.
LEMMA PutKeeps ==
  ASSUME BookInv, Controller!Put(1)
  PROVE  BookInv'
<1>1. BookTypes /\ InOrder /\ CopyCurrent  BY DEF BookInv
<1>2. /\ copy[1].known /\ Controller!Skip(1)
      /\ heard' = heard /\ faults' = faults
  BY DEF Controller!Put
<1>3. todo[1] # <<>> /\ todo[1] \in Seq(BookNote)
  BY <1>1, <1>2, BookFacts DEF CopyCurrent
<1>4. PICK note : note = Head(todo[1])  OBVIOUS
<1>5. note \in BookNote /\ note = todo[1][1] /\ 1 \in 1..Len(todo[1])
  BY <1>1, <1>3, <1>4, RestOf DEF InOrder
<1>6. PICK f : f = note.file  OBVIOUS
<1>7. f \in Controller!Files  BY <1>5, <1>6 DEF BookNote
<1>8. /\ todo' \in [{1} -> Seq(BookNote)] /\ OnlyAdds(todo'[1]) /\ Rising(todo'[1])
      /\ \A i \in 1..Len(todo'[1]) : todo'[1][i].at <= heard /\ note.at < todo'[1][i].at
      /\ copy' \in [{1} -> [known : BOOLEAN, list : Seq(BookEntry)]]
      /\ ~copy'[1].known
      /\ \A g \in Controller!Files : \A i \in 1..Len(written[g]) :
           \A j \in 1..Len(todo'[1]) : written[g][i].at < todo'[1][j].at
  BY <1>1, <1>2, <1>3, <1>4, SkipKeeps
<1>9. PICK E : E = Controller!Changed(copy[1].list, note)  OBVIOUS
<1>10. PICK notes \in Seq(BookNote) : notes = written[f]  BY <1>1, <1>7, BookFacts
<1>11. PICK W : W = Append(notes, note)  OBVIOUS
<1>12. /\ store' = [store EXCEPT ![f] = [torn |-> FALSE, entries |-> E]]
       /\ written' = [written EXCEPT ![f] = W]
  BY <1>4, <1>6, <1>9, <1>10, <1>11 DEF Controller!Put
<1>13. /\ store \in [Controller!Files -> [torn : BOOLEAN, entries : Seq(BookEntry)]]
       /\ written \in [Controller!Files -> Seq(BookNote)]
  BY <1>1 DEF BookTypes
<1>14. store'[f] = [torn |-> FALSE, entries |-> E] /\ written'[f] = W
  BY <1>7, <1>12, <1>13
<1>15. \A g \in Controller!Files \ {f} : store'[g] = store[g] /\ written'[g] = written[g]
  BY <1>12, <1>13
<1>16. f \in {"memories", "tasks"} =>
         /\ store'[f].entries \in Seq(BookEntry)
         /\ f # "tasks" => Pending(store'[f].entries)
         /\ Rising(written'[f]) /\ Rising(store'[f].entries)
         /\ SameNotes(store'[f].entries, written'[f])
         /\ f = "tasks" => StatusOf(store'["tasks"].entries, written'["tasks"])
  BY <1>4, <1>6, PutInList
<1>17. f = "scratchpad" => store'[f].entries \in Seq(BookEntry) /\ Pending(store'[f].entries)
  BY <1>4, <1>6, PutInPad
<1>18. f \in {"memories", "tasks"} \/ f = "scratchpad"  BY <1>7 DEF Controller!Files
<1>19. E \in Seq(BookEntry) /\ (f # "tasks" => Pending(store'[f].entries))
  BY <1>14, <1>16, <1>17, <1>18
<1>20. /\ W \in Seq(BookNote) /\ Len(W) = Len(notes) + 1 /\ W[Len(notes) + 1] = note
       /\ \A i \in 1..Len(notes) : W[i] = notes[i]
  BY <1>5, <1>11, AppendProperties
<1>21. BookTypes'
  <2>1. store' \in [Controller!Files -> [torn : BOOLEAN, entries : Seq(BookEntry)]]
    BY <1>7, <1>12, <1>13, <1>19
  <2>2. written' \in [Controller!Files -> Seq(BookNote)]
    BY <1>7, <1>12, <1>13, <1>20
  <2>3. ASSUME NEW g \in Controller!Files, g # "tasks"
        PROVE  Pending(store'[g].entries)
    <3>1. CASE g = f  BY <1>19, <2>3, <3>1
    <3>2. CASE g # f
      <4>1. Pending(store[g].entries)  BY <1>1, <2>3, BookFacts
      <4>2. store'[g].entries = store[g].entries  BY <1>15, <3>2
      <4> QED  BY <4>1, <4>2
    <3> QED  BY <3>1, <3>2
  <2> QED  BY <1>1, <1>2, <1>8, <2>1, <2>2, <2>3 DEF BookTypes
<1>22. InOrder'
  <2>1. Rising(todo[1])'  BY <1>8
  <2>2. \A i \in 1..Len(todo'[1]) : todo'[1][i].at <= heard'  BY <1>2, <1>8
  <2>3. ASSUME NEW g \in Controller!Files, NEW i \in 1..Len(written'[g])
        PROVE  /\ written'[g][i].at <= heard'
               /\ \A j \in 1..Len(todo'[1]) : written'[g][i].at < todo'[1][j].at
    <3>1. \A k \in 1..Len(written[g]) : written[g][k].at <= heard  BY <1>1 DEF InOrder
    <3>2. note.at <= heard  BY <1>1, <1>5 DEF InOrder
    <3>3. CASE g # f
      <4>1. written'[g] = written[g]  BY <1>15, <3>3
      <4> QED  BY <1>2, <1>8, <3>1, <4>1
    <3>4. CASE g = f
      <4>1. written'[g] = W  BY <1>14, <3>4
      <4>2. i \in 1..Len(notes) \/ i = Len(notes) + 1
        <5>1. Len(notes) \in Nat  BY LenProperties
        <5> QED  BY <1>20, <4>1, <5>1
      <4>3. CASE i = Len(notes) + 1  BY <1>2, <1>8, <1>20, <3>2, <4>1, <4>3
      <4>4. CASE i \in 1..Len(notes)
        <5>1. written'[g][i] = written[g][i] /\ i \in 1..Len(written[g])
          BY <1>10, <1>20, <3>4, <4>1, <4>4
        <5> QED  BY <1>2, <1>8, <3>1, <5>1
      <4> QED  BY <4>2, <4>3, <4>4
    <3> QED  BY <3>3, <3>4
  <2> QED  BY <2>1, <2>2, <2>3 DEF InOrder
<1>23. CopyCurrent'  BY <1>8 DEF CopyCurrent
<1>24. ASSUME NEW g \in {"memories", "tasks"}
       PROVE  ListKept(g)'
  <2>1. CASE g = f  BY <1>16, <2>1 DEF ListKept
  <2>2. CASE g # f
    <3>1. store'[g] = store[g] /\ written'[g] = written[g]
      BY <1>15, <2>2 DEF Controller!Files
    <3> QED  BY <3>1 DEF BookInv, ListKept
  <2> QED  BY <2>1, <2>2
<1>25. StatusKept'
  <2>1. CASE f = "tasks"  BY <1>16, <2>1 DEF StatusKept
  <2>2. CASE f # "tasks"
    <3>1. store'["tasks"] = store["tasks"] /\ written'["tasks"] = written["tasks"]
      BY <1>15, <2>2 DEF Controller!Files
    <3> QED  BY <3>1 DEF BookInv, StatusKept
  <2> QED  BY <2>1, <2>2
<1> QED  BY <1>21, <1>22, <1>23, <1>24, <1>25 DEF BookInv

\* Whatever the controller does, the lists are what was written for them.
LEMMA BookStep ==
  ASSUME BookInv, Controller!Next \/ UNCHANGED <<sharedVars, notebookVars>>
  PROVE  BookInv'
<1>1. CASE Controller!Hear(1)  BY <1>1, HearKeeps
<1>2. CASE Controller!Get(1) \/ Controller!GetFails(1)  BY <1>2, ReadsKeep
<1>3. CASE Controller!Put(1)  BY <1>3, PutKeeps
<1>4. CASE Controller!PutFails(1) \/ Controller!Crash(1)
  <2>1. todo[1] # <<>>
    <3>1. copy[1].known => todo[1] # <<>>  BY DEF BookInv, CopyCurrent
    <3> QED  BY <1>4, <3>1 DEF Controller!PutFails, Controller!Crash
  <2>2. faults' \in 0..MaxFaults
    <3>1. faults \in 0..MaxFaults /\ MaxFaults \in Nat
      BY BoundsAssumption DEF BookInv, BookTypes
    <3>2. faults < MaxFaults /\ faults' = faults + 1
      BY <1>4 DEF Controller!PutFails, Controller!Crash, Controller!Fault
    <3> QED  BY <3>1, <3>2
  <2>3. /\ UNCHANGED <<heard, written>>
        /\ UNCHANGED store \/ Controller!CutShort(1)
        /\ \/ Controller!Skip(1)
           \/ /\ todo' = [todo EXCEPT ![1] = <<>>]
              /\ copy' = [copy EXCEPT ![1] = Controller!Nothing]
    BY <1>4 DEF Controller!PutFails, Controller!Crash
  <2> QED  BY <2>1, <2>2, <2>3, GivenUpKeeps
<1>5. CASE UNCHANGED <<sharedVars, notebookVars>>
  <2>1. /\ store' = store /\ todo' = todo /\ copy' = copy
        /\ heard' = heard /\ written' = written /\ faults' = faults
    BY <1>5 DEF sharedVars, notebookVars
  <2>2. BookTypes' /\ InOrder' /\ CopyCurrent'
    BY <2>1 DEF BookInv, BookTypes, InOrder, CopyCurrent
  <2>3. (\A f \in {"memories", "tasks"} : ListKept(f)') /\ StatusKept'
    BY <2>1 DEF BookInv, ListKept, StatusKept
  <2> QED  BY <2>2, <2>3 DEF BookInv
<1>6. Controller!Quiet => UNCHANGED <<sharedVars, notebookVars>>
  BY DEF Controller!Quiet, Controller!vars, sharedVars, notebookVars
<1> QED  BY <1>1, <1>2, <1>3, <1>4, <1>5, <1>6 DEF Controller!Next

\* What the invariant says of the lists and the statuses.
LEMMA BookImplies ==
  ASSUME BookInv
  PROVE  /\ Controller!TypeOK /\ Controller!ListsAreThoseWritten
         /\ Controller!StatusIsLastUpdate
<1>1. BookTypes  BY DEF BookInv
<1>2. \A f \in Controller!Files :
        /\ store[f].torn \in BOOLEAN /\ store[f].entries \in Seq(BookEntry)
        /\ DOMAIN store[f].entries = 1..Len(store[f].entries)
        /\ written[f] \in Seq(BookNote) /\ DOMAIN written[f] = 1..Len(written[f])
        /\ f # "tasks" => Pending(store[f].entries)
  <2> SUFFICES ASSUME NEW f \in Controller!Files
               PROVE  /\ store[f].torn \in BOOLEAN /\ store[f].entries \in Seq(BookEntry)
                      /\ DOMAIN store[f].entries = 1..Len(store[f].entries)
                      /\ written[f] \in Seq(BookNote) /\ DOMAIN written[f] = 1..Len(written[f])
                      /\ f # "tasks" => Pending(store[f].entries)
    OBVIOUS
  <2>1. /\ store[f].torn \in BOOLEAN /\ store[f].entries \in Seq(BookEntry)
        /\ written[f] \in Seq(BookNote) /\ (f # "tasks" => Pending(store[f].entries))
    BY <1>1, BookFacts
  <2> QED  BY <2>1, LenProperties
<1>3. Controller!TypeOK
  <2>1. DOMAIN store = Controller!Files /\ DOMAIN todo = {1}  BY <1>1 DEF BookTypes
  <2>2. \A f \in Controller!Files : \A i \in DOMAIN store[f].entries :
          store[f].entries[i].status \in {"pending", "done", "progress"}
    <3> SUFFICES ASSUME NEW f \in Controller!Files, NEW i \in DOMAIN store[f].entries
                 PROVE  store[f].entries[i].status \in {"pending", "done", "progress"}
      OBVIOUS
    <3>1. store[f].entries[i] \in BookEntry  BY <1>2, ElementOfSeq
    <3> QED  BY <3>1 DEF BookEntry
  <2>3. \A f \in Controller!Files \ {"tasks"} : \A i \in DOMAIN store[f].entries :
          store[f].entries[i].status = "pending"
    BY <1>2 DEF Pending
  <2>4. \A w \in {1} : copy[w].known => todo[w] # <<>>  BY DEF BookInv, CopyCurrent
  <2>5. heard \in 0..MaxNotes /\ faults \in 0..MaxFaults  BY <1>1 DEF BookTypes
  <2> QED  BY <1>2, <2>1, <2>2, <2>3, <2>4, <2>5 DEF Controller!TypeOK
<1>4. Controller!ListsAreThoseWritten
  <2> SUFFICES ASSUME NEW f \in {"memories", "tasks"}
               PROVE  /\ Controller!Ascending(written[f])
                      /\ ~store[f].torn => /\ Controller!Ascending(store[f].entries)
                                           /\ Controller!Added(store[f].entries) = Controller!Adds(f)
    BY DEF Controller!ListsAreThoseWritten
  <2>1. f \in Controller!Files /\ ListKept(f)  BY DEF BookInv, Controller!Files
  <2>2. PICK notes \in Seq(BookNote) : notes = written[f]  BY <1>2, <2>1
  <2>3. PICK entries \in Seq(BookEntry) : entries = store[f].entries  BY <1>2, <2>1
  <2>4. DOMAIN notes = 1..Len(notes) /\ DOMAIN entries = 1..Len(entries)
    BY LenProperties
  <2>5. Controller!Ascending(notes)
    BY <2>1, <2>2, <2>4 DEF ListKept, Rising, Controller!Ascending
  <2>6. ASSUME ~store[f].torn
        PROVE  Controller!Ascending(entries) /\ Controller!Added(entries) = Controller!Adds(f)
    <3>1. Rising(entries) /\ SameNotes(entries, notes)  BY <2>1, <2>2, <2>3, <2>6 DEF ListKept
    <3>2. Controller!Ascending(entries)  BY <2>4, <3>1 DEF Rising, Controller!Ascending
    <3>3. Controller!Adds(f) = {[id |-> notes[j].id, at |-> notes[j].at] :
                                  j \in {k \in 1..Len(notes) : notes[k].action = "add"}}
      BY <2>2, <2>4 DEF Controller!Adds, Controller!Range
    <3>4. Controller!Added(entries) = {[id |-> entries[i].id, at |-> entries[i].at] : i \in 1..Len(entries)}
      BY <2>4 DEF Controller!Added
    <3>5. ASSUME NEW x \in Controller!Added(entries)  PROVE x \in Controller!Adds(f)
      <4>1. PICK i \in 1..Len(entries) : x = [id |-> entries[i].id, at |-> entries[i].at]
        BY <3>4
      <4>2. PICK j \in 1..Len(notes) :
              notes[j].action = "add" /\ notes[j].id = entries[i].id /\ notes[j].at = entries[i].at
        BY <3>1 DEF SameNotes
      <4> QED  BY <3>3, <4>1, <4>2
    <3>6. ASSUME NEW x \in Controller!Adds(f)  PROVE x \in Controller!Added(entries)
      <4>1. PICK j \in 1..Len(notes) :
              notes[j].action = "add" /\ x = [id |-> notes[j].id, at |-> notes[j].at]
        BY <3>3
      <4>2. PICK i \in 1..Len(entries) : notes[j].id = entries[i].id /\ notes[j].at = entries[i].at
        BY <3>1, <4>1 DEF SameNotes
      <4> QED  BY <3>4, <4>1, <4>2
    <3> QED  BY <3>2, <3>5, <3>6
  <2> QED  BY <2>2, <2>3, <2>5, <2>6
<1>5. Controller!StatusIsLastUpdate
  <2> SUFFICES ASSUME ~store["tasks"].torn, NEW i \in DOMAIN store["tasks"].entries,
                      NEW task, task = store["tasks"].entries[i]
               PROVE  IF Controller!FirstOfId(i) /\ Controller!Updates(task) # {}
                      THEN \E n \in Controller!Updates(task) :
                             /\ Controller!IsLast(n, Controller!Updates(task))
                             /\ task.status = n.action
                      ELSE task.status = "pending"
    BY DEF Controller!StatusIsLastUpdate
  <2>1. "tasks" \in Controller!Files  BY DEF Controller!Files
  <2>2. PICK notes \in Seq(BookNote) : notes = written["tasks"]  BY <1>2, <2>1
  <2>3. PICK entries \in Seq(BookEntry) : entries = store["tasks"].entries  BY <1>2, <2>1
  <2>4. /\ DOMAIN notes = 1..Len(notes) /\ DOMAIN entries = 1..Len(entries)
        /\ Len(notes) \in Nat
    BY LenProperties
  <2>5. i \in 1..Len(entries) /\ task = entries[i]  BY <2>3, <2>4
  <2>6. StatusOf(entries, notes) /\ Rising(notes)
    BY <2>2, <2>3 DEF BookInv, StatusKept, ListKept
  <2> DEFINE U == {j \in 1..Len(notes) : Updates(notes, task, j)}
  <2>7. Controller!Updates(task) = {notes[j] : j \in U}
    BY <2>2, <2>4 DEF Controller!Updates, Controller!Range, Updates
  <2>8. Controller!FirstOfId(i) <=> First(entries, i)
    BY <2>3 DEF Controller!FirstOfId, First
  <2>9. CASE ~First(entries, i)
    BY <2>5, <2>6, <2>8, <2>9 DEF StatusOf
  <2>10. CASE U = {}
    <3>1. \A j \in 1..Len(notes) : ~Updates(notes, entries[i], j)  BY <2>5, <2>10
    <3>2. task.status = "pending"  BY <2>5, <2>6, <3>1 DEF StatusOf
    <3>3. Controller!Updates(task) = {}  BY <2>7, <2>10
    <3> QED  BY <3>2, <3>3
  <2>11. CASE First(entries, i) /\ U # {}
    <3>1. PICK j \in U : \A k \in U : k <= j
      <4>1. U \in SUBSET (1..Len(notes))  OBVIOUS
      <4> HIDE DEF U
      <4> QED  BY <2>4, <2>11, <4>1, GreatestNumber
    <3>2. LastUpdate(notes, entries[i], j)  BY <2>5, <3>1 DEF LastUpdate
    <3>3. task.status = notes[j].action  BY <2>5, <2>6, <2>11, <3>1, <3>2 DEF StatusOf
    <3>4. ASSUME NEW k \in U  PROVE notes[k].at <= notes[j].at
      <4>1. k \in 1..Len(notes) /\ j \in 1..Len(notes) /\ k <= j  BY <3>1
      <4>2. notes[k] \in BookNote /\ notes[j] \in BookNote  BY <4>1
      <4>3. notes[k].at \in Nat /\ notes[j].at \in Nat  BY <4>2 DEF BookNote
      <4>4. CASE k = j  BY <4>3, <4>4
      <4>5. CASE k # j
        <5>1. k < j  BY <2>4, <4>1, <4>5
        <5>2. notes[k].at < notes[j].at  BY <2>6, <4>1, <5>1 DEF Rising
        <5> QED  BY <4>3, <5>2
      <4> QED  BY <4>4, <4>5
    <3>5. notes[j] \in Controller!Updates(task)  BY <2>7, <3>1
    <3>6. \A m \in Controller!Updates(task) : m.at <= notes[j].at
      BY <2>7, <3>4
    <3>7. Controller!IsLast(notes[j], Controller!Updates(task))
      BY <3>5, <3>6 DEF Controller!IsLast
    <3> QED  BY <2>8, <2>11, <3>3, <3>5, <3>7
  <2> QED  BY <2>9, <2>10, <2>11
<1> QED  BY <1>3, <1>4, <1>5

-----------------------------------------------------------------------------
(***************************************************************************)
(* The three together.                                                     *)
(***************************************************************************)
NotesInv ==
  \/ part = "parser" /\ ScanInv
  \/ part = "notebook" /\ BookInv
  \/ part = "pods" /\ PodsInv

\* Each part begins in its invariant.
LEMMA NotesInit == Init => NotesInv
BY ScanInit, BookInit, PodsInit DEF Init, NotesInv

\* Each part keeps its own, and a step of the pods the scratchpads.
LEMMA NotesStep ==
  ASSUME NotesInv, [Next]_vars
  PROVE  NotesInv' /\ (part = "pods" => Pods!KeepsScratchpads)
<1>1. CASE InParser /\ Parser!Next
  <2>1. part = "parser" /\ part' = "parser" /\ Parser!Next  BY <1>1 DEF InParser
  <2>2. ScanInv  BY <2>1 DEF NotesInv
  <2>3. ScanInv'  BY <2>1, <2>2, ParserStep
  <2> QED  BY <2>1, <2>3 DEF NotesInv
<1>2. CASE InNotebook /\ Controller!Next
  <2>1. part = "notebook" /\ part' = "notebook" /\ Controller!Next  BY <1>2 DEF InNotebook
  <2>2. BookInv  BY <2>1 DEF NotesInv
  <2>3. BookInv'  BY <2>1, <2>2, BookStep
  <2> QED  BY <2>1, <2>3 DEF NotesInv
<1>3. CASE InPods /\ Pods!Next
  <2>1. part = "pods" /\ part' = "pods" /\ Pods!Next  BY <1>3 DEF InPods
  <2>2. PodsInv  BY <2>1 DEF NotesInv
  <2>3. PodsInv' /\ Pods!KeepsScratchpads  BY <2>1, <2>2, PodsStep
  <2> QED  BY <2>1, <2>3 DEF NotesInv
<1>4. CASE UNCHANGED vars
  <2>1. /\ part' = part /\ UNCHANGED parserVars
        /\ UNCHANGED <<sharedVars, notebookVars>> /\ UNCHANGED <<sharedVars, workspaceVars>>
    BY <1>4 DEF vars
  <2>2. CASE part = "parser" /\ ScanInv  BY <2>1, <2>2, ParserStep DEF NotesInv
  <2>3. CASE part = "notebook" /\ BookInv  BY <2>1, <2>3, BookStep DEF NotesInv
  <2>4. CASE part = "pods" /\ PodsInv  BY <2>1, <2>4, PodsStep DEF NotesInv
  <2> QED  BY <2>2, <2>3, <2>4 DEF NotesInv
<1> QED  BY <1>1, <1>2, <1>3, <1>4 DEF Next

\* Each of the three keeps what the invariant says of it, in every behaviour.
THEOREM NotesInvariant == Spec => []NotesInv
<1>1. NotesInv /\ [Next]_vars => NotesInv'  BY NotesStep
<1> QED  BY <1>1, NotesInit, PTL DEF Spec

(***************************************************************************)
(* Any output, any number of lines, whatever promise is configured: the    *)
(* events are the emitted lines and the first promise, numbered without a  *)
(* gap, and a bare promise is always heard (output_parser.rs:44-183).      *)
(***************************************************************************)
THEOREM EventsAsPrintedHolds == Spec => []EventsAsPrinted
<1>1. NotesInv => EventsAsPrinted  BY ScanImplies DEF NotesInv, EventsAsPrinted
<1> QED  BY <1>1, NotesInvariant, PTL

(***************************************************************************)
(* Any notes, any number of faults, any hats and rounds: the lists of a    *)
(* run are what was written for them in order, statuses are those of the   *)
(* last update (memories.rs, tasks.rs), and what pods note is stored, and  *)
(* seen by those that come after (workspace.rs).                           *)
(***************************************************************************)
THEOREM NotesAreKeptHolds == Spec => []NotesAreKept
<1>1. NotesInv => NotesAreKept  BY BookImplies, PodsImply DEF NotesInv, NotesAreKept
<1> QED  BY <1>1, NotesInvariant, PTL

\* No step of any pod takes a note out of a hat's own scratchpad.
THEOREM ScratchpadsGrowHolds == Spec => ScratchpadsGrow
<1>1. NotesInv /\ [Next]_vars => (part = "pods" => Pods!KeepsScratchpads)  BY NotesStep
<1> QED  BY <1>1, NotesInvariant, PTL DEF Spec, ScratchpadsGrow
=============================================================================
