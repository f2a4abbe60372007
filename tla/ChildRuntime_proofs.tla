------------------------- MODULE ChildRuntime_proofs -------------------------
(***************************************************************************)
(* Theorems about module ChildRuntime: the tables of the local and of the  *)
(* Docker runtime hand each child to its own caller, and both keep the     *)
(* contract of the trait Runtime, for any number of calls that create,     *)
(* wait and cancel in any order.  Then one about HatCommand, for any       *)
(* number of jobs and calls of emit: of a pod is heard what its AI wrote.  *)
(***************************************************************************)
EXTENDS MCChildRuntime, SequenceTheorems, FiniteSetTheorems, TLAPS

\* Calls that have taken their number.
Numbered == {c \in Calls : pc[c] # "idle"}

(***************************************************************************)
(* Numbers are given once: next_id is how many were, and a call's handle   *)
(* is below it and its own.                                                *)
(***************************************************************************)
Counted == nextId = Cardinality(Numbered)

Distinct ==
  /\ \A c \in Numbered : handle[c] < nextId
  /\ \A c, d \in Numbered : handle[c] = handle[d] => c = d

NumberInv == TypeOK /\ Counted /\ Distinct

-----------------------------------------------------------------------------
(* Types and numbers.                                                      *)

LEMMA NumberInit == Init => NumberInv
<1> SUFFICES ASSUME Init PROVE NumberInv
  OBVIOUS
<1>1. Numbered = {}
  BY DEF Init, Numbered
<1>2. 0 \in Handles
  BY ChildAssumption, FS_CardinalityType DEF Handles
<1>3. TypeOK
  BY <1>2, ChildAssumption DEF Init, TypeOK, PCs
<1>4. Counted
  BY <1>1, FS_EmptySet DEF Init, Counted
<1> QED
  BY <1>1, <1>3, <1>4 DEF NumberInv, Distinct

LEMMA TypeFault == ASSUME TypeOK, Fault PROVE faults' \in 0..MaxFaults
BY ChildAssumption DEF TypeOK, Fault

LEMMA TypeTell ==
  ASSUME TypeOK, NEW c \in Calls, NEW what \in {"ok", "failed", "error"}, Tell(c, what)
  PROVE  pc' \in [Calls -> PCs] /\ told' \in [Calls -> {"none", "ok", "failed", "error"}]
BY DEF TypeOK, Tell, Goto, PCs

LEMMA TypeRemove ==
  ASSUME TypeOK, NEW h \in Handles, Remove(h)
  PROVE  children' \in [Handles -> Calls \cup {Nobody}]
BY DEF TypeOK, Remove

\* There is a number left for whoever has none.
LEMMA TakeIdCounts ==
  ASSUME NumberInv, NEW c \in Calls, TakeId(c)
  PROVE  /\ Numbered' = Numbered \cup {c}
         /\ c \notin Numbered
         /\ nextId' = nextId + 1
         /\ nextId' \in Handles
         /\ Counted'
<1>1. Numbered' = Numbered \cup {c} /\ c \notin Numbered
  BY DEF NumberInv, TypeOK, TakeId, Goto, Numbered
<1>2. nextId' = nextId + 1
  BY DEF TakeId, FollowingId
<1>3. IsFiniteSet(Numbered) /\ Numbered' \subseteq Calls
  BY ChildAssumption, FS_Subset DEF Numbered
<1>4. Cardinality(Numbered') = Cardinality(Numbered) + 1
  BY <1>1, <1>3, FS_AddElement
<1>5. Cardinality(Numbered') <= Cardinality(Calls) /\ Cardinality(Calls) \in Nat
  BY <1>3, ChildAssumption, FS_Subset, FS_CardinalityType
<1>6. nextId' = Cardinality(Numbered')
  BY <1>2, <1>4 DEF NumberInv, Counted
<1>7. nextId \in Nat
  BY <1>3, FS_CardinalityType DEF NumberInv, Counted
<1> QED
  BY <1>1, <1>2, <1>5, <1>6, <1>7 DEF Handles, Counted

LEMMA TypeNext == NumberInv /\ [Next]_vars => TypeOK'
<1> SUFFICES ASSUME NumberInv, TypeOK, [Next]_vars PROVE TypeOK'
  BY DEF NumberInv
<1>1. ASSUME NEW c \in Calls, TakeId(c) PROVE TypeOK'
  BY <1>1, TakeIdCounts DEF TakeId, Goto, TypeOK, PCs
<1>2. ASSUME NEW c \in Calls, Spawn(c) PROVE TypeOK'
  BY <1>2 DEF Spawn, Goto, TypeOK, PCs
<1>3. ASSUME NEW c \in Calls, SpawnFails(c) PROVE TypeOK'
  <2>1. faults' \in 0..MaxFaults
    BY <1>3, TypeFault DEF SpawnFails
  <2> QED
    BY <1>3, <2>1, TypeTell DEF SpawnFails, TypeOK
<1>4. ASSUME NEW c \in Calls, Ends(c) PROVE TypeOK'
  BY <1>4 DEF Ends, TypeOK
<1>5. ASSUME NEW c \in Calls, Wait(c) PROVE TypeOK'
  <2>1. handle[c] \in Handles
    BY DEF TypeOK
  <2>2. pc' \in [Calls -> PCs]
    BY <1>5 DEF Wait, Goto, TypeOK, PCs
  <2> QED
    BY <1>5, <2>1, <2>2, TypeRemove DEF Wait, TypeOK
<1>6. ASSUME NEW c \in Calls, Waited(c) PROVE TypeOK'
  <2>1. Verdict(child[c]) \in {"ok", "failed", "error"}
    BY DEF Verdict
  <2> QED
    BY <1>6, <2>1, TypeTell DEF Waited, TypeOK
<1>7. ASSUME NEW c \in Calls, WaitFails(c) PROVE TypeOK'
  <2>1. faults' \in 0..MaxFaults
    BY <1>7, TypeFault DEF WaitFails
  <2> QED
    BY <1>7, <2>1, TypeTell DEF WaitFails, TypeOK
<1>8. ASSUME NEW c \in Calls, Cancel(c) PROVE TypeOK'
  <2>1. handle[c] \in Handles
    BY DEF TypeOK
  <2>2. child' \in [Calls -> {"none", "running", "ok", "failed", "killed"}]
    BY <1>8 DEF Cancel, TypeOK
  <2> QED
    BY <1>8, <2>1, <2>2, TypeRemove DEF Cancel, TypeOK
<1>9. ASSUME UNCHANGED vars PROVE TypeOK'
  BY <1>9 DEF vars, TypeOK
<1>10. ASSUME NEW c \in Calls, Forgotten(c) PROVE TypeOK'
  BY <1>10 DEF Forgotten, Forget, Goto, TypeOK, PCs
<1>11. ASSUME NEW c \in Calls, NotFound(c) PROVE TypeOK'
  BY <1>11, TypeTell DEF NotFound, Forget, TypeOK
<1>12. ASSUME NEW c \in Calls, CancelContainer(c) PROVE TypeOK'
  <2>1. faults' \in 0..MaxFaults
    BY <1>12, TypeFault DEF CancelContainer, TypeOK
  <2>2. /\ child' \in [Calls -> {"none", "running", "ok", "failed", "killed"}]
        /\ command' \in [Calls -> {"none", "running", "over"}]
    BY <1>12 DEF CancelContainer, ContainerEnds, TypeOK
  <2> QED
    BY <1>12, <2>1, <2>2 DEF CancelContainer, Forget, TypeOK
<1> QED
  BY <1>1, <1>2, <1>3, <1>4, <1>5, <1>6, <1>7, <1>8, <1>9, <1>10, <1>11, <1>12
  DEF Next, Step, AllDone, Blocked

\* Only TakeId numbers a call.
LEMMA NumberedKept ==
  ASSUME TypeOK, [Next]_vars, \A c \in Calls : ~TakeId(c)
  PROVE  Numbered' = Numbered /\ UNCHANGED <<handle, nextId>>
<1>1. ASSUME UNCHANGED pc PROVE Numbered' = Numbered
  BY <1>1 DEF Numbered
<1>2. ASSUME NEW c \in Calls, pc[c] # "idle",
             \E where \in PCs \ {"idle"} : Goto(c, where)
      PROVE  Numbered' = Numbered
  BY <1>2 DEF Numbered, Goto, TypeOK
<1>3. ASSUME NEW c \in Calls,
             \/ Spawn(c) \/ SpawnFails(c) \/ Wait(c) \/ Forgotten(c) \/ NotFound(c)
             \/ Waited(c) \/ WaitFails(c)
      PROVE  /\ pc[c] # "idle"
             /\ \E where \in PCs \ {"idle"} : Goto(c, where)
             /\ UNCHANGED <<handle, nextId>>
  BY <1>3 DEF Spawn, SpawnFails, Wait, Forgotten, NotFound, Waited, WaitFails, Tell, PCs
<1>4. ASSUME NEW c \in Calls, Ends(c) \/ Cancel(c) \/ CancelContainer(c)
      PROVE  UNCHANGED <<pc, handle, nextId>>
  BY <1>4 DEF Ends, Cancel, CancelContainer
<1> QED
  BY <1>1, <1>2, <1>3, <1>4 DEF Next, Step, vars, AllDone, Blocked

LEMMA NumberNext == NumberInv /\ [Next]_vars => NumberInv'
<1> SUFFICES ASSUME NumberInv, [Next]_vars PROVE NumberInv'
  OBVIOUS
<1>1. TypeOK'
  BY TypeNext
<1>2. ASSUME NEW c \in Calls, TakeId(c) PROVE Counted' /\ Distinct'
  <2>1. Counted' /\ Numbered' = Numbered \cup {c} /\ nextId' = nextId + 1 /\ c \notin Numbered
    BY <1>2, TakeIdCounts
  <2>2. handle'[c] = nextId /\ \A d \in Numbered : handle'[d] = handle[d]
    BY <1>2, <2>1 DEF TakeId, NumberInv, TypeOK, Numbered
  <2>3. \A d \in Numbered : handle[d] \in Int /\ handle[d] < nextId
    BY DEF NumberInv, Distinct, TypeOK, Numbered, Handles
  <2>4. nextId \in Int
    BY DEF NumberInv, TypeOK, Handles
  <2> QED
    BY <2>1, <2>2, <2>3, <2>4 DEF NumberInv, Distinct
<1>3. CASE \A c \in Calls : ~TakeId(c)
  <2>1. Numbered' = Numbered /\ UNCHANGED <<handle, nextId>>
    BY <1>3, NumberedKept DEF NumberInv
  <2> QED
    BY <1>1, <2>1 DEF NumberInv, Counted, Distinct
<1> QED
  BY <1>1, <1>2, <1>3 DEF NumberInv

LEMMA NumberInvariant == Spec => []NumberInv
BY NumberInit, NumberNext, PTL DEF Spec

(***************************************************************************)
(* Every variable keeps its type; in particular next_id never exceeds the  *)
(* number of calls.                                                        *)
(***************************************************************************)
THEOREM TypeCorrect == Spec => []TypeOK
BY NumberInvariant, PTL DEF NumberInv

-----------------------------------------------------------------------------
(***************************************************************************)
(* The table.  A child is in it, under its own call's handle, from the     *)
(* spawn until a wait or a cancel of that call takes it out; a wait that   *)
(* finds nothing was cancelled.                                            *)
(***************************************************************************)
Given == \A c \in Calls : pc[c] = "created" => children[handle[c]] = c \/ c \in cancelled

Unstarted == \A c \in Calls :
  pc[c] \in {"idle", "numbered"} => child[c] = "none" /\ c \notin cancelled

Untold == \A c \in Calls : pc[c] # "done" => told[c] = "none"

Missed == \A c \in Calls : pc[c] = "missing" \/ c \in cancelling => c \in cancelled

TableInv == NumberInv /\ OwnEntry /\ Given /\ Unstarted /\ Untold /\ Missed

LEMMA TableInit == Init => TableInv
<1> SUFFICES ASSUME Init PROVE TableInv
  OBVIOUS
<1>1. NumberInv
  BY NumberInit
<1>2. \A c \in Calls :
        /\ pc[c] = "idle" /\ child[c] = "none" /\ told[c] = "none"
        /\ c \notin cancelled /\ c \notin cancelling
  BY DEF Init
<1>3. \A h \in Handles : children[h] = Nobody
  BY DEF Init
<1> QED
  BY <1>1, <1>2, <1>3 DEF TableInv, OwnEntry, Given, Unstarted, Untold, Missed

\* Two calls that have their numbers have different ones.
LEMMA HandlesDiffer ==
  ASSUME TableInv, NEW c \in Calls, NEW d \in Calls, pc[c] # "idle", pc[d] # "idle", c # d
  PROVE  handle[c] # handle[d]
BY DEF TableInv, NumberInv, Distinct, Numbered

LEMMA TakeIdKeeps ==
  ASSUME TableInv, NEW c \in Calls, TakeId(c)
  PROVE  OwnEntry' /\ Given' /\ Unstarted' /\ Untold' /\ Missed'
<1>1. TypeOK /\ pc[c] = "idle"
  BY DEF TableInv, NumberInv, TakeId
<1>2. \A d \in Calls \ {c} : pc'[d] = pc[d] /\ handle'[d] = handle[d]
  BY <1>1 DEF TypeOK, TakeId, Goto
<1>3. pc'[c] = "numbered"
  BY <1>1 DEF TypeOK, TakeId, Goto
<1>4. UNCHANGED <<children, child, told, cancelled, cancelling>>
  BY DEF TakeId
<1>5. OwnEntry'
  BY <1>1, <1>2, <1>4, ChildAssumption DEF TableInv, OwnEntry, TypeOK, Handles
<1>6. Given'
  BY <1>2, <1>3, <1>4 DEF TableInv, Given
<1>7. Unstarted' /\ Untold' /\ Missed'
  BY <1>1, <1>2, <1>3, <1>4 DEF TableInv, Unstarted, Untold, Missed
<1> QED
  BY <1>5, <1>6, <1>7

LEMMA SpawnKeeps ==
  ASSUME TableInv, NEW c \in Calls, Spawn(c)
  PROVE  OwnEntry' /\ Given' /\ Unstarted' /\ Untold' /\ Missed'
<1>1. TypeOK /\ pc[c] = "numbered" /\ UNCHANGED <<handle, told, cancelled, cancelling>>
  BY DEF TableInv, NumberInv, Spawn
<1>2. \A d \in Calls \ {c} : pc'[d] = pc[d] /\ child'[d] = child[d]
  BY <1>1 DEF TypeOK, Spawn, Goto
<1>3. pc'[c] = "created"
  BY <1>1 DEF TypeOK, Spawn, Goto
<1>4. /\ children'[handle[c]] = c
      /\ \A h \in Handles \ {handle[c]} : children'[h] = children[h]
  BY <1>1 DEF TypeOK, Spawn
<1>5. OwnEntry'
  <2> SUFFICES ASSUME NEW h \in Handles, children'[h] # Nobody
               PROVE  handle[children'[h]] = h /\ pc'[children'[h]] = "created"
    BY <1>1 DEF OwnEntry, Handles
  <2>1. CASE h = handle[c]
    BY <1>3, <1>4, <2>1
  <2>2. CASE h # handle[c]
    <3>1. children'[h] = children[h] /\ children[h] \in Calls
      BY <1>1, <1>4, <2>2 DEF TypeOK
    <3>2. handle[children[h]] = h /\ pc[children[h]] = "created"
      BY <3>1 DEF TableInv, OwnEntry
    <3> QED
      BY <1>1, <1>2, <3>1, <3>2
  <2> QED
    BY <2>1, <2>2
<1>6. Given'
  <2> SUFFICES ASSUME NEW d \in Calls, pc'[d] = "created", d \notin cancelled
               PROVE  children'[handle[d]] = d
    BY <1>1 DEF Given
  <2>1. CASE d = c
    BY <1>4, <2>1
  <2>2. CASE d # c
    <3>1. handle[d] # handle[c] /\ handle[d] \in Handles
      BY <1>1, <1>2, <2>2, HandlesDiffer DEF TypeOK
    <3> QED
      BY <1>2, <1>4, <2>2, <3>1 DEF TableInv, Given
  <2> QED
    BY <2>1, <2>2
<1>7. Unstarted' /\ Untold' /\ Missed'
  BY <1>1, <1>2, <1>3 DEF TableInv, Unstarted, Untold, Missed
<1> QED
  BY <1>5, <1>6, <1>7

\* A call's entry is taken out when the call waits or is cancelled.
LEMMA RemoveKeeps ==
  ASSUME TableInv, NEW c \in Calls, pc[c] \notin {"idle", "numbered"}, Remove(handle[c]),
         UNCHANGED handle,
         \A d \in Calls \ {c} : pc'[d] = pc[d],
         cancelled \subseteq cancelled',
         pc'[c] # "created" \/ c \in cancelled'
  PROVE  OwnEntry' /\ Given'
<1>1. TypeOK
  BY DEF TableInv, NumberInv
<1>2. /\ children'[handle[c]] = Nobody
      /\ \A h \in Handles \ {handle[c]} : children'[h] = children[h]
  BY <1>1 DEF TypeOK, Remove
<1>3. OwnEntry'
  <2> SUFFICES ASSUME NEW h \in Handles, children'[h] # Nobody
               PROVE  handle[children'[h]] = h /\ pc'[children'[h]] = "created"
    BY DEF OwnEntry, Handles
  <2>1. h # handle[c] /\ children'[h] = children[h] /\ children[h] \in Calls
    BY <1>1, <1>2 DEF TypeOK
  <2>2. handle[children[h]] = h /\ pc[children[h]] = "created"
    BY <2>1 DEF TableInv, OwnEntry
  <2> QED
    BY <2>1, <2>2
<1>4. Given'
  <2> SUFFICES ASSUME NEW d \in Calls, pc'[d] = "created", d \notin cancelled'
               PROVE  children'[handle[d]] = d
    BY DEF Given
  <2>1. d # c /\ pc[d] = "created" /\ d \notin cancelled
    OBVIOUS
  <2>2. handle[d] # handle[c] /\ handle[d] \in Handles
    BY <1>1, <2>1, HandlesDiffer DEF TypeOK
  <2> QED
    BY <1>2, <2>1, <2>2 DEF TableInv, Given
<1> QED
  BY <1>3, <1>4

\* A child in the table of a call that was cancelled or waits is that call's.
LEMMA VictimIsOwn ==
  ASSUME TableInv, NEW c \in Calls, pc[c] # "idle", children[handle[c]] # Nobody
  PROVE  children[handle[c]] = c
<1>1. handle[c] \in Handles /\ children[handle[c]] \in Calls
  BY DEF TableInv, NumberInv, TypeOK
<1>2. /\ handle[children[handle[c]]] = handle[c]
      /\ pc[children[handle[c]]] # "idle"
  BY <1>1 DEF TableInv, OwnEntry
<1> QED
  BY <1>1, <1>2, HandlesDiffer

\* A wait that finds no entry was cancelled before.
LEMMA WaitKeeps ==
  ASSUME TableInv, NEW c \in Calls, Wait(c)
  PROVE  OwnEntry' /\ Given' /\ Unstarted' /\ Untold' /\ Missed'
<1>1. TypeOK /\ pc[c] = "created" /\ UNCHANGED <<handle, child, told, cancelled, cancelling>>
  BY DEF TableInv, NumberInv, Wait
<1>2. pc'[c] \in {"taken", "missing", "waiting"} /\ \A d \in Calls \ {c} : pc'[d] = pc[d]
  BY <1>1 DEF TypeOK, Wait, Goto
<1>3. OwnEntry' /\ Given'
  BY <1>1, <1>2, RemoveKeeps DEF Wait
<1>4. Unstarted' /\ Untold'
  BY <1>1, <1>2 DEF TableInv, Unstarted, Untold
<1>5. pc'[c] = "missing" => c \in cancelled
  <2> SUFFICES ASSUME pc'[c] = "missing" PROVE c \in cancelled
    OBVIOUS
  <2>1. children[handle[c]] = Nobody
    BY <1>1 DEF TypeOK, Wait, Goto
  <2> QED
    BY <1>1, <2>1, ChildAssumption DEF TableInv, Given
<1>6. Missed'
  BY <1>1, <1>2, <1>5 DEF TableInv, Missed
<1> QED
  BY <1>3, <1>4, <1>6

LEMMA ForgottenKeeps ==
  ASSUME TableInv, NEW c \in Calls, Forgotten(c)
  PROVE  OwnEntry' /\ Given' /\ Unstarted' /\ Untold' /\ Missed'
<1>1. /\ TypeOK /\ pc[c] = "taken"
      /\ UNCHANGED <<handle, children, child, told, cancelled, cancelling>>
  BY DEF TableInv, NumberInv, Forgotten
<1>2. pc'[c] = "waiting" /\ \A d \in Calls \ {c} : pc'[d] = pc[d]
  BY <1>1 DEF TypeOK, Forgotten, Goto
<1>3. OwnEntry'
  BY <1>1, <1>2 DEF TableInv, OwnEntry, TypeOK, Handles
<1> QED
  BY <1>1, <1>2, <1>3 DEF TableInv, Given, Unstarted, Untold, Missed

LEMMA CancelKeeps ==
  ASSUME TableInv, NEW c \in Calls, Cancel(c)
  PROVE  OwnEntry' /\ Given' /\ Unstarted' /\ Untold' /\ Missed'
<1>1. /\ TypeOK /\ pc[c] \in {"created", "taken", "missing", "waiting"}
      /\ UNCHANGED <<handle, pc, told>>
      /\ cancelled' = cancelled \cup {c} /\ cancelling' \subseteq cancelling \cup {c}
  BY DEF TableInv, NumberInv, Cancel, MayCancel
<1>2. OwnEntry' /\ Given'
  BY <1>1, RemoveKeeps DEF Cancel
<1>3. Unstarted'
  BY <1>1 DEF TableInv, Unstarted, Cancel
<1>4. Untold' /\ Missed'
  BY <1>1 DEF TableInv, Untold, Missed
<1> QED
  BY <1>2, <1>3, <1>4

\* The death of a container, or of a command, starts nothing.
LEMMA EndKeeps ==
  ASSUME TableInv, \A d \in Calls : child[d] = "none" => child'[d] = "none",
         UNCHANGED <<pc, handle, children, told, cancelled>>, cancelling' \subseteq cancelling
  PROVE  OwnEntry' /\ Given' /\ Unstarted' /\ Untold' /\ Missed'
BY DEF TableInv, OwnEntry, Given, Unstarted, Untold, Missed, Handles

LEMMA CancelContainerKeeps ==
  ASSUME TableInv, NEW c \in Calls, CancelContainer(c)
  PROVE  OwnEntry' /\ Given' /\ Unstarted' /\ Untold' /\ Missed'
<1>1. \A d \in Calls : child[d] = "none" => child'[d] = "none"
  BY DEF TableInv, NumberInv, TypeOK, CancelContainer, ContainerEnds
<1>2. UNCHANGED <<pc, handle, children, told, cancelled>> /\ cancelling' \subseteq cancelling
  BY DEF CancelContainer
<1> QED
  BY <1>1, <1>2, EndKeeps

\* An answer ends a call that has no entry.
LEMMA TellKeeps ==
  ASSUME TableInv, NEW c \in Calls, pc[c] \in {"numbered", "missing", "waiting"}, NEW what,
         Tell(c, what), UNCHANGED <<handle, children, child, cancelled, cancelling>>
  PROVE  OwnEntry' /\ Given' /\ Unstarted' /\ Untold' /\ Missed'
<1>1. TypeOK
  BY DEF TableInv, NumberInv
<1>2. pc'[c] = "done" /\ \A d \in Calls \ {c} : pc'[d] = pc[d] /\ told'[d] = told[d]
  BY <1>1 DEF TypeOK, Tell, Goto
<1>3. OwnEntry'
  <2> SUFFICES ASSUME NEW h \in Handles, children[h] # Nobody
               PROVE  handle[children[h]] = h /\ pc'[children[h]] = "created"
    BY DEF OwnEntry, Handles
  <2>1. handle[children[h]] = h /\ pc[children[h]] = "created"
    BY DEF TableInv, OwnEntry
  <2>2. children[h] \in Calls
    BY <1>1 DEF TypeOK
  <2>3. children[h] # c
    BY <2>1
  <2> QED
    BY <1>2, <2>1, <2>2, <2>3
<1> QED
  BY <1>2, <1>3 DEF TableInv, Given, Unstarted, Untold, Missed

LEMMA EndsKeeps ==
  ASSUME TableInv, NEW c \in Calls, Ends(c)
  PROVE  OwnEntry' /\ Given' /\ Unstarted' /\ Untold' /\ Missed'
<1>1. \A d \in Calls : child[d] = "none" => child'[d] = "none"
  BY DEF TableInv, NumberInv, TypeOK, Ends
<1> QED
  BY <1>1, EndKeeps DEF Ends

LEMMA TableNext == TableInv /\ [Next]_vars => TableInv'
<1> SUFFICES ASSUME TableInv, [Next]_vars PROVE TableInv'
  OBVIOUS
<1>1. NumberInv'
  BY NumberNext DEF TableInv
<1>2. ASSUME NEW c \in Calls, SpawnFails(c) \/ NotFound(c) \/ Waited(c) \/ WaitFails(c)
      PROVE  OwnEntry' /\ Given' /\ Unstarted' /\ Untold' /\ Missed'
  BY <1>2, TellKeeps DEF SpawnFails, NotFound, Waited, WaitFails
<1>3. ASSUME UNCHANGED vars PROVE OwnEntry' /\ Given' /\ Unstarted' /\ Untold' /\ Missed'
  BY <1>3 DEF vars, TableInv, OwnEntry, Given, Unstarted, Untold, Missed, Handles
<1> QED
  BY <1>1, <1>2, <1>3, TakeIdKeeps, SpawnKeeps, WaitKeeps, ForgottenKeeps, CancelKeeps,
     CancelContainerKeeps, EndsKeeps
  DEF TableInv, Next, Step, AllDone, Blocked

LEMMA TableInvariant == Spec => []TableInv
BY TableInit, TableNext, PTL DEF Spec

(***************************************************************************)
(* Whatever is created, waited for and cancelled at the same time, a table *)
(* entry holds the child of the call that was given its number.            *)
(***************************************************************************)
THEOREM OwnEntryHolds == Spec => []OwnEntry
BY TableInvariant, PTL DEF TableInv

-----------------------------------------------------------------------------
(* The contract.                                                           *)

LEMMA SpawnStarts ==
  ASSUME TableInv, NEW c \in Calls, Spawn(c)
  PROVE  Runtime!Start(c)
BY DEF TableInv, NumberInv, TypeOK, Unstarted, Untold, Spawn, Runtime!Start

LEMMA EndsEnds ==
  ASSUME TableInv, NEW c \in Calls, Ends(c)
  PROVE  [Runtime!Next]_Runtime!vars
<1>1. CASE child[c] = "running"
  <2>1. Runtime!End(c)
    BY <1>1 DEF Ends, Runtime!End
  <2> QED
    BY <2>1 DEF Runtime!Next
<1>2. CASE child[c] # "running"
  BY <1>2 DEF Ends, Runtime!vars
<1> QED
  BY <1>1, <1>2

LEMMA TellAnswers ==
  ASSUME TableInv, NEW c \in Calls, pc[c] # "done", UNCHANGED <<child, cancelled>>,
         NEW a \in {"ok", "failed", "error"}, Tell(c, a),
         a = "ok" => child[c] = "ok",
         a = "failed" => child[c] = "failed" \/ c \in cancelled
  PROVE  Runtime!Next
<1>1. told[c] = "none"
  BY DEF TableInv, Untold
<1>2. Runtime!Answer(c, a)
  BY <1>1 DEF Runtime!Answer, Tell
<1> QED
  BY <1>2 DEF Runtime!Next

LEMMA NotFoundAnswers ==
  ASSUME TableInv, NEW c \in Calls, NotFound(c)
  PROVE  Runtime!Next
<1>1. pc[c] = "missing" /\ c \in cancelled
  BY DEF NotFound, TableInv, Missed
<1> QED
  BY <1>1, TellAnswers DEF NotFound

LEMMA ReapAnswers ==
  ASSUME TableInv, NEW c \in Calls, Waited(c) \/ WaitFails(c) \/ SpawnFails(c)
  PROVE  Runtime!Next
<1>1. CASE Waited(c)
  <2>1. Verdict(child[c]) = child[c] /\ child[c] \in {"ok", "failed"}
    BY <1>1 DEF Waited, Reaped, Verdict
  <2> QED
    BY <1>1, <2>1, TellAnswers DEF Waited
<1>2. CASE WaitFails(c) \/ SpawnFails(c)
  BY <1>2, TellAnswers DEF WaitFails, SpawnFails
<1> QED
  BY <1>1, <1>2

LEMMA CancelCancels ==
  ASSUME TableInv, NEW c \in Calls, Cancel(c)
  PROVE  Runtime!Next
<1>1. pc[c] # "idle" /\ TypeOK
  BY DEF Cancel, MayCancel, TableInv, NumberInv
<1>2. /\ \A d \in Calls \ {c} : child'[d] = child[d]
      /\ child'[c] = child[c] \/ (child[c] = "running" /\ child'[c] = "killed")
      /\ child' \in [Calls -> {"none", "running", "ok", "failed", "killed"}]
  <2>1. child' = [d \in Calls |-> IF d = children[handle[c]] /\ child[d] = "running"
                                  THEN "killed" ELSE child[d]]
    BY DEF Cancel
  <2>2. children[handle[c]] \in {c, Nobody} /\ Nobody \notin Calls
    BY <1>1, VictimIsOwn, ChildAssumption
  <2> QED
    BY <1>1, <2>1, <2>2 DEF TypeOK
<1>3. child' = child \/ (child[c] = "running" /\ child' = [child EXCEPT ![c] = "killed"])
  BY <1>1, <1>2 DEF TypeOK
<1>4. Runtime!Cancel(c)
  BY <1>3 DEF Runtime!Cancel, Cancel
<1> QED
  BY <1>4 DEF Runtime!Next

LEMMA ContainerEndsEnds ==
  ASSUME TableInv, NEW c \in Calls, CancelContainer(c)
  PROVE  [Runtime!Next]_Runtime!vars
<1>1. CASE child[c] = "running" /\ child' = [child EXCEPT ![c] = "failed"]
  <2>1. Runtime!End(c)
    BY <1>1 DEF CancelContainer, Runtime!End
  <2> QED
    BY <2>1 DEF Runtime!Next
<1>2. CASE UNCHANGED child
  BY <1>2 DEF CancelContainer, Runtime!vars
<1> QED
  BY <1>1, <1>2 DEF CancelContainer, ContainerEnds

LEMMA NextSimulated ==
  TableInv /\ [Next]_vars => [Runtime!Next]_Runtime!vars
<1> SUFFICES ASSUME TableInv, [Next]_vars PROVE [Runtime!Next]_Runtime!vars
  OBVIOUS
<1>1. ASSUME NEW c \in Calls, TakeId(c) \/ Wait(c) \/ Forgotten(c)
      PROVE  UNCHANGED Runtime!vars
  BY <1>1 DEF TakeId, Wait, Forgotten, Runtime!vars
<1>2. ASSUME NEW c \in Calls, Spawn(c) PROVE Runtime!Next
  BY <1>2, SpawnStarts DEF Runtime!Next
<1>3. ASSUME UNCHANGED vars PROVE UNCHANGED Runtime!vars
  BY <1>3 DEF vars, Runtime!vars
<1> QED
  BY <1>1, <1>2, <1>3, EndsEnds, NotFoundAnswers, ReapAnswers, CancelCancels,
     ContainerEndsEnds
  DEF Next, Step, AllDone, Blocked

(***************************************************************************)
(* A wait reports the end of the child its own create started, or a        *)
(* failure of a call that was cancelled (local.rs:31-87, docker.rs:45-139).*)
(***************************************************************************)
THEOREM ContractHolds == Spec => Contract
<1>1. Init => Runtime!Init
  BY DEF Init, Runtime!Init
<1> QED
  BY <1>1, NextSimulated, TableInvariant, PTL DEF Spec, Contract, Runtime!Spec

-----------------------------------------------------------------------------
(* What is said for a hat and what is heard of it.                         *)

LEMMA FileOfType ==
  ASSUME NEW j \in Jobs PROVE Hats!FileOf(j) \in Hats!FileNames
BY DEF Hats!FileOf, Hats!FileNames

LEMMA EmitType ==
  ASSUME Hats!TypeOK, NEW j \in Jobs, NEW what \in Hats!Emittable \cup {"default"},
         Hats!Emit(j, what)
  PROVE  there' \subseteq Hats!FileNames /\ lines' \in [Hats!FileNames -> Seq(Hats!Line)]
<1>1. Hats!FileOf(j) \in Hats!FileNames /\ [by |-> j, what |-> what] \in Hats!Line
  BY FileOfType DEF Hats!Line
<1>2. Append(lines[Hats!FileOf(j)], [by |-> j, what |-> what]) \in Seq(Hats!Line)
  BY <1>1, AppendProperties DEF Hats!TypeOK
<1> QED
  BY <1>1, <1>2 DEF Hats!Emit, Hats!TypeOK

LEMMA EmitFailsType ==
  ASSUME Hats!TypeOK, NEW j \in Jobs, Hats!EmitFails(j)
  PROVE  there' \subseteq Hats!FileNames /\ lines' \in [Hats!FileNames -> Seq(Hats!Line)]
BY FileOfType DEF Hats!EmitFails, Hats!TypeOK

LEMMA ReadType ==
  ASSUME Hats!TypeOK, NEW j \in Jobs, Hats!ReadLine(j)
  PROVE  /\ read' \in [Jobs -> Nat]
         /\ heard' \in [Jobs -> Seq([nr : Nat, line : Hats!Line])]
<1> DEFINE n == read[j] + 1
           line == lines[Hats!FileOf(j)][n]
<1>1. read[j] \in Nat /\ lines[Hats!FileOf(j)] \in Seq(Hats!Line)
  BY FileOfType DEF Hats!TypeOK
<1>2. n \in 1..Len(lines[Hats!FileOf(j)]) /\ n \in Nat
  BY <1>1, LenProperties DEF Hats!ReadLine
<1>3. line \in Hats!Line
  BY <1>1, <1>2, ElementOfSeq
<1>4. [nr |-> n, line |-> line] \in [nr : Nat, line : Hats!Line]
  BY <1>2, <1>3
<1>5. Append(heard[j], [nr |-> n, line |-> line]) \in Seq([nr : Nat, line : Hats!Line])
  BY <1>4, AppendProperties DEF Hats!TypeOK
<1>6. heard' = heard \/ heard' = [heard EXCEPT ![j] = Append(@, [nr |-> n, line |-> line])]
  BY DEF Hats!ReadLine
<1>7. heard' \in [Jobs -> Seq([nr : Nat, line : Hats!Line])]
  BY <1>5, <1>6 DEF Hats!TypeOK
<1>8. read' \in [Jobs -> Nat]
  BY <1>1 DEF Hats!ReadLine, Hats!TypeOK
<1> QED
  BY <1>7, <1>8

LEMMA WrapperType ==
  ASSUME Hats!TypeOK, NEW j \in Jobs, Hats!Wrapper(j)
  PROVE  Hats!TypeOK'
<1>1. there' \subseteq Hats!FileNames /\ lines' \in [Hats!FileNames -> Seq(Hats!Line)]
  BY EmitType, EmitFailsType DEF Hats!Wrapper, Hats!TypeOK
<1>2. PICK ended \in {"ok", "failed"} : Hats!WrapperEnds(j, ended)
  BY DEF Hats!Wrapper
<1>3. /\ status' \in [Jobs -> {"none", "ok", "failed", "aborted"}]
      /\ hatPc' \in [Jobs -> {"waiting", "ai", "wrapper", "agent", "controller", "ended"}]
  BY <1>2 DEF Hats!WrapperEnds, Hats!Goto, Hats!TypeOK
<1> QED
  BY <1>1, <1>2, <1>3 DEF Hats!WrapperEnds, Hats!TypeOK

LEMMA HatsTypeNext == Hats!TypeOK /\ [Hats!Next]_Hats!vars => Hats!TypeOK'
<1> SUFFICES ASSUME Hats!TypeOK, [Hats!Next]_Hats!vars PROVE Hats!TypeOK'
  OBVIOUS
<1>1. ASSUME NEW j \in Jobs,
             Hats!Start(j) \/ Hats!AiPrints(j) \/ Hats!AiEnds(j) \/ Hats!AgentExits(j)
      PROVE  Hats!TypeOK'
  BY <1>1 DEF Hats!TypeOK, Hats!Start, Hats!AiPrints, Hats!AiEnds, Hats!AgentExits, Hats!Goto
<1>2. ASSUME NEW j \in Jobs, Hats!AiEmits(j) PROVE Hats!TypeOK'
  <2>1. calls' \in [Jobs -> 0..MaxEmits]
    BY <1>2, EmitsAssumption DEF Hats!AiEmits, Hats!TypeOK
  <2>2. ASSUME NEW what \in Hats!Emittable
        PROVE  Append(emitted[j], what) \in Seq(Hats!Emittable)
    BY <2>2, AppendProperties DEF Hats!TypeOK
  <2>3. emitted' \in [Jobs -> Seq(Hats!Emittable)]
    BY <1>2, <2>2 DEF Hats!AiEmits, Hats!TypeOK
  <2>4. there' \subseteq Hats!FileNames /\ lines' \in [Hats!FileNames -> Seq(Hats!Line)]
    BY <1>2, EmitType, EmitFailsType DEF Hats!AiEmits
  <2> QED
    BY <1>2, <2>1, <2>3, <2>4 DEF Hats!AiEmits, Hats!TypeOK
<1>3. ASSUME NEW j \in Jobs, Hats!AgentReads(j) \/ Hats!AgentFails(j) PROVE Hats!TypeOK'
  <2>1. /\ read' \in [Jobs -> Nat]
        /\ heard' \in [Jobs -> Seq([nr : Nat, line : Hats!Line])]
    BY <1>3, ReadType DEF Hats!AgentReads, Hats!AgentFails, Hats!TypeOK
  <2> QED
    BY <1>3, <2>1 DEF Hats!AgentReads, Hats!AgentFails, Hats!Goto, Hats!TypeOK
<1>4. ASSUME NEW j \in Jobs, Hats!ControllerSays(j) \/ Hats!ControllerFails(j)
      PROVE  Hats!TypeOK'
  <2>1. Hats!Answer(j) \in {"none", "nothing", "default", "printed"}
    BY DEF Hats!Answer
  <2>2. said' \in [Jobs -> {"none", "nothing", "default", "printed"}]
    <3>1. [said EXCEPT ![j] = Hats!Answer(j)] \in [Jobs -> {"none", "nothing", "default", "printed"}]
      BY <2>1 DEF Hats!TypeOK
    <3>2. said' = said \/ said' = [said EXCEPT ![j] = Hats!Answer(j)]
      BY <1>4 DEF Hats!ControllerSays, Hats!ControllerFails
    <3> QED
      BY <3>1, <3>2 DEF Hats!TypeOK
  <2>3. /\ status' \in [Jobs -> {"none", "ok", "failed", "aborted"}]
        /\ hatPc' \in [Jobs -> {"waiting", "ai", "wrapper", "agent", "controller", "ended"}]
    BY <1>4 DEF Hats!ControllerSays, Hats!ControllerFails, Hats!Goto, Hats!TypeOK
  <2>4. UNCHANGED <<place, calls, emitted, printed, there, lines, read, heard>>
    BY <1>4 DEF Hats!ControllerSays, Hats!ControllerFails
  <2> QED
    BY <2>2, <2>3, <2>4 DEF Hats!TypeOK
<1>5. ASSUME UNCHANGED Hats!vars PROVE Hats!TypeOK'
  BY <1>5 DEF Hats!vars, Hats!TypeOK
<1> QED
  BY <1>1, <1>2, <1>3, <1>4, <1>5, WrapperType DEF Hats!Next, Hats!Handles, Hats!AllEnded

(***************************************************************************)
(* In a pod the emit file is the job's own.  Up to the wrapper it holds    *)
(* what the AI wrote, line by line; then the default may follow, if there  *)
(* was no file, and that is if emit was never called or always failed.     *)
(***************************************************************************)
Early(j) == hatPc[j] \in {"waiting", "ai", "wrapper"}

Holds(j, s) ==
  Len(lines[j]) = Len(s) /\ \A i \in 1..Len(s) : lines[j][i] = [by |-> j, what |-> s[i]]

FileOK(j) ==
  /\ emitted[j] # <<>> => j \in there
  /\ Early(j) => Holds(j, emitted[j]) /\ (calls[j] = 0 => j \notin there)
  /\ hatPc[j] \in {"agent", "controller"} => status[j] = "ok"
  /\ ~Early(j) =>
       \/ Holds(j, Hats!Script(j))
       \/ Holds(j, emitted[j]) /\ (status[j] = "failed" \/ calls[j] # 0)

(***************************************************************************)
(* The agent has published, of the lines it is through with, those that    *)
(* can be heard, in their order.                                           *)
(***************************************************************************)
ReadOK(j) ==
  /\ read[j] \in 0..Len(lines[j])
  /\ \A i \in DOMAIN heard[j] :
       heard[j][i].nr \in 1..read[j] /\ heard[j][i].line = lines[j][heard[j][i].nr]
  /\ Hats!InOrder(j)
  /\ \A n \in 1..read[j] :
       Hats!IsHeard(lines[j][n]) => \E i \in DOMAIN heard[j] : heard[j][i].nr = n
  /\ Hats!Succeeded(j) => read[j] = Len(lines[j])

\* The lines of a pod's job have an end.
LEMMA OwnLines ==
  ASSUME Hats!TypeOK, NEW j \in Jobs, place = "pod"
  PROVE  /\ Hats!FileOf(j) = j /\ j \in Hats!FileNames
         /\ lines[j] \in Seq(Hats!Line) /\ Len(lines[j]) \in Nat /\ read[j] \in Nat
         /\ emitted[j] \in Seq(Hats!Emittable) /\ Len(emitted[j]) \in Nat
         /\ heard[j] \in Seq([nr : Nat, line : Hats!Line]) /\ Len(heard[j]) \in Nat
         /\ DOMAIN heard[j] = 1..Len(heard[j])
         /\ calls[j] \in 0..MaxEmits
<1>1. Hats!FileOf(j) = j /\ j \in Hats!FileNames
  BY DEF Hats!FileOf, Hats!FileNames
<1>2. /\ lines[j] \in Seq(Hats!Line) /\ read[j] \in Nat /\ emitted[j] \in Seq(Hats!Emittable)
      /\ heard[j] \in Seq([nr : Nat, line : Hats!Line]) /\ calls[j] \in 0..MaxEmits
  BY <1>1 DEF Hats!TypeOK
<1> QED
  BY <1>1, <1>2, LenProperties

\* One more line in the file of the job itself.
LEMMA EmitAppends ==
  ASSUME Hats!TypeOK, place = "pod", NEW j \in Jobs,
         NEW what \in Hats!Emittable \cup {"default"}, Hats!Emit(j, what)
  PROVE  /\ Len(lines'[j]) = Len(lines[j]) + 1
         /\ \A i \in 1..Len(lines[j]) : lines'[j][i] = lines[j][i]
         /\ lines'[j][Len(lines[j]) + 1] = [by |-> j, what |-> what]
         /\ j \in there'
<1> DEFINE e == [by |-> j, what |-> what]
<1>1. e \in Hats!Line /\ lines[j] \in Seq(Hats!Line) /\ Hats!FileOf(j) = j
  BY OwnLines DEF Hats!Line
<1>2. lines'[j] = Append(lines[j], e) /\ j \in there'
  BY <1>1, OwnLines DEF Hats!Emit, Hats!TypeOK
<1> HIDE DEF e
<1>3. /\ Len(Append(lines[j], e)) = Len(lines[j]) + 1
      /\ \A i \in 1..Len(lines[j]) : Append(lines[j], e)[i] = lines[j][i]
      /\ Append(lines[j], e)[Len(lines[j]) + 1] = e
  BY <1>1, AppendProperties
<1>4. e = [by |-> j, what |-> what]
  BY DEF e
<1> QED
  BY <1>2, <1>3, <1>4

\* A longer file disturbs nothing that was read of it.
LEMMA ReadKept ==
  ASSUME Hats!TypeOK, place = "pod", NEW j \in Jobs, ReadOK(j),
         UNCHANGED <<read, heard>>, Len(lines'[j]) \in Nat, Len(lines[j]) <= Len(lines'[j]),
         \A i \in 1..Len(lines[j]) : lines'[j][i] = lines[j][i],
         Hats!Succeeded(j)' => Hats!Succeeded(j) /\ Len(lines'[j]) = Len(lines[j])
  PROVE  ReadOK(j)'
<1>1. read[j] \in 0..Len(lines[j]) /\ Len(lines[j]) \in Nat /\ read'[j] = read[j]
  BY OwnLines DEF ReadOK
<1>2. read'[j] \in 0..Len(lines'[j]) /\ \A n \in 1..read[j] : lines'[j][n] = lines[j][n]
  BY <1>1
<1>3. /\ \A i \in DOMAIN heard'[j] :
           heard'[j][i].nr \in 1..read'[j] /\ heard'[j][i].line = lines'[j][heard'[j][i].nr]
      /\ \A n \in 1..read'[j] :
           Hats!IsHeard(lines'[j][n]) => \E i \in DOMAIN heard'[j] : heard'[j][i].nr = n
  BY <1>1, <1>2 DEF ReadOK
<1>4. Hats!InOrder(j)'
  BY DEF ReadOK, Hats!InOrder
<1>5. Hats!Succeeded(j)' => read'[j] = Len(lines'[j])
  BY <1>1 DEF ReadOK
<1> QED
  BY <1>2, <1>3, <1>4, <1>5 DEF ReadOK, Hats!IsHeard

\* The next line of the file, published if it can be.
LEMMA ReadNext ==
  ASSUME Hats!TypeOK, place = "pod", NEW j \in Jobs, ReadOK(j), Hats!ReadLine(j),
         UNCHANGED lines, ~Hats!Succeeded(j)'
  PROVE  ReadOK(j)'
<1> DEFINE n == read[j] + 1
           line == lines[j][n]
<1>1. /\ read[j] \in Nat /\ Len(lines[j]) \in Nat /\ read[j] < Len(lines[j])
      /\ read'[j] = n /\ n \in 1..Len(lines[j])
      /\ heard[j] \in Seq([nr : Nat, line : Hats!Line]) /\ Len(heard[j]) \in Nat
      /\ DOMAIN heard[j] = 1..Len(heard[j])
  <2>1. /\ read[j] \in Nat /\ Len(lines[j]) \in Nat /\ Hats!FileOf(j) = j
        /\ heard[j] \in Seq([nr : Nat, line : Hats!Line]) /\ Len(heard[j]) \in Nat
        /\ DOMAIN heard[j] = 1..Len(heard[j])
    BY OwnLines
  <2>2. read[j] < Len(lines[j])
    BY <2>1 DEF Hats!ReadLine
  <2>3. read'[j] = n
    BY DEF Hats!ReadLine, Hats!TypeOK
  <2>4. n \in 1..Len(lines[j])
    BY <2>1, <2>2
  <2> QED
    BY <2>1, <2>2, <2>3, <2>4
<1>2. heard'[j] = IF Hats!IsHeard(line) THEN Append(heard[j], [nr |-> n, line |-> line])
                  ELSE heard[j]
  BY OwnLines DEF Hats!ReadLine, Hats!TypeOK
<1>3. line \in Hats!Line
  BY <1>1, OwnLines, ElementOfSeq
<1>4. \A i \in 1..Len(heard[j]) : heard[j][i].nr \in 1..read[j] /\ heard[j][i].nr \in Int
  BY <1>1 DEF ReadOK
<1>5. CASE ~Hats!IsHeard(line)
  <2>1. heard'[j] = heard[j]
    BY <1>2, <1>5
  <2>2. \A m \in 1..read'[j] : m = n \/ m \in 1..read[j]
    BY <1>1
  <2>3. \A i \in 1..Len(heard[j]) : heard[j][i].nr \in 1..read'[j]
    BY <1>1, <1>4
  <2>4. Hats!InOrder(j)'
    BY <2>1 DEF ReadOK, Hats!InOrder
  <2>5. read'[j] \in 0..Len(lines'[j])
    BY <1>1
  <2>6. \A i \in DOMAIN heard'[j] : heard'[j][i].line = lines'[j][heard'[j][i].nr]
    BY <2>1 DEF ReadOK
  <2>7. \A m \in 1..read'[j] :
          Hats!IsHeard(lines'[j][m]) => \E i \in DOMAIN heard'[j] : heard'[j][i].nr = m
    BY <1>5, <2>1, <2>2 DEF ReadOK
  <2> QED
    BY <1>1, <2>1, <2>3, <2>4, <2>5, <2>6, <2>7 DEF ReadOK, Hats!IsHeard
<1>6. CASE Hats!IsHeard(line)
  <2> DEFINE e == [nr |-> n, line |-> line]
             k == Len(heard[j]) + 1
  <2>1. e \in [nr : Nat, line : Hats!Line]
    BY <1>1, <1>3
  <2>2. e.nr = n /\ e.line = line
    OBVIOUS
  <2> HIDE DEF e
  <2>3. /\ heard'[j] = Append(heard[j], e)
        /\ Append(heard[j], e) \in Seq([nr : Nat, line : Hats!Line])
        /\ Len(Append(heard[j], e)) = k
        /\ \A i \in 1..Len(heard[j]) : Append(heard[j], e)[i] = heard[j][i]
        /\ Append(heard[j], e)[k] = e
    BY <1>1, <1>2, <1>6, <2>1, AppendProperties DEF e
  <2>4. DOMAIN heard'[j] = 1..k
    BY <2>3, LenProperties
  <2>5. \A i \in 1..k : i = k \/ i \in 1..Len(heard[j])
    BY <1>1
  <2>6. \A i \in 1..Len(heard[j]) : heard'[j][i] = heard[j][i]
    BY <2>3
  <2>7. heard'[j][k].nr = n /\ heard'[j][k].line = line
    BY <2>2, <2>3
  <2>8. \A i \in DOMAIN heard'[j] :
          heard'[j][i].nr \in 1..read'[j] /\ heard'[j][i].line = lines'[j][heard'[j][i].nr]
    <3> SUFFICES ASSUME NEW i \in 1..k
                 PROVE  /\ heard'[j][i].nr \in 1..read'[j]
                        /\ heard'[j][i].line = lines'[j][heard'[j][i].nr]
      BY <2>4
    <3>1. CASE i = k
      BY <1>1, <2>7, <3>1
    <3>2. CASE i \in 1..Len(heard[j])
      <4>1. heard[j][i].nr \in 1..read[j] /\ heard[j][i].line = lines[j][heard[j][i].nr]
        BY <1>1, <3>2 DEF ReadOK
      <4>2. 1..read[j] \subseteq 1..read'[j]
        BY <1>1
      <4>3. heard'[j][i] = heard[j][i]
        BY <2>6, <3>2
      <4> QED
        BY <4>1, <4>2, <4>3
    <3> QED
      BY <2>5, <3>1, <3>2
  <2>9. Hats!InOrder(j)'
    <3> SUFFICES ASSUME NEW a \in 1..k, NEW b \in 1..k, a < b
                 PROVE  heard'[j][a].nr < heard'[j][b].nr
      BY <2>4 DEF Hats!InOrder
    <3>1. a \in 1..Len(heard[j])
      BY <1>1
    <3>2. CASE b = k
      <4>1. heard[j][a].nr \in 1..read[j] /\ heard'[j][a] = heard[j][a]
        BY <1>4, <2>6, <3>1
      <4>2. \A x \in 1..read[j] : x < n
        BY <1>1
      <4>3. heard'[j][b].nr = n
        BY <2>7, <3>2
      <4> QED
        BY <4>1, <4>2, <4>3
    <3>3. CASE b \in 1..Len(heard[j])
      BY <1>1, <2>6, <3>1, <3>3 DEF ReadOK, Hats!InOrder
    <3> QED
      BY <2>5, <3>2, <3>3
  <2>10. \A m \in 1..read'[j] :
           Hats!IsHeard(lines'[j][m]) => \E i \in DOMAIN heard'[j] : heard'[j][i].nr = m
    <3> SUFFICES ASSUME NEW m \in 1..read'[j], Hats!IsHeard(lines[j][m])
                 PROVE  \E i \in 1..k : heard'[j][i].nr = m
      BY <2>4 DEF Hats!IsHeard
    <3>1. CASE m = n
      BY <1>1, <2>7, <3>1
    <3>2. CASE m # n
      <4>1. m \in 1..read[j]
        BY <1>1, <3>2
      <4>2. PICK i \in 1..Len(heard[j]) : heard[j][i].nr = m
        BY <1>1, <4>1 DEF ReadOK
      <4>3. i \in 1..k
        BY <1>1
      <4>4. heard'[j][i] = heard[j][i]
        BY <2>6
      <4> QED
        BY <4>2, <4>3, <4>4
    <3> QED
      BY <3>1, <3>2
  <2>11. read'[j] \in 0..Len(lines'[j])
    BY <1>1
  <2> QED
    BY <2>8, <2>9, <2>10, <2>11 DEF ReadOK, Hats!IsHeard
<1> QED
  BY <1>5, <1>6

JobOK(j) == FileOK(j) /\ ReadOK(j)

LEMMA AiEmitsKeeps ==
  ASSUME Hats!TypeOK, place = "pod", NEW j \in Jobs, Hats!AiEmits(j), JobOK(j)
  PROVE  JobOK(j)'
<1>1. /\ hatPc[j] = "ai" /\ UNCHANGED <<hatPc, status, read, heard>>
      /\ calls'[j] = calls[j] + 1 /\ calls[j] \in Nat
      /\ Early(j) /\ Early(j)' /\ ~Hats!Succeeded(j)'
  BY EmitsAssumption DEF Hats!AiEmits, Hats!TypeOK, Early, Hats!Succeeded
<1>2. /\ Len(lines[j]) \in Nat /\ Len(emitted[j]) \in Nat /\ Len(lines[j]) = Len(emitted[j])
      /\ Holds(j, emitted[j])
  BY <1>1, OwnLines DEF JobOK, FileOK, Holds
<1>3. CASE Hats!EmitFails(j) /\ UNCHANGED emitted
  <2>1. UNCHANGED lines /\ there \subseteq there'
    BY <1>3 DEF Hats!EmitFails
  <2>2. FileOK(j)'
    BY <1>1, <1>2, <1>3, <2>1 DEF JobOK, FileOK, Holds, Hats!Script
  <2>3. ReadOK(j)'
    BY <1>1, <1>2, <2>1, ReadKept DEF JobOK
  <2> QED
    BY <2>2, <2>3 DEF JobOK
<1>4. ASSUME NEW what \in Hats!Emittable, Hats!Emit(j, what),
             emitted' = [emitted EXCEPT ![j] = Append(@, what)]
      PROVE  JobOK(j)'
  <2>1. /\ Len(lines'[j]) = Len(lines[j]) + 1
        /\ \A i \in 1..Len(lines[j]) : lines'[j][i] = lines[j][i]
        /\ lines'[j][Len(lines[j]) + 1] = [by |-> j, what |-> what]
        /\ j \in there'
    BY <1>4, EmitAppends
  <2>2. /\ emitted'[j] = Append(emitted[j], what)
        /\ Len(Append(emitted[j], what)) = Len(emitted[j]) + 1
        /\ \A i \in 1..Len(emitted[j]) : Append(emitted[j], what)[i] = emitted[j][i]
        /\ Append(emitted[j], what)[Len(emitted[j]) + 1] = what
    BY <1>4, OwnLines, AppendProperties DEF Hats!TypeOK
  <2>3. ASSUME NEW i \in 1..Len(emitted'[j])
        PROVE  lines'[j][i] = [by |-> j, what |-> emitted'[j][i]]
    <3>1. CASE i \in 1..Len(emitted[j])
      BY <1>2, <2>1, <2>2, <3>1 DEF Holds
    <3>2. CASE i = Len(emitted[j]) + 1
      BY <1>2, <2>1, <2>2, <3>2
    <3> QED
      BY <1>2, <2>2, <3>1, <3>2
  <2>4. Holds(j, emitted[j])'
    BY <1>2, <2>1, <2>2, <2>3 DEF Holds
  <2>5. FileOK(j)'
    BY <1>1, <2>1, <2>4 DEF FileOK
  <2>6. ReadOK(j)'
    BY <1>1, <1>2, <2>1, ReadKept DEF JobOK
  <2> QED
    BY <2>5, <2>6 DEF JobOK
<1> QED
  BY <1>3, <1>4 DEF Hats!AiEmits

LEMMA WrapperKeeps ==
  ASSUME Hats!TypeOK, place = "pod", NEW j \in Jobs, Hats!Wrapper(j), JobOK(j)
  PROVE  JobOK(j)'
<1>1. PICK ended \in {"ok", "failed"} :
        /\ hatPc[j] = "wrapper" /\ Early(j) /\ ~Early(j)'
        /\ hatPc'[j] = (IF ended = "ok" THEN "agent" ELSE "ended") /\ status'[j] = ended
        /\ UNCHANGED <<calls, emitted, read, heard>>
        /\ ~Hats!Succeeded(j)'
        /\ \/ Hats!SpeaksFor(j) /\ Hats!Emit(j, "default")
           \/ Hats!SpeaksFor(j) /\ Hats!EmitFails(j) /\ ended = "failed"
           \/ ~Hats!SpeaksFor(j) /\ UNCHANGED <<there, lines>>
  <2>1. PICK ended \in {"ok", "failed"} :
          /\ Hats!WrapperEnds(j, ended)
          /\ \/ Hats!SpeaksFor(j) /\ Hats!Emit(j, "default")
             \/ Hats!SpeaksFor(j) /\ Hats!EmitFails(j) /\ ended = "failed"
             \/ ~Hats!SpeaksFor(j) /\ UNCHANGED <<there, lines>>
    BY DEF Hats!Wrapper
  <2>2. /\ hatPc'[j] = (IF ended = "ok" THEN "agent" ELSE "ended") /\ status'[j] = ended
    BY <2>1 DEF Hats!WrapperEnds, Hats!Goto, Hats!TypeOK
  <2> QED
    BY <2>1, <2>2 DEF Hats!WrapperEnds, Early, Hats!Succeeded
<1>2. /\ Len(lines[j]) \in Nat /\ Len(lines[j]) = Len(emitted[j]) /\ Holds(j, emitted[j])
      /\ calls[j] = 0 => j \notin there
      /\ emitted[j] # <<>> => j \in there
      /\ Hats!FileOf(j) = j /\ emitted[j] \in Seq(Hats!Emittable)
  BY <1>1, OwnLines DEF JobOK, FileOK, Holds
<1>3. CASE Hats!SpeaksFor(j) /\ Hats!Emit(j, "default")
  <2>1. /\ Len(lines'[j]) = Len(lines[j]) + 1
        /\ \A i \in 1..Len(lines[j]) : lines'[j][i] = lines[j][i]
        /\ lines'[j][Len(lines[j]) + 1] = [by |-> j, what |-> "default"]
        /\ j \in there'
    BY <1>3, EmitAppends
  <2>2. emitted[j] = <<>> /\ j \in Speaking /\ Len(lines[j]) = 0
    BY <1>2, <1>3 DEF Hats!SpeaksFor, Hats!Silent
  <2>3. Hats!Script(j)' = <<"default">>
    BY <1>1, <2>2 DEF Hats!Script
  <2>4. Holds(j, Hats!Script(j))'
    BY <2>1, <2>2, <2>3 DEF Holds
  <2>5. FileOK(j)'
    BY <1>1, <2>1, <2>4 DEF FileOK
  <2>6. ReadOK(j)'
    BY <1>1, <1>2, <2>1, ReadKept DEF JobOK
  <2> QED
    BY <2>5, <2>6 DEF JobOK
<1>4. CASE Hats!SpeaksFor(j) /\ Hats!EmitFails(j) /\ status'[j] = "failed"
  <2>1. UNCHANGED lines /\ there \subseteq there'
    BY <1>4 DEF Hats!EmitFails
  <2>2. FileOK(j)'
    BY <1>1, <1>2, <1>4, <2>1 DEF FileOK, Holds
  <2>3. ReadOK(j)'
    BY <1>1, <1>2, <2>1, ReadKept DEF JobOK
  <2> QED
    BY <2>2, <2>3 DEF JobOK
<1>5. CASE ~Hats!SpeaksFor(j) /\ UNCHANGED <<there, lines>>
  <2>1. Hats!Script(j)' = emitted[j] \/ calls[j] # 0
    BY <1>1, <1>2, <1>5 DEF Hats!SpeaksFor, Hats!Silent, Hats!Script
  <2>2. Holds(j, emitted[j])' /\ (Hats!Script(j)' = emitted[j] => Holds(j, Hats!Script(j))')
    BY <1>1, <1>2, <1>5 DEF Holds
  <2>3. FileOK(j)'
    BY <1>1, <1>2, <1>5, <2>1, <2>2 DEF FileOK
  <2>4. ReadOK(j)'
    BY <1>1, <1>2, <1>5, ReadKept DEF JobOK
  <2> QED
    BY <2>3, <2>4 DEF JobOK
<1> QED
  BY <1>1, <1>3, <1>4, <1>5

\* The agent, and the controller after it, leave the file as it is.
LEMMA LateKeeps ==
  ASSUME Hats!TypeOK, place = "pod", NEW j \in Jobs, JobOK(j),
         \/ Hats!AgentReads(j) \/ Hats!AgentFails(j) \/ Hats!AgentExits(j)
         \/ Hats!ControllerSays(j) \/ Hats!ControllerFails(j)
  PROVE  JobOK(j)'
<1>1. /\ hatPc[j] \in {"agent", "controller"} /\ UNCHANGED <<calls, emitted, there, lines>>
      /\ hatPc'[j] \in {"agent", "controller"} => status'[j] = status[j]
      /\ ~Early(j) /\ ~Early(j)'
  BY DEF Hats!AgentReads, Hats!AgentFails, Hats!AgentExits, Hats!ControllerSays,
     Hats!ControllerFails, Hats!Goto, Hats!TypeOK, Early
<1>2. status[j] = "ok"
  BY <1>1 DEF JobOK, FileOK
<1>3. FileOK(j)'
  BY <1>1, <1>2 DEF JobOK, FileOK, Holds, Hats!Script
<1>4. Len(lines[j]) \in Nat /\ Len(lines[j]) <= Len(lines'[j]) /\ Hats!FileOf(j) = j
  BY <1>1, OwnLines
<1>5. CASE Hats!AgentReads(j) \/ Hats!AgentFails(j)
  <2>1. ~Hats!Succeeded(j)'
    BY <1>5 DEF Hats!AgentReads, Hats!AgentFails, Hats!Goto, Hats!TypeOK, Hats!Succeeded
  <2>2. ASSUME Hats!ReadLine(j) PROVE ReadOK(j)'
    <3>1. ReadOK(j) /\ UNCHANGED lines
      BY <1>1 DEF JobOK
    <3> QED
      BY <2>1, <2>2, <3>1, ReadNext
  <2>3. ASSUME UNCHANGED <<read, heard>> PROVE ReadOK(j)'
    <3>1. ReadOK(j) /\ UNCHANGED lines
      BY <1>1 DEF JobOK
    <3> QED
      BY <1>4, <2>1, <2>3, <3>1, ReadKept
  <2>4. Hats!ReadLine(j) \/ UNCHANGED <<read, heard>>
    BY <1>5 DEF Hats!AgentReads, Hats!AgentFails
  <2> QED
    BY <1>3, <2>2, <2>3, <2>4 DEF JobOK
<1>6. CASE Hats!AgentExits(j)
  <2>1. read[j] = Len(lines[j]) /\ UNCHANGED <<read, heard>>
    BY <1>4, <1>6 DEF Hats!AgentExits
  <2>2. ReadOK(j)'
    BY <1>1, <2>1 DEF JobOK, ReadOK, Hats!InOrder, Hats!IsHeard
  <2> QED
    BY <1>3, <2>2 DEF JobOK
<1>7. CASE Hats!ControllerSays(j) \/ Hats!ControllerFails(j)
  <2>1. Hats!Succeeded(j) /\ UNCHANGED <<read, heard>>
    BY <1>2, <1>7 DEF Hats!ControllerSays, Hats!ControllerFails, Hats!Succeeded
  <2>2. ReadOK(j) /\ UNCHANGED lines
    BY <1>1 DEF JobOK
  <2>3. ReadOK(j)'
    BY <1>4, <2>1, <2>2, ReadKept
  <2> QED
    BY <1>3, <2>3 DEF JobOK
<1> QED
  BY <1>5, <1>6, <1>7

LEMMA JobNext ==
  ASSUME Hats!TypeOK, place = "pod", NEW j \in Jobs, JobOK(j), [Hats!Next]_Hats!vars
  PROVE  JobOK(j)'
<1>1. Len(lines[j]) \in Nat /\ Len(lines[j]) <= Len(lines[j]) /\ Hats!FileOf(j) = j
  BY OwnLines
<1>2. ASSUME UNCHANGED <<calls[j], emitted[j], lines[j], read[j], heard[j], status[j]>>,
             j \in there' <=> j \in there,
             Early(j)' <=> Early(j),
             hatPc'[j] \in {"agent", "controller", "ended"} => hatPc'[j] = hatPc[j]
      PROVE  JobOK(j)'
  <2>1. FileOK(j)'
    BY <1>2 DEF JobOK, FileOK, Early, Holds, Hats!Script
  <2>2. ReadOK(j)'
    BY <1>2 DEF JobOK, ReadOK, Hats!InOrder, Hats!IsHeard, Hats!Succeeded
  <2> QED
    BY <2>1, <2>2 DEF JobOK
<1>3. ASSUME NEW k \in Jobs, Hats!Start(k) \/ Hats!AiPrints(k) \/ Hats!AiEnds(k)
      PROVE  JobOK(j)'
  <2>1. UNCHANGED <<calls, emitted, there, lines, read, heard, status>>
    BY <1>3 DEF Hats!Start, Hats!AiPrints, Hats!AiEnds
  <2>2. /\ Early(j)' <=> Early(j)
        /\ hatPc'[j] \in {"agent", "controller", "ended"} => hatPc'[j] = hatPc[j]
    BY <1>3 DEF Hats!Start, Hats!AiPrints, Hats!AiEnds, Hats!Goto, Hats!TypeOK, Early
  <2> QED
    BY <1>2, <2>1, <2>2
<1>4. ASSUME NEW k \in Jobs \ {j}, Hats!AiEmits(k) \/ Hats!Handles(k) PROVE JobOK(j)'
  <2>1. Hats!FileOf(k) = k /\ k # j
    BY <1>4, OwnLines
  <2>2. lines'[j] = lines[j] /\ (j \in there' <=> j \in there)
    BY <1>4, <2>1 DEF Hats!AiEmits, Hats!Handles, Hats!Wrapper, Hats!Emit, Hats!EmitFails,
       Hats!AgentReads, Hats!AgentFails, Hats!AgentExits, Hats!ControllerSays,
       Hats!ControllerFails, Hats!TypeOK, Hats!FileNames
  <2>3. hatPc'[j] = hatPc[j] /\ status'[j] = status[j]
    BY <1>4 DEF Hats!AiEmits, Hats!Handles, Hats!Wrapper, Hats!WrapperEnds,
       Hats!AgentReads, Hats!AgentFails, Hats!AgentExits, Hats!ControllerSays,
       Hats!ControllerFails, Hats!Goto, Hats!TypeOK
  <2>4. /\ calls'[j] = calls[j] /\ emitted'[j] = emitted[j]
        /\ read'[j] = read[j] /\ heard'[j] = heard[j]
    BY <1>4 DEF Hats!AiEmits, Hats!Handles, Hats!Wrapper, Hats!WrapperEnds, Hats!ReadLine,
       Hats!AgentReads, Hats!AgentFails, Hats!AgentExits, Hats!ControllerSays,
       Hats!ControllerFails, Hats!TypeOK
  <2> QED
    BY <1>2, <2>2, <2>3, <2>4 DEF Early
<1>5. CASE UNCHANGED Hats!vars
  BY <1>2, <1>5 DEF Hats!vars, Early
<1> QED
  BY <1>3, <1>4, <1>5, AiEmitsKeeps, WrapperKeeps, LateKeeps
  DEF Hats!Next, Hats!Handles, Hats!AllEnded

HatsInv == Hats!TypeOK /\ (place = "pod" => \A j \in Jobs : JobOK(j))

LEMMA HatsInit == MCInit => HatsInv
<1> SUFFICES ASSUME Hats!Init PROVE HatsInv
  BY DEF MCInit
<1>1. \A T : <<>> \in Seq(T)
  BY EmptySeq
<1>2. there \subseteq Hats!FileNames
  BY DEF Hats!Init, Hats!FileNames
<1>3. Hats!TypeOK
  BY <1>1, <1>2, EmitsAssumption DEF Hats!Init, Hats!TypeOK
<1>4. ASSUME NEW j \in Jobs, place = "pod" PROVE JobOK(j)
  <2>1. /\ lines[j] = <<>> /\ emitted[j] = <<>> /\ heard[j] = <<>> /\ calls[j] = 0
        /\ read[j] = 0 /\ hatPc[j] = "waiting" /\ j \notin there
    BY <1>4 DEF Hats!Init, Hats!FileNames
  <2>2. Len(lines[j]) = 0 /\ Len(emitted[j]) = 0 /\ DOMAIN heard[j] = {}
    BY <2>1
  <2>3. FileOK(j)
    BY <2>1, <2>2 DEF FileOK, Early, Holds
  <2>4. ReadOK(j)
    BY <2>1, <2>2 DEF ReadOK, Hats!InOrder, Hats!Succeeded
  <2> QED
    BY <2>3, <2>4 DEF JobOK
<1> QED
  BY <1>3, <1>4 DEF HatsInv

LEMMA HatsNext == HatsInv /\ [MCNext]_allVars => HatsInv'
<1> SUFFICES ASSUME HatsInv, [MCNext]_allVars PROVE HatsInv'
  OBVIOUS
<1>1. [Hats!Next]_Hats!vars
  BY DEF MCNext, InChild, InHats, allVars, hatVars, Hats!vars
<1>2. place' = place
  BY <1>1 DEF Hats!Next, Hats!Handles, Hats!AllEnded, Hats!vars, Hats!Start, Hats!AiEmits,
     Hats!AiPrints, Hats!AiEnds, Hats!Wrapper, Hats!WrapperEnds, Hats!AgentReads,
     Hats!AgentFails, Hats!AgentExits, Hats!ControllerSays, Hats!ControllerFails
<1> QED
  BY <1>1, <1>2, HatsTypeNext, JobNext DEF HatsInv

\* What the file holds is the script, or nothing.
LEMMA ScriptInFile ==
  ASSUME Hats!TypeOK, place = "pod", NEW j \in Jobs, JobOK(j)
  PROVE  /\ Holds(j, Hats!Script(j)) \/ Len(lines[j]) = 0
         /\ Hats!Succeeded(j) /\ (emitted[j] # <<>> \/ calls[j] = 0)
              => Holds(j, Hats!Script(j))
<1>1. Hats!Script(j) = emitted[j] \/ emitted[j] = <<>>
  BY DEF Hats!Script
<1>2. emitted[j] = <<>> => Len(emitted[j]) = 0
  OBVIOUS
<1>3. Hats!Succeeded(j) => ~Early(j) /\ status[j] # "failed"
  BY DEF Hats!Succeeded, Early
<1> QED
  BY <1>1, <1>2, <1>3 DEF JobOK, FileOK, Holds

(***************************************************************************)
(* Of a pod's job is heard what its AI wrote, word for word, in order and  *)
(* with no gap, all of it if the pod succeeds, and of a silent one the     *)
(* default of its hat if it has one, however many jobs run at a time and   *)
(* whatever fails (backend_command of config.rs, emit.rs, main.rs:167-225).*)
(***************************************************************************)
THEOREM HeardAsSaidHolds == MCSpec => []HeardAsSaid
<1>1. HatsInv => HeardAsSaid
  <2> SUFFICES ASSUME HatsInv, place = "pod", NEW j \in Jobs
               PROVE  Hats!Literal(j) /\ Hats!InOrder(j) /\ Hats!Complete(j)
    BY DEF HatsInv, HeardAsSaid, Hats!PodsAreHeard
  <2>1. Hats!TypeOK /\ JobOK(j) /\ ReadOK(j)
    BY DEF HatsInv, JobOK
  <2>2. Len(lines[j]) \in Nat /\ read[j] \in 0..Len(lines[j])
    BY <2>1, OwnLines DEF ReadOK
  <2>3. Hats!Script(j) \in Seq(Hats!Emittable \cup {"default"})
    <3>1. emitted[j] \in Seq(Hats!Emittable \cup {"default"})
      BY <2>1, OwnLines, SeqMonotonic
    <3>2. <<"default">> \in Seq(Hats!Emittable \cup {"default"})
      OBVIOUS
    <3>3. Hats!Script(j) = <<"default">> \/ Hats!Script(j) = emitted[j]
      BY DEF Hats!Script
    <3> QED
      BY <3>1, <3>2, <3>3
  <2>4. DOMAIN Hats!Script(j) = 1..Len(Hats!Script(j)) /\ Len(Hats!Script(j)) \in Nat
    BY <2>3, LenProperties
  <2>5. Hats!Literal(j)
    <3> SUFFICES ASSUME NEW i \in DOMAIN heard[j]
                 PROVE  /\ heard[j][i].nr \in DOMAIN Hats!Script(j)
                        /\ heard[j][i].line
                             = [by |-> j, what |-> Hats!Script(j)[heard[j][i].nr]]
      BY DEF Hats!Literal
    <3>1. /\ heard[j][i].nr \in 1..Len(lines[j])
          /\ heard[j][i].line = lines[j][heard[j][i].nr]
      BY <2>1, <2>2 DEF ReadOK
    <3>2. Holds(j, Hats!Script(j))
      BY <2>1, <2>2, <3>1, ScriptInFile
    <3> QED
      BY <2>4, <3>1, <3>2 DEF Holds
  <2>6. Hats!Complete(j)
    <3> SUFFICES ASSUME NEW n \in DOMAIN Hats!Script(j), Hats!Script(j)[n] # "unheard",
                        \/ \E i \in DOMAIN heard[j] : n <= heard[j][i].nr
                        \/ Hats!Succeeded(j) /\ (emitted[j] # <<>> \/ calls[j] = 0)
                 PROVE  \E i \in DOMAIN heard[j] : heard[j][i].nr = n
      BY DEF Hats!Complete
    <3>1. n \in 1..Len(Hats!Script(j)) /\ n \in Nat
      BY <2>4
    <3>2. Holds(j, Hats!Script(j)) /\ n <= read[j]
      <4>1. CASE \E i \in DOMAIN heard[j] : n <= heard[j][i].nr
        <5>1. PICK i \in DOMAIN heard[j] : n <= heard[j][i].nr
          BY <4>1
        <5>2. heard[j][i].nr \in 1..read[j]
          BY <2>1 DEF ReadOK
        <5>3. n <= read[j] /\ Len(lines[j]) # 0
          BY <2>2, <3>1, <5>1, <5>2
        <5> QED
          BY <2>1, <5>3, ScriptInFile
      <4>2. CASE Hats!Succeeded(j) /\ (emitted[j] # <<>> \/ calls[j] = 0)
        <5>1. Holds(j, Hats!Script(j)) /\ read[j] = Len(lines[j])
          BY <2>1, <4>2, ScriptInFile DEF ReadOK
        <5> QED
          BY <3>1, <5>1 DEF Holds
      <4> QED
        BY <4>1, <4>2
    <3>3. n \in 1..read[j] /\ lines[j][n] = [by |-> j, what |-> Hats!Script(j)[n]]
      BY <2>2, <3>1, <3>2 DEF Holds
    <3>4. Hats!IsHeard(lines[j][n])
      BY <3>3 DEF Hats!IsHeard
    <3> QED
      BY <2>1, <3>3, <3>4 DEF ReadOK
  <2> QED
    BY <2>1, <2>5, <2>6 DEF ReadOK
<1> QED
  BY <1>1, HatsInit, HatsNext, PTL DEF MCSpec
=============================================================================
