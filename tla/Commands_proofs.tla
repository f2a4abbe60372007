--------------------------- MODULE Commands_proofs ---------------------------
(***************************************************************************)
(* What holds of any number of processes in one directory, for every way   *)
(* they may be started; of the jobs built from any configuration; and of   *)
(* the runs of the presets, however long.                                  *)
(***************************************************************************)
EXTENDS Commands, FiniteSetTheorems, WellFoundedInduction, TLAPS

(***************************************************************************)
(* The launches.                                                           *)
(***************************************************************************)
(* A process drives a run only when it has entered it, from what its       *)
(* search, which is then over, has found.                                  *)
Phase(p) ==
  /\ pc[p] \in {"running", "saving"} => run[p] # Launches!NoRun
  /\ run[p] # Launches!NoRun =>
       /\ pc[p] \in {"running", "saving", "over"}
       /\ Launches!Runner(p)
       /\ keys[p] = {}
       /\ resumed[p] = latest[p].saves
       /\ latest[p].run # Launches!NoRun => run[p] = latest[p].run
  /\ run[p] = Launches!NoRun => saves[p] = 0
  /\ pc[p] = "saving" => saves[p] < setting.maxSaves
  /\ latest[p].run = Launches!NoRun => latest[p].saves = 0
  /\ pc[p] \in {"off", "prompt", "connect", "list"} =>
       latest[p] = Launches!NothingFound /\ keys[p] = {}
  /\ pc[p] = "job builder" => keys[p] = {}
  /\ pc[p] \in {"prompt", "connect", "job builder"} => Launches!Runner(p)
  /\ pc[p] \in {"list", "get"} => Launches!Command(p) # "run"
  /\ Launches!Command(p) = "run" => latest[p] = Launches!NothingFound

Phases == \A p \in Processes : Phase(p)

LaunchTypes == Launches!TypeOK /\ Phases

LEMMA RunsAreNumbers ==
  /\ Cardinality(Processes) \in Nat
  /\ Launches!Runs \subseteq Nat
  /\ \A r \in Launches!Runs : r # Launches!NoRun
BY FS_CardinalityType, LaunchAssumption DEF Launches!Runs, Launches!NoRun

(* A search that is not over has a next key. *)
LEMMA LeastIsOne ==
  ASSUME NEW S \in SUBSET Launches!Runs, S # {}
  PROVE  Launches!Least(S) \in S
<1>1. IsWellFoundedOn(OpToRel(<, Nat), Nat)
  BY NatLessThanWellFounded
<1>2. S \subseteq Nat
  BY RunsAreNumbers
<1>3. PICK r \in S : \A k \in S : ~ (<<k, r>> \in OpToRel(<, Nat))
  BY <1>1, <1>2, WFMin
<1>4. \A k \in S : ~(k < r)
  BY <1>2, <1>3 DEF OpToRel
<1>5. \A k \in S : r <= k
  BY <1>2, <1>4
<1>6. QED
  BY <1>3, <1>5, Zenon DEF Launches!Least

(* The type invariant by the groups of variables an action leaves alone. *)
FlowTypes ==
  /\ pc \in [Processes -> Launches!PCs]
  /\ code \in [Processes -> {0, 1, 2, 9, Launches!NoCode}]

StoreTypes ==
  /\ checkpoint \in [Launches!Runs -> [saves : Nat, whole : BOOLEAN]]
  /\ scratchpad \subseteq Launches!Runs

SearchTypes ==
  /\ began \in [Processes -> [Launches!Runs -> Nat]]
  /\ keys \in [Processes -> SUBSET Launches!Runs]
  /\ latest \in [Processes -> [run : Launches!Runs \cup {Launches!NoRun}, saves : Nat]]

DriveTypes ==
  /\ run \in [Processes -> Launches!Runs \cup {Launches!NoRun}]
  /\ resumed \in [Processes -> Nat]
  /\ task \in [Processes -> Processes \cup {Launches!Nobody}]
  /\ saves \in [Processes -> 0..setting.maxSaves]

OtherTypes ==
  /\ setting \in Settings
  /\ option \in [Processes -> setting.options]
  /\ inline \in Processes \cup {Launches!Nobody}

LEMMA TypeParts ==
  /\ Launches!TypeOK =>
       /\ FlowTypes /\ StoreTypes /\ SearchTypes /\ DriveTypes /\ OtherTypes
       /\ faults \in 0..MaxFaults
  /\ FlowTypes /\ StoreTypes /\ SearchTypes /\ DriveTypes /\ OtherTypes
     /\ faults \in 0..MaxFaults
       => Launches!TypeOK
<1>1. Launches!TypeOK => FlowTypes /\ StoreTypes
  BY DEF Launches!TypeOK, FlowTypes, StoreTypes
<1>2. Launches!TypeOK => SearchTypes /\ OtherTypes /\ faults \in 0..MaxFaults
  BY DEF Launches!TypeOK, SearchTypes, OtherTypes
<1>3. Launches!TypeOK => DriveTypes
  BY DEF Launches!TypeOK, DriveTypes
<1>4. FlowTypes /\ StoreTypes /\ SearchTypes /\ DriveTypes /\ OtherTypes
      /\ faults \in 0..MaxFaults
        => Launches!TypeOK
  BY DEF Launches!TypeOK, FlowTypes, StoreTypes, SearchTypes, DriveTypes, OtherTypes
<1>5. QED
  BY <1>1, <1>2, <1>3, <1>4

LEMMA TypePartsNext ==
  ASSUME FlowTypes', StoreTypes', SearchTypes', DriveTypes', OtherTypes', faults' \in 0..MaxFaults
  PROVE  Launches!TypeOK'
<1>1. /\ setting' \in Settings
      /\ option' \in [Processes -> setting'.options]
      /\ inline' \in Processes \cup {Launches!Nobody}
  BY DEF OtherTypes
<1>2. /\ pc' \in [Processes -> Launches!PCs]
      /\ code' \in [Processes -> {0, 1, 2, 9, Launches!NoCode}]
  BY DEF FlowTypes
<1>3. /\ checkpoint' \in [Launches!Runs -> [saves : Nat, whole : BOOLEAN]]
      /\ scratchpad' \subseteq Launches!Runs
  BY DEF StoreTypes
<1>4. /\ began' \in [Processes -> [Launches!Runs -> Nat]]
      /\ keys' \in [Processes -> SUBSET Launches!Runs]
      /\ latest' \in [Processes -> [run : Launches!Runs \cup {Launches!NoRun}, saves : Nat]]
  BY DEF SearchTypes
<1>5. /\ run' \in [Processes -> Launches!Runs \cup {Launches!NoRun}]
      /\ resumed' \in [Processes -> Nat]
      /\ task' \in [Processes -> Processes \cup {Launches!Nobody}]
      /\ saves' \in [Processes -> 0..setting'.maxSaves]
  BY DEF DriveTypes
<1>6. QED
  BY <1>1, <1>2, <1>3, <1>4, <1>5 DEF Launches!TypeOK

LEMMA LaunchTypesInit ==
  ASSUME Launches!Init PROVE LaunchTypes
<1>1. FlowTypes
  BY DEF Launches!Init, FlowTypes, Launches!PCs
<1>2. StoreTypes
  BY DEF Launches!Init, StoreTypes, Launches!Absent
<1>3. SearchTypes
  BY DEF Launches!Init, SearchTypes, Launches!NothingFound
<1>4. setting.maxSaves \in Nat
  BY LaunchAssumption DEF Launches!Init, Launches!Setting
<1>5. DriveTypes
  BY <1>4 DEF Launches!Init, DriveTypes
<1>6. OtherTypes
  BY DEF Launches!Init, OtherTypes
<1>7. faults \in 0..MaxFaults
  BY LaunchAssumption DEF Launches!Init
<1>8. Phases
  BY DEF Launches!Init, Phases, Phase, Launches!NothingFound, Launches!NoRun
<1>9. QED
  BY <1>1, <1>2, <1>3, <1>5, <1>6, <1>7, <1>8, TypeParts DEF LaunchTypes

(* A step of a process moves it on, and leaves the other groups alone. *)
LEMMA FlowKept ==
  ASSUME NEW p \in Processes, FlowTypes,
         \/ \E w \in Launches!PCs : Launches!Goto(p, w)
         \/ \E c \in {0, 1, 2, 9} : Launches!Exit(p, c)
  PROVE  FlowTypes'
BY DEF FlowTypes, Launches!Goto, Launches!Exit, Launches!PCs

LEMMA GroupsKept ==
  /\ UNCHANGED Launches!storeVars /\ StoreTypes => StoreTypes'
  /\ UNCHANGED Launches!searchVars /\ SearchTypes => SearchTypes'
  /\ UNCHANGED <<setting, Launches!runVars>> /\ DriveTypes => DriveTypes'
  /\ UNCHANGED <<setting, option, inline>> /\ OtherTypes => OtherTypes'
  /\ faults \in 0..MaxFaults /\ (Launches!Fault \/ UNCHANGED faults) => faults' \in 0..MaxFaults
<1>1. faults \in 0..MaxFaults /\ (Launches!Fault \/ UNCHANGED faults) => faults' \in 0..MaxFaults
  BY LaunchAssumption DEF Launches!Fault
<1>2. QED
  BY <1>1 DEF Launches!storeVars, Launches!searchVars, Launches!runVars,
     StoreTypes, SearchTypes, DriveTypes, OtherTypes

LEMMA DriverHasRun ==
  ASSUME LaunchTypes, NEW p \in Processes, pc[p] \in {"running", "saving"}
  PROVE  /\ run[p] \in Launches!Runs
         /\ resumed[p] \in Nat /\ saves[p] \in Nat /\ Launches!Saved(p) \in Nat
         /\ pc[p] = "saving" => saves[p] + 1 \in 0..setting.maxSaves
<1>1. DriveTypes /\ Phase(p)
  BY TypeParts DEF LaunchTypes, Phases
<1>2. /\ run[p] \in Launches!Runs \cup {Launches!NoRun}
      /\ resumed[p] \in Nat
      /\ saves[p] \in 0..setting.maxSaves
  BY <1>1 DEF DriveTypes
<1>3. run[p] # Launches!NoRun /\ (pc[p] = "saving" => saves[p] < setting.maxSaves)
  BY <1>1 DEF Phase
<1>4. setting.maxSaves \in Nat
  BY TypeParts, LaunchAssumption DEF LaunchTypes, OtherTypes, Launches!Setting
<1>5. QED
  BY <1>2, <1>3, <1>4 DEF Launches!Saved

LEMMA LaunchTypesStep ==
  ASSUME LaunchTypes, Launches!Next PROVE Launches!TypeOK'
<1> USE TypeParts, TypePartsNext, GroupsKept DEF LaunchTypes
<1>1. ASSUME NEW p \in Processes, Launches!Begin(p) PROVE Launches!TypeOK'
  <2>1. FlowTypes'
    BY <1>1, FlowKept DEF Launches!Begin, Launches!PCs
  <2>2. QED
    BY <1>1, <2>1 DEF Launches!Begin
<1>2. ASSUME NEW p \in Processes, Launches!WritePrompt(p) PROVE Launches!TypeOK'
  <2>1. FlowTypes'
    BY <1>2, FlowKept DEF Launches!WritePrompt, Launches!PCs
  <2>2. OtherTypes'
    BY <1>2 DEF Launches!WritePrompt, OtherTypes
  <2>3. QED
    BY <1>2, <2>1, <2>2 DEF Launches!WritePrompt
<1>3. ASSUME NEW p \in Processes, Launches!Connect(p) PROVE Launches!TypeOK'
  <2>1. FlowTypes'
    BY <1>3, FlowKept DEF Launches!Connect, Launches!PCs
  <2>2. QED
    BY <1>3, <2>1 DEF Launches!Connect
<1>4. ASSUME NEW p \in Processes, Launches!List(p) PROVE Launches!TypeOK'
  <2>1. FlowTypes'
    BY <1>4, FlowKept DEF Launches!List, Launches!PCs
  <2>2. SearchTypes'
    BY <1>4 DEF Launches!List, SearchTypes, StoreTypes
  <2>3. QED
    BY <1>4, <2>1, <2>2 DEF Launches!List
<1>5. ASSUME NEW p \in Processes, Launches!Get(p) PROVE Launches!TypeOK'
  <2>1. FlowTypes'
    BY <1>5 DEF Launches!Get, FlowTypes
  <2>2. SearchTypes'
    BY <1>5, LeastIsOne DEF Launches!Get, SearchTypes, StoreTypes
  <2>3. QED
    BY <1>5, <2>1, <2>2 DEF Launches!Get
<1>6. ASSUME NEW p \in Processes, Launches!SearchFails(p) PROVE Launches!TypeOK'
  <2>1. FlowTypes'
    BY <1>6, FlowKept DEF Launches!SearchFails, Launches!PCs
  <2>2. QED
    BY <1>6, <2>1 DEF Launches!SearchFails
<1>7. ASSUME NEW p \in Processes, Launches!Found(p) PROVE Launches!TypeOK'
  <2>1. FlowTypes'
    BY <1>7, FlowKept DEF Launches!Found, Launches!PCs
  <2>2. QED
    BY <1>7, <2>1 DEF Launches!Found
<1>8. ASSUME NEW p \in Processes, Launches!Logs(p) PROVE Launches!TypeOK'
  <2>1. FlowTypes'
    BY <1>8, FlowKept DEF Launches!Logs, Launches!PCs
  <2>2. SearchTypes'
    BY <1>8 DEF Launches!Logs, SearchTypes
  <2>3. QED
    BY <1>8, <2>1, <2>2 DEF Launches!Logs
<1>9. ASSUME NEW p \in Processes, Launches!Enter(p) PROVE Launches!TypeOK'
  <2>1. FlowTypes'
    BY <1>9, FlowKept DEF Launches!Enter, Launches!PCs
  <2>2. DriveTypes'
    <3> USE <1>9 DEF Launches!Enter
    <3>1. \E r \in Launches!Runs : run' = [run EXCEPT ![p] = r]
      <4>1. latest[p].run \in Launches!Runs \cup {Launches!NoRun}
        BY DEF SearchTypes
      <4>2. Launches!FreshRuns \subseteq Launches!Runs
        BY DEF Launches!FreshRuns
      <4>3. QED
        BY <4>1, <4>2
    <3>2. latest[p].saves \in Nat /\ resumed' = [resumed EXCEPT ![p] = latest[p].saves]
      BY DEF SearchTypes
    <3>3. Launches!Task(p) \in Processes \cup {Launches!Nobody}
      BY DEF Launches!Task, OtherTypes
    <3>4. /\ task' = [task EXCEPT ![p] = Launches!Task(p)]
          /\ UNCHANGED <<setting, saves>>
      OBVIOUS
    <3>5. /\ run \in [Processes -> Launches!Runs \cup {Launches!NoRun}]
          /\ resumed \in [Processes -> Nat]
          /\ task \in [Processes -> Processes \cup {Launches!Nobody}]
          /\ saves \in [Processes -> 0..setting.maxSaves]
      BY DEF DriveTypes
    <3> HIDE <1>9 DEF Launches!Enter
    <3>6. QED
      BY <3>1, <3>2, <3>3, <3>4, <3>5 DEF DriveTypes
  <2>3. QED
    BY <1>9, <2>1, <2>2 DEF Launches!Enter
<1>10. ASSUME NEW p \in Processes, Launches!Note(p) PROVE Launches!TypeOK'
  <2>1. FlowTypes'
    BY <1>10 DEF Launches!Note, FlowTypes
  <2>2. StoreTypes'
    BY <1>10, DriverHasRun DEF Launches!Note, StoreTypes
  <2>3. QED
    BY <1>10, <2>1, <2>2 DEF Launches!Note
<1>11. ASSUME NEW p \in Processes, Launches!BeginSave(p) PROVE Launches!TypeOK'
  <2>1. FlowTypes'
    BY <1>11, FlowKept DEF Launches!BeginSave, Launches!PCs
  <2>2. StoreTypes'
    <3>1. run[p] \in Launches!Runs
      BY <1>11, DriverHasRun DEF Launches!BeginSave
    <3>2. checkpoint' = checkpoint \/ checkpoint' = [checkpoint EXCEPT ![run[p]].whole = FALSE]
      BY <1>11 DEF Launches!BeginSave
    <3>3. QED
      BY <1>11, <3>1, <3>2 DEF Launches!BeginSave, StoreTypes
  <2>3. QED
    BY <1>11, <2>1, <2>2 DEF Launches!BeginSave
<1>12. ASSUME NEW p \in Processes, Launches!EndSave(p) PROVE Launches!TypeOK'
  <2>1. FlowTypes'
    BY <1>12, FlowKept DEF Launches!EndSave, Launches!PCs
  <2>2. StoreTypes'
    BY <1>12, DriverHasRun DEF Launches!EndSave, StoreTypes
  <2>3. DriveTypes'
    BY <1>12, DriverHasRun DEF Launches!EndSave, DriveTypes
  <2>4. QED
    BY <1>12, <2>1, <2>2, <2>3 DEF Launches!EndSave
<1>13. ASSUME NEW p \in Processes, Launches!SaveFails(p) PROVE Launches!TypeOK'
  <2>1. FlowTypes'
    BY <1>13, FlowKept DEF Launches!SaveFails, Launches!PCs
  <2>2. QED
    BY <1>13, <2>1 DEF Launches!SaveFails
<1>14. ASSUME NEW p \in Processes, Launches!Ends(p) PROVE Launches!TypeOK'
  <2>1. FlowTypes'
    BY <1>14, FlowKept DEF Launches!Ends, Launches!PCs
  <2>2. QED
    BY <1>14, <2>1 DEF Launches!Ends
<1>15. ASSUME NEW p \in Processes, Launches!Crash(p) PROVE Launches!TypeOK'
  <2>1. FlowTypes'
    BY <1>15, FlowKept DEF Launches!Crash, Launches!PCs
  <2>2. QED
    BY <1>15, <2>1 DEF Launches!Crash
<1>16. ASSUME Launches!AllOver PROVE Launches!TypeOK'
  BY <1>16 DEF Launches!AllOver, Launches!vars, Launches!TypeOK
<1>17. QED
  BY <1>1, <1>2, <1>3, <1>4, <1>5, <1>6, <1>7, <1>8, <1>9, <1>10, <1>11, <1>12, <1>13, <1>14, <1>15, <1>16 DEF Launches!Next

(* What a step of another process leaves of a process. *)
Same(q) ==
  /\ pc'[q] = pc[q] /\ run'[q] = run[q] /\ resumed'[q] = resumed[q] /\ saves'[q] = saves[q]
  /\ keys'[q] = keys[q] /\ latest'[q] = latest[q] /\ began'[q] = began[q] /\ task'[q] = task[q]

OthersSame(p) ==
  /\ UNCHANGED <<setting, option>>
  /\ \A q \in Processes \ {p} : Same(q)

(* Every step is one process's. *)
LEMMA StepIsOnes ==
  ASSUME LaunchTypes, NEW p \in Processes
  PROVE  /\ Launches!Begin(p) => OthersSame(p)
         /\ Launches!WritePrompt(p) => OthersSame(p)
         /\ Launches!Connect(p) => OthersSame(p)
         /\ Launches!List(p) => OthersSame(p)
         /\ Launches!Get(p) => OthersSame(p)
         /\ Launches!SearchFails(p) => OthersSame(p)
         /\ Launches!Found(p) => OthersSame(p)
         /\ Launches!Logs(p) => OthersSame(p)
         /\ Launches!Enter(p) => OthersSame(p)
         /\ Launches!Note(p) => OthersSame(p)
         /\ Launches!BeginSave(p) => OthersSame(p)
         /\ Launches!EndSave(p) => OthersSame(p)
         /\ Launches!SaveFails(p) => OthersSame(p)
         /\ Launches!Ends(p) => OthersSame(p)
         /\ Launches!Crash(p) => OthersSame(p)
<1>1. /\ pc \in [Processes -> Launches!PCs]
      /\ began \in [Processes -> [Launches!Runs -> Nat]]
      /\ keys \in [Processes -> SUBSET Launches!Runs]
      /\ latest \in [Processes -> [run : Launches!Runs \cup {Launches!NoRun}, saves : Nat]]
  BY TypeParts DEF LaunchTypes, FlowTypes, SearchTypes
<1>2. /\ run \in [Processes -> Launches!Runs \cup {Launches!NoRun}]
      /\ resumed \in [Processes -> Nat]
      /\ task \in [Processes -> Processes \cup {Launches!Nobody}]
      /\ saves \in [Processes -> 0..setting.maxSaves]
  BY TypeParts DEF LaunchTypes, DriveTypes
<1> USE <1>1, <1>2
    DEF OthersSame, Same, Launches!Goto, Launches!Exit, Launches!storeVars, Launches!searchVars, Launches!runVars
<1>3. Launches!Begin(p) => OthersSame(p)
  BY DEF Launches!Begin
<1>4. Launches!WritePrompt(p) => OthersSame(p)
  BY DEF Launches!WritePrompt
<1>5. Launches!Connect(p) => OthersSame(p)
  BY DEF Launches!Connect
<1>6. Launches!List(p) => OthersSame(p)
  BY DEF Launches!List
<1>7. Launches!Get(p) => OthersSame(p)
  BY DEF Launches!Get
<1>8. Launches!SearchFails(p) => OthersSame(p)
  BY DEF Launches!SearchFails
<1>9. Launches!Found(p) => OthersSame(p)
  BY DEF Launches!Found
<1>10. Launches!Logs(p) => OthersSame(p)
  BY DEF Launches!Logs
<1>11. Launches!Enter(p) => OthersSame(p)
  <2> SUFFICES ASSUME Launches!Enter(p) PROVE OthersSame(p)
    OBVIOUS
  <2>1. \E r : run' = [run EXCEPT ![p] = r]
    BY DEF Launches!Enter
  <2>2. /\ resumed' = [resumed EXCEPT ![p] = latest[p].saves]
        /\ task' = [task EXCEPT ![p] = Launches!Task(p)]
        /\ pc' = [pc EXCEPT ![p] = "running"]
        /\ UNCHANGED <<setting, option, began, keys, latest, saves>>
    BY DEF Launches!Enter
  <2>3. QED
    BY <2>1, <2>2
<1>12. Launches!Note(p) => OthersSame(p)
  BY DEF Launches!Note
<1>13. Launches!BeginSave(p) => OthersSame(p)
  BY DEF Launches!BeginSave
<1>14. Launches!EndSave(p) => OthersSame(p)
  BY DEF Launches!EndSave
<1>15. Launches!SaveFails(p) => OthersSame(p)
  BY DEF Launches!SaveFails
<1>16. Launches!Ends(p) => OthersSame(p)
  BY DEF Launches!Ends
<1>17. Launches!Crash(p) => OthersSame(p)
  BY DEF Launches!Crash
<1>18. QED
  BY <1>3, <1>4, <1>5, <1>6, <1>7, <1>8, <1>9, <1>10, <1>11, <1>12, <1>13, <1>14, <1>15, <1>16, <1>17

PhaseType(p) ==
  /\ pc[p] \in Launches!PCs
  /\ p \in DOMAIN pc /\ p \in DOMAIN keys /\ p \in DOMAIN latest
  /\ p \in DOMAIN run /\ p \in DOMAIN resumed /\ p \in DOMAIN saves /\ p \in DOMAIN began
  /\ latest[p] \in [run : Launches!Runs \cup {Launches!NoRun}, saves : Nat]
  /\ run[p] \in Launches!Runs \cup {Launches!NoRun}
  /\ saves[p] \in Nat /\ resumed[p] \in Nat

LEMMA PhaseTypes ==
  ASSUME LaunchTypes, NEW p \in Processes PROVE PhaseType(p)
<1>1. setting.maxSaves \in Nat
  BY TypeParts, LaunchAssumption DEF LaunchTypes, OtherTypes, Launches!Setting
<1>2. QED
  BY <1>1, TypeParts DEF LaunchTypes, PhaseType, FlowTypes, SearchTypes, DriveTypes

LEMMA SameKeepsPhase ==
  ASSUME NEW p \in Processes, OthersSame(p), Phases
  PROVE  \A q \in Processes \ {p} : Phase(q)'
<1> SUFFICES ASSUME NEW q \in Processes \ {p} PROVE Phase(q)'
  OBVIOUS
<1>1. Phase(q) /\ Same(q) /\ setting' = setting /\ option' = option
  BY DEF Phases, OthersSame
<1>2. QED
  BY <1>1 DEF Phase, Same, Launches!Runner, Launches!Command

LEMMA PhasesStep ==
  ASSUME LaunchTypes, Launches!Next PROVE Phases'
<1>1. Phases
  BY DEF LaunchTypes
<1>2. ASSUME NEW p \in Processes, Launches!Begin(p) PROVE Phases'
  <2>1. Phase(p)'
    <3>1. pc[p] = "off" /\ Phase(p) /\ PhaseType(p)
      BY <1>1, <1>2, PhaseTypes DEF Phases, Launches!Begin
    <3>2. /\ pc'[p] \in {"list", "over", "prompt", "connect"}
          /\ pc'[p] = "list" => ~Launches!Runner(p)
          /\ pc'[p] \in {"prompt", "connect"} => Launches!Runner(p)
      BY <1>2, <3>1 DEF PhaseType, Launches!Begin, Launches!Goto, Launches!Exit
    <3>3. UNCHANGED <<setting, option, keys, latest, run, resumed, saves>>
      BY <1>2 DEF Launches!Begin, Launches!searchVars, Launches!runVars
    <3>4. QED
      BY <3>1, <3>2, <3>3
      DEF Phase, PhaseType, Launches!Runner, Launches!Command, Launches!NothingFound
  <2>2. QED
    BY <1>1, <1>2, <2>1, SameKeepsPhase, StepIsOnes DEF Phases
<1>3. ASSUME NEW p \in Processes, Launches!WritePrompt(p) PROVE Phases'
  <2>1. Phase(p)'
    BY <1>1, <1>3, PhaseTypes
    DEF Phases, Phase, PhaseType, Launches!WritePrompt, Launches!Goto, Launches!Exit,
       Launches!storeVars, Launches!searchVars, Launches!runVars, Launches!Runner, Launches!Command,
       Launches!NothingFound
  <2>2. QED
    BY <1>1, <1>3, <2>1, SameKeepsPhase, StepIsOnes DEF Phases
<1>4. ASSUME NEW p \in Processes, Launches!Connect(p) PROVE Phases'
  <2>1. Phase(p)'
    BY <1>1, <1>4, PhaseTypes
    DEF Phases, Phase, PhaseType, Launches!Connect, Launches!Goto, Launches!Exit,
       Launches!storeVars, Launches!searchVars, Launches!runVars, Launches!Runner, Launches!Command,
       Launches!NothingFound
  <2>2. QED
    BY <1>1, <1>4, <2>1, SameKeepsPhase, StepIsOnes DEF Phases
<1>5. ASSUME NEW p \in Processes, Launches!List(p) PROVE Phases'
  <2>1. Phase(p)'
    BY <1>1, <1>5, PhaseTypes
    DEF Phases, Phase, PhaseType, Launches!List, Launches!Goto, Launches!Exit,
       Launches!storeVars, Launches!searchVars, Launches!runVars, Launches!Runner, Launches!Command,
       Launches!NothingFound
  <2>2. QED
    BY <1>1, <1>5, <2>1, SameKeepsPhase, StepIsOnes DEF Phases
<1>6. ASSUME NEW p \in Processes, Launches!Get(p) PROVE Phases'
  <2>1. Phase(p)'
    <3>1. pc[p] = "get" /\ Phase(p) /\ PhaseType(p)
      BY <1>1, <1>6, PhaseTypes DEF Phases, Launches!Get
    <3>2. \/ latest'[p] = latest[p]
          \/ latest'[p].run \in Launches!Runs
      BY <1>6, <3>1, LeastIsOne, TypeParts DEF Launches!Get, LaunchTypes, SearchTypes, PhaseType
    <3>3. OthersSame(p) /\ pc' = pc /\ UNCHANGED Launches!runVars
      BY <1>6, StepIsOnes DEF Launches!Get
    <3>4. QED
      BY <1>1, <1>6, <3>1, <3>2, <3>3, RunsAreNumbers, PhaseTypes
      DEF Phases, Phase, PhaseType, Launches!Get, Launches!Goto, Launches!Exit,
       Launches!storeVars, Launches!searchVars, Launches!runVars, Launches!Runner, Launches!Command,
       Launches!NothingFound
  <2>2. QED
    BY <1>1, <1>6, <2>1, SameKeepsPhase, StepIsOnes DEF Phases
<1>7. ASSUME NEW p \in Processes, Launches!SearchFails(p) PROVE Phases'
  <2>1. Phase(p)'
    BY <1>1, <1>7, PhaseTypes
    DEF Phases, Phase, PhaseType, Launches!SearchFails, Launches!Goto, Launches!Exit,
       Launches!storeVars, Launches!searchVars, Launches!runVars, Launches!Runner, Launches!Command,
       Launches!NothingFound
  <2>2. QED
    BY <1>1, <1>7, <2>1, SameKeepsPhase, StepIsOnes DEF Phases
<1>8. ASSUME NEW p \in Processes, Launches!Found(p) PROVE Phases'
  <2>1. Phase(p)'
    <3>1. pc[p] = "get" /\ keys[p] = {} /\ Phase(p) /\ PhaseType(p)
      BY <1>1, <1>8, PhaseTypes DEF Phases, Launches!Found
    <3>2. /\ pc'[p] \in {"job builder", "over"}
          /\ pc'[p] = "job builder" => Launches!Runner(p)
      BY <1>8, <3>1
      DEF PhaseType, Launches!Found, Launches!Goto, Launches!Exit, Launches!Runner, Launches!Command
    <3>3. UNCHANGED <<setting, option, keys, latest, run, resumed, saves>>
      BY <1>8 DEF Launches!Found, Launches!searchVars, Launches!runVars
    <3>4. QED
      BY <3>1, <3>2, <3>3
      DEF Phase, PhaseType, Launches!Runner, Launches!Command, Launches!NothingFound
  <2>2. QED
    BY <1>1, <1>8, <2>1, SameKeepsPhase, StepIsOnes DEF Phases
<1>9. ASSUME NEW p \in Processes, Launches!Logs(p) PROVE Phases'
  <2>1. pc[p] = "list" /\ Launches!Command(p) = "logs" /\ Phase(p) /\ PhaseType(p)
    BY <1>1, <1>9, PhaseTypes DEF Phases, Launches!Logs
  <2>2. run[p] = Launches!NoRun /\ keys[p] = {} /\ saves[p] = 0
    BY <2>1 DEF Phase
  <2>3. PICK r \in Launches!Runs :
          latest' = [latest EXCEPT ![p] = [run |-> r, saves |-> 0]] /\ pc' = [pc EXCEPT ![p] = "over"]
    BY <1>9 DEF Launches!Logs, Launches!Exit
  <2>4. latest'[p] = [run |-> r, saves |-> 0] /\ pc'[p] = "over"
    BY <2>1, <2>3 DEF PhaseType
  <2>5. latest'[p].run # Launches!NoRun
    BY <2>4, RunsAreNumbers
  <2>6. run' = run /\ keys' = keys /\ saves' = saves /\ option' = option
    BY <1>9 DEF Launches!Logs, Launches!runVars
  <2>7. Phase(p)'
    BY <2>1, <2>2, <2>4, <2>5, <2>6 DEF Phase, Launches!Command, Launches!Runner
  <2>8. QED
    BY <1>1, <1>9, <2>7, SameKeepsPhase, StepIsOnes DEF Phases
<1>10. ASSUME NEW p \in Processes, Launches!Enter(p) PROVE Phases'
  <2>1. Phase(p)'
    <3>1. run'[p] \in Launches!Runs /\ (latest[p].run # Launches!NoRun => run'[p] = latest[p].run)
      BY <1>10, PhaseTypes DEF Launches!Enter, Launches!FreshRuns, PhaseType
    <3>2. QED
      BY <1>1, <1>10, <3>1, RunsAreNumbers, PhaseTypes
      DEF Phases, Phase, PhaseType, Launches!Enter, Launches!Goto, Launches!Exit,
       Launches!storeVars, Launches!searchVars, Launches!runVars, Launches!Runner, Launches!Command,
       Launches!NothingFound
  <2>2. QED
    BY <1>1, <1>10, <2>1, SameKeepsPhase, StepIsOnes DEF Phases
<1>11. ASSUME NEW p \in Processes, Launches!Note(p) PROVE Phases'
  <2>1. Phase(p)'
    BY <1>1, <1>11, PhaseTypes
    DEF Phases, Phase, PhaseType, Launches!Note, Launches!Goto, Launches!Exit,
       Launches!storeVars, Launches!searchVars, Launches!runVars, Launches!Runner, Launches!Command,
       Launches!NothingFound
  <2>2. QED
    BY <1>1, <1>11, <2>1, SameKeepsPhase, StepIsOnes DEF Phases
<1>12. ASSUME NEW p \in Processes, Launches!BeginSave(p) PROVE Phases'
  <2>1. Phase(p)'
    BY <1>1, <1>12, PhaseTypes
    DEF Phases, Phase, PhaseType, Launches!BeginSave, Launches!Goto, Launches!Exit,
       Launches!storeVars, Launches!searchVars, Launches!runVars, Launches!Runner, Launches!Command,
       Launches!NothingFound
  <2>2. QED
    BY <1>1, <1>12, <2>1, SameKeepsPhase, StepIsOnes DEF Phases
<1>13. ASSUME NEW p \in Processes, Launches!EndSave(p) PROVE Phases'
  <2>1. Phase(p)'
    BY <1>1, <1>13, PhaseTypes
    DEF Phases, Phase, PhaseType, Launches!EndSave, Launches!Goto, Launches!Exit,
       Launches!storeVars, Launches!searchVars, Launches!runVars, Launches!Runner, Launches!Command,
       Launches!NothingFound
  <2>2. QED
    BY <1>1, <1>13, <2>1, SameKeepsPhase, StepIsOnes DEF Phases
<1>14. ASSUME NEW p \in Processes, Launches!SaveFails(p) PROVE Phases'
  <2>1. Phase(p)'
    BY <1>1, <1>14, PhaseTypes
    DEF Phases, Phase, PhaseType, Launches!SaveFails, Launches!Goto, Launches!Exit,
       Launches!storeVars, Launches!searchVars, Launches!runVars, Launches!Runner, Launches!Command,
       Launches!NothingFound
  <2>2. QED
    BY <1>1, <1>14, <2>1, SameKeepsPhase, StepIsOnes DEF Phases
<1>15. ASSUME NEW p \in Processes, Launches!Ends(p) PROVE Phases'
  <2>1. Phase(p)'
    BY <1>1, <1>15, PhaseTypes
    DEF Phases, Phase, PhaseType, Launches!Ends, Launches!Goto, Launches!Exit,
       Launches!storeVars, Launches!searchVars, Launches!runVars, Launches!Runner, Launches!Command,
       Launches!NothingFound
  <2>2. QED
    BY <1>1, <1>15, <2>1, SameKeepsPhase, StepIsOnes DEF Phases
<1>16. ASSUME NEW p \in Processes, Launches!Crash(p) PROVE Phases'
  <2>1. Phase(p)'
    BY <1>1, <1>16, PhaseTypes
    DEF Phases, Phase, PhaseType, Launches!Crash, Launches!Goto, Launches!Exit,
       Launches!storeVars, Launches!searchVars, Launches!runVars, Launches!Runner, Launches!Command,
       Launches!NothingFound
  <2>2. QED
    BY <1>1, <1>16, <2>1, SameKeepsPhase, StepIsOnes DEF Phases
<1>17. ASSUME Launches!AllOver PROVE Phases'
  BY <1>1, <1>17 DEF Launches!AllOver, Launches!vars, Phases, Phase, Launches!Runner, Launches!Command
<1>18. QED
  BY <1>2, <1>3, <1>4, <1>5, <1>6, <1>7, <1>8, <1>9, <1>10, <1>11, <1>12, <1>13, <1>14, <1>15, <1>16, <1>17 DEF Launches!Next

(***************************************************************************)
(* Runs are kept apart: first what a step may do to those that drive one.  *)
(***************************************************************************)
Quiet ==
  /\ UNCHANGED <<setting, option, run, resumed, saves, latest, began>>
  /\ \A r \in Launches!Runs : checkpoint'[r].saves = checkpoint[r].saves

LEMMA StepKinds ==
  ASSUME LaunchTypes, Launches!Next
  PROVE  \/ Quiet
         \/ \E p \in Processes : \/ Launches!List(p) \/ Launches!Get(p) \/ Launches!Logs(p)
                                 \/ Launches!Enter(p) \/ Launches!EndSave(p)
<1> USE DEF Quiet, Launches!storeVars, Launches!searchVars, Launches!runVars
<1>1. ASSUME NEW p \in Processes,
             \/ Launches!Begin(p) \/ Launches!WritePrompt(p) \/ Launches!Connect(p)
             \/ Launches!SearchFails(p) \/ Launches!Found(p)
             \/ Launches!SaveFails(p) \/ Launches!Ends(p) \/ Launches!Crash(p)
      PROVE  Quiet
  BY <1>1 DEF Launches!Begin, Launches!WritePrompt, Launches!Connect, Launches!SearchFails,
     Launches!Found, Launches!SaveFails, Launches!Ends, Launches!Crash
<1>2. ASSUME NEW p \in Processes, Launches!Note(p) PROVE Quiet
  BY <1>2 DEF Launches!Note
<1>3. ASSUME NEW p \in Processes, Launches!BeginSave(p) PROVE Quiet
  <2>1. run[p] \in Launches!Runs
    BY <1>3, DriverHasRun DEF Launches!BeginSave
  <2>2. checkpoint' = checkpoint \/ checkpoint' = [checkpoint EXCEPT ![run[p]].whole = FALSE]
    BY <1>3 DEF Launches!BeginSave
  <2>3. checkpoint \in [Launches!Runs -> [saves : Nat, whole : BOOLEAN]]
    BY TypeParts DEF LaunchTypes, StoreTypes
  <2>4. QED
    BY <1>3, <2>1, <2>2, <2>3 DEF Launches!BeginSave
<1>4. ASSUME Launches!AllOver PROVE Quiet
  BY <1>4 DEF Launches!AllOver, Launches!vars
<1>5. QED
  BY <1>1, <1>2, <1>3, <1>4 DEF Launches!Next

LEMMA LaunchNumbers ==
  ASSUME LaunchTypes
  PROVE  /\ \A p \in Processes :
              /\ resumed[p] \in Nat /\ saves[p] \in Nat /\ latest[p].saves \in Nat
              /\ run[p] \in Launches!Runs \cup {Launches!NoRun}
              /\ latest[p].run \in Launches!Runs \cup {Launches!NoRun}
              /\ \A r \in Launches!Runs : began[p][r] \in Nat
         /\ \A r \in Launches!Runs : checkpoint[r].saves \in Nat /\ checkpoint[r].whole \in BOOLEAN
<1>1. \A p \in Processes : PhaseType(p)
  BY PhaseTypes
<1>2. \A p \in Processes : latest[p].saves \in Nat /\ latest[p].run \in Launches!Runs \cup {Launches!NoRun}
  BY <1>1 DEF PhaseType
<1>3. \A p \in Processes : \A r \in Launches!Runs : began[p][r] \in Nat
  BY TypeParts DEF LaunchTypes, SearchTypes
<1>4. \A r \in Launches!Runs : checkpoint[r].saves \in Nat /\ checkpoint[r].whole \in BOOLEAN
  BY TypeParts DEF LaunchTypes, StoreTypes
<1>5. QED
  BY <1>1, <1>2, <1>3, <1>4 DEF PhaseType

(* Who drives a run goes on driving it, and its saves only become more. *)
LEMMA DriversGoOn ==
  ASSUME LaunchTypes, Launches!Next, NEW q \in Processes, run[q] # Launches!NoRun
  PROVE  /\ run'[q] = run[q] /\ resumed'[q] = resumed[q]
         /\ saves'[q] \in Nat /\ saves'[q] >= saves[q]
<1>1. resumed[q] \in Nat /\ saves[q] \in Nat /\ PhaseType(q)
  BY LaunchNumbers, PhaseTypes
<1>2. CASE Quiet
  BY <1>1, <1>2 DEF Quiet
<1>3. ASSUME NEW p \in Processes, \/ Launches!List(p) \/ Launches!Get(p) \/ Launches!Logs(p)
      PROVE  run' = run /\ resumed' = resumed /\ saves' = saves
  BY <1>3 DEF Launches!List, Launches!Get, Launches!Logs, Launches!runVars
<1>4. ASSUME NEW p \in Processes, Launches!Enter(p) \/ Launches!EndSave(p), p # q
      PROVE  run'[q] = run[q] /\ resumed'[q] = resumed[q] /\ saves'[q] = saves[q]
  BY <1>4, StepIsOnes DEF OthersSame, Same
<1>5. ASSUME Launches!Enter(q) PROVE FALSE
  BY <1>5 DEF Launches!Enter, LaunchTypes, Phases, Phase
<1>6. ASSUME Launches!EndSave(q)
      PROVE  run'[q] = run[q] /\ resumed'[q] = resumed[q] /\ saves'[q] = saves[q] + 1
  BY <1>1, <1>6 DEF Launches!EndSave, PhaseType
<1>7. QED
  BY <1>1, <1>2, <1>3, <1>4, <1>5, <1>6, StepKinds

LEMMA ForksLast ==
  ASSUME LaunchTypes, Launches!Next, NEW r \in Launches!Runs, Launches!Forked(r)
  PROVE  Launches!Forked(r)'
<1>1. PICK p \in Processes, q \in Processes :
        /\ p # q /\ run[p] = r /\ run[q] = r
        /\ saves[p] > 0 /\ resumed[p] < resumed[q] + saves[q]
        /\ saves[q] > 0 /\ resumed[q] < resumed[p] + saves[p]
  BY DEF Launches!Forked, Launches!Drives
<1>2. run[p] # Launches!NoRun /\ run[q] # Launches!NoRun
  BY <1>1, RunsAreNumbers
<1>3. /\ run'[p] = r /\ resumed'[p] = resumed[p] /\ saves'[p] \in Nat /\ saves'[p] >= saves[p]
      /\ run'[q] = r /\ resumed'[q] = resumed[q] /\ saves'[q] \in Nat /\ saves'[q] >= saves[q]
  BY <1>1, <1>2, DriversGoOn
<1>4. /\ resumed[p] \in Nat /\ saves[p] \in Nat /\ resumed[q] \in Nat /\ saves[q] \in Nat
  BY LaunchNumbers
<1>5. /\ saves'[p] > 0 /\ resumed'[p] < resumed'[q] + saves'[q]
      /\ saves'[q] > 0 /\ resumed'[q] < resumed'[p] + saves'[p]
  BY <1>1, <1>3, <1>4
<1>6. QED
  BY <1>1, <1>2, <1>3, <1>5 DEF Launches!Forked, Launches!Drives, Launches!Entered

(***************************************************************************)
(* Every save that a file, or a search, has counted was made by one of the *)
(* processes that drive the run.                                           *)
(***************************************************************************)
Counts(q, r, k) == run[q] = r /\ resumed[q] < k /\ k <= resumed[q] + saves[q]

Covered(r, n) == \A k \in 1..n : \E q \in Processes : Counts(q, r, k)

AllCovered ==
  /\ \A r \in Launches!Runs : Covered(r, checkpoint[r].saves)
  /\ \A p \in Processes :
       latest[p].run # Launches!NoRun => Covered(latest[p].run, latest[p].saves)

LEMMA CoverLasts ==
  ASSUME LaunchTypes, Launches!Next, NEW r \in Launches!Runs, NEW n \in Nat, Covered(r, n)
  PROVE  Covered(r, n)'
<1> SUFFICES ASSUME NEW k \in 1..n PROVE \E q \in Processes : Counts(q, r, k)'
  BY DEF Covered
<1>1. PICK q \in Processes : Counts(q, r, k)
  BY DEF Covered
<1>2. /\ run'[q] = run[q] /\ resumed'[q] = resumed[q]
      /\ saves'[q] \in Nat /\ saves'[q] >= saves[q]
  BY <1>1, DriversGoOn, RunsAreNumbers DEF Counts
<1>3. resumed[q] \in Nat /\ saves[q] \in Nat
  BY LaunchNumbers
<1>4. k <= resumed'[q] + saves'[q]
  BY <1>1, <1>2, <1>3 DEF Counts
<1>5. QED
  BY <1>1, <1>2, <1>4 DEF Counts

LEMMA CoverInit ==
  ASSUME Launches!Init PROVE AllCovered
BY DEF Launches!Init, AllCovered, Covered, Launches!Absent, Launches!NothingFound

LEMMA CoverStep ==
  ASSUME LaunchTypes, AllCovered, Launches!Next PROVE AllCovered'
<1>1. \A r \in Launches!Runs : Covered(r, checkpoint[r].saves)'
  <2> SUFFICES ASSUME NEW r \in Launches!Runs PROVE Covered(r, checkpoint[r].saves)'
    OBVIOUS
  <2>1. checkpoint[r].saves \in Nat
    BY LaunchNumbers
  <2>2. CASE checkpoint'[r].saves = checkpoint[r].saves
    <3>1. \A k \in 1..checkpoint[r].saves : \E q \in Processes : Counts(q, r, k)'
      BY <2>1, CoverLasts DEF AllCovered, Covered
    <3>2. QED
      BY <2>2, <3>1 DEF Covered
  <2>3. ASSUME checkpoint'[r].saves # checkpoint[r].saves
        PROVE  \E p \in Processes : Launches!EndSave(p) /\ run[p] = r
    <3>1. ~Quiet
      BY <2>3 DEF Quiet
    <3>2. ASSUME NEW p \in Processes,
                 Launches!List(p) \/ Launches!Get(p) \/ Launches!Logs(p) \/ Launches!Enter(p)
          PROVE  FALSE
      BY <2>3, <3>2
         DEF Launches!List, Launches!Get, Launches!Logs, Launches!Enter, Launches!storeVars
    <3>3. PICK p \in Processes : Launches!EndSave(p)
      BY <3>1, <3>2, StepKinds
    <3>4. run[p] = r
      BY <2>3, <3>3, TypeParts DEF LaunchTypes, StoreTypes, Launches!EndSave
    <3>5. QED
      BY <3>3, <3>4
  <2>4. ASSUME NEW p \in Processes, Launches!EndSave(p), run[p] = r
        PROVE  Covered(r, checkpoint[r].saves)'
    <3>1. checkpoint'[r].saves = resumed[p] + saves[p] + 1
      BY <2>4, TypeParts DEF LaunchTypes, StoreTypes, Launches!EndSave, Launches!Saved
    <3>2. run'[p] = r /\ resumed'[p] = resumed[p] /\ saves'[p] = saves[p] + 1
      BY <2>4, PhaseTypes DEF Launches!EndSave, PhaseType
    <3>3. resumed[p] \in Nat /\ saves[p] \in Nat
      BY LaunchNumbers
    <3>4. \A k \in 1..resumed[p] : \E q \in Processes : Counts(q, r, k)'
      <4>1. resumed[p] = latest[p].saves
        BY <2>4, RunsAreNumbers DEF LaunchTypes, Phases, Phase
      <4>2. latest[p].run = Launches!NoRun => resumed[p] = 0
        BY <4>1 DEF LaunchTypes, Phases, Phase
      <4>3. latest[p].run # Launches!NoRun => Covered(r, resumed[p])
        BY <2>4, <4>1, RunsAreNumbers DEF AllCovered, LaunchTypes, Phases, Phase
      <4>4. QED
        BY <3>3, <4>2, <4>3, CoverLasts DEF Covered
    <3>5. \A k \in (resumed[p] + 1)..(resumed[p] + saves[p] + 1) : Counts(p, r, k)'
      BY <3>2, <3>3 DEF Counts
    <3>6. \A k \in 1..(resumed[p] + saves[p] + 1) :
             k \in 1..resumed[p] \/ k \in (resumed[p] + 1)..(resumed[p] + saves[p] + 1)
      BY <3>3
    <3>7. \A k \in 1..(resumed[p] + saves[p] + 1) : \E q \in Processes : Counts(q, r, k)'
      BY <3>4, <3>5, <3>6
    <3>8. QED
      BY <3>1, <3>7 DEF Covered
  <2>5. QED
    BY <2>2, <2>3, <2>4
<1>2. \A p \in Processes :
         latest'[p].run # Launches!NoRun => Covered(latest[p].run, latest[p].saves)'
  <2> SUFFICES ASSUME NEW p \in Processes, latest'[p].run # Launches!NoRun
               PROVE  Covered(latest[p].run, latest[p].saves)'
    OBVIOUS
  <2>1. latest[p].saves \in Nat /\ latest[p].run \in Launches!Runs \cup {Launches!NoRun}
    BY LaunchNumbers
  <2>2. CASE latest'[p] = latest[p]
    <3>1. Covered(latest[p].run, latest[p].saves) /\ latest[p].run \in Launches!Runs
      BY <2>1, <2>2 DEF AllCovered
    <3>2. \A k \in 1..latest[p].saves : \E q \in Processes : Counts(q, latest[p].run, k)'
      <4> DEFINE r == latest[p].run
                 n == latest[p].saves
      <4>1. PICK r0 \in Launches!Runs, n0 \in Nat : r0 = r /\ n0 = n
        BY <2>1, <3>1
      <4>2. Covered(r0, n0)'
        BY <3>1, <4>1, CoverLasts
      <4>3. \A k \in 1..n0 : \E q \in Processes : run'[q] = r0 /\ resumed'[q] < k /\ k <= resumed'[q] + saves'[q]
        BY <4>2 DEF Covered, Counts
      <4>4. latest'[p].run = r0 /\ latest'[p].saves = n0
        BY <2>2, <4>1
      <4>5. QED
        BY <4>1, <4>3, <4>4 DEF Counts
    <3>3. QED
      BY <2>2, <3>2 DEF Covered, Counts
  <2>3. ASSUME latest'[p] # latest[p] PROVE Launches!Get(p) \/ Launches!Logs(p)
    <3>1. ~Quiet
      BY <2>3 DEF Quiet
    <3>2. ASSUME NEW q \in Processes, Launches!List(q) \/ Launches!Enter(q) \/ Launches!EndSave(q)
          PROVE  FALSE
      BY <2>3, <3>2 DEF Launches!List, Launches!Enter, Launches!EndSave, Launches!searchVars
    <3>3. PICK q \in Processes : Launches!Get(q) \/ Launches!Logs(q)
      BY <3>1, <3>2, StepKinds
    <3>4. q = p
      BY <2>3, <3>3, StepIsOnes DEF OthersSame, Same
    <3>5. QED
      BY <3>3, <3>4
  <2>4. ASSUME Launches!Get(p), latest'[p] # latest[p]
        PROVE  Covered(latest[p].run, latest[p].saves)'
    <3>1. PICK r \in Launches!Runs : latest'[p] = [run |-> r, saves |-> checkpoint[r].saves]
      BY <2>4, LeastIsOne, PhaseTypes, TypeParts
         DEF Launches!Get, LaunchTypes, SearchTypes, PhaseType
    <3>2. latest'[p].run = r /\ latest'[p].saves = checkpoint'[r].saves
      BY <2>4, <3>1 DEF Launches!Get, Launches!storeVars
    <3>3. QED
      BY <1>1, <3>2 DEF Covered, Counts
  <2>5. ASSUME Launches!Logs(p) PROVE Covered(latest[p].run, latest[p].saves)'
    <3>1. latest'[p].saves = 0
      BY <2>5, PhaseTypes DEF Launches!Logs, PhaseType
    <3>2. QED
      BY <3>1 DEF Covered
  <2>6. QED
    BY <2>2, <2>3, <2>4, <2>5
<1>3. QED
  BY <1>1, <1>2 DEF AllCovered

(***************************************************************************)
(* As long as a run has not forked its checkpoint only advances: nobody    *)
(* has counted, found or begun with more than it holds.                    *)
(***************************************************************************)
AheadOfAll(r) ==
  \A p \in Processes :
    /\ run[p] = r => resumed[p] + saves[p] <= checkpoint[r].saves
    /\ began[p][r] <= checkpoint[r].saves
    /\ latest[p].run = r => latest[p].saves <= checkpoint[r].saves
    /\ (latest[p].run = r /\ Launches!Command(p) # "logs") => latest[p].saves >= began[p][r]

Ahead == \A r \in Launches!Runs : Launches!Forked(r) \/ AheadOfAll(r)

LEMMA AheadInit ==
  ASSUME Launches!Init PROVE Ahead
BY RunsAreNumbers
   DEF Launches!Init, Ahead, AheadOfAll, Launches!Absent, Launches!NothingFound

(* A save that does not fork the run is the highest so far. *)
LEMMA SaveAdvances ==
  ASSUME LaunchTypes, AllCovered, Launches!Next, NEW p \in Processes, Launches!EndSave(p),
         ~Launches!Forked(run[p])'
  PROVE  Launches!Saved(p) > checkpoint[run[p]].saves
<1> DEFINE v == Launches!Saved(p)
<1>1. PICK r \in Launches!Runs : r = run[p]
  BY DriverHasRun DEF Launches!EndSave
<1>2. resumed[p] \in Nat /\ saves[p] \in Nat /\ v = resumed[p] + saves[p] + 1 /\ checkpoint[r].saves \in Nat
  BY LaunchNumbers DEF Launches!Saved
<1>3. run'[p] = r /\ resumed'[p] = resumed[p] /\ saves'[p] = saves[p] + 1
  BY <1>1, PhaseTypes DEF Launches!EndSave, PhaseType
<1>4. ASSUME v <= checkpoint[r].saves PROVE FALSE
  <2>1. v \in 1..checkpoint[r].saves
    BY <1>2, <1>4
  <2>2. PICK q \in Processes : Counts(q, r, v)
    BY <2>1 DEF AllCovered, Covered
  <2>3. resumed[q] \in Nat /\ saves[q] \in Nat
    BY LaunchNumbers
  <2>4. run[q] = r /\ resumed[q] < v /\ v <= resumed[q] + saves[q]
    BY <2>2 DEF Counts
  <2>5. q # p
    BY <1>2, <2>4
  <2>6. run'[q] = r /\ resumed'[q] = resumed[q] /\ saves'[q] = saves[q]
    BY <2>4, <2>5, StepIsOnes DEF OthersSame, Same
  <2>7. /\ saves'[p] > 0 /\ resumed'[p] < resumed'[q] + saves'[q]
        /\ saves'[q] > 0 /\ resumed'[q] < resumed'[p] + saves'[p]
    BY <1>2, <1>3, <2>3, <2>4, <2>6
  <2>8. Launches!Forked(r)'
    BY <1>3, <2>5, <2>6, <2>7, RunsAreNumbers DEF Launches!Forked, Launches!Drives, Launches!Entered
  <2>9. QED
    BY <1>3, <2>8
<1>5. QED
  BY <1>1, <1>2, <1>4

LEMMA AheadStep ==
  ASSUME LaunchTypes, AllCovered, Ahead, Launches!Next PROVE Ahead'
<1> SUFFICES ASSUME NEW r \in Launches!Runs, ~Launches!Forked(r)' PROVE AheadOfAll(r)'
  BY DEF Ahead
<1>1. AheadOfAll(r)
  BY ForksLast DEF Ahead
<1>2. CASE Quiet
  BY <1>1, <1>2 DEF Quiet, AheadOfAll, Launches!Command
<1>3. ASSUME NEW p \in Processes, Launches!List(p) PROVE AheadOfAll(r)'
  <2>1. /\ run' = run /\ resumed' = resumed /\ saves' = saves
        /\ checkpoint' = checkpoint /\ latest' = latest /\ option' = option
    BY <1>3 DEF Launches!List, Launches!runVars, Launches!storeVars
  <2>2. latest[p].run # r
    <3>1. latest[p] = Launches!NothingFound
      BY <1>3 DEF Launches!List, LaunchTypes, Phases, Phase
    <3>2. QED
      BY <3>1, RunsAreNumbers DEF Launches!NothingFound
  <2>3. began'[p][r] = checkpoint[r].saves
    BY <1>3, PhaseTypes DEF Launches!List, PhaseType
  <2>4. \A q \in Processes \ {p} : began'[q] = began[q]
    BY <1>3, StepIsOnes DEF OthersSame, Same
  <2>5. checkpoint[r].saves <= checkpoint[r].saves
    BY LaunchNumbers
  <2>6. QED
    BY <1>1, <2>1, <2>2, <2>3, <2>4, <2>5 DEF AheadOfAll, Launches!Command
<1>4. ASSUME NEW p \in Processes, Launches!Get(p) PROVE AheadOfAll(r)'
  <2>1. /\ run' = run /\ resumed' = resumed /\ saves' = saves
        /\ checkpoint' = checkpoint /\ began' = began /\ option' = option
    BY <1>4 DEF Launches!Get, Launches!runVars, Launches!storeVars
  <2>2. \A q \in Processes \ {p} : latest'[q] = latest[q]
    BY <1>4, StepIsOnes DEF OthersSame, Same
  <2>3. \/ latest'[p] = latest[p]
        \/ \E k \in Launches!Runs : latest'[p] = [run |-> k, saves |-> checkpoint[k].saves]
    BY <1>4, LeastIsOne, PhaseTypes, TypeParts DEF Launches!Get, LaunchTypes, SearchTypes, PhaseType
  <2>4. latest'[p] # latest[p] /\ latest'[p].run = r => latest'[p].saves = checkpoint[r].saves
    <3> SUFFICES ASSUME latest'[p] # latest[p], latest'[p].run = r
                 PROVE  latest'[p].saves = checkpoint[r].saves
      OBVIOUS
    <3>1. PICK k \in Launches!Runs : latest'[p] = [run |-> k, saves |-> checkpoint[k].saves]
      BY <2>3
    <3>2. k = r
      BY <3>1
    <3>3. QED
      BY <3>1, <3>2
  <2>5. /\ checkpoint[r].saves <= checkpoint[r].saves
        /\ checkpoint[r].saves >= began[p][r]
    BY <1>1, LaunchNumbers DEF AheadOfAll
  <2>6. QED
    BY <1>1, <2>1, <2>2, <2>4, <2>5 DEF AheadOfAll, Launches!Command
<1>5. ASSUME NEW p \in Processes, Launches!Logs(p) PROVE AheadOfAll(r)'
  <2>1. /\ run' = run /\ resumed' = resumed /\ saves' = saves
        /\ checkpoint' = checkpoint /\ began' = began /\ option' = option
    BY <1>5 DEF Launches!Logs, Launches!runVars, Launches!storeVars
  <2>2. \A q \in Processes \ {p} : latest'[q] = latest[q]
    BY <1>5, StepIsOnes DEF OthersSame, Same
  <2>3. latest'[p].saves = 0 /\ Launches!Command(p) = "logs"
    BY <1>5, PhaseTypes DEF Launches!Logs, PhaseType
  <2>4. 0 <= checkpoint[r].saves
    BY LaunchNumbers
  <2>5. QED
    BY <1>1, <2>1, <2>2, <2>3, <2>4 DEF AheadOfAll, Launches!Command
<1>6. ASSUME NEW p \in Processes, Launches!Enter(p) PROVE AheadOfAll(r)'
  <2>1. /\ saves' = saves /\ latest' = latest /\ checkpoint' = checkpoint
        /\ began' = began /\ option' = option
    BY <1>6 DEF Launches!Enter, Launches!searchVars, Launches!storeVars
  <2>2. \A q \in Processes \ {p} : run'[q] = run[q] /\ resumed'[q] = resumed[q]
    BY <1>6, StepIsOnes DEF OthersSame, Same
  <2>3. saves[p] = 0 /\ resumed'[p] = latest[p].saves
    BY <1>6, PhaseTypes DEF Launches!Enter, LaunchTypes, Phases, Phase, PhaseType
  <2>4. run'[p] = r => latest[p].run = r \/ latest[p].saves = 0
    BY <1>6, PhaseTypes DEF Launches!Enter, LaunchTypes, Phases, Phase, PhaseType
  <2>5. latest[p].saves \in Nat /\ checkpoint[r].saves \in Nat
    BY LaunchNumbers
  <2>6. run'[p] = r => resumed'[p] + saves'[p] <= checkpoint[r].saves
    BY <1>1, <2>1, <2>3, <2>4, <2>5 DEF AheadOfAll
  <2>7. QED
    BY <1>1, <2>1, <2>2, <2>6 DEF AheadOfAll, Launches!Command
<1>7. ASSUME NEW p \in Processes, Launches!EndSave(p) PROVE AheadOfAll(r)'
  <2>1. /\ run' = run /\ resumed' = resumed /\ latest' = latest
        /\ began' = began /\ option' = option
    BY <1>7 DEF Launches!EndSave, Launches!searchVars
  <2>2. saves'[p] = saves[p] + 1 /\ \A q \in Processes \ {p} : saves'[q] = saves[q]
    BY <1>7, StepIsOnes, PhaseTypes DEF OthersSame, Same, Launches!EndSave, PhaseType
  <2>3. checkpoint'[r].saves = IF run[p] = r THEN Launches!Saved(p) ELSE checkpoint[r].saves
    BY <1>7, TypeParts DEF LaunchTypes, StoreTypes, Launches!EndSave
  <2>4. run[p] = r => Launches!Saved(p) > checkpoint[r].saves
    <3>1. ASSUME run[p] = r PROVE ~Launches!Forked(run[p])'
      BY <2>1, <3>1
    <3>2. QED
      BY <1>7, <3>1, SaveAdvances
  <2>5. checkpoint[r].saves \in Nat /\ Launches!Saved(p) \in Nat
    BY <1>7, DriverHasRun, LaunchNumbers DEF Launches!EndSave
  <2>6. checkpoint'[r].saves \in Nat /\ checkpoint'[r].saves >= checkpoint[r].saves
    BY <2>3, <2>4, <2>5
  <2>7. run[p] = r => resumed[p] + saves'[p] <= checkpoint'[r].saves
    BY <2>2, <2>3, LaunchNumbers DEF Launches!Saved
  <2> SUFFICES ASSUME NEW q \in Processes
               PROVE  /\ run'[q] = r => resumed'[q] + saves'[q] <= checkpoint'[r].saves
                      /\ began'[q][r] <= checkpoint'[r].saves
                      /\ latest'[q].run = r => latest'[q].saves <= checkpoint'[r].saves
                      /\ (latest'[q].run = r /\ Launches!Command(q)' # "logs")
                           => latest'[q].saves >= began'[q][r]
    BY DEF AheadOfAll
  <2>8. resumed[q] \in Nat /\ saves[q] \in Nat /\ began[q][r] \in Nat /\ latest[q].saves \in Nat
    BY LaunchNumbers
  <2>9. /\ run[q] = r => resumed[q] + saves[q] <= checkpoint[r].saves
        /\ began[q][r] <= checkpoint[r].saves
        /\ latest[q].run = r => latest[q].saves <= checkpoint[r].saves
        /\ (latest[q].run = r /\ Launches!Command(q) # "logs") => latest[q].saves >= began[q][r]
    BY <1>1 DEF AheadOfAll
  <2>10. run'[q] = r => resumed'[q] + saves'[q] <= checkpoint'[r].saves
    <3>1. CASE q = p
      BY <2>1, <2>7, <3>1
    <3>2. CASE q # p
      BY <2>1, <2>2, <2>5, <2>6, <2>8, <2>9, <3>2
    <3>3. QED
      BY <3>1, <3>2
  <2>11. began[q][r] <= checkpoint'[r].saves
    BY <2>5, <2>6, <2>8, <2>9
  <2>12. latest[q].run = r => latest[q].saves <= checkpoint'[r].saves
    BY <2>5, <2>6, <2>8, <2>9
  <2>13. QED
    BY <2>1, <2>9, <2>10, <2>11, <2>12 DEF Launches!Command
<1>8. QED
  BY <1>2, <1>3, <1>4, <1>5, <1>6, <1>7, StepKinds

(***************************************************************************)
(* A file that is there stays there, one that is whole holds a save, and   *)
(* of whole files a search misses none that it has found when it began.    *)
(***************************************************************************)
Searching ==
  /\ \A p \in Processes : \A r \in keys[p] : Launches!Has(r)
  /\ \A p \in Processes :
       (latest[p].run # Launches!NoRun /\ Launches!Command(p) # "logs") => latest[p].saves > 0
  /\ ~setting.torn =>
       /\ \A r \in Launches!Runs : checkpoint[r].whole
       /\ \A p \in Processes : \A r \in Launches!Runs :
            began[p][r] > 0 => r \in keys[p] \/ latest[p].run # Launches!NoRun

LEMMA SearchingInit ==
  ASSUME Launches!Init PROVE Searching
BY DEF Launches!Init, Searching, Launches!Absent, Launches!NothingFound

(* Files stay, and while nothing tears them they stay whole. *)
LEMMA FilesStay ==
  ASSUME LaunchTypes, Launches!Next
  PROVE  \A r \in Launches!Runs :
           /\ Launches!Has(r) => Launches!Has(r)'
           /\ (~setting.torn /\ checkpoint[r].whole) => checkpoint'[r].whole
<1>1. checkpoint \in [Launches!Runs -> [saves : Nat, whole : BOOLEAN]]
  BY TypeParts DEF LaunchTypes, StoreTypes
<1>2. CASE checkpoint' = checkpoint
  BY <1>2 DEF Launches!Has
<1>3. ASSUME NEW p \in Processes, Launches!BeginSave(p), checkpoint' # checkpoint
      PROVE  setting.torn /\ \A r \in Launches!Runs : Launches!Has(r) => Launches!Has(r)'
  <2>1. setting.torn /\ checkpoint' = [checkpoint EXCEPT ![run[p]].whole = FALSE]
    BY <1>3 DEF Launches!BeginSave
  <2> SUFFICES ASSUME NEW r \in Launches!Runs, Launches!Has(r) PROVE Launches!Has(r)'
    BY <2>1
  <2>2. CASE r = run[p]
    <3>1. ~checkpoint'[r].whole
      BY <1>1, <2>1, <2>2
    <3>2. QED
      BY <3>1 DEF Launches!Has, Launches!Absent
  <2>3. CASE r # run[p]
    BY <1>1, <2>1, <2>3 DEF Launches!Has
  <2>4. QED
    BY <2>2, <2>3
<1>4. ASSUME NEW p \in Processes, Launches!EndSave(p), NEW r \in Launches!Runs
      PROVE  /\ Launches!Has(r) => Launches!Has(r)'
             /\ checkpoint[r].whole => checkpoint'[r].whole
  <2>1. checkpoint'[r] = IF r = run[p] THEN [saves |-> Launches!Saved(p), whole |-> TRUE] ELSE checkpoint[r]
    BY <1>1, <1>4 DEF Launches!EndSave
  <2>2. Launches!Saved(p) > 0
    BY LaunchNumbers DEF Launches!Saved
  <2>3. QED
    BY <2>1, <2>2 DEF Launches!Has, Launches!Absent
<1>5. ASSUME checkpoint' # checkpoint
      PROVE  \E p \in Processes : Launches!BeginSave(p) \/ Launches!EndSave(p)
  BY <1>5 DEF Launches!Next, Launches!Begin, Launches!WritePrompt, Launches!Connect,
     Launches!List, Launches!Get, Launches!SearchFails, Launches!Found, Launches!Logs,
     Launches!Enter, Launches!Note, Launches!SaveFails, Launches!Ends, Launches!Crash,
     Launches!AllOver, Launches!vars, Launches!storeVars
<1>6. QED
  BY <1>2, <1>3, <1>4, <1>5

LEMMA SearchingStep ==
  ASSUME LaunchTypes, Searching, Launches!Next PROVE Searching'
<1>1. \A r \in Launches!Runs :
        /\ Launches!Has(r) => Launches!Has(r)'
        /\ (~setting.torn /\ checkpoint[r].whole) => checkpoint'[r].whole
  BY FilesStay
<1>2. \A p \in Processes : keys[p] \subseteq Launches!Runs
  BY TypeParts DEF LaunchTypes, SearchTypes
<1>3. setting' = setting /\ option' = option
  BY StepIsOnes DEF OthersSame, Launches!Next, Launches!AllOver, Launches!vars
<1>4. ASSUME keys' = keys, latest' = latest, began' = began
      PROVE  Searching'
  BY <1>1, <1>2, <1>3, <1>4 DEF Searching, Launches!Command
<1>5. ASSUME NEW p \in Processes, Launches!List(p) PROVE Searching'
  <2>1. /\ keys'[p] = {r \in Launches!Runs : Launches!Has(r)}
        /\ began'[p] = [r \in Launches!Runs |-> checkpoint[r].saves]
        /\ latest' = latest /\ checkpoint' = checkpoint
    BY <1>5, PhaseTypes DEF Launches!List, PhaseType, Launches!storeVars
  <2>2. \A q \in Processes \ {p} : keys'[q] = keys[q] /\ began'[q] = began[q]
    BY <1>5, StepIsOnes DEF OthersSame, Same
  <2>3. \A r \in Launches!Runs : began'[p][r] > 0 => r \in keys'[p]
    BY <2>1 DEF Launches!Has, Launches!Absent
  <2>4. QED
    BY <1>1, <1>2, <1>3, <2>1, <2>2, <2>3 DEF Searching, Launches!Command, Launches!Has
<1>6. ASSUME NEW p \in Processes, Launches!Get(p) PROVE Searching'
  <2>1. PICK r \in keys[p] :
          /\ latest' = IF checkpoint[r].whole
                       THEN [latest EXCEPT ![p] = [run |-> r, saves |-> checkpoint[r].saves]]
                       ELSE latest
          /\ keys' = [keys EXCEPT ![p] = @ \ {r}]
    BY <1>2, <1>6, LeastIsOne DEF Launches!Get, Launches!Parses
  <2>2. r \in Launches!Runs /\ checkpoint' = checkpoint /\ began' = began
    BY <1>2, <1>6 DEF Launches!Get, Launches!storeVars
  <2>3. checkpoint[r].whole =>
          latest'[p] = [run |-> r, saves |-> checkpoint[r].saves] /\ checkpoint[r].saves > 0
    <3>1. checkpoint[r] \in [saves : Nat, whole : BOOLEAN] /\ checkpoint[r] # Launches!Absent
      BY <2>2, TypeParts DEF LaunchTypes, StoreTypes, Searching, Launches!Has
    <3>2. ASSUME checkpoint[r].whole PROVE checkpoint[r].saves > 0
      <4>1. checkpoint[r] = [saves |-> checkpoint[r].saves, whole |-> checkpoint[r].whole]
        BY <3>1
      <4>2. checkpoint[r].whole = TRUE
        BY <3>1, <3>2
      <4>3. checkpoint[r].saves # 0
        BY <3>1, <4>1, <4>2 DEF Launches!Absent
      <4>4. QED
        BY <3>1, <4>3
    <3>3. QED
      BY <2>1, <3>2, PhaseTypes DEF PhaseType
  <2>4. ~checkpoint[r].whole => latest' = latest
    BY <2>1
  <2>5. \A q \in Processes \ {p} : keys'[q] = keys[q] /\ latest'[q] = latest[q]
    BY <1>6, StepIsOnes DEF OthersSame, Same
  <2>6. keys'[p] = keys[p] \ {r}
    BY <2>1, PhaseTypes DEF PhaseType
  <2>7. checkpoint[r].whole => latest'[p].run # Launches!NoRun /\ latest'[p].saves > 0
    BY <2>2, <2>3, RunsAreNumbers
  <2>8. \A q \in Processes : \A k \in keys'[q] : Launches!Has(k)'
    BY <2>2, <2>5, <2>6 DEF Searching, Launches!Has
  <2>9. \A q \in Processes :
          (latest'[q].run # Launches!NoRun /\ Launches!Command(q)' # "logs") => latest'[q].saves > 0
    BY <1>3, <2>4, <2>5, <2>7 DEF Searching, Launches!Command
  <2>10. ~setting'.torn =>
           /\ \A k \in Launches!Runs : checkpoint'[k].whole
           /\ \A q \in Processes : \A k \in Launches!Runs :
                began'[q][k] > 0 => k \in keys'[q] \/ latest'[q].run # Launches!NoRun
    BY <1>3, <2>2, <2>5, <2>6, <2>7 DEF Searching
  <2>11. QED
    BY <2>8, <2>9, <2>10 DEF Searching
<1>7. ASSUME NEW p \in Processes, Launches!Logs(p) PROVE Searching'
  <2>1. PICK r \in Launches!Runs : latest' = [latest EXCEPT ![p] = [run |-> r, saves |-> 0]]
    BY <1>7 DEF Launches!Logs
  <2>2. /\ keys' = keys /\ began' = began /\ checkpoint' = checkpoint
        /\ Launches!Command(p) = "logs"
    BY <1>7 DEF Launches!Logs, Launches!storeVars
  <2>3. latest'[p].run # Launches!NoRun /\ \A q \in Processes \ {p} : latest'[q] = latest[q]
    BY <1>7, <2>1, RunsAreNumbers, StepIsOnes, PhaseTypes DEF OthersSame, Same, PhaseType
  <2>4. QED
    BY <1>3, <2>2, <2>3 DEF Searching, Launches!Command, Launches!Has
<1>8. ASSUME NEW p \in Processes,
             \/ Launches!Begin(p) \/ Launches!WritePrompt(p) \/ Launches!Connect(p)
             \/ Launches!SearchFails(p) \/ Launches!Found(p) \/ Launches!Enter(p) \/ Launches!Note(p)
      PROVE  Searching'
  BY <1>4, <1>8 DEF Launches!Begin, Launches!WritePrompt, Launches!Connect, Launches!SearchFails,
     Launches!Found, Launches!Enter, Launches!Note, Launches!searchVars
<1>9. ASSUME NEW p \in Processes,
             \/ Launches!BeginSave(p) \/ Launches!EndSave(p) \/ Launches!SaveFails(p)
             \/ Launches!Ends(p) \/ Launches!Crash(p)
      PROVE  Searching'
  BY <1>4, <1>9 DEF Launches!BeginSave, Launches!EndSave, Launches!SaveFails, Launches!Ends,
     Launches!Crash, Launches!searchVars
<1>10. ASSUME Launches!AllOver PROVE Searching'
  BY <1>4, <1>10 DEF Launches!AllOver, Launches!vars
<1>11. QED
  BY <1>5, <1>6, <1>7, <1>8, <1>9, <1>10 DEF Launches!Next

(***************************************************************************)
(* A run that is not continued is one nobody drives.                       *)
(***************************************************************************)
LEMMA FreshStep ==
  ASSUME LaunchTypes, Launches!FreshIsNew, Launches!Next PROVE Launches!FreshIsNew'
<1> USE DEF Launches!FreshIsNew, Launches!Entered
<1>1. CASE Quiet
  BY <1>1 DEF Quiet
<1>2. ASSUME NEW p \in Processes, Launches!List(p) \/ Launches!EndSave(p)
      PROVE  Launches!FreshIsNew'
  BY <1>2 DEF Launches!List, Launches!EndSave, Launches!runVars, Launches!searchVars
<1>3. ASSUME NEW p \in Processes, Launches!Get(p) \/ Launches!Logs(p)
      PROVE  Launches!FreshIsNew'
  <2>1. run' = run /\ run[p] = Launches!NoRun
    BY <1>3 DEF Launches!Get, Launches!Logs, Launches!runVars, LaunchTypes, Phases, Phase
  <2>2. \A q \in Processes \ {p} : latest'[q] = latest[q]
    BY <1>3, StepIsOnes DEF OthersSame, Same
  <2>3. QED
    BY <2>1, <2>2
<1>4. ASSUME NEW p \in Processes, Launches!Enter(p) PROVE Launches!FreshIsNew'
  <2>1. latest' = latest /\ \A q \in Processes \ {p} : run'[q] = run[q]
    BY <1>4, StepIsOnes DEF OthersSame, Same, Launches!Enter, Launches!searchVars
  <2>2. latest[p].run = Launches!NoRun => \A q \in Processes : run[q] # run'[p]
    <3> SUFFICES ASSUME latest[p].run = Launches!NoRun
                 PROVE  \A q \in Processes : run[q] # run'[p]
      OBVIOUS
    <3>1. PICK r \in Launches!FreshRuns : run' = [run EXCEPT ![p] = r]
      BY <1>4 DEF Launches!Enter
    <3>2. run'[p] = r
      BY <3>1, PhaseTypes DEF PhaseType
    <3>3. r \notin {run[q] : q \in Processes}
      BY DEF Launches!FreshRuns, Launches!Driven
    <3>4. QED
      BY <3>2, <3>3
  <2>3. QED
    BY <2>1, <2>2
<1>5. QED
  BY <1>1, <1>2, <1>3, <1>4, StepKinds

(***************************************************************************)
(* Processes that do not overlap: one acts at a time, so that what it has  *)
(* found stays the checkpoint of its run, what it saves is the next, and   *)
(* the prompt stays its own; those that drive one run follow each other.   *)
(***************************************************************************)
Active(p) == pc[p] \notin {"off", "over"}

FoundIsCurrent(p) ==
  (pc[p] \in {"get", "job builder"} /\ latest[p].run # Launches!NoRun) =>
    latest[p].saves = checkpoint[latest[p].run].saves

DrivesLast(p) ==
  pc[p] \in {"running", "saving"} =>
    /\ resumed[p] + saves[p] = checkpoint[run[p]].saves
    /\ \A q \in Processes \ {p} : run[q] = run[p] => resumed[q] + saves[q] <= resumed[p]

PromptIsOwn(p) ==
  /\ (pc[p] \in {"connect", "list", "get", "job builder"} /\ Launches!Runner(p) /\ option[p].prompt)
       => inline = p
  /\ run[p] # Launches!NoRun => task[p] = p

TurnOf(p) ==
  /\ Active(p) => \A q \in Processes \ {p} : ~Active(q)
  /\ FoundIsCurrent(p) /\ DrivesLast(p) /\ PromptIsOwn(p)

Ordered ==
  \A p, q \in Processes : (p # q /\ run[p] # Launches!NoRun /\ run[p] = run[q]) =>
    resumed[p] + saves[p] <= resumed[q] \/ resumed[q] + saves[q] <= resumed[p]

Turns == setting.inTurn => Ordered /\ \A p \in Processes : TurnOf(p)

LEMMA TurnsInit ==
  ASSUME Launches!Init PROVE Turns
BY DEF Launches!Init, Turns, TurnOf, Ordered, Active, FoundIsCurrent, DrivesLast, PromptIsOwn

LEMMA OrderedNeverForks ==
  ASSUME LaunchTypes, Ordered, NEW r \in Launches!Runs PROVE ~Launches!Forked(r)
<1> SUFFICES ASSUME NEW p \in Processes, NEW q \in Processes, p # q,
                    run[p] # Launches!NoRun, run[p] = r, run[q] = r,
                    saves[p] > 0, resumed[p] < resumed[q] + saves[q],
                    saves[q] > 0, resumed[q] < resumed[p] + saves[p]
             PROVE  FALSE
  BY DEF Launches!Forked, Launches!Drives, Launches!Entered
<1>1. resumed[p] + saves[p] <= resumed[q] \/ resumed[q] + saves[q] <= resumed[p]
  BY DEF Ordered
<1>2. /\ resumed[p] \in Nat /\ saves[p] \in Nat /\ resumed[q] \in Nat /\ saves[q] \in Nat
  BY LaunchNumbers
<1>3. QED
  BY <1>1, <1>2

Acts(p) ==
  \/ Launches!Begin(p) \/ Launches!WritePrompt(p) \/ Launches!Connect(p)
  \/ Launches!List(p) \/ Launches!Get(p) \/ Launches!SearchFails(p) \/ Launches!Found(p)
  \/ Launches!Logs(p) \/ Launches!Enter(p) \/ Launches!Note(p) \/ Launches!BeginSave(p)
  \/ Launches!EndSave(p) \/ Launches!SaveFails(p) \/ Launches!Ends(p) \/ Launches!Crash(p)

LEMMA ActsAlone ==
  ASSUME LaunchTypes, setting.inTurn, \A q \in Processes : TurnOf(q), NEW p \in Processes, Acts(p)
  PROVE  /\ OthersSame(p)
         /\ \A q \in Processes \ {p} : ~Active(q) /\ ~Active(q)'
<1>1. OthersSame(p)
  BY StepIsOnes DEF Acts
<1>2. CASE Launches!Begin(p)
  BY <1>1, <1>2 DEF Launches!Begin, Launches!Alone, Active, OthersSame, Same
<1>3. ASSUME ~Launches!Begin(p) PROVE Active(p)
  BY <1>3 DEF Acts, Active, Launches!WritePrompt, Launches!Connect, Launches!List, Launches!Get,
     Launches!SearchFails, Launches!Found, Launches!Logs, Launches!Enter, Launches!Note,
     Launches!BeginSave, Launches!EndSave, Launches!SaveFails, Launches!Ends, Launches!Crash
<1>4. QED
  BY <1>1, <1>2, <1>3 DEF TurnOf, Active, OthersSame, Same

(* So only the process that acts has to be looked at. *)
LEMMA TurnGoesOn ==
  ASSUME LaunchTypes, setting.inTurn, \A q \in Processes : TurnOf(q),
         NEW p \in Processes, Acts(p),
         FoundIsCurrent(p)', DrivesLast(p)', PromptIsOwn(p)'
  PROVE  \A q \in Processes : TurnOf(q)'
<1>1. /\ OthersSame(p)
      /\ \A q \in Processes \ {p} : ~Active(q) /\ ~Active(q)'
  BY ActsAlone
<1>2. TurnOf(p)'
  BY <1>1 DEF TurnOf
<1>3. ASSUME NEW q \in Processes \ {p} PROVE TurnOf(q)'
  <2>1. ~Active(q)' /\ run'[q] = run[q] /\ task'[q] = task[q] /\ (run[q] # Launches!NoRun => task[q] = q)
    BY <1>1 DEF TurnOf, PromptIsOwn, OthersSame, Same
  <2>2. QED
    BY <2>1 DEF TurnOf, Active, FoundIsCurrent, DrivesLast, PromptIsOwn
<1>4. QED
  BY <1>2, <1>3

LEMMA PromptStep ==
  ASSUME LaunchTypes, NEW p \in Processes, PromptIsOwn(p), Acts(p)
  PROVE  PromptIsOwn(p)'
<1> USE DEF PromptIsOwn, Launches!Runner, Launches!Command, Launches!Goto, Launches!Exit
<1>1. PhaseType(p) /\ Phase(p) /\ option' = option
  BY PhaseTypes, StepIsOnes DEF LaunchTypes, Phases, Acts, OthersSame
<1>2. CASE Launches!Begin(p)
  BY <1>1, <1>2 DEF Launches!Begin, Launches!runVars, PhaseType
<1>3. CASE Launches!WritePrompt(p)
  BY <1>1, <1>3 DEF Launches!WritePrompt, Launches!runVars, PhaseType
<1>4. CASE Launches!Connect(p)
  BY <1>1, <1>4 DEF Launches!Connect, Launches!runVars, PhaseType
<1>5. CASE Launches!List(p) \/ Launches!Get(p) \/ Launches!Found(p)
  BY <1>1, <1>5 DEF Launches!List, Launches!Get, Launches!Found, Launches!runVars, PhaseType
<1>6. CASE Launches!SearchFails(p) \/ Launches!Logs(p)
  BY <1>1, <1>6 DEF Launches!SearchFails, Launches!Logs, Launches!runVars, PhaseType
<1>7. CASE Launches!Enter(p)
  <2>1. task'[p] = Launches!Task(p)
    BY <1>7, TypeParts DEF Launches!Enter, LaunchTypes, DriveTypes
  <2>2. pc[p] = "job builder" /\ pc'[p] = "running"
    BY <1>1, <1>7 DEF Launches!Enter, PhaseType
  <2>3. Launches!Task(p) = p
    BY <1>1, <2>2 DEF Launches!Task, Phase
  <2>4. QED
    BY <2>1, <2>2, <2>3
<1>8. CASE Launches!Note(p) \/ Launches!BeginSave(p) \/ Launches!EndSave(p) \/ Launches!SaveFails(p)
  BY <1>1, <1>8 DEF Launches!Note, Launches!BeginSave, Launches!EndSave, Launches!SaveFails,
     Launches!runVars, PhaseType
<1>9. CASE Launches!Ends(p) \/ Launches!Crash(p)
  BY <1>1, <1>9 DEF Launches!Ends, Launches!Crash, Launches!runVars, PhaseType
<1>10. QED
  BY <1>2, <1>3, <1>4, <1>5, <1>6, <1>7, <1>8, <1>9 DEF Acts

LEMMA FoundStep ==
  ASSUME LaunchTypes, NEW p \in Processes, FoundIsCurrent(p), Acts(p)
  PROVE  FoundIsCurrent(p)'
<1> USE DEF Launches!Goto, Launches!Exit, Launches!storeVars, Launches!searchVars
<1>1. PhaseType(p) /\ Phase(p)
  BY PhaseTypes DEF LaunchTypes, Phases
<1>2. ASSUME latest'[p].run = Launches!NoRun \/ pc'[p] \notin {"get", "job builder"}
      PROVE  FoundIsCurrent(p)'
  BY <1>2 DEF FoundIsCurrent
<1>3. CASE Launches!Begin(p) \/ Launches!WritePrompt(p)
  BY <1>1, <1>2, <1>3 DEF Launches!Begin, Launches!WritePrompt, PhaseType
<1>4. CASE Launches!Connect(p) \/ Launches!List(p)
  <2>1. latest'[p] = Launches!NothingFound
    BY <1>1, <1>4 DEF Launches!Connect, Launches!List, Phase
  <2>2. latest'[p].run = Launches!NoRun
    BY <2>1 DEF Launches!NothingFound
  <2>3. QED
    BY <1>2, <2>2
<1>5. CASE Launches!Get(p)
  <2>1. \/ latest'[p] = latest[p]
        \/ \E r \in Launches!Runs : latest'[p] = [run |-> r, saves |-> checkpoint[r].saves]
    BY <1>1, <1>5, LeastIsOne, TypeParts DEF Launches!Get, LaunchTypes, SearchTypes, PhaseType
  <2>2. pc[p] = "get" /\ checkpoint' = checkpoint
    BY <1>5 DEF Launches!Get
  <2>3. CASE latest'[p] = latest[p]
    BY <2>2, <2>3 DEF FoundIsCurrent
  <2>4. CASE latest'[p] # latest[p]
    <3>1. PICK r \in Launches!Runs : latest'[p] = [run |-> r, saves |-> checkpoint[r].saves]
      BY <2>1, <2>4
    <3>2. latest'[p].run = r /\ latest'[p].saves = checkpoint[r].saves
      BY <3>1
    <3>3. QED
      BY <2>2, <3>2 DEF FoundIsCurrent
  <2>5. QED
    BY <2>3, <2>4
<1>6. CASE Launches!SearchFails(p) \/ Launches!Found(p)
  BY <1>1, <1>6 DEF Launches!SearchFails, Launches!Found, PhaseType, FoundIsCurrent
<1>7. CASE Launches!Logs(p) \/ Launches!Ends(p) \/ Launches!Crash(p)
  BY <1>1, <1>2, <1>7 DEF Launches!Logs, Launches!Ends, Launches!Crash, PhaseType
<1>8. CASE Launches!Enter(p) \/ Launches!BeginSave(p) \/ Launches!EndSave(p) \/ Launches!SaveFails(p)
  BY <1>1, <1>2, <1>8 DEF Launches!Enter, Launches!BeginSave, Launches!EndSave, Launches!SaveFails, PhaseType
<1>9. CASE Launches!Note(p)
  BY <1>9 DEF Launches!Note, FoundIsCurrent
<1>10. QED
  BY <1>3, <1>4, <1>5, <1>6, <1>7, <1>8, <1>9 DEF Acts

(* What a process begins with no other has counted further than. *)
LEMMA EntersLast ==
  ASSUME LaunchTypes, Ordered, Ahead, NEW p \in Processes, FoundIsCurrent(p), Launches!Enter(p)
  PROVE  /\ run'[p] \in Launches!Runs
         /\ saves[p] = 0 /\ resumed'[p] = checkpoint[run'[p]].saves
         /\ \A q \in Processes \ {p} : run[q] = run'[p] => resumed[q] + saves[q] <= resumed'[p]
<1>1. /\ PhaseType(p) /\ Phase(p) /\ pc[p] = "job builder"
      /\ run[p] = Launches!NoRun /\ saves[p] = 0
  BY PhaseTypes DEF LaunchTypes, Phases, Phase, Launches!Enter
<1>2. resumed'[p] = latest[p].saves
  BY <1>1 DEF Launches!Enter, PhaseType
<1>3. CASE latest[p].run # Launches!NoRun
  <2>1. PICK r \in Launches!Runs : r = latest[p].run
    BY <1>1, <1>3 DEF PhaseType
  <2>2. run'[p] = r
    BY <1>1, <1>3, <2>1 DEF Launches!Enter, PhaseType
  <2>3. latest[p].saves = checkpoint[r].saves
    BY <1>1, <1>3, <2>1 DEF FoundIsCurrent
  <2>4. AheadOfAll(r)
    BY OrderedNeverForks DEF Ahead
  <2>5. QED
    BY <1>1, <1>2, <2>2, <2>3, <2>4 DEF AheadOfAll
<1>4. CASE latest[p].run = Launches!NoRun
  <2>1. PICK r \in Launches!FreshRuns : run' = [run EXCEPT ![p] = r]
    BY <1>4 DEF Launches!Enter
  <2>2. run'[p] = r /\ r \in Launches!Runs /\ checkpoint[r] = Launches!Absent
    BY <1>1, <2>1 DEF PhaseType, Launches!FreshRuns, Launches!Has
  <2>3. \A q \in Processes : run[q] # r
    BY DEF Launches!FreshRuns, Launches!Driven
  <2>4. latest[p].saves = 0
    BY <1>1, <1>4 DEF Phase
  <2>5. checkpoint[r].saves = 0
    BY <2>2 DEF Launches!Absent
  <2>6. QED
    BY <1>1, <1>2, <2>2, <2>3, <2>4, <2>5
<1>5. QED
  BY <1>3, <1>4

LEMMA DrivesStep ==
  ASSUME LaunchTypes, Ordered, Ahead, NEW p \in Processes, FoundIsCurrent(p), DrivesLast(p),
         OthersSame(p), Acts(p)
  PROVE  DrivesLast(p)'
<1>1. PhaseType(p) /\ Phase(p)
  BY PhaseTypes DEF LaunchTypes, Phases
<1>2. \A q \in Processes \ {p} : run'[q] = run[q] /\ resumed'[q] = resumed[q] /\ saves'[q] = saves[q]
  BY DEF OthersSame, Same
<1>3. CASE pc'[p] \notin {"running", "saving"}
  BY <1>3 DEF DrivesLast
<1>4. CASE \/ Launches!Begin(p) \/ Launches!WritePrompt(p) \/ Launches!Connect(p)
           \/ Launches!List(p) \/ Launches!Get(p)
  <2>1. pc'[p] \notin {"running", "saving"}
    BY <1>1, <1>4 DEF Launches!Begin, Launches!WritePrompt, Launches!Connect, Launches!List,
       Launches!Get, Launches!Goto, Launches!Exit, PhaseType
  <2>2. QED
    BY <1>3, <2>1
<1>5. CASE \/ Launches!SearchFails(p) \/ Launches!Found(p) \/ Launches!Logs(p)
           \/ Launches!Ends(p) \/ Launches!Crash(p)
  <2>1. pc'[p] \notin {"running", "saving"}
    BY <1>1, <1>5 DEF Launches!SearchFails, Launches!Found, Launches!Logs, Launches!Ends,
       Launches!Crash, Launches!Goto, Launches!Exit, PhaseType
  <2>2. QED
    BY <1>3, <2>1
<1>6. CASE Launches!Enter(p)
  <2>1. /\ run'[p] \in Launches!Runs
        /\ saves[p] = 0 /\ resumed'[p] = checkpoint[run'[p]].saves
        /\ \A q \in Processes \ {p} : run[q] = run'[p] => resumed[q] + saves[q] <= resumed'[p]
    BY <1>6, EntersLast
  <2>2. checkpoint' = checkpoint /\ saves' = saves
    BY <1>6 DEF Launches!Enter, Launches!storeVars
  <2>3. checkpoint[run'[p]].saves \in Nat
    BY <2>1, LaunchNumbers
  <2>4. resumed'[p] + saves'[p] = checkpoint'[run'[p]].saves
    BY <2>1, <2>2, <2>3
  <2>5. QED
    BY <1>2, <2>1, <2>4 DEF DrivesLast
<1>7. CASE Launches!Note(p) \/ Launches!BeginSave(p) \/ Launches!SaveFails(p)
  <2>1. pc[p] \in {"running", "saving"} /\ run' = run /\ resumed' = resumed /\ saves' = saves
    BY <1>7 DEF Launches!Note, Launches!BeginSave, Launches!SaveFails, Launches!runVars
  <2>2. \A r \in Launches!Runs : checkpoint'[r].saves = checkpoint[r].saves
    <3>1. checkpoint' = checkpoint \/ checkpoint' = [checkpoint EXCEPT ![run[p]].whole = FALSE]
      BY <1>7 DEF Launches!Note, Launches!BeginSave, Launches!SaveFails, Launches!storeVars
    <3>2. checkpoint \in [Launches!Runs -> [saves : Nat, whole : BOOLEAN]]
      BY TypeParts DEF LaunchTypes, StoreTypes
    <3>3. QED
      BY <3>1, <3>2
  <2>3. run[p] \in Launches!Runs
    BY <2>1, DriverHasRun
  <2>4. QED
    BY <2>1, <2>2, <2>3 DEF DrivesLast
<1>8. CASE Launches!EndSave(p)
  <2>1. run[p] \in Launches!Runs /\ resumed[p] \in Nat /\ saves[p] \in Nat
    BY <1>8, DriverHasRun DEF Launches!EndSave
  <2>2. run' = run /\ resumed' = resumed /\ saves'[p] = saves[p] + 1 /\ pc[p] = "saving"
    BY <1>1, <1>8 DEF Launches!EndSave, PhaseType
  <2>3. checkpoint'[run[p]].saves = resumed[p] + saves[p] + 1
    BY <1>8, <2>1, TypeParts DEF Launches!EndSave, Launches!Saved, LaunchTypes, StoreTypes
  <2>4. resumed'[p] + saves'[p] = checkpoint'[run'[p]].saves
    BY <2>1, <2>2, <2>3
  <2>5. QED
    BY <1>2, <2>2, <2>4 DEF DrivesLast
<1>9. QED
  BY <1>4, <1>5, <1>6, <1>7, <1>8 DEF Acts

LEMMA OrderedStep ==
  ASSUME LaunchTypes, Ordered, Ahead, NEW p \in Processes, FoundIsCurrent(p), DrivesLast(p),
         OthersSame(p), Acts(p)
  PROVE  Ordered'
<1> SUFFICES ASSUME NEW q \in Processes, NEW o \in Processes, q # o,
                    run'[q] # Launches!NoRun, run'[q] = run'[o]
             PROVE  \/ resumed'[q] + saves'[q] <= resumed'[o]
                    \/ resumed'[o] + saves'[o] <= resumed'[q]
  BY DEF Ordered
<1>1. \A w \in Processes \ {p} : run'[w] = run[w] /\ resumed'[w] = resumed[w] /\ saves'[w] = saves[w]
  BY DEF OthersSame, Same
<1>2. PhaseType(p) /\ Phase(p)
  BY PhaseTypes DEF LaunchTypes, Phases
<1>3. CASE q # p /\ o # p
  BY <1>1, <1>3 DEF Ordered
<1>4. ASSUME NEW w \in Processes \ {p}, run'[p] # Launches!NoRun, run'[w] = run'[p]
      PROVE  \/ resumed'[w] + saves'[w] <= resumed'[p]
             \/ resumed'[p] + saves'[p] <= resumed'[w]
  <2>1. CASE Launches!Enter(p)
    BY <1>1, <1>4, <2>1, EntersLast
  <2>2. CASE Launches!EndSave(p)
    <3>1. pc[p] = "saving" /\ run' = run /\ resumed' = resumed
      BY <2>2 DEF Launches!EndSave
    <3>2. QED
      BY <1>1, <1>4, <3>1 DEF DrivesLast
  <2>3. CASE ~Launches!Enter(p) /\ ~Launches!EndSave(p)
    <3>1. run' = run /\ resumed' = resumed /\ saves' = saves
      BY <2>3 DEF Acts, Launches!Begin, Launches!WritePrompt, Launches!Connect, Launches!List,
         Launches!Get, Launches!SearchFails, Launches!Found, Launches!Logs, Launches!Note,
         Launches!BeginSave, Launches!SaveFails, Launches!Ends, Launches!Crash, Launches!runVars
    <3>2. QED
      BY <1>4, <3>1 DEF Ordered
  <2>4. QED
    BY <2>1, <2>2, <2>3
<1>5. QED
  BY <1>3, <1>4

LEMMA TurnsStep ==
  ASSUME LaunchTypes, Ahead, Turns, Launches!Next PROVE Turns'
<1> SUFFICES ASSUME setting'.inTurn PROVE Ordered' /\ \A p \in Processes : TurnOf(p)'
  BY DEF Turns
<1>1. setting' = setting
  BY StepIsOnes DEF OthersSame, Launches!Next, Launches!AllOver, Launches!vars
<1>2. Ordered /\ \A p \in Processes : TurnOf(p)
  BY <1>1 DEF Turns
<1>3. ASSUME NEW p \in Processes, Acts(p)
      PROVE  Ordered' /\ \A q \in Processes : TurnOf(q)'
  <2>1. OthersSame(p) /\ FoundIsCurrent(p) /\ DrivesLast(p) /\ PromptIsOwn(p)
    BY <1>1, <1>2, <1>3, ActsAlone DEF TurnOf
  <2>2. FoundIsCurrent(p)' /\ DrivesLast(p)' /\ PromptIsOwn(p)'
    BY <1>2, <1>3, <2>1, FoundStep, DrivesStep, PromptStep
  <2>3. QED
    BY <1>1, <1>2, <1>3, <2>1, <2>2, OrderedStep, TurnGoesOn
<1>4. CASE Launches!AllOver
  BY <1>2, <1>4 DEF Launches!AllOver, Launches!vars, Ordered, TurnOf, Active, FoundIsCurrent,
     DrivesLast, PromptIsOwn, Launches!Runner, Launches!Command
<1>5. QED
  BY <1>3, <1>4 DEF Launches!Next, Acts

(***************************************************************************)
(* All that holds of the launches, and what follows from it.               *)
(***************************************************************************)
LaunchInv ==
  LaunchTypes /\ AllCovered /\ Ahead /\ Searching /\ Launches!FreshIsNew /\ Turns

LEMMA LaunchInvInit ==
  ASSUME Launches!Init PROVE LaunchInv
<1>1. Launches!FreshIsNew
  BY DEF Launches!Init, Launches!FreshIsNew, Launches!Entered
<1>2. QED
  BY <1>1, LaunchTypesInit, CoverInit, AheadInit, SearchingInit, TurnsInit DEF LaunchInv

LEMMA LaunchInvStep ==
  ASSUME LaunchInv, Launches!Next PROVE LaunchInv'
<1>1. LaunchTypes'
  BY LaunchTypesStep, PhasesStep DEF LaunchInv, LaunchTypes
<1>2. AllCovered' /\ Ahead'
  BY CoverStep, AheadStep DEF LaunchInv
<1>3. Searching' /\ Launches!FreshIsNew' /\ Turns'
  BY SearchingStep, FreshStep, TurnsStep DEF LaunchInv
<1>4. QED
  BY <1>1, <1>2, <1>3 DEF LaunchInv

LEMMA LaunchPromises ==
  ASSUME LaunchInv
  PROVE  /\ Launches!TypeOK
         /\ Launches!ResumedIsSaved /\ Launches!FreshIsNew /\ Launches!ContinueFinds
         /\ Launches!OwnPrompt /\ Launches!NeverForks
<1>1. LaunchTypes /\ Ahead /\ Searching /\ Turns
  BY DEF LaunchInv
<1>2. Launches!ResumedIsSaved
  <2> SUFFICES ASSUME NEW p \in Processes, Launches!Command(p) = "continue",
                      latest[p].run # Launches!NoRun
               PROVE  /\ latest[p].saves > 0
                      /\ \/ Launches!Forked(latest[p].run)
                         \/ latest[p].saves >= began[p][latest[p].run]
    BY DEF Launches!ResumedIsSaved
  <2>1. latest[p].run \in Launches!Runs
    BY <1>1, LaunchNumbers
  <2>2. latest[p].saves > 0
    BY <1>1 DEF Searching
  <2>3. Launches!Forked(latest[p].run) \/ AheadOfAll(latest[p].run)
    BY <1>1, <2>1 DEF Ahead
  <2>4. AheadOfAll(latest[p].run) => latest[p].saves >= began[p][latest[p].run]
    BY DEF AheadOfAll
  <2>5. QED
    BY <2>2, <2>3, <2>4
<1>3. Launches!ContinueFinds
  <2> SUFFICES ASSUME NEW p \in Processes, ~setting.torn, Launches!Entered(p),
                      latest[p].run = Launches!NoRun, NEW r \in Launches!Runs
               PROVE  began[p][r] = 0
    BY DEF Launches!ContinueFinds
  <2>1. keys[p] = {}
    BY <1>1 DEF Launches!Entered, LaunchTypes, Phases, Phase
  <2>2. ~(began[p][r] > 0)
    BY <1>1, <2>1 DEF Searching
  <2>3. QED
    BY <1>1, <2>2, LaunchNumbers
<1>4. Launches!OwnPrompt
  BY <1>1 DEF Turns, TurnOf, PromptIsOwn, Launches!OwnPrompt, Launches!Entered
<1>5. Launches!NeverForks
  BY <1>1, OrderedNeverForks DEF Turns, Launches!NeverForks
<1>6. QED
  BY <1>2, <1>3, <1>4, <1>5 DEF LaunchInv, LaunchTypes

LEMMA LaunchInvKept ==
  ASSUME LaunchInv, UNCHANGED launchVars PROVE LaunchInv'
<1> USE DEF launchVars
<1>1. LaunchTypes'
  <2>1. FlowTypes' /\ StoreTypes' /\ SearchTypes'
    BY TypeParts DEF LaunchInv, LaunchTypes, FlowTypes, StoreTypes, SearchTypes
  <2>2. DriveTypes' /\ OtherTypes' /\ faults' \in 0..MaxFaults
    BY TypeParts DEF LaunchInv, LaunchTypes, DriveTypes, OtherTypes
  <2>3. Phases'
    BY DEF LaunchInv, LaunchTypes, Phases, Phase, Launches!Runner, Launches!Command
  <2>4. QED
    BY <2>1, <2>2, <2>3, TypePartsNext DEF LaunchTypes
<1>2. AllCovered' /\ Launches!FreshIsNew'
  BY DEF LaunchInv, AllCovered, Covered, Counts, Launches!FreshIsNew, Launches!Entered
<1>3. Ahead'
  BY DEF LaunchInv, Ahead, AheadOfAll, Launches!Forked, Launches!Drives, Launches!Entered, Launches!Command
<1>4. Searching'
  BY DEF LaunchInv, Searching, Launches!Has, Launches!Command
<1>5. Turns'
  BY DEF LaunchInv, Turns, TurnOf, Ordered, Active, FoundIsCurrent, DrivesLast, PromptIsOwn,
     Launches!Runner, Launches!Command
<1>6. QED
  BY <1>1, <1>2, <1>3, <1>4, <1>5 DEF LaunchInv

(* Of processes in one directory, as many as there may be: what is         *)
(* continued was saved as a whole and, unless two processes have driven    *)
(* the run apart, is no older than when the search began, whatever is      *)
(* saved, torn or lost meanwhile; nobody shares a run that is not          *)
(* continued; and processes one after the other neither take each other's  *)
(* prompt nor drive a run apart.                                           *)
THEOREM RunsKeepApartHolds == Spec => []RunsKeepApart
<1> DEFINE Inv == part = "launch" => LaunchInv
<1>1. Init => Inv
  BY LaunchInvInit DEF Init
<1>2. Inv /\ [Next]_vars => Inv'
  <2> SUFFICES ASSUME Inv, [Next]_vars, part' = "launch" PROVE LaunchInv'
    OBVIOUS
  <2>1. CASE UNCHANGED vars
    BY <2>1, LaunchInvKept DEF vars
  <2>2. CASE Launching /\ Launches!Next
    BY <2>2, LaunchInvStep DEF Launching
  <2>3. CASE Next /\ ~(Launching /\ Launches!Next)
    BY <2>3 DEF Next, Building, Running
  <2>4. QED
    BY <2>1, <2>2, <2>3
<1>3. Inv => RunsKeepApart
  BY LaunchPromises DEF RunsKeepApart
<1>4. QED
  BY <1>1, <1>2, <1>3, PTL DEF Spec

(***************************************************************************)
(* The jobs.  What the operators on environments do.                       *)
(***************************************************************************)
LEMMA OverIs ==
  ASSUME NEW f, NEW g
  PROVE  /\ DOMAIN Builder!Over(f, g) = DOMAIN f \cup DOMAIN g
         /\ \A v \in DOMAIN f \cup DOMAIN g :
              Builder!Over(f, g)[v] = IF v \in DOMAIN g THEN g[v] ELSE f[v]
BY DEF Builder!Over

LEMMA GivenIs ==
  ASSUME NEW f
  PROVE  /\ DOMAIN Builder!Given(f) = {v \in DOMAIN f : f[v] # ""}
         /\ \A v \in DOMAIN Builder!Given(f) : Builder!Given(f)[v] = f[v] /\ f[v] # ""
BY DEF Builder!Given

LEMMA MinIsFirst ==
  ASSUME NEW S \in SUBSET Nat, S # {}
  PROVE  Builder!Min(S) \in S /\ \A k \in S : Builder!Min(S) <= k
<1>1. IsWellFoundedOn(OpToRel(<, Nat), Nat)
  BY NatLessThanWellFounded
<1>2. PICK r \in S : \A k \in S : ~ (<<k, r>> \in OpToRel(<, Nat))
  BY <1>1, WFMin
<1>3. \A k \in S : ~(k < r)
  BY <1>2 DEF OpToRel
<1>4. \A k \in S : r <= k
  BY <1>3
<1>5. QED
  BY <1>2, <1>4, Zenon DEF Builder!Min

LEMMA ProvidersAre ==
  /\ Len(Builder!Providers) \in Nat
  /\ DOMAIN Builder!Providers = 1..Len(Builder!Providers)
<1>1. CASE mode = "k8s"
  <2>1. Builder!Providers = <<"env", "file", "k8s">>
    BY <1>1 DEF Builder!Providers
  <2>2. QED
    BY <2>1
<1>2. CASE mode # "k8s"
  <2>1. Builder!Providers = <<"env", "file">>
    BY <1>2 DEF Builder!Providers
  <2>2. QED
    BY <2>1
<1>3. QED
  BY <1>1, <1>2

LEMMA PlacesBefore ==
  /\ \A n \in Nat : \A i \in 1..n : i \in Nat
  /\ \A n \in Nat : \A m \in 1..n : \A k \in 1..(m - 1) : k \in 1..n /\ ~(m <= k)
OBVIOUS

(* The chain's answer is the first that is not none. *)
LEMMA ChainAsksInOrder ==
  ASSUME NEW name, Builder!GetSecret(name) \notin {"", "error"}
  PROVE  Builder!SecretIs(name, Builder!GetSecret(name))
<1> DEFINE Held == {i \in 1..Len(Builder!Providers) : Builder!Asked(Builder!Providers[i], name) # ""}
<1>1. PICK n \in Nat : n = Len(Builder!Providers) /\ DOMAIN Builder!Providers = 1..n
  BY ProvidersAre
<1>2. Builder!GetSecret(name)
        = IF (IF Held # {} THEN Builder!Min(Held) ELSE 0) = 0 THEN ""
          ELSE Builder!Asked(Builder!Providers[IF Held # {} THEN Builder!Min(Held) ELSE 0], name)
  BY DEF Builder!GetSecret, Builder!SelectInSeq
<1>3. \A i : i \in Held <=> i \in 1..n /\ Builder!Asked(Builder!Providers[i], name) # ""
  BY <1>1, Zenon
<1> HIDE DEF Held
<1>4. Held # {} /\ Builder!GetSecret(name) = Builder!Asked(Builder!Providers[Builder!Min(Held)], name)
  BY <1>2
<1>5. \A i \in 1..n : i \in Nat
  BY PlacesBefore, Zenon
<1>6. Held \subseteq Nat
  BY <1>3, <1>5, Zenon
<1>7. Builder!Min(Held) \in Held /\ \A k \in Held : Builder!Min(Held) <= k
  BY <1>4, <1>6, MinIsFirst
<1>8. PICK m \in 1..n : m = Builder!Min(Held)
  BY <1>3, <1>7, Zenon
<1>9. \A k \in 1..(m - 1) : k \in 1..n /\ ~(m <= k)
  BY PlacesBefore, Zenon
<1>10. \A k \in 1..(m - 1) : Builder!Asked(Builder!Providers[k], name) = ""
  BY <1>3, <1>7, <1>8, <1>9, Zenon
<1>11. Builder!GetSecret(name) = Builder!Asked(Builder!Providers[m], name)
  BY <1>4, <1>8
<1>12. Builder!HeldBy(name, m)
  BY <1>11 DEF Builder!HeldBy
<1>13. QED
  BY <1>1, <1>10, <1>11, <1>12 DEF Builder!SecretIs

(* What a job is built from. *)
Chosen == config \in Configs /\ hat \in Hats

LEMMA BuiltEnvIs ==
  /\ DOMAIN Builder!BuiltEnv =
       DOMAIN Builder!ControllerEnv \cup DOMAIN Builder!HatEnv \cup DOMAIN Builder!GitEnv
  /\ \A v \in DOMAIN Builder!BuiltEnv :
       Builder!BuiltEnv[v] = IF v \in DOMAIN Builder!GitEnv THEN Builder!GitEnv[v]
                             ELSE IF v \in DOMAIN Builder!HatEnv THEN Builder!HatEnv[v]
                             ELSE Builder!ControllerEnv[v]
<1> DEFINE inner == Builder!Over(Builder!ControllerEnv, Builder!HatEnv)
<1>1. /\ DOMAIN inner = DOMAIN Builder!ControllerEnv \cup DOMAIN Builder!HatEnv
      /\ \A v \in DOMAIN Builder!ControllerEnv \cup DOMAIN Builder!HatEnv :
           inner[v] = IF v \in DOMAIN Builder!HatEnv THEN Builder!HatEnv[v] ELSE Builder!ControllerEnv[v]
  BY OverIs, Zenon
<1>2. Builder!BuiltEnv = Builder!Over(inner, Builder!GitEnv)
  BY DEF Builder!BuiltEnv
<1> HIDE DEF inner
<1>3. /\ DOMAIN Builder!BuiltEnv = DOMAIN inner \cup DOMAIN Builder!GitEnv
      /\ \A v \in DOMAIN inner \cup DOMAIN Builder!GitEnv :
           Builder!BuiltEnv[v] = IF v \in DOMAIN Builder!GitEnv THEN Builder!GitEnv[v] ELSE inner[v]
  BY <1>2, OverIs
<1>4. QED
  BY <1>1, <1>3

ControllerNames ==
  {"BORING_RUN_ID", "BORING_HAT_ID", "BORING_EVENT_TOPIC", "BORING_PROMPT", "BORING_DEFAULT_PUBLISH",
   "BORING_BROKER_URL", "BORING_BROKER_STREAM", "BORING_STORE_ENDPOINT", "BORING_STORE_BUCKET",
   "BORING_STORE_PREFIX"}

GitNames ==
  {"BORING_GIT_REPO", "BORING_GIT_BASE_BRANCH", "BORING_GIT_BRANCH_STRATEGY", "BORING_GIT_TOKEN"}

LEMMA ControllerEnvIs ==
  /\ DOMAIN Builder!ControllerEnv \subseteq ControllerNames
  /\ \A v \in DOMAIN Builder!ControllerEnv :
       /\ Builder!ControllerEnv[v] # ""
       /\ v = "BORING_RUN_ID" => Builder!ControllerEnv[v] = "run"
       /\ v = "BORING_HAT_ID" => Builder!ControllerEnv[v] = "hat"
       /\ v = "BORING_EVENT_TOPIC" => Builder!ControllerEnv[v] = "topic"
       /\ v = "BORING_PROMPT" => Builder!ControllerEnv[v] = Builder!Prompt
       /\ v = "BORING_DEFAULT_PUBLISH" =>
            Builder!ControllerEnv[v] = Builder!First(hat.default_publishes, Builder!PublishFirst)
       /\ v = "BORING_BROKER_URL" => Builder!ControllerEnv[v] = Builder!BrokerUrl
       /\ v = "BORING_BROKER_STREAM" => Builder!ControllerEnv[v] = config.broker.stream
       /\ v = "BORING_STORE_ENDPOINT" => Builder!ControllerEnv[v] = config.store.endpoint
       /\ v = "BORING_STORE_BUCKET" => Builder!ControllerEnv[v] = config.store.bucket
       /\ v = "BORING_STORE_PREFIX" => Builder!ControllerEnv[v] = config.store.prefix
  /\ Builder!BrokerUrl # "" => "BORING_BROKER_URL" \in DOMAIN Builder!ControllerEnv
  /\ config.broker.stream # "" => "BORING_BROKER_STREAM" \in DOMAIN Builder!ControllerEnv
  /\ config.store.endpoint # "" => "BORING_STORE_ENDPOINT" \in DOMAIN Builder!ControllerEnv
  /\ config.store.bucket # "" => "BORING_STORE_BUCKET" \in DOMAIN Builder!ControllerEnv
<1> DEFINE given ==
      [BORING_RUN_ID |-> "run", BORING_HAT_ID |-> "hat",
       BORING_EVENT_TOPIC |-> "topic", BORING_PROMPT |-> Builder!Prompt,
       BORING_DEFAULT_PUBLISH |-> Builder!First(hat.default_publishes, Builder!PublishFirst),
       BORING_BROKER_URL |-> Builder!BrokerUrl,
       BORING_BROKER_STREAM |-> config.broker.stream,
       BORING_STORE_ENDPOINT |-> config.store.endpoint,
       BORING_STORE_BUCKET |-> config.store.bucket,
       BORING_STORE_PREFIX |-> config.store.prefix]
<1>1. Builder!ControllerEnv = Builder!Given(given)
  BY DEF Builder!ControllerEnv
<1>2. DOMAIN given = ControllerNames
  BY DEF ControllerNames
<1>3. /\ given["BORING_RUN_ID"] = "run" /\ given["BORING_HAT_ID"] = "hat"
      /\ given["BORING_EVENT_TOPIC"] = "topic" /\ given["BORING_PROMPT"] = Builder!Prompt
      /\ given["BORING_DEFAULT_PUBLISH"] = Builder!First(hat.default_publishes, Builder!PublishFirst)
      /\ given["BORING_BROKER_URL"] = Builder!BrokerUrl
      /\ given["BORING_BROKER_STREAM"] = config.broker.stream
      /\ given["BORING_STORE_ENDPOINT"] = config.store.endpoint
      /\ given["BORING_STORE_BUCKET"] = config.store.bucket
      /\ given["BORING_STORE_PREFIX"] = config.store.prefix
  OBVIOUS
<1> HIDE DEF given
<1>4. /\ DOMAIN Builder!ControllerEnv = {v \in DOMAIN given : given[v] # ""}
      /\ \A v \in DOMAIN Builder!ControllerEnv : Builder!ControllerEnv[v] = given[v] /\ given[v] # ""
  BY <1>1, GivenIs, Zenon
<1>5. \A v : v \in DOMAIN Builder!ControllerEnv <=> v \in ControllerNames /\ given[v] # ""
  BY <1>2, <1>4, Zenon
<1>6. DOMAIN Builder!ControllerEnv \subseteq ControllerNames
  BY <1>5, Zenon
<1>7. ASSUME NEW v \in DOMAIN Builder!ControllerEnv
      PROVE  Builder!ControllerEnv[v] = given[v] /\ given[v] # ""
  BY <1>4, Zenon
<1>8. /\ Builder!BrokerUrl # "" => "BORING_BROKER_URL" \in DOMAIN Builder!ControllerEnv
      /\ config.broker.stream # "" => "BORING_BROKER_STREAM" \in DOMAIN Builder!ControllerEnv
      /\ config.store.endpoint # "" => "BORING_STORE_ENDPOINT" \in DOMAIN Builder!ControllerEnv
      /\ config.store.bucket # "" => "BORING_STORE_BUCKET" \in DOMAIN Builder!ControllerEnv
  <2>1. "BORING_BROKER_URL" \in ControllerNames /\ "BORING_BROKER_STREAM" \in ControllerNames
        /\ "BORING_STORE_ENDPOINT" \in ControllerNames /\ "BORING_STORE_BUCKET" \in ControllerNames
    BY DEF ControllerNames
  <2>2. QED
    BY <1>3, <1>5, <2>1, Zenon
<1>9. QED
  BY <1>3, <1>6, <1>7, <1>8, Zenon

LEMMA GitEnvIs ==
  /\ DOMAIN Builder!GitEnv \subseteq GitNames
  /\ \A v \in DOMAIN Builder!GitEnv :
       /\ Builder!GitEnv[v] # "" /\ config.git.repo # ""
       /\ v = "BORING_GIT_REPO" => Builder!GitEnv[v] = config.git.repo
       /\ v = "BORING_GIT_BASE_BRANCH" => Builder!GitEnv[v] = config.git.base_branch
       /\ v = "BORING_GIT_BRANCH_STRATEGY" => Builder!GitEnv[v] = Builder!Lowered(config.git.branch_strategy)
       /\ v = "BORING_GIT_TOKEN" => Builder!GitEnv[v] = Builder!Token
  /\ config.git.repo # "" =>
       /\ "BORING_GIT_REPO" \in DOMAIN Builder!GitEnv
       /\ config.git.base_branch # "" => "BORING_GIT_BASE_BRANCH" \in DOMAIN Builder!GitEnv
       /\ Builder!Lowered(config.git.branch_strategy) # "" =>
            "BORING_GIT_BRANCH_STRATEGY" \in DOMAIN Builder!GitEnv
<1> DEFINE given ==
      [BORING_GIT_REPO |-> config.git.repo,
       BORING_GIT_BASE_BRANCH |-> config.git.base_branch,
       BORING_GIT_BRANCH_STRATEGY |-> Builder!Lowered(config.git.branch_strategy),
       BORING_GIT_TOKEN |-> Builder!Token]
<1>1. CASE config.git.repo = ""
  <2>1. DOMAIN Builder!GitEnv = {}
    <3>1. Builder!GitEnv = <<>>
      BY <1>1 DEF Builder!GitEnv
    <3>2. QED
      BY <3>1
  <2>2. QED
    BY <1>1, <2>1
<1>2. CASE config.git.repo # ""
  <2>1. Builder!GitEnv = Builder!Given(given)
    BY <1>2 DEF Builder!GitEnv
  <2>2. DOMAIN given = GitNames
    BY DEF GitNames
  <2>3. /\ given["BORING_GIT_REPO"] = config.git.repo
        /\ given["BORING_GIT_BASE_BRANCH"] = config.git.base_branch
        /\ given["BORING_GIT_BRANCH_STRATEGY"] = Builder!Lowered(config.git.branch_strategy)
        /\ given["BORING_GIT_TOKEN"] = Builder!Token
    OBVIOUS
  <2> HIDE DEF given
  <2>4. /\ DOMAIN Builder!GitEnv = {v \in DOMAIN given : given[v] # ""}
        /\ \A v \in DOMAIN Builder!GitEnv : Builder!GitEnv[v] = given[v] /\ given[v] # ""
    BY <2>1, GivenIs, Zenon
  <2>5. \A v : v \in DOMAIN Builder!GitEnv <=> v \in GitNames /\ given[v] # ""
    BY <2>2, <2>4, Zenon
  <2>6. /\ "BORING_GIT_REPO" \in GitNames /\ "BORING_GIT_BASE_BRANCH" \in GitNames
        /\ "BORING_GIT_BRANCH_STRATEGY" \in GitNames
    BY DEF GitNames
  <2>7. DOMAIN Builder!GitEnv \subseteq GitNames
    BY <2>5, Zenon
  <2>8. config.git.repo # "" =>
          /\ "BORING_GIT_REPO" \in DOMAIN Builder!GitEnv
          /\ config.git.base_branch # "" => "BORING_GIT_BASE_BRANCH" \in DOMAIN Builder!GitEnv
          /\ Builder!Lowered(config.git.branch_strategy) # "" =>
               "BORING_GIT_BRANCH_STRATEGY" \in DOMAIN Builder!GitEnv
    BY <2>3, <2>5, <2>6, Zenon
  <2>9. QED
    BY <1>2, <2>3, <2>4, <2>7, <2>8, Zenon
<1>3. QED
  BY <1>1, <1>2

LEMMA HatEnvIs ==
  /\ DOMAIN Builder!HatEnv = DOMAIN hat.env
  /\ \A v \in DOMAIN hat.env :
       /\ hat.env[v].secret = "" => Builder!HatEnv[v] = hat.env[v].literal
       /\ hat.env[v].secret # "" => Builder!HatEnv[v] = Builder!GetSecret(hat.env[v].secret)
BY DEF Builder!HatEnv

(* No secret that a hat asks for is missing from a job that is built. *)
LEMMA WantedAreThere ==
  ASSUME Builder!Buildable, NEW v \in DOMAIN hat.env, hat.env[v].secret # ""
  PROVE  Builder!GetSecret(hat.env[v].secret) \notin {"", "error"}
<1>1. hat.env[v].secret \in Builder!Wanted
  BY DEF Builder!Wanted
<1>2. QED
  BY <1>1 DEF Builder!Buildable, Builder!EnvResolved

LEMMA ChosenAre ==
  ASSUME Chosen
  PROVE  /\ config.broker.url # "error" /\ config.broker.pod_url # "error" /\ config.broker.stream # "error"
         /\ config.store.endpoint # "error" /\ config.store.bucket # "error"
         /\ config.store.prefix # "error"
         /\ config.git.repo # "error" /\ config.git.base_branch # "error"
         /\ Builder!Lowered(config.git.branch_strategy) # "error"
         /\ hat.default_publishes # "error" /\ Builder!PublishFirst # "error"
         /\ \A v \in DOMAIN hat.env : hat.env[v].literal # "error"
<1>1. config \in Builder!Config /\ Builder!IsHat(hat)
  BY BuilderAssumption DEF Chosen
<1>2. /\ config.broker \in [url : Builder!Names, pod_url : Builder!Names, stream : Builder!Names]
      /\ config.store \in [endpoint : Builder!Names, bucket : Builder!Names, prefix : Builder!Names]
      /\ config.git \in [repo : Builder!Names, base_branch : Builder!Names,
                         branch_strategy : {"", "Shared", "PerHat"}, credentials : STRING]
  BY <1>1 DEF Builder!Config
<1>3. \A x \in Builder!Names : x # "error"
  BY DEF Builder!Names
<1>4. /\ config.broker.url \in Builder!Names /\ config.broker.pod_url \in Builder!Names
      /\ config.broker.stream \in Builder!Names
      /\ config.store.endpoint \in Builder!Names /\ config.store.bucket \in Builder!Names
      /\ config.store.prefix \in Builder!Names
      /\ config.git.repo \in Builder!Names /\ config.git.base_branch \in Builder!Names
  BY <1>2
<1>5. hat.default_publishes \in Builder!Names
      /\ \A v \in DOMAIN hat.env : hat.env[v].literal \in Builder!Names
  BY <1>1 DEF Builder!IsHat
<1>6. Builder!PublishFirst # "error"
  <2>1. CASE hat.publishes = <<>>
    BY <2>1 DEF Builder!PublishFirst
  <2>2. CASE hat.publishes # <<>>
    <3>1. hat.publishes \in Seq(Builder!Names)
      BY <1>1 DEF Builder!IsHat
    <3>2. hat.publishes[1] \in Builder!Names
      BY <2>2, <3>1
    <3>3. QED
      BY <1>3, <2>2, <3>2 DEF Builder!PublishFirst
  <2>3. QED
    BY <2>1, <2>2
<1>7. Builder!Lowered(config.git.branch_strategy) # "error"
  BY DEF Builder!Lowered
<1>8. QED
  BY <1>3, <1>4, <1>5, <1>6, <1>7, Zenon

\* No failure ends up in a variable, and only a hat's own may be empty.
LEMMA BuiltEnvHasValues ==
  ASSUME Chosen, Builder!Buildable, NEW v \in DOMAIN Builder!BuiltEnv
  PROVE  /\ Builder!BuiltEnv[v] # "error"
         /\ Builder!BuiltEnv[v] = "" => v \in DOMAIN hat.env
<1>1. CASE v \in DOMAIN Builder!GitEnv
  <2>1. Builder!BuiltEnv[v] = Builder!GitEnv[v]
    BY <1>1, BuiltEnvIs, Zenon
  <2>2. config.git.repo # "" /\ Builder!GitEnv[v] # "" /\ v \in GitNames
    BY <1>1, GitEnvIs, Zenon
  <2>3. Builder!Token # "error"
    BY <2>2 DEF Builder!Buildable
  <2>4. v = "BORING_GIT_REPO" \/ v = "BORING_GIT_BASE_BRANCH"
        \/ v = "BORING_GIT_BRANCH_STRATEGY" \/ v = "BORING_GIT_TOKEN"
    BY <2>2 DEF GitNames
  <2>5. Builder!GitEnv[v] # "error"
    BY <1>1, <2>3, <2>4, ChosenAre, GitEnvIs, Zenon
  <2>6. QED
    BY <2>1, <2>2, <2>5
<1>2. CASE v \notin DOMAIN Builder!GitEnv /\ v \in DOMAIN Builder!HatEnv
  <2>1. Builder!BuiltEnv[v] = Builder!HatEnv[v] /\ v \in DOMAIN hat.env
    BY <1>2, BuiltEnvIs, HatEnvIs, Zenon
  <2>2. CASE hat.env[v].secret = ""
    BY <1>2, <2>1, <2>2, HatEnvIs, ChosenAre, Zenon
  <2>3. CASE hat.env[v].secret # ""
    <3>1. Builder!HatEnv[v] = Builder!GetSecret(hat.env[v].secret)
      BY <1>2, <2>3, HatEnvIs, Zenon
    <3>2. QED
      BY <2>1, <2>3, <3>1, WantedAreThere, Zenon
  <2>4. QED
    BY <2>2, <2>3
<1>3. CASE v \notin DOMAIN Builder!GitEnv /\ v \notin DOMAIN Builder!HatEnv
  <2>1. v \in DOMAIN Builder!ControllerEnv /\ Builder!BuiltEnv[v] = Builder!ControllerEnv[v]
    BY <1>3, BuiltEnvIs, Zenon
  <2>2. Builder!ControllerEnv[v] # "" /\ v \in ControllerNames
    BY <2>1, ControllerEnvIs, Zenon
  <2>3. /\ Builder!First(hat.default_publishes, Builder!PublishFirst) # "error"
        /\ Builder!BrokerUrl # "error" /\ Builder!Prompt # "error"
    BY ChosenAre DEF Builder!First, Builder!BrokerUrl, Builder!Prompt
  <2>4. \/ v = "BORING_RUN_ID" \/ v = "BORING_HAT_ID" \/ v = "BORING_EVENT_TOPIC"
        \/ v = "BORING_PROMPT" \/ v = "BORING_DEFAULT_PUBLISH" \/ v = "BORING_BROKER_URL"
        \/ v = "BORING_BROKER_STREAM" \/ v = "BORING_STORE_ENDPOINT"
        \/ v = "BORING_STORE_BUCKET" \/ v = "BORING_STORE_PREFIX"
    BY <2>2 DEF ControllerNames
  <2>5. /\ "run" # "error" /\ "hat" # "error" /\ "topic" # "error"
    OBVIOUS
  <2>6. Builder!ControllerEnv[v] # "error"
    BY <2>1, <2>3, <2>4, <2>5, ChosenAre, ControllerEnvIs, Zenon
  <2>7. QED
    BY <2>1, <2>2, <2>6
<1>4. QED
  BY <1>1, <1>2, <1>3

(***************************************************************************)
(* A job is built from what was chosen at the start, or it is not built;   *)
(* and an agent has read a job that was.                                   *)
(***************************************************************************)
BuiltSpec == [result |-> "built", env |-> Builder!BuiltEnv, command |-> Builder!Command]

BuilderInv ==
  /\ Chosen
  /\ \/ spec = Builder!Unbuilt
     \/ spec = [result |-> "error", env |-> <<>>, command |-> ""]
     \/ spec = BuiltSpec /\ Builder!Buildable
  /\ Builder!Started => spec.result = "built" /\ agent = Builder!AgentEnv

LEMMA ChoiceStays ==
  ASSUME UNCHANGED <<config, hat, vault, mode>>
  PROVE  Builder!BuiltEnv' = Builder!BuiltEnv /\ Builder!Command' = Builder!Command
         /\ (Builder!Buildable' <=> Builder!Buildable) /\ (Chosen => Chosen')
<1>1. config' = config /\ hat' = hat /\ vault' = vault /\ mode' = mode
  OBVIOUS
<1>2. \A name : Builder!GetSecret(name)' = Builder!GetSecret(name)
  BY <1>1 DEF Builder!GetSecret, Builder!SelectInSeq, Builder!Asked, Builder!Providers,
     Builder!EnvSecret, Builder!FileSecret, Builder!K8sSecret
<1>3. Builder!Token' = Builder!Token
  BY <1>1, <1>2 DEF Builder!Token
<1>4. Builder!GitEnv' = Builder!GitEnv
  BY <1>1, <1>3 DEF Builder!GitEnv, Builder!Lowered
<1>5. Builder!HatEnv' = Builder!HatEnv
  BY <1>1, <1>2 DEF Builder!HatEnv
<1>6. Builder!ControllerEnv' = Builder!ControllerEnv
  BY <1>1 DEF Builder!ControllerEnv, Builder!Prompt, Builder!First, Builder!PublishFirst, Builder!BrokerUrl
<1>7. Builder!BuiltEnv' = Builder!BuiltEnv
  BY <1>4, <1>5, <1>6 DEF Builder!BuiltEnv
<1>8. Builder!Command' = Builder!Command
  BY <1>1 DEF Builder!Command, Builder!First
<1>9. Builder!Wanted' = Builder!Wanted
  BY <1>1 DEF Builder!Wanted
<1>10. Builder!Buildable' <=> Builder!Buildable
  BY <1>1, <1>2, <1>3, <1>9 DEF Builder!Buildable, Builder!EnvResolved
<1>11. QED
  BY <1>1, <1>7, <1>8, <1>10 DEF Chosen

LEMMA AgentStays ==
  ASSUME UNCHANGED spec PROVE Builder!AgentEnv' = Builder!AgentEnv
BY DEF Builder!AgentEnv, Builder!Read, Builder!PodEnv

LEMMA BuilderInvInit ==
  ASSUME Builder!Init PROVE BuilderInv
BY DEF Builder!Init, BuilderInv, Chosen, Builder!Started

LEMMA BuilderInvStep ==
  ASSUME BuilderInv, Builder!Next \/ UNCHANGED builderVars PROVE BuilderInv'
<1>1. UNCHANGED <<config, hat, vault, mode>>
  BY DEF Builder!Next, Builder!Build, Builder!Start, Builder!Done, Builder!vars, builderVars
<1>2. Chosen' /\ BuiltSpec' = BuiltSpec /\ (Builder!Buildable' <=> Builder!Buildable)
  BY <1>1, ChoiceStays DEF BuilderInv, BuiltSpec
<1>3. CASE Builder!Build
  <2>1. ~Builder!Started /\ agent' = agent
    <3>1. spec.result # "built"
      BY <1>3 DEF Builder!Build, Builder!Unbuilt
    <3>2. QED
      BY <1>3, <3>1 DEF BuilderInv, Builder!Build
  <2>2. \/ spec' = [result |-> "error", env |-> <<>>, command |-> ""]
        \/ spec' = BuiltSpec /\ Builder!Buildable
    BY <1>3 DEF Builder!Build, BuiltSpec
  <2>3. QED
    BY <1>2, <2>1, <2>2 DEF BuilderInv, Builder!Started
<1>4. CASE Builder!Start
  <2>1. spec' = spec /\ spec.result = "built" /\ agent' = Builder!AgentEnv
    BY <1>4 DEF Builder!Start
  <2>2. Builder!AgentEnv' = Builder!AgentEnv
    BY <2>1, AgentStays
  <2>3. QED
    BY <1>2, <2>1, <2>2 DEF BuilderInv, Builder!Started, Builder!Unbuilt
<1>5. CASE UNCHANGED <<spec, agent>>
  <2>1. Builder!AgentEnv' = Builder!AgentEnv
    BY <1>5, AgentStays
  <2>2. QED
    BY <1>2, <1>5, <2>1 DEF BuilderInv, Builder!Started, Builder!Unbuilt
<1>6. QED
  BY <1>3, <1>4, <1>5 DEF Builder!Next, Builder!Done, Builder!vars, builderVars

(* What the agent reads is what was built, and the command. *)
LEMMA AgentReads ==
  ASSUME spec = BuiltSpec, NEW v, NEW default
  PROVE  /\ v = "BORING_COMMAND" => Builder!Read(v, default) = Builder!Command
         /\ v # "BORING_COMMAND" =>
              Builder!Read(v, default) = IF v \in DOMAIN Builder!BuiltEnv THEN Builder!BuiltEnv[v] ELSE default
<1> DEFINE last == [BORING_COMMAND |-> Builder!Command]
<1>1. Builder!PodEnv = Builder!Over(Builder!BuiltEnv, last)
  BY DEF Builder!PodEnv, BuiltSpec
<1>2. DOMAIN last = {"BORING_COMMAND"} /\ last["BORING_COMMAND"] = Builder!Command
  OBVIOUS
<1> HIDE DEF last
<1>3. /\ DOMAIN Builder!PodEnv = DOMAIN Builder!BuiltEnv \cup DOMAIN last
      /\ \A w \in DOMAIN Builder!BuiltEnv \cup DOMAIN last :
           Builder!PodEnv[w] = IF w \in DOMAIN last THEN last[w] ELSE Builder!BuiltEnv[w]
  BY <1>1, OverIs
<1>4. QED
  BY <1>2, <1>3 DEF Builder!Read

LEMMA NotBuilt ==
  /\ spec = Builder!Unbuilt => spec.env = <<>> /\ spec.result = "none"
  /\ spec = [result |-> "error", env |-> <<>>, command |-> ""] => spec.env = <<>> /\ spec.result = "error"
<1>1. ASSUME spec = Builder!Unbuilt PROVE spec.env = <<>> /\ spec.result = "none"
  BY <1>1 DEF Builder!Unbuilt
<1>2. ASSUME spec = [result |-> "error", env |-> <<>>, command |-> ""]
      PROVE  spec.env = <<>> /\ spec.result = "error"
  BY <1>2
<1>3. QED
  BY <1>1, <1>2, Zenon

LEMMA BuilderTypes ==
  ASSUME BuilderInv PROVE Builder!TypeOK
<1>1. CASE spec = Builder!Unbuilt \/ spec = [result |-> "error", env |-> <<>>, command |-> ""]
  <2>1. spec.env = <<>> /\ spec.result \in {"none", "error"}
    BY <1>1, NotBuilt
  <2>2. DOMAIN spec.env = {} /\ spec.result # "built"
    BY <2>1
  <2>3. QED
    BY <2>1, <2>2 DEF Builder!TypeOK
<1>2. CASE spec = BuiltSpec /\ Builder!Buildable
  <2>1. spec.env = Builder!BuiltEnv /\ spec.result = "built" /\ spec.command = Builder!Command
    BY <1>2 DEF BuiltSpec
  <2>2. Builder!Command # ""
    BY DEF Builder!Command, Builder!First
  <2>3. \A v \in DOMAIN spec.env :
          spec.env[v] # "error" /\ (spec.env[v] = "" => v \in DOMAIN hat.env)
    BY <1>2, <2>1, BuiltEnvHasValues DEF BuilderInv
  <2>4. QED
    BY <2>1, <2>2, <2>3 DEF Builder!TypeOK
<1>3. QED
  BY <1>1, <1>2 DEF BuilderInv

LEMMA WhatIsBuilt ==
  ASSUME BuilderInv, spec.result = "built"
  PROVE  /\ spec = BuiltSpec /\ Builder!Buildable
         /\ spec.env = Builder!BuiltEnv
<1>1. spec # Builder!Unbuilt /\ spec # [result |-> "error", env |-> <<>>, command |-> ""]
  BY NotBuilt
<1>2. spec = BuiltSpec /\ Builder!Buildable
  BY <1>1, Zenon DEF BuilderInv
<1>3. QED
  BY <1>2 DEF BuiltSpec

LEMMA SecretsAreThere ==
  ASSUME BuilderInv PROVE Builder!SecretsOrNoJob
<1> SUFFICES ASSUME spec.result = "built", NEW v \in DOMAIN hat.env \ DOMAIN Builder!GitEnv,
                    hat.env[v].secret # ""
             PROVE  v \in DOMAIN spec.env /\ Builder!SecretIs(hat.env[v].secret, spec.env[v])
  BY DEF Builder!SecretsOrNoJob
<1>1. Builder!Buildable /\ spec.env = Builder!BuiltEnv
  BY WhatIsBuilt
<1>2. Builder!GetSecret(hat.env[v].secret) \notin {"", "error"}
  BY <1>1, WantedAreThere
<1>3. v \in DOMAIN Builder!HatEnv /\ Builder!HatEnv[v] = Builder!GetSecret(hat.env[v].secret)
  BY <1>2, HatEnvIs, Zenon
<1>4. v \in DOMAIN Builder!BuiltEnv /\ Builder!BuiltEnv[v] = Builder!HatEnv[v]
  BY <1>3, BuiltEnvIs
<1>5. QED
  BY <1>1, <1>2, <1>3, <1>4, ChainAsksInOrder

(* A variable that is nobody else's comes from where it should. *)
LEMMA OwnVariable ==
  ASSUME NEW v, v \notin DOMAIN hat.env, v \notin GitNames
  PROVE  /\ v \in DOMAIN Builder!BuiltEnv <=> v \in DOMAIN Builder!ControllerEnv
         /\ v \in DOMAIN Builder!BuiltEnv => Builder!BuiltEnv[v] = Builder!ControllerEnv[v]
<1>1. v \notin DOMAIN Builder!HatEnv /\ v \notin DOMAIN Builder!GitEnv
  BY HatEnvIs, GitEnvIs, Zenon
<1>2. QED
  BY <1>1, BuiltEnvIs

LEMMA GitVariable ==
  ASSUME NEW v \in DOMAIN Builder!GitEnv
  PROVE  v \in DOMAIN Builder!BuiltEnv /\ Builder!BuiltEnv[v] = Builder!GitEnv[v]
BY BuiltEnvIs

LEMMA NotTheCommand ==
  /\ "BORING_BROKER_URL" # "BORING_COMMAND" /\ "BORING_BROKER_STREAM" # "BORING_COMMAND"
  /\ "BORING_STORE_ENDPOINT" # "BORING_COMMAND" /\ "BORING_STORE_BUCKET" # "BORING_COMMAND"
  /\ "BORING_GIT_BRANCH_STRATEGY" # "BORING_COMMAND"
  /\ "BORING_GIT_REPO" # "BORING_COMMAND" /\ "BORING_GIT_BASE_BRANCH" # "BORING_COMMAND"
OBVIOUS

LEMMA AgentIsRight ==
  ASSUME BuilderInv, Builder!Started
  PROVE  Builder!AgentFollowsConfig /\ Builder!AgentRunsCommand
<1>1. spec = BuiltSpec /\ agent = Builder!AgentEnv
  BY WhatIsBuilt DEF BuilderInv
<1>2. /\ agent.command = Builder!Read("BORING_COMMAND", "none")
      /\ agent.broker_url = Builder!Read("BORING_BROKER_URL", "nats://nats:4222")
      /\ agent.broker_stream = Builder!Read("BORING_BROKER_STREAM", "BORING")
      /\ agent.store_endpoint = Builder!Read("BORING_STORE_ENDPOINT", "http://rustfs:9000")
      /\ agent.store_bucket = Builder!Read("BORING_STORE_BUCKET", "borechestrator")
      /\ agent.git_branch_strategy = Builder!Read("BORING_GIT_BRANCH_STRATEGY", "shared")
      /\ agent.git_repo = Builder!Read("BORING_GIT_REPO", "none")
      /\ agent.git_base_branch = Builder!Read("BORING_GIT_BASE_BRANCH", "main")
  BY <1>1 DEF Builder!AgentEnv
<1>3. "BORING_BROKER_URL" \notin GitNames /\ "BORING_BROKER_STREAM" \notin GitNames
      /\ "BORING_STORE_ENDPOINT" \notin GitNames /\ "BORING_STORE_BUCKET" \notin GitNames
  BY DEF GitNames
<1>4. Builder!Mine("BORING_BROKER_STREAM") => agent.broker_stream = Builder!OwnStream
  <2> SUFFICES ASSUME "BORING_BROKER_STREAM" \notin DOMAIN hat.env
               PROVE  agent.broker_stream = Builder!OwnStream
    BY DEF Builder!Mine
  <2>1. agent.broker_stream = IF "BORING_BROKER_STREAM" \in DOMAIN Builder!BuiltEnv
                              THEN Builder!BuiltEnv["BORING_BROKER_STREAM"] ELSE "BORING"
    BY <1>1, <1>2, NotTheCommand, AgentReads, Zenon
  <2>2. /\ "BORING_BROKER_STREAM" \in DOMAIN Builder!ControllerEnv <=> config.broker.stream # ""
        /\ "BORING_BROKER_STREAM" \in DOMAIN Builder!ControllerEnv =>
             Builder!ControllerEnv["BORING_BROKER_STREAM"] = config.broker.stream
    BY ControllerEnvIs, Zenon
  <2>3. QED
    BY <1>3, <2>1, <2>2, OwnVariable DEF Builder!OwnStream, Builder!First
<1>5. Builder!Mine("BORING_BROKER_URL") /\ Builder!BrokerUrl # "" => agent.broker_url = Builder!BrokerUrl
  <2> SUFFICES ASSUME "BORING_BROKER_URL" \notin DOMAIN hat.env, Builder!BrokerUrl # ""
               PROVE  agent.broker_url = Builder!BrokerUrl
    BY DEF Builder!Mine
  <2>1. agent.broker_url = IF "BORING_BROKER_URL" \in DOMAIN Builder!BuiltEnv
                           THEN Builder!BuiltEnv["BORING_BROKER_URL"] ELSE "nats://nats:4222"
    BY <1>1, <1>2, NotTheCommand, AgentReads, Zenon
  <2>2. /\ "BORING_BROKER_URL" \in DOMAIN Builder!ControllerEnv
        /\ Builder!ControllerEnv["BORING_BROKER_URL"] = Builder!BrokerUrl
    BY ControllerEnvIs, Zenon
  <2>3. QED
    BY <1>3, <2>1, <2>2, OwnVariable
<1>6. Builder!Mine("BORING_STORE_ENDPOINT") /\ config.store.endpoint # "" =>
        agent.store_endpoint = config.store.endpoint
  <2> SUFFICES ASSUME "BORING_STORE_ENDPOINT" \notin DOMAIN hat.env, config.store.endpoint # ""
               PROVE  agent.store_endpoint = config.store.endpoint
    BY DEF Builder!Mine
  <2>1. agent.store_endpoint = IF "BORING_STORE_ENDPOINT" \in DOMAIN Builder!BuiltEnv
                               THEN Builder!BuiltEnv["BORING_STORE_ENDPOINT"] ELSE "http://rustfs:9000"
    BY <1>1, <1>2, NotTheCommand, AgentReads, Zenon
  <2>2. /\ "BORING_STORE_ENDPOINT" \in DOMAIN Builder!ControllerEnv
        /\ Builder!ControllerEnv["BORING_STORE_ENDPOINT"] = config.store.endpoint
    BY ControllerEnvIs, Zenon
  <2>3. QED
    BY <1>3, <2>1, <2>2, OwnVariable
<1>7. config.git.repo # "" => agent.git_repo = config.git.repo
  <2> SUFFICES ASSUME config.git.repo # "" PROVE agent.git_repo = config.git.repo
    OBVIOUS
  <2>1. agent.git_repo = IF "BORING_GIT_REPO" \in DOMAIN Builder!BuiltEnv
                         THEN Builder!BuiltEnv["BORING_GIT_REPO"] ELSE "none"
    BY <1>1, <1>2, NotTheCommand, AgentReads, Zenon
  <2>2. "BORING_GIT_REPO" \in DOMAIN Builder!GitEnv /\ Builder!GitEnv["BORING_GIT_REPO"] = config.git.repo
    BY GitEnvIs, Zenon
  <2>3. QED
    BY <2>1, <2>2, GitVariable
<1>8. config.git.repo # "" /\ config.git.base_branch # "" => agent.git_base_branch = config.git.base_branch
  <2> SUFFICES ASSUME config.git.repo # "", config.git.base_branch # ""
               PROVE  agent.git_base_branch = config.git.base_branch
    OBVIOUS
  <2>1. agent.git_base_branch = IF "BORING_GIT_BASE_BRANCH" \in DOMAIN Builder!BuiltEnv
                                THEN Builder!BuiltEnv["BORING_GIT_BASE_BRANCH"] ELSE "main"
    BY <1>1, <1>2, NotTheCommand, AgentReads, Zenon
  <2>2. /\ "BORING_GIT_BASE_BRANCH" \in DOMAIN Builder!GitEnv
        /\ Builder!GitEnv["BORING_GIT_BASE_BRANCH"] = config.git.base_branch
    BY GitEnvIs, Zenon
  <2>3. QED
    BY <2>1, <2>2, GitVariable
<1>9. Builder!Mine("BORING_STORE_BUCKET") /\ config.store.bucket # "" =>
        agent.store_bucket = config.store.bucket
  <2> SUFFICES ASSUME "BORING_STORE_BUCKET" \notin DOMAIN hat.env, config.store.bucket # ""
               PROVE  agent.store_bucket = config.store.bucket
    BY DEF Builder!Mine
  <2>1. agent.store_bucket = IF "BORING_STORE_BUCKET" \in DOMAIN Builder!BuiltEnv
                             THEN Builder!BuiltEnv["BORING_STORE_BUCKET"] ELSE "borechestrator"
    BY <1>1, <1>2, NotTheCommand, AgentReads, Zenon
  <2>2. /\ "BORING_STORE_BUCKET" \in DOMAIN Builder!ControllerEnv
        /\ Builder!ControllerEnv["BORING_STORE_BUCKET"] = config.store.bucket
    BY ControllerEnvIs, Zenon
  <2>3. QED
    BY <1>3, <2>1, <2>2, OwnVariable
<1>10. ASSUME config.git.repo # "",
              \/ config.git.branch_strategy = "Shared"
              \/ config.git.branch_strategy = "" /\ Builder!Mine("BORING_GIT_BRANCH_STRATEGY")
       PROVE  Builder!WorkBranch = "branch of the run"
  <2> DEFINE strategy == "BORING_GIT_BRANCH_STRATEGY"
  <2>1. agent.git_branch_strategy = IF strategy \in DOMAIN Builder!BuiltEnv
                                    THEN Builder!BuiltEnv[strategy] ELSE "shared"
    BY <1>1, <1>2, NotTheCommand, AgentReads, Zenon
  <2>2. CASE strategy \in DOMAIN Builder!GitEnv
    <3>1. Builder!BuiltEnv[strategy] = Builder!Lowered(config.git.branch_strategy)
      BY <2>2, GitVariable, GitEnvIs
    <3>2. Builder!GitEnv[strategy] # "" /\ Builder!GitEnv[strategy] = Builder!Lowered(config.git.branch_strategy)
      BY <2>2, GitEnvIs
    <3>3. Builder!Lowered(config.git.branch_strategy) = "shared"
      BY <1>10, <3>2 DEF Builder!Lowered
    <3> QED
      BY <2>1, <3>1, <3>3 DEF Builder!WorkBranch
  <2>3. CASE strategy \notin DOMAIN Builder!GitEnv
    <3>1. Builder!Lowered("Shared") # ""
      BY DEF Builder!Lowered
    <3>2. strategy \notin DOMAIN hat.env
      BY <1>10, <2>3, <3>1, GitEnvIs DEF Builder!Mine
    <3>3. strategy \notin DOMAIN Builder!ControllerEnv
      <4>1. strategy \notin ControllerNames
        BY DEF ControllerNames
      <4> QED
        BY <4>1, ControllerEnvIs
    <3>4. strategy \notin DOMAIN Builder!BuiltEnv
      BY <2>3, <3>2, <3>3, BuiltEnvIs, HatEnvIs
    <3> QED
      BY <2>1, <3>4 DEF Builder!WorkBranch
  <2> QED
    BY <2>2, <2>3
<1>11. Builder!AgentFollowsConfig
  BY <1>4, <1>5, <1>6, <1>7, <1>8, <1>9, <1>10
  DEF Builder!AgentFollowsConfig, Builder!BrokerUrl, Builder!First
<1>12. agent.command = Builder!Command
  BY <1>1, <1>2, AgentReads
<1>13. Builder!AgentRunsCommand
  BY <1>12 DEF Builder!AgentRunsCommand, Builder!Command, Builder!First
<1>14. QED
  BY <1>11, <1>13

(* Of any configuration and hat: no job is built without the secrets its   *)
(* hat asks for, each from the first provider that holds it; the agent     *)
(* reads the broker, the store and the repository that the configuration   *)
(* says, and runs the hat's command or else the backend.                   *)
THEOREM JobsAsConfiguredHolds == Spec => []JobsAsConfigured
<1> DEFINE Inv == part = "builder" => BuilderInv
<1>1. Init => Inv
  BY BuilderInvInit DEF Init
<1>2. Inv /\ [Next]_vars => Inv'
  <2> SUFFICES ASSUME Inv, [Next]_vars, part' = "builder" PROVE BuilderInv'
    OBVIOUS
  <2>1. CASE UNCHANGED vars
    BY <2>1, BuilderInvStep DEF vars
  <2>2. CASE Building /\ Builder!Next
    BY <2>2, BuilderInvStep DEF Building
  <2>3. CASE Next /\ ~(Building /\ Builder!Next)
    BY <2>3 DEF Next, Launching, Running
  <2>4. QED
    BY <2>1, <2>2, <2>3
<1>3. Inv => JobsAsConfigured
  <2> SUFFICES ASSUME BuilderInv
               PROVE  /\ Builder!TypeOK /\ Builder!SecretsOrNoJob
                      /\ Builder!AgentFollowsConfig /\ Builder!AgentRunsCommand
    BY DEF JobsAsConfigured
  <2>1. CASE ~Builder!Started
    BY <2>1, BuilderTypes, SecretsAreThere DEF Builder!AgentFollowsConfig, Builder!AgentRunsCommand
  <2>2. CASE Builder!Started
    BY <2>2, BuilderTypes, SecretsAreThere, AgentIsRight
  <2>3. QED
    BY <2>1, <2>2
<1>4. QED
  BY <1>1, <1>2, <1>3, PTL DEF Spec

-----------------------------------------------------------------------------
(***************************************************************************)
(* The presets, read from their tables: what wakes a hat, and what may     *)
(* come of it.                                                             *)
(***************************************************************************)
Wakes(preset, topic) == {h \in DOMAIN preset.hats : topic \in preset.hats[h].triggers}
Says(preset, h) == preset.hats[h].may \ {P!Nothing}

Word(a) == a \notin {"*", ">", "_system"}
Exact(p) == \E a, b : p = <<a, b>> /\ Word(a) /\ Word(b)
Topical(t) == Exact(t) \/ \E a : t = <<a>>

Legible(preset) ==
  /\ Exact(preset.start) /\ Wakes(preset, preset.start) # {}
  /\ preset.limit \in Nat /\ \A gate \in preset.gates : "true" \in gate
  /\ \A h \in DOMAIN preset.hats :
       /\ preset.hats[h].triggers # {}
       /\ \A p \in preset.hats[h].triggers : Exact(p)
       /\ \A t \in preset.hats[h].may : Topical(t)
       /\ preset.hats[h].publishes # <<>> => Head(preset.hats[h].publishes) \in Says(preset, h)

Spreads(preset) ==
  \A hats \in SUBSET DOMAIN preset.hats :
    /\ Wakes(preset, preset.start) \subseteq hats
    /\ \A k \in hats : \A t \in Says(preset, k) : Wakes(preset, t) \subseteq hats
    => DOMAIN preset.hats \subseteq hats

ReachesPromise(preset) ==
  \A hats \in SUBSET DOMAIN preset.hats :
    (\A k \in DOMAIN preset.hats :
        P!Promise \in Says(preset, k) \/ (\E t \in Says(preset, k) : Wakes(preset, t) \cap hats # {})
        => k \in hats)
    => DOMAIN preset.hats \subseteq hats

NoDeadEnd(preset) ==
  \A k \in DOMAIN preset.hats :
    /\ P!Nothing \notin preset.hats[k].may
    /\ \A t \in Says(preset, k) : t = P!Promise \/ Wakes(preset, t) # {}

Apart(preset) ==
  \A h, k \in DOMAIN preset.hats :
    h # k => preset.hats[h].triggers \cap preset.hats[k].triggers = {}

ThreeAtMost(preset) ==
  \A t : \E a, b, c : Wakes(preset, t) \subseteq {a, b, c}

LEMMA PromiseIsSomething == P!Promise # P!Nothing
BY DEF P!Promise, P!Nothing

LEMMA MinimalIs ==
  Legible(P!Minimal) /\ Spreads(P!Minimal) /\ ReachesPromise(P!Minimal) /\ NoDeadEnd(P!Minimal) /\ Apart(P!Minimal)
<1> USE DEF P!Minimal, P!Preset, P!Hat, P!Promise, P!Nothing, Wakes, Says, Word, Exact, Topical
<1>1. Legible(P!Minimal)
  BY DEF Legible
<1>2. Spreads(P!Minimal)
  BY DEF Spreads
<1>3. ReachesPromise(P!Minimal)
  BY DEF ReachesPromise
<1>4. NoDeadEnd(P!Minimal)
  BY PromiseIsSomething DEF NoDeadEnd
<1>5. Apart(P!Minimal)
  BY DEF Apart
<1> HIDE DEF P!Minimal
<1>6. QED
  BY <1>1, <1>2, <1>3, <1>4, <1>5

LEMMA FeatureIs ==
  Legible(P!Feature) /\ Spreads(P!Feature) /\ ReachesPromise(P!Feature) /\ NoDeadEnd(P!Feature) /\ Apart(P!Feature)
<1> USE DEF P!Feature, P!Preset, P!Hat, P!Promise, P!Nothing, Wakes, Says, Word, Exact, Topical
<1>1. Legible(P!Feature)
  BY DEF Legible
<1>2. Spreads(P!Feature)
  BY DEF Spreads
<1>3. ReachesPromise(P!Feature)
  BY DEF ReachesPromise
<1>4. NoDeadEnd(P!Feature)
  BY PromiseIsSomething DEF NoDeadEnd
<1>5. Apart(P!Feature)
  BY DEF Apart
<1> HIDE DEF P!Feature
<1>6. QED
  BY <1>1, <1>2, <1>3, <1>4, <1>5

LEMMA TddIs ==
  Legible(P!Tdd) /\ Spreads(P!Tdd) /\ ReachesPromise(P!Tdd) /\ NoDeadEnd(P!Tdd) /\ Apart(P!Tdd)
<1> USE DEF P!Tdd, P!Preset, P!Hat, P!Promise, P!Nothing, Wakes, Says, Word, Exact, Topical
<1>1. Legible(P!Tdd)
  BY DEF Legible
<1>2. Spreads(P!Tdd)
  BY DEF Spreads
<1>3. ReachesPromise(P!Tdd)
  BY DEF ReachesPromise
<1>4. NoDeadEnd(P!Tdd)
  BY PromiseIsSomething DEF NoDeadEnd
<1>5. Apart(P!Tdd)
  BY DEF Apart
<1> HIDE DEF P!Tdd
<1>6. QED
  BY <1>1, <1>2, <1>3, <1>4, <1>5

LEMMA ResearchIs ==
  Legible(P!Research) /\ Spreads(P!Research) /\ ReachesPromise(P!Research) /\ NoDeadEnd(P!Research) /\ Apart(P!Research)
<1> USE DEF P!Research, P!Preset, P!Hat, P!Promise, P!Nothing, Wakes, Says, Word, Exact, Topical
<1>1. Legible(P!Research)
  BY DEF Legible
<1>2. Spreads(P!Research)
  BY DEF Spreads
<1>3. ReachesPromise(P!Research)
  BY DEF ReachesPromise
<1>4. NoDeadEnd(P!Research)
  BY PromiseIsSomething DEF NoDeadEnd
<1>5. Apart(P!Research)
  BY DEF Apart
<1> HIDE DEF P!Research
<1>6. QED
  BY <1>1, <1>2, <1>3, <1>4, <1>5

LEMMA DebugIs ==
  Legible(P!Debug) /\ Spreads(P!Debug) /\ ReachesPromise(P!Debug) /\ NoDeadEnd(P!Debug) /\ Apart(P!Debug)
<1> USE DEF P!Debug, P!Preset, P!Hat, P!Promise, P!Nothing, Wakes, Says, Word, Exact, Topical
<1>1. Legible(P!Debug)
  BY DEF Legible
<1>2. Spreads(P!Debug)
  BY DEF Spreads
<1>3. ReachesPromise(P!Debug)
  BY DEF ReachesPromise
<1>4. NoDeadEnd(P!Debug)
  BY PromiseIsSomething DEF NoDeadEnd
<1>5. Apart(P!Debug)
  BY DEF Apart
<1> HIDE DEF P!Debug
<1>6. QED
  BY <1>1, <1>2, <1>3, <1>4, <1>5

LEMMA ReviewIs ==
  Legible(P!Review) /\ Spreads(P!Review) /\ ReachesPromise(P!Review) /\ NoDeadEnd(P!Review) /\ Apart(P!Review)
<1> USE DEF P!Review, P!Preset, P!Hat, P!Promise, P!Nothing, Wakes, Says, Word, Exact, Topical
<1>1. Legible(P!Review)
  BY DEF Legible
<1>2. Spreads(P!Review)
  BY DEF Spreads
<1>3. ReachesPromise(P!Review)
  BY DEF ReachesPromise
<1>4. NoDeadEnd(P!Review)
  BY PromiseIsSomething DEF NoDeadEnd
<1>5. Apart(P!Review)
  BY DEF Apart
<1> HIDE DEF P!Review
<1>6. QED
  BY <1>1, <1>2, <1>3, <1>4, <1>5

LEMMA SpecDrivenIs ==
  Legible(P!SpecDriven) /\ Spreads(P!SpecDriven) /\ ReachesPromise(P!SpecDriven) /\ NoDeadEnd(P!SpecDriven) /\ Apart(P!SpecDriven)
<1> USE DEF P!SpecDriven, P!Preset, P!Hat, P!Promise, P!Nothing, Wakes, Says, Word, Exact, Topical
<1>1. Legible(P!SpecDriven)
  BY DEF Legible
<1>2. Spreads(P!SpecDriven)
  BY DEF Spreads
<1>3. ReachesPromise(P!SpecDriven)
  BY DEF ReachesPromise
<1>4. NoDeadEnd(P!SpecDriven)
  BY PromiseIsSomething DEF NoDeadEnd
<1>5. Apart(P!SpecDriven)
  BY DEF Apart
<1> HIDE DEF P!SpecDriven
<1>6. QED
  BY <1>1, <1>2, <1>3, <1>4, <1>5

LEMMA MobIs ==
  Legible(P!Mob) /\ Spreads(P!Mob) /\ ReachesPromise(P!Mob) /\ NoDeadEnd(P!Mob) /\ Apart(P!Mob)
<1> USE DEF P!Mob, P!Preset, P!Hat, P!Promise, P!Nothing, Wakes, Says, Word, Exact, Topical
<1>1. Legible(P!Mob)
  BY DEF Legible
<1>2. Spreads(P!Mob)
  BY DEF Spreads
<1>3. ReachesPromise(P!Mob)
  BY DEF ReachesPromise
<1>4. NoDeadEnd(P!Mob)
  BY PromiseIsSomething DEF NoDeadEnd
<1>5. Apart(P!Mob)
  BY DEF Apart
<1> HIDE DEF P!Mob
<1>6. QED
  BY <1>1, <1>2, <1>3, <1>4, <1>5

LEMMA RefactorIs ==
  Legible(P!Refactor) /\ Spreads(P!Refactor) /\ Apart(P!Refactor)
<1> USE DEF P!Refactor, P!Preset, P!Hat, P!Promise, P!Nothing, Wakes, Says, Word, Exact, Topical
<1>1. Legible(P!Refactor)
  <2>1. Exact(P!Refactor.start) /\ Wakes(P!Refactor, P!Refactor.start) # {}
    OBVIOUS
  <2>2. P!Refactor.limit \in Nat /\ \A gate \in P!Refactor.gates : "true" \in gate
    OBVIOUS
  <2>3. ASSUME NEW h \in DOMAIN P!Refactor.hats
        PROVE  /\ P!Refactor.hats[h].triggers # {}
               /\ \A p \in P!Refactor.hats[h].triggers : Exact(p)
               /\ \A t \in P!Refactor.hats[h].may : Topical(t)
               /\ P!Refactor.hats[h].publishes # <<>> =>
                    Head(P!Refactor.hats[h].publishes) \in Says(P!Refactor, h)
    OBVIOUS
  <2>4. QED
    BY <2>1, <2>2, <2>3 DEF Legible
<1>2. Spreads(P!Refactor)
  BY DEF Spreads
<1>3. Apart(P!Refactor)
  BY DEF Apart
<1> HIDE DEF P!Refactor
<1>4. QED
  BY <1>1, <1>2, <1>3

LEMMA PrReviewIs ==
  Legible(P!PrReview) /\ Spreads(P!PrReview) /\ ReachesPromise(P!PrReview) /\ NoDeadEnd(P!PrReview) /\ ThreeAtMost(P!PrReview)
<1> USE DEF P!PrReview, P!Reviewer, P!Preset, P!Hat, P!Promise, P!Nothing, Wakes, Says, Word, Exact, Topical
<1>1. Legible(P!PrReview)
  BY DEF Legible
<1>2. Spreads(P!PrReview)
  BY DEF Spreads
<1>3. ReachesPromise(P!PrReview)
  BY DEF ReachesPromise
<1>4. NoDeadEnd(P!PrReview)
  BY PromiseIsSomething DEF NoDeadEnd
<1>5. ThreeAtMost(P!PrReview)
  <2> SUFFICES ASSUME NEW t
               PROVE  \E a, b, c : Wakes(P!PrReview, t) \subseteq {a, b, c}
    BY DEF ThreeAtMost
  <2>1. CASE t = <<"review", "start">>
    <3>1. Wakes(P!PrReview, t) \subseteq {"correctness", "security", "quality"}
      BY <2>1
    <3> HIDE DEF Wakes, P!PrReview
    <3>2. QED
      BY <3>1
  <2>2. CASE t # <<"review", "start">>
    <3>1. Wakes(P!PrReview, t) \subseteq {"synthesizer"}
      BY <2>2
    <3>2. QED
      BY <3>1
  <2>3. QED
    BY <2>1, <2>2
<1> HIDE DEF P!PrReview
<1>6. QED
  BY <1>1, <1>2, <1>3, <1>4, <1>5

LEMMA DocsIs ==
  Legible(P!Docs) /\ Spreads(P!Docs) /\ ReachesPromise(P!Docs) /\ NoDeadEnd(P!Docs) /\ Apart(P!Docs)
<1> USE DEF P!Docs, P!Preset, P!Hat, P!Promise, P!Nothing, Wakes, Says, Word, Exact, Topical
<1>1. Legible(P!Docs)
  BY DEF Legible
<1>2. Spreads(P!Docs)
  BY DEF Spreads
<1>3. ReachesPromise(P!Docs)
  BY DEF ReachesPromise
<1>4. NoDeadEnd(P!Docs)
  BY PromiseIsSomething DEF NoDeadEnd
<1>5. Apart(P!Docs)
  BY DEF Apart
<1> HIDE DEF P!Docs
<1>6. QED
  BY <1>1, <1>2, <1>3, <1>4, <1>5

LEMMA DeployIs ==
  Legible(P!Deploy) /\ Spreads(P!Deploy) /\ Apart(P!Deploy)
<1> USE DEF P!Deploy, P!Preset, P!Hat, P!Promise, P!Nothing, Wakes, Says, Word, Exact, Topical
<1>1. Legible(P!Deploy)
  BY DEF Legible
<1>2. Spreads(P!Deploy)
  BY DEF Spreads
<1>3. Apart(P!Deploy)
  BY DEF Apart
<1> HIDE DEF P!Deploy
<1>4. QED
  BY <1>1, <1>2, <1>3

-----------------------------------------------------------------------------
(***************************************************************************)
(* A trigger without wildcards matches its own topic and no other.         *)
(***************************************************************************)
IsRest(f, p, s) ==
  f = [i \in Nat |->
        IF i > Len(p) \/ i > Len(s)
        THEN i > Len(p) /\ i > Len(s)
        ELSE \/ p[i] = ">"
             \/ p[i] \in {"*", s[i]} /\ f[i + 1]]

RestOf(p, s) == CHOOSE f : IsRest(f, p, s)

LEMMA MatchesIsRest ==
  ASSUME NEW p, NEW s
  PROVE  AnyPreset!Router!Matches(p, s) = (p # <<"">> /\ RestOf(p, s)[1])
BY DEF AnyPreset!Router!Matches, AnyPreset!Router!IsEmptyPattern, AnyPreset!Router!Chevron,
       AnyPreset!Router!Star, RestOf, IsRest

\* The rest from segment i on, without recursion.
SameFrom(p, s, i) ==
  IF i > Len(p) \/ i > Len(s)
  THEN i > Len(p) /\ i > Len(s)
  ELSE Len(p) = Len(s) /\ \A k \in i..Len(p) : p[k] = s[k]

LEMMA RestIsThere ==
  ASSUME NEW p, NEW s, Len(p) \in Nat, Len(s) \in Nat,
         \A i \in 1..Len(p) : p[i] \notin {"*", ">"}
  PROVE  IsRest(RestOf(p, s), p, s)
<1> DEFINE Zero == p[0] = ">" \/ (p[0] \in {"*", s[0]} /\ SameFrom(p, s, 1))
           f == [i \in Nat |-> IF i = 0 THEN Zero ELSE SameFrom(p, s, i)]
           Body(i) == IF i > Len(p) \/ i > Len(s)
                      THEN i > Len(p) /\ i > Len(s)
                      ELSE p[i] = ">" \/ (p[i] \in {"*", s[i]} /\ f[i + 1])
<1>1. \A i \in Nat : f[i + 1] = SameFrom(p, s, i + 1)
  OBVIOUS
<1> HIDE DEF f
<1>2. ASSUME NEW i \in Nat \ {0} PROVE SameFrom(p, s, i) = Body(i)
  <2>1. CASE i > Len(p) \/ i > Len(s)
    BY <2>1 DEF SameFrom
  <2>2. CASE ~(i > Len(p) \/ i > Len(s))
    <3>1. SameFrom(p, s, i) \in BOOLEAN
      BY DEF SameFrom
    <3>2. p[i] \notin {"*", ">"}
      BY <2>2
    <3>3. SameFrom(p, s, i) <=> p[i] = s[i] /\ SameFrom(p, s, i + 1)
      BY <2>2 DEF SameFrom
    <3>4. f[i + 1] = SameFrom(p, s, i + 1)
      BY <1>1
    <3>5. QED
      BY <2>2, <3>1, <3>2, <3>3, <3>4
  <2>3. QED
    BY <2>1, <2>2
<1>3. Zero = Body(0)
  BY <1>1 
<1>4. f = [i \in Nat |-> Body(i)]
  <2> HIDE DEF Zero, Body
  <2>1. \A i \in Nat : (IF i = 0 THEN Zero ELSE SameFrom(p, s, i)) = Body(i)
    BY <1>2, <1>3
  <2>2. QED
    BY <2>1, Zenon DEF f
<1>5. IsRest(f, p, s)
  BY <1>4 DEF IsRest
<1>6. QED
  BY <1>5 DEF RestOf

LEMMA MatchesItself ==
  ASSUME NEW p, NEW t, Exact(p), Topical(t)
  PROVE  AnyPreset!Router!Matches(p, t) <=> p = t
<1> DEFINE R == RestOf(p, t)
<1>1. PICK a, b : p = <<a, b>> /\ Word(a) /\ Word(b)
  BY DEF Exact
<1>0. p # <<"">>
  BY <1>1
<1>2. Len(p) \in Nat /\ Len(p) = 2 /\ Len(t) \in Nat /\ 1 <= Len(t) /\ Len(t) <= 2
  BY <1>1 DEF Topical, Exact
<1>3. \A i \in 1..Len(p) : p[i] \notin {"*", ">"}
  BY <1>1, <1>2 DEF Word
<1>4. IsRest(R, p, t)
  <2>1. Len(p) \in Nat /\ Len(t) \in Nat
    BY <1>2
  <2>2. QED
    BY <1>3, <2>1, RestIsThere
<1> HIDE DEF R
<1>5. \A i \in Nat : R[i] = IF i > Len(p) \/ i > Len(t)
                            THEN i > Len(p) /\ i > Len(t)
                            ELSE p[i] = ">" \/ (p[i] \in {"*", t[i]} /\ R[i + 1])
  <2>1. R = [i \in Nat |-> IF i > Len(p) \/ i > Len(t)
                           THEN i > Len(p) /\ i > Len(t)
                           ELSE p[i] = ">" \/ (p[i] \in {"*", t[i]} /\ R[i + 1])]
    BY <1>4, Zenon DEF IsRest
  <2>2. QED
    BY <2>1, Zenon
<1>6. R[3]
  <2>1. R[3] = IF 3 > Len(p) \/ 3 > Len(t)
               THEN 3 > Len(p) /\ 3 > Len(t)
               ELSE p[3] = ">" \/ (p[3] \in {"*", t[3]} /\ R[3 + 1])
    BY <1>5
  <2>2. 3 > Len(p) /\ 3 > Len(t)
    BY <1>2
  <2>3. QED
    BY <2>1, <2>2, Zenon
<1>7. R[2] <=> Len(t) = 2 /\ p[2] = t[2]
  <2>1. R[2] = IF 2 > Len(p) \/ 2 > Len(t)
               THEN 2 > Len(p) /\ 2 > Len(t)
               ELSE p[2] = ">" \/ (p[2] \in {"*", t[2]} /\ R[3])
    BY <1>5
  <2>2. p[2] \notin {"*", ">"}
    BY <1>2, <1>3
  <2>3. ~(2 > Len(p)) /\ (2 > Len(t) <=> Len(t) < 2)
    BY <1>2
  <2>4. R[2] <=> ~(2 > Len(t)) /\ p[2] = t[2] /\ R[3]
    BY <2>1, <2>2, <2>3, Zenon
  <2>5. ~(2 > Len(t)) <=> Len(t) = 2
    BY <1>2
  <2>6. QED
    BY <1>6, <2>4, <2>5, Zenon
<1>8. R[1] <=> Len(t) = 2 /\ p[1] = t[1] /\ p[2] = t[2]
  <2>1. R[1] = IF 1 > Len(p) \/ 1 > Len(t)
               THEN 1 > Len(p) /\ 1 > Len(t)
               ELSE p[1] = ">" \/ (p[1] \in {"*", t[1]} /\ R[2])
    BY <1>5
  <2>2. p[1] \notin {"*", ">"}
    BY <1>2, <1>3
  <2>3. ~(1 > Len(p)) /\ (1 > Len(t) <=> Len(t) < 1)
    BY <1>2
  <2>4. R[1] <=> ~(1 > Len(t)) /\ p[1] = t[1] /\ R[2]
    BY <2>1, <2>2, <2>3, Zenon
  <2>5. QED
    BY <1>2, <1>7, <2>4
<1>9. AnyPreset!Router!Matches(p, t) = R[1]
  <2>1. AnyPreset!Router!Matches(p, t) = (p # <<"">> /\ RestOf(p, t)[1])
    BY MatchesIsRest
  <2>2. R[1] \in BOOLEAN
    BY <1>5
  <2>3. QED
    BY <1>0, <2>1, <2>2 DEF R
<1>10. CASE Len(t) = 2
  <2>1. PICK c, d : t = <<c, d>>
    BY <1>10 DEF Topical, Exact
  <2>2. QED
    BY <1>1, <1>8, <1>9, <1>10, <2>1
<1>11. CASE Len(t) # 2
  BY <1>2, <1>8, <1>9, <1>11
<1>12. QED
  BY <1>10, <1>11

(* The instances of PresetRun have the same table. *)
LEMMA TablesAgree ==
  AnyPreset!Table = P!Table /\ Sound!Table = P!Table /\ Single!Table = P!Table
<1>1. AnyPreset!Table = P!Table
  BY DEF AnyPreset!Table, AnyPreset!Minimal, AnyPreset!Feature, AnyPreset!Tdd,
         AnyPreset!Research, AnyPreset!Debug, AnyPreset!Review, AnyPreset!SpecDriven,
         AnyPreset!Mob, AnyPreset!Refactor, AnyPreset!PrReview, AnyPreset!Docs,
         AnyPreset!Deploy, AnyPreset!Reviewer, AnyPreset!Preset, AnyPreset!Hat,
         AnyPreset!Promise, AnyPreset!Nothing, P!Table, P!Minimal, P!Feature, P!Tdd,
         P!Research, P!Debug, P!Review, P!SpecDriven, P!Mob, P!Refactor, P!PrReview, P!Docs,
         P!Deploy, P!Reviewer, P!Preset, P!Hat, P!Promise, P!Nothing
<1>2. Sound!Table = P!Table
  BY DEF Sound!Table, Sound!Minimal, Sound!Feature, Sound!Tdd, Sound!Research, Sound!Debug,
         Sound!Review, Sound!SpecDriven, Sound!Mob, Sound!Refactor, Sound!PrReview,
         Sound!Docs, Sound!Deploy, Sound!Reviewer, Sound!Preset, Sound!Hat, Sound!Promise,
         Sound!Nothing, P!Table, P!Minimal, P!Feature, P!Tdd, P!Research, P!Debug, P!Review,
         P!SpecDriven, P!Mob, P!Refactor, P!PrReview, P!Docs, P!Deploy, P!Reviewer, P!Preset,
         P!Hat, P!Promise, P!Nothing
<1>3. Single!Table = P!Table
  BY DEF Single!Table, Single!Minimal, Single!Feature, Single!Tdd, Single!Research,
         Single!Debug, Single!Review, Single!SpecDriven, Single!Mob, Single!Refactor,
         Single!PrReview, Single!Docs, Single!Deploy, Single!Reviewer, Single!Preset,
         Single!Hat, Single!Promise, Single!Nothing, P!Table, P!Minimal, P!Feature, P!Tdd,
         P!Research, P!Debug, P!Review, P!SpecDriven, P!Mob, P!Refactor, P!PrReview, P!Docs,
         P!Deploy, P!Reviewer, P!Preset, P!Hat, P!Promise, P!Nothing
<1>4. QED
  BY <1>1, <1>2, <1>3

(* So what a topic wakes can be read off the preset's table. *)
LEMMA PresetsAre ==
  \A name \in DOMAIN P!Table :
    LET preset == P!Table[name]
    IN  /\ Legible(preset) /\ Spreads(preset)
        /\ name \notin {"refactor", "deploy"} => ReachesPromise(preset) /\ NoDeadEnd(preset)
        /\ IF name = "pr_review" THEN ThreeAtMost(preset) ELSE Apart(preset)
<1> SUFFICES ASSUME NEW name \in DOMAIN P!Table
             PROVE  /\ Legible(P!Table[name]) /\ Spreads(P!Table[name])
                    /\ name \notin {"refactor", "deploy"} =>
                         ReachesPromise(P!Table[name]) /\ NoDeadEnd(P!Table[name])
                    /\ IF name = "pr_review" THEN ThreeAtMost(P!Table[name]) ELSE Apart(P!Table[name])
  OBVIOUS
<1>1. QED
  BY MinimalIs, FeatureIs, TddIs, ResearchIs, DebugIs, ReviewIs, SpecDrivenIs, MobIs, RefactorIs,
     PrReviewIs, DocsIs, DeployIs DEF P!Table

LEMMA WokenAre ==
  ASSUME file \in DOMAIN P!Table, NEW t, Topical(t)
  PROVE  AnyPreset!Woken(t) = Wakes(P!Table[file], t)
<1> DEFINE preset == P!Table[file]
<1>1. Legible(preset)
  BY PresetsAre
<1>2. ASSUME NEW h \in DOMAIN preset.hats
      PROVE  {p \in preset.hats[h].triggers : AnyPreset!Router!Matches(p, t)} # {}
               <=> t \in preset.hats[h].triggers
  BY <1>1, MatchesItself DEF Legible
<1>3. \A h \in DOMAIN preset.hats : t \in preset.hats[h].triggers => ~AnyPreset!Router!IsSystem(t)
  BY <1>1 DEF Legible, Exact, Word, AnyPreset!Router!IsSystem
<1>4. AnyPreset!Woken(t) = {h \in DOMAIN preset.hats :
        /\ ~AnyPreset!Router!IsSystem(t)
        /\ {p \in preset.hats[h].triggers : AnyPreset!Router!Matches(p, t)} # {}}
  BY TablesAgree DEF AnyPreset!Woken, AnyPreset!Event, AnyPreset!NoTarget, AnyPreset!HatsHere,
         AnyPreset!Here, AnyPreset!Router!Interested, AnyPreset!Router!MatchingTriggers
<1>5. QED
  BY <1>2, <1>3, <1>4 DEF Wakes

LEMMA MatchersAgree ==
  \A p, t : /\ Sound!Router!Matches(p, t) = AnyPreset!Router!Matches(p, t)
           /\ Single!Router!Matches(p, t) = AnyPreset!Router!Matches(p, t)
BY DEF AnyPreset!Router!Matches, AnyPreset!Router!IsEmptyPattern, AnyPreset!Router!Chevron, AnyPreset!Router!Star,
       Sound!Router!Matches, Sound!Router!IsEmptyPattern, Sound!Router!Chevron, Sound!Router!Star,
       Single!Router!Matches, Single!Router!IsEmptyPattern, Single!Router!Chevron, Single!Router!Star

LEMMA InstancesAgree ==
  \A t : Sound!Woken(t) = AnyPreset!Woken(t) /\ Single!Woken(t) = AnyPreset!Woken(t)
BY MatchersAgree, TablesAgree DEF
    AnyPreset!Woken, AnyPreset!Event, AnyPreset!NoTarget, AnyPreset!HatsHere, AnyPreset!Here,
    AnyPreset!Router!Interested, AnyPreset!Router!MatchingTriggers, AnyPreset!Router!IsSystem,
    Sound!Woken, Sound!Event, Sound!NoTarget, Sound!HatsHere, Sound!Here,
    Sound!Router!Interested, Sound!Router!MatchingTriggers, Sound!Router!IsSystem,
    Single!Woken, Single!Event, Single!NoTarget, Single!HatsHere, Single!Here,
    Single!Router!Interested, Single!Router!MatchingTriggers, Single!Router!IsSystem

(***************************************************************************)
(* What a step of a run does, whichever the instance.                      *)
(***************************************************************************)
Preset == P!Table[file]
Vocabulary == {Preset.start} \cup UNION {Says(Preset, h) : h \in DOMAIN Preset.hats}
Message(t) == [topic |-> t, target |-> "none"]
Messages == {Message(t) : t \in Vocabulary}
Listings(S) == {order \in [1..Cardinality(S) -> S] :
                  \A i, j \in 1..Cardinality(S) : order[i] = order[j] => i = j}

Written(asked) ==
  /\ phase = "init"
  /\ \/ file' \in asked \cap DOMAIN P!Table /\ phase' = "validate"
     \/ file' = file /\ phase' = "refused"
  /\ UNCHANGED <<queue, batch, jobs, broken>>

Validated ==
  /\ phase = "validate"
  /\ phase' = "running" /\ queue' = <<Message(Preset.start)>>
  /\ UNCHANGED <<file, batch, jobs, broken>>

Taken(limit) ==
  /\ phase = "running" /\ batch = <<>> /\ jobs < limit
  /\ queue # <<>> /\ Head(queue).topic # P!Promise
  /\ batch' \in Listings(Wakes(Preset, Head(queue).topic))
  /\ queue' = Tail(queue)
  /\ UNCHANGED <<phase, file, jobs, broken>>

Worked(silence) ==
  /\ phase = "running" /\ batch # <<>>
  /\ batch' = Tail(batch) /\ jobs' = jobs + 1
  /\ \E puts \in Seq(Messages) :
       /\ queue' = queue \o puts
       /\ puts = <<>> => silence \/ P!Nothing \in Preset.hats[Head(batch)].may
  /\ broken' \in BOOLEAN
  /\ UNCHANGED <<phase, file>>

Stopped ==
  /\ phase = "running" /\ batch = <<>>
  /\ phase' \in {"completed", "exhausted", "timed out"}
  /\ queue' = queue \/ (queue # <<>> /\ queue' = Tail(queue))
  /\ UNCHANGED <<file, batch, jobs, broken>>

StepIs(asked, silence, limit) ==
  Written(asked) \/ Validated \/ Taken(limit) \/ Worked(silence) \/ Stopped \/ UNCHANGED presetVars

(***************************************************************************)
(* What holds of every run of a preset.                                    *)
(***************************************************************************)
Waiting ==
  /\ queue \in Seq(Messages)
  /\ batch \in Seq(DOMAIN Preset.hats)

PresetInv(limit) ==
  /\ phase \in AnyPreset!Phases \ {"invalid"}
  /\ file \in DOMAIN P!Table \cup {"none"}
  /\ IF phase \in {"init", "refused"}
     THEN queue = <<>>
     ELSE file \in DOMAIN P!Table /\ Waiting
  /\ phase = "validate" => queue = <<>>
  /\ batch # <<>> => phase = "running"
  /\ jobs \in Nat /\ Len(batch) \in Nat /\ jobs + Len(batch) <= limit + 2
  /\ broken \in BOOLEAN

LEMMA FewAreWoken ==
  ASSUME file \in DOMAIN P!Table, NEW t
  PROVE  /\ IsFiniteSet(Wakes(Preset, t))
         /\ Cardinality(Wakes(Preset, t)) \in 0..3
         /\ file # "pr_review" => Cardinality(Wakes(Preset, t)) <= 1
<1> DEFINE S == Wakes(Preset, t)
<1>1. file # "pr_review" => \E a : S \subseteq {a}
  <2> SUFFICES ASSUME file # "pr_review" PROVE \E a : S \subseteq {a}
    OBVIOUS
  <2>1. Apart(Preset)
    BY PresetsAre DEF Preset
  <2>2. \A h, k \in S : h = k
    BY <2>1 DEF Apart, Wakes
  <2> HIDE DEF S
  <2>3. QED
    BY <2>2
<1>2. \E a, b, c : S \subseteq {a, b, c}
  <2>1. CASE file = "pr_review"
    BY <2>1, PresetsAre DEF ThreeAtMost, Preset
  <2>2. CASE file # "pr_review"
    <3>1. PICK a : S \subseteq {a}
      BY <1>1, <2>2
    <3> HIDE DEF S
    <3>2. S \subseteq {a, a, a}
      BY <3>1
    <3>3. QED
      BY <3>2
  <2>3. QED
    BY <2>1, <2>2
<1> HIDE DEF S
<1>3. ASSUME NEW a, NEW b, NEW c
      PROVE  IsFiniteSet({a, b, c}) /\ Cardinality({a, b, c}) \in 0..3
  <2>1. IsFiniteSet({a}) /\ Cardinality({a}) = 1
    BY FS_Singleton
  <2>2. /\ IsFiniteSet({a} \cup {b})
        /\ Cardinality({a} \cup {b}) = 1 \/ Cardinality({a} \cup {b}) = 2
    BY <2>1, FS_AddElement
  <2>3. /\ IsFiniteSet(({a} \cup {b}) \cup {c})
        /\ \/ Cardinality(({a} \cup {b}) \cup {c}) = Cardinality({a} \cup {b})
           \/ Cardinality(({a} \cup {b}) \cup {c}) = Cardinality({a} \cup {b}) + 1
    BY <2>2, FS_AddElement
  <2>4. ({a} \cup {b}) \cup {c} = {a, b, c}
    OBVIOUS
  <2>5. QED
    BY <2>2, <2>3, <2>4
<1>4. IsFiniteSet(S) /\ Cardinality(S) \in 0..3
  <2>1. PICK a, b, c : S \subseteq {a, b, c}
    BY <1>2
  <2>2. IsFiniteSet({a, b, c}) /\ Cardinality({a, b, c}) \in 0..3
    BY <1>3
  <2>3. IsFiniteSet(S) /\ Cardinality(S) <= Cardinality({a, b, c})
    BY <2>1, <2>2, FS_Subset
  <2>4. Cardinality(S) \in Nat
    BY <2>3, FS_CardinalityType
  <2>5. QED
    BY <2>2, <2>3, <2>4
<1>5. file # "pr_review" => Cardinality(S) <= 1
  <2> SUFFICES ASSUME file # "pr_review" PROVE Cardinality(S) <= 1
    OBVIOUS
  <2>1. PICK a : S \subseteq {a}
    BY <1>1
  <2>2. IsFiniteSet({a}) /\ Cardinality({a}) = 1
    BY FS_Singleton
  <2>3. Cardinality(S) <= Cardinality({a})
    BY <2>1, <2>2, FS_Subset
  <2>4. QED
    BY <2>2, <2>3
<1>6. QED
  BY <1>4, <1>5 DEF S

LEMMA ListingsAre ==
  ASSUME NEW S, Cardinality(S) \in Nat, NEW order \in Listings(S)
  PROVE  order \in Seq(S) /\ Len(order) = Cardinality(S)
BY DEF Listings

LEMMA PresetKept ==
  ASSUME NEW asked, NEW silence, NEW limit \in Nat, PresetInv(limit), StepIs(asked, silence, limit)
  PROVE  PresetInv(limit)'
<1> USE DEF AnyPreset!Phases, AnyPreset!Ends
<1>1. CASE Written(asked)
  <2>1. queue' = <<>> /\ batch' = <<>> /\ jobs' = jobs /\ Len(batch') = Len(batch) /\ broken' = broken
    BY <1>1 DEF Written, PresetInv
  <2>2. Waiting'
    BY <2>1 DEF Waiting
  <2>3. /\ phase' \in {"validate", "refused"} /\ file' \in DOMAIN P!Table \cup {"none"}
        /\ phase' = "validate" => file' \in DOMAIN P!Table
    BY <1>1 DEF Written, PresetInv
  <2>4. QED
    BY <2>1, <2>2, <2>3 DEF PresetInv
<1>2. CASE Validated
  <2>1. <<Message(Preset.start)>> \in Seq(Messages)
    BY DEF Messages, Vocabulary
  <2>2. Messages' = Messages /\ Preset' = Preset
    BY <1>2 DEF Validated, Messages, Vocabulary, Preset
  <2>3. Waiting'
    BY <1>2, <2>1, <2>2 DEF Validated, PresetInv, Waiting
  <2>4. QED
    BY <1>2, <2>3 DEF Validated, PresetInv
<1>3. CASE Taken(limit)
  <2> DEFINE S == Wakes(Preset, Head(queue).topic)
  <2>1. file \in DOMAIN P!Table /\ Waiting
    BY <1>3 DEF Taken, PresetInv
  <2>2. Cardinality(S) \in 0..3
    BY <2>1, FewAreWoken
  <2>3. batch' \in Seq(S) /\ Len(batch') = Cardinality(S)
    BY <1>3, <2>2, ListingsAre DEF Taken
  <2>4. S \subseteq DOMAIN Preset.hats
    BY DEF Wakes
  <2>5. Messages' = Messages /\ Preset' = Preset
    BY <1>3 DEF Taken, Messages, Vocabulary, Preset
  <2> HIDE DEF S
  <2>6. Waiting'
    BY <1>3, <2>1, <2>3, <2>4, <2>5 DEF Taken, Waiting
  <2>7. jobs' + Len(batch') <= limit + 2
    BY <1>3, <2>2, <2>3 DEF Taken, PresetInv
  <2>8. QED
    BY <1>3, <2>1, <2>2, <2>3, <2>6, <2>7 DEF Taken, PresetInv
<1>4. CASE Worked(silence)
  <2>1. file \in DOMAIN P!Table /\ Waiting
    BY <1>4 DEF Worked, PresetInv
  <2>2. PICK puts \in Seq(Messages) : queue' = queue \o puts
    BY <1>4 DEF Worked
  <2>3. Messages' = Messages /\ Preset' = Preset
    BY <1>4 DEF Worked, Messages, Vocabulary, Preset
  <2>4. queue' \in Seq(Messages)
    BY <2>1, <2>2 DEF Waiting
  <2>5. batch' \in Seq(DOMAIN Preset.hats) /\ Len(batch') = Len(batch) - 1
    BY <1>4, <2>1 DEF Worked, Waiting
  <2>6. Waiting'
    BY <2>3, <2>4, <2>5 DEF Waiting
  <2>7. /\ jobs' \in Nat /\ Len(batch') \in Nat /\ jobs' + Len(batch') <= limit + 2
    BY <1>4, <2>5 DEF Worked, PresetInv
  <2>8. QED
    BY <1>4, <2>1, <2>6, <2>7 DEF Worked, PresetInv
<1>5. CASE Stopped
  <2>1. file \in DOMAIN P!Table /\ Waiting
    BY <1>5 DEF Stopped, PresetInv
  <2>2. Messages' = Messages /\ Preset' = Preset
    BY <1>5 DEF Stopped, Messages, Vocabulary, Preset
  <2>3. queue' \in Seq(Messages)
    <3>1. queue # <<>> => Tail(queue) \in Seq(Messages)
      BY <2>1 DEF Waiting
    <3>2. QED
      BY <1>5, <2>1, <3>1 DEF Stopped, Waiting
  <2>4. Waiting'
    BY <1>5, <2>1, <2>2, <2>3 DEF Stopped, Waiting
  <2>5. QED
    BY <1>5, <2>1, <2>4 DEF Stopped, PresetInv
<1>6. CASE UNCHANGED presetVars
  BY <1>6 DEF presetVars, PresetInv, Waiting, Messages, Vocabulary, Preset
<1>7. QED
  BY <1>1, <1>2, <1>3, <1>4, <1>5, <1>6 DEF StepIs

(* In a preset without a dead end something always waits or is at work. *)
GoesOn == phase = "running" => queue # <<>> \/ batch # <<>>

LEMMA KeepsGoing ==
  ASSUME NEW asked, NEW limit \in Nat, PresetInv(limit), StepIs(asked, FALSE, limit), GoesOn,
         phase = "running" => file \notin {"refactor", "deploy"}
  PROVE  GoesOn'
<1>1. CASE Written(asked) \/ Validated \/ Stopped \/ UNCHANGED presetVars
  BY <1>1 DEF Written, Validated, Stopped, presetVars, GoesOn
<1>2. CASE Taken(limit)
  <2> DEFINE S == Wakes(Preset, Head(queue).topic)
  <2>1. file \in DOMAIN P!Table /\ Waiting /\ NoDeadEnd(Preset) /\ Legible(Preset)
    BY <1>2, PresetsAre DEF Taken, PresetInv, Preset
  <2>2. PICK t \in Vocabulary : Head(queue) = Message(t)
    BY <1>2, <2>1 DEF Taken, Waiting, Messages
  <2>3. t # P!Promise
    BY <1>2, <2>2 DEF Taken, Message
  <2>4. S # {}
    BY <2>1, <2>2, <2>3 DEF Vocabulary, NoDeadEnd, Message, Legible
  <2>5. IsFiniteSet(S) /\ Cardinality(S) \in 0..3
    BY <2>1, FewAreWoken
  <2>6. Cardinality(S) # 0
    BY <2>4, <2>5, FS_EmptySet
  <2>7. Len(batch') = Cardinality(S)
    BY <1>2, <2>5, ListingsAre DEF Taken
  <2>8. batch' # <<>>
    BY <2>5, <2>6, <2>7
  <2>9. QED
    BY <2>8 DEF GoesOn
<1>3. CASE Worked(FALSE)
  <2>1. file \in DOMAIN P!Table /\ Waiting /\ NoDeadEnd(Preset)
    BY <1>3, PresetsAre DEF Worked, PresetInv, Preset
  <2>2. PICK puts \in Seq(Messages) :
          queue' = queue \o puts /\ (puts = <<>> => P!Nothing \in Preset.hats[Head(batch)].may)
    BY <1>3 DEF Worked
  <2>3. Head(batch) \in DOMAIN Preset.hats
    BY <1>3, <2>1 DEF Worked, Waiting
  <2>4. puts # <<>>
    BY <2>1, <2>2, <2>3 DEF NoDeadEnd
  <2>5. queue' # <<>>
    BY <2>1, <2>2, <2>4 DEF Waiting
  <2>6. QED
    BY <2>5 DEF GoesOn
<1>4. QED
  BY <1>1, <1>2, <1>3 DEF StepIs

(***************************************************************************)
(* The steps of the three instances.                                       *)
(***************************************************************************)
LEMMA CardinalitiesAgree ==
  \A S : /\ AnyPreset!Router!Cardinality(S) = Cardinality(S)
         /\ Sound!Router!Cardinality(S) = Cardinality(S)
         /\ Single!Router!Cardinality(S) = Cardinality(S)
         /\ Single!Cardinality(S) = Cardinality(S)
BY Zenon DEF Cardinality, AnyPreset!Router!Cardinality, Sound!Router!Cardinality,
             Single!Router!Cardinality, Single!Cardinality

LEMMA RoutedAre ==
  ASSUME file \in DOMAIN P!Table, NEW t, Topical(t)
  PROVE  /\ AnyPreset!Router!RouteWithState(Message(t), <<>>) \subseteq Listings(Wakes(Preset, t))
         /\ Sound!Router!RouteWithState(Message(t), <<>>) \subseteq Listings(Wakes(Preset, t))
         /\ Single!Router!RouteWithState(Message(t), <<>>) \subseteq Listings(Wakes(Preset, t))
<1>1. /\ AnyPreset!Router!Interested(Message(t)) = Wakes(Preset, t)
      /\ Sound!Router!Interested(Message(t)) = Wakes(Preset, t)
      /\ Single!Router!Interested(Message(t)) = Wakes(Preset, t)
  BY InstancesAgree, WokenAre DEF Preset, Message, AnyPreset!Woken, AnyPreset!Event, AnyPreset!NoTarget,
     Sound!Woken, Sound!Event, Sound!NoTarget, Single!Woken, Single!Event, Single!NoTarget
<1>2. AnyPreset!Router!RouteWithState(Message(t), <<>>) \subseteq Listings(Wakes(Preset, t))
  <2>1. {h \in AnyPreset!Router!Interested(Message(t)) : AnyPreset!Router!BelowLimit(h, <<>>)}
          = Wakes(Preset, t)
    BY <1>1 DEF AnyPreset!Router!BelowLimit
  <2>2. AnyPreset!Router!RouteWithState(Message(t), <<>>) \subseteq
          AnyPreset!Router!Orders({h \in AnyPreset!Router!Interested(Message(t)) :
                                   AnyPreset!Router!BelowLimit(h, <<>>)})
    BY Zenon DEF AnyPreset!Router!RouteWithState
  <2>3. AnyPreset!Router!Orders(Wakes(Preset, t)) = Listings(Wakes(Preset, t))
    BY CardinalitiesAgree, Zenon DEF AnyPreset!Router!Orders, Listings
  <2>4. QED
    BY <2>1, <2>2, <2>3
<1>3. Sound!Router!RouteWithState(Message(t), <<>>) \subseteq Listings(Wakes(Preset, t))
  <2>1. {h \in Sound!Router!Interested(Message(t)) : Sound!Router!BelowLimit(h, <<>>)}
          = Wakes(Preset, t)
    BY <1>1 DEF Sound!Router!BelowLimit
  <2>2. Sound!Router!RouteWithState(Message(t), <<>>) \subseteq
          Sound!Router!Orders({h \in Sound!Router!Interested(Message(t)) :
                                   Sound!Router!BelowLimit(h, <<>>)})
    BY Zenon DEF Sound!Router!RouteWithState
  <2>3. Sound!Router!Orders(Wakes(Preset, t)) = Listings(Wakes(Preset, t))
    BY CardinalitiesAgree, Zenon DEF Sound!Router!Orders, Listings
  <2>4. QED
    BY <2>1, <2>2, <2>3
<1>4. Single!Router!RouteWithState(Message(t), <<>>) \subseteq Listings(Wakes(Preset, t))
  <2>1. {h \in Single!Router!Interested(Message(t)) : Single!Router!BelowLimit(h, <<>>)}
          = Wakes(Preset, t)
    BY <1>1 DEF Single!Router!BelowLimit
  <2>2. Single!Router!RouteWithState(Message(t), <<>>) \subseteq
          Single!Router!Orders({h \in Single!Router!Interested(Message(t)) :
                                   Single!Router!BelowLimit(h, <<>>)})
    BY Zenon DEF Single!Router!RouteWithState
  <2>3. Single!Router!Orders(Wakes(Preset, t)) = Listings(Wakes(Preset, t))
    BY CardinalitiesAgree, Zenon DEF Single!Router!Orders, Listings
  <2>4. QED
    BY <2>1, <2>2, <2>3
<1>5. QED
  BY <1>2, <1>3, <1>4

LEMMA AnyPresetPuts ==
  ASSUME file \in DOMAIN P!Table, NEW h \in DOMAIN Preset.hats, NEW puts \in AnyPreset!Outputs(h)
  PROVE  /\ puts \in Seq(Messages)
         /\ puts = <<>> => TRUE \/ P!Nothing \in Preset.hats[h].may
<1>1. AnyPreset!Here = Preset /\ AnyPreset!Nothing = P!Nothing
  BY TablesAgree DEF AnyPreset!Here, Preset, AnyPreset!Nothing, P!Nothing
<1>2. \A t : AnyPreset!Event(t) = Message(t)
  BY DEF AnyPreset!Event, AnyPreset!NoTarget, Message
<1>3. CASE \E t \in Preset.hats[h].may \ {P!Nothing} : puts \in AnyPreset!Copies(t)
  <2>1. PICK t \in Says(Preset, h) : puts \in AnyPreset!Copies(t)
    BY <1>3 DEF Says
  <2>2. PICK n \in Nat \ {0} : puts = [i \in 1..n |-> Message(t)]
    BY <1>2, <2>1 DEF AnyPreset!Copies
  <2>3. Message(t) \in Messages
    BY <2>1 DEF Messages, Vocabulary
  <2>4. QED
    BY <2>2, <2>3
<1>4. CASE puts = AnyPreset!DefaultOf(h) /\ (TRUE \/ P!Nothing \in Preset.hats[h].may)
  <2>1. puts = IF Preset.hats[h].publishes = <<>> THEN <<>> ELSE <<Message(Head(Preset.hats[h].publishes))>>
    BY <1>1, <1>2, <1>4 DEF AnyPreset!DefaultOf
  <2>2. Preset.hats[h].publishes # <<>> => Message(Head(Preset.hats[h].publishes)) \in Messages
    BY PresetsAre DEF Legible, Preset, Messages, Vocabulary
  <2>3. QED
    BY <1>4, <2>1, <2>2
<1>5. \/ \E t \in AnyPreset!Here.hats[h].may \ {AnyPreset!Nothing} : puts \in AnyPreset!Copies(t)
      \/ puts = AnyPreset!DefaultOf(h) /\ (TRUE \/ AnyPreset!Nothing \in AnyPreset!Here.hats[h].may)
  BY Zenon DEF AnyPreset!Outputs
<1>6. QED
  BY <1>1, <1>3, <1>4, <1>5

LEMMA AnyPresetSteps ==
  ASSUME PresetInv(MaxJobs), AnyPreset!Next
  PROVE  StepIs(DOMAIN P!Table \cup {"unknown"}, TRUE, MaxJobs)
<1> USE TablesAgree DEF AnyPreset!Here, Preset
<1>1. CASE AnyPreset!WritePreset
  BY <1>1 DEF AnyPreset!WritePreset, Written, StepIs
<1>2. CASE AnyPreset!Validate
  <2>1. file \in DOMAIN P!Table /\ Legible(Preset)
    BY <1>2, PresetsAre DEF AnyPreset!Validate, PresetInv
  <2>2. PICK h \in DOMAIN Preset.hats : Preset.start \in Preset.hats[h].triggers
    BY <2>1 DEF Legible, Wakes
  <2>3. AnyPreset!Router!Matches(Preset.start, Preset.start)
    BY <2>1, MatchersAgree, MatchesItself DEF Legible, Topical
  <2>4. AnyPreset!Valid(Preset)
    BY <2>1, <2>2, <2>3 DEF AnyPreset!Valid, Legible
  <2>5. AnyPreset!Event(Preset.start) = Message(Preset.start)
    BY DEF AnyPreset!Event, AnyPreset!NoTarget, Message
  <2>6. QED
    BY <1>2, <2>4, <2>5 DEF AnyPreset!Validate, Validated, StepIs
<1>3. CASE AnyPreset!Take
  <2>1. file \in DOMAIN P!Table /\ Waiting
    BY <1>3 DEF AnyPreset!Take, AnyPreset!Between, PresetInv
  <2>2. PICK t \in Vocabulary : Head(queue) = Message(t)
    BY <1>3, <2>1 DEF AnyPreset!Take, Waiting, Messages
  <2>3. Topical(t)
    BY <2>1, PresetsAre DEF Vocabulary, Legible, Topical, Says
  <2>4. batch' \in Listings(Wakes(Preset, Head(queue).topic))
    <3>1. Head(queue).topic = t
      BY <2>2 DEF Message
    <3>2. batch' \in AnyPreset!Router!RouteWithState(Message(t), <<>>)
      BY <1>3, <2>2 DEF AnyPreset!Take
    <3>3. QED
      BY <2>1, <2>3, <3>1, <3>2, RoutedAre
  <2>5. jobs < MaxJobs
    <3>1. Preset.limit \in Nat
      BY <2>1, PresetsAre DEF Legible
    <3>2. QED
      BY <1>3, <3>1, PresetAssumption DEF AnyPreset!Take, AnyPreset!JobLimit, AnyPreset!Min2, PresetInv
  <2>6. QED
    BY <1>3, <2>4, <2>5 DEF AnyPreset!Take, AnyPreset!Between, AnyPreset!Promise, P!Promise, Taken, StepIs
<1>4. CASE AnyPreset!Work
  <2>1. file \in DOMAIN P!Table /\ Waiting
    BY <1>4 DEF AnyPreset!Work, PresetInv
  <2>2. Head(batch) \in DOMAIN Preset.hats
    BY <1>4, <2>1 DEF AnyPreset!Work, Waiting
  <2>3. AnyPreset!GatesPass
    BY <2>1, PresetsAre DEF AnyPreset!GatesPass, AnyPreset!Succeeds, Legible
  <2>4. PICK puts \in AnyPreset!Outputs(Head(batch)) : queue' = queue \o puts
    BY <1>4, <2>3 DEF AnyPreset!Work
  <2>5. /\ puts \in Seq(Messages)
        /\ puts = <<>> => TRUE \/ P!Nothing \in Preset.hats[Head(batch)].may
    BY <2>1, <2>2, AnyPresetPuts
  <2>6. broken' \in BOOLEAN
    BY <1>4, <2>3 DEF AnyPreset!Work, PresetInv
  <2>7. QED
    BY <1>4, <2>4, <2>5, <2>6 DEF AnyPreset!Work, Worked, StepIs
<1>5. CASE AnyPreset!Complete
  BY <1>5 DEF AnyPreset!Complete, AnyPreset!Between, AnyPreset!Stop, Stopped, StepIs
<1>6. CASE AnyPreset!Exhaust
  BY <1>6 DEF AnyPreset!Exhaust, AnyPreset!Between, AnyPreset!Stop, Stopped, StepIs
<1>7. CASE AnyPreset!TimeOut
  BY <1>7 DEF AnyPreset!TimeOut, AnyPreset!Between, AnyPreset!Stop, Stopped, StepIs
<1>8. CASE AnyPreset!Over
  BY <1>8 DEF AnyPreset!Over, AnyPreset!vars, presetVars, StepIs
<1>9. QED
  BY <1>1, <1>2, <1>3, <1>4, <1>5, <1>6, <1>7, <1>8 DEF AnyPreset!Next

LEMMA SoundPuts ==
  ASSUME file \in DOMAIN P!Table, NEW h \in DOMAIN Preset.hats, NEW puts \in Sound!Outputs(h)
  PROVE  /\ puts \in Seq(Messages)
         /\ puts = <<>> => FALSE \/ P!Nothing \in Preset.hats[h].may
<1>1. Sound!Here = Preset /\ Sound!Nothing = P!Nothing
  BY TablesAgree DEF Sound!Here, Preset, Sound!Nothing, P!Nothing
<1>2. \A t : Sound!Event(t) = Message(t)
  BY DEF Sound!Event, Sound!NoTarget, Message
<1>3. CASE \E t \in Preset.hats[h].may \ {P!Nothing} : puts \in Sound!Copies(t)
  <2>1. PICK t \in Says(Preset, h) : puts \in Sound!Copies(t)
    BY <1>3 DEF Says
  <2>2. PICK n \in Nat \ {0} : puts = [i \in 1..n |-> Message(t)]
    BY <1>2, <2>1 DEF Sound!Copies
  <2>3. Message(t) \in Messages
    BY <2>1 DEF Messages, Vocabulary
  <2>4. QED
    BY <2>2, <2>3
<1>4. CASE puts = Sound!DefaultOf(h) /\ (FALSE \/ P!Nothing \in Preset.hats[h].may)
  <2>1. puts = IF Preset.hats[h].publishes = <<>> THEN <<>> ELSE <<Message(Head(Preset.hats[h].publishes))>>
    BY <1>1, <1>2, <1>4 DEF Sound!DefaultOf
  <2>2. Preset.hats[h].publishes # <<>> => Message(Head(Preset.hats[h].publishes)) \in Messages
    BY PresetsAre DEF Legible, Preset, Messages, Vocabulary
  <2>3. QED
    BY <1>4, <2>1, <2>2
<1>5. \/ \E t \in Sound!Here.hats[h].may \ {Sound!Nothing} : puts \in Sound!Copies(t)
      \/ puts = Sound!DefaultOf(h) /\ (FALSE \/ Sound!Nothing \in Sound!Here.hats[h].may)
  BY Zenon DEF Sound!Outputs
<1>6. QED
  BY <1>1, <1>3, <1>4, <1>5

LEMMA SoundSteps ==
  ASSUME PresetInv(MaxJobs), Sound!Next
  PROVE  StepIs(DOMAIN P!Table \ {"refactor", "deploy"}, FALSE, MaxJobs)
<1> USE TablesAgree DEF Sound!Here, Preset
<1>1. CASE Sound!WritePreset
  BY <1>1 DEF Sound!WritePreset, Written, StepIs
<1>2. CASE Sound!Validate
  <2>1. file \in DOMAIN P!Table /\ Legible(Preset)
    BY <1>2, PresetsAre DEF Sound!Validate, PresetInv
  <2>2. PICK h \in DOMAIN Preset.hats : Preset.start \in Preset.hats[h].triggers
    BY <2>1 DEF Legible, Wakes
  <2>3. Sound!Router!Matches(Preset.start, Preset.start)
    BY <2>1, MatchersAgree, MatchesItself DEF Legible, Topical
  <2>4. Sound!Valid(Preset)
    BY <2>1, <2>2, <2>3 DEF Sound!Valid, Legible
  <2>5. Sound!Event(Preset.start) = Message(Preset.start)
    BY DEF Sound!Event, Sound!NoTarget, Message
  <2>6. QED
    BY <1>2, <2>4, <2>5 DEF Sound!Validate, Validated, StepIs
<1>3. CASE Sound!Take
  <2>1. file \in DOMAIN P!Table /\ Waiting
    BY <1>3 DEF Sound!Take, Sound!Between, PresetInv
  <2>2. PICK t \in Vocabulary : Head(queue) = Message(t)
    BY <1>3, <2>1 DEF Sound!Take, Waiting, Messages
  <2>3. Topical(t)
    BY <2>1, PresetsAre DEF Vocabulary, Legible, Topical, Says
  <2>4. batch' \in Listings(Wakes(Preset, Head(queue).topic))
    <3>1. Head(queue).topic = t
      BY <2>2 DEF Message
    <3>2. batch' \in Sound!Router!RouteWithState(Message(t), <<>>)
      BY <1>3, <2>2 DEF Sound!Take
    <3>3. QED
      BY <2>1, <2>3, <3>1, <3>2, RoutedAre
  <2>5. jobs < MaxJobs
    <3>1. Preset.limit \in Nat
      BY <2>1, PresetsAre DEF Legible
    <3>2. QED
      BY <1>3, <3>1, PresetAssumption DEF Sound!Take, Sound!JobLimit, Sound!Min2, PresetInv
  <2>6. QED
    BY <1>3, <2>4, <2>5 DEF Sound!Take, Sound!Between, Sound!Promise, P!Promise, Taken, StepIs
<1>4. CASE Sound!Work
  <2>1. file \in DOMAIN P!Table /\ Waiting
    BY <1>4 DEF Sound!Work, PresetInv
  <2>2. Head(batch) \in DOMAIN Preset.hats
    BY <1>4, <2>1 DEF Sound!Work, Waiting
  <2>3. Sound!GatesPass
    BY <2>1, PresetsAre DEF Sound!GatesPass, Sound!Succeeds, Legible
  <2>4. PICK puts \in Sound!Outputs(Head(batch)) : queue' = queue \o puts
    BY <1>4, <2>3 DEF Sound!Work
  <2>5. /\ puts \in Seq(Messages)
        /\ puts = <<>> => FALSE \/ P!Nothing \in Preset.hats[Head(batch)].may
    BY <2>1, <2>2, SoundPuts
  <2>6. broken' \in BOOLEAN
    BY <1>4, <2>3 DEF Sound!Work, PresetInv
  <2>7. QED
    BY <1>4, <2>4, <2>5, <2>6 DEF Sound!Work, Worked, StepIs
<1>5. CASE Sound!Complete
  BY <1>5 DEF Sound!Complete, Sound!Between, Sound!Stop, Stopped, StepIs
<1>6. CASE Sound!Exhaust
  BY <1>6 DEF Sound!Exhaust, Sound!Between, Sound!Stop, Stopped, StepIs
<1>7. CASE Sound!TimeOut
  BY <1>7 DEF Sound!TimeOut, Sound!Between, Sound!Stop, Stopped, StepIs
<1>8. CASE Sound!Over
  BY <1>8 DEF Sound!Over, Sound!vars, presetVars, StepIs
<1>9. QED
  BY <1>1, <1>2, <1>3, <1>4, <1>5, <1>6, <1>7, <1>8 DEF Sound!Next

LEMMA SinglePuts ==
  ASSUME file \in DOMAIN P!Table, NEW h \in DOMAIN Preset.hats, NEW puts \in Single!Outputs(h)
  PROVE  /\ puts \in Seq(Messages)
         /\ puts = <<>> => TRUE \/ P!Nothing \in Preset.hats[h].may
<1>1. Single!Here = Preset /\ Single!Nothing = P!Nothing
  BY TablesAgree DEF Single!Here, Preset, Single!Nothing, P!Nothing
<1>2. \A t : Single!Event(t) = Message(t)
  BY DEF Single!Event, Single!NoTarget, Message
<1>3. CASE \E t \in Preset.hats[h].may \ {P!Nothing} : puts \in Single!Copies(t)
  <2>1. PICK t \in Says(Preset, h) : puts \in Single!Copies(t)
    BY <1>3 DEF Says
  <2>2. PICK n \in Nat \ {0} : puts = [i \in 1..n |-> Message(t)]
    BY <1>2, <2>1 DEF Single!Copies
  <2>3. Message(t) \in Messages
    BY <2>1 DEF Messages, Vocabulary
  <2>4. QED
    BY <2>2, <2>3
<1>4. CASE puts = Single!DefaultOf(h) /\ (TRUE \/ P!Nothing \in Preset.hats[h].may)
  <2>1. puts = IF Preset.hats[h].publishes = <<>> THEN <<>> ELSE <<Message(Head(Preset.hats[h].publishes))>>
    BY <1>1, <1>2, <1>4 DEF Single!DefaultOf
  <2>2. Preset.hats[h].publishes # <<>> => Message(Head(Preset.hats[h].publishes)) \in Messages
    BY PresetsAre DEF Legible, Preset, Messages, Vocabulary
  <2>3. QED
    BY <1>4, <2>1, <2>2
<1>5. \/ \E t \in Single!Here.hats[h].may \ {Single!Nothing} : puts \in Single!Copies(t)
      \/ puts = Single!DefaultOf(h) /\ (TRUE \/ Single!Nothing \in Single!Here.hats[h].may)
  BY Zenon DEF Single!Outputs
<1>6. QED
  BY <1>1, <1>3, <1>4, <1>5

LEMMA SingleSteps ==
  ASSUME PresetInv(16), Single!Next
  PROVE  StepIs(DOMAIN P!Table \ {"pr_review"}, TRUE, 16)
<1> USE TablesAgree DEF Single!Here, Preset
<1>1. CASE Single!WritePreset
  BY <1>1 DEF Single!WritePreset, Written, StepIs
<1>2. CASE Single!Validate
  <2>1. file \in DOMAIN P!Table /\ Legible(Preset)
    BY <1>2, PresetsAre DEF Single!Validate, PresetInv
  <2>2. PICK h \in DOMAIN Preset.hats : Preset.start \in Preset.hats[h].triggers
    BY <2>1 DEF Legible, Wakes
  <2>3. Single!Router!Matches(Preset.start, Preset.start)
    BY <2>1, MatchersAgree, MatchesItself DEF Legible, Topical
  <2>4. Single!Valid(Preset)
    BY <2>1, <2>2, <2>3 DEF Single!Valid, Legible
  <2>5. Single!Event(Preset.start) = Message(Preset.start)
    BY DEF Single!Event, Single!NoTarget, Message
  <2>6. QED
    BY <1>2, <2>4, <2>5 DEF Single!Validate, Validated, StepIs
<1>3. CASE Single!Take
  <2>1. file \in DOMAIN P!Table /\ Waiting
    BY <1>3 DEF Single!Take, Single!Between, PresetInv
  <2>2. PICK t \in Vocabulary : Head(queue) = Message(t)
    BY <1>3, <2>1 DEF Single!Take, Waiting, Messages
  <2>3. Topical(t)
    BY <2>1, PresetsAre DEF Vocabulary, Legible, Topical, Says
  <2>4. batch' \in Listings(Wakes(Preset, Head(queue).topic))
    <3>1. Head(queue).topic = t
      BY <2>2 DEF Message
    <3>2. batch' \in Single!Router!RouteWithState(Message(t), <<>>)
      BY <1>3, <2>2 DEF Single!Take
    <3>3. QED
      BY <2>1, <2>3, <3>1, <3>2, RoutedAre
  <2>5. jobs < 16
    <3>1. Preset.limit \in Nat
      BY <2>1, PresetsAre DEF Legible
    <3>2. QED
      BY <1>3, <3>1, PresetAssumption DEF Single!Take, Single!JobLimit, Single!Min2, PresetInv
  <2>6. QED
    BY <1>3, <2>4, <2>5 DEF Single!Take, Single!Between, Single!Promise, P!Promise, Taken, StepIs
<1>4. CASE Single!Work
  <2>1. file \in DOMAIN P!Table /\ Waiting
    BY <1>4 DEF Single!Work, PresetInv
  <2>2. Head(batch) \in DOMAIN Preset.hats
    BY <1>4, <2>1 DEF Single!Work, Waiting
  <2>3. Single!GatesPass
    BY <2>1, PresetsAre DEF Single!GatesPass, Single!Succeeds, Legible
  <2>4. PICK puts \in Single!Outputs(Head(batch)) : queue' = queue \o puts
    BY <1>4, <2>3 DEF Single!Work
  <2>5. /\ puts \in Seq(Messages)
        /\ puts = <<>> => TRUE \/ P!Nothing \in Preset.hats[Head(batch)].may
    BY <2>1, <2>2, SinglePuts
  <2>6. broken' \in BOOLEAN
    BY <1>4, <2>3 DEF Single!Work, PresetInv
  <2>7. QED
    BY <1>4, <2>4, <2>5, <2>6 DEF Single!Work, Worked, StepIs
<1>5. CASE Single!Complete
  BY <1>5 DEF Single!Complete, Single!Between, Single!Stop, Stopped, StepIs
<1>6. CASE Single!Exhaust
  BY <1>6 DEF Single!Exhaust, Single!Between, Single!Stop, Stopped, StepIs
<1>7. CASE Single!TimeOut
  BY <1>7 DEF Single!TimeOut, Single!Between, Single!Stop, Stopped, StepIs
<1>8. CASE Single!Over
  BY <1>8 DEF Single!Over, Single!vars, presetVars, StepIs
<1>9. QED
  BY <1>1, <1>2, <1>3, <1>4, <1>5, <1>6, <1>7, <1>8 DEF Single!Next

(***************************************************************************)
(* The least sets that the properties speak of are all of a preset's hats. *)
(***************************************************************************)
LEMMA SaidIsTopical ==
  ASSUME file \in DOMAIN P!Table, NEW t \in Vocabulary
  PROVE  Topical(t)
BY PresetsAre DEF Vocabulary, Legible, Topical, Says, Preset

LEMMA TablesHere ==
  /\ AnyPreset!Here = Preset /\ AnyPreset!HatsHere = DOMAIN Preset.hats
  /\ Sound!Here = Preset /\ Sound!HatsHere = DOMAIN Preset.hats
  /\ Single!Here = Preset /\ Single!HatsHere = DOMAIN Preset.hats
BY TablesAgree DEF AnyPreset!Here, AnyPreset!HatsHere, Sound!Here, Sound!HatsHere,
   Single!Here, Single!HatsHere, Preset

LEMMA AllAreWakeable ==
  ASSUME file \in DOMAIN P!Table
  PROVE  AnyPreset!Wakeable = AnyPreset!HatsHere
<1>1. Spreads(Preset)
  BY PresetsAre DEF Preset
<1>2. AnyPreset!Woken(AnyPreset!Here.start) = Wakes(Preset, Preset.start)
  <2>1. Preset.start \in Vocabulary
    BY DEF Vocabulary
  <2>2. QED
    BY <2>1, SaidIsTopical, TablesHere, WokenAre DEF Preset
<1>3. \A k \in DOMAIN Preset.hats : AnyPreset!May(k) = Says(Preset, k)
  BY TablesHere DEF AnyPreset!May, AnyPreset!Nothing, P!Nothing, Says
<1>4. \A k \in DOMAIN Preset.hats : \A t \in Says(Preset, k) :
        AnyPreset!Woken(t) = Wakes(Preset, t)
  <2> SUFFICES ASSUME NEW k \in DOMAIN Preset.hats, NEW t \in Says(Preset, k)
               PROVE  AnyPreset!Woken(t) = Wakes(Preset, t)
    OBVIOUS
  <2>1. t \in Vocabulary
    BY DEF Vocabulary
  <2>2. QED
    BY <2>1, SaidIsTopical, WokenAre DEF Preset
<1>5. ASSUME NEW hats \in SUBSET DOMAIN Preset.hats, AnyPreset!HoldsWoken(hats)
      PROVE  DOMAIN Preset.hats \subseteq hats
  <2>1. Wakes(Preset, Preset.start) \subseteq hats
    BY <1>2, <1>5 DEF AnyPreset!HoldsWoken
  <2>2. \A k \in hats : \A t \in Says(Preset, k) : Wakes(Preset, t) \subseteq hats
    BY <1>3, <1>4, <1>5 DEF AnyPreset!HoldsWoken
  <2>3. QED
    BY <1>1, <2>1, <2>2 DEF Spreads
<1>6. QED
  BY <1>5, TablesHere DEF AnyPreset!Wakeable

LEMMA AllAreHopeful ==
  ASSUME file \in DOMAIN P!Table, file \notin {"refactor", "deploy"}
  PROVE  Sound!Hopeful = DOMAIN Preset.hats
<1>1. ReachesPromise(Preset)
  BY PresetsAre DEF Preset
<1>2. \A k \in DOMAIN Preset.hats : Sound!May(k) = Says(Preset, k)
  BY TablesHere DEF Sound!May, Sound!Nothing, P!Nothing, Says
<1>3. \A k \in DOMAIN Preset.hats : \A t \in Says(Preset, k) :
        Sound!Woken(t) = Wakes(Preset, t)
  <2> SUFFICES ASSUME NEW k \in DOMAIN Preset.hats, NEW t \in Says(Preset, k)
               PROVE  Sound!Woken(t) = Wakes(Preset, t)
    OBVIOUS
  <2>1. t \in Vocabulary
    BY DEF Vocabulary
  <2>2. QED
    BY <2>1, SaidIsTopical, WokenAre, InstancesAgree DEF Preset
<1>4. Sound!Promise = P!Promise
  BY DEF Sound!Promise, P!Promise
<1>5. \A k \in DOMAIN Preset.hats, hats \in SUBSET DOMAIN Preset.hats :
        Sound!Leads(k, hats) <=>
          P!Promise \in Says(Preset, k) \/ \E t \in Says(Preset, k) : Wakes(Preset, t) \cap hats # {}
  BY <1>2, <1>3, <1>4 DEF Sound!Leads
<1>6. ASSUME NEW hats \in SUBSET DOMAIN Preset.hats,
             \A k \in DOMAIN Preset.hats : Sound!Leads(k, hats) => k \in hats
      PROVE  DOMAIN Preset.hats \subseteq hats
  <2>1. \A k \in DOMAIN Preset.hats :
          P!Promise \in Says(Preset, k) \/ (\E t \in Says(Preset, k) : Wakes(Preset, t) \cap hats # {})
          => k \in hats
    BY <1>5, <1>6
  <2>2. QED
    BY <1>1, <2>1 DEF ReachesPromise
<1>7. QED
  BY <1>6, TablesHere DEF Sound!Hopeful

(***************************************************************************)
(* What the properties say follows from what holds of every run.           *)
(***************************************************************************)
LEMMA PresetTypes ==
  /\ PresetInv(MaxJobs) => AnyPreset!TypeOK
  /\ PresetInv(16) => Single!TypeOK
<1> USE DEF AnyPreset!Phases, AnyPreset!Ends, Single!Phases, Single!Ends
<1>1. ASSUME file \in DOMAIN P!Table, Waiting
      PROVE  /\ \A i \in DOMAIN queue : queue[i] = Message(queue[i].topic)
             /\ AnyPreset!ToSet(batch) \subseteq DOMAIN Preset.hats
             /\ Single!ToSet(batch) \subseteq DOMAIN Preset.hats
  <2>1. \A i \in DOMAIN queue : queue[i] \in Messages
    BY <1>1 DEF Waiting
  <2>2. \A m \in Messages : m = Message(m.topic)
    BY DEF Messages, Message
  <2>3. \A i \in DOMAIN batch : batch[i] \in DOMAIN Preset.hats
    BY <1>1 DEF Waiting
  <2>4. QED
    BY <2>1, <2>2, <2>3 DEF AnyPreset!ToSet, Single!ToSet
<1>2. \A t : AnyPreset!Event(t) = Message(t) /\ Single!Event(t) = Message(t)
  BY DEF AnyPreset!Event, AnyPreset!NoTarget, Single!Event, Single!NoTarget, Message
<1>3. ASSUME NEW limit, PresetInv(limit)
      PROVE  /\ \A i \in DOMAIN queue : queue[i] = Message(queue[i].topic)
             /\ batch # <<>> => /\ AnyPreset!ToSet(batch) \subseteq DOMAIN Preset.hats
                                /\ Single!ToSet(batch) \subseteq DOMAIN Preset.hats
  <2>1. CASE phase \in {"init", "refused"}
    <3>1. queue = <<>> /\ batch = <<>>
      BY <1>3, <2>1 DEF PresetInv
    <3>2. DOMAIN queue = {}
      BY <3>1
    <3>3. QED
      BY <3>1, <3>2
  <2>2. CASE phase \notin {"init", "refused"}
    BY <1>1, <1>3, <2>2 DEF PresetInv
  <2>3. QED
    BY <2>1, <2>2
<1>4. PresetInv(MaxJobs) => AnyPreset!TypeOK
  <2> SUFFICES ASSUME PresetInv(MaxJobs) PROVE AnyPreset!TypeOK
    OBVIOUS
  <2>1. "none" \notin DOMAIN P!Table
    BY DEF P!Table
  <2>2. phase \notin {"init", "refused"} => file # "none"
    BY <2>1 DEF PresetInv
  <2>3. QED
    BY <1>2, <1>3, <2>2, TablesAgree, TablesHere DEF PresetInv, AnyPreset!TypeOK, AnyPreset!NoFile
<1>5. PresetInv(16) => Single!TypeOK
  <2> SUFFICES ASSUME PresetInv(16) PROVE Single!TypeOK
    OBVIOUS
  <2>1. "none" \notin DOMAIN P!Table
    BY DEF P!Table
  <2>2. phase \notin {"init", "refused"} => file # "none"
    BY <2>1 DEF PresetInv
  <2>3. QED
    BY <1>2, <1>3, <2>2, TablesAgree, TablesHere DEF PresetInv, Single!TypeOK, Single!NoFile
<1>6. QED
  BY <1>4, <1>5

LEMMA PromiseStaysInReach ==
  ASSUME PresetInv(MaxJobs), GoesOn, file \notin {"refactor", "deploy"}
  PROVE  Sound!PromiseInReach
<1> SUFFICES ASSUME phase = "running" PROVE Sound!PromiseInReach
  BY DEF Sound!PromiseInReach
<1>1. file \in DOMAIN P!Table /\ Waiting
  BY DEF PresetInv
<1>2. Sound!Hopeful = DOMAIN Preset.hats
  BY <1>1, AllAreHopeful
<1>3. CASE batch # <<>>
  <2>1. 1 \in DOMAIN batch /\ batch[1] \in DOMAIN Preset.hats
    BY <1>1, <1>3 DEF Waiting
  <2>2. batch[1] \in Sound!ToSet(batch) \cap Sound!Hopeful
    BY <1>2, <2>1 DEF Sound!ToSet
  <2>3. QED
    BY <2>2 DEF Sound!PromiseInReach
<1>4. CASE queue # <<>>
  <2>1. 1 \in DOMAIN queue /\ queue[1] \in Messages
    BY <1>1, <1>4 DEF Waiting
  <2>2. PICK t \in Vocabulary : queue[1] = Message(t)
    BY <2>1 DEF Messages
  <2>3. t = P!Promise \/ Wakes(Preset, t) # {}
    BY <1>1, PresetsAre DEF Vocabulary, NoDeadEnd, Legible, Preset
  <2>4. Sound!Woken(t) = Wakes(Preset, t)
    BY <1>1, SaidIsTopical, WokenAre, InstancesAgree DEF Preset
  <2>5. Wakes(Preset, t) \subseteq DOMAIN Preset.hats
    BY DEF Wakes
  <2>6. Sound!InReach(queue[1].topic)
    BY <1>2, <2>2, <2>3, <2>4, <2>5 DEF Sound!InReach, Sound!Promise, P!Promise, Message
  <2>7. QED
    BY <2>1, <2>6 DEF Sound!PromiseInReach
<1>5. QED
  BY <1>3, <1>4 DEF GoesOn

LEMMA OneIsWoken ==
  ASSUME PresetInv(16), file # "pr_review"
  PROVE  Single!OneHatPerEvent
<1> SUFFICES ASSUME phase = "running", NEW i \in DOMAIN queue
             PROVE  Single!Cardinality(Single!Woken(queue[i].topic)) <= 1
  BY DEF Single!OneHatPerEvent
<1>1. file \in DOMAIN P!Table /\ Waiting
  BY DEF PresetInv
<1>2. PICK t \in Vocabulary : queue[i] = Message(t)
  BY <1>1 DEF Waiting, Messages
<1>3. Single!Woken(t) = Wakes(Preset, t)
  BY <1>1, SaidIsTopical, WokenAre, InstancesAgree DEF Preset
<1>4. Single!Cardinality(Wakes(Preset, t)) <= 1
  BY <1>1, FewAreWoken, CardinalitiesAgree
<1>5. QED
  BY <1>2, <1>3, <1>4 DEF Message

PresetsInv ==
  /\ part \in {"any", "sound"} => PresetInv(MaxJobs)
  /\ part = "sound" => file \notin {"refactor", "deploy"} /\ GoesOn
  /\ part = "single" => PresetInv(16) /\ file # "pr_review"

LEMMA PresetsBegin == Init => PresetsInv
<1> SUFFICES ASSUME part \in {"any", "sound", "single"}, AnyPreset!Init PROVE PresetsInv
  BY DEF Init, PresetsInv
<1>1. phase = "init" /\ file \in {"none", "minimal"} /\ queue = <<>> /\ batch = <<>> /\ jobs = 0
      /\ broken = FALSE
  BY DEF AnyPreset!Init, AnyPreset!NoFile
<1>2. "minimal" \in DOMAIN P!Table
  BY DEF P!Table
<1>3. Len(batch) = 0
  BY <1>1
<1>4. \A limit \in Nat : PresetInv(limit)
  <2>1. phase \in AnyPreset!Phases \ {"invalid"}
    BY <1>1 DEF AnyPreset!Phases
  <2>2. file \in DOMAIN P!Table \cup {"none"}
    BY <1>1, <1>2
  <2>3. broken \in BOOLEAN
    BY <1>1
  <2>4. \A limit \in Nat : jobs \in Nat /\ Len(batch) \in Nat /\ jobs + Len(batch) <= limit + 2
    BY <1>1, <1>3
  <2>5. phase \in {"init", "refused"} /\ phase # "validate"
    BY <1>1
  <2>6. QED
    BY <1>1, <2>1, <2>2, <2>3, <2>4, <2>5, Zenon DEF PresetInv
<1>5. QED
  BY <1>1, <1>4, PresetAssumption DEF PresetsInv, GoesOn

LEMMA FileIsAsked ==
  ASSUME NEW asked, NEW silence, NEW limit, StepIs(asked, silence, limit)
  PROVE  file' = file \/ file' \in asked
BY DEF StepIs, Written, Validated, Taken, Worked, Stopped, presetVars

LEMMA PresetsStay == PresetsInv /\ [Next]_vars => PresetsInv'
<1> SUFFICES ASSUME PresetsInv, [Next]_vars PROVE PresetsInv'
  OBVIOUS
<1> USE PresetAssumption
<1>1. CASE Running("any") /\ AnyPreset!Next
  <2>1. part = "any" /\ part' = "any" /\ PresetInv(MaxJobs)
    BY <1>1 DEF Running, PresetsInv
  <2>2. PresetInv(MaxJobs)'
    BY <1>1, <2>1, AnyPresetSteps, PresetKept
  <2>3. QED
    BY <2>1, <2>2 DEF PresetsInv
<1>2. CASE Running("sound") /\ Sound!Next
  <2>1. /\ part = "sound" /\ part' = "sound" /\ PresetInv(MaxJobs)
        /\ file \notin {"refactor", "deploy"} /\ GoesOn
    BY <1>2 DEF Running, PresetsInv
  <2>2. StepIs(DOMAIN P!Table \ {"refactor", "deploy"}, FALSE, MaxJobs)
    BY <1>2, <2>1, SoundSteps
  <2>3. PresetInv(MaxJobs)'
    BY <2>1, <2>2, PresetKept
  <2>4. GoesOn'
    BY <2>1, <2>2, KeepsGoing
  <2>5. file' \notin {"refactor", "deploy"}
    BY <2>1, <2>2, FileIsAsked
  <2>6. QED
    BY <2>1, <2>3, <2>4, <2>5 DEF PresetsInv
<1>3. CASE Running("single") /\ Single!Next
  <2>1. part = "single" /\ part' = "single" /\ PresetInv(16) /\ file # "pr_review"
    BY <1>3 DEF Running, PresetsInv
  <2>2. StepIs(DOMAIN P!Table \ {"pr_review"}, TRUE, 16)
    BY <1>3, <2>1, SingleSteps
  <2>3. PresetInv(16)'
    BY <2>1, <2>2, PresetKept
  <2>4. file' # "pr_review"
    BY <2>1, <2>2, FileIsAsked
  <2>5. QED
    BY <2>1, <2>3, <2>4 DEF PresetsInv
<1>4. CASE UNCHANGED <<part, presetVars>>
  BY <1>4 DEF PresetsInv, PresetInv, GoesOn, Waiting, Messages, Vocabulary, Preset, presetVars
<1>5. CASE Launching \/ Building
  <2>1. part \in {"launch", "builder"} /\ part' = part
    BY <1>5 DEF Launching, Building
  <2>2. QED
    BY <2>1 DEF PresetsInv
<1>6. QED
  BY <1>1, <1>2, <1>3, <1>4, <1>5 DEF Next, vars

LEMMA PresetsSafe == PresetsInv => PresetsAreLive
<1> SUFFICES ASSUME PresetsInv PROVE PresetsAreLive
  OBVIOUS
<1>1. ASSUME part \in {"any", "sound", "single"}
      PROVE  AnyPreset!EveryHatWakeable
  <2>1. PICK limit : PresetInv(limit)
    BY <1>1 DEF PresetsInv
  <2>2. phase # "invalid"
    BY <2>1 DEF PresetInv
  <2>3. phase = "running" => file \in DOMAIN P!Table
    BY <2>1 DEF PresetInv
  <2>4. QED
    BY <2>2, <2>3, AllAreWakeable DEF AnyPreset!EveryHatWakeable
<1>2. part \in {"any", "sound"} => AnyPreset!TypeOK
  BY PresetTypes DEF PresetsInv
<1>3. part = "sound" => Sound!PromiseInReach
  BY PromiseStaysInReach DEF PresetsInv
<1>4. part = "single" => Single!TypeOK /\ Single!OneHatPerEvent
  BY PresetTypes, OneIsWoken DEF PresetsInv
<1>5. QED
  BY <1>1, <1>2, <1>3, <1>4 DEF PresetsAreLive

(***************************************************************************)
(* For every bound on the jobs of a run: every preset that is written is   *)
(* accepted, and every hat of it can be woken from the starting event;     *)
(* in the ten presets without a dead end a run never comes to a state from *)
(* which the promise cannot be reached; and where each event is for one    *)
(* hat, no event that waits wakes two.                                     *)
(***************************************************************************)
THEOREM PresetsAreLiveHolds == Spec => []PresetsAreLive
<1>1. Spec => []PresetsInv
  BY PresetsBegin, PresetsStay, PTL DEF Spec
<1>2. QED
  BY <1>1, PresetsSafe, PTL
=============================================================================
