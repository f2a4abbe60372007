------------------------------ MODULE Commands ------------------------------
(***************************************************************************)
(* The commands of boring-cli: processes that start, continue and inspect  *)
(* runs; a job built from a configuration and read by an agent; and runs   *)
(* of the presets.  Each behaviour is of one of them, "part"; the          *)
(* variables of the others keep one value.                                 *)
(***************************************************************************)
EXTENDS FiniteSets, Integers, Sequences

CONSTANTS
  Processes, Settings, MaxFaults,               \* of the launches
  Configs, Hats, Vaults, EnvVarName, ParseName, Modes,  \* of the job builder
  MaxJobs                                       \* of a preset's run

VARIABLES
  part,
  setting, option, pc, inline, checkpoint, scratchpad, began, keys, latest,
  run, resumed, task, saves, code, faults,      \* the launches
  config, hat, vault, mode, spec, agent,        \* the job builder
  phase, file, queue, batch, jobs, broken       \* the presets

Launches == INSTANCE Launch
Builder == INSTANCE JobBuilder

(***************************************************************************)
(* All presets and a name that is none; those with a way on from every     *)
(* event; those meant for one hat at a time.                               *)
(***************************************************************************)
P == INSTANCE Presets

AnyPreset == INSTANCE PresetRun WITH
  Asked <- DOMAIN P!Table \cup {"unknown"}, Silence <- TRUE, MaxCopies <- 2
Sound == INSTANCE PresetRun WITH
  Asked <- DOMAIN P!Table \ {"refactor", "deploy"}, Silence <- FALSE, MaxCopies <- 2
Single == INSTANCE PresetRun WITH
  Asked <- DOMAIN P!Table \ {"pr_review"}, Silence <- TRUE, MaxCopies <- 1, MaxJobs <- 16

ASSUME LaunchAssumption ==
  /\ IsFiniteSet(Processes)
  /\ Settings \subseteq Launches!Setting
  /\ MaxFaults \in Nat

ASSUME BuilderAssumption ==
  /\ Configs \subseteq Builder!Config
  /\ \A h \in Hats : Builder!IsHat(h)

ASSUME PresetAssumption == MaxJobs \in Nat

-----------------------------------------------------------------------------
launchVars == <<setting, option, pc, inline, checkpoint, scratchpad, began, keys, latest,
                run, resumed, task, saves, code, faults>>
builderVars == <<config, hat, vault, mode, spec, agent>>
presetVars == <<phase, file, queue, batch, jobs, broken>>
vars == <<part, launchVars, builderVars, presetVars>>

NoLaunch ==
  /\ setting = <<>> /\ option = <<>> /\ pc = <<>> /\ inline = "" /\ checkpoint = <<>>
  /\ scratchpad = {} /\ began = <<>> /\ keys = <<>> /\ latest = <<>> /\ run = <<>>
  /\ resumed = <<>> /\ task = <<>> /\ saves = <<>> /\ code = <<>> /\ faults = 0
NoBuilder ==
  /\ config = <<>> /\ hat = <<>> /\ vault = <<>> /\ mode = "" /\ spec = <<>> /\ agent = <<>>
NoPreset ==
  phase = "" /\ file = "" /\ queue = <<>> /\ batch = <<>> /\ jobs = 0 /\ broken = FALSE

Init ==
  \/ part = "launch" /\ Launches!Init /\ NoBuilder /\ NoPreset
  \/ part = "builder" /\ Builder!Init /\ NoLaunch /\ NoPreset
  \/ part \in {"any", "sound", "single"} /\ AnyPreset!Init /\ NoLaunch /\ NoBuilder

Launching == part = "launch" /\ UNCHANGED <<part, builderVars, presetVars>>
Building == part = "builder" /\ UNCHANGED <<part, launchVars, presetVars>>
Running(p) == part = p /\ UNCHANGED <<part, launchVars, builderVars>>

Next ==
  \/ Launching /\ Launches!Next
  \/ Building /\ Builder!Next
  \/ Running("any") /\ AnyPreset!Next
  \/ Running("sound") /\ Sound!Next
  \/ Running("single") /\ Single!Next

Spec == Init /\ [][Next]_vars

-----------------------------------------------------------------------------
(***************************************************************************)
(* What is continued was saved as a whole, and, unless processes have      *)
(* driven it apart, is no older than when the search began; a run that is  *)
(* not continued is nobody else's; and while writes are whole, --continue  *)
(* starts a new run only where there is none to continue.  Of processes    *)
(* one after the other, besides: every run has the prompt it was given,    *)
(* and no run is driven apart.                                             *)
(***************************************************************************)
RunsKeepApart ==
  part = "launch" =>
    /\ Launches!TypeOK
    /\ Launches!ResumedIsSaved /\ Launches!FreshIsNew /\ Launches!ContinueFinds
    /\ Launches!OwnPrompt /\ Launches!NeverForks

(***************************************************************************)
(* No job is built without the secrets its hat asks for, each from the     *)
(* first provider that has it; the agent works with the broker, the store  *)
(* and the repository of the configuration, and runs the hat's command or  *)
(* else the backend.                                                       *)
(***************************************************************************)
JobsAsConfigured ==
  part = "builder" =>
    /\ Builder!TypeOK
    /\ Builder!SecretsOrNoJob
    /\ Builder!AgentFollowsConfig /\ Builder!AgentRunsCommand

(***************************************************************************)
(* Every preset is accepted, and the starting event can reach all its      *)
(* hats; in those without a dead end the promise stays in reach; in those  *)
(* for one hat at a time no event wakes two.                               *)
(***************************************************************************)
PresetsAreLive ==
  /\ part \in {"any", "sound", "single"} => AnyPreset!EveryHatWakeable
  /\ part \in {"any", "sound"} => AnyPreset!TypeOK
  /\ part = "sound" => Sound!PromiseInReach
  /\ part = "single" => Single!TypeOK /\ Single!OneHatPerEvent
=============================================================================
