SPECIFICATION FairSpec
CONSTANTS
  Hats = {"planner", "backend", "frontend"}
  NoTarget = NoTarget
  NoCheckpoint = NoCheckpoint
  Triggers <- MCTriggers
  MaxActivations <- MCLimits
  StartingEvent <- Work
  DefaultTopic <- MCDefaults
  Gated = {"frontend"}
  MaxIterations = 5
  CheckpointInterval = 3
  InCluster = FALSE
  Outputs <- MCOutputs
  Logs = {}
  Faults = {"broker", "job", "store"}
  OperatorTopics = {}
  MaxInjections = 0
INVARIANTS
  TypeOK
  ActivationLimit
  IterationBound
  SequenceIncreasing
  ThreeStrikes
  NothingInFlight
PROPERTIES
  Termination
  Contract
