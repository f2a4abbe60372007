SPECIFICATION ResumeSpec
CONSTANTS
  Hats = {"planner", "builder"}
  NoTarget = NoTarget
  NoCheckpoint = NoCheckpoint
  Triggers <- MCTriggers
  MaxActivations <- MCLimits
  StartingEvent <- Work
  DefaultTopic <- MCDefaults
  Gated = {}
  MaxIterations = 3
  CheckpointInterval = 1
  InCluster = FALSE
  Outputs <- MCOutputs
  Logs = {}
  Faults = {}
  OperatorTopics <- OperatorMay
  MaxInjections = 0
  MaxRestarts = 1
INVARIANT NothingStranded
CHECK_DEADLOCK FALSE
