SPECIFICATION ResumeFairSpec
CONSTANTS
  Hats = {"planner", "builder"}
  NoTarget = NoTarget
  NoCheckpoint = NoCheckpoint
  Triggers <- MCTriggers
  MaxActivations <- MCLimits
  StartingEvent <- Work
  DefaultTopic <- MCDefaults
  Gated = {}
  MaxIterations = 2
  CheckpointInterval = 1
  InCluster = TRUE
  Outputs <- MCOutputs
  Logs <- MCLogs
  Faults = {}
  OperatorTopics <- OperatorMay
  MaxInjections = 1
  MaxRestarts = 2
INVARIANTS StartedOnce OncePerEventInOrder
PROPERTIES CheckpointAdvances RunsEnd
CHECK_DEADLOCK FALSE
