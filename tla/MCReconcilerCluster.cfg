SPECIFICATION FairSpec
CONSTANTS
  Hats = {"planner", "backend", "frontend"}
  NoTarget = NoTarget
  NoCheckpoint = NoCheckpoint
  Triggers <- MCTriggers
  MaxActivations <- MCLimits
  StartingEvent <- Work
  DefaultTopic <- MCDefaults
  Gated = {"frontend"}
  MaxIterations = 3
  CheckpointInterval = 2
  InCluster = TRUE
  Outputs <- PodOutputs
  Logs <- PodLogs
  Faults = {"subscription"}
  OperatorTopics <- OperatorMay
  MaxInjections = 1
INVARIANTS
  OneJobPerHat
  PredecessorSettled
  SeenIsDelivered
PROPERTIES
  RunWindsDown
