SPECIFICATION Spec
CONSTANTS
  p1 = p1
  p2 = p2
  Pods = {p1, p2}
  Absent = Absent
  Strategy = "Shared"
  Fresh = TRUE
  EmitFiles <- SomeEmits
  MaxRetries = 3
  Faults = {"phase", "publish", "clone", "conflict", "ack", "fix", "deadline"}
INVARIANTS
  SyncedBeforeHeard
  FailureIsClean
PROPERTIES
  JobContract
  PodsWindDown
