SPECIFICATION Spec
CONSTANTS
  p1 = p1
  p2 = p2
  p3 = p3
  Pods = {p1, p2, p3}
  Absent = Absent
  Strategy = "Shared"
  Fresh = FALSE
  EmitFiles <- NoEmits
  MaxRetries = 3
  Faults = {"conflict", "ack", "deadline"}
INVARIANTS
  LostOnlyToRivals
SYMMETRY PodSymmetry
