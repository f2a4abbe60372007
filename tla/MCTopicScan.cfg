SPECIFICATION Spec
CONSTANTS
  Patterns <- AllPatterns
  Subjects <- AllSubjects
INVARIANTS
  ScanCorrect
  TriggersAreRight
