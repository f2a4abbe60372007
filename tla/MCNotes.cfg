SPECIFICATION Spec
CONSTANTS
  Lines <- MCLines
  MaxLines = 4
  PromiseEdges = {"none", "dash"}
  BaseSequence = 7
  Outputs <- MCOutputs
  MaxNotes = 8
  MaxFaults = 3
  TornWrites = TRUE
  h1 = h1
  h2 = h2
  Hats = {h1, h2}
  Missing = Missing
  Edits <- MCEdits
  MaxRounds = 2
  Faults = {"get", "list", "put", "command"}
INVARIANTS
  EventsAsPrinted
  NotesAreKept
PROPERTIES
  ScratchpadsGrow
CHECK_DEADLOCK FALSE
SYMMETRY HatSymmetry
