SPECIFICATION Spec
CONSTANTS
  Calls = {1, 2, 3}
  Hats <- Both
  HatOf <- Three
  LongHats = {}
  Overlap = FALSE
  MaxFaults = 2
INVARIANTS
  TableIsCurrent
PROPERTIES
  Contract
  EveryoneAnswered
