SPECIFICATION MCSpec
CONSTANTS
  Calls = {c1, c2}
  c1 = c1
  c2 = c2
  Kind = "local"
  MaxFaults = 2
  Jobs = {"a", "b"}
  Speaking = {"a"}
  MaxEmits = 2
INVARIANTS
  HeardAsSaid
PROPERTIES
  Contract
  AnsweredAtEnd
  HeardInTheEnd
