SPECIFICATION BffSpec
CONSTANTS
  Login = {s1}
  Call = {c1, c2}
  MaxGeneration = 1
SYMMETRY Symmetry
PROPERTIES LoserRetries
CHECK_DEADLOCK FALSE
