SPECIFICATION Spec
CONSTANTS
  CountMax = 7
  RequestSizes = {0, 1, 3, 7}
INVARIANTS
  CumulativeWithinLimit
  BlocksBounded
  IInv
PROPERTIES
  FirstRefusalStands
CHECK_DEADLOCK FALSE
