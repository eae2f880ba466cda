\* README: a Project waits for its parent to be Ready before it creates anything.
CONSTANTS
  a = a
  b = b
  Names = {a, b}
  None = None
  MaxUid = 2
  MaxGen = 2
  MaxLag = 1
  MaxFaults = 0
  MaxId = 2
SPECIFICATION Spec
CHECK_DEADLOCK FALSE
PROPERTIES
  WaitsForReadyParent
