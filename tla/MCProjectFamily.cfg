\* Two Projects, one of which may be the other's parent, with one fault.
CONSTANTS
  a = a
  b = b
  Names = {a, b}
  None = None
  MaxUid = 2
  MaxGen = 1
  MaxLag = 1
  MaxFaults = 1
  MaxId = 3
SPECIFICATION Spec
CHECK_DEADLOCK FALSE
ACTION_CONSTRAINT InstanceUp
SYMMETRY Symmetry
INVARIANTS
  ReadyMeansApplied
