\* README: deleting the Kubernetes object deletes its object in Vikunja first.
CONSTANTS
  a = a
  b = b
  Names = {a}
  None = None
  MaxUid = 2
  MaxGen = 2
  MaxLag = 1
  MaxFaults = 0
  MaxId = 2
SPECIFICATION Spec
CHECK_DEADLOCK FALSE
INVARIANTS
  NoOrphan
