\* One Project, deleted and recreated under its name, with one fault.
CONSTANTS
  a = a
  b = b
  Names = {a}
  None = None
  MaxUid = 2
  MaxGen = 2
  MaxLag = 1
  MaxFaults = 1
  MaxId = 3
SPECIFICATION FairSpec
CHECK_DEADLOCK FALSE
ACTION_CONSTRAINT Patient
INVARIANTS
  TypeOK
  IdOwned
  CreatedOnlyWithFinalizer
  ReadyMeansApplied
PROPERTIES
  IdNeverDropped
  VanishesClean
  Promise
  DeletionCompletes
