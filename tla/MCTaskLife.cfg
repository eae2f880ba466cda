\* One Task with its Project and Label; one fault.
CONSTANTS
  t = t
  p = p
  q = q
  bug = bug
  ann = ann
  bob = bob
  Names = {t}
  None = None
  Projects = {p, q}
  Labels = {bug}
  Users = {ann, bob}
  Accounts = {ann, bob}
  Wanted <- FewWanted
  MaxUid = 1
  MaxGen = 2
  MaxLag = 1
  MaxFaults = 1
  MaxId = 2
  MaxDep = 2
SPECIFICATION FairSpec
CHECK_DEADLOCK FALSE
ACTION_CONSTRAINT Bounded
INVARIANTS
  TypeOK
  ReadyMeansApplied
PROPERTIES
  NoneForgotten
  Promise
  Converges
