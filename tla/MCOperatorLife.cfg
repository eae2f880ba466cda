\* One Project and its VikunjaInstance; one fault.
CONSTANTS
  a = a
  v = v
  s = s
  t = t
  ann = ann
  Names = {a}
  None = None
  Instance = v
  Server = s
  Tokens = {t}
  Account <- Accounts
  MaxUid = 1
  MaxGen = 1
  MaxLag = 1
  MaxFaults = 1
  MaxId = 2
SPECIFICATION FairSpec
CHECK_DEADLOCK FALSE
ACTION_CONSTRAINT Bounded
PROPERTIES
  Promise
  DeletionCompletes
  Converges
