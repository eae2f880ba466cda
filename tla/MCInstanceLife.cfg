\* One VikunjaInstance, edited, deleted and recreated; its Secret and servers change.
CONSTANTS
  v = v
  s1 = s1
  s2 = s2
  t1 = t1
  t2 = t2
  ann = ann
  bob = bob
  carl = carl
  Names = {v}
  None = None
  Servers = {s1, s2}
  Tokens = {t1, t2}
  Account <- Accounts
  MaxUid = 2
  MaxGen = 2
  MaxLag = 1
  MaxFaults = 2
SPECIFICATION FairSpec
CHECK_DEADLOCK FALSE
INVARIANTS
  TypeOK
  ReadyMeansProbed
PROPERTIES
  Follows
