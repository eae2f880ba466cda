\* One Team, three users; one fault, and an edit or a change by another client.
CONSTANTS
  t = t
  op = op
  bob = bob
  carl = carl
  Names = {t}
  None = None
  Users = {op, bob, carl}
  FirstOwner = op
  Rosters <- FewRosters
  MaxUid = 1
  MaxGen = 2
  MaxLag = 1
  MaxFaults = 1
  MaxId = 2
  MaxDrift = 1
SPECIFICATION FairSpec
CHECK_DEADLOCK FALSE
ACTION_CONSTRAINT Bounded
INVARIANTS
  TypeOK
  ReadyMeansApplied
  OwnerStays
PROPERTIES
  NoneForgotten
  Converges
