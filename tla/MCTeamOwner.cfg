\* One Team; the token is rotated to another user.
CONSTANTS
  t = t
  op = op
  bob = bob
  carl = carl
  Names = {t}
  None = None
  Users = {op, bob}
  FirstOwner = op
  Rosters <- FewRosters
  MaxUid = 1
  MaxGen = 1
  MaxLag = 1
  MaxFaults = 1
  MaxId = 1
  MaxDrift = 0
SPECIFICATION Spec
CHECK_DEADLOCK FALSE
PROPERTIES
  OwnerNeverRemoved
