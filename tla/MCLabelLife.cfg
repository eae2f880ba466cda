\* One Label on either of two instances; one fault.
CONSTANTS
  l = l
  m = m
  s1 = s1
  s2 = s2
  Names = {l}
  None = None
  Instances = {s1, s2}
  First = s1
  MaxUid = 2
  MaxGen = 2
  MaxLag = 1
  MaxFaults = 1
  MaxId = 2
SPECIFICATION FairSpec
CHECK_DEADLOCK FALSE
ACTION_CONSTRAINT Bounded
INVARIANTS
  TypeOK
  ReadyMeansApplied
PROPERTIES
  TouchesOwn
  Converges
