\* Two Labels on two instances; a Label is moved to the other instance.
CONSTANTS
  l = l
  m = m
  s1 = s1
  s2 = s2
  First = s1
  Names = {l, m}
  None = None
  Instances = {s1, s2}
  MaxUid = 2
  MaxGen = 2
  MaxLag = 1
  MaxFaults = 0
  MaxId = 2
SPECIFICATION Spec
CHECK_DEADLOCK FALSE
PROPERTIES
  TouchesBacking
