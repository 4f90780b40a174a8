\* One acquisition between the two commands of another is enough.
CONSTANTS
  i1 = i1
  i2 = i2
  p1 = p1
  Instances = {i1, i2}
  Phones = {p1}
  NoLease = NoLease
  LeaseTtl = 1
  MaxEpoch = 2
  MaxInFlight = 2
SPECIFICATION Spec
PROPERTIES
  SuccessorEpochsIncrease
