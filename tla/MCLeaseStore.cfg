\* Two instances and three calls in flight are enough for any two commands of
\* one call to straddle two whole calls of the other instance; four epochs let
\* an instance lose a lease and take it again twice.
CONSTANTS
  i1 = i1
  i2 = i2
  p1 = p1
  Instances = {i1, i2}
  Phones = {p1}
  NoLease = NoLease
  LeaseTtl = 2
  MaxEpoch = 4
  MaxInFlight = 3
SPECIFICATION Spec
INVARIANTS
  TypeOK
  EpochsUnique
PROPERTIES
  OwnEpochsIncrease
  EndsOnlyByHolder
  ExtendedOnlyByOwner
  ImplementsLock
SYMMETRY Symmetry
