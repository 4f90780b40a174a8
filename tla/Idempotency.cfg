\* Three requests for one message at two workers and one mishap, or two requests
\* and two mishaps: a crash, a Redis command rejected after or before its
\* execution, a registry entry lost.  When all are answered nothing is left to do.
CONSTANTS
  w1 = w1
  w2 = w2
  Attempts = {1, 2, 3}
  Workers = {w1, w2}
  Free = Free
  None = None
  Disturbances = {"crash", "redis", "slow"}
  MaxDisturbed = 2
SPECIFICATION Spec
INVARIANTS
  TypeOK
  HolderKeepsLock
  AtMostOnce
  AnswersTrue
  Retracted
PROPERTIES
  MarkerStands
CONSTRAINT Explored
SYMMETRY WorkerSymmetry
CHECK_DEADLOCK FALSE
