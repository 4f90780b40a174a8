\* One of the four protocols of a connection at a time (see focus): three sends
\* with a breaker that opens after two; three connections of one phone over two
\* instances with four events around their episodes; one import of two candidates;
\* three events about one edited message with one failure, or one about each of two
\* with two: events and failures make four.  Safety only.  Events and failures are
\* bounded and a batch of work ends: no deadlock check.
INIT SessionInit
NEXT SessionNext
CONSTANTS
  c1 = c1
  w1 = w1
  m1 = m1
  m2 = m2
  Sends = {s1, s2, s3}
  Threshold = 2
  MaxInFlight = 2
  MaxSockets = 2
  MaxBackground = 1
  Free = Free
  Background = Background
  Conns = {c1, c2, c3}
  Instances = {w1, w2}
  None = None
  CasAttempts = 2
  MaxStrikes = 3
  MaxEvents = 4
  Workers = {w1, w2}
  Imports = {a}
  Pairing = Pairing
  Absent = Absent
  Candidates = 2
  Attempts = 2
  MaxEpoch = 3
  MaxSaves = 1
  Targets = {m1, m2}
  Traffic <- MCTraffic
  Memory = 1
  MaxRetries = 1
  MaxTrouble = 4
  Unknown = Unknown
INVARIANTS
  BreakerTypeOK
  InFlightExact
  BreakerBacked
  StallTypeOK
  RestartsCounted
  NoBackoffAfterLogout
  NotDeaf
  OwnerStateStands
  PositionKept
  NoKeyMissed
  WorkCounted
PROPERTY
  NewestStands
SYMMETRY LaterConns
CHECK_DEADLOCK FALSE
