\* Two requests of a proxy, again and again, two workers, and one change of
\* ownership or liveness of any kind, besides the claims and renewals that follow.
CONSTANTS
  w1 = w1
  w2 = w2
  r1 = r1
  r2 = r2
  Workers = {w1, w2}
  Requests = {r1, r2}
  None = None
  Changes = {"crash", "handoff", "drain", "lapse", "takeover", "timeout"}
  MaxChanges = 1
SPECIFICATION FairSpec
INVARIANTS
  ServedByOwner
  OneRetryEnough
PROPERTIES
  RoutesSettle
