\* One event of any kind and then fairness: a failure, an unlinked device, a
\* Redis outage, a lease that lapses under a slow owner, or a request of any kind
\* at either instance.  After an unlink or a DELETE nothing is left to serve and
\* the system may stop.
CONSTANTS
  i1 = i1
  i2 = i2
  p1 = p1
  r1 = r1
  r2 = r2
  Instances = {i1, i2}
  Phones = {p1}
  First = i1
  NoLease = NoLease
  NoConn = NoConn
  Nobody = Nobody
  Requests = {r1}
  Kinds = {"connect", "restart", "logout", "import"}
  Disturbances = {"crash", "shutdown", "outage", "giveup", "spawnfail", "rebuild", "unlink", "slow", "reuse"}
  MaxDisturbed = 1
  Alone = TRUE
SPECIFICATION FairSpec
INVARIANTS EpochsAgree
PROPERTIES ServedAgain SelfFences
CHECK_DEADLOCK FALSE
