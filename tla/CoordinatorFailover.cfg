\* Two instances.  Either both have just started and one phone is unowned: who
\* takes over from whom, with any two of the failures listed between any two
\* steps (a second crash during the recovery from a first, a lease that runs out
\* under a stalled owner).  Or one of them serves two phones when the second one
\* joins: fair shares of one phone each, with one of those events: the rebalance
\* that gives a phone away, or one failure.
CONSTANTS
  i1 = i1
  i2 = i2
  p1 = p1
  p2 = p2
  Instances = {i1, i2}
  Phones = {p1, p2}
  First = i1
  NoLease = NoLease
  NoConn = NoConn
  Nobody = Nobody
  Requests = {}
  Kinds = {}
  Disturbances = {"crash", "shutdown", "giveup", "spawnfail", "rebuild", "rebalance",
                  "slow"}
  MaxDisturbed = 2
  Alone = FALSE
SPECIFICATION StartOrScaleOutSpec
INVARIANTS TypeOK SocketsLeased
PROPERTIES ReleasesOnlyUnused HandoffHonoured
SYMMETRY PhoneSymmetry
