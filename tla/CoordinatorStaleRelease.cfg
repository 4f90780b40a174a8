\* One rebalance and one POST /connections for the phone that moves.
CONSTANTS
  i1 = i1
  i2 = i2
  p1 = p1
  r1 = r1
  r2 = r2
  Instances = {i1, i2}
  p2 = p2
  Phones = {p1, p2}
  First = i1
  NoLease = NoLease
  NoConn = NoConn
  Nobody = Nobody
  Requests = {r1}
  Kinds = {"connect"}
  Disturbances = {"rebalance"}
  MaxDisturbed = 1
  Alone = FALSE
SPECIFICATION ScaleOutSpec
PROPERTIES ReleasesOnlyUnused
