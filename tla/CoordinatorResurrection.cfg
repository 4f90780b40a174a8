\* One phone in service, one DELETE and one restart of it.
CONSTANTS
  i1 = i1
  i2 = i2
  p1 = p1
  r1 = r1
  r2 = r2
  Instances = {i1, i2}
  Phones = {p1}
  First = i1
  NoLease = NoLease
  NoConn = NoConn
  Nobody = Nobody
  Requests = {r1, r2}
  Kinds = {"restart", "logout"}
  Disturbances = {}
  MaxDisturbed = 0
  Alone = FALSE
SPECIFICATION ScaleOutSpec
PROPERTIES NoResurrection
