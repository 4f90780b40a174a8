\* A bulk logout and a connect.
CONSTANTS
  a = a
  b = b
  Conns = {1, 2, 3}
  None = None
  Calls = {a, b}
  Kinds = {"connect", "logoutAll"}
  Mishaps = {}
  MaxMishaps = 0
SPECIFICATION BulkSpec
INVARIANTS
  NoOrphan
CHECK_DEADLOCK FALSE
