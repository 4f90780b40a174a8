\* Two calls of any kind and three mishaps; four identities, for two connections
\* may be on their way out while one is registered and another takes over.  When
\* the calls have returned and the mishaps are used up there is nothing left to do.
CONSTANTS
  a = a
  b = b
  Conns = {1, 2, 3, 4}
  None = None
  Calls = {a, b}
  Kinds = {"connect", "force", "discard", "logout"}
  Mishaps = {"drop", "loggedOut", "wrongNumber", "stall", "spawnFails", "redialFails", "clearFails"}
  MaxMishaps = 3
SPECIFICATION FairSpec
INVARIANTS
  TypeOK
  OneSocket
  NoOrphan
PROPERTIES
  CallsReturn
  EntryServes
CHECK_DEADLOCK FALSE
