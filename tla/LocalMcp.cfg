SPECIFICATION FairSpec
CONSTANTS
  Conns = {c1, c2, c3}
  Calls = {first, second}
  Schemas = {old, new}
  None = None
  MaxDrops = 1
CHECK_DEADLOCK FALSE
INVARIANTS
  TypeOK
  HubConsistent
PROPERTIES
  ComesOnline
