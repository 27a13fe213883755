SPECIFICATION FairSpec
CONSTANTS
  Users = {alice, bob}
  Requests = {first, second}
  NoOne = NoOne
  Capacity = 2
  MaxChanges = 2
  MaxFaults = 1
CHECK_DEADLOCK FALSE
INVARIANTS
  TypeOK
  SessionsAreCurrent
  WorkersHoldSlot
  NoSpaceLeftBehind
PROPERTIES
  DeletionEnds
