SPECIFICATION FairSpec
CONSTANTS
  first = first
  other = other
  Sdxl = sdxl
  realvis = realvis
  Jobs = {first, other}
  Engines = {sdxl, realvis}
  Owner <- JobOwner
  None = None
  MaxQueue = 1
  MaxOwnerPending = 1
INVARIANTS
  TypeOK
  GeneratesWithItsEngine
  PipelineAccounted
PROPERTIES
  EveryJobEnds
  SessionEnds
