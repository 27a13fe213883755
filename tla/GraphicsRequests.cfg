SPECIFICATION FairSpec
CONSTANTS
  drawing = drawing
  redrawing = redrawing
  NoOne = NoOne
  Others = Others
  Requests = {drawing, redrawing}
  DailyLimit = 1
  Days = 1
  PostTime = 1
  PassTime = 1
  PendingTimeout = 2
  AcceptedTimeout = 3
  SlotLease = 7
INVARIANTS
  TypeOK
  QuotaMatchesRows
  SlotFollowsRequest
  InFlightNotAbandoned
PROPERTIES
  EveryRequestSettles
