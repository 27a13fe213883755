SPECIFICATION FairSpec
CONSTANTS
  first = first
  second = second
  specialist = specialist
  Orchestrator = orchestrator
  Requests = {first, second}
  KindsOf <- AnyAndAuto
  DrawnBy <- Earlier
  Troubled = {first}
  Models = {orchestrator, specialist}
  None = None
  DailyLimit = 2
CHECK_DEADLOCK FALSE
INVARIANTS
  TypeOK
  ChargedIffAnswered
PROPERTIES
  AutoLeavesOrchestrator
  EveryRequestEnds
