SPECIFICATION FairSpec
CONSTANTS
  Tasks = {1, 2, 3}
  Models = {1, 2, 3, 4}
  Transactional = {3, 4}
  Default = 2
  Image = 4
  None = 0
  MaxFailures = 2
CHECK_DEADLOCK FALSE
INVARIANTS
  TypeOK
  PlansAreSound
  OutcomeIsTrue
  NoJobLeftBehind
  OneFailureRecovered
PROPERTIES
  WorkflowEnds
