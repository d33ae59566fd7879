CONSTANTS
  Requests = {1, 2}
  ExternalIds = {"x", "y"}
  Givens <- Scenarios
  MaxFrames = 2
  None = "none"
SPECIFICATION FairSpec
CHECK_DEADLOCK FALSE
INVARIANTS
  StreamExact
  EndIsTrue
  NoOrphan
  AbortReaches
PROPERTY CallersEnd
