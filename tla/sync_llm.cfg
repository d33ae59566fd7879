CONSTANTS
  Requests = {1, 2, 3}
  ExternalIds = {"req-0", "req-1"}
  Givens <- Scenarios
  MaxFrames = 2
  MaxMessages = 2
  None = "none"
SPECIFICATION FairSpec
CHECK_DEADLOCK FALSE
INVARIANT OwnResults
PROPERTY CallsEnd
