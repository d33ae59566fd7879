\* Three requests on two slots; long prompts take several chunks, and the token
\* budget holds one chunk and one decode, so nothing starves.  The system stops
\* when the last request has ended.
CONSTANTS
  Requests = {1, 2, 3}
  MaxNumSeqs = 2
  MaxNumBatchedTokens = 3
  ChunkedPrefillThreshold = 2
  MaxNumPartialPrefills = 1
  MaxLongPartialPrefills = 1
  Policy = "fcfs"
  Priority <- Same
  MaxModelLen = 5
  PromptLens = {2, 4, 5}
  MaxTokens = {2, 4}
SPECIFICATION Spec
CHECK_DEADLOCK FALSE
INVARIANTS
  OnePlace
  SlotsFollowRunning
  ProgressMatchesOutput
  OutputEnds
  StepLimits
  OwnStateUntilRelocated
PROPERTY NothingAfterTheEnd
