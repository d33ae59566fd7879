CONSTANTS
  Requests = {1, 2, 3}
  MaxNumSeqs = 2
  MaxNumBatchedTokens = 3
  ChunkedPrefillThreshold = 2
  MaxNumPartialPrefills = 1
  MaxLongPartialPrefills = 1
  Policy = "fcfs"
  Priority <- Same
  MaxModelLen = 6
  PromptLens = {1, 3}
  MaxTokens = {1, 2}
SPECIFICATION Spec
CHECK_DEADLOCK FALSE
INVARIANT StateFollowsRequest
