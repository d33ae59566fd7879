CONSTANTS
  Requests = {1}
  MaxNumSeqs = 1
  MaxNumBatchedTokens = 3
  ChunkedPrefillThreshold = 2
  MaxNumPartialPrefills = 1
  MaxLongPartialPrefills = 1
  Policy = "fcfs"
  Priority <- Same
  MaxModelLen = 4
  PromptLens = {3, 4}
  MaxTokens = {1}
SPECIFICATION FairInprocSpec
CHECK_DEADLOCK FALSE
PROPERTY EveryRequestEnds
