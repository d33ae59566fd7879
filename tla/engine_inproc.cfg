\* LLM's in-process engine: aborts between steps leak slots, until allocate raises.
\* Prompts are shorter than max_model_len.  Priority queues, the latest request first.
CONSTANTS
  Requests = {1, 2, 3}
  MaxNumSeqs = 2
  MaxNumBatchedTokens = 3
  ChunkedPrefillThreshold = 2
  MaxNumPartialPrefills = 1
  MaxLongPartialPrefills = 1
  Policy = "priority"
  Priority <- LatestFirst
  MaxModelLen = 6
  PromptLens = {1, 3}
  MaxTokens = {1, 2}
SPECIFICATION FairInprocSpec
CHECK_DEADLOCK FALSE
INVARIANT RaiseMeansLeak
PROPERTY EveryRequestEnds
