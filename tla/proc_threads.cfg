CONSTANTS
  Requests = {1, 2}
  MaxNumSeqs = 1
  MaxNumBatchedTokens = 3
  ChunkedPrefillThreshold = 2
  MaxNumPartialPrefills = 1
  MaxLongPartialPrefills = 1
  Policy = "fcfs"
  Priority <- Same
  MaxModelLen = 5
  PromptLens = {2, 4}
  MaxTokens = {2}
  ShutdownTimeouts = {0, 30}
SPECIFICATION FairProcSpec
CHECK_DEADLOCK FALSE
INVARIANTS
  ProcTypeOK
  AnsweredOnce
  AbortNotLost
  ExitEndsRequests
  NoLostWakeup
PROPERTY AllEnds
