\* The engine's thread and one or two others; a file that is full with two rows, and
\* the eviction of one request at a time.
CONSTANTS
  Callers = {"engine", "other"}
  Engine = "engine"
  ReqIds = {"a", "b"}
  Positions = {1, 2}
  MaxRows = 2
  EvictBatch = 1
  MaxCalls = 4
  MaxRestarts = 1
  MaxCpuEntries = 1
  MaxCheckpoints = 2
  CheckpointInterval = 1
SPECIFICATION FairSpec
CHECK_DEADLOCK FALSE
INVARIANTS
  StoresTypeOK
  ConfirmedIsWritten
  RestoreSeesTheSave
PROPERTY WaitsEnd
