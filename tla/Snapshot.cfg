SPECIFICATION Spec
CONSTANTS
  Keys = {1, 2}
  InitialKeys = {1, 2}
  ChunkSize = 1
  QueueCap = 2
  MaxLog = 2
  MaxFaults = 2
INVARIANTS TypeOK CheckpointIsBehindRows SeededIsComplete CompleteAfterCatchUp
PROPERTY EventuallySeeded
CHECK_DEADLOCK FALSE
