SPECIFICATION Spec
CONSTANTS
  s1 = s1
  Streams = {s1}
  ChanCap = 1
  QueueCap = 1
  MaxBatch = 2
  MaxFaults = 1
INVARIANT NoSendOnClosedChannel
CHECK_DEADLOCK FALSE
