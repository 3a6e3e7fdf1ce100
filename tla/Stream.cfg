SPECIFICATION Spec
CONSTANTS
  s1 = s1
  Streams = {s1}
  ChanCap = 1
  QueueCap = 2
  MaxBatch = 3
  MaxFaults = 1
INVARIANTS TypeOK SentInOrder
PROPERTIES NothingSentAfterReturn HandlerReturns
CHECK_DEADLOCK FALSE
