SPECIFICATION FairSpec
CONSTANTS
  s1 = s1  s2 = s2
  p1 = p1  p2 = p2
  Sessions = {s1}
  Pods = {p1}
  PodOf <- InOnePod
  MaxVersion = 2
  ChanCap = 1
  QueueCap = 1
  PageSize = 2
  AgeLimit = FALSE
  MaxPending = 0
  MaxStamp = 16
  MaxFaults = 3
PROPERTIES
  OnlyMissedIsJumpedOver
  EventuallyDrained
