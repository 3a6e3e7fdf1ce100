SPECIFICATION Spec
CONSTANTS
  s1 = s1  s2 = s2
  p1 = p1  p2 = p2
  Sessions = {s1}
  Pods = {p1, p2}
  PodOf <- InOnePod
  MaxVersion = 3
  ChanCap = 3
  QueueCap = 1
  PageSize = 2
  AgeLimit = FALSE
  MaxPending = 0
  MaxStamp = 16
  MaxFaults = 1
PROPERTY
  FailoverLosesNothing
