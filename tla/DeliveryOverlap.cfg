SPECIFICATION Spec
CONSTANTS
  s1 = s1  s2 = s2
  p1 = p1  p2 = p2
  Sessions = {s1, s2}
  Pods = {p1, p2}
  PodOf <- InOnePod
  MaxVersion = 2
  ChanCap = 1
  QueueCap = 1
  PageSize = 2
  AgeLimit = TRUE
  MaxPending = 1
  MaxStamp = 16
  MaxFaults = 1
SYMMETRY SymmetricSessions
INVARIANTS
  TypeOK
  PendingUntilCovered
PROPERTIES
  OnlyMissedIsJumpedOver
  ImplementsFeed
