SPECIFICATION FairSpec
CONSTANTS
  w1 = w1  w2 = w2  w3 = w3
  o1 = o1  o2 = o2  o3 = o3
  NoOwner = NoOwner
  Workers = {w1, w2, w3}
  Owners = {o1, o2, o3}
  Owner <- DistinctOwner
  Skew <- OneTickSkew
  TTL = 4
  RenewInterval = 2
  StopOnError = TRUE
  MaxLeaseFaults = 3
INVARIANTS
  UnexpiredGrantExclusive
  TimelyHolderKeepsRow
PROPERTIES
  LiveRowLostOnlyByItsRelease
  Failover
