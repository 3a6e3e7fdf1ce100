SPECIFICATION Spec
CONSTANTS
  KeyIDs = {"k1", "k2"}
  FieldKeyID = "k1"
  Sources <- TwoSources
  PeerKey = 9
  RetryAttempts = 2
  MaxChanges = 2
  MaxFaults = 2
  MaxWrites = 2
INVARIANTS TypeOK SnapshotIsUsable CopyOpensAlike
PROPERTIES RefreshIsAllOrNothing StaleKeysOnlyDelay ReadyAgain
CHECK_DEADLOCK FALSE
