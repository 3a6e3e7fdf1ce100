SPECIFICATION Spec
CONSTANTS
  p1 = p1  p2 = p2
  Peers = {p1, p2}
  Tables <- OneTable
  Keys = {1, 2}
  a = a  b = b
  Cols = {a, b}
  MaxValue = 4
  PeerOwned <- OwnsTwo
  Local = "local"
  Bootstrapped <- HasOne
  BroadcastMode = "full_sync"
  ApplyMode = "full_sync"
  Configs <- AllConfigs
  RecordSize = 2
  MsgLens <- MayBeLong
  CommitLen = 1
  MaxTx = 2
  MaxChanges = 2
  MaxFaults = 1
SYMMETRY SymmetricCols
INVARIANTS
  TypeOK
  ConfirmedIsStagedForAll
  NextBatchMovesForward
  QuietPeersAgree
  PeerOwnedRowsUntouched
CHECK_DEADLOCK FALSE
