SPECIFICATION Spec
CONSTANTS
  p1 = p1
  p2 = p2
  Peers = {p1, p2}
  Local = "here"
  Table = "t"
  Tables <- OneTable
  Keys = {1, 2}
  Initial = {1}
  Cols = {"c"}
  MaxValue = 3
  DbRanks <- BothOrders
  PageSize = 1
  MaxEvents = 1
  BroadcastMode = "full_sync"
  ApplyMode = "upsert"
  MaxClock = 2
  MaxFaults = 1
INVARIANTS TypeOK SavedCursorCoversStaged QuietPeersHaveTimelyRows
PROPERTY EventuallyQuiet
CHECK_DEADLOCK FALSE
