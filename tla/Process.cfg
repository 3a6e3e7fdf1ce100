SPECIFICATION ProcessSpec
CONSTANTS
  Jobs = {"j1", "j2", "down"}
  DownJobs = {"down"}
  Latest = 2
  MaxDeaths = 1
  Configs <- SomeConfigs
  InitJob = "j1"
  Peers = {"b"}
  MaxFailures = 1
INVARIANTS ProcessTypeOK SchemaMatchesVersion PoolOutlivesStreams ExitIsClean PollingTablesAreStamped
PROPERTY StopCompletes
CHECK_DEADLOCK FALSE
