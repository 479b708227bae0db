CONSTANTS
  Synchronous = TRUE
  Watchdog = TRUE
  MaxDecisions = 2
  Faults = {"lost", "late", "promote", "crash", "raft_dir", "worker", "hang", "rejoin"}
  MaxFaults = 1
SPECIFICATION WatchdogSpec
PROPERTIES EventuallyFenced EventuallyRejoined HungIsFenced EventuallyWritable
