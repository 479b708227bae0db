SPECIFICATION FairSpec
CONSTANTS
  Configs <- MCConfigs
  Bad = Bad
  Slots = {1, 2}
  MaxMiss = 2
  Every = 2
  Faults = {"restart", "stall", "crash", "hang", "port", "store"}
  MaxFaults = 3
PROPERTIES WatchedAgain SilentIsFenced
CHECK_DEADLOCK FALSE
