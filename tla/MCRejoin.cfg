SPECIFICATION FairSpec
CONSTANTS
  Slots = {1, 2}
  Seed = TRUE
  Faults = {"die", "kill", "stop"}
  MaxFaults = 2
INVARIANTS FilesAtRest NoStaleMark
PROPERTIES NoExitDuringRejoin ComesBack
CHECK_DEADLOCK FALSE
