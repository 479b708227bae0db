SPECIFICATION Spec
CONSTANTS
  N = 3
  MaxWal = 2
  MaxDecisions = 2
  Faults = {"crash", "restart", "cut", "probe"}
  MaxFaults = 1
INVARIANT AckedKept
CHECK_DEADLOCK FALSE
