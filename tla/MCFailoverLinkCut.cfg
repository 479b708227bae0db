SPECIFICATION Spec
CONSTANTS
  N = 3
  Lease = 2
  Confirm = 3
  Dead = 5
  Stall = 2
  WdStale = 5
  Retry = 4
  Starts <- MCStarts
  MaxDecisions = 4
  Faults = {"link"}
  MaxFaults = 1
INVARIANTS OneWriter
