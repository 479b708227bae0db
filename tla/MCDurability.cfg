CONSTANTS
  N = 5
  AckQuorum = 3
  MaxLsn = 3
  MaxTerm = 5
SPECIFICATION Spec
INVARIANTS TypeOK NoAckedLoss
CHECK_DEADLOCK FALSE
