SPECIFICATION FairSpec
CONSTANTS
  Payload = {"Normal", "Membership"}
  MaxIndex = 2
  MaxVote = 1
  MaxBatch = 2
  Faults = {"crash", "io"}
  MaxFaults = 1
INVARIANTS TypeOK AcknowledgedSurvives FilesFit PublishedIsDurable
PROPERTY DecisionsReachSupervisor
CHECK_DEADLOCK FALSE
