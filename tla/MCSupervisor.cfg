CONSTANTS
  Synchronous = TRUE
  Watchdog = TRUE
  MaxDecisions = 3
  Faults = {"lost", "late", "promote", "crash", "raft_dir", "worker", "hang", "rejoin"}
  MaxFaults = 2
SPECIFICATION Spec
INVARIANTS TypeOK FencedAfterPass MarkedNeverBootstraps StallNeedsDecision
PROPERTIES UnfenceAfterSync FencedUntilAuthorized
