SPECIFICATION AwakeSpec
CONSTANTS
  N = 3
  Lease = 2
  Confirm = 3
  Dead = 5
  Stall = 2
  WdStale = 5
  Retry = 4
  Starts <- MCStarts
  MaxDecisions = 4
  Faults = {"isolate", "crash", "hang", "depose", "restart", "link"}
  MaxFaults = 1
INVARIANT OneWritable
PROPERTIES HoldsAuthority FencedBeforePromotion KeepsServing ComesToRest
