CONSTANTS
  N = 3
  MaxTerm = 5
  Fencing = TRUE
SPECIFICATION Spec
INVARIANTS TypeOK NoSplitBrain OneWritablePerTerm
