SPECIFICATION Spec
CONSTANTS
  MaxCalls = 5
INVARIANTS TypeOK AnswersMatch StreamIsClean AtMostTwice
CHECK_DEADLOCK FALSE
