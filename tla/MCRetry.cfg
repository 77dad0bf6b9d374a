CONSTANTS
  Errors <- AllErrors
  Configured <- UpToThree
  Predicates <- AllPredicates
  BackOff = 1
  MaxDelay = 5
SPECIFICATION RetrySpec
CHECK_DEADLOCK FALSE
INVARIANTS BoundedCalls NoEarlySurrender
