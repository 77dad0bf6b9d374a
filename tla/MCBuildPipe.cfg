CONSTANTS
  Builds <- MixedProject
  CleanName <- Clean
  Limit = 2
  Partials <- WholeOrSplit
SPECIFICATION FairSpec
INVARIANTS BinaryIsOwn SuccessIsComplete
PROPERTIES QuietAfterSuccess Ends
CHECK_DEADLOCK FALSE
