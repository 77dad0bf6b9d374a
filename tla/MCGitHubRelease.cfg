CONSTANTS
  a1 = a1
  a2 = a2
  Artifacts <- TwoArtifacts
  NameOf <- TwoNames
  Limit = 2
  MaxAttempts = 2
  MaxFaults = 3
  MaxRuns = 2
  Options <- LookupOptions
SYMMETRY Interchangeable
SPECIFICATION Spec
INVARIANTS SuccessIsWhole CalmRunSucceeds
PROPERTIES PublishedWhole PublishedStays
CHECK_DEADLOCK FALSE
