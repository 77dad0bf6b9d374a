CONSTANTS
  VariantFields <- Fields
  NoVariant = ""
  ProjectName = "app"
  Scenarios <- Branches
  Faulty <- AllSteps
  MaxFaults = 1
  MaxRuns = 1
  Repos <- AllRepos
SPECIFICATION Spec
INVARIANTS WhereConfigured
