CONSTANTS
  VariantFields <- Fields
  NoVariant = ""
  ProjectName = "app"
  Scenarios <- AllScenarios
  Faulty <- AllSteps
  MaxFaults = 2
  MaxRuns = 2
  Repos <- AllRepos
SPECIFICATION Spec
INVARIANTS RefersToReleased PullRequestIsWhole OnePerPlatform AurFilesAgree SkippedLeavesNothing
  OnlyValidatedLeaves NoDuplicateApps ManifestJoinsThisRun ContextKeepsApart 
PROPERTIES AttestsWhatIsThere
