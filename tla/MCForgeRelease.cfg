CONSTANTS
  a1 = a1
  a2 = a2
  Artifacts <- TwoArtifacts
  Limit = 2
  MaxAttempts = 2
  MaxFaults = 2
  MaxRuns = 2
  Projects <- AllProjects
SYMMETRY Interchangeable
SPECIFICATION Spec
INVARIANTS SuccessServesThisRun NotesTellEach CalmRunSucceeds
PROPERTIES NotesKeptOnce
