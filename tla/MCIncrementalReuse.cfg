SPECIFICATION MCSpec
CONSTANTS
  m1 = m1
  m2 = m2
  Mutants <- MCMutants
  Static = {m1}
  Versions = {1, 2}
  Scopes <- MCScopes
  Outcomes = {"tested", "CompileError", "wallClock"}
  MaxRuns = 3
  MaxEdits = 2
  MaxCopies = 1
  EditsMidRun = FALSE
  None = None
INVARIANTS
  ReuseSound
  TimeoutReproduced
PROPERTIES
  ReportedReused
CHECK_DEADLOCK FALSE
