SPECIFICATION MCSpec
CONSTANTS
  m1 = m1
  m2 = m2
  Mutants = {m1, m2}
  Static = {m2}
  Scopes <- MCScopes
  Versions = {1, 2, 3}
  UsesExtra = {1}
  Extras = {1, 2}
  Inputs = {1}
  Roots = {1, 2}
  Refused <- MCRefused
  Early <- MCEarly
  FlakySets <- MCFlakySets
  Options <- MCOptions
  LateFailures = FALSE
  MaxRuns = 2
  MaxEdits = 2
  MaxCopies = 1
  None = None
INVARIANTS CoverageCurrent TestFreeRefused FlakyRetested
PROPERTY CoverageReused
CHECK_DEADLOCK FALSE
