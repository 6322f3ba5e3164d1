SPECIFICATION FairSpec

CONSTANTS
  s = s
  c = c
  a = a
  Mutants <- MCMutants
  Static <- MCStatic
  Covered <- MCCovered
  Workers = {w1, w2}
  Size = 2
  MaxRetries = 1
  MaxReuse = 0
  CanReload = TRUE

INVARIANTS
  TriesOnSoundWorker
  CleanEnvironment
  CoveringTestsRan
  HeldWhileNeeded

PROPERTIES
  AllSettle
