SPECIFICATION FairSpec

CONSTANTS
  m1 = m1
  m2 = m2
  m3 = m3
  Mutants <- MCMutants
  Undescribable <- MCUndescribable
  Checkers = 2
  Slots = 2
  Concurrency = 2
  Overlap = FALSE

PROPERTIES
  KeepsChain
  StreamEnds

CHECK_DEADLOCK FALSE
