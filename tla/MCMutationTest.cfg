SPECIFICATION FairSpec

CONSTANTS
  m1 = m1
  m2 = m2
  m3 = m3
  m4 = m4
  x = x
  Mutants <- MCMutants
  Outsiders <- MCOutsiders
  Plans <- MCPlans
  Checkers = 1
  Capacity = 2

INVARIANTS
  RulingsRight
  NumbersUnique
  ProgressNeverOverstates

PROPERTIES
  Terminates
  KeepsPromise
