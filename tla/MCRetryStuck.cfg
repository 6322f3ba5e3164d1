\* The fiber that attempts its mutant again waits for the slot it holds.
SPECIFICATION FairSpec

CONSTANTS
  s = s
  a = a
  Mutants <- MCMutants
  Static <- MCStatic
  Covered <- MCStatic
  Workers = {w1, w2}
  Size = 1
  MaxRetries = 2
  MaxReuse = 0
  CanReload = TRUE

PROPERTIES
  AllSettle

\* The violation is that the fiber stops.
CHECK_DEADLOCK FALSE
