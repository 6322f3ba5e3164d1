SPECIFICATION FairSpec
CONSTANTS
  f1 = f1
  f2 = f2
  Fibers <- MCFibers
  Bound = 1
  Ahead = 2
  MaxTicks = 2
  StdoutBreaks = TRUE

PROPERTIES AlwaysExits
CHECK_DEADLOCK FALSE
