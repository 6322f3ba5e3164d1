SPECIFICATION FairSpec
CONSTANTS
  f1 = f1
  f2 = f2
  Fibers <- MCFibers
  Bound = 1
  Ahead = 2
  MaxTicks = 2
  StdoutBreaks = TRUE
INVARIANTS TerminalIsLast FileHasNoGap LastWordTold AllWritten
PROPERTIES Exits
CHECK_DEADLOCK FALSE
