SPECIFICATION MCSpec
CONSTANTS
  Commands <- MCCommands
  Inputs = {1, 2}
  MaxStarts = 4
  MaxLost = 1
  None = None
INVARIANTS MergeWhole MergeReady UnionOfOneCheckout
PROPERTIES PlannedOnce DryRunsPriced
CHECK_DEADLOCK FALSE
