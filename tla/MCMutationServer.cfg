SPECIFICATION FairSpec

CONSTANTS
  c1 = c1
  c2 = c2
  Connections <- OneConnection
  Scripts <- MCScripts
  MaxEvents = 1
  Bound = 1
  OutputBreaks = TRUE

INVARIANTS
  OneRun
  ProgressBeforeAnswer
  AnswersRight

PROPERTIES
  EveryRequestAnswered

CHECK_DEADLOCK FALSE
