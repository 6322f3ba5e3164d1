SPECIFICATION FairWriterSpec

CONSTANTS
  k = k
  m1 = m1
  m2 = m2
  m3 = m3
  Planned <- MCPlanned
  SettledBefore <- MCSettledBefore
  MayFail = TRUE

INVARIANTS
  ClosedComplete

PROPERTIES
  FileGrows
  RecordedWritten
