SPECIFICATION FairReporterSpec

CONSTANTS
  clear = clear
  plugin = plugin
  f1 = f1
  f2 = f2
  report = report
  Attachments <- MCAttachments
  Testers <- MCTesters
  Engine = report
  ChannelBound = 1
  Batch <- MCBatch

INVARIANTS
  ReportOffered
  FailureTold
  EarlyFailureForgiven

PROPERTIES
  RunGoesOn
