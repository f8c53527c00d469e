CONSTANTS
  Revisions <- TwoRevisions
  FileList <- TwoFiles
  Digested = {"weights"}
  Size = 2
  MaxAttempts = 2
  MaxFaults = 2
  MaxRemovals = 1
  None = None
  Requests = {"c", "d", "t", "r"}
  Scenarios <- AllScenarios
  Draft = draft
  Nobody = nobody
SPECIFICATION EitherSpec
INVARIANT ReadingsKeepTheirRate
CHECK_DEADLOCK FALSE
