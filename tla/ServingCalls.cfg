CONSTANTS
  Kinds <- CallKinds
  Settings <- CallSettings
  IdLimit = 4
  Tokens <- MCTokens
  Stops <- MCStops
  Pad = 0
  Select <- MCSelect
  DeviceTokens = TRUE
  DeferredDevice = FALSE
  DefaultAhead = 1
  Bucket = 2
  ByteCacheTokens = 2
  SizeLimit = 1000
  Keys = {"a","b"}
  Buffers = {101,102}
  Params = {201}
  MaxAddress = 16
  Tensors <- Owned
  Sessions <- AllSessions
  OperatorCapacity = 4
  MaxCalls = 4
  MaxEvents = 1
  Absent = Absent
SPECIFICATION FairEitherSpec
INVARIANTS TypeOK BudgetRespected NoOvertaking StorageIsSound SelectionsAreSound ReplayMatchesEager OutputsAreStable RefusalsAreJustified
PROPERTIES InFlightIsHeld AnswersAreGreedy EveryRequestIsAnswered
