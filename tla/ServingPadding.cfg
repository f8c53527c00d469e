CONSTANTS
  Kinds <- PadKinds
  Settings <- PadSettings
  IdLimit = 4
  Tokens <- MCTokens
  Stops <- MCStops
  Pad = 0
  Select <- PadSelect
  DeviceTokens = FALSE
  DeferredDevice = FALSE
  DefaultAhead = 1
  Bucket = 2
  ByteCacheTokens = 4
  SizeLimit = 1000
SPECIFICATION Spec
INVARIANT PrefixIsProcessed
