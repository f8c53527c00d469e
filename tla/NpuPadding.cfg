CONSTANTS
  None = None
  Capacity = 10
  LeastExtent = 8
  CompiledChunk = 2
  CaptureMinimum = 2
  PrefillChunk = 2
  Storages = {1, 2, 3}
  Prompts <- Turns
  AnswerTokens = {1, 2}
  MaxTurns = 3
  MaxAnswer = 2
SPECIFICATION Spec
INVARIANT PaddingIsNeverRead
CHECK_DEADLOCK FALSE
