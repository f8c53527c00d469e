CONSTANTS
  None = None
  Workers = {w1}
  Clients = {"reader", "writer"}
  Loops <- PipelineLoops
  Ordered = {"pipeline", "single"}
  Bound <- PipelineBound
  Body <- PipelineBody
  Script <- PipelineScript
  Flags = {"stage", "ready"}
SPECIFICATION FairPoolSpec
INVARIANTS ContextIsWhole TranslationsAreSound SpeechIsWhole MirrorsAreFresh LoweringIsFaithful StacksAreSound SleepIsJustified
PROPERTIES TranscriptIsOne KeepsPromise PoolReturns
CHECK_DEADLOCK FALSE
