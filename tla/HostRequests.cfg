CONSTANTS
  Sessions = {"main", "speech", "reader"}
  Requests = {"a", "c", "d", "x", "t", "y"}
  SessionOf <- Windows
  Method <- Calls
  Helpers = {"warm"}
  HelperOf <- VoiceHelper
  Uploads = {"i"}
  UploadSession <- MainUpload
  UploadFrames = 2
  MaxQueued = 2
  Timeout = 1
  Scenarios <- Users
  Startup = "startup"
  None = None
  Workloads <- Pages
SPECIFICATION FairEitherSpec
INVARIANTS GatesAreSound TranscriptIsComplete UsesAreSound RequestsAreServed AccountsAreSound
PROPERTIES EveryRequestEnds
CHECK_DEADLOCK FALSE
