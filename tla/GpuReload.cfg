CONSTANTS
  Sessions = {"main", "speech", "reader"}
  Requests = {"a", "c", "d", "x", "t", "y"}
  SessionOf <- Windows
  Method <- Calls
  Helpers = {"warm"}
  HelperOf <- VoiceHelper
  Uploads = {"i"}
  UploadSession <- MainUpload
  UploadFrames = 2
  MaxQueued = 2
  Timeout = 1
  Scenarios <- OneUser
  Startup = "startup"
  None = None
  Workloads <- Released
SPECIFICATION EitherSpec
INVARIANT BlameIsOwn
CHECK_DEADLOCK FALSE
