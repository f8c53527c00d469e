CONSTANTS
  None = None
  Tasks = {"usb","https"}
  Kinds <- Every
  Buffers = 3
  AudioQueue = 2
  AudioBatch = 2
  MaxPackets = 5
  Length = 1
  Requests = {"photo"}
  SessionSeconds <- Photo
  TicketSeconds = 1
  ReplaySlots = 1
  Epochs = {1}
  Budgets <- Faults
  MaxTime = 2
  NoTime = NoTime
SPECIFICATION EitherSpec
INVARIANTS CaptureIsSound
PROPERTIES TicketsAreSound TasksEnd
CHECK_DEADLOCK FALSE
