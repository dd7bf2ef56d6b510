SPECIFICATION PromptSpec
CONSTANTS
  Worker = {w1}
  NoWorker = NoWorker
  Quiet = 1
  ParkRetry = 2
  ParkMax = 3
  RemindEvery = 2
  MaxReminders = 0
  ExpireAfter = 3
  MaxInbound = 0
  MaxFlips = 1
  MaxEvents = 1
PROPERTY SilenceEnds
CHECK_DEADLOCK FALSE
