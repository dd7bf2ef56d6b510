SPECIFICATION PromptSpec
CONSTANTS
  Worker = {w1}
  NoWorker = NoWorker
  Quiet = 1
  ParkRetry = 2
  ParkMax = 5
  RemindEvery = 2
  MaxReminders = 1
  ExpireAfter = 7
  MaxInbound = 2
  MaxFlips = 0
  MaxEvents = 0
PROPERTY ParkIsRetried
CHECK_DEADLOCK FALSE
