SPECIFICATION FairSpec
CONSTANTS
  Worker = {w1}
  NoWorker = NoWorker
  Quiet = 1
  ParkRetry = 2
  ParkMax = 3
  RemindEvery = 2
  MaxReminders = 1
  ExpireAfter = 3
  MaxInbound = 1
  MaxFlips = 1
  MaxEvents = 2
PROPERTY TestimonyIsServed
CHECK_DEADLOCK FALSE
