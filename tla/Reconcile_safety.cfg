SPECIFICATION Spec
CONSTANTS
  Worker = {w1, w2}
  NoWorker = NoWorker
  Quiet = 1
  ParkRetry = 1
  ParkMax = 2
  RemindEvery = 2
  MaxReminders = 1
  ExpireAfter = 3
  MaxInbound = 1
  MaxFlips = 1
  MaxEvents = 3
SYMMETRY Symmetry
INVARIANTS TypeOK UnreadIsDue ReadOnce
PROPERTIES ActsOnSilence
CHECK_DEADLOCK FALSE
