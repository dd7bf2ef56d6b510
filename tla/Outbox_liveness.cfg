SPECIFICATION FairSpec
CONSTANTS
  Worker = {w1}
  NoWorker = NoWorker
  NRows = 2
  MaxReasons = 1
  MaxFlips = 1
  MaxFaults = 1
PROPERTIES StopAckLeavesQueue AttemptIsResolved
CHECK_DEADLOCK FALSE
