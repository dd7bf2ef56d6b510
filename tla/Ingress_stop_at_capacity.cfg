SPECIFICATION FairSpec
CONSTANTS
  Worker = {w1}
  NoWorker = NoWorker
  NMsgs = 2
  NRows = 2
  NConvs = 1
  BatchSize = 2
  MaxTurns = 2
  MaxReasons = 1
  Silent = {1}
  Kinds = {"text", "stop"}
  MaxTime = 1
  MaxDeliveries = 2
  MaxFaults = 0
PROPERTY StopIsHeard
CHECK_DEADLOCK FALSE
