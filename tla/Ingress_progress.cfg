SPECIFICATION FairSpec
CONSTANTS
  Worker = {w1, w2}
  NoWorker = NoWorker
  NMsgs = 1
  NRows = 2
  NConvs = 1
  BatchSize = 2
  MaxTurns = 1
  MaxReasons = 5
  Silent = {1}
  Kinds = {"text"}
  MaxTime = 1
  MaxDeliveries = 2
  MaxFaults = 1
PROPERTY EveryMessageIsHandled
CHECK_DEADLOCK FALSE
