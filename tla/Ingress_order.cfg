SPECIFICATION Spec
CONSTANTS
  Worker = {w1, w2}
  NoWorker = NoWorker
  NMsgs = 2
  NRows = 2
  NConvs = 1
  BatchSize = 1
  MaxTurns = 2
  MaxReasons = 5
  Silent = {1}
  Kinds = {"text", "stop", "media"}
  MaxTime = 2
  MaxDeliveries = 2
  MaxFaults = 1
SYMMETRY Symmetry
INVARIANTS HandledInOrder TranscriptInOrder NothingKeptAfterStop
CHECK_DEADLOCK FALSE
