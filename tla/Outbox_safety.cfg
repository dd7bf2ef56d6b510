SPECIFICATION Spec
CONSTANTS
  Worker = {w1, w2}
  NoWorker = NoWorker
  NRows = 2
  MaxReasons = 1
  MaxFlips = 1
  MaxFaults = 1
SYMMETRY Symmetry
INVARIANTS EnteredAtMostOnce StatusIsTruthful
PROPERTIES DeliveryKept FifoEntry AuthorityAtEntry
CHECK_DEADLOCK FALSE
