SPECIFICATION Spec
CONSTANTS
  Pool = {p1, p2}
  NumEntries = 2
  NoPool = NoPool
  Frame = {f1}
  MaxHeld = 2
  QS = 4
  TX_CLEAN_BATCH = 2
  NoFrame = NoFrame
INVARIANT
  PacketsOfQueuePool
