SPECIFICATION FairSpec
CONSTANTS
  Pool = {p1}
  NumEntries = 16
  NoPool = NoPool
  Frame = {f1}
  MaxHeld = 1
  QS = 16
  TX_CLEAN_BATCH = 32
  NoFrame = NoFrame
PROPERTY
  FullQueueRecovers
