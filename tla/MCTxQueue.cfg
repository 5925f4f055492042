SPECIFICATION FairSpec
CONSTANTS
  Pool = {p1}
  NumEntries = 4
  NoPool = NoPool
  Frame = {f1, f2}
  MaxHeld = 2
  QS = 4
  TX_CLEAN_BATCH = 2
  NoFrame = NoFrame
INVARIANTS
  TypeOK
  NoPanic
  DmaSafe
  OneOwner
  RingInOrder
  SlotsMatch
PROPERTIES
  FullQueueRecovers
  TxIsFairFifo
