SPECIFICATION FairSpec
CONSTANTS
  Pool = {p1}
  P = p1
  NumEntries = 5
  NoPool = NoPool
  Frame = {f1}
  MaxHeld = 1
  QS = 2
  num_rx_queues = 2
  num_tx_queues = 1
  TX_CLEAN_BATCH = 1
  MaxNums = 2
INVARIANTS
  TypeOK
  OneOwner
PROPERTY
  RingsAreRefilled
