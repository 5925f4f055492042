SPECIFICATION FairSpec
CONSTANTS
  Pool = {p1}
  P = p1
  NumEntries = 6
  NoPool = NoPool
  Frame = {f1}
  MaxHeld = 1
  QS = 4
  num_rx_queues = 1
  num_tx_queues = 1
  TX_CLEAN_BATCH = 2
  MaxNums = 1
PROPERTY
  RingsAreRefilled
