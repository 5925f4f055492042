SPECIFICATION AccessesSpec
CONSTANTS
  InOrder = TRUE
  QS = 4
  TX_CLEAN_BATCH = 2
  NumEntries = 5
  Frame = {f1, f2}
  NoFrame = NoFrame
  Thread = {t1}
  PoolEntries = 4
  Port = {p1}
  Resource = {phy_access, eeprom}
  TryCount = 3
  PhyBit = {8, 11}
INVARIANTS
  AccessesTypeOK
  NotWithFirmware
  BitsAreKept
  PhyIsPoweredUp
PROPERTIES
  TxIsFifo
  RxIsFifo
  ImplementsMemPool
  OpenReturns
CHECK_DEADLOCK FALSE
