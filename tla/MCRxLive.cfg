SPECIFICATION FairSpec
CONSTANTS
  Pool = {p1}
  RxPool = p1
  NumEntries = 5
  NoPool = NoPool
  Frame = {f1, f2}
  MaxHeld = 0
  QS = 4
  MaxNums = 4
  EOP = {TRUE}
  NoFrame = NoFrame
PROPERTY
  RxIsFairFifo
