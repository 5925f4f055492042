SPECIFICATION Spec
CONSTANTS
  Pool = {p1}
  RxPool = p1
  NumEntries = 5
  NoPool = NoPool
  Frame = {f1, f2}
  MaxHeld = 1
  QS = 4
  MaxNums = 4
  EOP = {TRUE, FALSE}
  NoFrame = NoFrame
INVARIANTS
  TypeOK
  OnlyLongFramePanics
  DmaSafe
  OneOwner
  RingInOrder
  SlotsMatch
CHECK_DEADLOCK FALSE
