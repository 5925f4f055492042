SPECIFICATION Spec
CONSTANTS
  Pool = {p1}
  NumEntries = 4
  NoPool = NoPool
  Frame = {f1}
  MaxHeld = 1
  InitPool = p1
  RingSizes = {2, 3}
  MaxQueues = 2
  MAX_QUEUES = 64
  LinkPolls = 2
INVARIANT
  PhyPowersUp
