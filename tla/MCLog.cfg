CONSTANTS
  Proc = {p1, p2, p3}
  Block = {b1, b2}
  Value = {0, 1}
  InitVal = 0
  MAXOPBLOCKS = 2
  LOGSIZE = 4
  NLOG = 4
  OpBlocks = 1
  NotCached = NotCached
  Torn = Torn
SPECIFICATION LiveSpec
INVARIANTS LogInv ReserveInv
PROPERTIES SleeperIsWoken Atomicity
