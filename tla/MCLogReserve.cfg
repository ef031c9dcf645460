CONSTANTS
  Proc = {p1, p2, p3}
  Block = {b1, b2, b3, b4, b5, b6}
  Value = {0}
  InitVal = 0
  MAXOPBLOCKS = 2
  LOGSIZE = 6
  NLOG = 6
  OpBlocks = 2
  NotCached = NotCached
  Torn = Torn
SYMMETRY Symmetry
SPECIFICATION Spec
INVARIANTS ReservationSuffices
