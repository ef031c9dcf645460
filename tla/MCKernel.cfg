CONSTANTS
  NPROC = 3
  CPU = {c1, c2}
  NoCpu = NoCpu
  Killers = {1, 2, 3}
\* A buffer for every user and one for the log, and one block more than that.
  u1 = u1
  u2 = u2
  u3 = u3
  home = home
  User = {u1, u2, u3}
  Owner <- MCOwner
  Nested <- MCNested
  Block = {home, k1, k2, k3, k4}
  Written = {home}
  Value = {0, 1}
  Buf = {1, 2, 3, 4}
  NBUF = 4
  MaxPinned = 1
  NoBlock = NoBlock
SYMMETRY Symmetry
SPECIFICATION MCSpec
INVARIANTS ProcInv NoOrphans NoLostExit CacheInv
