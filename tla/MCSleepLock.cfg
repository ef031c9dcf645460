CONSTANTS
  NPROC = 4
  CPU = {c1, c2}
  NoCpu = NoCpu
SPECIFICATION LiveSpec
INVARIANTS MutualExclusion NoLostWakeup LockInv
PROPERTIES SleeperIsWoken
