CONSTANTS
  NPROC = 3
  CPU = {1, 2}
  NoCpu = NoCpu
  Killers = {}
SPECIFICATION MCLiveSpec
PROPERTIES WaitReturns ExitCompletes
