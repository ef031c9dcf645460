CONSTANTS
  NPROC = 4
  NPAGES = 7
  NPTE = 512
  Started = {2}
  Workloads <- Forking
  MaxMade = 4
CHECK_DEADLOCK FALSE
SPECIFICATION Spec
PROPERTIES FreedOnlyDead
