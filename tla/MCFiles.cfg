\* A full inode table and disk, and a crash.
CONSTANTS
  p1 = p1
  p2 = p2
  Process = {p1, p2}
  Inum = {1, 2, 3, 4}
  Slot = {1, 2, 3, 4}
  Names = {"a", "b"}
  Images <- MCImages
  Calls <- MCCalls
  MaxCalls = 2
  MaxCrashes = 1
  DiskFills = TRUE
\* Files of one direct and two indirect blocks, on a disk that fills.
  File = {f1, f2}
  BSIZE = 2
  NDIRECT = 1
  NINDIRECT = 2
  BPB = 2
  SIZE = 7
  META = 1
  MAXOPBLOCKS = 6
  MaxOps = 4
  Writes <- MCWrites
\* Two entries for files, and two descriptors for each of two processes.
  Task = {1, 2}
  First = 1
  NFILE = 2
  NOFILE = 2
  Inode = {1}
  PipeId = {1}
  MaxOff = 2
CHECK_DEADLOCK FALSE
SPECIFICATION Spec
INVARIANTS InodesSafe NoCircularWait CrashSafe DataSafe FilesSafe
