CONSTANTS
  NPROC = 4
  NPAGES = 6
  NPTE = 512
  Started = {2}
  Workloads <- Supported
  MaxMade = 3
  Reader = {p1, p2}
  Plain = {"x"}
  INPUT_BUF_SIZE = 2
  CUINT = 4
  MaxRead = 2
  Hart = {h1, h2}
  Thread = {t1, t2}
  MaxHeld = 2
  Sleeper = {p1, p2}
  TUINT = 4
  Naps <- MCNaps
  VmProc = {1, 2}
  NFRAMES = 20
  PGSIZE = 8
  FAN = 3
  LEVELS = 2
  UINT64 = 256
  ALIGN = 2
  WORD = 1
  MAXARG = 3
  Deltas <- MCDeltas
  Images <- MCImages
  Arguments <- MCArguments
  U = 2
  MINCORE = 4
  LIMIT = 30
  CAPACITY = 1
  STRUCT = 1
  Requests <- MCRequests
  MaxBlocks = 2
  Chars = {"a", " ", "|", ">", "<", "(", ")", ";", "&"}
  MAXLINE = 5
  MAXARGS = 3
  BUF = 4
  ReChars = {"a", ".", "*", "^", "$"}
  MaxRe = 3
  FileChars = {"a", "b", "n"}
  MaxFile = 4
  FBSIZE = 4
  DIRENT = 2
  FDIRECT = 2
  FINDIRECT = 2
  Meta = 3
  FSSIZE = 30
  FileSizes = {0, 1, 4, 5, 8, 13}
  MaxFiles = 4
  NMEM = 5
  NAMELEN = 2
  Letters = {1, 2}
  UINTS = 32
  NumBase = 3
  NUMBUF = 4
CHECK_DEADLOCK FALSE
SPECIFICATION UnitSpec
INVARIANTS ThreadsSafe ConInv TrapInv NapInv MemorySafe HeapSafe ShellRight GrepRight ImageSound TextRight
PROPERTIES ImplementsLines
