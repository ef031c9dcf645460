CONSTANTS
  p1 = p1
  p2 = p2
  Process = {p1}
  Inum = {1, 2, 3, 4}
  Slot = {1, 2, 3, 4}
  Names = {"a", "b"}
  Images <- OneImage
  Calls <- UpCalls
  MaxCalls = 5
  MaxCrashes = 0
  DiskFills = FALSE
CHECK_DEADLOCK FALSE
SPECIFICATION FsSpec
INVARIANT FsNoPanic
