CONSTANTS
  Writers = {w1, w2}
  Readers = {r1, r2}
  Byte = {0}
  PIPESIZE = 2
  UINT = 4
  Counts = {0, 2}
  MaxCount = 2
  Killable = {r1, w1}
  None = None
CHECK_DEADLOCK FALSE
SPECIFICATION LiveSpec
PROPERTIES ReaderServed WriterServed
