CONSTANTS
  Writers = {w1, w2}
  Readers = {r1, r2}
  Byte = {a, b}
  PIPESIZE = 2
  UINT = 4
  Counts = {0, 1, 3}
  MaxCount = 3
  Killable = {w1, w2, r1, r2}
  None = None
SYMMETRY Symmetry
CHECK_DEADLOCK FALSE
SPECIFICATION Spec
INVARIANT PipeInv
PROPERTIES ReadZeroIsEOF Fifo
