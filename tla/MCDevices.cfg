\* 7 descriptors: two requests in the device, and one descriptor too few for a third.
\* A transmit buffer that fills, a queue with room for one store per CPU.
CONSTANTS
  p1 = p1
  p2 = p2
  p3 = p3
  Proc = {p1, p2, p3}
  Block = {1, 2, 3}
  Value = {0, 1}
  Load <- MCLoad
  NUM = 7
  IDX = 7
  None = None
  Writer = {p1, p2}
  Echo = {c1}
  Handler = h
  UART_TX_BUF_SIZE = 2
  FIFO = 2
  MaxChars = 3
  MaxEchoes = 3
SPECIFICATION Spec
CHECK_DEADLOCK FALSE
INVARIANTS VioInv UartInv
PROPERTIES TransfersEnd ImplementsPort AllSent
