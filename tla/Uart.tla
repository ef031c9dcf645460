-------------------------------- MODULE Uart --------------------------------
(***************************************************************************)
(* Console output: kernel/uart.c, and the device it drives.                *)
(*                                                                         *)
(* Processes write() through uartputc() and the transmit buffer; echoes    *)
(* and printf() go to the device at once, with uartputc_sync() and without *)
(* uart_tx_lock.  Both test LSR_TX_IDLE and then store in THR, in two      *)
(* steps, and other CPUs act in between.  Characters of write() are        *)
(* numbered in the order of the buffer; the others are 0.                  *)
(*                                                                         *)
(* An actor is a process in write(), a CPU in uartputc_sync(), or the      *)
(* interrupt handler.  upc[a]: "out"; "put" (in uartputc(), before the     *)
(* lock or after a wakeup); "full" (asleep on &uart_tx_r); "start" (top of *)
(* the loop in uartstart(), with the lock); "thr" (about to store in THR); *)
(* "poll" and "echo" (the same in uartputc_sync()).                        *)
(***************************************************************************)
EXTENDS Naturals, Sequences, FiniteSets

CONSTANTS Writer, Echo, Handler,
          UART_TX_BUF_SIZE,
          FIFO,             \* characters the device's queue holds
          MaxChars,         \* characters written,
          MaxEchoes         \* and echoed, two bounds

Actors == Writer \cup Echo \cup {Handler}
Open == "free"

(* The queue of a 16550 takes 16 characters, and NCPU is 8: there is room for one
   character of uartstart() and one of each CPU in uartputc_sync(). *)
ASSUME UartAssumption ==
  /\ UART_TX_BUF_SIZE \in Nat \ {0} /\ MaxChars \in Nat
  /\ IsFiniteSet(Echo) /\ FIFO \in Nat /\ FIFO > Cardinality(Echo)
  /\ Open \notin Actors

VARIABLES tx_buf, tx_w, tx_r, txlock,   \* uart_tx_buf, uart_tx_w, uart_tx_r, uart_tx_lock
          upc, thr,                     \* the actors, and the character each is to store
          fifo, lost, sent,             \* the device: queue, overflow, numbered ones sent
          uirq, echoes

uartVars == <<tx_buf, tx_w, tx_r, txlock, upc, thr, fifo, lost, sent, uirq, echoes>>

TXIDLE == fifo = <<>>

UartTypeOK ==
  /\ tx_w \in 0..MaxChars /\ tx_r \in 0..tx_w /\ tx_w <= tx_r + UART_TX_BUF_SIZE
  /\ txlock \in Actors \cup {Open}
  /\ upc \in [Actors -> {"out", "put", "full", "start", "thr", "poll", "echo"}]
  /\ fifo \in Seq(Nat) /\ Len(fifo) <= FIFO /\ uirq \in BOOLEAN /\ lost \in BOOLEAN
  /\ tx_buf \in [0..(UART_TX_BUF_SIZE - 1) -> Nat] /\ thr \in [Actors -> Nat] /\ sent \in Nat

UartInit ==
  /\ tx_buf = [i \in 0..(UART_TX_BUF_SIZE - 1) |-> 0] /\ tx_w = 0 /\ tx_r = 0
  /\ txlock = Open
  /\ upc = [a \in Actors |-> "out"] /\ thr = [a \in Actors |-> 0]
  /\ fifo = <<>> /\ lost = FALSE /\ sent = 0
  /\ uirq = FALSE /\ echoes = 0
-----------------------------------------------------------------------------
UGoto(a, l) == upc' = [upc EXCEPT ![a] = l]

WriteCall(a) ==
  /\ a \in Writer /\ upc[a] = "out"
  /\ UGoto(a, "put")
  /\ UNCHANGED <<tx_buf, tx_w, tx_r, txlock, thr, fifo, lost, sent, uirq, echoes>>

(* Mutant: room for one character too many. *)
TxFullPast == tx_w = tx_r + UART_TX_BUF_SIZE + 1

TxFull == tx_w = tx_r + UART_TX_BUF_SIZE

(* uartputc(): sleep while the buffer is full, ... *)
PutFull(a) ==
  /\ upc[a] = "put" /\ txlock = Open /\ TxFull
  /\ UGoto(a, "full")
  /\ UNCHANGED <<tx_buf, tx_w, tx_r, txlock, thr, fifo, lost, sent, uirq, echoes>>

(* ... store the character, and go to uartstart(). *)
PutChar(a) ==
  /\ upc[a] = "put" /\ txlock = Open /\ ~TxFull /\ tx_w < MaxChars
  /\ txlock' = a
  /\ tx_buf' = [tx_buf EXCEPT ![tx_w % UART_TX_BUF_SIZE] = tx_w + 1]
  /\ tx_w' = tx_w + 1
  /\ UGoto(a, "start")
  /\ UNCHANGED <<tx_r, thr, fifo, lost, sent, uirq, echoes>>

(* Mutant: the handler reads the input and returns. *)
UartIntrInput ==
  /\ uirq /\ upc[Handler] = "out" /\ txlock = Open
  /\ uirq' = FALSE
  /\ UNCHANGED <<tx_buf, tx_w, tx_r, txlock, upc, thr, fifo, lost, sent, echoes>>

(* uartintr(), after the input has been read. *)
UartIntr ==
  /\ uirq /\ upc[Handler] = "out" /\ txlock = Open
  /\ uirq' = FALSE
  /\ txlock' = Handler
  /\ UGoto(Handler, "start")
  /\ UNCHANGED <<tx_buf, tx_w, tx_r, thr, fifo, lost, sent, echoes>>

(* wakeup(&uart_tx_r) *)
WakeWriters(a) == [b \in Actors |-> IF b = a THEN "thr" ELSE IF upc[b] = "full" THEN "put" ELSE upc[b]]

(* uartstart(): a character, and a device that is idle, ... *)
StartTake(a) ==
  /\ upc[a] = "start" /\ tx_w # tx_r /\ TXIDLE
  /\ thr' = [thr EXCEPT ![a] = tx_buf[tx_r % UART_TX_BUF_SIZE]]
  /\ tx_r' = tx_r + 1
  /\ upc' = WakeWriters(a)
  /\ UNCHANGED <<tx_buf, tx_w, txlock, fifo, lost, sent, uirq, echoes>>

(* ... or return; the lock is released. *)
StartReturn(a) ==
  /\ upc[a] = "start" /\ (tx_w = tx_r \/ ~TXIDLE)
  /\ txlock' = Open
  /\ UGoto(a, "out")
  /\ UNCHANGED <<tx_buf, tx_w, tx_r, thr, fifo, lost, sent, uirq, echoes>>

(* The device takes a character, if its queue has room. *)
THR(c) ==
  IF Len(fifo) < FIFO THEN fifo' = Append(fifo, c) /\ UNCHANGED lost
                      ELSE lost' = TRUE /\ UNCHANGED fifo

StartStore(a) ==
  /\ upc[a] = "thr"
  /\ THR(thr[a])
  /\ UGoto(a, "start")
  /\ UNCHANGED <<tx_buf, tx_w, tx_r, txlock, thr, sent, uirq, echoes>>

(* uartputc_sync(): called, ... *)
SyncCall(a) ==
  /\ a \in Echo /\ upc[a] = "out" /\ echoes < MaxEchoes
  /\ echoes' = echoes + 1
  /\ UGoto(a, "poll")
  /\ UNCHANGED <<tx_buf, tx_w, tx_r, txlock, thr, fifo, lost, sent, uirq>>

(* ... waits for the device, ... *)
SyncPoll(a) ==
  /\ upc[a] = "poll" /\ TXIDLE
  /\ UGoto(a, "echo")
  /\ UNCHANGED <<tx_buf, tx_w, tx_r, txlock, thr, fifo, lost, sent, uirq, echoes>>

(* ... and stores. *)
SyncStore(a) ==
  /\ upc[a] = "echo"
  /\ THR(0)
  /\ UGoto(a, "out")
  /\ UNCHANGED <<tx_buf, tx_w, tx_r, txlock, thr, sent, uirq, echoes>>

(* The device sends, and interrupts when its queue is empty. *)
Send ==
  /\ fifo # <<>>
  /\ fifo' = Tail(fifo)
  /\ sent' = IF Head(fifo) # 0 THEN Head(fifo) ELSE sent
  /\ uirq' = (uirq \/ Len(fifo) = 1)
  /\ UNCHANGED <<tx_buf, tx_w, tx_r, txlock, upc, thr, lost, echoes>>

UartRuns(a) ==
  \/ PutFull(a) \/ PutChar(a) \/ StartTake(a) \/ StartReturn(a) \/ StartStore(a)
  \/ SyncPoll(a) \/ SyncStore(a)

UartNext == UartIntr \/ Send \/ \E a \in Actors : WriteCall(a) \/ SyncCall(a) \/ UartRuns(a)

(* Interrupts are taken, the device sends, a CPU goes on in a critical section,
   and a writer is not starved for the lock. *)
UartFairness ==
  /\ WF_uartVars(Send) /\ SF_uartVars(UartIntr)
  /\ \A a \in Actors : WF_uartVars(StartTake(a) \/ StartReturn(a) \/ StartStore(a))
  /\ \A a \in Echo : WF_uartVars(SyncStore(a))
-----------------------------------------------------------------------------
(* No character is lost in the device: at most one per CPU is stored between a
   test of LSR_TX_IDLE and the next store, and the queue has room for them. *)
NoCharLost == ~lost

NoneInHand == \A a \in Actors : upc[a] # "thr"
EchoesBut(i) == \A j \in 1..Len(fifo) : j # i => fifo[j] = 0

(* Characters of write() leave in the order in which they were buffered: the
   last that was taken from the buffer has been sent, or it is in one place, in
   the hands of a CPU or in the queue, and all before it have been sent. *)
SentInOrder ==
  \/ NoneInHand /\ EchoesBut(0) /\ tx_r = sent
  \/ /\ EchoesBut(0) /\ tx_r = sent + 1
     /\ \E a \in Actors : thr[a] = tx_r /\ \A c \in Actors : upc[c] = "thr" <=> c = a
  \/ /\ NoneInHand /\ tx_r = sent + 1
     /\ \E i \in 1..Len(fifo) : fifo[i] = tx_r /\ EchoesBut(i)

(* Output does not stall: when characters wait and no CPU is in uartstart(),
   the device is busy or about to interrupt. *)
NoStall == tx_w # tx_r /\ txlock = Open => ~TXIDLE \/ uirq

(* Nobody sleeps for room that there is. *)
NoWriterAsleep == (\E a \in Writer : upc[a] = "full") => TxFull

(* Every character that write() has put in the buffer is sent. *)
AllSent == tx_w # sent ~> tx_w = sent

(* The ring of uart.c, its writers and its handler are sound: no character is
   lost or overtaken, output does not stall, and nobody sleeps for no reason. *)
UartSafe == UartTypeOK /\ NoCharLost /\ SentInOrder /\ NoStall /\ NoWriterAsleep
-----------------------------------------------------------------------------
UartSpec == UartInit /\ [][UartNext]_uartVars

(* uart_tx_lock is held from uartputc() or uartintr() to the end of uartstart(),
   and only writers sleep. *)
TxLockInv ==
  /\ \A a \in Actors : upc[a] \in {"start", "thr"} <=> txlock = a
  /\ \A a \in Actors : upc[a] \in {"poll", "echo"} => a \in Echo
  /\ \A a \in Actors : upc[a] = "full" => TxFull

(* The ring holds the characters from uart_tx_r up to uart_tx_w. *)
TxRingInv == \A n \in tx_r..(tx_w - 1) : tx_buf[n % UART_TX_BUF_SIZE] = n + 1

(* Who has seen LSR_TX_IDLE and has not stored yet finds room. *)
Storing == {a \in Actors : upc[a] \in {"thr", "echo"}}
RoomInv == IsFiniteSet(Storing) /\ Len(fifo) + Cardinality(Storing) <= FIFO

(* Console output is sound, as UartSafe says, and the reasons: who is in
   uartstart(), what the ring holds, and for whom the device has room. *)
UartInv == UartSafe /\ TxLockInv /\ TxRingInv /\ RoomInv
=============================================================================
