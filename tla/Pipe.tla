-------------------------------- MODULE Pipe --------------------------------
(***************************************************************************)
(* One pipe of kernel/pipe.c, used by several readers and writers, each    *)
(* with a reference to the open file of its end (kernel/file.c).           *)
(*                                                                         *)
(* pi->lock is held across the loops of pipewrite() and piperead(), but    *)
(* killed() and sleep() take p->lock, where kill() gets in between: a step *)
(* goes from one of those to the next.  That sleep() gives pi->lock up     *)
(* without losing a wakeup() is what SleepLock shows; here sleeping and    *)
(* waking are one step each.                                               *)
(*                                                                         *)
(* pc[p]: "user"    outside                                                *)
(*        "write"   is about to take pi->lock    "read"                    *)
(*        "wloop"   at the head of the loop      "rloop"                   *)
(*        "wput"    past the killed() test       "rsleep"                  *)
(*        "wasleep" sleeps on &pi->nwrite        "rasleep" on &pi->nread   *)
(*                                               "copy" in the second loop *)
(*        "close"   is about to call pipeclose() "closed"                  *)
(***************************************************************************)
EXTENDS Naturals, Sequences

CONSTANTS Writers, Readers,
          Byte,
          PIPESIZE,
          UINT,         \* 2^32: nread and nwrite count modulo UINT
          Counts,       \* the n of the calls, 0 for one that is not positive, and
          MaxCount,     \* the largest of them, bounds
          Killable,     \* the processes that kill() may hit, a bound
          None

ASSUME PipeAssumption ==
  /\ PIPESIZE \in Nat \ {0}
  /\ UINT \in Nat /\ UINT % PIPESIZE = 0 /\ UINT > PIPESIZE
  /\ MaxCount \in Nat /\ Counts \subseteq 0..MaxCount
ASSUME EndsAssumption == Writers \cap Readers = {} /\ None \notin Writers \cup Readers

VARIABLES data, nread, nwrite, readopen, writeopen,   \* struct pipe
          lock,         \* who holds pi->lock
          freed,        \* kfree(pi) has been called
          open,         \* the processes that hold a reference to their end
          killed,
          pc, n, i      \* of the calls in progress

vars == <<data, nread, nwrite, readopen, writeopen, lock, freed, open, killed, pc, n, i>>
pipeVars == <<data, nread, nwrite, readopen, writeopen>>

Procs == Writers \cup Readers
Labels == {"user", "write", "wloop", "wput", "wasleep", "read", "rloop", "rsleep",
           "rasleep", "copy", "close", "closed"}

TypeOK ==
  /\ data \in [0..(PIPESIZE - 1) -> Byte]
  /\ nread \in 0..(UINT - 1) /\ nwrite \in 0..(UINT - 1)
  /\ readopen \in BOOLEAN /\ writeopen \in BOOLEAN /\ freed \in BOOLEAN
  /\ lock \in Procs \cup {None}
  /\ open \in SUBSET Procs /\ killed \in SUBSET Procs
  /\ pc \in [Procs -> Labels]
  /\ n \in [Procs -> 0..MaxCount] /\ i \in [Procs -> 0..MaxCount]

(* pipealloc(), after which fork() has shared the two files out. *)
Init ==
  /\ data \in [0..(PIPESIZE - 1) -> Byte]
  /\ nread = 0 /\ nwrite = 0
  /\ readopen = TRUE /\ writeopen = TRUE
  /\ lock = None /\ freed = FALSE
  /\ open = Procs /\ killed = {}
  /\ pc = [p \in Procs |-> "user"]
  /\ n = [p \in Procs |-> 0] /\ i = [p \in Procs |-> 0]
-----------------------------------------------------------------------------
Inc(x) == (x + 1) % UINT
Full == nwrite = (nread + PIPESIZE) % UINT
Empty == nread = nwrite
Goto(p, l) == pc' = [pc EXCEPT ![p] = l]

(* wakeup(): the sleepers of a channel go for pi->lock; p goes to l. *)
Woken(l) == CASE l = "wasleep" -> "write" [] l = "rasleep" -> "read" [] OTHER -> l
WakeAndGoto(asleep, p, l) ==
  pc' = [r \in Procs |-> IF r = p THEN l ELSE IF pc[r] = asleep THEN Woken(asleep) ELSE pc[r]]

(* A call returns to user space; what its locals held does not matter. *)
Return(p) ==
  /\ lock' = None
  /\ n' = [n EXCEPT ![p] = 0]
  /\ i' = [i EXCEPT ![p] = 0]

(* filewrite() and fileread() on a file of the pipe *)
Call(p, k) ==
  /\ pc[p] = "user" /\ p \in open /\ p \notin killed
  /\ Goto(p, IF p \in Writers THEN "write" ELSE "read")
  /\ n' = [n EXCEPT ![p] = k]
  /\ UNCHANGED <<pipeVars, lock, freed, open, killed, i>>

(* acquire(&pi->lock), in the call or at the end of sleep(). *)
Lock(p) ==
  /\ pc[p] \in {"write", "read"}
  /\ lock = None
  /\ lock' = p
  /\ Goto(p, IF pc[p] = "write" THEN "wloop" ELSE "rloop")
  /\ UNCHANGED <<pipeVars, freed, open, killed, n, i>>
-----------------------------------------------------------------------------
(* pipewrite(): everything is written, *)
WriteDone(p) ==
  /\ pc[p] = "wloop" /\ i[p] = n[p]
  /\ WakeAndGoto("rasleep", p, "user")
  /\ Return(p)
  /\ UNCHANGED <<pipeVars, freed, open, killed>>

(* or the readers are gone or the writer is killed: -1, *)
WriteFails(p) ==
  /\ pc[p] = "wloop" /\ i[p] < n[p]
  /\ ~readopen \/ p \in killed
  /\ Goto(p, "user")
  /\ Return(p)
  /\ UNCHANGED <<pipeVars, freed, open, killed>>

(* or there is something to write. *)
WriteCheck(p) ==
  /\ pc[p] = "wloop" /\ i[p] < n[p]
  /\ readopen /\ p \notin killed
  /\ Goto(p, "wput")
  /\ UNCHANGED <<pipeVars, lock, freed, open, killed, n, i>>

(* Mutant: the writer does not wake the readers before it sleeps. *)
WriteSleepSilent(p) ==
  /\ pc[p] = "wput" /\ Full
  /\ Goto(p, "wasleep")
  /\ lock' = None
  /\ UNCHANGED <<pipeVars, freed, open, killed, n, i>>

WriteSleep(p) ==
  /\ pc[p] = "wput" /\ Full
  /\ WakeAndGoto("rasleep", p, "wasleep")
  /\ lock' = None
  /\ UNCHANGED <<pipeVars, freed, open, killed, n, i>>

(* Mutant: ++nwrite for nwrite++. *)
WriteBytePre(p) ==
  /\ pc[p] = "wput" /\ ~Full
  /\ \E b \in Byte : data' = [data EXCEPT ![Inc(nwrite) % PIPESIZE] = b]
  /\ nwrite' = Inc(nwrite)
  /\ i' = [i EXCEPT ![p] = @ + 1]
  /\ Goto(p, "wloop")
  /\ UNCHANGED <<nread, readopen, writeopen, lock, freed, open, killed, n>>

WriteByte(p) ==
  /\ pc[p] = "wput" /\ ~Full
  /\ \E b \in Byte : data' = [data EXCEPT ![nwrite % PIPESIZE] = b]
  /\ nwrite' = Inc(nwrite)
  /\ i' = [i EXCEPT ![p] = @ + 1]
  /\ Goto(p, "wloop")
  /\ UNCHANGED <<nread, readopen, writeopen, lock, freed, open, killed, n>>

(* copyin() fails: what is written so far is returned. *)
WriteFault(p) ==
  /\ pc[p] = "wput" /\ ~Full
  /\ WakeAndGoto("rasleep", p, "user")
  /\ Return(p)
  /\ UNCHANGED <<pipeVars, freed, open, killed>>
-----------------------------------------------------------------------------
(* piperead(), the first loop: an empty pipe that has a writer. *)
ReadWait(p) ==
  /\ pc[p] = "rloop" /\ Empty /\ writeopen
  /\ IF p \in killed
       THEN Goto(p, "user") /\ Return(p)
       ELSE Goto(p, "rsleep") /\ UNCHANGED <<lock, n, i>>
  /\ UNCHANGED <<pipeVars, freed, open, killed>>

ReadSleep(p) ==
  /\ pc[p] = "rsleep"
  /\ Goto(p, "rasleep")
  /\ lock' = None
  /\ UNCHANGED <<pipeVars, freed, open, killed, n, i>>

(* Mutant: a reader goes on without testing again after it has slept. *)
ReadReadyIf(p) ==
  /\ pc[p] = "rloop"
  /\ Goto(p, "copy")
  /\ UNCHANGED <<pipeVars, lock, freed, open, killed, n, i>>

ReadReady(p) ==
  /\ pc[p] = "rloop" /\ ~(Empty /\ writeopen)
  /\ Goto(p, "copy")
  /\ UNCHANGED <<pipeVars, lock, freed, open, killed, n, i>>

(* The second loop: a byte, ... *)
ReadByte(p) ==
  /\ pc[p] = "copy" /\ i[p] < n[p] /\ ~Empty
  /\ nread' = Inc(nread)
  /\ i' = [i EXCEPT ![p] = @ + 1]
  /\ UNCHANGED <<data, nwrite, readopen, writeopen, lock, freed, open, killed, pc, n>>

(* ... one that copyout() cannot deliver and that is lost, ... *)
ReadFault(p) ==
  /\ pc[p] = "copy" /\ i[p] < n[p] /\ ~Empty
  /\ nread' = Inc(nread)
  /\ WakeAndGoto("wasleep", p, "user")
  /\ Return(p)
  /\ UNCHANGED <<data, nwrite, readopen, writeopen, freed, open, killed>>

(* Mutant: the reader forgets the writers. *)
ReadDoneSilent(p) ==
  /\ pc[p] = "copy" /\ (i[p] = n[p] \/ Empty)
  /\ Goto(p, "user")
  /\ Return(p)
  /\ UNCHANGED <<pipeVars, freed, open, killed>>

(* ... or the end of it. *)
ReadDone(p) ==
  /\ pc[p] = "copy" /\ (i[p] = n[p] \/ Empty)
  /\ WakeAndGoto("wasleep", p, "user")
  /\ Return(p)
  /\ UNCHANGED <<pipeVars, freed, open, killed>>
-----------------------------------------------------------------------------
End(p) == IF p \in Writers THEN Writers ELSE Readers

(* fileclose(): the last reference to an end closes that end. *)
Close(p) ==
  /\ pc[p] = "user" /\ p \in open
  /\ open' = open \ {p}
  /\ Goto(p, IF End(p) \cap open' = {} THEN "close" ELSE "closed")
  /\ UNCHANGED <<pipeVars, lock, freed, killed, n, i>>

(* Mutant: pipeclose() wakes its own end. *)
PipeCloseOwn(p) ==
  /\ pc[p] = "close"
  /\ lock = None
  /\ readopen' = (readopen /\ p \in Writers)
  /\ writeopen' = (writeopen /\ p \in Readers)
  /\ freed' = (~readopen' /\ ~writeopen')
  /\ WakeAndGoto(IF p \in Writers THEN "wasleep" ELSE "rasleep", p, "closed")
  /\ UNCHANGED <<data, nread, nwrite, lock, open, killed, n, i>>

PipeClose(p) ==
  /\ pc[p] = "close"
  /\ lock = None
  /\ readopen' = (readopen /\ p \in Writers)
  /\ writeopen' = (writeopen /\ p \in Readers)
  /\ freed' = (~readopen' /\ ~writeopen')
  /\ WakeAndGoto(IF p \in Writers THEN "rasleep" ELSE "wasleep", p, "closed")
  /\ UNCHANGED <<data, nread, nwrite, lock, open, killed, n, i>>

(* kill(): the flag, and a sleeper wakes up. *)
Kill(p) ==
  /\ p \in Killable \ killed
  /\ killed' = killed \cup {p}
  /\ Goto(p, Woken(pc[p]))
  /\ UNCHANGED <<pipeVars, lock, freed, open, n, i>>
-----------------------------------------------------------------------------
Step(p) ==
  \/ Lock(p)
  \/ WriteDone(p) \/ WriteFails(p) \/ WriteCheck(p) \/ WriteSleep(p) \/ WriteByte(p)
  \/ ReadWait(p) \/ ReadSleep(p) \/ ReadReady(p) \/ ReadByte(p) \/ ReadDone(p)
  \/ PipeClose(p)

Next ==
  \E p \in Procs :
    \/ Step(p) \/ WriteFault(p) \/ ReadFault(p)
    \/ \E k \in Counts : Call(p, k)
    \/ Close(p) \/ Kill(p)

Spec == Init /\ [][Next]_vars

(* A call goes on, and whoever spins on pi->lock gets it in the end. *)
Fairness == \A p \in Procs : SF_vars(Step(p))
LiveSpec == Spec /\ Fairness
-----------------------------------------------------------------------------
(***************************************************************************)
(* The ring buffer with its two wrapping counters implements the queue:    *)
(* however the calls interleave, no byte is lost, duplicated, reordered or *)
(* overwritten before it is read.                                          *)
(***************************************************************************)
Used == (nwrite + UINT - nread) % UINT
Contents == [k \in 1..Used |-> data[(nread + k - 1) % PIPESIZE]]
Queue == INSTANCE ByteQueue
  WITH Capacity <- PIPESIZE, q <- Contents, ropen <- readopen, wopen <- writeopen
Fifo == Queue!Spec

(***************************************************************************)
(* pipeclose() frees the page of the pipe; nobody may be in pipewrite() or *)
(* piperead(), asleep on a channel inside it, or able to get there.        *)
(***************************************************************************)
NoUseAfterFree ==
  freed => open = {} /\ \A p \in Procs : pc[p] \in {"user", "closed"}

(***************************************************************************)
(* No wakeup is missed: with pi->lock free, a writer sleeps only while the *)
(* pipe is full and can be read, and a reader only while it is empty and   *)
(* can be written.  The exception: a writer that is killed between two     *)
(* bytes returns -1 without waking the readers.                            *)
(***************************************************************************)
NoLostWakeup ==
  lock = None =>
    /\ (\E p \in Procs : pc[p] = "wasleep") => Full /\ readopen
    /\ (\E p \in Procs : pc[p] = "rasleep") =>
         writeopen /\ (Empty \/ killed \cap Writers # {})

(***************************************************************************)
(* pipe.c neither frees a pipe in use nor leaves anybody asleep in one.    *)
(***************************************************************************)
PipeSafe == TypeOK /\ NoUseAfterFree /\ NoLostWakeup

(***************************************************************************)
(* What the three rest on.  pi->lock is held exactly in the loops.  Calls  *)
(* are made through an open end, and the last to close an end calls        *)
(* pipeclose(), once.  Past their tests and until they give the lock up,   *)
(* writers have a reader, and readers have bytes or no writer.  The pipe   *)
(* holds at most PIPESIZE bytes.                                           *)
(***************************************************************************)
Holds == {"wloop", "wput", "rloop", "rsleep", "copy"}
InWrite(p) == pc[p] \in {"write", "wloop", "wput", "wasleep"}
InRead(p) == pc[p] \in {"read", "rloop", "rsleep", "rasleep", "copy"}

HolderInv == \A p \in Procs : lock = p <=> pc[p] \in Holds

EndsInv ==
  /\ \A p \in Procs : /\ InWrite(p) => p \in Writers
                      /\ InRead(p) => p \in Readers
                      /\ p \in open <=> pc[p] \notin {"close", "closed"}
                      /\ pc[p] = "close" => End(p) \cap open = {}
  /\ \A p, q \in Procs : pc[p] = "close" /\ pc[q] = "close" /\ End(p) = End(q) => p = q
  /\ ~readopen => \A p \in Readers : pc[p] = "closed"
  /\ ~writeopen => \A p \in Writers : pc[p] = "closed"
  /\ freed => ~readopen /\ ~writeopen

CallsInv ==
  \A p \in Procs :
    /\ InWrite(p) \/ InRead(p) => i[p] <= n[p]
    /\ pc[p] = "wput" => i[p] < n[p] /\ readopen
    /\ pc[p] = "rsleep" => Empty /\ writeopen
    /\ pc[p] = "copy" /\ i[p] = 0 => ~(Empty /\ writeopen)
    /\ ~InWrite(p) /\ pc[p] # "copy" => i[p] = 0

SleepInv ==
  /\ \A p \in Procs : pc[p] = "wasleep" => readopen /\ (Full \/ \E q \in Procs : pc[q] = "copy")
  /\ \A p \in Procs : pc[p] = "rasleep" =>
       writeopen /\ (Empty \/ killed \cap Writers # {} \/ \E q \in Procs : pc[q] \in {"wloop", "wput"})

PipeInv == PipeSafe /\ HolderInv /\ EndsInv /\ CallsInv /\ SleepInv /\ Used <= PIPESIZE

(***************************************************************************)
(* A read() that asks for something returns 0 for one of two reasons.  It  *)
(* is the end of file, when no process holds the write end: not that       *)
(* another reader was faster, nor that one of several writers has closed.  *)
(* Or copyout() has failed on the first byte, which is lost.               *)
(***************************************************************************)
ReadZeroIsEOF ==
  [][\A p \in Procs :
       pc[p] = "copy" /\ pc'[p] = "user" /\ i[p] = 0 /\ n[p] > 0
         => \/ Empty /\ Writers \cap open = {}
            \/ ~Empty /\ nread' = Inc(nread)]_vars

Dry == Empty /\ writeopen
Stuffed == Full /\ readopen

(***************************************************************************)
(* A reader does not wait for ever with work to do: in a pipe that has     *)
(* bytes or whose write end is closed, piperead() returns, unless another  *)
(* reader empties the pipe first, or a writer is killed: pipewrite() then  *)
(* returns -1 without waking the readers of what it has written.           *)
(***************************************************************************)
ReaderServed ==
  \A p \in Readers : InRead(p) /\ ~Dry ~> ~InRead(p) \/ Dry \/ killed \cap Writers # {}

(***************************************************************************)
(* Nor does a writer: in a pipe that has room or whose read end is closed, *)
(* pipewrite() returns, unless the pipe is full again.                     *)
(***************************************************************************)
WriterServed == \A p \in Writers : InWrite(p) /\ ~Stuffed ~> ~InWrite(p) \/ Stuffed
=============================================================================
