-------------------------------- MODULE Log --------------------------------
(***************************************************************************)
(* kernel/log.c: the write-ahead log that makes file-system calls atomic   *)
(* across crashes, with what it uses of the buffer cache (kernel/bio.c):   *)
(* bread() returns the cached copy or reads the disk, bpin()/bunpin() keep *)
(* a block cached, an unpinned block may be recycled at any moment.        *)
(*                                                                         *)
(* Processes run FS calls: begin_op(), some log_write()s, end_op().  The   *)
(* last end_op() commits.  A critical section of log.lock is one step and  *)
(* so is each synchronous block write.  An FS call holds the sleep-lock of *)
(* a buffer from bread() to brelse(), so its change of a block and the     *)
(* log_write() of it are one step.  A crash may come at any moment; the    *)
(* block being written may then be torn.  The header takes 4*(LOGSIZE+1)   *)
(* bytes, inside one sector, and is written whole or not at all.           *)
(*                                                                         *)
(* pc[p]: "out"        not in an FS call                                   *)
(*        "asleep"     sleeping in begin_op() on &log                      *)
(*        "begin"      woken in begin_op()                                 *)
(*        "op"         between begin_op() and end_op()                     *)
(*        "write_log"  in commit(), copying block tail[p] to the log       *)
(*        "install"    in commit(), installing block tail[p]               *)
(*        "done"       in end_op(), commit() has returned                  *)
(*        "panic"      stopped in panic()                                  *)
(***************************************************************************)
EXTENDS Integers, Sequences, FiniteSets

CONSTANTS Proc, Block, Value, InitVal,
          MAXOPBLOCKS, LOGSIZE,
          NLOG,         \* sb.nlog: blocks of the on-disk log, header included
          OpBlocks,     \* distinct blocks one FS call really writes
          NotCached, Torn

ASSUME LogAssumption ==
  /\ IsFiniteSet(Proc)
  /\ InitVal \in Value
  /\ MAXOPBLOCKS \in Nat \ {0} /\ LOGSIZE \in Nat /\ NLOG \in Nat \ {0}
  /\ MAXOPBLOCKS <= LOGSIZE
  /\ OpBlocks \in Nat
  /\ NotCached \notin Value \cup {Torn} /\ Torn \notin Value

VARIABLES home,         \* the blocks of the file system on disk
          dlog,         \* the log's data blocks on disk
          hdr,          \* the log's header block on disk: lh.block[0..n-1]
          cache, pin,   \* the buffer cache: contents, pins by the log
          lh,           \* log.lh in memory
          outstanding, committing,
          pc, tail,
          wrote,        \* the blocks p's FS call has written so far
          mode,         \* "run", or the stage of initlog() after a boot
          rtail         \* tail of install_trans(1)

diskVars == <<home, dlog, hdr>>
vars == <<home, dlog, hdr, cache, pin, lh, outstanding, committing, pc, tail,
          wrote, mode, rtail>>

Slot == 1..(NLOG - 1)
Logged == {lh[i] : i \in 1..Len(lh)}

TypeOK ==
  /\ home \in [Block -> Value \cup {Torn}]
  /\ dlog \in [Slot -> Value \cup {Torn}]
  /\ hdr \in Seq(Block)
  /\ cache \in [Block -> Value \cup {Torn, NotCached}]
  /\ pin \in [Block -> Nat]
  /\ lh \in Seq(Block)
  /\ outstanding \in Nat
  /\ committing \in BOOLEAN
  /\ pc \in [Proc -> {"out", "asleep", "begin", "op", "write_log", "install",
                      "done", "panic"}]
  /\ tail \in [Proc -> Nat]
  /\ wrote \in [Proc -> SUBSET Block]
  /\ mode \in {"run", "read_head", "install"}
  /\ rtail \in Nat

Init ==
  /\ home = [b \in Block |-> InitVal]
  /\ dlog = [i \in Slot |-> InitVal]
  /\ hdr = <<>>
  /\ cache = [b \in Block |-> NotCached]
  /\ pin = [b \in Block |-> 0]
  /\ lh = <<>>
  /\ outstanding = 0
  /\ committing = FALSE
  /\ pc = [p \in Proc |-> "out"]
  /\ tail = [p \in Proc |-> 1]
  /\ wrote = [p \in Proc |-> {}]
  /\ mode = "run"
  /\ rtail = 1
-----------------------------------------------------------------------------
(* What bread(b) returns. *)
Bread(b) == IF cache[b] = NotCached THEN home[b] ELSE cache[b]

(* pc after wakeup(&log). *)
Woken == [q \in Proc |-> IF pc[q] = "asleep" THEN "begin" ELSE pc[q]]

(* log.lock can be taken: a process that panics never releases it. *)
LockFree == \A q \in Proc : pc[q] # "panic"

(* begin_op()'s test that another operation might exhaust the log. *)
NoRoom == Len(lh) + (outstanding + 1) * MAXOPBLOCKS > LOGSIZE

(* Mutant: the header block is taken off twice. *)
LogFullTwice == Len(lh) >= LOGSIZE \/ Len(lh) >= NLOG - 2

(* log_write()'s test for "too big a transaction". *)
LogFull == Len(lh) >= LOGSIZE \/ Len(lh) >= NLOG - 1

(* begin_op(): one pass of its loop. *)
BeginOp(p) ==
  /\ mode = "run" /\ LockFree
  /\ pc[p] \in {"out", "begin"}
  /\ IF committing \/ NoRoom
       THEN /\ pc' = [pc EXCEPT ![p] = "asleep"]
            /\ UNCHANGED outstanding
       ELSE /\ pc' = [pc EXCEPT ![p] = "op"]
            /\ outstanding' = outstanding + 1
  /\ UNCHANGED <<home, dlog, hdr, cache, pin, lh, committing, tail, wrote, mode, rtail>>

(***************************************************************************)
(* An FS call changes block b in the cache and calls log_write(), which    *)
(* absorbs a block that is already logged and pins one that is new.  A     *)
(* call that panics keeps the buffer locked: its change is seen by nobody. *)
(***************************************************************************)
LogWrite(p, b, v) ==
  /\ mode = "run" /\ LockFree
  /\ pc[p] = "op"
  /\ Cardinality(wrote[p] \cup {b}) <= OpBlocks
  /\ IF LogFull \/ outstanding < 1
       THEN /\ pc' = [pc EXCEPT ![p] = "panic"]
            /\ UNCHANGED <<cache, lh, pin, wrote>>
       ELSE /\ cache' = [cache EXCEPT ![b] = v]
            /\ wrote' = [wrote EXCEPT ![p] = @ \cup {b}]
            /\ IF b \in Logged
                 THEN UNCHANGED <<lh, pin>>
                 ELSE /\ lh' = Append(lh, b)
                      /\ pin' = [pin EXCEPT ![b] = @ + 1]
            /\ UNCHANGED pc
  /\ UNCHANGED <<home, dlog, hdr, outstanding, committing, tail, mode, rtail>>

(* end_op() up to its call of commit(), and commit()'s test of lh.n. *)
EndOp(p) ==
  /\ mode = "run" /\ LockFree
  /\ pc[p] = "op"
  /\ outstanding' = outstanding - 1
  /\ wrote' = [wrote EXCEPT ![p] = {}]
  /\ IF committing
       THEN pc' = [pc EXCEPT ![p] = "panic"] /\ UNCHANGED <<committing, tail>>
       ELSE IF outstanding' = 0
              THEN /\ committing' = TRUE
                   /\ pc' = [pc EXCEPT ![p] = IF lh = <<>> THEN "done" ELSE "write_log"]
                   /\ tail' = [tail EXCEPT ![p] = 1]
              ELSE /\ pc' = [Woken EXCEPT ![p] = "out"]
                   /\ UNCHANGED <<committing, tail>>
  /\ UNCHANGED <<home, dlog, hdr, cache, pin, lh, mode, rtail>>

(* One iteration of write_log(). *)
WriteLog(p) ==
  /\ mode = "run"
  /\ pc[p] = "write_log"
  /\ tail[p] <= Len(lh)
  /\ LET b == lh[tail[p]] IN
       /\ cache' = [cache EXCEPT ![b] = Bread(b)]
       /\ dlog' = [dlog EXCEPT ![tail[p]] = Bread(b)]
  /\ tail' = [tail EXCEPT ![p] = @ + 1]
  /\ UNCHANGED <<home, hdr, pin, lh, outstanding, committing, pc, wrote, mode, rtail>>

(* Mutant: the header is written before write_log(). *)
WriteHeadFirst(p) ==
  /\ mode = "run"
  /\ pc[p] = "write_log"
  /\ tail[p] = 1
  /\ hdr' = lh
  /\ pc' = [pc EXCEPT ![p] = "install"]
  /\ UNCHANGED <<home, dlog, cache, pin, lh, outstanding, committing, tail, wrote, mode, rtail>>

(* write_head() in commit(): the commit point. *)
WriteHead(p) ==
  /\ mode = "run"
  /\ pc[p] = "write_log"
  /\ tail[p] > Len(lh)
  /\ hdr' = lh
  /\ pc' = [pc EXCEPT ![p] = "install"]
  /\ tail' = [tail EXCEPT ![p] = 1]
  /\ UNCHANGED <<home, dlog, cache, pin, lh, outstanding, committing, wrote, mode, rtail>>

(* One iteration of install_trans(): log block t to its home, via the cache. *)
InstallBlock(t) ==
  /\ home' = [home EXCEPT ![lh[t]] = dlog[t]]
  /\ cache' = [cache EXCEPT ![lh[t]] = dlog[t]]

(* install_trans(0), which also unpins. *)
Install(p) ==
  /\ mode = "run"
  /\ pc[p] = "install"
  /\ tail[p] <= Len(lh)
  /\ InstallBlock(tail[p])
  /\ pin' = [pin EXCEPT ![lh[tail[p]]] = @ - 1]
  /\ tail' = [tail EXCEPT ![p] = @ + 1]
  /\ UNCHANGED <<dlog, hdr, lh, outstanding, committing, pc, wrote, mode, rtail>>

(* The end of commit(): lh.n = 0 and the second write_head(). *)
EraseHead(p) ==
  /\ mode = "run"
  /\ pc[p] = "install"
  /\ tail[p] > Len(lh)
  /\ lh' = <<>>
  /\ hdr' = <<>>
  /\ pc' = [pc EXCEPT ![p] = "done"]
  /\ tail' = [tail EXCEPT ![p] = 1]
  /\ UNCHANGED <<home, dlog, cache, pin, outstanding, committing, wrote, mode, rtail>>

(* Mutant: end_op() does not wake the sleepers after the commit. *)
EndCommitSilent(p) ==
  /\ mode = "run" /\ LockFree
  /\ pc[p] = "done"
  /\ committing' = FALSE
  /\ pc' = [pc EXCEPT ![p] = "out"]
  /\ UNCHANGED <<home, dlog, hdr, cache, pin, lh, outstanding, tail, wrote, mode, rtail>>

(* The end of end_op(), after commit(). *)
EndCommit(p) ==
  /\ mode = "run" /\ LockFree
  /\ pc[p] = "done"
  /\ committing' = FALSE
  /\ pc' = [Woken EXCEPT ![p] = "out"]
  /\ UNCHANGED <<home, dlog, hdr, cache, pin, lh, outstanding, tail, wrote, mode, rtail>>
-----------------------------------------------------------------------------
(* Some process reads block b into the cache ... *)
ReadBlock(b) ==
  /\ mode = "run"
  /\ cache[b] = NotCached
  /\ cache' = [cache EXCEPT ![b] = home[b]]
  /\ UNCHANGED <<home, dlog, hdr, pin, lh, outstanding, committing, pc, tail, wrote, mode, rtail>>

(* Mutant: bget() recycles a buffer without looking at refcnt. *)
RecycleAny(b) ==
  /\ mode = "run"
  /\ cache[b] # NotCached
  /\ cache' = [cache EXCEPT ![b] = NotCached]
  /\ UNCHANGED <<home, dlog, hdr, pin, lh, outstanding, committing, pc, tail, wrote, mode, rtail>>

(* ... and bget() recycles the buffer of one that nothing refers to. *)
Recycle(b) ==
  /\ mode = "run"
  /\ cache[b] # NotCached
  /\ pin[b] = 0
  /\ cache' = [cache EXCEPT ![b] = NotCached]
  /\ UNCHANGED <<home, dlog, hdr, pin, lh, outstanding, committing, pc, tail, wrote, mode, rtail>>

(***************************************************************************)
(* The machine stops and boots again: memory is lost, the disk keeps what  *)
(* was written, and the one block write in progress may be torn.           *)
(***************************************************************************)
LogInFlight == {tail[p] : p \in {q \in Proc : pc[q] = "write_log" /\ tail[q] <= Len(lh)}}
HomeInFlight ==
  {lh[tail[p]] : p \in {q \in Proc : pc[q] = "install" /\ tail[q] <= Len(lh)}}
    \cup (IF mode = "install" /\ rtail <= Len(lh) THEN {lh[rtail]} ELSE {})

Crash ==
  /\ \/ UNCHANGED <<home, dlog>>
     \/ \E i \in LogInFlight : dlog' = [dlog EXCEPT ![i] = Torn] /\ UNCHANGED home
     \/ \E b \in HomeInFlight : home' = [home EXCEPT ![b] = Torn] /\ UNCHANGED dlog
  /\ cache' = [b \in Block |-> NotCached]
  /\ pin' = [b \in Block |-> 0]
  /\ lh' = <<>>
  /\ outstanding' = 0
  /\ committing' = FALSE
  /\ pc' = [p \in Proc |-> "out"]
  /\ tail' = [p \in Proc |-> 1]
  /\ wrote' = [p \in Proc |-> {}]
  /\ mode' = "read_head"
  /\ rtail' = 1
  /\ UNCHANGED hdr

(* recover_from_log(), called by initlog() before any FS call: read_head(), *)
RecoverHead ==
  /\ mode = "read_head"
  /\ lh' = hdr
  /\ mode' = "install"
  /\ UNCHANGED <<home, dlog, hdr, cache, pin, outstanding, committing, pc, tail, wrote, rtail>>

(* install_trans(1), *)
RecoverInstall ==
  /\ mode = "install"
  /\ rtail <= Len(lh)
  /\ InstallBlock(rtail)
  /\ rtail' = rtail + 1
  /\ UNCHANGED <<dlog, hdr, pin, lh, outstanding, committing, pc, tail, wrote, mode>>

(* and lh.n = 0 with write_head(). *)
RecoverErase ==
  /\ mode = "install"
  /\ rtail > Len(lh)
  /\ lh' = <<>>
  /\ hdr' = <<>>
  /\ mode' = "run"
  /\ rtail' = 1
  /\ UNCHANGED <<home, dlog, cache, pin, outstanding, committing, pc, tail, wrote>>
-----------------------------------------------------------------------------
ProcStep(p) ==
  \/ BeginOp(p)
  \/ EndOp(p)
  \/ WriteLog(p)
  \/ WriteHead(p)
  \/ Install(p)
  \/ EraseHead(p)
  \/ EndCommit(p)

Recover == RecoverHead \/ RecoverInstall \/ RecoverErase

Next ==
  \/ \E p \in Proc : ProcStep(p)
  \/ \E p \in Proc, b \in Block, v \in Value : LogWrite(p, b, v)
  \/ \E b \in Block : ReadBlock(b) \/ Recycle(b)
  \/ Crash
  \/ Recover

Spec == Init /\ [][Next]_vars
-----------------------------------------------------------------------------
(* Blocks d of a transaction with header h laid over the blocks base. *)
Overlay(h, d, base) ==
  [b \in Block |->
     IF \E i \in 1..Len(h) : h[i] = b
       THEN d[CHOOSE i \in 1..Len(h) : h[i] = b]
       ELSE base[b]]

(* The disk as recovery would leave it. *)
Recovered == Overlay(hdr, dlog, home)

(* The disk as the running system sees it. *)
Seen == IF mode = "run" THEN [b \in Block |-> Bread(b)] ELSE Recovered
Ops == {p \in Proc : pc[p] = "op"}

(***************************************************************************)
(* log.c implements a transactional disk: what a crash at any moment, also *)
(* during recovery, leaves is the state after whole transactions, and the  *)
(* running system always reads the last write.                             *)
(***************************************************************************)
Tx == INSTANCE TxDisk WITH
        durable <- Recovered, current <- Seen,
        ops <- Ops

Atomicity == Tx!TxSpec

(* Neither panic of log_write() nor the one of end_op() is reached. *)
NoPanic == \A p \in Proc : pc[p] # "panic"

(***************************************************************************)
(* "Log appends are synchronous": when the last outstanding end_op() has   *)
(* returned, everything written is durable.                                *)
(***************************************************************************)
SyncedWhenIdle == mode = "run" /\ outstanding = 0 /\ ~committing => Seen = Recovered

(***************************************************************************)
(* A process sleeping in begin_op() has somebody to wake it: an operation  *)
(* still has to end, or a commit to finish.                                *)
(***************************************************************************)
SleeperHasWaker ==
  (\E p \in Proc : pc[p] = "asleep") => committing \/ outstanding > 0

(***************************************************************************)
(* Why they hold (the inductive invariant of the proofs).                  *)
(***************************************************************************)
Committing(p) == pc[p] \in {"write_log", "install", "done"}
Outstanding == {p \in Proc : pc[p] \in {"op", "panic"}}
NoDuplicates(s) == \A i, j \in 1..Len(s) : s[i] = s[j] => i = j

(* Who is where: the counter of operations, one committer at a time. *)
OpsInv ==
  /\ outstanding = Cardinality(Outstanding)
  /\ committing => outstanding = 0
  /\ \A p \in Proc : Committing(p) => committing
  /\ \A p, q \in Proc : Committing(p) /\ Committing(q) => p = q
  /\ \A p \in Proc : pc[p] = "done" => lh = <<>>
  /\ \A p \in Proc : pc[p] \in {"write_log", "install"} => tail[p] \in 1..(Len(lh) + 1)
  /\ mode = "run" /\ outstanding = 0 /\ ~committing => lh = <<>>
  /\ SleeperHasWaker

(* The two headers name distinct blocks, and fit. *)
HeadInv ==
  /\ NoDuplicates(lh) /\ NoDuplicates(hdr)
  /\ Len(lh) <= NLOG - 1 /\ Len(hdr) <= NLOG - 1
  /\ \A i \in 1..Len(hdr) : dlog[i] \in Value

(* Up: what is logged and not yet installed is pinned, what is not pinned  *)
(* is clean, and the header on disk is that of the commit in progress.     *)
BlocksInv ==
  \A b \in Block :
    /\ home[b] \in Value
    /\ b \notin Logged => pin[b] = 0
    /\ IF pin[b] = 0 THEN cache[b] \in {NotCached, home[b]} ELSE cache[b] \in Value
OpenInv ==
  (\A p \in Proc : pc[p] # "install")
    => hdr = <<>> /\ \A i \in 1..Len(lh) : pin[lh[i]] = 1
CopyInv ==
  \A p \in Proc : pc[p] = "write_log" =>
    \A i \in 1..Len(lh) : i < tail[p] => dlog[i] = cache[lh[i]]
InstallInv ==
  \A p \in Proc : pc[p] = "install" =>
    /\ hdr = lh
    /\ \A i \in 1..Len(lh) :
         IF i < tail[p] THEN home[lh[i]] = dlog[i] /\ pin[lh[i]] = 0
                        ELSE cache[lh[i]] = dlog[i] /\ pin[lh[i]] = 1

RunInv == mode = "run" => BlocksInv /\ OpenInv /\ CopyInv /\ InstallInv

(* Booting: only the blocks that will be installed may be torn. *)
RecoverInv ==
  mode # "run" =>
    /\ \A p \in Proc : pc[p] = "out"
    /\ ~committing
    /\ \A b \in Block : pin[b] = 0 /\ cache[b] \in {NotCached, home[b]}
    /\ \A b \in Block : (\A i \in 1..Len(hdr) : hdr[i] # b) => home[b] \in Value
    /\ mode = "read_head" => lh = <<>> /\ rtail = 1
    /\ mode = "install" =>
         /\ lh = hdr /\ rtail \in 1..(Len(lh) + 1)
         /\ \A i \in 1..Len(lh) : i < rtail => home[lh[i]] = dlog[i]

LogInv == OpsInv /\ HeadInv /\ RunInv /\ RecoverInv

(* What an FS call has written is in the log until it ends. *)
WroteInv ==
  \A p \in Proc :
    /\ IsFiniteSet(wrote[p]) /\ Cardinality(wrote[p]) <= OpBlocks /\ wrote[p] \subseteq Logged
    /\ wrote[p] # {} => pc[p] = "op"

(* What is left of the reservations, a pair for each block, fits in the    *)
(* log.  One block more is left when only one of several calls still runs. *)
Reserved == {r \in Outstanding \X (1..MAXOPBLOCKS) : r[2] > Cardinality(wrote[r[1]])}
RoomInv ==
  mode = "run" =>
    /\ Len(lh) + Cardinality(Reserved) <= LOGSIZE
    /\ \A p \in Proc : Outstanding = {p} =>
         Len(lh) <= Cardinality(wrote[p]) \/ Len(lh) + Cardinality(Reserved) < LOGSIZE

(* The sizes fit: a call writes at least one block less than it reserves. *)
LogFits == OpBlocks < MAXOPBLOCKS /\ LOGSIZE <= NLOG /\ OpBlocks < NLOG - 1

(***************************************************************************)
(* The log never overflows: begin_op() admits an FS call only when its     *)
(* reservation fits, so that neither panic of log_write() nor the one of   *)
(* end_op() is reached, for sizes that fit and calls that write at least   *)
(* one block less than they may.                                           *)
(***************************************************************************)
ReserveInv == NoPanic /\ WroteInv /\ RoomInv

(***************************************************************************)
(* Fairness: a process inside begin_op(), an FS call or commit() goes on   *)
(* (the scheduler is fair and FS calls end), and so does recovery.         *)
(***************************************************************************)
LiveSpec ==
  /\ Spec
  /\ \A p \in Proc : WF_vars(pc[p] # "out" /\ ProcStep(p))
  /\ WF_vars(Recover)

(***************************************************************************)
(* begin_op() does not sleep for ever: every sleeper is woken, by an       *)
(* end_op() that gives log space back or by the one that commits.          *)
(***************************************************************************)
SleeperIsWoken == \A p \in Proc : pc[p] = "asleep" ~> pc[p] # "asleep"

(***************************************************************************)
(* What param.h says of the sizes ("max # of blocks any FS op writes",     *)
(* "max data blocks in on-disk log"): with FS calls of at most MAXOPBLOCKS *)
(* blocks, log_write() finds room in a log of LOGSIZE data blocks.         *)
(***************************************************************************)
ReservationSuffices == OpBlocks <= MAXOPBLOCKS => NoPanic
=============================================================================
