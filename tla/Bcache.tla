------------------------------- MODULE Bcache -------------------------------
(***************************************************************************)
(* The buffer cache, kernel/bio.c, over the disk (DiskPort).               *)
(*                                                                         *)
(* Processes read blocks, change them, and either write them through with  *)
(* bwrite() or hand them to the log, which pins them until it installs     *)
(* them.  A step is a critical section of bcache.lock or of the buffer's   *)
(* sleep-lock, or a step of the disk.                                      *)
(*                                                                         *)
(* A user is a buffer pointer of a process, its owner.  A process has two: *)
(* bmap() and itrunc() hold the indirect block while balloc() and bfree()  *)
(* read the bitmap, write_log() and install_trans() hold a block of the    *)
(* log and the block it is a copy of.  Nobody holds three.  A change is    *)
(* logged or written before the buffer is released: FileData has the one   *)
(* caller that does neither, writei() when either_copyin() fails.          *)
(*                                                                         *)
(* bpc[p]: "out"      the pointer is not in use                            *)
(*         "lock"     has a reference, calls acquiresleep()                *)
(*         "reading"  in virtio_disk_rw(b, 0), called by bread()           *)
(*         "held"     holds the locked buffer                              *)
(*         "changed"  has changed b->data                                  *)
(*         "writing"  in virtio_disk_rw(b, 1), called by bwrite()          *)
(*         "written"  bwrite() has returned                                *)
(*         "release"  in brelse(), after releasesleep()                    *)
(*         "panic"    bget: no buffers                                     *)
(***************************************************************************)
EXTENDS Naturals, FiniteSets, Sequences, DiskPort

CONSTANTS NBUF,
          MaxPinned,      \* blocks the log holds at a time, a bound
          Written,        \* the blocks that are changed
          Owner,          \* the process of each user
          Nested,         \* <<m, k>>: k may be read by a process that holds m
          NoBlock

Unlocked == "free"
NoBuf == 0

ASSUME BuffersAssumption ==
  /\ NBUF \in Nat /\ Buf = 1..NBUF
  /\ IsFiniteSet(User) /\ Unlocked \notin User
  /\ MaxPinned \in Nat
  /\ NoBlock \notin Block /\ 0 \in Value

(* A buffer for every user, two for each process that is in the file system, and
   those of the log.  The sizes of param.h do not ensure it: NBUF and LOGSIZE are
   both 30. *)
EnoughBuffers == NBUF >= Cardinality(User) + MaxPinned

VARIABLES blockno, refcnt, valid,     \* struct buf
          block_lock, lru,            \* its sleep-lock, and the list, head.next first
          pinned,                     \* the blocks of the log, pinned with bpin()
          bpc, cur,                   \* the users, and the buffer of each
          latest                      \* history: what was last stored in each block

bcacheVars == <<blockno, refcnt, valid, block_lock, lru, pinned, bpc, cur, latest>>
bcVars == <<portVars, bcacheVars>>

(* The list is a permutation of the buffers. *)
LruOK == Len(lru) = NBUF /\ lru \in Seq(Buf) /\ \A b \in Buf : \E i \in 1..NBUF : lru[i] = b

BcTypeOK ==
  /\ disk \in [Block -> Value] /\ data \in [Buf -> Value]
  /\ port \in [User -> {Idle} \cup
                       [at : {"pending", "done"}, buf : Buf, block : Block, write : BOOLEAN]]
  /\ blockno \in [Buf -> Block \cup {NoBlock}]
  /\ refcnt \in [Buf -> 0..(Cardinality(User) + 1)] /\ valid \in [Buf -> BOOLEAN]
  /\ block_lock \in [Buf -> User \cup {Unlocked}]
  /\ LruOK
  /\ pinned \in SUBSET Block /\ latest \in [Block -> Value]
  /\ bpc \in [User -> {"out", "lock", "reading", "held", "changed", "writing", "written",
                       "release", "panic"}]
  /\ cur \in [User -> Buf \cup {NoBuf}]

(* binit() puts each buffer before the ones that are in the list. *)
BcInit ==
  /\ disk = [k \in Block |-> 0] /\ data = [b \in Buf |-> 0]
  /\ port = [p \in User |-> Idle]
  /\ blockno = [b \in Buf |-> NoBlock]
  /\ refcnt = [b \in Buf |-> 0] /\ valid = [b \in Buf |-> FALSE]
  /\ block_lock = [b \in Buf |-> Unlocked]
  /\ lru = [i \in 1..NBUF |-> NBUF + 1 - i]
  /\ pinned = {}
  /\ bpc = [p \in User |-> "out"] /\ cur = [p \in User |-> NoBuf]
  /\ latest = disk
-----------------------------------------------------------------------------
BcGoto(p, l) == bpc' = [bpc EXCEPT ![p] = l]

(* The other users of the process.  It does one thing at a time, ... *)
Others(p) == {q \in User \ {p} : Owner[q] = Owner[p]}
MayAct(p) == \A q \in Others(p) : bpc[q] \in {"out", "held", "changed", "written"}

(* ... and reads a block with nothing in hand, or with a block that it goes with. *)
MayGet(p, k) ==
  /\ bpc[p] = "out" /\ MayAct(p)
  /\ \A q \in Others(p) : bpc[q] # "out" => <<blockno[cur[q]], k>> \in Nested

(* bget(): the block is cached, ... *)
BgetHit(p, k) ==
  /\ MayGet(p, k)
  /\ \E b \in Buf : /\ blockno[b] = k
                    /\ refcnt' = [refcnt EXCEPT ![b] = @ + 1]
                    /\ cur' = [cur EXCEPT ![p] = b]
  /\ BcGoto(p, "lock")
  /\ UNCHANGED <<portVars, blockno, valid, block_lock, lru, pinned, latest>>

Recycle(p, b, k) ==
  /\ blockno' = [blockno EXCEPT ![b] = k]
  /\ valid' = [valid EXCEPT ![b] = FALSE]
  /\ refcnt' = [refcnt EXCEPT ![b] = 1]
  /\ cur' = [cur EXCEPT ![p] = b]

(* The scan from head.prev stops at entry j. *)
LeastRecent(j) == refcnt[lru[j]] = 0 /\ \A i \in (j + 1)..NBUF : refcnt[lru[i]] # 0

(* ... or the least recently used buffer that is free is recycled. *)
BgetMiss(p, k) ==
  /\ MayGet(p, k)
  /\ \A b \in Buf : blockno[b] # k
  /\ \/ \E j \in 1..NBUF : LeastRecent(j) /\ BcGoto(p, "lock") /\ Recycle(p, lru[j], k)
     \/ /\ \A j \in 1..NBUF : refcnt[lru[j]] # 0
        /\ BcGoto(p, "panic") /\ UNCHANGED <<blockno, valid, refcnt, cur>>
  /\ UNCHANGED <<portVars, block_lock, lru, pinned, latest>>

(* acquiresleep(&b->lock); bread() reads the block unless b->valid. *)
LockBuf(p) ==
  LET b == cur[p] IN
  /\ bpc[p] = "lock" /\ block_lock[b] = Unlocked
  /\ block_lock' = [block_lock EXCEPT ![b] = p]
  /\ IF valid[b] THEN BcGoto(p, "held") /\ UNCHANGED port
                 ELSE BcGoto(p, "reading") /\ PortCall(p, b, blockno[b], FALSE)
  /\ UNCHANGED <<disk, data, blockno, refcnt, valid, lru, pinned, cur, latest>>

DiskTransfer(p) == PortTransfer(p) /\ UNCHANGED bcacheVars

ReadDone(p) ==
  /\ bpc[p] = "reading" /\ PortReturn(p)
  /\ valid' = [valid EXCEPT ![cur[p]] = TRUE]
  /\ BcGoto(p, "held")
  /\ UNCHANGED <<disk, data, blockno, refcnt, block_lock, lru, pinned, cur, latest>>

WriteDone(p) ==
  /\ bpc[p] = "writing" /\ PortReturn(p)
  /\ BcGoto(p, "written")
  /\ UNCHANGED <<disk, data, blockno, refcnt, valid, block_lock, lru, pinned, cur, latest>>

(* The holder changes the block. *)
Change(p, v) ==
  LET b == cur[p] IN
  /\ bpc[p] = "held" /\ MayAct(p) /\ blockno[b] \in Written /\ data[b] # v
  /\ PortStore(b, v)
  /\ latest' = [latest EXCEPT ![blockno[b]] = v]
  /\ BcGoto(p, "changed")
  /\ UNCHANGED <<disk, port, blockno, refcnt, valid, block_lock, lru, pinned, cur>>

(* bwrite(): of a change that does not go through the log, or of a block that
   the log installs (install_trans). *)
Bwrite(p) ==
  /\ MayAct(p)
  /\ \/ bpc[p] = "changed" /\ blockno[cur[p]] \notin pinned
     \/ bpc[p] = "held" /\ blockno[cur[p]] \in pinned
  /\ PortCall(p, cur[p], blockno[cur[p]], TRUE)
  /\ BcGoto(p, "writing")
  /\ UNCHANGED <<disk, data, blockno, refcnt, valid, block_lock, lru, pinned, cur, latest>>

(* Mutant: no reference is taken. *)
PinNothing(b) == refcnt

PinRef(b) == [refcnt EXCEPT ![b] = @ + 1]

(* log_write(): a block that is not in the log yet is pinned. *)
Bpin(p) ==
  LET b == cur[p] IN
  /\ bpc[p] = "changed" /\ MayAct(p)
  /\ blockno[b] \in pinned \/ Cardinality(pinned) < MaxPinned
  /\ refcnt' = IF blockno[b] \in pinned THEN refcnt ELSE PinRef(b)
  /\ pinned' = pinned \cup {blockno[b]}
  /\ BcGoto(p, "held")
  /\ UNCHANGED <<portVars, blockno, valid, block_lock, lru, cur, latest>>

UnpinRef(b) == [refcnt EXCEPT ![b] = @ - 1]

Bunpin(p) ==
  LET b == cur[p] IN
  /\ bpc[p] = "written" /\ MayAct(p) /\ blockno[b] \in pinned
  /\ refcnt' = UnpinRef(b)
  /\ pinned' = pinned \ {blockno[b]}
  /\ UNCHANGED <<portVars, blockno, valid, block_lock, lru, bpc, cur, latest>>

(* brelse(): releasesleep(), ... *)
Brelse(p) ==
  /\ MayAct(p)
  /\ \/ bpc[p] = "held"
     \/ bpc[p] = "written" /\ blockno[cur[p]] \notin pinned
  /\ block_lock' = [block_lock EXCEPT ![cur[p]] = Unlocked]
  /\ BcGoto(p, "release")
  /\ UNCHANGED <<portVars, blockno, refcnt, valid, lru, pinned, cur, latest>>

(* The buffers before b move down by one. *)
ToFront(b) ==
  LET j == CHOOSE i \in 1..NBUF : lru[i] = b
  IN  [i \in 1..NBUF |-> IF i = 1 THEN b ELSE IF i <= j THEN lru[i - 1] ELSE lru[i]]

(* ... then the reference, and the head of the list for a buffer that nobody uses. *)
Drop(p) ==
  LET b == cur[p] IN
  /\ bpc[p] = "release"
  /\ refcnt' = [refcnt EXCEPT ![b] = @ - 1]
  /\ lru' = IF refcnt[b] = 1 THEN ToFront(b) ELSE lru
  /\ cur' = [cur EXCEPT ![p] = NoBuf]
  /\ BcGoto(p, "out")
  /\ UNCHANGED <<portVars, blockno, valid, block_lock, pinned, latest>>

BcNext ==
  \E p \in User :
    \/ \E k \in Block : BgetHit(p, k) \/ BgetMiss(p, k)
    \/ LockBuf(p) \/ DiskTransfer(p) \/ ReadDone(p) \/ WriteDone(p)
    \/ \E v \in Value : Change(p, v)
    \/ Bwrite(p) \/ Bpin(p) \/ Bunpin(p) \/ Brelse(p) \/ Drop(p)
-----------------------------------------------------------------------------
HoldsBuf(p) == bpc[p] \in {"held", "changed", "writing", "written"}
Users(b) == {p \in User : cur[p] = b}
Pins(b) == IF blockno[b] \in pinned THEN 1 ELSE 0

(* At most one buffer per block and one user in it, and the count of a buffer is
   what keeps bget() from recycling it: the pointers to it, and the log. *)
OneBufferPerBlock ==
  /\ \A a, b \in Buf : blockno[a] = blockno[b] /\ blockno[a] # NoBlock => a = b
  /\ \A p, q \in User : HoldsBuf(p) /\ HoldsBuf(q) /\ cur[p] = cur[q] => p = q
  /\ \A b \in Buf : refcnt[b] = Cardinality(Users(b)) + Pins(b)

(* bread() returns the last contents of the block, whatever was recycled,
   written through or left to the log in between. *)
ReadsLatest == \A p \in User : HoldsBuf(p) => data[cur[p]] = latest[blockno[cur[p]]]

(* A change is not lost: it is on disk, or its block is pinned in the cache, or
   its author still holds the buffer. *)
ChangesKept ==
  \A k \in Block : \/ disk[k] = latest[k]
                   \/ \E b \in Buf : /\ blockno[b] = k /\ data[b] = latest[k]
                                     /\ k \in pinned \/ block_lock[b] # Unlocked

(* bget() finds a buffer as long as there are two for each process in the file
   system and those of the log, which is what panic("bget: no buffers") is about. *)
BuffersSuffice == EnoughBuffers => \A p \in User : bpc[p] # "panic"

(* bio.c is a cache: one copy of a block, the latest, which is not dropped
   before it is on disk; and there is room for another if NBUF is large enough. *)
CacheSafe == BcTypeOK /\ OneBufferPerBlock /\ ReadsLatest /\ ChangesKept /\ BuffersSuffice
-----------------------------------------------------------------------------
BcSpec == BcInit /\ [][BcNext]_bcVars

Transfers(p) == bpc[p] \in {"reading", "writing"}
Locks(p) == Transfers(p) \/ HoldsBuf(p)

(* A user points to a buffer from bget() to the end of brelse(); the lock of the
   buffer names the user that is between bread() and brelse(). *)
UsersInv ==
  /\ \A p \in User : cur[p] = NoBuf <=> bpc[p] \in {"out", "panic"}
  /\ \A p \in User : cur[p] # NoBuf => blockno[cur[p]] # NoBlock
  /\ \A p \in User, b \in Buf : block_lock[b] = p <=> cur[p] = b /\ Locks(p)

(* The disk is asked for the buffer that the caller has locked, and nothing
   else; a transfer that is done has done its work. *)
CallsInv ==
  \A p \in User :
    IF Transfers(p)
      THEN /\ port[p].at \in {"pending", "done"} /\ port[p].buf = cur[p]
           /\ port[p].block = blockno[cur[p]] /\ (port[p].write <=> bpc[p] = "writing")
           /\ port[p].at = "done" => disk[blockno[cur[p]]] = data[cur[p]]
      ELSE port[p] = Idle

(* The log pins at most MaxPinned blocks, all of them cached. *)
PinsInv ==
  /\ IsFiniteSet(pinned) /\ Cardinality(pinned) <= MaxPinned
  /\ \A k \in pinned : \E b \in Buf : blockno[b] = k /\ valid[b]

(* b->valid says that the buffer has the latest contents, which are on disk
   unless the block is in the log or its holder has just changed it. *)
ContentsInv ==
  /\ \A b \in Buf : valid[b] => blockno[b] # NoBlock /\ data[b] = latest[blockno[b]]
  /\ \A p \in User : HoldsBuf(p) => valid[cur[p]]
  /\ \A p \in User : bpc[p] = "reading" => ~valid[cur[p]]
  /\ \A k \in Block : \/ k \in pinned \/ disk[k] = latest[k]
                       \/ \E p \in User : bpc[p] \in {"changed", "writing"} /\ blockno[cur[p]] = k
  /\ \A p \in User : bpc[p] = "written" => disk[blockno[cur[p]]] = latest[blockno[cur[p]]]

(* bio.c is a cache, as CacheSafe says, and the reasons: who holds which lock,
   what the disk is doing, what is pinned, and when a copy is the latest. *)
CacheInv == CacheSafe /\ UsersInv /\ CallsInv /\ PinsInv /\ ContentsInv
=============================================================================
