------------------------------ MODULE FileData ------------------------------
(***************************************************************************)
(* The contents of files: the block allocator, bmap(), itrunc(), readi()   *)
(* and writei() of kernel/fs.c, and the loop of filewrite() in             *)
(* kernel/file.c that cuts a write into transactions.                      *)
(*                                                                         *)
(* Each file has at most one write in progress (its inode is locked); the  *)
(* writes of different files interleave block by block.  A file may have   *)
(* been opened several times, so a write starts at any offset.             *)
(* When either_copyin() fails, writei() releases a buffer that it may have *)
(* changed in part and has not given to log_write(): the cache shows the   *)
(* change until the buffer is recycled.                                    *)
(*                                                                         *)
(* fpc[f]: "idle"; "chunk", before begin_op(); "loop", in writei()'s loop; *)
(*         "short", after the loop broke off.                              *)
(***************************************************************************)
EXTENDS Integers, FiniteSets, Sequences

CONSTANTS File,
          BSIZE, NDIRECT, NINDIRECT, BPB,
          SIZE,           \* sb.size, blocks of the disk
          META,           \* blocks before the first data block
          MAXOPBLOCKS,
          Writes,         \* the writes: <<offset, length>>
          MaxOps          \* writes and truncations, a bound

ASSUME FileDataAssumption ==
  /\ {BSIZE, NDIRECT, BPB, SIZE, META, MAXOPBLOCKS} \subseteq Nat \ {0}
  /\ NINDIRECT \in 1..BSIZE /\ META < SIZE /\ MAXOPBLOCKS >= 6

VARIABLES used,           \* the bitmap
          store,          \* the blocks, as the cache shows them
          saved,          \* the blocks, as the log and the disk have them
          addrs, size,    \* of each inode
          fpc, wr,        \* the write in progress: [off, i, n, n1, tot, v]
          logged,         \* the blocks its transaction has written
          content,        \* history: the values each byte of a file may have
          ops             \* calls made; every write has a byte of its own

fdVars == <<used, store, saved, addrs, size, fpc, wr, logged, content, ops>>

MAXFILE == NDIRECT + NINDIRECT
MAXBYTES == MAXFILE * BSIZE
BlockNo == 0..(SIZE - 1)
Zeroes == [o \in 0..(BSIZE - 1) |-> 0]
NoWrite == [off |-> 0, i |-> 0, n |-> 0, n1 |-> 0, tot |-> 0, v |-> 0]
Least(S) == CHOOSE x \in S : \A y \in S : x <= y

FdTypeOK ==
  /\ used \in SUBSET BlockNo
  /\ {store, saved} \subseteq [BlockNo -> [0..(BSIZE - 1) -> Nat]]
  /\ addrs \in [File -> [0..NDIRECT -> BlockNo]]
  /\ size \in [File -> 0..MAXBYTES]
  /\ fpc \in [File -> {"idle", "chunk", "loop", "short"}]
  /\ \A f \in File : wr[f].tot \in 0..wr[f].n1 /\ wr[f].i \in 0..wr[f].n

FdInit ==
  /\ used = 0..(META - 1)
  /\ store = [b \in BlockNo |-> Zeroes] /\ saved = store
  /\ addrs = [f \in File |-> [j \in 0..NDIRECT |-> 0]]
  /\ size = [f \in File |-> 0]
  /\ fpc = [f \in File |-> "idle"] /\ wr = [f \in File |-> NoWrite]
  /\ logged = [f \in File |-> {}]
  /\ content = [f \in File |-> <<>>]
  /\ ops = 0
-----------------------------------------------------------------------------
(* What bmap() works on: [used, store, saved, addrs, log], and the block got.  The
   bitmap, fresh blocks and indirect blocks are logged as they are changed. *)
BBLOCK(b) == <<"bitmap", b \div BPB>>

(* balloc(): the first block that is free, zeroed; 0 if there is none. *)
Balloc(d) ==
  LET avail == BlockNo \ d.used
      b == Least(avail)
  IN  IF avail = {} THEN [d EXCEPT !.got = 0]
      ELSE [d EXCEPT !.used = @ \cup {b}, !.store[b] = Zeroes, !.saved[b] = Zeroes,
                     !.log = @ \cup {BBLOCK(b), <<"data", b>>}, !.got = b]

(* The block at addrs[j], allocated if it is missing. *)
Direct(d, j) ==
  IF d.addrs[j] # 0 THEN [d EXCEPT !.got = d.addrs[j]]
  ELSE LET e == Balloc(d) IN [e EXCEPT !.addrs[j] = e.got]

(* bmap() *)
Bmap(d, bn) ==
  IF bn < NDIRECT THEN Direct(d, bn)
  ELSE LET e == Direct(d, NDIRECT)
           a == e.got
           j == bn - NDIRECT
       IN  CASE a = 0 -> e
             [] a # 0 /\ e.store[a][j] # 0 -> [e EXCEPT !.got = e.store[a][j]]
             [] OTHER ->
                  LET g == Balloc(e)
                  IN  IF g.got = 0 THEN g
                      ELSE [g EXCEPT !.store[a][j] = g.got, !.saved[a][j] = g.got,
                                    !.log = @ \cup {<<"data", a>>}]

Disk(f) == [used |-> used, store |-> store, saved |-> saved, addrs |-> addrs[f],
            log |-> logged[f], got |-> 0]
-----------------------------------------------------------------------------
Lesser(a, b) == IF a < b THEN a ELSE b
Greater(a, b) == IF a > b THEN a ELSE b

(* filewrite() is called. *)
Filewrite(f, off, n) ==
  /\ fpc[f] = "idle" /\ ops < MaxOps
  /\ ops' = ops + 1
  /\ wr' = [wr EXCEPT ![f] = [off |-> off, i |-> 0, n |-> n, n1 |-> 0, tot |-> 0, v |-> ops']]
  /\ fpc' = [fpc EXCEPT ![f] = "chunk"]
  /\ UNCHANGED <<used, store, saved, addrs, size, logged, content>>

(* Mutant: no room for the blocks at both ends of a write that is not aligned. *)
ChunkMaxAligned == ((MAXOPBLOCKS - 1 - 1) \div 2) * BSIZE

ChunkMax == ((MAXOPBLOCKS - 1 - 1 - 2) \div 2) * BSIZE

(* begin_op(), ilock(), and writei() up to its loop: off past the end or a file
   that would be too large is refused. *)
BeginChunk(f) ==
  LET w == wr[f]
      n1 == Lesser(w.n - w.i, ChunkMax)
  IN
  /\ fpc[f] = "chunk"
  /\ IF w.off > size[f] \/ w.off + n1 > MAXBYTES
       THEN fpc' = [fpc EXCEPT ![f] = "idle"] /\ wr' = [wr EXCEPT ![f] = NoWrite]
       ELSE fpc' = [fpc EXCEPT ![f] = "loop"] /\ wr' = [wr EXCEPT ![f].n1 = n1, ![f].tot = 0]
  /\ UNCHANGED <<used, store, saved, addrs, size, logged, content, ops>>

(* m: up to the end of the block. *)
Piece(f) == Lesser(wr[f].n1 - wr[f].tot, BSIZE - (wr[f].off % BSIZE))

(* either_copyin() of m bytes into block b of the blocks t. *)
CopyIn(f, t, b, m) ==
  LET o == wr[f].off % BSIZE
  IN  [t EXCEPT ![b] = [j \in 0..(BSIZE - 1) |-> IF j \in o..(o + m - 1) THEN wr[f].v ELSE @[j]]]

(* One turn of writei()'s loop; when bmap() finds no block it breaks off. *)
WriteBlock(f) ==
  LET w == wr[f]
      d == Bmap(Disk(f), w.off \div BSIZE)
      b == d.got
      m == Piece(f)
  IN
  /\ fpc[f] = "loop" /\ w.tot < w.n1
  /\ used' = d.used
  /\ addrs' = [addrs EXCEPT ![f] = d.addrs]
  /\ IF b = 0
       THEN /\ fpc' = [fpc EXCEPT ![f] = "short"]
            /\ logged' = [logged EXCEPT ![f] = d.log]
            /\ store' = d.store /\ saved' = d.saved
            /\ UNCHANGED <<wr, content>>
       ELSE /\ store' = CopyIn(f, d.store, b, m)
            /\ saved' = [d.saved EXCEPT ![b] = store'[b]]
            /\ logged' = [logged EXCEPT ![f] = d.log \cup {<<"data", b>>}]
            /\ wr' = [wr EXCEPT ![f].off = @ + m, ![f].tot = @ + m]
            /\ content' = [content EXCEPT ![f] =
                 [j \in 1..Greater(Len(@), w.off + m) |->
                    IF j \in (w.off + 1)..(w.off + m) THEN {w.v} ELSE @[j]]]
            /\ UNCHANGED fpc
  /\ UNCHANGED <<size, ops>>

(* either_copyin() fails after m bytes: the block that bmap() gave stays with the
   file, and the change is kept if the block is in the log already. *)
WriteiFault(f, m) ==
  LET w == wr[f]
      d == Bmap(Disk(f), w.off \div BSIZE)
      b == d.got
  IN
  /\ fpc[f] = "loop" /\ w.tot < w.n1 /\ b # 0 /\ m < Piece(f)
  /\ used' = d.used
  /\ addrs' = [addrs EXCEPT ![f] = d.addrs]
  /\ store' = CopyIn(f, d.store, b, m)
  /\ saved' = IF <<"data", b>> \in d.log THEN [d.saved EXCEPT ![b] = store'[b]] ELSE d.saved
  /\ logged' = [logged EXCEPT ![f] = d.log]
  /\ content' = [content EXCEPT ![f] =
       [j \in 1..Len(@) |-> IF j \in (w.off + 1)..(w.off + m) THEN @[j] \cup {w.v} ELSE @[j]]]
  /\ fpc' = [fpc EXCEPT ![f] = "short"]
  /\ UNCHANGED <<size, wr, ops>>

(* bget() recycles the buffer of a block that was changed and not logged. *)
Forget(b) ==
  /\ store[b] # saved[b]
  /\ store' = [store EXCEPT ![b] = saved[b]]
  /\ UNCHANGED <<used, saved, addrs, size, fpc, wr, logged, content, ops>>

NewSize(f) == Greater(size[f], wr[f].off)

(* writei() returns; f->off has moved; the next chunk, or the end. *)
EndChunk(f) ==
  LET w == wr[f]
      i == w.i + w.tot
      more == w.tot = w.n1 /\ i < w.n
  IN
  /\ \/ fpc[f] = "short"
     \/ fpc[f] = "loop" /\ w.tot = w.n1
  /\ size' = [size EXCEPT ![f] = NewSize(f)]
  /\ logged' = [logged EXCEPT ![f] = {}]
  /\ fpc' = [fpc EXCEPT ![f] = IF more THEN "chunk" ELSE "idle"]
  /\ wr' = [wr EXCEPT ![f] = IF more THEN [w EXCEPT !.i = i, !.n1 = 0, !.tot = 0] ELSE NoWrite]
  /\ UNCHANGED <<used, store, saved, addrs, content, ops>>

(* The blocks of a file, the indirect block included. *)
Owned(f) ==
  LET a == addrs[f][NDIRECT]
  IN  ({addrs[f][j] : j \in 0..NDIRECT}
        \cup IF a = 0 THEN {} ELSE {store[a][j] : j \in 0..(NINDIRECT - 1)}) \ {0}

(* itrunc(): every block goes back with bfree(). *)
Truncated(f) == Owned(f)

Itrunc(f) ==
  /\ fpc[f] = "idle" /\ ops < MaxOps
  /\ ops' = ops + 1
  /\ used' = used \ Truncated(f)
  /\ addrs' = [addrs EXCEPT ![f] = [j \in 0..NDIRECT |-> 0]]
  /\ size' = [size EXCEPT ![f] = 0]
  /\ content' = [content EXCEPT ![f] = <<>>]
  /\ UNCHANGED <<store, saved, fpc, wr, logged>>

FdNext ==
  \/ \E f \in File :
       \/ \E w \in Writes : Filewrite(f, w[1], w[2])
       \/ \E m \in 0..(BSIZE - 1) : WriteiFault(f, m)
       \/ BeginChunk(f) \/ WriteBlock(f) \/ EndChunk(f) \/ Itrunc(f)
  \/ \E b \in BlockNo : Forget(b)
-----------------------------------------------------------------------------
(* readi(): nothing beyond the end, and less than n at the end. *)
Readi(f, off, n) ==
  IF off > size[f] THEN <<>>
  ELSE [j \in 1..Lesser(n, size[f] - off) |->
          LET at == off + j - 1 IN store[Bmap(Disk(f), at \div BSIZE).got][at % BSIZE]]

(* read() returns what was written, across the boundaries of blocks, of the
   direct blocks and of the transactions that filewrite() makes, and after
   writes that ended early.  Only the bytes that a failing either_copyin() has
   reached may have their old value or the new one. *)
ReadsBack ==
  \A f \in File : fpc[f] = "idle" =>
    \A off \in 0..MAXBYTES :
      LET bytes == Readi(f, off, MAXBYTES) IN
      /\ Len(bytes) = Greater(0, Len(content[f]) - off)
      /\ \A j \in DOMAIN bytes : bytes[j] \in content[f][off + j]

(* A block belongs to one file at most, and the bitmap marks the blocks that
   have an owner and no others: balloc() hands out no block twice, itrunc()
   frees no free block, and none is lost when a write breaks off. *)
BitmapExact ==
  /\ used = 0..(META - 1) \cup UNION {Owned(f) : f \in File}
  /\ \A f, g \in File : f # g => Owned(f) \cap Owned(g) = {}
  /\ \A f \in File : Owned(f) \cap 0..(META - 1) = {}

(* A transaction of filewrite() writes no more blocks than begin_op() reserves:
   the data, with the slop of a write that is not aligned, the indirect block, the
   inode, and the bitmap blocks. *)
ChunkFits == \A f \in File : fpc[f] # "idle" => Cardinality(logged[f] \cup {<<"inode", f>>}) <= MAXOPBLOCKS

(* bmap(), balloc(), itrunc() and writei() keep the blocks of files apart, read
   back what was written, and stay within a transaction. *)
DataSafe == FdTypeOK /\ ReadsBack /\ BitmapExact /\ ChunkFits
=============================================================================
