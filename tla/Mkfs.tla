-------------------------------- MODULE Mkfs --------------------------------
(***************************************************************************)
(* mkfs/mkfs.c: the image the kernel boots from.  m = [freeblock,          *)
(* freeinode, din, disk] is the state of the program and of the image;     *)
(* blocks are numbered from 0, the first Meta of them being the boot and   *)
(* super block, the log, the inodes and the bitmap.  A byte of a file is   *)
(* the pair of its inode and its offset.                                   *)
(***************************************************************************)
EXTENDS Integers, SequencesExt, FiniteSetsExt

CONSTANTS FBSIZE, DIRENT, FDIRECT, FINDIRECT,    \* BSIZE, sizeof(dirent), NDIRECT, NINDIRECT
          Meta, FSSIZE, FileSizes, MaxFiles

VARIABLES img, bitmap, mpc        \* bitmap: the blocks marked as used

mkVars == <<img, bitmap, mpc>>

MAXFILEB == FDIRECT + FINDIRECT
ROOT == 1
Zeroes == [k \in 0..(FBSIZE - 1) |-> <<>>]
NoAddrs == [k \in 0..(FDIRECT - 1) |-> 0]
NoTable == [k \in 0..(FINDIRECT - 1) |-> 0]

(* nblocks is enough for the files, which mkfs does not check. *)
ASSUME ImageIsLarge == FSSIZE >= Meta + (MaxFiles + 1) * (MAXFILEB + 1)

MkTypeOK ==
  /\ img.freeblock \in Meta..FSSIZE /\ img.freeinode \in 1..(MaxFiles + 2)
  /\ bitmap \subseteq 0..(FSSIZE - 1) /\ mpc \in {"start", "files", "done"}
  /\ \A i \in DOMAIN img.din : img.din[i].size \in 0..(MAXFILEB * FBSIZE)
  /\ mpc # "start" => img.din[ROOT].size % DIRENT = 0

Blank == [freeblock |-> Meta, freeinode |-> ROOT, din |-> <<>>, disk |-> <<>>, table |-> <<>>]
MkInit == img = Blank /\ bitmap = {} /\ mpc = "start"
-----------------------------------------------------------------------------
(* ialloc() *)
Ialloc(m) ==
  [m EXCEPT !.freeinode = @ + 1,
            !.din = Append(@, [size |-> 0, addrs |-> NoAddrs, indirect |-> 0])]

Content(m, x) == IF x \in DOMAIN m.disk THEN m.disk[x] ELSE Zeroes
Table(m, x) == IF x \in DOMAIN m.table THEN m.table[x] ELSE NoTable
PutAt(f, x, v) == [y \in DOMAIN f \cup {x} |-> IF y = x THEN v ELSE f[y]]

(* Mutant: the indirect block is not written back. *)
IndexedNot(m, ind, k) == [m EXCEPT !.freeblock = @ + 1]

(* A block for entry k of the indirect block *)
Indexed(m, ind, k) ==
  IF Table(m, ind)[k] # 0 THEN m
  ELSE [m EXCEPT !.table = PutAt(@, ind, [Table(m, ind) EXCEPT ![k] = m.freeblock]), !.freeblock = @ + 1]

(* The block x of the file's block fbn, made if it is not there, in iappend() *)
Map(m, inum, fbn) ==
  LET d == m.din[inum]
      own == IF d.indirect = 0 THEN [m EXCEPT !.din[inum].indirect = m.freeblock, !.freeblock = @ + 1] ELSE m
  IN  IF fbn >= FDIRECT THEN Indexed(own, own.din[inum].indirect, fbn - FDIRECT)
      ELSE IF d.addrs[fbn] = 0 THEN [m EXCEPT !.din[inum].addrs[fbn] = m.freeblock, !.freeblock = @ + 1]
      ELSE m

BlockOf(m, inum, fbn) ==
  IF fbn < FDIRECT THEN m.din[inum].addrs[fbn] ELSE Table(m, m.din[inum].indirect)[fbn - FDIRECT]

(* n1: up to the end of the block *)
PieceOf(off, n) == Min({n, (((off \div FBSIZE) + 1) * FBSIZE) - off})

(* iappend(): n bytes at the end of the file *)
RECURSIVE Iappend(_, _, _)
Iappend(m, inum, n) ==
  LET off == m.din[inum].size
      fbn == off \div FBSIZE
      n1 == PieceOf(off, n)
      w == Map(m, inum, fbn)
      x == BlockOf(w, inum, fbn)
      bytes == [k \in 0..(FBSIZE - 1) |->
                  IF k \in (off % FBSIZE)..((off % FBSIZE) + n1 - 1)
                  THEN <<inum, off + k - (off % FBSIZE)>> ELSE Content(w, x)[k]]
  IN  IF n = 0 THEN m
      ELSE Iappend([w EXCEPT !.disk = PutAt(@, x, bytes), !.din[inum].size = off + n1], inum, n - n1)

(* A file is read and appended a block at a time. *)
RECURSIVE CopyFile(_, _, _)
CopyFile(m, inum, n) ==
  IF n = 0 THEN m ELSE LET c == Min({n, FBSIZE}) IN CopyFile(Iappend(m, inum, c), inum, n - c)

(* main(): the root directory with its two entries *)
MkRoot ==
  /\ mpc = "start" /\ mpc' = "files"
  /\ img' = Iappend(Iappend(Ialloc(img), ROOT, DIRENT), ROOT, DIRENT)
  /\ UNCHANGED bitmap

(* ... one file of the command line *)
MkFile(n) ==
  LET inum == img.freeinode IN
  /\ mpc = "files" /\ inum <= MaxFiles + 1
  /\ img' = CopyFile(Iappend(Ialloc(img), ROOT, DIRENT), inum, n)
  /\ UNCHANGED <<bitmap, mpc>>

(* balloc() *)
Balloc(used) == 0..(used - 1)

(* "fix size of root inode dir" *)
Rounded(off) == ((off \div FBSIZE) + 1) * FBSIZE

(* ... and the end *)
MkDone ==
  /\ mpc = "files" /\ mpc' = "done"
  /\ img' = [img EXCEPT !.din[ROOT].size = Rounded(@)]
  /\ bitmap' = Balloc(img.freeblock)

MkAgain == mpc = "done" /\ mpc' = "start" /\ img' = Blank /\ bitmap' = {}

MkNext == MkRoot \/ MkDone \/ MkAgain \/ \E n \in FileSizes : MkFile(n)
-----------------------------------------------------------------------------
Mapped(inum) == {BlockOf(img, inum, k) : k \in 0..(MAXFILEB - 1)} \ {0}
Uses(inum) == Mapped(inum) \cup ({img.din[inum].indirect} \ {0})

(* The bitmap marks the blocks of the metadata and those that files use, each
   of them for one file: what the balloc() of the kernel takes for granted. *)
BitmapMatches ==
  mpc = "done" =>
    /\ bitmap = (0..(Meta - 1)) \cup UNION {Uses(i) : i \in DOMAIN img.din}
    /\ \A i, j \in DOMAIN img.din : i # j => Uses(i) \cap Uses(j) = {}
    /\ \A i \in DOMAIN img.din : img.din[i].indirect \notin Mapped(i)

(* Whatever its size, a file reads back through its block numbers as it was. *)
FilesReadBack ==
  \A i \in DOMAIN img.din : \A k \in 0..(img.din[i].size - 1) :
    LET x == BlockOf(img, i, k \div FBSIZE) IN
    \/ x \in DOMAIN img.disk /\ img.disk[x][k % FBSIZE] = <<i, k>>
    \/ i = ROOT /\ mpc = "done" /\ k >= (Len(img.din) + 1) * DIRENT

(* The root directory is a whole number of blocks, and no entry is cut off.
   When the entries fill their last block, the block after it is inside the
   size without being there: the kernel's readi() will allocate it. *)
RootHoldsAll ==
  mpc = "done" =>
    LET entries == (Len(img.din) + 1) * DIRENT
        size == img.din[ROOT].size
    IN  /\ size % FBSIZE = 0 /\ size > entries /\ size - entries <= FBSIZE
        /\ BlockOf(img, ROOT, (size - 1) \div FBSIZE) = 0 <=> entries % FBSIZE = 0

(* mkfs leaves an image that the kernel can read and allocate from. *)
ImageSound == MkTypeOK /\ BitmapMatches /\ FilesReadBack /\ RootHoldsAll
=============================================================================
