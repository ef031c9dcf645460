------------------------------ MODULE FileSys ------------------------------
(***************************************************************************)
(* The inode table and the directories, kernel/fs.c, and the system calls  *)
(* on names, kernel/sysfile.c, with crashes.                               *)
(*                                                                         *)
(* A call is a transaction of the log (begin_op, end_op); by TxDisk its    *)
(* writes become durable together when no call is in progress.             *)
(* A step begins where a process takes an inode's lock, or itable.lock in  *)
(* iput(), and ends before the next such place.  The iget() of an entry    *)
(* found by dirlookup() belongs to the step that locked the directory.     *)
(* File contents are left out here (FileData); a directory is a function   *)
(* from names to inode numbers, 0 for no entry.                            *)
(*                                                                         *)
(* st[p].pc: "out"                                                         *)
(*           "walk"     in namex(), about to ilock(at)                     *)
(*           "open", "chdir", "unlink", "link", "linkto", "linkbad",       *)
(*           "create"   before the ilock() that follows the walk           *)
(*           "exists"   in create(), about to ilock() the file it found    *)
(*           "fresh"    in create(), about to ilock() what ialloc() gave   *)
(*           "made"     create() has returned the locked inode             *)
(*           "child"    in sys_unlink(), about to ilock(ip)                *)
(*           "gone"     in sys_unlink(), the entry is erased               *)
(*           "iput"     about to iput() the first of puts                  *)
(*           "trunc", "inval", "deref"   inside that iput()                *)
(*           "end"      about to end_op()                                  *)
(*           "panic"                                                       *)
(***************************************************************************)
EXTENDS Integers, Sequences, FiniteSets, FiniteSetsExt, TLC, Relation

CONSTANTS Process, Inum,  \* inode numbers 1..n
          Names,          \* names of entries, besides "." and ".."
          Images,         \* the disks at boot, <<dinode, entries>>
          Calls,          \* what each process may call: [op, path, new, here]; a path
                          \* starts at the working directory if here, else at the root
          MaxCalls,       \* calls of a process, a bound
          Slot,           \* NINODE
          MaxCrashes,     \* a bound
          DiskFills       \* dirlink() may find the disk full

ASSUME SlotAssumption == Cardinality(Slot) >= Cardinality(Inum) /\ 1 \in Inum

VARIABLES dinode, entries,  \* on disk, as the calls see it: type and nlink; directories
          durable,          \* what a crash leaves of the two
          table,            \* itable: inum, ref, valid, type, nlink, lock
          st,               \* the processes
          cwd, file,        \* p->cwd, and one open file per process
          calls, crashes    \* counters, for the bounds

fsVars == <<dinode, entries, durable, table, st, cwd, file, calls, crashes>>
diskVars == <<dinode, entries>>

Root == 1
Nil == 0
Nobody == "free"
AllNames == Names \cup {".", ".."}
NoEntries == [n \in AllNames |-> 0]
Types == {"none", "dir", "file", "dev"}
EmptySlot == [inum |-> Root, ref |-> 0, valid |-> FALSE, type |-> "none", nlink |-> 0, lock |-> Nobody]
AtRest == [pc |-> "out", call |-> [op |-> "none"], rest |-> <<>>,
           at |-> Nil, ip |-> Nil, dp |-> Nil, puts |-> <<>>, ret |-> "out"]

FsTypeOK ==
  /\ DOMAIN dinode = Inum /\ \A i \in Inum : dinode[i].type \in Types /\ dinode[i].nlink \in Nat
  /\ entries \in [Inum -> [AllNames -> Inum \cup {0}]]
  /\ \A s \in Slot : /\ table[s].inum \in Inum /\ table[s].ref \in Nat
                     /\ table[s].valid \in BOOLEAN /\ table[s].type \in Types
                     /\ table[s].lock \in Process \cup {Nobody}
  /\ \A p \in Process : {st[p].at, st[p].ip, st[p].dp, cwd[p], file[p]} \subseteq Slot \cup {Nil}

(* After boot every process is in the root directory. *)
FsInit ==
  /\ durable \in Images
  /\ dinode = durable[1] /\ entries = durable[2]
  /\ table = [s \in Slot |-> IF s = 1 THEN [EmptySlot EXCEPT !.ref = Cardinality(Process)]
                                      ELSE EmptySlot]
  /\ st = [p \in Process |-> AtRest]
  /\ cwd = [p \in Process |-> 1] /\ file = [p \in Process |-> Nil]
  /\ calls = [p \in Process |-> 0] /\ crashes = 0
-----------------------------------------------------------------------------
(* Process p goes on with the fields r of its record changed. *)
To(p, r) == st' = [st EXCEPT ![p] = r @@ @]
Panic(p) == To(p, [pc |-> "panic"]) /\ UNCHANGED <<diskVars, table>>

(* iput() of each inode of q, then on to l. *)
PutThen(q, l) == [pc |-> "iput", puts |-> q, ret |-> l]

(* iget(i) in table t: the slot that holds i, or else the first free one. *)
SlotFor(t, i) ==
  LET hit == {s \in Slot : t[s].ref > 0 /\ t[s].inum = i}
      empty == {s \in Slot : t[s].ref = 0}
  IN  IF hit # {} THEN CHOOSE s \in hit : TRUE
                  ELSE CHOOSE s \in empty : \A u \in empty : s <= u

Iget(t, i) ==
  LET s == SlotFor(t, i)
  IN  [t EXCEPT ![s] = IF @.ref > 0 THEN [@ EXCEPT !.ref = @ + 1]
                       ELSE [@ EXCEPT !.inum = i, !.ref = 1, !.valid = FALSE]]

Idup(s) == [table EXCEPT ![s].ref = @ + 1]

(* ilock(s): nobody has it, and the copy is read unless it is valid. *)
CanLock(s) == table[s].lock = Nobody
Ilock(s) ==
  IF table[s].valid THEN table
  ELSE [table EXCEPT ![s] = dinode[table[s].inum] @@ [valid |-> TRUE] @@ @]
Held(t, s, p) == [t EXCEPT ![s].lock = p]
Unheld(t, s) == [t EXCEPT ![s].lock = Nobody]

(* ilock() has read a free inode. *)
NoType(t, s) == ~table[s].valid /\ t[s].type = "none"

(* iupdate() of slot s of t. *)
Iupdate(d, t, s) == [d EXCEPT ![t[s].inum] = [type |-> t[s].type, nlink |-> t[s].nlink]]

(* dirlookup() in the directory of slot s. *)
Lookup(t, s, n) == entries[t[s].inum][n]
LastName(path) == path[Len(path)]
-----------------------------------------------------------------------------
InCall(p) == st[p].pc # "out"
NoCalls == \A p \in Process : ~InCall(p)

Enter(p) == ~InCall(p) /\ calls[p] < MaxCalls /\ calls' = [calls EXCEPT ![p] = @ + 1]

(* begin_op(), and the start of namex(). *)
Begin(p, c) ==
  /\ ~c.here /\ Enter(p)
  /\ table' = Iget(table, Root)
  /\ To(p, [pc |-> "walk", call |-> c, rest |-> c.path, at |-> SlotFor(table, Root)])
  /\ UNCHANGED <<diskVars, durable, cwd, file, crashes>>

(* The same for a path that starts at the working directory. *)
BeginHere(p, c) ==
  /\ c.here /\ Enter(p)
  /\ table' = Idup(cwd[p])
  /\ To(p, [pc |-> "walk", call |-> c, rest |-> c.path, at |-> cwd[p]])
  /\ UNCHANGED <<diskVars, durable, cwd, file, crashes>>

(* fileclose() of the last descriptor: a transaction around iput(). *)
CloseFile(p) ==
  /\ Enter(p) /\ file[p] # Nil
  /\ To(p, PutThen(<<file[p]>>, "end"))
  /\ file' = [file EXCEPT ![p] = Nil]
  /\ UNCHANGED <<diskVars, durable, table, cwd, crashes>>

(* Does the walk end at the parent (nameiparent)?  And where does it return to? *)
Parent(p) == st[p].call.op \notin {"open", "chdir"} /\ ~(st[p].call.op = "link" /\ st[p].ip = Nil)
Cont(p) ==
  CASE st[p].call.op = "link" -> IF st[p].ip = Nil THEN "link" ELSE "linkto"
    [] st[p].call.op \in {"file", "dir", "dev"} -> "create"
    [] OTHER -> st[p].call.op
Fails(p) == IF st[p].call.op = "link" /\ st[p].ip # Nil THEN "linkbad" ELSE "end"

(* One turn of the loop in namex(). *)
Walk(p) ==
  LET s == st[p].at
      t == Ilock(s)
      n == Head(st[p].rest)
      last == Len(st[p].rest) = 1
  IN
  /\ st[p].pc = "walk" /\ CanLock(s)
  /\ CASE NoType(t, s) -> Panic(p)
       [] ~NoType(t, s) /\ t[s].type # "dir" ->
            table' = t /\ To(p, [at |-> Nil] @@ PutThen(<<s>>, Fails(p)))
       [] t[s].type = "dir" /\ Parent(p) /\ last ->
            table' = t /\ To(p, [pc |-> Cont(p), at |-> Nil, dp |-> s])
       [] t[s].type = "dir" /\ ~(Parent(p) /\ last) /\ Lookup(t, s, n) = 0 ->
            table' = t /\ To(p, [at |-> Nil] @@ PutThen(<<s>>, Fails(p)))
       [] OTHER ->
            LET next == SlotFor(t, Lookup(t, s, n))
            IN  /\ table' = Iget(t, Lookup(t, s, n))
                /\ To(p, [rest |-> Tail(st[p].rest)]
                         @@ (IF last THEN [at |-> Nil, ip |-> next] ELSE [at |-> next])
                         @@ PutThen(<<s>>, IF last THEN Cont(p) ELSE "walk"))
  /\ UNCHANGED <<diskVars, durable, cwd, file, calls, crashes>>
-----------------------------------------------------------------------------
(* Mutant: iput() does not look at other references. *)
LastRefAny(s) == table[s].valid /\ table[s].nlink = 0

(* iput() frees an inode without links when this is the last reference. *)
LastRef(s) == table[s].ref = 1 /\ table[s].valid /\ table[s].nlink = 0

(* ref--, and the next iput() or what follows them. *)
Deref(p) ==
  LET q == st[p].puts IN
  /\ table' = [table EXCEPT ![Head(q)].ref = @ - 1]
  /\ To(p, [pc |-> IF Len(q) > 1 THEN "iput" ELSE st[p].ret, puts |-> Tail(q)])

Iput(p) ==
  LET s == Head(st[p].puts) IN
  /\ st[p].pc = "iput"
  /\ IF LastRef(s) THEN /\ CanLock(s)
                        /\ table' = Held(table, s, p)
                        /\ To(p, [pc |-> "trunc"])
                   ELSE Deref(p)
  /\ UNCHANGED <<diskVars, durable, cwd, file, calls, crashes>>

(* itrunc(), type = 0, iupdate(), with itable.lock released. *)
IputTrunc(p) ==
  LET s == Head(st[p].puts)
      t == [table EXCEPT ![s].type = "none"]
  IN
  /\ st[p].pc = "trunc"
  /\ table' = t
  /\ dinode' = Iupdate(dinode, t, s)
  /\ entries' = [entries EXCEPT ![t[s].inum] = NoEntries]
  /\ To(p, [pc |-> "inval"])
  /\ UNCHANGED <<durable, cwd, file, calls, crashes>>

IputInval(p) ==
  LET s == Head(st[p].puts) IN
  /\ st[p].pc = "inval"
  /\ table' = [table EXCEPT ![s].valid = FALSE, ![s].lock = Nobody]
  /\ To(p, [pc |-> "deref"])
  /\ UNCHANGED <<diskVars, durable, cwd, file, calls, crashes>>

IputDeref(p) ==
  /\ st[p].pc = "deref" /\ Deref(p)
  /\ UNCHANGED <<diskVars, durable, cwd, file, calls, crashes>>

(* end_op(); the last one out commits. *)
EndCall(p) ==
  /\ st[p].pc = "end"
  /\ st' = [st EXCEPT ![p] = AtRest]
  /\ durable' = IF \A q \in Process : q # p => ~InCall(q) THEN <<dinode, entries>> ELSE durable
  /\ UNCHANGED <<diskVars, table, cwd, file, calls, crashes>>
-----------------------------------------------------------------------------
(* sys_open() refuses a directory for writing and a device without a driver. *)
Refusable(t, s) == t[s].type \in {"dir", "dev"}

(* sys_open() without O_CREATE, from ilock() on; filealloc() may fail. *)
Open(p) ==
  LET s == st[p].ip
      t == Ilock(s)
  IN
  /\ st[p].pc = "open" /\ CanLock(s)
  /\ IF NoType(t, s) THEN Panic(p) /\ UNCHANGED file
     ELSE /\ table' = t
          /\ \/ /\ file[p] = Nil
                /\ file' = [file EXCEPT ![p] = s]
                /\ To(p, [pc |-> "end", ip |-> Nil])
             \/ /\ file[p] # Nil \/ Refusable(t, s)
                /\ To(p, [ip |-> Nil] @@ PutThen(<<s>>, "end"))
                /\ UNCHANGED file
  /\ UNCHANGED <<diskVars, durable, cwd, calls, crashes>>

(* sys_chdir() from ilock() on: the old directory is put, then replaced. *)
Chdir(p) ==
  LET s == st[p].ip
      t == Ilock(s)
  IN
  /\ st[p].pc = "chdir" /\ CanLock(s)
  /\ CASE NoType(t, s) -> Panic(p) /\ UNCHANGED cwd
       [] t[s].type \in {"file", "dev"} ->
            table' = t /\ To(p, [ip |-> Nil] @@ PutThen(<<s>>, "end")) /\ UNCHANGED cwd
       [] OTHER -> /\ table' = t /\ To(p, [ip |-> Nil] @@ PutThen(<<cwd[p]>>, "end"))
                   /\ cwd' = [cwd EXCEPT ![p] = s]
  /\ UNCHANGED <<diskVars, durable, file, calls, crashes>>

(* Mutant: the count is left for later. *)
LinkCountLater(t, s) == t

LinkCount(t, s) == [t EXCEPT ![s].nlink = @ + 1]

(* sys_link(): the count goes up before the entry is made, ... *)
Link(p) ==
  LET s == st[p].ip
      t == Ilock(s)
      u == LinkCount(t, s)
  IN
  /\ st[p].pc = "link" /\ CanLock(s)
  /\ CASE NoType(t, s) -> Panic(p)
       [] t[s].type = "dir" ->
            /\ table' = t /\ To(p, [ip |-> Nil] @@ PutThen(<<s>>, "end"))
            /\ UNCHANGED diskVars
       [] OTHER ->
            /\ dinode' = Iupdate(dinode, u, s) /\ UNCHANGED entries
            /\ table' = Iget(u, Root)
            /\ To(p, [pc |-> "walk", rest |-> st[p].call.new, at |-> SlotFor(u, Root)])
  /\ UNCHANGED <<durable, cwd, file, calls, crashes>>

(* ... the entry, unless the name exists or the disk is full, ... *)
LinkTo(p) ==
  LET s == st[p].dp
      t == Ilock(s)
      n == LastName(st[p].call.new)
  IN
  /\ st[p].pc = "linkto" /\ CanLock(s)
  /\ IF NoType(t, s) THEN Panic(p) ELSE
     \/ /\ Lookup(t, s, n) = 0
        /\ entries' = [entries EXCEPT ![t[s].inum][n] = table[st[p].ip].inum]
        /\ table' = t /\ UNCHANGED dinode
        /\ To(p, [ip |-> Nil, dp |-> Nil] @@ PutThen(<<s, st[p].ip>>, "end"))
     \/ /\ Lookup(t, s, n) # 0 \/ DiskFills
        /\ table' = t /\ UNCHANGED diskVars
        /\ To(p, [dp |-> Nil] @@ PutThen(<<s>>, "linkbad"))
  /\ UNCHANGED <<durable, cwd, file, calls, crashes>>

LinkUndo(t, s) == [t EXCEPT ![s].nlink = @ - 1]

(* ... and the count is taken back if it was not. *)
LinkBad(p) ==
  LET s == st[p].ip
      t == LinkUndo(Ilock(s), s)
  IN
  /\ st[p].pc = "linkbad" /\ CanLock(s)
  /\ table' = t
  /\ dinode' = Iupdate(dinode, t, s)
  /\ To(p, [ip |-> Nil] @@ PutThen(<<s>>, "end"))
  /\ UNCHANGED <<entries, durable, cwd, file, calls, crashes>>
-----------------------------------------------------------------------------
(* Mutant: "." and ".." are not refused. *)
MayUnlinkAny(n) == TRUE

MayUnlink(n) == n \notin {".", ".."}

(* sys_unlink(): the directory is locked and stays so, ... *)
Unlink(p) ==
  LET s == st[p].dp
      t == Ilock(s)
      n == LastName(st[p].call.path)
      i == Lookup(t, s, n)
  IN
  /\ st[p].pc = "unlink" /\ CanLock(s)
  /\ CASE NoType(t, s) -> Panic(p)
       [] ~NoType(t, s) /\ (~MayUnlink(n) \/ i = 0) ->
            table' = t /\ To(p, [dp |-> Nil] @@ PutThen(<<s>>, "end"))
       [] OTHER -> /\ table' = Held(Iget(t, i), s, p)
                   /\ To(p, [pc |-> "child", ip |-> SlotFor(t, i)])
  /\ UNCHANGED <<diskVars, durable, cwd, file, calls, crashes>>

DirEmpty(i) == \A n \in Names : entries[i][n] = 0

(* ... while the inode is locked and the entry erased, ... *)
UnlinkChild(p) ==
  LET s == st[p].ip
      d == st[p].dp
      t == Ilock(s)
      dir == t[s].type = "dir"
      u == IF dir THEN [t EXCEPT ![d].nlink = @ - 1] ELSE t
  IN
  /\ st[p].pc = "child" /\ CanLock(s)
  /\ CASE NoType(t, s) \/ t[s].nlink < 1 -> Panic(p)
       [] ~NoType(t, s) /\ t[s].nlink >= 1 /\ dir /\ ~DirEmpty(t[s].inum) ->
            /\ table' = Unheld(t, d) /\ UNCHANGED diskVars
            /\ To(p, [ip |-> Nil, dp |-> Nil] @@ PutThen(<<s, d>>, "end"))
       [] OTHER ->
            /\ entries' = [entries EXCEPT ![t[d].inum][LastName(st[p].call.path)] = 0]
            /\ dinode' = IF dir THEN Iupdate(dinode, u, d) ELSE dinode
            /\ table' = Held(Unheld(u, d), s, p)
            /\ To(p, [dp |-> Nil] @@ PutThen(<<d>>, "gone"))
  /\ UNCHANGED <<durable, cwd, file, calls, crashes>>

(* ... and the count goes down once the directory has been put. *)
UnlinkGone(p) ==
  LET s == st[p].ip
      t == [table EXCEPT ![s].nlink = @ - 1]
  IN
  /\ st[p].pc = "gone"
  /\ table' = Unheld(t, s)
  /\ dinode' = Iupdate(dinode, t, s)
  /\ To(p, [ip |-> Nil] @@ PutThen(<<s>>, "end"))
  /\ UNCHANGED <<entries, durable, cwd, file, calls, crashes>>
-----------------------------------------------------------------------------
FreeInums == {i \in Inum : dinode[i].type = "none"}
LowestFree == CHOOSE i \in FreeInums : \A j \in FreeInums : i <= j

(* create(): the name is looked up; if there is none, ialloc() takes the
   first free inode and the directory stays locked. *)
Create(p) ==
  LET s == st[p].dp
      t == Ilock(s)
      i == Lookup(t, s, LastName(st[p].call.path))
  IN
  /\ st[p].pc = "create" /\ CanLock(s)
  /\ CASE NoType(t, s) -> Panic(p)
       [] ~NoType(t, s) /\ i # 0 ->
            /\ table' = Iget(t, i) /\ UNCHANGED diskVars
            /\ To(p, [dp |-> Nil, ip |-> SlotFor(t, i)] @@ PutThen(<<s>>, "exists"))
       [] ~NoType(t, s) /\ i = 0 /\ FreeInums = {} ->
            /\ table' = t /\ UNCHANGED diskVars
            /\ To(p, [dp |-> Nil] @@ PutThen(<<s>>, "end"))
       [] OTHER ->
            /\ dinode' = [dinode EXCEPT ![LowestFree] = [type |-> st[p].call.op, nlink |-> 0]]
            /\ table' = Held(Iget(t, LowestFree), s, p)
            /\ To(p, [pc |-> "fresh", ip |-> SlotFor(t, LowestFree)])
            /\ UNCHANGED entries
  /\ UNCHANGED <<durable, cwd, file, calls, crashes>>

(* It exists: good for open(), if it is not a directory. *)
CreateExists(p) ==
  LET s == st[p].ip
      t == Ilock(s)
  IN
  /\ st[p].pc = "exists" /\ CanLock(s)
  /\ CASE NoType(t, s) -> Panic(p)
       [] st[p].call.op = "file" /\ t[s].type \in {"file", "dev"} ->
            table' = Held(t, s, p) /\ To(p, [pc |-> "made"]) /\ UNCHANGED diskVars
       [] OTHER -> /\ table' = t /\ UNCHANGED diskVars
                   /\ To(p, [ip |-> Nil] @@ PutThen(<<s>>, "end"))
  /\ UNCHANGED <<durable, cwd, file, calls, crashes>>

(* The new inode, its own entries, its entry in the directory; if there is no
   room for an entry the inode is given up again. *)
CreateFresh(p) ==
  LET s == st[p].ip
      d == st[p].dp
      t == [Ilock(s) EXCEPT ![s].nlink = 1]
      i == t[s].inum
      dir == st[p].call.op = "dir"
      u == IF dir THEN [t EXCEPT ![d].nlink = @ + 1] ELSE t
      bad == [t EXCEPT ![s].nlink = 0]
  IN
  /\ st[p].pc = "fresh" /\ CanLock(s)
  /\ IF NoType(t, s) THEN Panic(p) ELSE
     \/ /\ entries' = [entries EXCEPT
                         ![i] = IF dir THEN [@ EXCEPT !["."] = i, ![".."] = t[d].inum] ELSE @,
                         ![t[d].inum][LastName(st[p].call.path)] = i]
        /\ dinode' = Iupdate(Iupdate(dinode, u, s), u, d)
        /\ table' = Held(Unheld(u, d), s, p)
        /\ To(p, [dp |-> Nil] @@ PutThen(<<d>>, "made"))
     \/ /\ DiskFills
        /\ dinode' = Iupdate(dinode, bad, s)
        /\ table' = Unheld(bad, d)
        /\ To(p, [ip |-> Nil, dp |-> Nil] @@ PutThen(<<s, d>>, "end"))
        /\ UNCHANGED entries
  /\ UNCHANGED <<durable, cwd, file, calls, crashes>>

(* open() keeps the inode if there is a file for it; mkdir() and mknod() put it. *)
CreateMade(p) ==
  LET s == st[p].ip
      open == st[p].call.op = "file" /\ file[p] = Nil
  IN
  /\ st[p].pc = "made"
  /\ table' = Unheld(table, s)
  /\ \/ /\ open
        /\ To(p, [pc |-> "end", ip |-> Nil]) /\ file' = [file EXCEPT ![p] = s]
     \/ /\ ~open \/ Refusable(table, s)
        /\ To(p, [ip |-> Nil] @@ PutThen(<<s>>, "end")) /\ UNCHANGED file
  /\ UNCHANGED <<diskVars, durable, cwd, calls, crashes>>
-----------------------------------------------------------------------------
(* Memory is lost, the disk is what was committed, every process starts anew. *)
Crash ==
  /\ crashes < MaxCrashes
  /\ dinode' = durable[1] /\ entries' = durable[2]
  /\ table' = [s \in Slot |-> IF s = 1 THEN [EmptySlot EXCEPT !.ref = Cardinality(Process)]
                                       ELSE EmptySlot]
  /\ st' = [p \in Process |-> AtRest]
  /\ cwd' = [p \in Process |-> 1] /\ file' = [p \in Process |-> Nil]
  /\ crashes' = crashes + 1
  /\ UNCHANGED <<durable, calls>>

FsStep(p) ==
  \/ \E c \in Calls[p] : Begin(p, c) \/ BeginHere(p, c)
  \/ CloseFile(p) \/ Walk(p) \/ Iput(p) \/ IputTrunc(p) \/ IputInval(p) \/ IputDeref(p) \/ EndCall(p)
  \/ Open(p) \/ Chdir(p) \/ Link(p) \/ LinkTo(p) \/ LinkBad(p)
  \/ Unlink(p) \/ UnlinkChild(p) \/ UnlinkGone(p)
  \/ Create(p) \/ CreateExists(p) \/ CreateFresh(p) \/ CreateMade(p)

FsNext == Crash \/ \E p \in Process : FsStep(p)
FsSpec == FsInit /\ [][FsNext]_fsVars
-----------------------------------------------------------------------------
(* The inode a process is about to lock. *)
Wants(p) ==
  CASE st[p].pc = "walk" -> st[p].at
    [] st[p].pc \in {"open", "chdir", "link", "linkbad", "child", "exists", "fresh"} -> st[p].ip
    [] st[p].pc \in {"linkto", "unlink", "create"} -> st[p].dp
    [] OTHER -> Nil

WaitsFor == [e \in Process \X Process |-> Wants(e[1]) # Nil /\ table[Wants(e[1])].lock = e[2]]

(* No process waits, directly or through others, for an inode lock of its own:
   locks are taken from a directory to its entries, and create() lets go of
   the directory before it locks what it found, which may be the directory. *)
NoCircularWait ==
  \A p \in Process : ~TransitiveClosure(WaitsFor, Process)[p, p]

(* How many pointers to slot s the process p owns. *)
Owns(p, s) ==
  Cardinality({f \in {"at", "ip", "dp"} : st[p][f] = s})
    + Cardinality({n \in DOMAIN st[p].puts : st[p].puts[n] = s})
    + (IF cwd[p] = s THEN 1 ELSE 0) + (IF file[p] = s THEN 1 ELSE 0)

(* The count of a slot is the number of pointers to it, so that iget() recycles
   no slot in use; and no inode has two slots. *)
RefsCounted ==
  /\ \A s \in Slot : table[s].ref = MapThenSumSet(LAMBDA p : Owns(p, s), Process)
  /\ \A s, u \in Slot : table[s].ref > 0 /\ table[u].ref > 0 /\ table[s].inum = table[u].inum => s = u

(* The comment in iput(): with one reference left the inode is not locked, so
   that acquiresleep() does not sleep, which it must not with itable.lock held. *)
IputNeverSleeps ==
  \A p \in Process : st[p].pc = "iput" /\ LastRef(Head(st[p].puts)) => CanLock(Head(st[p].puts))

(* No call meets ilock's "no type" or unlink's "nlink < 1". *)
FsNoPanic == \A p \in Process : st[p].pc # "panic"

(* The disk <<d, e>>: the directories that those of S lead to, the entries in a
   tree of them that name i, ... *)
RECURSIVE Tree(_, _, _)
Tree(d, e, S) ==
  LET T == S \cup {i \in Inum : d[i].type = "dir" /\ \E s \in S, n \in Names : e[s][n] = i}
  IN  IF T = S THEN S ELSE Tree(d, e, T)
LinksTo(tree, e, i) == {x \in tree \X (AllNames \ {"."}) : e[x[1]][x[2]] = i}

(* ... and what the walk of a path relies on: an entry names an inode in use,
   with at least as many links as entries that name it. *)
Sound(d, e) ==
  LET tree == Tree(d, e, {Root}) IN
  \A i \in Inum :
    LET links == LinksTo(tree, e, i)
    IN  links # {} => d[i].type # "none" /\ d[i].nlink >= Cardinality(links \ {<<Root, "..">>})

(* Whatever the calls in progress, a crash leaves a file system whose tree is
   sound.  A directory that was removed while a process was in it may be left
   outside of the tree, with links of its own if create() was called in it. *)
CrashSafe == Sound(durable[1], durable[2])

(* The inode table is sound: iget(), idup() and iput() count exactly, and no
   call comes upon a free inode, or a locked one where it must not wait. *)
InodesSafe == FsTypeOK /\ RefsCounted /\ IputNeverSleeps /\ FsNoPanic
=============================================================================
