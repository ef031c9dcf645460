------------------------------- MODULE Ftable -------------------------------
(***************************************************************************)
(* Open files: the table of kernel/file.c, the descriptors of              *)
(* kernel/sysfile.c, and what fork(), exit() and pipealloc() do with them. *)
(* A step is a critical section of ftable.lock, of the inode's lock, or    *)
(* the release of what a file refers to.  ofile[] is private to a process. *)
(*                                                                         *)
(* job[p].pc: "user", "pipe" (pipealloc() has its first file), "fork",     *)
(*            "exit", "write" (between two chunks), "panic".               *)
(* job[p].todo: the files it has to close and the references it has to     *)
(* drop before it goes on.                                                 *)
(***************************************************************************)
EXTENDS Naturals, FiniteSets, FiniteSetsExt, SequencesExt

CONSTANTS Task, First,        \* processes, and the one that runs at first
          NFILE, NOFILE,
          Inode, PipeId,
          MaxOff              \* the largest offset, a bound

VARIABLES ftable, ofile, job, alive,
          pipes,              \* the open ends of each struct pipe
          irefs,              \* ip->ref, as far as files hold them
          moved               \* history: how often each offset was transferred

ftVars == <<ftable, ofile, job, alive, pipes, irefs, moved>>

FileId == 1..NFILE
Fd == 0..(NOFILE - 1)
NoFile == 0
Ends == {"r", "w"}
FreeEntry == [ref |-> 0, type |-> "none", obj |-> 0, end |-> "r", off |-> 0]
Rest == [pc |-> "user", todo |-> <<>>, fd |-> 0, kid |-> 0, f |-> NoFile, n |-> 0]

FtTypeOK ==
  /\ \A f \in FileId : /\ ftable[f].ref \in 0..(Cardinality(Task) * NOFILE)
                       /\ ftable[f].type \in {"none", "pipe", "inode"}
                       /\ ftable[f].off \in 0..MaxOff
  /\ ofile \in [Task -> [Fd -> FileId \cup {NoFile}]]
  /\ alive \subseteq Task /\ pipes \in [PipeId -> SUBSET Ends]
  /\ \A i \in Inode : irefs[i] \in 0..(NFILE + Cardinality(Task))

FtInit ==
  /\ ftable = [f \in FileId |-> FreeEntry]
  /\ ofile = [p \in Task |-> [d \in Fd |-> NoFile]]
  /\ job = [p \in Task |-> Rest] /\ alive = {First}
  /\ pipes = [x \in PipeId |-> {}] /\ irefs = [i \in Inode |-> 0]
  /\ moved = [f \in FileId |-> [o \in 0..(MaxOff - 1) |-> 0]]
-----------------------------------------------------------------------------
Ready(p, l) == p \in alive /\ job[p].pc = l /\ job[p].todo = <<>>
Set(p, j) == job' = [job EXCEPT ![p] = j @@ @]

FreeFiles == {f \in FileId : ftable[f].ref = 0}
FreeFds(p) == {d \in Fd : ofile[p][d] = NoFile}

(* filealloc() sets the count and nothing else. *)
Filealloc(f) == [ftable EXCEPT ![f].ref = 1]

(* sys_open() after namei() or create() has returned inode i: a file and a
   descriptor, or the undoing of what it has. *)
SysOpen(p, i) ==
  /\ Ready(p, "user")
  /\ irefs' = [irefs EXCEPT ![i] = @ + 1]
  /\ IF FreeFiles = {}
       THEN Set(p, [todo |-> <<[type |-> "inode", obj |-> i]>>]) /\ UNCHANGED <<ftable, ofile>>
       ELSE LET f == Min(FreeFiles) IN
            IF FreeFds(p) = {}
              THEN /\ ftable' = Filealloc(f)
                   /\ Set(p, [todo |-> <<[type |-> "file", obj |-> f], [type |-> "inode", obj |-> i]>>])
                   /\ UNCHANGED ofile
              ELSE /\ ftable' = [Filealloc(f) EXCEPT ![f].type = "inode", ![f].obj = i,
                                                     ![f].off = 0, ![f].end = "w"]
                   /\ ofile' = [ofile EXCEPT ![p][Min(FreeFds(p))] = f]
                   /\ UNCHANGED job
  /\ UNCHANGED <<alive, pipes, moved>>

(* The other fields are set again before they are read. *)
ClosedEntry(e) == FreeEntry

(* fileclose(), up to release(&ftable.lock). *)
Fileclose(p) ==
  LET f == Head(job[p].todo).obj
      e == ftable[f]
  IN
  /\ job[p].todo # <<>> /\ Head(job[p].todo).type = "file"
  /\ IF e.ref < 1 THEN Set(p, [pc |-> "panic"]) /\ UNCHANGED <<ftable, moved>>
     ELSE /\ ftable' = [ftable EXCEPT ![f] = IF e.ref > 1 THEN [e EXCEPT !.ref = @ - 1] ELSE ClosedEntry(e)]
          /\ moved' = [moved EXCEPT ![f] = IF e.ref > 1 THEN @ ELSE [o \in DOMAIN @ |-> 0]]
          /\ Set(p, [todo |-> (IF e.ref = 1 /\ e.type # "none" THEN <<e>> ELSE <<>>) \o Tail(job[p].todo)])
  /\ UNCHANGED <<ofile, alive, pipes, irefs>>

(* ... and the rest: pipeclose(), or iput(). *)
DropObject(p) ==
  LET e == Head(job[p].todo) IN
  /\ job[p].todo # <<>> /\ e.type # "file"
  /\ IF e.type = "pipe"
       THEN pipes' = [pipes EXCEPT ![e.obj] = @ \ {e.end}] /\ UNCHANGED irefs
       ELSE irefs' = [irefs EXCEPT ![e.obj] = @ - 1] /\ UNCHANGED pipes
  /\ Set(p, [todo |-> Tail(job[p].todo)])
  /\ UNCHANGED <<ftable, ofile, alive, moved>>

AfterClose(p, d) == [ofile EXCEPT ![p][d] = NoFile]

SysClose(p, d) ==
  /\ Ready(p, "user") /\ ofile[p][d] # NoFile
  /\ ofile' = AfterClose(p, d)
  /\ Set(p, [todo |-> <<[type |-> "file", obj |-> ofile[p][d]]>>])
  /\ UNCHANGED <<ftable, alive, pipes, irefs, moved>>

(* Mutant: filedup() does not count. *)
FiledupNot(f) == ftable

Filedup(f) == [ftable EXCEPT ![f].ref = @ + 1]

SysDup(p, d) ==
  LET f == ofile[p][d] IN
  /\ Ready(p, "user") /\ f # NoFile /\ FreeFds(p) # {}
  /\ ofile' = [ofile EXCEPT ![p][Min(FreeFds(p))] = f]
  /\ IF ftable[f].ref < 1 THEN Set(p, [pc |-> "panic"]) /\ UNCHANGED ftable
                          ELSE ftable' = Filedup(f) /\ UNCHANGED job
  /\ UNCHANGED <<alive, pipes, irefs, moved>>
-----------------------------------------------------------------------------
(* sys_pipe() and pipealloc(): the first file, ... *)
SysPipe(p) ==
  /\ Ready(p, "user") /\ FreeFiles # {}
  /\ ftable' = Filealloc(Min(FreeFiles))
  /\ Set(p, [pc |-> "pipe", f |-> Min(FreeFiles)])
  /\ UNCHANGED <<ofile, alive, pipes, irefs, moved>>

CloseThen(p, fs) ==
  Set(p, [pc |-> "user", f |-> NoFile, todo |-> [k \in 1..Len(fs) |-> [type |-> "file", obj |-> fs[k]]]])

(* ... which is given back when there is no second file, or no page, ... *)
PipeNoRoom(p) ==
  /\ Ready(p, "pipe")
  /\ \/ FreeFiles = {} /\ CloseThen(p, <<job[p].f>>) /\ UNCHANGED ftable
     \/ /\ FreeFiles # {} /\ ftable' = Filealloc(Min(FreeFiles))
        /\ CloseThen(p, <<job[p].f, Min(FreeFiles)>>)
  /\ UNCHANGED <<ofile, alive, pipes, irefs, moved>>

(* ... or the two files of a pipe, and two descriptors; ok is FALSE when
   copyout() fails. *)
PipeMade(p, x, ok) ==
  LET rf == job[p].f
      wf == Min(FreeFiles)
      d0 == Min(FreeFds(p))
      d1 == Min(FreeFds(p) \ {d0})
  IN
  /\ Ready(p, "pipe") /\ FreeFiles # {} /\ pipes[x] = {}
  /\ pipes' = [pipes EXCEPT ![x] = Ends]
  /\ ftable' = [Filealloc(wf) EXCEPT ![rf].type = "pipe", ![rf].obj = x, ![rf].end = "r",
                                     ![wf].type = "pipe", ![wf].obj = x, ![wf].end = "w"]
  /\ IF Cardinality(FreeFds(p)) >= 2 /\ ok
       THEN /\ ofile' = [ofile EXCEPT ![p][d0] = rf, ![p][d1] = wf]
            /\ Set(p, [pc |-> "user", f |-> NoFile])
       ELSE CloseThen(p, <<rf, wf>>) /\ UNCHANGED ofile
  /\ UNCHANGED <<alive, irefs, moved>>
-----------------------------------------------------------------------------
Forking(q) == \E p \in Task : job[p].pc = "fork" /\ job[p].kid = q

Fork(p, q) ==
  /\ Ready(p, "user") /\ q \notin alive /\ ~Forking(q)
  /\ Set(p, [pc |-> "fork", kid |-> q, fd |-> 0])
  /\ UNCHANGED <<ftable, ofile, alive, pipes, irefs, moved>>

(* fork(): np->ofile[i] = filedup(p->ofile[i]), one at a time. *)
ForkDup(p) ==
  LET d == job[p].fd
      f == ofile[p][d]
  IN
  /\ Ready(p, "fork") /\ d \in Fd
  /\ IF f # NoFile /\ ftable[f].ref < 1
       THEN Set(p, [pc |-> "panic"]) /\ UNCHANGED <<ftable, ofile>>
       ELSE /\ ftable' = IF f = NoFile THEN ftable ELSE Filedup(f)
            /\ ofile' = [ofile EXCEPT ![job[p].kid][d] = f]
            /\ Set(p, [fd |-> d + 1])
  /\ UNCHANGED <<alive, pipes, irefs, moved>>

ForkDone(p) ==
  /\ Ready(p, "fork") /\ job[p].fd = NOFILE
  /\ alive' = alive \cup {job[p].kid}
  /\ Set(p, [pc |-> "user", fd |-> 0, kid |-> 0])
  /\ UNCHANGED <<ftable, ofile, pipes, irefs, moved>>

Exit(p) ==
  /\ Ready(p, "user") /\ p # First
  /\ Set(p, [pc |-> "exit", fd |-> 0])
  /\ UNCHANGED <<ftable, ofile, alive, pipes, irefs, moved>>

(* exit() closes a file and then clears the descriptor. *)
ExitFile(p) ==
  LET d == job[p].fd IN
  /\ Ready(p, "exit") /\ d < NOFILE
  /\ IF ofile[p][d] # NoFile /\ job[p].f = NoFile
       THEN /\ Set(p, [f |-> ofile[p][d], todo |-> <<[type |-> "file", obj |-> ofile[p][d]]>>])
            /\ UNCHANGED ofile
       ELSE Set(p, [fd |-> d + 1, f |-> NoFile]) /\ ofile' = [ofile EXCEPT ![p][d] = NoFile]
  /\ UNCHANGED <<ftable, alive, pipes, irefs, moved>>

ExitDone(p) ==
  /\ Ready(p, "exit") /\ job[p].fd = NOFILE
  /\ alive' = alive \ {p} /\ Set(p, Rest)
  /\ UNCHANGED <<ftable, ofile, pipes, irefs, moved>>
-----------------------------------------------------------------------------
(* filewrite() on an inode, in chunks; a chunk is one offset long. *)
FileWrite(p, d, n) ==
  LET f == ofile[p][d] IN
  /\ Ready(p, "user") /\ f # NoFile /\ ftable[f].type = "inode" /\ ftable[f].end = "w"
  /\ Set(p, [pc |-> "write", f |-> f, n |-> n])
  /\ UNCHANGED <<ftable, ofile, alive, pipes, irefs, moved>>

(* f->off += r *)
Advance(o) == o + 1

WriteChunk(p, ok) ==
  LET o == ftable[job[p].f].off IN
  /\ Ready(p, "write") /\ job[p].n > 0
  /\ IF ok /\ o < MaxOff
       THEN /\ ftable' = [ftable EXCEPT ![job[p].f].off = Advance(o)]
            /\ moved' = [moved EXCEPT ![job[p].f][o] = @ + 1]
            /\ Set(p, [n |-> job[p].n - 1])
       ELSE Set(p, [n |-> 0]) /\ UNCHANGED <<ftable, moved>>
  /\ UNCHANGED <<ofile, alive, pipes, irefs>>

WriteReturn(p) ==
  /\ Ready(p, "write") /\ job[p].n = 0
  /\ Set(p, [pc |-> "user", f |-> NoFile])
  /\ UNCHANGED <<ftable, ofile, alive, pipes, irefs, moved>>

FtCall(p) ==
  \/ \E i \in Inode : SysOpen(p, i)
  \/ \E d \in Fd : SysClose(p, d) \/ SysDup(p, d) \/ FileWrite(p, d, 2)
  \/ SysPipe(p) \/ Exit(p) \/ \E q \in Task : Fork(p, q)

FtStep(p) ==
  \/ Fileclose(p) \/ DropObject(p)
  \/ PipeNoRoom(p) \/ \E x \in PipeId, ok \in BOOLEAN : PipeMade(p, x, ok)
  \/ ForkDup(p) \/ ForkDone(p) \/ ExitFile(p) \/ ExitDone(p)
  \/ WriteReturn(p) \/ \E ok \in BOOLEAN : WriteChunk(p, ok)

FtNext == \E p \in Task : FtCall(p) \/ FtStep(p)
-----------------------------------------------------------------------------
(* The references process p holds: its descriptors (but the one exit() has
   closed), the file pipealloc() has, and what is still to be closed. *)
HeldBy(p, f) ==
  Cardinality({d \in Fd : ofile[p][d] = f /\ ~(job[p].pc = "exit" /\ job[p].f = f /\ job[p].fd = d)})
  + Cardinality({k \in 1..Len(job[p].todo) : job[p].todo[k] = [type |-> "file", obj |-> f]})
  + (IF job[p].pc = "pipe" /\ job[p].f = f THEN 1 ELSE 0)

Pending(type, obj) ==
  Cardinality({<<p, k>> \in Task \X (1..2) :
    k <= Len(job[p].todo) /\ job[p].todo[k].type = type /\ job[p].todo[k].obj = obj})

(* f->ref is the number of references, and ip->ref that of the open files and
   of the calls that still have to give theirs back: a file is freed by its last
   holder and by nobody else, however fork(), dup(), close() and exit() of
   several processes interleave.  (A child counts while fork() fills it.) *)
RefsExact ==
  /\ \A f \in FileId : ftable[f].ref = MapThenSumSet(LAMBDA p : HeldBy(p, f), Task)
  /\ \A i \in Inode :
       irefs[i] = Pending("inode", i)
                  + Cardinality({f \in FileId : ftable[f].type = "inode" /\ ftable[f].obj = i})

(* An end of a pipe is open as long as a file refers to it or a close of it is
   on its way, and is closed once: then pipeclose() frees the page. *)
PipeEndsOwned ==
  \A x \in PipeId, e \in Ends :
    Cardinality({f \in FileId : ftable[f].ref > 0 /\ ftable[f].type = "pipe"
                                /\ ftable[f].obj = x /\ ftable[f].end = e})
    + Cardinality({p \in Task : job[p].todo # <<>> /\ Head(job[p].todo).type = "pipe"
                                /\ Head(job[p].todo).obj = x /\ Head(job[p].todo).end = e})
    = (IF e \in pipes[x] THEN 1 ELSE 0)

(* filedup(), fileclose() and exit() never find a file without references. *)
FtNoPanic == \A p \in Task : job[p].pc # "panic"

(* Processes that write through one open file share its offset: no two chunks
   go to the same place, and none is skipped. *)
OffsetsShared ==
  \A f \in FileId : ftable[f].type = "inode" =>
    \A o \in 0..(MaxOff - 1) : moved[f][o] = IF o < ftable[f].off THEN 1 ELSE 0

(* file.c counts references to files, pipes and inodes exactly, and gives those
   who share a file one offset. *)
FilesSafe == FtTypeOK /\ RefsExact /\ PipeEndsOwned /\ FtNoPanic /\ OffsetsShared
=============================================================================
