------------------------------ MODULE Threads -------------------------------
(***************************************************************************)
(* mythread_create() and mythread_join() of kernel/proc.c on top of fork,  *)
(* exit and wait, with the pages each slot's page table maps.  A thread is *)
(* a process whose page table maps the pages of its creator, and one page  *)
(* of its own for its stack.                                               *)
(*                                                                         *)
(* What Proc shows of the process table is taken for granted: allocproc(), *)
(* exit() and wait() are one step each, and LIVE stands for RUNNABLE,      *)
(* RUNNING and SLEEPING.  threads[], currId and running are plain globals  *)
(* without a lock: a load and the store that follows it are two steps.     *)
(* Page-table and trapframe pages are left out; so are fid and families[], *)
(* which only mygrow() reads and nobody calls.                             *)
(*                                                                         *)
(* Slot 1 is the process that waits for the rest (init, or the shell); the *)
(* slots of Started hold programs it has just started.                     *)
(*                                                                         *)
(* pc[p]: "user"; in mythread_create() "loadId", "storeId", "loadRun" and  *)
(* "storeRun"; in mythread_join() "join", "loadJoin", "storeJoin", "sweep" *)
(***************************************************************************)
EXTENDS Naturals, Integers, Sequences, FiniteSets, SequencesExt, FiniteSetsExt

CONSTANTS NPROC, NPAGES,
          NPTE,         \* the pages that one page of a page table maps, 512
          Started,      \* the slots of the programs that run at first
          Workloads,    \* the slots that create threads, fork, call sbrk(+), call
                        \* sbrk(-), and how many threads a program has at a time
          MaxMade       \* processes and threads made, a bound

Workload ==
  [mains : SUBSET (1..NPROC), forkers : SUBSET (1..NPROC), growers : SUBSET (1..NPROC),
   shrinkers : SUBSET (1..NPROC), owed : Nat]

ASSUME ThreadsAssumption ==
  NPROC <= NPAGES /\ NPTE > 0 /\ Started \subseteq 2..NPROC /\ Workloads \subseteq Workload

VARIABLES state, parent, isthread,      \* struct proc
          pt,           \* p->pagetable and p->sz: the page at each address
          used,         \* the pages that kalloc() has handed out
          threads, currId, running,     \* the globals of mythread_*()
          pc, reg, np,  \* registers of a call
          owed,         \* threads a program has created and not joined
          made,
          leaked,       \* a slot whose lock was never released, 0 for none
          panicked,
          load          \* the workload, chosen once

vars == <<state, parent, isthread, pt, used, threads, currId, running, pc, reg, np, owed,
          made, leaked, panicked, load>>
globals == <<threads, currId, running>>
locals == <<pc, reg, np, owed>>

Slot == 1..NPROC
Page == 1..NPAGES
NoProc == 0
Pages(p) == Range(pt[p])

TypeOK ==
  /\ state \in [Slot -> {"UNUSED", "USED", "LIVE", "ZOMBIE"}]
  /\ parent \in [Slot -> Slot \cup {NoProc}]
  /\ isthread \in [Slot -> BOOLEAN]
  /\ \A p \in Slot : pt[p] \in Seq(Page)
  /\ used \in SUBSET Page
  /\ threads \in [0..MaxMade -> Slot \cup {NoProc}]
  /\ currId \in 0..MaxMade /\ running \in 0..MaxMade
  /\ pc \in [Slot -> {"user", "loadId", "storeId", "loadRun", "storeRun", "join", "loadJoin",
                      "storeJoin", "sweep"}]
  /\ reg \in [Slot -> 0..MaxMade]
  /\ np \in [Slot -> Slot \cup {NoProc}]
  /\ owed \in [Slot -> 0..load.owed]
  /\ made \in 0..MaxMade
  /\ leaked \in Slot \cup {NoProc} /\ panicked \in BOOLEAN
  /\ load \in Workloads

Init ==
  /\ state = [p \in Slot |-> IF p \in Started \cup {1} THEN "LIVE" ELSE "UNUSED"]
  /\ parent = [p \in Slot |-> IF p \in Started THEN 1 ELSE NoProc]
  /\ isthread = [p \in Slot |-> FALSE]
  /\ pt = [p \in Slot |-> IF p \in Started \cup {1} THEN <<p>> ELSE <<>>]
  /\ used = Started \cup {1}
  /\ threads = [k \in 0..MaxMade |-> NoProc]
  /\ currId = 0 /\ running = 0
  /\ pc = [p \in Slot |-> "user"]
  /\ reg = [p \in Slot |-> 0] /\ np = [p \in Slot |-> NoProc] /\ owed = [p \in Slot |-> 0]
  /\ made = 0 /\ leaked = NoProc /\ panicked = FALSE
  /\ load \in Workloads
-----------------------------------------------------------------------------
Goto(p, l) == pc' = [pc EXCEPT ![p] = l]
At(p, l) == state[p] = "LIVE" /\ pc[p] = l

(* allocproc() takes the first UNUSED slot, kalloc() some free page. *)
FreeSlots == {q \in Slot : state[q] = "UNUSED"}
FreePages == Page \ used
Kalloc(k) == {q \in FreePages : Cardinality({r \in FreePages : r < q}) < k}
Made == made < MaxMade /\ made' = made + 1

(* Mutant: freeproc() frees the pages of a thread too. *)
FreeProcAll(q, thread) ==
  /\ used' = used \ Pages(q)
  /\ pt' = [pt EXCEPT ![q] = <<>>]
  /\ state' = [state EXCEPT ![q] = "UNUSED"]
  /\ parent' = [parent EXCEPT ![q] = NoProc]

(* freeproc(q): a thread's page table is dropped and not freed. *)
FreeProc(q, thread) ==
  /\ used' = IF thread THEN used ELSE used \ Pages(q)
  /\ pt' = [pt EXCEPT ![q] = <<>>]
  /\ state' = [state EXCEPT ![q] = "UNUSED"]
  /\ parent' = [parent EXCEPT ![q] = NoProc]
-----------------------------------------------------------------------------
(* mythread_create(): copytable() shares the pages and uvmalloc() adds the *)
(* stack, under np->lock, ...                                              *)
Create(p) ==
  /\ At(p, "user") /\ p \in load.mains /\ owed[p] < load.owed
  /\ FreeSlots # {} /\ FreePages # {}
  /\ Made
  /\ LET q == Min(FreeSlots) IN
       /\ state' = [state EXCEPT ![q] = "USED"]
       /\ isthread' = [isthread EXCEPT ![p] = TRUE, ![q] = TRUE]
       /\ pt' = [pt EXCEPT ![q] = Append(pt[p], Min(FreePages))]
       /\ np' = [np EXCEPT ![p] = q]
  /\ used' = used \cup {Min(FreePages)}
  /\ Goto(p, "loadId")
  /\ UNCHANGED <<parent, globals, reg, owed, leaked, panicked, load>>

(* ... or allocproc() fails, for want of a slot or of memory, ... *)
CreateNoProc(p) ==
  /\ At(p, "user") /\ p \in load.mains /\ owed[p] < load.owed
  /\ isthread' = [isthread EXCEPT ![p] = TRUE]
  /\ UNCHANGED <<state, parent, pt, used, globals, locals, made, leaked, panicked, load>>

(* ... or copytable() does, at a page k for which walk() needs a page for  *)
(* the table: it frees the pages it has mapped until then, which are the   *)
(* creator's, and freeproc(np) drops the table of the thread.              *)
CreateNoTable(p) ==
  /\ At(p, "user") /\ p \in load.mains /\ owed[p] < load.owed
  /\ FreeSlots # {}
  /\ isthread' = [isthread EXCEPT ![p] = TRUE, ![Min(FreeSlots)] = TRUE]
  /\ \E k \in {j \in 0..(Len(pt[p]) - 1) : j % NPTE = 0} :
       used' = used \ Range(SubSeq(pt[p], 1, k))
  /\ UNCHANGED <<state, parent, pt, globals, locals, made, leaked, panicked, load>>

(* ... or uvmalloc() does: -1 is returned with np->lock held. *)
CreateNoStack(p) ==
  /\ At(p, "user") /\ p \in load.mains /\ owed[p] < load.owed
  /\ FreeSlots # {} /\ FreePages = {}
  /\ isthread' = [isthread EXCEPT ![p] = TRUE, ![Min(FreeSlots)] = TRUE]
  /\ leaked' = Min(FreeSlots)
  /\ UNCHANGED <<state, parent, pt, used, globals, locals, made, panicked, load>>

(* threads[currId] = np; currId++; *)
LoadId(p) ==
  /\ At(p, "loadId")
  /\ reg' = [reg EXCEPT ![p] = currId]
  /\ Goto(p, "storeId")
  /\ UNCHANGED <<state, parent, isthread, pt, used, globals, np, owed, made, leaked, panicked, load>>
StoreId(p) ==
  /\ At(p, "storeId")
  /\ threads' = [threads EXCEPT ![reg[p]] = np[p]]
  /\ currId' = reg[p] + 1
  /\ Goto(p, "loadRun")
  /\ UNCHANGED <<state, parent, isthread, pt, used, running, reg, np, owed, made, leaked,
                 panicked, load>>

(* running++; *)
LoadRun(p) ==
  /\ At(p, "loadRun")
  /\ reg' = [reg EXCEPT ![p] = running]
  /\ Goto(p, "storeRun")
  /\ UNCHANGED <<state, parent, isthread, pt, used, globals, np, owed, made, leaked, panicked, load>>

(* The store, np->parent and RUNNABLE. *)
StoreRun(p) ==
  /\ At(p, "storeRun")
  /\ running' = reg[p] + 1
  /\ parent' = [parent EXCEPT ![np[p]] = p]
  /\ state' = [state EXCEPT ![np[p]] = "LIVE"]
  /\ np' = [np EXCEPT ![p] = NoProc]
  /\ reg' = [reg EXCEPT ![p] = 0]
  /\ owed' = [owed EXCEPT ![p] = @ + 1]
  /\ Goto(p, "user")
  /\ UNCHANGED <<isthread, pt, used, threads, currId, made, leaked, panicked, load>>
-----------------------------------------------------------------------------
Children(p) == {q \in Slot : parent[q] = p}
Dead(p) == {q \in Children(p) : state[q] = "ZOMBIE"}

(* wait(0), in mythread_join(): the first child that has exited is freed;  *)
(* with no child left it returns at once.                                  *)
Reap(p) ==
  IF Children(p) = {}
    THEN UNCHANGED <<used, pt, state, parent>>
    ELSE /\ Dead(p) # {}
         /\ FreeProc(Min(Dead(p)), isthread[Min(Dead(p))])

(* mythread_join(), by a program that joins what it has created. *)
Join(p) ==
  /\ At(p, "user") /\ owed[p] > 0
  /\ Reap(p)
  /\ Goto(p, "loadJoin")
  /\ UNCHANGED <<isthread, globals, reg, np, owed, made, leaked, panicked, load>>

(* running--; *)
LoadJoin(p) ==
  /\ At(p, "loadJoin")
  /\ reg' = [reg EXCEPT ![p] = running]
  /\ Goto(p, "storeJoin")
  /\ UNCHANGED <<state, parent, isthread, pt, used, globals, np, owed, made, leaked, panicked, load>>

JoinReturns(p) ==
  /\ owed' = [owed EXCEPT ![p] = @ - 1]
  /\ reg' = [reg EXCEPT ![p] = 0]
  /\ Goto(p, "user")

StoreJoin(p) ==
  /\ At(p, "storeJoin")
  /\ running' = reg[p] - 1
  /\ IF reg[p] = 1
       THEN Goto(p, "sweep") /\ reg' = [reg EXCEPT ![p] = 0] /\ UNCHANGED owed
       ELSE JoinReturns(p)
  /\ UNCHANGED <<state, parent, isthread, pt, used, threads, currId, np, made, leaked, panicked, load>>

(* if(running == 0): every recorded slot but the last is freed once more,  *)
(* whatever it holds now and without its lock.                             *)
Sweep(p) ==
  /\ At(p, "sweep") /\ reg[p] < currId - 1
  /\ LET q == threads[reg[p]] IN
       /\ isthread' = [isthread EXCEPT ![q] = FALSE]
       /\ FreeProc(q, FALSE)
  /\ reg' = [reg EXCEPT ![p] = @ + 1]
  /\ UNCHANGED <<globals, pc, np, owed, made, leaked, panicked, load>>

SweepDone(p) ==
  /\ At(p, "sweep") /\ reg[p] >= currId - 1
  /\ currId' = 0
  /\ JoinReturns(p)
  /\ UNCHANGED <<state, parent, isthread, pt, used, threads, running, np, made, leaked, panicked, load>>
-----------------------------------------------------------------------------
(* exit(): children go to slot 1. *)
Exit(p) ==
  /\ At(p, "user") /\ p # 1
  /\ state' = [state EXCEPT ![p] = "ZOMBIE"]
  /\ parent' = [q \in Slot |-> IF parent[q] = p THEN 1 ELSE parent[q]]
  /\ owed' = [owed EXCEPT ![p] = 0]
  /\ UNCHANGED <<isthread, pt, used, globals, pc, reg, np, made, leaked, panicked, load>>

(* wait(), by a process that has no thread to join. *)
Wait(p) ==
  /\ At(p, "user") /\ owed[p] = 0 /\ Children(p) # {}
  /\ Reap(p)
  /\ UNCHANGED <<isthread, globals, locals, made, leaked, panicked, load>>

(* fork(): a copy of every page; isthread is whatever the slot had. *)
Fork(p) ==
  /\ At(p, "user") /\ p \in load.forkers
  /\ FreeSlots # {}
  /\ Made
  /\ Cardinality(FreePages) >= Len(pt[p])
  /\ pt' = [pt EXCEPT ![Min(FreeSlots)] = SetToSeq(Kalloc(Len(pt[p])))]
  /\ used' = used \cup Kalloc(Len(pt[p]))
  /\ state' = [state EXCEPT ![Min(FreeSlots)] = "LIVE"]
  /\ parent' = [parent EXCEPT ![Min(FreeSlots)] = p]
  /\ UNCHANGED <<isthread, globals, locals, leaked, panicked, load>>

(* sys_sbrk() and growproc(), a page at a time. *)
Grow(p) ==
  /\ At(p, "user") /\ p \in load.growers
  /\ FreePages # {}
  /\ pt' = [pt EXCEPT ![p] = Append(@, Min(FreePages))]
  /\ used' = used \cup {Min(FreePages)}
  /\ UNCHANGED <<state, parent, isthread, globals, locals, made, leaked, panicked, load>>
Shrink(p) ==
  /\ At(p, "user") /\ p \in load.shrinkers
  /\ Len(pt[p]) > 1
  /\ pt' = [pt EXCEPT ![p] = Front(@)]
  /\ used' = used \ {Last(pt[p])}
  /\ UNCHANGED <<state, parent, isthread, globals, locals, made, leaked, panicked, load>>

(* A process that still holds a lock is preempted or sleeps: sched(). *)
SchedPanic ==
  /\ leaked # NoProc
  /\ panicked' = TRUE
  /\ UNCHANGED <<state, parent, isthread, pt, used, globals, locals, made, leaked, load>>
-----------------------------------------------------------------------------
CreateStep(p) ==
  \/ Create(p) \/ CreateNoProc(p) \/ CreateNoTable(p) \/ CreateNoStack(p)
  \/ LoadId(p) \/ StoreId(p) \/ LoadRun(p) \/ StoreRun(p)
JoinStep(p) == Join(p) \/ LoadJoin(p) \/ StoreJoin(p) \/ Sweep(p) \/ SweepDone(p)

(* Whoever next wants a lock that was leaked waits for it for ever. *)
Next ==
  \/ /\ leaked = NoProc
     /\ \E p \in Slot : \/ CreateStep(p) \/ JoinStep(p)
                        \/ Exit(p) \/ Wait(p) \/ Fork(p) \/ Grow(p) \/ Shrink(p)
  \/ SchedPanic

Spec == Init /\ [][Next]_vars
-----------------------------------------------------------------------------
(***************************************************************************)
(* Threads share pages, and each of them may exit, be joined and have its  *)
(* slot swept before the others: a page that a live process maps has not   *)
(* been given back to kalloc().                                            *)
(***************************************************************************)
MappedIsAllocated == \A p \in Slot : state[p] \in {"LIVE", "USED"} => Pages(p) \subseteq used

(***************************************************************************)
(* "An exited process remains in the zombie state until its parent calls   *)
(* wait()": a slot is freed after its process has exited, never before.    *)
(***************************************************************************)
FreedOnlyDead ==
  [][\A p \in Slot : state[p] = "LIVE" => state'[p] # "UNUSED"]_vars

(***************************************************************************)
(* A program that has called mythread_join() as often as mythread_create() *)
(* has no thread left, running or dead: "All threads complete".            *)
(***************************************************************************)
AllComplete ==
  \A p \in load.mains : At(p, "user") /\ owed[p] = 0 =>
    \A q \in Children(p) : ~isthread[q]

(***************************************************************************)
(* Memory is shared among threads and nobody else: a forked process has    *)
(* its own, also in a slot that a thread had.                              *)
(***************************************************************************)
OnlyThreadsShare ==
  \A p, q \in Slot : p # q /\ Pages(p) \cap Pages(q) # {} => isthread[p] /\ isthread[q]

(***************************************************************************)
(* One program at a time that creates threads, joins each of them, and     *)
(* whose threads do not shrink their memory or call exec(), stays sound    *)
(* through the frees of freeproc() and of mythread_join()'s sweep: pages   *)
(* in use are not free, only threads share them, and mythread_join() has   *)
(* waited for everybody.  It is a program of less than NPTE pages: a       *)
(* larger one loses pages to the undo of copytable().                      *)
(***************************************************************************)
ThreadsSafe == TypeOK /\ MappedIsAllocated /\ OnlyThreadsShare /\ AllComplete

(***************************************************************************)
(* sched() panics unless p->lock is the only lock held.                    *)
(***************************************************************************)
NoSchedPanic == ~panicked
=============================================================================
