-------------------------------- MODULE Proc --------------------------------
(***************************************************************************)
(* The life of a process in kernel/proc.c: fork(), exit(), wait() and      *)
(* kill() of NPROC slots on the CPUs of Sched, with wait_lock, the scans   *)
(* of the process table and the wakeup() loops one slot at a time.  Slot 1 *)
(* is initproc, which only forks and waits; nobody kills it.  A sleep      *)
(* channel is the address of a struct proc: its slot.                      *)
(*                                                                         *)
(* pc[p]: "user"     in user space, or anywhere in the kernel but here     *)
(*        "alloc"    allocproc() is about to look at slot idx[p]           *)
(*        "forked"   fork() has released np->lock, the child is USED       *)
(*        "publish"  fork() has set np->parent                             *)
(*        "exit"     exit() is about to take wait_lock                     *)
(*        "reparent" reparent() looks for a child (wait_lock held)         *)
(*        "wakeinit" reparent() is in wakeup(initproc), at slot widx[p]    *)
(*        "wakepar"  exit() is in wakeup(p->parent), at slot widx[p]       *)
(*        "dead"     exit() has made p a ZOMBIE                            *)
(*        "wait"     wait() is about to take wait_lock, or sleeps on p     *)
(*        "scan"     wait() has looked at the slots below idx[p]           *)
(*        "wsleep"   wait() found nothing and is about to sleep            *)
(***************************************************************************)
EXTENDS Sched

CONSTANT Killers        \* the slots whose processes call kill(), a bound

VARIABLES killed,       \* p->killed
          parent,       \* p->parent, 0 for none
          wlock,        \* the CPU that holds wait_lock
          pc, idx, widx,
          np,           \* the child that fork() is making
          havekids

procVars == <<killed, parent, wlock, pc, idx, widx, np, havekids>>
vars == <<state, chan, plock, curr, killed, parent, wlock, pc, idx, widx, np, havekids>>

InitProc == 1
Slots == 1..(NPROC + 1)

TypeOK ==
  /\ SchedTypeOK
  /\ chan \in [Proc -> Proc \cup {0}]
  /\ killed \in [Proc -> BOOLEAN]
  /\ parent \in [Proc -> Proc \cup {NoProc}]
  /\ wlock \in CPU \cup {NoCpu}
  /\ pc \in [Proc -> {"user", "alloc", "forked", "publish", "exit", "reparent", "wakeinit",
                      "wakepar", "dead", "wait", "scan", "wsleep"}]
  /\ idx \in [Proc -> Slots] /\ widx \in [Proc -> Slots]
  /\ np \in [Proc -> Proc \cup {NoProc}]
  /\ havekids \in [Proc -> BOOLEAN]

(* procinit() and userinit(). *)
Init ==
  /\ state = [p \in Proc |-> IF p = InitProc THEN "RUNNABLE" ELSE "UNUSED"]
  /\ chan = [p \in Proc |-> 0]
  /\ plock = [p \in Proc |-> NoCpu]
  /\ curr = [c \in CPU |-> NoProc]
  /\ killed = [p \in Proc |-> FALSE]
  /\ parent = [p \in Proc |-> NoProc]
  /\ wlock = NoCpu
  /\ pc = [p \in Proc |-> "user"]
  /\ idx = [p \in Proc |-> 1]
  /\ widx = [p \in Proc |-> 1]
  /\ np = [p \in Proc |-> NoProc]
  /\ havekids = [p \in Proc |-> FALSE]
-----------------------------------------------------------------------------
At(c, p, l) == On(c, p) /\ pc[p] = l
Goto(p, l) == pc' = [pc EXCEPT ![p] = l]

(* usertrap(): a killed process makes no system call but exits. *)
Syscall(c, p) == At(c, p, "user") /\ ~killed[p]

(* freeproc(q), its lock held: what becomes of the slot. *)
FreeProc(q) ==
  /\ state' = [state EXCEPT ![q] = "UNUSED"]
  /\ chan' = [chan EXCEPT ![q] = 0]
  /\ killed' = [killed EXCEPT ![q] = FALSE]
  /\ parent' = [parent EXCEPT ![q] = NoProc]

Fork(c, p) ==
  /\ Syscall(c, p)
  /\ Goto(p, "alloc")
  /\ idx' = [idx EXCEPT ![p] = 1]
  /\ UNCHANGED <<schedVars, killed, parent, wlock, widx, np, havekids>>

(* allocproc() passes a slot in use, or gives up at the end of the table. *)
AllocNext(c, p) ==
  /\ At(c, p, "alloc")
  /\ IF idx[p] \in Proc
       THEN /\ plock[idx[p]] = NoCpu
            /\ state[idx[p]] # "UNUSED"
            /\ idx' = [idx EXCEPT ![p] = @ + 1]
            /\ UNCHANGED pc
       ELSE Goto(p, "user") /\ idx' = [idx EXCEPT ![p] = 1]
  /\ UNCHANGED <<schedVars, killed, parent, wlock, widx, np, havekids>>

(* It finds one, and fork() copies the parent into it. *)
AllocFound(c, p) ==
  /\ At(c, p, "alloc")
  /\ idx[p] \in Proc
  /\ plock[idx[p]] = NoCpu
  /\ state[idx[p]] = "UNUSED"
  /\ state' = [state EXCEPT ![idx[p]] = "USED"]
  /\ np' = [np EXCEPT ![p] = idx[p]]
  /\ idx' = [idx EXCEPT ![p] = 1]
  /\ Goto(p, "forked")
  /\ UNCHANGED <<chan, plock, curr, killed, parent, wlock, widx, havekids>>

(* A kalloc() in allocproc() or uvmcopy() fails: the slot is freed again. *)
AllocFails(c, p) ==
  /\ At(c, p, "alloc")
  /\ idx[p] \in Proc
  /\ plock[idx[p]] = NoCpu
  /\ state[idx[p]] = "UNUSED"
  /\ FreeProc(idx[p])
  /\ idx' = [idx EXCEPT ![p] = 1]
  /\ Goto(p, "user")
  /\ UNCHANGED <<plock, curr, wlock, widx, np, havekids>>

ForkParent(c, p) ==
  /\ At(c, p, "forked")
  /\ wlock = NoCpu
  /\ parent' = [parent EXCEPT ![np[p]] = p]
  /\ Goto(p, "publish")
  /\ UNCHANGED <<schedVars, killed, wlock, idx, widx, np, havekids>>

(* The child becomes RUNNABLE; it will start in user space. *)
ForkPublish(c, p) ==
  /\ At(c, p, "publish")
  /\ plock[np[p]] = NoCpu
  /\ state' = [state EXCEPT ![np[p]] = "RUNNABLE"]
  /\ pc' = [pc EXCEPT ![p] = "user", ![np[p]] = "user"]
  /\ np' = [np EXCEPT ![p] = NoProc]
  /\ UNCHANGED <<chan, plock, curr, killed, parent, wlock, idx, widx, havekids>>
-----------------------------------------------------------------------------
Children(p) == {q \in Proc : parent[q] = p}

(* Scans of the table meet the lowest slot of a set first. *)
First(q, S) == q \in S /\ \A r \in S : q <= r

(* exit(), from a system call or from usertrap(); files are closed first. *)
Exit(c, p) ==
  /\ At(c, p, "user")
  /\ p # InitProc
  /\ Goto(p, "exit")
  /\ UNCHANGED <<schedVars, killed, parent, wlock, idx, widx, np, havekids>>

ExitLock(c, p) ==
  /\ At(c, p, "exit")
  /\ wlock = NoCpu
  /\ wlock' = c
  /\ Goto(p, "reparent")
  /\ UNCHANGED <<schedVars, killed, parent, idx, widx, np, havekids>>

(* Mutant: exit() forgets its children. *)
ReparentNone(c, p) ==
  /\ At(c, p, "reparent")
  /\ Goto(p, "wakepar")
  /\ UNCHANGED <<schedVars, killed, parent, wlock, idx, widx, np, havekids>>

(* reparent(): the next child goes to init, then wakeup(initproc); when    *)
(* none is left, wakeup(p->parent).                                        *)
Reparent(c, p) ==
  /\ At(c, p, "reparent")
  /\ IF Children(p) # {}
       THEN /\ \E q \in Proc : First(q, Children(p)) /\ parent' = [parent EXCEPT ![q] = InitProc]
            /\ Goto(p, "wakeinit")
       ELSE Goto(p, "wakepar") /\ UNCHANGED parent
  /\ UNCHANGED <<schedVars, killed, wlock, idx, widx, np, havekids>>

(* wakeup() in reparent() and exit(). *)
WakeChan(p) == IF pc[p] = "wakeinit" THEN InitProc ELSE parent[p]
Wakeup(c, p) ==
  /\ On(c, p)
  /\ pc[p] \in {"wakeinit", "wakepar"}
  /\ widx[p] \in Proc
  /\ WakeOne(p, widx[p], WakeChan(p))
  /\ widx' = [widx EXCEPT ![p] = @ + 1]
  /\ UNCHANGED <<killed, parent, wlock, pc, idx, np, havekids>>

WakeInitDone(c, p) ==
  /\ At(c, p, "wakeinit")
  /\ widx[p] = NPROC + 1
  /\ widx' = [widx EXCEPT ![p] = 1]
  /\ Goto(p, "reparent")
  /\ UNCHANGED <<schedVars, killed, parent, wlock, idx, np, havekids>>

(* exit() becomes a ZOMBIE under p->lock, releases wait_lock, never returns. *)
ExitZombie(c, p) ==
  /\ pc[p] = "wakepar"
  /\ widx[p] = NPROC + 1
  /\ GiveUp(c, p, "ZOMBIE", 0)
  /\ wlock' = NoCpu
  /\ widx' = [widx EXCEPT ![p] = 1]
  /\ Goto(p, "dead")
  /\ UNCHANGED <<killed, parent, idx, np, havekids>>
-----------------------------------------------------------------------------
Wait(c, p) ==
  /\ Syscall(c, p)
  /\ Goto(p, "wait")
  /\ UNCHANGED <<schedVars, killed, parent, wlock, idx, widx, np, havekids>>

(* wait() takes wait_lock, at the call or when sleep() returns. *)
WaitLock(c, p) ==
  /\ At(c, p, "wait")
  /\ wlock = NoCpu
  /\ wlock' = c
  /\ Goto(p, "scan")
  /\ idx' = [idx EXCEPT ![p] = 1]
  /\ havekids' = [havekids EXCEPT ![p] = FALSE]
  /\ UNCHANGED <<schedVars, killed, parent, widx, np>>

(* Mutant: after a child that lives, the scan skips a slot. *)
AheadSkip(p) == {q \in Children(p) : q > idx[p]}

(* The children that the scan has not reached yet. *)
Ahead(p) == {q \in Children(p) : q >= idx[p]}

WaitReturn(p) ==
  /\ wlock' = NoCpu
  /\ idx' = [idx EXCEPT ![p] = 1]
  /\ havekids' = [havekids EXCEPT ![p] = FALSE]
  /\ Goto(p, "user")

(* The scan meets a child that has not exited ... *)
ScanChild(c, p) ==
  /\ At(c, p, "scan")
  /\ \E q \in Proc :
       /\ First(q, Ahead(p))
       /\ plock[q] = NoCpu
       /\ state[q] # "ZOMBIE"
       /\ idx' = [idx EXCEPT ![p] = q + 1]
  /\ havekids' = [havekids EXCEPT ![p] = TRUE]
  /\ UNCHANGED <<schedVars, killed, parent, wlock, pc, widx, np>>

(* Mutant: wait() looks at pp->state without pp->lock. *)
ReapUnlocked(c, p) ==
  /\ At(c, p, "scan")
  /\ \E q \in Proc : First(q, Ahead(p)) /\ state[q] = "ZOMBIE" /\ FreeProc(q)
  /\ WaitReturn(p)
  /\ UNCHANGED <<plock, curr, widx, np>>

(* ... or one that has, which is freed ... *)
Reap(c, p) ==
  /\ At(c, p, "scan")
  /\ \E q \in Proc :
       /\ First(q, Ahead(p))
       /\ plock[q] = NoCpu
       /\ state[q] = "ZOMBIE"
       /\ FreeProc(q)
  /\ WaitReturn(p)
  /\ UNCHANGED <<plock, curr, widx, np>>

(* ... unless the copyout() of its status fails (init passes no address). *)
ReapFails(c, p) ==
  /\ At(c, p, "scan")
  /\ p # InitProc
  /\ \E q \in Proc : First(q, Ahead(p)) /\ plock[q] = NoCpu /\ state[q] = "ZOMBIE"
  /\ WaitReturn(p)
  /\ UNCHANGED <<schedVars, killed, parent, widx, np>>

(* Mutant: sleep() gives wait_lock up before it takes p->lock, here at the *)
(* end of the scan.                                                        *)
ScanDoneEarly(c, p) ==
  /\ At(c, p, "scan")
  /\ Ahead(p) = {}
  /\ wlock' = NoCpu
  /\ Goto(p, IF ~havekids[p] \/ killed[p] THEN "user" ELSE "wsleep")
  /\ UNCHANGED <<schedVars, killed, parent, idx, widx, np, havekids>>

(* Mutant: wait() scans again instead of sleeping. *)
ScanDoneSpin(c, p) ==
  /\ At(c, p, "scan")
  /\ Ahead(p) = {}
  /\ IF ~havekids[p] \/ killed[p]
       THEN WaitReturn(p)
       ELSE idx' = [idx EXCEPT ![p] = 1] /\ UNCHANGED <<wlock, pc, havekids>>
  /\ UNCHANGED <<schedVars, killed, parent, widx, np>>

(* The scan is over: nothing to wait for, killed, or sleep. *)
ScanDone(c, p) ==
  /\ At(c, p, "scan")
  /\ Ahead(p) = {}
  /\ IF ~havekids[p] \/ killed[p]
       THEN WaitReturn(p)
       ELSE Goto(p, "wsleep") /\ UNCHANGED <<wlock, idx, havekids>>
  /\ UNCHANGED <<schedVars, killed, parent, widx, np>>

(* sleep(p, &wait_lock). *)
WaitSleep(c, p) ==
  /\ pc[p] = "wsleep"
  /\ GiveUp(c, p, "SLEEPING", p)
  /\ wlock' = NoCpu
  /\ idx' = [idx EXCEPT ![p] = 1]
  /\ havekids' = [havekids EXCEPT ![p] = FALSE]
  /\ Goto(p, "wait")
  /\ UNCHANGED <<killed, parent, widx, np>>
-----------------------------------------------------------------------------
(* kill(): the first slot that has the pid.  q's pid is in use ... *)
Kill(c, p, q) ==
  /\ Syscall(c, p) /\ p \in Killers
  /\ q # InitProc
  /\ state[q] # "UNUSED"
  /\ KillOne(q)
  /\ killed' = [killed EXCEPT ![q] = TRUE]
  /\ UNCHANGED <<parent, wlock, pc, idx, widx, np, havekids>>

(* ... or it is 0, the pid of every UNUSED slot. *)
KillZero(c, p) ==
  /\ Syscall(c, p) /\ p \in Killers
  /\ \E q \in Proc :
       /\ state[q] = "UNUSED"
       /\ \A r \in 1..(q - 1) : state[r] # "UNUSED"
       /\ KillOne(q)
       /\ killed' = [killed EXCEPT ![q] = TRUE]
  /\ UNCHANGED <<parent, wlock, pc, idx, widx, np, havekids>>

(* A timer interrupt, in user space or where no spinlock is held. *)
Preempt(c, p) ==
  /\ pc[p] \in {"user", "alloc", "forked", "publish", "exit", "wait"}
  /\ Yield(c, p)
  /\ UNCHANGED procVars

Schedule(c, p) == SwtchTo(c, p) /\ UNCHANGED procVars
Deschedule(c) == SwtchBack(c) /\ UNCHANGED procVars
-----------------------------------------------------------------------------
(* What a process does inside the kernel, once it has called ... *)
KernelStep(c, p) ==
  \/ AllocNext(c, p) \/ AllocFound(c, p) \/ AllocFails(c, p)
  \/ ForkParent(c, p) \/ ForkPublish(c, p)
  \/ ExitLock(c, p) \/ Reparent(c, p) \/ Wakeup(c, p) \/ WakeInitDone(c, p) \/ ExitZombie(c, p)
  \/ WaitLock(c, p) \/ ScanChild(c, p) \/ Reap(c, p) \/ ReapFails(c, p)
  \/ ScanDone(c, p) \/ WaitSleep(c, p)

(* ... and the calls it may make. *)
Call(c, p) ==
  \/ Fork(c, p) \/ Exit(c, p) \/ Wait(c, p) \/ KillZero(c, p)
  \/ \E q \in Proc : Kill(c, p, q)

Next ==
  \/ \E c \in CPU, p \in Proc :
       KernelStep(c, p) \/ Call(c, p) \/ Preempt(c, p) \/ Schedule(c, p)
  \/ \E c \in CPU : Deschedule(c)

Spec == Init /\ [][Next]_vars

(***************************************************************************)
(* For liveness.  acquire() turns interrupts off before it spins, so a     *)
(* process that finds its lock taken is not preempted: it would otherwise  *)
(* be possible that it only runs while the lock is taken.                  *)
(***************************************************************************)
Spinning(p) ==
  /\ state[p] = "RUNNING"
  /\ \/ pc[p] \in {"forked", "exit", "wait"} /\ wlock # NoCpu
     \/ pc[p] = "alloc" /\ idx[p] \in Proc /\ plock[idx[p]] # NoCpu
     \/ pc[p] = "publish" /\ plock[np[p]] # NoCpu

LiveNext == Next /\ \A p \in Proc : Spinning(p) => state'[p] = "RUNNING"

(***************************************************************************)
(* Fairness: the scheduler of a hart in H reaches every RUNNABLE slot, the *)
(* timer preempts a process unless it spins (its interrupt stays pending   *)
(* while a lock is held), a process in the kernel goes on, and a hart that *)
(* spins on a lock gets it if it is free again and again.  Nobody has to   *)
(* call anything.                                                          *)
(***************************************************************************)
FairProc(p, H) ==
  /\ SF_vars(\E c \in H : Schedule(c, p))
  /\ SF_vars(\E c \in H : KernelStep(c, p))
  /\ SF_vars(\E c \in H : Preempt(c, p) /\ ~Spinning(p))

Fairness ==
  /\ \A c \in CPU : WF_vars(Deschedule(c))
  /\ \A p \in Proc : FairProc(p, CPU)

LiveSpec == Init /\ [][LiveNext]_vars /\ Fairness
-----------------------------------------------------------------------------
(***************************************************************************)
(* Hazard: wait() frees the slot of a child, whose kernel stack another    *)
(* CPU may still be using on its way through sched() ("make sure the child *)
(* isn't still in exit() or swtch()").  A slot that is current on a CPU is *)
(* neither free nor being allocated.                                       *)
(***************************************************************************)
NeverFreedWhileOnCpu ==
  \A c \in CPU : curr[c] # NoProc => state[curr[c]] \notin {"UNUSED", "USED"}

(***************************************************************************)
(* reparent(): nobody's parent is dead or free, so every process that      *)
(* exits is waited for by a process that still can call wait().            *)
(***************************************************************************)
NoOrphans ==
  \A q \in Proc : parent[q] # NoProc => state[parent[q]] \notin {"UNUSED", "USED", "ZOMBIE"}

(***************************************************************************)
(* wait_lock ("helps ensure that wakeups of wait()ing parents are not      *)
(* lost"): with wait_lock free, no process sleeps in wait() although one   *)
(* of its children, its own or inherited, is a ZOMBIE, or although it has  *)
(* no child left.                                                          *)
(***************************************************************************)
NoLostExit ==
  wlock = NoCpu =>
    \A p \in Proc : state[p] = "SLEEPING" =>
      Children(p) # {} /\ \A q \in Children(p) : state[q] # "ZOMBIE"

(***************************************************************************)
(* The slot that fork() is filling is its own: two forks never share one,  *)
(* nobody runs, reaps or frees it before it is RUNNABLE.                   *)
(***************************************************************************)
ForkOwnsSlot ==
  \A p \in Proc : np[p] # NoProc =>
    /\ state[np[p]] = "USED"
    /\ \A q \in Proc : q # p => np[q] # np[p]

(***************************************************************************)
(* A slot has one owner at a time: fork() while it fills it, one CPU while *)
(* its process runs; and wait() frees it when nobody is on its stack.      *)
(***************************************************************************)
SlotOwned == TypeOK /\ OneCpuPerProc /\ NeverFreedWhileOnCpu /\ ForkOwnsSlot

(***************************************************************************)
(* Who is where.  p->lock is held between steps while p leaves its CPU,    *)
(* wait_lock by the CPU of the one process that is in reparent() or in the *)
(* scan of wait().                                                         *)
(***************************************************************************)
HoldsWait == {"reparent", "wakeinit", "wakepar", "scan", "wsleep"}
CpuInv ==
  /\ OneCpuPerProc /\ NeverFreedWhileOnCpu
  /\ \A p \in Proc, c \in CPU : plock[p] = c <=> curr[c] = p /\ state[p] # "RUNNING"
  /\ \A p \in Proc : pc[p] \in HoldsWait => \E c \in CPU : On(c, p) /\ wlock = c

(* What p->state says of the call that p is in. *)
Stage(p) ==
  /\ state[p] \in {"UNUSED", "USED"} => pc[p] \in {"user", "dead"}
  /\ state[p] = "ZOMBIE" => pc[p] = "dead"
  /\ pc[p] = "dead" => state[p] \in {"ZOMBIE", "UNUSED", "USED"}
  /\ state[p] = "SLEEPING" => pc[p] = "wait" /\ chan[p] = p
  /\ np[p] # NoProc <=> pc[p] \in {"forked", "publish"}
  /\ pc[p] = "forked" => parent[np[p]] = NoProc
  /\ widx[p] # 1 => pc[p] \in {"wakeinit", "wakepar"}

(* init never exits. *)
InitLives ==
  /\ state[InitProc] \in {"SLEEPING", "RUNNABLE", "RUNNING"}
  /\ pc[InitProc] \notin {"exit", "reparent", "wakeinit", "wakepar", "dead"}

StageInv == InitLives /\ (\A p \in Proc : Stage(p)) /\ ForkOwnsSlot

(* Free slots have no parent, and a process leaves no child behind. *)
FreeAlone == \A q \in Proc : state[q] = "UNUSED" => parent[q] = NoProc
NoneLeft == \A p \in Proc : pc[p] = "wakepar" => Children(p) = {}

ParentInv == NoOrphans /\ FreeAlone /\ NoneLeft

(* A scan has passed no ZOMBIE, and only init, about to be woken, sleeps
   beside one. *)
SeesZombies ==
  \A p, q \in Proc : parent[q] = p /\ state[q] = "ZOMBIE" =>
    /\ pc[p] # "wsleep"
    /\ pc[p] = "scan" => idx[p] <= q
    /\ state[p] = "SLEEPING" =>
         p = InitProc /\ \E e \in Proc : pc[e] = "wakeinit" /\ widx[e] = 1

(* Whoever sleeps or is about to has a child. *)
HasKids ==
  \A p \in Proc :
    state[p] = "SLEEPING" \/ pc[p] = "wsleep" \/ (pc[p] = "scan" /\ havekids[p]) => Children(p) # {}

(* The wakeup() in exit() leaves no parent asleep behind it. *)
WokeParent ==
  \A e \in Proc :
    pc[e] = "wakepar" /\ parent[e] \in Proc /\ parent[e] < widx[e] => state[parent[e]] # "SLEEPING"

WakeInv == SeesZombies /\ HasKids /\ WokeParent

(***************************************************************************)
(* The inductive invariant behind the three properties above.              *)
(***************************************************************************)
ProcInv == TypeOK /\ CpuInv /\ StageInv /\ ParentInv /\ WakeInv

(***************************************************************************)
(* A process that is in wait() while one of its children is a ZOMBIE gets  *)
(* back to user space: it is woken, and its scan finds the child.          *)
(***************************************************************************)
InWait(p) == pc[p] \in {"wait", "scan", "wsleep"}
WaitReturns ==
  \A p \in Proc :
    InWait(p) /\ (\E q \in Children(p) : state[q] = "ZOMBIE") ~> pc[p] = "user"

(***************************************************************************)
(* exit() gets to its end, past wait_lock, which every fork(), wait() and  *)
(* exit() takes, and past reparent(), however many children there are.     *)
(***************************************************************************)
ExitCompletes == \A p \in Proc : pc[p] = "exit" ~> state[p] = "ZOMBIE"
=============================================================================
