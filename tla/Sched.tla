------------------------------- MODULE Sched -------------------------------
(***************************************************************************)
(* The context-switch core of kernel/proc.c: the state and lock of every   *)
(* slot of the process table, the process each CPU runs, and the steps     *)
(* that scheduler(), sched(), sleep(), yield(), wakeup() and kill() take.  *)
(* The modules of the components built on it (SleepLock, Proc) add the     *)
(* program counters of the code that calls them.                           *)
(*                                                                         *)
(* A step runs from one acquire() of a modelled spinlock to just before    *)
(* the next one: what it touches in between is guarded by locks it holds,  *)
(* and releasing a lock never blocks.  plock[p] is therefore seen held     *)
(* between steps only while p's CPU is on its way back to scheduler().     *)
(* acquire() turns interrupts off, so a process that holds a spinlock is   *)
(* not preempted; locks record the CPU that holds them, as lk->cpu does.   *)
(***************************************************************************)
EXTENDS Naturals

CONSTANTS NPROC,        \* slots of the process table
          CPU,          \* the harts
          NoCpu         \* "no CPU holds this lock"

ASSUME NPROCAssumption == NPROC \in Nat \ {0}
ASSUME NoCpuAssumption == NoCpu \notin CPU

VARIABLES state,        \* p->state
          chan,         \* p->chan, 0 when p sleeps on nothing
          plock,        \* the CPU that holds p->lock
          curr          \* c->proc, 0 in scheduler()

schedVars == <<state, chan, plock, curr>>

Proc == 1..NPROC
NoProc == 0
ProcState == {"UNUSED", "USED", "SLEEPING", "RUNNABLE", "RUNNING", "ZOMBIE"}

SchedTypeOK ==
  /\ state \in [Proc -> ProcState]
  /\ plock \in [Proc -> CPU \cup {NoCpu}]
  /\ curr \in [CPU -> Proc \cup {NoProc}]

(* c executes the kernel thread of p: mycpu() = c and myproc() = p. *)
On(c, p) == curr[c] = p /\ state[p] = "RUNNING"

(***************************************************************************)
(* scheduler(): an idle CPU finds p RUNNABLE under p->lock and switches to *)
(* it.  p comes back from swtch() in sched() (or starts in forkret()) with *)
(* p->lock held and releases it: sleep() clears p->chan first, and in the  *)
(* other cases p->chan is 0 already.                                       *)
(***************************************************************************)
SwtchTo(c, p) ==
  /\ curr[c] = NoProc
  /\ plock[p] = NoCpu
  /\ state[p] = "RUNNABLE"
  /\ state' = [state EXCEPT ![p] = "RUNNING"]
  /\ chan' = [chan EXCEPT ![p] = 0]
  /\ curr' = [curr EXCEPT ![c] = p]
  /\ UNCHANGED plock

(***************************************************************************)
(* The first half of leaving the CPU, common to sleep(), yield() and       *)
(* exit(): p takes its own lock, leaves RUNNING and calls sched().         *)
(***************************************************************************)
GiveUp(c, p, st, ch) ==
  /\ On(c, p)
  /\ plock[p] = NoCpu
  /\ plock' = [plock EXCEPT ![p] = c]
  /\ state' = [state EXCEPT ![p] = st]
  /\ chan' = [chan EXCEPT ![p] = ch]
  /\ UNCHANGED curr

(***************************************************************************)
(* The second half: swtch() has left p's kernel stack, and scheduler()     *)
(* clears c->proc and releases p->lock.                                    *)
(***************************************************************************)
SwtchBack(c) ==
  /\ curr[c] # NoProc
  /\ state[curr[c]] # "RUNNING"
  /\ plock' = [plock EXCEPT ![curr[c]] = NoCpu]
  /\ curr' = [curr EXCEPT ![c] = NoProc]
  /\ UNCHANGED <<state, chan>>

(* yield(), from a timer interrupt. *)
Yield(c, p) == GiveUp(c, p, "RUNNABLE", 0)

(* One iteration of wakeup(ch) by p: the slot q, which p skips if it is p. *)
WakeOne(p, q, ch) ==
  /\ q # p => plock[q] = NoCpu
  /\ state' = IF q # p /\ state[q] = "SLEEPING" /\ chan[q] = ch
                THEN [state EXCEPT ![q] = "RUNNABLE"] ELSE state
  /\ UNCHANGED <<chan, plock, curr>>

(* kill() has found q: a sleeping victim is made RUNNABLE. *)
KillOne(q) ==
  /\ plock[q] = NoCpu
  /\ state' = IF state[q] = "SLEEPING"
                THEN [state EXCEPT ![q] = "RUNNABLE"] ELSE state
  /\ UNCHANGED <<chan, plock, curr>>

(***************************************************************************)
(* Hazard: while a process leaves the CPU, wakeup() or kill() may make it  *)
(* RUNNABLE and another CPU's scheduler() may pick it up, so that two CPUs *)
(* run on one kernel stack.  p->lock, held across swtch(), prevents it:    *)
(* no slot is current on two CPUs, and a slot that is off every CPU is not *)
(* RUNNING.                                                                *)
(***************************************************************************)
OneCpuPerProc ==
  /\ \A c, d \in CPU : curr[c] # NoProc /\ curr[c] = curr[d] => c = d
  /\ \A p \in Proc : state[p] = "RUNNING" => \E c \in CPU : curr[c] = p
=============================================================================
