----------------------------- MODULE SleepLock -----------------------------
(***************************************************************************)
(* kernel/sleeplock.c on top of sleep() and wakeup(): NPROC processes on   *)
(* the CPUs of Sched contend for one sleep-lock.  lk is the spinlock that  *)
(* guards it, locked and pid its two fields.  The sleep channel is the     *)
(* address of the lock; LockChan stands for it.                            *)
(*                                                                         *)
(* pc[p] says where p is:                                                  *)
(*   "out"      not in acquiresleep()/releasesleep(), lock not held;       *)
(*   "sleep"    in acquiresleep(), lk->lk held, lock found taken, about to *)
(*              call sleep();                                              *)
(*   "retry"    in sleep(): asleep, or woken and about to re-acquire       *)
(*              lk->lk;                                                    *)
(*   "crit"     returned from acquiresleep(), holds the sleep-lock;        *)
(*   "wake"     in releasesleep(), lk->lk held, at slot widx of wakeup().  *)
(***************************************************************************)
EXTENDS Sched

VARIABLES lk,           \* the CPU that holds lk->lk
          locked,       \* lk->locked
          pid,          \* lk->pid, 0 when free (a slot stands for its pid)
          pc, widx

lockVars == <<lk, locked, pid, pc, widx>>
vars == <<state, chan, plock, curr, lk, locked, pid, pc, widx>>

LockChan == 1

TypeOK ==
  /\ SchedTypeOK
  /\ chan \in [Proc -> {0, LockChan}]
  /\ lk \in CPU \cup {NoCpu}
  /\ locked \in BOOLEAN
  /\ pid \in Proc \cup {0}
  /\ pc \in [Proc -> {"out", "sleep", "retry", "crit", "wake"}]
  /\ widx \in [Proc -> 1..(NPROC + 1)]

(* holdingsleep(), as the process p would be answered. *)
HoldingSleep(p) == locked /\ pid = p

(* initsleeplock(), with every process ready to run. *)
Init ==
  /\ state = [p \in Proc |-> "RUNNABLE"]
  /\ chan = [p \in Proc |-> 0]
  /\ plock = [p \in Proc |-> NoCpu]
  /\ curr = [c \in CPU |-> NoProc]
  /\ lk = NoCpu
  /\ locked = FALSE
  /\ pid = 0
  /\ pc = [p \in Proc |-> "out"]
  /\ widx = [p \in Proc |-> 1]

(* Mutant: "if (lk->locked)" instead of "while (lk->locked)". *)
AcquireSleepIf(c, p) ==
  /\ On(c, p)
  /\ pc[p] \in {"out", "retry"}
  /\ lk = NoCpu
  /\ IF locked /\ pc[p] = "out"
       THEN /\ lk' = c
            /\ pc' = [pc EXCEPT ![p] = "sleep"]
            /\ UNCHANGED <<locked, pid>>
       ELSE /\ locked' = TRUE
            /\ pid' = p
            /\ pc' = [pc EXCEPT ![p] = "crit"]
            /\ UNCHANGED lk
  /\ UNCHANGED <<state, chan, plock, curr, widx>>

(* Mutant: lk->lk is released before sleep() takes p->lock. *)
AcquireSleepEarly(c, p) ==
  /\ On(c, p)
  /\ pc[p] \in {"out", "retry"}
  /\ lk = NoCpu
  /\ IF locked
       THEN pc' = [pc EXCEPT ![p] = "sleep"] /\ UNCHANGED <<locked, pid>>
       ELSE pc' = [pc EXCEPT ![p] = "crit"] /\ locked' = TRUE /\ pid' = p
  /\ UNCHANGED <<state, chan, plock, curr, lk, widx>>

(***************************************************************************)
(* acquiresleep(): take lk->lk, at the call and again when sleep() has     *)
(* returned, and test lk->locked.  When it is clear the lock is taken and  *)
(* lk->lk released; otherwise lk->lk stays held and sleep() is next.       *)
(***************************************************************************)
AcquireSleep(c, p) ==
  /\ On(c, p)
  /\ pc[p] \in {"out", "retry"}
  /\ lk = NoCpu
  /\ IF locked
       THEN /\ lk' = c
            /\ pc' = [pc EXCEPT ![p] = "sleep"]
            /\ UNCHANGED <<locked, pid>>
       ELSE /\ locked' = TRUE
            /\ pid' = p
            /\ pc' = [pc EXCEPT ![p] = "crit"]
            /\ UNCHANGED lk
  /\ UNCHANGED <<state, chan, plock, curr, widx>>

(* sleep(lk, &lk->lk): p->lock is taken before lk->lk is released. *)
Sleep(c, p) ==
  /\ pc[p] = "sleep"
  /\ GiveUp(c, p, "SLEEPING", LockChan)
  /\ lk' = NoCpu
  /\ pc' = [pc EXCEPT ![p] = "retry"]
  /\ UNCHANGED <<locked, pid, widx>>

(* Mutant: wakeup() starts its scan one slot late. *)
ReleaseSleepLate(c, p) ==
  /\ On(c, p) /\ pc[p] = "crit" /\ lk = NoCpu
  /\ lk' = c /\ locked' = FALSE /\ pid' = 0
  /\ pc' = [pc EXCEPT ![p] = "wake"]
  /\ widx' = [widx EXCEPT ![p] = 2]
  /\ UNCHANGED schedVars

(* releasesleep() up to its call of wakeup(). *)
ReleaseSleep(c, p) ==
  /\ On(c, p)
  /\ pc[p] = "crit"
  /\ lk = NoCpu
  /\ lk' = c
  /\ locked' = FALSE
  /\ pid' = 0
  /\ pc' = [pc EXCEPT ![p] = "wake"]
  /\ widx' = [widx EXCEPT ![p] = 1]
  /\ UNCHANGED schedVars

(* wakeup(lk) in releasesleep(), one slot at a time. *)
Wakeup(c, p) ==
  /\ On(c, p)
  /\ pc[p] = "wake"
  /\ widx[p] \in Proc
  /\ WakeOne(p, widx[p], LockChan)
  /\ widx' = [widx EXCEPT ![p] = @ + 1]
  /\ UNCHANGED <<lk, locked, pid, pc>>

(* The end of releasesleep(): release(&lk->lk). *)
ReleaseDone(c, p) ==
  /\ On(c, p)
  /\ pc[p] = "wake"
  /\ widx[p] = NPROC + 1
  /\ lk' = NoCpu
  /\ pc' = [pc EXCEPT ![p] = "out"]
  /\ widx' = [widx EXCEPT ![p] = 1]
  /\ UNCHANGED <<state, chan, plock, curr, locked, pid>>

(* A process that holds no spinlock has interrupts on and is preempted. *)
Preempt(c, p) ==
  /\ pc[p] \in {"out", "retry", "crit"}
  /\ Yield(c, p)
  /\ UNCHANGED lockVars

(* p calls kill() on q while outside the lock. *)
Kill(c, p, q) ==
  /\ On(c, p)
  /\ pc[p] = "out"
  /\ KillOne(q)
  /\ UNCHANGED lockVars

Schedule(c, p) == SwtchTo(c, p) /\ UNCHANGED lockVars
Deschedule(c) == SwtchBack(c) /\ UNCHANGED lockVars

(* The steps of acquiresleep() and releasesleep(). *)
Step(c, p) ==
  \/ AcquireSleep(c, p)
  \/ Sleep(c, p)
  \/ ReleaseSleep(c, p)
  \/ Wakeup(c, p)
  \/ ReleaseDone(c, p)

Next ==
  \/ \E c \in CPU, p \in Proc : Step(c, p) \/ Preempt(c, p) \/ Schedule(c, p)
  \/ \E c \in CPU, p, q \in Proc : Kill(c, p, q)
  \/ \E c \in CPU : Deschedule(c)

Spec == Init /\ [][Next]_vars

(***************************************************************************)
(* Fairness.  scheduler() scans the whole table, so a RUNNABLE process is  *)
(* picked up if CPUs keep coming free (strong fairness of Schedule), and   *)
(* the timer makes them come free (weak fairness of Preempt).  A process   *)
(* that is inside the lock code and runs again and again goes on: acquire()*)
(* turns interrupts off before it spins, so the timer does not take the    *)
(* CPU away from one that waits for lk->lk, and lk->lk is soon released.   *)
(* A holder of the lock releases it; nobody is obliged to ask for it.      *)
(***************************************************************************)
GoesOn(p) ==
  []<>(\E c \in CPU : On(c, p) /\ pc[p] # "out") => []<><<\E c \in CPU : Step(c, p)>>_vars

Fairness ==
  /\ \A c \in CPU : WF_vars(Deschedule(c))
  /\ \A p \in Proc :
       /\ SF_vars(\E c \in CPU : Schedule(c, p))
       /\ GoesOn(p)
       /\ WF_vars(\E c \in CPU : Preempt(c, p))

LiveSpec == Spec /\ Fairness
-----------------------------------------------------------------------------
(***************************************************************************)
(* The lock excludes: at most one process is between acquiresleep() and    *)
(* releasesleep(), and lk->locked and lk->pid name it, so holdingsleep()   *)
(* answers exactly for that process.  A woken sleeper has to test          *)
(* lk->locked again (wakeup() wakes all, and kill() wakes anybody).        *)
(***************************************************************************)
MutualExclusion ==
  /\ \A p \in Proc : pc[p] = "crit" <=> HoldingSleep(p)
  /\ locked => \E p \in Proc : pc[p] = "crit"

(***************************************************************************)
(* No lost wakeup: when the lock is free and nobody is inside the code     *)
(* that lk->lk guards, nobody sleeps on the lock.  A process that tested   *)
(* lk->locked and was about to sleep cannot miss the wakeup().             *)
(***************************************************************************)
NoLostWakeup ==
  lk = NoCpu /\ ~locked => \A p \in Proc : state[p] # "SLEEPING"

(***************************************************************************)
(* Why both hold (the inductive invariant of the proofs).  p->lock is held *)
(* between steps exactly while p leaves its CPU; lk->lk exactly by the     *)
(* CPU of the process about to sleep or inside wakeup(); and a sleeper     *)
(* whose lock is free lies ahead of the wakeup() in progress.              *)
(***************************************************************************)
LockInv ==
  /\ OneCpuPerProc
  /\ \A c \in CPU, p \in Proc :
       plock[p] = c <=> (curr[c] = p /\ state[p] # "RUNNING")
  /\ \A p \in Proc : pc[p] \in {"sleep", "wake"} => lk \in CPU /\ On(lk, p)
  /\ lk \in CPU => \E p \in Proc : On(lk, p) /\ pc[p] \in {"sleep", "wake"}
  /\ MutualExclusion
  /\ \A p \in Proc : pc[p] = "sleep" => locked
  /\ \A p \in Proc : state[p] = "SLEEPING" =>
       /\ pc[p] = "retry" /\ chan[p] = LockChan
       /\ locked \/ \E q \in Proc : pc[q] = "wake" /\ widx[q] <= p

(***************************************************************************)
(* Whoever sleeps in acquiresleep() is woken eventually: the holder gets   *)
(* through releasesleep() and its wakeup() reaches every slot.  (Nothing   *)
(* promises that the woken process is the next to get the lock.)           *)
(***************************************************************************)
SleeperIsWoken ==
  \A p \in Proc : state[p] = "SLEEPING" ~> state[p] # "SLEEPING"
=============================================================================
