----------------------------- MODULE ProcProofs -----------------------------
(***************************************************************************)
(* Proofs about Proc for every number of slots and every set of CPUs.      *)
(* ProcInv is the inductive invariant; each of its parts has a lemma that  *)
(* shows what keeps it, with one step per action.                          *)
(***************************************************************************)
EXTENDS Proc, TLAPS

(* The variables keep their types; scans and wakeup() stay in the table. *)
LEMMA TypeStep == TypeOK /\ StageInv /\ [Next]_vars => TypeOK'
<1> SUFFICES ASSUME TypeOK, StageInv, [Next]_vars PROVE TypeOK'
  BY Zenon
<1>0. InitProc \in Proc /\ 1 \in Slots /\ \A k \in Proc : k \in Slots /\ k + 1 \in Slots
  BY NPROCAssumption DEF Proc, Slots, InitProc
<1> USE <1>0 DEF NoProc, TypeOK, SchedTypeOK, ProcState, On, StageInv, Stage
<1>1. ASSUME NEW c \in CPU, NEW p \in Proc, Fork(c, p) PROVE TypeOK'
  BY Zenon, <1>1 DEF Fork, Syscall, At, Goto, schedVars
<1>2. ASSUME NEW c \in CPU, NEW p \in Proc, AllocNext(c, p) PROVE TypeOK'
  <2>1. CASE idx[p] \in Proc
    BY <1>2, <2>1 DEF AllocNext, At, Goto, schedVars
  <2>2. CASE ~(idx[p] \in Proc)
    BY <1>2, <2>2 DEF AllocNext, At, Goto, schedVars
  <2> QED
    BY Zenon, <2>1, <2>2
<1>3. ASSUME NEW c \in CPU, NEW p \in Proc, AllocFound(c, p) PROVE TypeOK'
  BY Zenon, <1>3 DEF AllocFound, At, Goto
<1>4. ASSUME NEW c \in CPU, NEW p \in Proc, AllocFails(c, p) PROVE TypeOK'
  BY Zenon, <1>4 DEF AllocFails, At, Goto, FreeProc
<1>5. ASSUME NEW c \in CPU, NEW p \in Proc, ForkParent(c, p) PROVE TypeOK'
  BY Zenon, <1>5 DEF ForkParent, At, Goto, schedVars
<1>6. ASSUME NEW c \in CPU, NEW p \in Proc, ForkPublish(c, p) PROVE TypeOK'
  BY Zenon, <1>6 DEF ForkPublish, At
<1>7. ASSUME NEW c \in CPU, NEW p \in Proc, Exit(c, p) PROVE TypeOK'
  BY Zenon, <1>7 DEF Exit, At, Goto, schedVars
<1>8. ASSUME NEW c \in CPU, NEW p \in Proc, ExitLock(c, p) PROVE TypeOK'
  BY Zenon, <1>8 DEF ExitLock, At, Goto, schedVars
<1>9. ASSUME NEW c \in CPU, NEW p \in Proc, Reparent(c, p) PROVE TypeOK'
  <2>1. CASE Children(p) = {}
    BY <1>9, <2>1 DEF Reparent, At, Goto, First, schedVars
  <2>2. CASE ~(Children(p) = {})
    BY <1>9, <2>2 DEF Reparent, At, Goto, First, schedVars
  <2> QED
    BY Zenon, <2>1, <2>2
<1>10. ASSUME NEW c \in CPU, NEW p \in Proc, Wakeup(c, p) PROVE TypeOK'
  <2>1. CASE widx[p] # p /\ state[widx[p]] = "SLEEPING" /\ chan[widx[p]] = WakeChan(p)
    BY Zenon, <1>10, <2>1 DEF Wakeup, WakeOne, WakeChan
  <2>2. CASE ~(widx[p] # p /\ state[widx[p]] = "SLEEPING" /\ chan[widx[p]] = WakeChan(p))
    BY Zenon, <1>10, <2>2 DEF Wakeup, WakeOne, WakeChan
  <2> QED
    BY Zenon, <2>1, <2>2
<1>11. ASSUME NEW c \in CPU, NEW p \in Proc, WakeInitDone(c, p) PROVE TypeOK'
  BY Zenon, <1>11 DEF WakeInitDone, At, Goto, schedVars
<1>12. ASSUME NEW c \in CPU, NEW p \in Proc, ExitZombie(c, p) PROVE TypeOK'
  BY Zenon, <1>12 DEF ExitZombie, GiveUp, Goto
<1>13. ASSUME NEW c \in CPU, NEW p \in Proc, Wait(c, p) PROVE TypeOK'
  BY Zenon, <1>13 DEF Wait, Syscall, At, Goto, schedVars
<1>14. ASSUME NEW c \in CPU, NEW p \in Proc, WaitLock(c, p) PROVE TypeOK'
  BY Zenon, <1>14 DEF WaitLock, At, Goto, schedVars
<1>15. ASSUME NEW c \in CPU, NEW p \in Proc, ScanChild(c, p) PROVE TypeOK'
  BY <1>15, SMTT(30) DEF ScanChild, At, First, Ahead, schedVars
<1>16. ASSUME NEW c \in CPU, NEW p \in Proc, Reap(c, p) PROVE TypeOK'
  BY <1>16 DEF Reap, At, First, Ahead, FreeProc, WaitReturn, Goto
<1>17. ASSUME NEW c \in CPU, NEW p \in Proc, ReapFails(c, p) PROVE TypeOK'
  BY Zenon, <1>17 DEF ReapFails, At, First, Ahead, WaitReturn, Goto, schedVars
<1>18. ASSUME NEW c \in CPU, NEW p \in Proc, ScanDone(c, p) PROVE TypeOK'
  <2>1. CASE ~havekids[p] \/ killed[p]
    <3>1. WaitReturn(p) /\ UNCHANGED <<schedVars, killed, parent, widx, np>>
      BY Zenon, <1>18, <2>1 DEF ScanDone
    <3> QED
      BY Zenon, <3>1 DEF WaitReturn, Goto, schedVars
  <2>2. CASE ~(~havekids[p] \/ killed[p])
    BY <1>18, <2>2 DEF ScanDone, At, Ahead, Goto, schedVars
  <2> QED
    BY Zenon, <2>1, <2>2
<1>19. ASSUME NEW c \in CPU, NEW p \in Proc, WaitSleep(c, p) PROVE TypeOK'
  BY Zenon, <1>19 DEF WaitSleep, GiveUp, Goto
<1>20. ASSUME NEW c \in CPU, NEW p \in Proc, KillZero(c, p) PROVE TypeOK'
  BY Zenon, <1>20 DEF KillZero, Syscall, At, KillOne
<1>21. ASSUME NEW c \in CPU, NEW p \in Proc, Preempt(c, p) PROVE TypeOK'
  BY Zenon, <1>21 DEF Preempt, Yield, GiveUp, procVars
<1>22. ASSUME NEW c \in CPU, NEW p \in Proc, Schedule(c, p) PROVE TypeOK'
  BY Zenon, <1>22 DEF Schedule, SwtchTo, procVars
<1>23. ASSUME NEW c \in CPU, NEW p \in Proc, NEW q \in Proc, Kill(c, p, q) PROVE TypeOK'
  BY Zenon, <1>23 DEF Kill, Syscall, At, KillOne
<1>24. ASSUME NEW c \in CPU, Deschedule(c) PROVE TypeOK'
  BY Zenon, <1>24 DEF Deschedule, SwtchBack, procVars
<1>25. CASE UNCHANGED vars
  BY Zenon, <1>25 DEF vars
<1> QED
  BY Zenon, <1>1, <1>2, <1>3, <1>4, <1>5, <1>6, <1>7, <1>8, <1>9, <1>10, <1>11, <1>12, <1>13, <1>14, <1>15, <1>16, <1>17, <1>18, <1>19, <1>20, <1>21, <1>22, <1>23, <1>24, <1>25
     DEF Next, KernelStep, Call

(* What one turn of the loop in reparent() does. *)
LEMMA ReparentDoes ==
  ASSUME NEW c \in CPU, NEW p \in Proc, Reparent(c, p)
  PROVE  /\ On(c, p) /\ pc[p] = "reparent"
         /\ UNCHANGED <<state, chan, plock, curr, wlock, idx, widx, np, havekids>>
         /\ \/ Children(p) = {} /\ pc' = [pc EXCEPT ![p] = "wakepar"] /\ parent' = parent
            \/ /\ pc' = [pc EXCEPT ![p] = "wakeinit"]
               /\ \E q \in Proc : parent[q] = p /\ parent' = [parent EXCEPT ![q] = InitProc]
BY Zenon DEF Reparent, At, Goto, First, Children, schedVars

(* p->lock and wait_lock are held where CpuInv says. *)
LEMMA CpuStep == TypeOK /\ CpuInv /\ StageInv /\ [Next]_vars => CpuInv'
<1> SUFFICES ASSUME TypeOK, CpuInv, StageInv, [Next]_vars PROVE CpuInv'
  BY Zenon
<1>0. InitProc \in Proc /\ NoProc \notin Proc
  BY NPROCAssumption DEF Proc, InitProc, NoProc
<1> USE <1>0, NoCpuAssumption
    DEF TypeOK, SchedTypeOK, On, CpuInv, OneCpuPerProc, NeverFreedWhileOnCpu, HoldsWait, StageInv, Stage,
        ForkOwnsSlot
<1>1. ASSUME NEW c \in CPU, NEW p \in Proc, Fork(c, p) PROVE CpuInv'
  BY <1>1 DEF Fork, Syscall, At, Goto, schedVars
<1>2. ASSUME NEW c \in CPU, NEW p \in Proc, AllocNext(c, p) PROVE CpuInv'
  BY <1>2 DEF AllocNext, At, Goto, schedVars
<1>3. ASSUME NEW c \in CPU, NEW p \in Proc, AllocFound(c, p) PROVE CpuInv'
  BY <1>3 DEF AllocFound, At, Goto
<1>4. ASSUME NEW c \in CPU, NEW p \in Proc, AllocFails(c, p) PROVE CpuInv'
  BY <1>4 DEF AllocFails, At, Goto, FreeProc
<1>5. ASSUME NEW c \in CPU, NEW p \in Proc, ForkParent(c, p) PROVE CpuInv'
  BY <1>5 DEF ForkParent, At, Goto, schedVars
<1>6. ASSUME NEW c \in CPU, NEW p \in Proc, ForkPublish(c, p) PROVE CpuInv'
  BY <1>6 DEF ForkPublish, At
<1>7. ASSUME NEW c \in CPU, NEW p \in Proc, Exit(c, p) PROVE CpuInv'
  BY <1>7 DEF Exit, At, Goto, schedVars
<1>8. ASSUME NEW c \in CPU, NEW p \in Proc, ExitLock(c, p) PROVE CpuInv'
  BY <1>8 DEF ExitLock, At, Goto, schedVars
<1>9. ASSUME NEW c \in CPU, NEW p \in Proc, Reparent(c, p) PROVE CpuInv'
  BY <1>9, ReparentDoes
<1>10. ASSUME NEW c \in CPU, NEW p \in Proc, Wakeup(c, p) PROVE CpuInv'
  BY <1>10 DEF Wakeup, WakeOne, WakeChan
<1>11. ASSUME NEW c \in CPU, NEW p \in Proc, WakeInitDone(c, p) PROVE CpuInv'
  BY <1>11 DEF WakeInitDone, At, Goto, schedVars
<1>12. ASSUME NEW c \in CPU, NEW p \in Proc, ExitZombie(c, p) PROVE CpuInv'
  BY <1>12 DEF ExitZombie, GiveUp, Goto
<1>13. ASSUME NEW c \in CPU, NEW p \in Proc, Wait(c, p) PROVE CpuInv'
  BY <1>13 DEF Wait, Syscall, At, Goto, schedVars
<1>14. ASSUME NEW c \in CPU, NEW p \in Proc, WaitLock(c, p) PROVE CpuInv'
  BY <1>14 DEF WaitLock, At, Goto, schedVars
<1>15. ASSUME NEW c \in CPU, NEW p \in Proc, ScanChild(c, p) PROVE CpuInv'
  BY <1>15 DEF ScanChild, At, First, Ahead, schedVars
<1>16. ASSUME NEW c \in CPU, NEW p \in Proc, Reap(c, p) PROVE CpuInv'
  BY <1>16 DEF Reap, At, First, Ahead, FreeProc, WaitReturn, Goto
<1>17. ASSUME NEW c \in CPU, NEW p \in Proc, ReapFails(c, p) PROVE CpuInv'
  BY <1>17 DEF ReapFails, At, First, Ahead, WaitReturn, Goto, schedVars
<1>18. ASSUME NEW c \in CPU, NEW p \in Proc, ScanDone(c, p) PROVE CpuInv'
  BY <1>18 DEF ScanDone, At, Ahead, WaitReturn, Goto, schedVars
<1>19. ASSUME NEW c \in CPU, NEW p \in Proc, WaitSleep(c, p) PROVE CpuInv'
  BY <1>19 DEF WaitSleep, GiveUp, Goto
<1>20. ASSUME NEW c \in CPU, NEW p \in Proc, KillZero(c, p) PROVE CpuInv'
  BY <1>20 DEF KillZero, Syscall, At, KillOne
<1>21. ASSUME NEW c \in CPU, NEW p \in Proc, Preempt(c, p) PROVE CpuInv'
  BY <1>21 DEF Preempt, Yield, GiveUp, procVars
<1>22. ASSUME NEW c \in CPU, NEW p \in Proc, Schedule(c, p) PROVE CpuInv'
  BY <1>22 DEF Schedule, SwtchTo, procVars
<1>23. ASSUME NEW c \in CPU, NEW p \in Proc, NEW q \in Proc, Kill(c, p, q) PROVE CpuInv'
  BY <1>23 DEF Kill, Syscall, At, KillOne
<1>24. ASSUME NEW c \in CPU, Deschedule(c) PROVE CpuInv'
  BY <1>24 DEF Deschedule, SwtchBack, procVars
<1>25. CASE UNCHANGED vars
  BY <1>25 DEF vars
<1> QED
  BY Zenon, <1>1, <1>2, <1>3, <1>4, <1>5, <1>6, <1>7, <1>8, <1>9, <1>10, <1>11, <1>12, <1>13, <1>14, <1>15, <1>16, <1>17, <1>18, <1>19, <1>20, <1>21, <1>22, <1>23, <1>24, <1>25
     DEF Next, KernelStep, Call

(* fork() keeps its slot, and init its life. *)
LEMMA StageStep == TypeOK /\ StageInv /\ ParentInv /\ [Next]_vars => StageInv'
<1> SUFFICES ASSUME TypeOK, StageInv, ParentInv, [Next]_vars PROVE StageInv'
  BY Zenon
<1>0. InitProc \in Proc /\ NoProc \notin Proc
  BY NPROCAssumption DEF Proc, InitProc, NoProc
<1> USE <1>0 DEF TypeOK, SchedTypeOK, On, StageInv, InitLives, Stage, ForkOwnsSlot, ParentInv, FreeAlone
<1>1. ASSUME NEW c \in CPU, NEW p \in Proc, Fork(c, p) PROVE StageInv'
  <2>1. InitLives'
    BY Zenon, <1>1 DEF Fork, Syscall, At, Goto, schedVars
  <2>2. ASSUME NEW r \in Proc PROVE Stage(r)'
    BY Zenon, <1>1 DEF Fork, Syscall, At, Goto, schedVars
  <2>3. ForkOwnsSlot'
    BY <1>1 DEF Fork, Syscall, At, Goto, schedVars
  <2> QED
    BY Zenon, <2>1, <2>2, <2>3 DEF StageInv
<1>2. ASSUME NEW c \in CPU, NEW p \in Proc, AllocNext(c, p) PROVE StageInv'
  <2>1. CASE idx[p] \in Proc
    BY <1>2, <2>1, SMTT(30) DEF AllocNext, At, Goto, schedVars
  <2>2. CASE ~(idx[p] \in Proc)
    BY <1>2, <2>2, SMTT(30) DEF AllocNext, At, Goto, schedVars
  <2> QED
    BY Zenon, <2>1, <2>2
<1>3. ASSUME NEW c \in CPU, NEW p \in Proc, AllocFound(c, p) PROVE StageInv'
  BY <1>3 DEF AllocFound, At, Goto
<1>4. ASSUME NEW c \in CPU, NEW p \in Proc, AllocFails(c, p) PROVE StageInv'
  <2>0. /\ On(c, p) /\ pc[p] = "alloc" /\ pc' = [pc EXCEPT ![p] = "user"]
        /\ idx[p] \in Proc /\ state[idx[p]] = "UNUSED" /\ chan' = [chan EXCEPT ![idx[p]] = 0]
        /\ UNCHANGED <<state, parent, np, widx>>
    BY <1>4 DEF AllocFails, At, Goto, FreeProc
  <2>1. InitLives'
    BY Zenon, <2>0
  <2>2. ASSUME NEW r \in Proc PROVE Stage(r)'
    BY <2>0
  <2>3. ForkOwnsSlot'
    BY <2>0
  <2> QED
    BY Zenon, <2>1, <2>2, <2>3 DEF StageInv
<1>5. ASSUME NEW c \in CPU, NEW p \in Proc, ForkParent(c, p) PROVE StageInv'
  BY <1>5 DEF ForkParent, At, Goto, schedVars
<1>6. ASSUME NEW c \in CPU, NEW p \in Proc, ForkPublish(c, p) PROVE StageInv'
  <2>0. /\ On(c, p) /\ pc[p] = "publish" /\ np[p] \in Proc /\ state[np[p]] = "USED"
        /\ pc' = [pc EXCEPT ![p] = "user", ![np[p]] = "user"]
        /\ state' = [state EXCEPT ![np[p]] = "RUNNABLE"]
        /\ np' = [np EXCEPT ![p] = NoProc]
        /\ UNCHANGED <<chan, parent, widx, idx, havekids>>
    BY Zenon, <1>6 DEF ForkPublish, At
  <2>1. InitLives'
    BY Zenon, <2>0
  <2>2. ASSUME NEW r \in Proc PROVE Stage(r)'
    BY <2>0
  <2>3. ForkOwnsSlot'
    BY <2>0
  <2> QED
    BY Zenon, <2>1, <2>2, <2>3 DEF StageInv
<1>7. ASSUME NEW c \in CPU, NEW p \in Proc, Exit(c, p) PROVE StageInv'
  <2>0. /\ On(c, p) /\ pc[p] = "user" /\ p # InitProc /\ pc' = [pc EXCEPT ![p] = "exit"]
        /\ UNCHANGED <<state, chan, parent, np, widx>>
    BY Zenon, <1>7 DEF Exit, At, Goto, schedVars
  <2>1. InitLives'
    BY Zenon, <2>0
  <2>2. ASSUME NEW r \in Proc PROVE Stage(r)'
    BY Zenon, <2>0
  <2>3. ForkOwnsSlot'
    BY <2>0
  <2> QED
    BY Zenon, <2>1, <2>2, <2>3 DEF StageInv
<1>8. ASSUME NEW c \in CPU, NEW p \in Proc, ExitLock(c, p) PROVE StageInv'
  BY <1>8 DEF ExitLock, At, Goto, schedVars
<1>9. ASSUME NEW c \in CPU, NEW p \in Proc, Reparent(c, p) PROVE StageInv'
  <2>1. InitLives'
    BY <1>9, ReparentDoes
  <2>2. ASSUME NEW r \in Proc PROVE Stage(r)'
    BY <1>9, ReparentDoes
  <2>3. ForkOwnsSlot'
    BY <1>9, ReparentDoes
  <2> QED
    BY Zenon, <2>1, <2>2, <2>3 DEF StageInv
<1>10. ASSUME NEW c \in CPU, NEW p \in Proc, Wakeup(c, p) PROVE StageInv'
  BY <1>10 DEF Wakeup, WakeOne, WakeChan
<1>11. ASSUME NEW c \in CPU, NEW p \in Proc, WakeInitDone(c, p) PROVE StageInv'
  BY <1>11 DEF WakeInitDone, At, Goto, schedVars
<1>12. ASSUME NEW c \in CPU, NEW p \in Proc, ExitZombie(c, p) PROVE StageInv'
  <2>1. InitLives'
    BY Zenon, <1>12 DEF ExitZombie, GiveUp, Goto
  <2>2. ASSUME NEW r \in Proc PROVE Stage(r)'
    BY <1>12 DEF ExitZombie, GiveUp, Goto
  <2>3. ForkOwnsSlot'
    BY <1>12 DEF ExitZombie, GiveUp, Goto
  <2> QED
    BY Zenon, <2>1, <2>2, <2>3 DEF StageInv
<1>13. ASSUME NEW c \in CPU, NEW p \in Proc, Wait(c, p) PROVE StageInv'
  <2>0. /\ On(c, p) /\ pc[p] = "user" /\ pc' = [pc EXCEPT ![p] = "wait"]
        /\ UNCHANGED <<state, chan, parent, np, widx>>
    BY Zenon, <1>13 DEF Wait, Syscall, At, Goto, schedVars
  <2>1. InitLives'
    BY Zenon, <2>0
  <2>2. ASSUME NEW r \in Proc PROVE Stage(r)'
    BY Zenon, <2>0
  <2>3. ForkOwnsSlot'
    BY <2>0
  <2> QED
    BY Zenon, <2>1, <2>2, <2>3 DEF StageInv
<1>14. ASSUME NEW c \in CPU, NEW p \in Proc, WaitLock(c, p) PROVE StageInv'
  BY <1>14 DEF WaitLock, At, Goto, schedVars
<1>15. ASSUME NEW c \in CPU, NEW p \in Proc, ScanChild(c, p) PROVE StageInv'
  BY <1>15 DEF ScanChild, At, First, Ahead, schedVars
<1>16. ASSUME NEW c \in CPU, NEW p \in Proc, Reap(c, p) PROVE StageInv'
  <2>0. PICK q \in Proc : parent[q] = p /\ state[q] = "ZOMBIE" /\ plock[q] = NoCpu /\ FreeProc(q)
    BY Zenon, <1>16 DEF Reap, First, Ahead, Children
  <2>1. On(c, p) /\ pc[p] = "scan" /\ pc' = [pc EXCEPT ![p] = "user"] /\ UNCHANGED <<np, widx>>
    BY Zenon, <1>16 DEF Reap, At, WaitReturn, Goto
  <2>2. InitLives'
    BY Zenon, <2>0, <2>1 DEF FreeProc
  <2>3. ASSUME NEW r \in Proc PROVE Stage(r)'
    BY <2>0, <2>1 DEF FreeProc
  <2>4. ForkOwnsSlot'
    BY <2>0, <2>1 DEF FreeProc
  <2> QED
    BY Zenon, <2>2, <2>3, <2>4 DEF StageInv
<1>17. ASSUME NEW c \in CPU, NEW p \in Proc, ReapFails(c, p) PROVE StageInv'
  BY <1>17 DEF ReapFails, At, First, Ahead, WaitReturn, Goto, schedVars
<1>18. ASSUME NEW c \in CPU, NEW p \in Proc, ScanDone(c, p) PROVE StageInv'
  <2>1. CASE ~havekids[p] \/ killed[p]
    BY <1>18, <2>1, SMTT(30) DEF ScanDone, At, Ahead, WaitReturn, Goto, schedVars
  <2>2. CASE ~(~havekids[p] \/ killed[p])
    BY <1>18, <2>2, SMTT(30) DEF ScanDone, At, Ahead, WaitReturn, Goto, schedVars
  <2> QED
    BY Zenon, <2>1, <2>2
<1>19. ASSUME NEW c \in CPU, NEW p \in Proc, WaitSleep(c, p) PROVE StageInv'
  <2>0. /\ On(c, p) /\ pc[p] = "wsleep" /\ pc' = [pc EXCEPT ![p] = "wait"]
        /\ state' = [state EXCEPT ![p] = "SLEEPING"] /\ chan' = [chan EXCEPT ![p] = p]
        /\ UNCHANGED <<parent, np, widx>>
    BY Zenon, <1>19 DEF WaitSleep, GiveUp, Goto
  <2>1. InitLives'
    BY Zenon, <2>0
  <2>2. ASSUME NEW r \in Proc PROVE Stage(r)'
    BY ZenonT(60), <2>0
  <2>3. ForkOwnsSlot'
    BY <2>0
  <2> QED
    BY Zenon, <2>1, <2>2, <2>3 DEF StageInv
<1>20. ASSUME NEW c \in CPU, NEW p \in Proc, KillZero(c, p) PROVE StageInv'
  BY <1>20 DEF KillZero, Syscall, At, KillOne
<1>21. ASSUME NEW c \in CPU, NEW p \in Proc, Preempt(c, p) PROVE StageInv'
  BY <1>21 DEF Preempt, Yield, GiveUp, procVars
<1>22. ASSUME NEW c \in CPU, NEW p \in Proc, Schedule(c, p) PROVE StageInv'
  <2>1. InitLives'
    BY Zenon, <1>22 DEF Schedule, SwtchTo, procVars
  <2>2. ASSUME NEW r \in Proc PROVE Stage(r)'
    BY Zenon, <1>22 DEF Schedule, SwtchTo, procVars
  <2>3. ForkOwnsSlot'
    BY <1>22 DEF Schedule, SwtchTo, procVars
  <2> QED
    BY Zenon, <2>1, <2>2, <2>3 DEF StageInv
<1>23. ASSUME NEW c \in CPU, NEW p \in Proc, NEW q \in Proc, Kill(c, p, q) PROVE StageInv'
  BY <1>23 DEF Kill, Syscall, At, KillOne
<1>24. ASSUME NEW c \in CPU, Deschedule(c) PROVE StageInv'
  BY Zenon, <1>24 DEF Deschedule, SwtchBack, procVars
<1>25. CASE UNCHANGED vars
  BY Zenon, <1>25 DEF vars
<1> QED
  BY Zenon, <1>1, <1>2, <1>3, <1>4, <1>5, <1>6, <1>7, <1>8, <1>9, <1>10, <1>11, <1>12, <1>13, <1>14, <1>15, <1>16, <1>17, <1>18, <1>19, <1>20, <1>21, <1>22, <1>23, <1>24, <1>25
     DEF Next, KernelStep, Call

(* wait_lock has one holder. *)
LEMMA OneHolder ==
  ASSUME TypeOK, CpuInv
  PROVE  \A p, e \in Proc : pc[p] \in HoldsWait =>
           wlock # NoCpu /\ state[p] = "RUNNING" /\ (pc[e] \in HoldsWait => e = p)
BY NoCpuAssumption DEF CpuInv, On

(* reparent() leaves no child behind. *)
LEMMA ParentStep == TypeOK /\ CpuInv /\ StageInv /\ ParentInv /\ [Next]_vars => ParentInv'
<1> SUFFICES ASSUME TypeOK, CpuInv, StageInv, ParentInv, [Next]_vars PROVE ParentInv'
  BY Zenon
<1>0. InitProc \in Proc /\ NoProc \notin Proc
  BY NPROCAssumption DEF Proc, InitProc, NoProc
<1>a. \A p, e \in Proc : pc[p] \in HoldsWait =>
        wlock # NoCpu /\ state[p] = "RUNNING" /\ (pc[e] \in HoldsWait => e = p)
  BY Zenon, OneHolder
<1> USE <1>0, <1>a DEF HoldsWait, TypeOK, SchedTypeOK, On, StageInv, InitLives, Stage, ForkOwnsSlot,
        ParentInv, NoOrphans, FreeAlone, NoneLeft, Children
<1>1. ASSUME NEW c \in CPU, NEW p \in Proc, Fork(c, p) PROVE ParentInv'
  BY <1>1 DEF Fork, Syscall, At, Goto, schedVars
<1>2. ASSUME NEW c \in CPU, NEW p \in Proc, AllocNext(c, p) PROVE ParentInv'
  <2>1. CASE idx[p] \in Proc
    BY <1>2, <2>1, SMTT(30) DEF AllocNext, At, Goto, schedVars
  <2>2. CASE ~(idx[p] \in Proc)
    BY <1>2, <2>2, SMTT(30) DEF AllocNext, At, Goto, schedVars
  <2> QED
    BY Zenon, <2>1, <2>2
<1>3. ASSUME NEW c \in CPU, NEW p \in Proc, AllocFound(c, p) PROVE ParentInv'
  BY <1>3 DEF AllocFound, At, Goto
<1>4. ASSUME NEW c \in CPU, NEW p \in Proc, AllocFails(c, p) PROVE ParentInv'
  BY <1>4 DEF AllocFails, At, Goto, FreeProc
<1>5. ASSUME NEW c \in CPU, NEW p \in Proc, ForkParent(c, p) PROVE ParentInv'
  BY <1>5 DEF ForkParent, At, Goto, schedVars
<1>6. ASSUME NEW c \in CPU, NEW p \in Proc, ForkPublish(c, p) PROVE ParentInv'
  <2>0. /\ On(c, p) /\ pc[p] = "publish" /\ np[p] \in Proc /\ state[np[p]] = "USED"
        /\ pc' = [pc EXCEPT ![p] = "user", ![np[p]] = "user"]
        /\ state' = [state EXCEPT ![np[p]] = "RUNNABLE"]
        /\ np' = [np EXCEPT ![p] = NoProc]
        /\ UNCHANGED <<chan, parent, widx, idx, havekids>>
    BY Zenon, <1>6 DEF ForkPublish, At
  <2>1. NoOrphans'
    BY <2>0
  <2>2. FreeAlone'
    BY Zenon, <2>0
  <2>3. NoneLeft'
    BY <2>0
  <2> QED
    BY Zenon, <2>1, <2>2, <2>3 DEF ParentInv
<1>7. ASSUME NEW c \in CPU, NEW p \in Proc, Exit(c, p) PROVE ParentInv'
  BY <1>7 DEF Exit, At, Goto, schedVars
<1>8. ASSUME NEW c \in CPU, NEW p \in Proc, ExitLock(c, p) PROVE ParentInv'
  BY ZenonT(60), <1>8 DEF ExitLock, At, Goto, schedVars
<1>9. ASSUME NEW c \in CPU, NEW p \in Proc, Reparent(c, p) PROVE ParentInv'
  <2>1. NoOrphans'
    BY <1>9, ReparentDoes
  <2>2. FreeAlone'
    BY <1>9, ReparentDoes
  <2>3. NoneLeft'
    BY <1>9, ReparentDoes
  <2> QED
    BY Zenon, <2>1, <2>2, <2>3 DEF ParentInv
<1>10. ASSUME NEW c \in CPU, NEW p \in Proc, Wakeup(c, p) PROVE ParentInv'
  BY <1>10 DEF Wakeup, WakeOne, WakeChan
<1>11. ASSUME NEW c \in CPU, NEW p \in Proc, WakeInitDone(c, p) PROVE ParentInv'
  BY <1>11 DEF WakeInitDone, At, Goto, schedVars
<1>12. ASSUME NEW c \in CPU, NEW p \in Proc, ExitZombie(c, p) PROVE ParentInv'
  <2>0. /\ On(c, p) /\ pc[p] = "wakepar" /\ widx[p] = NPROC + 1 /\ state' = [state EXCEPT ![p] = "ZOMBIE"]
        /\ pc' = [pc EXCEPT ![p] = "dead"] /\ widx' = [widx EXCEPT ![p] = 1]
        /\ UNCHANGED <<parent, idx, havekids>>
    BY Zenon, <1>12 DEF ExitZombie, GiveUp, Goto
  <2>1. NoOrphans'
    BY <2>0
  <2>2. FreeAlone'
    BY <2>0
  <2>3. NoneLeft'
    BY <2>0
  <2> QED
    BY Zenon, <2>1, <2>2, <2>3 DEF ParentInv
<1>13. ASSUME NEW c \in CPU, NEW p \in Proc, Wait(c, p) PROVE ParentInv'
  BY <1>13 DEF Wait, Syscall, At, Goto, schedVars
<1>14. ASSUME NEW c \in CPU, NEW p \in Proc, WaitLock(c, p) PROVE ParentInv'
  BY ZenonT(60), <1>14 DEF WaitLock, At, Goto, schedVars
<1>15. ASSUME NEW c \in CPU, NEW p \in Proc, ScanChild(c, p) PROVE ParentInv'
  BY <1>15 DEF ScanChild, At, First, Ahead, schedVars
<1>16. ASSUME NEW c \in CPU, NEW p \in Proc, Reap(c, p) PROVE ParentInv'
  BY <1>16 DEF Reap, At, First, Ahead, FreeProc, WaitReturn, Goto
<1>17. ASSUME NEW c \in CPU, NEW p \in Proc, ReapFails(c, p) PROVE ParentInv'
  BY <1>17 DEF ReapFails, At, First, Ahead, WaitReturn, Goto, schedVars
<1>18. ASSUME NEW c \in CPU, NEW p \in Proc, ScanDone(c, p) PROVE ParentInv'
  BY <1>18 DEF ScanDone, At, Ahead, WaitReturn, Goto, schedVars
<1>19. ASSUME NEW c \in CPU, NEW p \in Proc, WaitSleep(c, p) PROVE ParentInv'
  BY <1>19 DEF WaitSleep, GiveUp, Goto
<1>20. ASSUME NEW c \in CPU, NEW p \in Proc, KillZero(c, p) PROVE ParentInv'
  BY <1>20 DEF KillZero, Syscall, At, KillOne
<1>21. ASSUME NEW c \in CPU, NEW p \in Proc, Preempt(c, p) PROVE ParentInv'
  BY <1>21 DEF Preempt, Yield, GiveUp, procVars
<1>22. ASSUME NEW c \in CPU, NEW p \in Proc, Schedule(c, p) PROVE ParentInv'
  BY <1>22 DEF Schedule, SwtchTo, procVars
<1>23. ASSUME NEW c \in CPU, NEW p \in Proc, NEW q \in Proc, Kill(c, p, q) PROVE ParentInv'
  BY <1>23 DEF Kill, Syscall, At, KillOne
<1>24. ASSUME NEW c \in CPU, Deschedule(c) PROVE ParentInv'
  BY <1>24 DEF Deschedule, SwtchBack, procVars
<1>25. CASE UNCHANGED vars
  BY <1>25 DEF vars
<1> QED
  BY Zenon, <1>1, <1>2, <1>3, <1>4, <1>5, <1>6, <1>7, <1>8, <1>9, <1>10, <1>11, <1>12, <1>13, <1>14, <1>15, <1>16, <1>17, <1>18, <1>19, <1>20, <1>21, <1>22, <1>23, <1>24, <1>25
     DEF Next, KernelStep, Call

(***************************************************************************)
(* A step of the wait and wakeup machinery is quiet if nobody falls asleep *)
(* or becomes a ZOMBIE, scans and wakeup() loops do not move (they may     *)
(* end), and a slot gets a parent only if it had none.                     *)
(***************************************************************************)
Quiet ==
  \A r \in Proc :
    /\ state'[r] \in {"SLEEPING", "ZOMBIE"} => state'[r] = state[r]
    /\ pc'[r] \in {"scan", "wsleep", "wakepar"} => pc'[r] = pc[r]
    /\ pc[r] = "wakeinit" => pc'[r] = pc[r]
    /\ pc'[r] = "scan" => idx'[r] = idx[r] /\ havekids'[r] = havekids[r]
    /\ widx'[r] = widx[r]
    /\ parent'[r] # parent[r] => parent[r] = NoProc /\ state[r] # "ZOMBIE" /\ pc[r] # "wakepar"

LEMMA QuietStep ==
  ASSUME WakeInv, Quiet
  PROVE  WakeInv'
<1>0. NoProc \notin Proc
  BY DEF NoProc, Proc
<1>1. SeesZombies'
  <2> SUFFICES ASSUME NEW p \in Proc, NEW q \in Proc, parent'[q] = p, state'[q] = "ZOMBIE"
               PROVE  /\ pc'[p] # "wsleep"
                      /\ pc'[p] = "scan" => idx'[p] <= q
                      /\ state'[p] = "SLEEPING" =>
                           p = InitProc /\ \E e \in Proc : pc'[e] = "wakeinit" /\ widx'[e] = 1
    BY Zenon DEF SeesZombies
  <2>1. state[q] = "ZOMBIE" /\ parent[q] = p
    BY Zenon DEF Quiet
  <2>2. /\ pc[p] # "wsleep"
        /\ pc[p] = "scan" => idx[p] <= q
        /\ state[p] = "SLEEPING" =>
             p = InitProc /\ \E e \in Proc : pc[e] = "wakeinit" /\ widx[e] = 1
    BY Zenon, <2>1 DEF WakeInv, SeesZombies
  <2> QED
    BY <2>2 DEF Quiet
<1>2. HasKids'
  <2> SUFFICES ASSUME NEW p \in Proc,
                      state'[p] = "SLEEPING" \/ pc'[p] = "wsleep" \/ (pc'[p] = "scan" /\ havekids'[p])
               PROVE  \E q \in Proc : parent'[q] = p
    BY Zenon DEF HasKids, Children
  <2>1. PICK q \in Proc : parent[q] = p
    BY Zenon DEF WakeInv, HasKids, Quiet, Children
  <2> QED
    BY Zenon, <1>0, <2>1 DEF Quiet
<1>3. WokeParent'
  <2> SUFFICES ASSUME NEW e \in Proc, pc'[e] = "wakepar", parent'[e] \in Proc, parent'[e] < widx'[e]
               PROVE  state'[parent'[e]] # "SLEEPING"
    BY Zenon DEF WokeParent
  <2>1. pc[e] = "wakepar" /\ parent'[e] = parent[e] /\ widx'[e] = widx[e]
    BY Zenon DEF Quiet
  <2>2. state[parent[e]] # "SLEEPING"
    BY Zenon, <2>1 DEF WakeInv, WokeParent
  <2> QED
    BY Zenon, <2>1, <2>2 DEF Quiet
<1> QED
  BY Zenon, <1>1, <1>2, <1>3 DEF WakeInv

(* Neither a scan nor a wakeup() misses what it is for. *)
LEMMA WakeStep == TypeOK /\ CpuInv /\ StageInv /\ ParentInv /\ WakeInv /\ [Next]_vars => WakeInv'
<1> SUFFICES ASSUME TypeOK, CpuInv, StageInv, ParentInv, WakeInv, [Next]_vars PROVE WakeInv'
  BY Zenon
<1>0. InitProc \in Proc /\ NoProc \notin Proc
  BY NPROCAssumption DEF Proc, InitProc, NoProc
<1>a. \A p, e \in Proc : pc[p] \in HoldsWait =>
        wlock # NoCpu /\ state[p] = "RUNNING" /\ (pc[e] \in HoldsWait => e = p)
  BY Zenon, OneHolder
<1>b. \A k \in Proc : k \in Nat /\ 1 <= k /\ k < NPROC + 1
  BY NPROCAssumption DEF Proc
<1>c. \A k \in Slots : k \in Nat
  BY DEF Slots
<1>d. /\ pc[InitProc] \notin {"reparent", "wakeinit", "wakepar"}
      /\ \A r \in Proc : /\ state[r] \in {"UNUSED", "USED"} => pc[r] \in {"user", "dead"}
                         /\ state[r] = "SLEEPING" => pc[r] = "wait" /\ chan[r] = r
                         /\ widx[r] # 1 => pc[r] \in {"wakeinit", "wakepar"}
                         /\ pc[r] \in {"forked", "publish"} => np[r] \in Proc /\ state[np[r]] = "USED"
                         /\ pc[r] = "forked" => parent[np[r]] = NoProc
                         /\ state[r] = "UNUSED" => parent[r] = NoProc
  BY Zenon, <1>0 DEF TypeOK, StageInv, InitLives, Stage, ForkOwnsSlot, ParentInv, FreeAlone
<1> USE <1>0, <1>d DEF TypeOK, SchedTypeOK, On, Quiet
<1>1. ASSUME NEW c \in CPU, NEW p \in Proc, Fork(c, p) PROVE WakeInv'
  <2>1. Quiet
    BY Zenon, <1>1 DEF Fork, Syscall, At, Goto, schedVars
  <2> QED
    BY Zenon, <2>1, QuietStep
<1>2. ASSUME NEW c \in CPU, NEW p \in Proc, AllocNext(c, p) PROVE WakeInv'
  <2>1. CASE idx[p] \in Proc
    <3>1. Quiet
      BY <1>2, <2>1 DEF AllocNext, At, schedVars
    <3> QED
      BY Zenon, <3>1, QuietStep
  <2>2. CASE idx[p] \notin Proc
    <3>1. Quiet
      BY <1>2, <2>2 DEF AllocNext, At, Goto, schedVars
    <3> QED
      BY Zenon, <3>1, QuietStep
  <2> QED
    BY Zenon, <2>1, <2>2
<1>3. ASSUME NEW c \in CPU, NEW p \in Proc, AllocFound(c, p) PROVE WakeInv'
  <2>1. Quiet
    BY <1>3 DEF AllocFound, At, Goto
  <2> QED
    BY Zenon, <2>1, QuietStep
<1>4. ASSUME NEW c \in CPU, NEW p \in Proc, AllocFails(c, p) PROVE WakeInv'
  <2>1. Quiet
    BY <1>4 DEF AllocFails, At, Goto, FreeProc
  <2> QED
    BY Zenon, <2>1, QuietStep
<1>5. ASSUME NEW c \in CPU, NEW p \in Proc, ForkParent(c, p) PROVE WakeInv'
  <2>1. Quiet
    BY <1>5 DEF ForkParent, At, Goto, schedVars
  <2> QED
    BY Zenon, <2>1, QuietStep
<1>6. ASSUME NEW c \in CPU, NEW p \in Proc, ForkPublish(c, p) PROVE WakeInv'
  <2>1. Quiet
    BY <1>6 DEF ForkPublish, At
  <2> QED
    BY Zenon, <2>1, QuietStep
<1>7. ASSUME NEW c \in CPU, NEW p \in Proc, Exit(c, p) PROVE WakeInv'
  <2>1. Quiet
    BY Zenon, <1>7 DEF Exit, At, Goto, schedVars
  <2> QED
    BY Zenon, <2>1, QuietStep
<1>8. ASSUME NEW c \in CPU, NEW p \in Proc, ExitLock(c, p) PROVE WakeInv'
  <2>1. Quiet
    BY Zenon, <1>8 DEF ExitLock, At, Goto, schedVars
  <2> QED
    BY Zenon, <2>1, QuietStep
<1>13. ASSUME NEW c \in CPU, NEW p \in Proc, Wait(c, p) PROVE WakeInv'
  <2>1. Quiet
    BY Zenon, <1>13 DEF Wait, Syscall, At, Goto, schedVars
  <2> QED
    BY Zenon, <2>1, QuietStep
<1>17. ASSUME NEW c \in CPU, NEW p \in Proc, ReapFails(c, p) PROVE WakeInv'
  <2>1. Quiet
    BY <1>17 DEF ReapFails, At, WaitReturn, Goto, schedVars
  <2> QED
    BY Zenon, <2>1, QuietStep
<1>20. ASSUME NEW c \in CPU, NEW p \in Proc, KillZero(c, p) PROVE WakeInv'
  <2>1. Quiet
    BY Zenon, <1>20 DEF KillZero, Syscall, At, KillOne
  <2> QED
    BY Zenon, <2>1, QuietStep
<1>21. ASSUME NEW c \in CPU, NEW p \in Proc, Preempt(c, p) PROVE WakeInv'
  <2>1. Quiet
    BY Zenon, <1>21 DEF Preempt, Yield, GiveUp, procVars
  <2> QED
    BY Zenon, <2>1, QuietStep
<1>22. ASSUME NEW c \in CPU, NEW p \in Proc, Schedule(c, p) PROVE WakeInv'
  <2>1. Quiet
    BY <1>22 DEF Schedule, SwtchTo, procVars
  <2> QED
    BY Zenon, <2>1, QuietStep
<1>23. ASSUME NEW c \in CPU, NEW p \in Proc, NEW q \in Proc, Kill(c, p, q) PROVE WakeInv'
  <2>1. Quiet
    BY Zenon, <1>23 DEF Kill, Syscall, At, KillOne
  <2> QED
    BY Zenon, <2>1, QuietStep
<1>24. ASSUME NEW c \in CPU, Deschedule(c) PROVE WakeInv'
  BY Zenon, <1>24, QuietStep DEF Deschedule, SwtchBack, procVars
<1>25. CASE UNCHANGED vars
  BY Zenon, <1>25, QuietStep DEF vars
<1>e. /\ DOMAIN state = Proc /\ DOMAIN pc = Proc /\ DOMAIN parent = Proc
      /\ DOMAIN idx = Proc /\ DOMAIN widx = Proc /\ DOMAIN havekids = Proc
  BY Zenon
<1>f. \A r \in Proc : idx[r] \in Nat /\ widx[r] \in Nat
  BY Zenon, <1>c
<1> HIDE <1>d DEF TypeOK, SchedTypeOK, Quiet
<1> USE <1>a, <1>e DEF HoldsWait, Children, WakeInv, SeesZombies, HasKids, WokeParent
<1>9. ASSUME NEW c \in CPU, NEW p \in Proc, Reparent(c, p) PROVE WakeInv'
  <2>1. SeesZombies'
    BY <1>9, <1>d, ReparentDoes
  <2>2. HasKids'
    BY <1>9, ReparentDoes
  <2>3. WokeParent'
    <3>1. widx[p] = 1 /\ \A e \in Proc : pc'[e] = "wakepar" => e = p \/ pc[e] = "wakepar"
      BY <1>9, <1>d, ReparentDoes
    <3>2. \A e \in Proc : e # p => pc'[e] # "wakepar"
      BY <1>9, <3>1, ReparentDoes
    <3>3. widx' = widx
      BY Zenon, <1>9, ReparentDoes
    <3> SUFFICES ASSUME NEW e \in Proc, pc'[e] = "wakepar", parent'[e] \in Proc
                 PROVE  ~(parent'[e] < widx'[e])
      BY Zenon DEF WokeParent
    <3>4. e = p /\ widx'[e] = 1
      BY Zenon, <3>1, <3>2, <3>3
    <3>5. parent'[e] \in Nat /\ 1 <= parent'[e]
      BY Zenon, <1>b
    <3> HIDE DEF TypeOK, StageInv, ParentInv, WakeInv
    <3> QED
      BY <3>4, <3>5
  <2> QED
    BY Zenon, <2>1, <2>2, <2>3 DEF WakeInv
<1>10. ASSUME NEW c \in CPU, NEW p \in Proc, Wakeup(c, p) PROVE WakeInv'
  <2>0. /\ pc[p] \in {"wakeinit", "wakepar"} /\ widx[p] \in Proc
        /\ widx' = [widx EXCEPT ![p] = widx[p] + 1]
        /\ UNCHANGED <<pc, parent, idx, havekids>>
    BY Zenon, <1>10 DEF Wakeup
  <2>1. \A r \in Proc : state'[r] = state[r] \/ (state[r] = "SLEEPING" /\ state'[r] = "RUNNABLE")
    BY <1>10 DEF Wakeup, WakeOne
  <2>2. /\ pc[p] = "wakeinit" /\ widx[p] = InitProc => state'[InitProc] # "SLEEPING"
        /\ pc[p] = "wakepar" /\ widx[p] = parent[p] => state'[parent[p]] # "SLEEPING"
    BY <1>10, <1>d, <2>0 DEF Wakeup, WakeOne, WakeChan
  <2>3. SeesZombies'
    <3> SUFFICES ASSUME NEW r \in Proc, NEW q \in Proc, parent[q] = r, state[q] = "ZOMBIE"
                 PROVE  /\ pc[r] # "wsleep"
                        /\ pc[r] = "scan" => idx[r] <= q
                        /\ state'[r] = "SLEEPING" =>
                             r = InitProc /\ \E e \in Proc : pc[e] = "wakeinit" /\ widx'[e] = 1
      BY <2>0, <2>1 DEF SeesZombies
    <3>1. ASSUME state'[r] = "SLEEPING"
          PROVE  r = InitProc /\ \E e \in Proc : pc[e] = "wakeinit" /\ widx'[e] = 1
      <4>1. state[r] = "SLEEPING"
        BY Zenon, <2>1, <3>1
      <4>2. r = InitProc /\ \E e \in Proc : pc[e] = "wakeinit" /\ widx[e] = 1
        BY <4>1 DEF SeesZombies
      <4>3. pc[p] = "wakeinit" => widx[p] # 1
        BY Zenon, <2>2, <3>1, <4>2 DEF InitProc
      <4> QED
        BY <2>0, <4>2, <4>3
    <3> QED
      BY <3>1 DEF SeesZombies
  <2>4. HasKids'
    BY <2>0, <2>1
  <2>5. WokeParent'
    <3> SUFFICES ASSUME NEW e \in Proc, pc[e] = "wakepar", parent[e] \in Proc, parent[e] < widx'[e]
                 PROVE  state'[parent[e]] # "SLEEPING"
      BY Zenon, <2>0 DEF WokeParent
    <3>1. CASE parent[e] < widx[e]
      <4>1. state[parent[e]] # "SLEEPING"
        BY Zenon, <3>1 DEF WokeParent
      <4> QED
        BY Zenon, <2>1, <4>1
    <3>2. CASE ~(parent[e] < widx[e])
      <4>1. e = p /\ widx'[p] = widx[p] + 1
        BY <2>0, <3>2
      <4>2. parent[p] = widx[p]
        BY <2>0, <3>2, <4>1, <1>b, <1>c
      <4> QED
        BY Zenon, <2>2, <4>1, <4>2
    <3> QED
      BY Zenon, <3>1, <3>2
  <2> QED
    BY Zenon, <2>3, <2>4, <2>5 DEF WakeInv
<1>11. ASSUME NEW c \in CPU, NEW p \in Proc, WakeInitDone(c, p) PROVE WakeInv'
  <2>0. /\ pc[p] = "wakeinit" /\ widx[p] # 1
        /\ pc' = [pc EXCEPT ![p] = "reparent"] /\ widx' = [widx EXCEPT ![p] = 1]
        /\ UNCHANGED <<state, parent, idx, havekids>>
    BY <1>11, NPROCAssumption DEF WakeInitDone, At, Goto, schedVars
  <2>1. SeesZombies'
    BY <2>0
  <2>2. HasKids'
    BY <2>0
  <2>3. WokeParent'
    BY <2>0
  <2> QED
    BY Zenon, <2>1, <2>2, <2>3 DEF WakeInv
<1>12. ASSUME NEW c \in CPU, NEW p \in Proc, ExitZombie(c, p) PROVE WakeInv'
  <2>0. /\ On(c, p) /\ pc[p] = "wakepar" /\ widx[p] = NPROC + 1 /\ state' = [state EXCEPT ![p] = "ZOMBIE"]
        /\ pc' = [pc EXCEPT ![p] = "dead"] /\ widx' = [widx EXCEPT ![p] = 1]
        /\ UNCHANGED <<parent, idx, havekids>>
    BY Zenon, <1>12 DEF ExitZombie, GiveUp, Goto
  <2>1. SeesZombies'
    <3>1. \A r \in Proc : r # p => pc[r] \notin {"wsleep", "scan"}
      BY <2>0
    <3>2. \A r \in Proc : parent[p] = r => state[r] # "SLEEPING"
      BY <2>0, <1>b DEF WokeParent
    <3>3. \A e \in Proc : pc[e] # "wakeinit"
      BY <2>0
    <3>4. \A r, q \in Proc : parent[q] = r /\ state[q] = "ZOMBIE" => state[r] # "SLEEPING"
      BY <3>3 DEF SeesZombies
    <3> QED
      BY <2>0, <3>1, <3>2, <3>4 DEF SeesZombies
  <2>2. HasKids'
    BY <2>0
  <2>3. WokeParent'
    BY <2>0
  <2> QED
    BY Zenon, <2>1, <2>2, <2>3 DEF WakeInv
<1>14. ASSUME NEW c \in CPU, NEW p \in Proc, WaitLock(c, p) PROVE WakeInv'
  <2>0. /\ On(c, p) /\ pc[p] = "wait" /\ pc' = [pc EXCEPT ![p] = "scan"]
        /\ idx' = [idx EXCEPT ![p] = 1] /\ havekids' = [havekids EXCEPT ![p] = FALSE]
        /\ UNCHANGED <<state, parent, widx>>
    BY Zenon, <1>14 DEF WaitLock, At, Goto, schedVars
  <2>1. SeesZombies'
    <3>1. \A r \in Proc : idx'[p] <= r
      BY Zenon, <2>0, <1>b
    <3> QED
      BY <2>0, <3>1
  <2>2. HasKids'
    BY <2>0
  <2>3. WokeParent'
    BY <2>0
  <2> QED
    BY Zenon, <2>1, <2>2, <2>3 DEF WakeInv
<1>15. ASSUME NEW c \in CPU, NEW p \in Proc, ScanChild(c, p) PROVE WakeInv'
  <2>0. /\ On(c, p) /\ pc[p] = "scan" /\ havekids' = [havekids EXCEPT ![p] = TRUE]
        /\ UNCHANGED <<state, parent, widx, pc>>
    BY Zenon, <1>15 DEF ScanChild, At, schedVars
  <2>1. PICK q \in Proc : First(q, Ahead(p)) /\ state[q] # "ZOMBIE" /\ idx' = [idx EXCEPT ![p] = q + 1]
    BY Zenon, <1>15 DEF ScanChild
  <2>2. parent[q] = p /\ \A r \in Proc : parent[r] = p /\ idx[p] <= r => q <= r
    BY Zenon, <2>1 DEF First, Ahead
  <2>3. SeesZombies'
    <3>1. \A r \in Proc : parent[r] = p /\ state[r] = "ZOMBIE" => idx[p] <= r
      BY Zenon, <2>0 DEF SeesZombies
    <3>2. ASSUME NEW r \in Proc, parent[r] = p, state[r] = "ZOMBIE" PROVE q + 1 <= r
      <4>1. q <= r /\ q # r
        BY Zenon, <2>1, <2>2, <3>1, <3>2
      <4>2. q \in Nat /\ r \in Nat
        BY Zenon, <1>b
      <4> HIDE DEF TypeOK, StageInv, ParentInv, WakeInv
      <4> QED
        BY <4>1, <4>2
    <3>3. idx'[p] = q + 1 /\ \A r \in Proc : r # p => idx'[r] = idx[r]
      BY <2>1
    <3>4. \A r \in Proc : r # p => pc[r] # "scan"
      BY <2>0
    <3> QED
      BY <2>0, <3>2, <3>3, <3>4
  <2>4. HasKids'
    BY <2>0, <2>2
  <2>5. WokeParent'
    BY <2>0
  <2> QED
    BY Zenon, <2>3, <2>4, <2>5 DEF WakeInv
<1>16. ASSUME NEW c \in CPU, NEW p \in Proc, Reap(c, p) PROVE WakeInv'
  <2>0. PICK q \in Proc : parent[q] = p /\ state[q] = "ZOMBIE" /\ FreeProc(q)
    BY Zenon, <1>16 DEF Reap, First, Ahead
  <2>1. /\ On(c, p) /\ pc[p] = "scan" /\ pc' = [pc EXCEPT ![p] = "user"]
        /\ idx' = [idx EXCEPT ![p] = 1] /\ havekids' = [havekids EXCEPT ![p] = FALSE]
        /\ UNCHANGED widx
    BY Zenon, <1>16 DEF Reap, At, WaitReturn, Goto
  <2>2. state' = [state EXCEPT ![q] = "UNUSED"] /\ parent' = [parent EXCEPT ![q] = NoProc]
    BY Zenon, <2>0 DEF FreeProc
  <2>3. SeesZombies'
    <3> SUFFICES ASSUME NEW r \in Proc, NEW k \in Proc, parent'[k] = r, state'[k] = "ZOMBIE"
                 PROVE  /\ pc'[r] # "wsleep"
                        /\ pc'[r] = "scan" => idx'[r] <= k
                        /\ state'[r] = "SLEEPING" =>
                             r = InitProc /\ \E e \in Proc : pc'[e] = "wakeinit" /\ widx'[e] = 1
      BY DEF SeesZombies
    <3>1. parent[k] = r /\ state[k] = "ZOMBIE"
      BY Zenon, <2>2
    <3>2. state'[r] = "SLEEPING" => state[r] = "SLEEPING"
      BY Zenon, <2>2
    <3>3. \A e \in Proc : pc[e] # "wakeinit"
      BY <2>1
    <3> QED
      BY <2>1, <3>1, <3>2, <3>3
  <2>4. HasKids'
    <3> SUFFICES ASSUME NEW r \in Proc,
                        state'[r] = "SLEEPING" \/ pc'[r] = "wsleep" \/ (pc'[r] = "scan" /\ havekids'[r])
                 PROVE  \E k \in Proc : parent'[k] = r
      BY DEF HasKids, Children
    <3>1. r # p /\ (state[r] = "SLEEPING" \/ pc[r] = "wsleep" \/ (pc[r] = "scan" /\ havekids[r]))
      BY <2>0, <2>1, <2>2
    <3>2. PICK k \in Proc : parent[k] = r
      BY <3>1
    <3> QED
      BY <2>0, <2>2, <3>1, <3>2
  <2>5. WokeParent'
    BY <2>0, <2>1, <2>2
  <2> QED
    BY Zenon, <2>3, <2>4, <2>5 DEF WakeInv
<1>18. ASSUME NEW c \in CPU, NEW p \in Proc, ScanDone(c, p) PROVE WakeInv'
  <2>a. On(c, p) /\ pc[p] = "scan" /\ Ahead(p) = {} /\ UNCHANGED <<state, parent, widx>>
    BY Zenon, <1>18 DEF ScanDone, At, schedVars
  <2>b. idx[p] \in Nat
    BY Zenon, <1>f
  <2>c. \A q \in Proc : parent[q] = p => q < idx[p]
    BY <2>a, <2>b, <1>b DEF Ahead
  <2>0. /\ On(c, p) /\ pc[p] = "scan" /\ \A q \in Proc : parent[q] = p => q < idx[p]
        /\ UNCHANGED <<state, parent, widx>>
    BY Zenon, <2>a, <2>c
  <2>1. CASE ~havekids[p] \/ killed[p]
    <3>1. WaitReturn(p)
      BY Zenon, <1>18, <2>1 DEF ScanDone
    <3> QED
      BY <2>0, <3>1 DEF WaitReturn, Goto
  <2>2. CASE havekids[p] /\ ~killed[p]
    <3>1. pc' = [pc EXCEPT ![p] = "wsleep"] /\ UNCHANGED <<idx, havekids>>
      BY Zenon, <1>18, <2>2 DEF ScanDone, Goto
    <3>2. SeesZombies'
      BY <2>0, <2>b, <3>1, <1>b
    <3>3. HasKids'
      BY <2>0, <2>2, <3>1
    <3>4. WokeParent'
      BY <2>0, <3>1
    <3> QED
      BY Zenon, <3>2, <3>3, <3>4 DEF WakeInv
  <2> QED
    BY Zenon, <2>1, <2>2
<1>19. ASSUME NEW c \in CPU, NEW p \in Proc, WaitSleep(c, p) PROVE WakeInv'
  BY <1>19 DEF WaitSleep, GiveUp, Goto
<1> HIDE DEF WakeInv
<1> QED
  BY Zenon, <1>1, <1>2, <1>3, <1>4, <1>5, <1>6, <1>7, <1>8, <1>9, <1>10, <1>11, <1>12, <1>13, <1>14, <1>15, <1>16, <1>17, <1>18, <1>19, <1>20, <1>21, <1>22, <1>23, <1>24, <1>25
     DEF Next, KernelStep, Call

(***************************************************************************)
(* ProcInv holds in every reachable state of fork(), exit(), wait() and    *)
(* kill(), whatever the number of processes and CPUs.                      *)
(***************************************************************************)
THEOREM ProcInvariant == Spec => []ProcInv
<1>1. Init => ProcInv
  BY NPROCAssumption, NoCpuAssumption
     DEF Init, Proc, NoProc, Slots, InitProc, TypeOK, SchedTypeOK, ProcState, On, ProcInv, CpuInv, OneCpuPerProc,
         NeverFreedWhileOnCpu, HoldsWait, StageInv, InitLives, Stage, ForkOwnsSlot, ParentInv, NoOrphans, FreeAlone, NoneLeft, Children, WakeInv, SeesZombies, HasKids, WokeParent
<1>2. ProcInv /\ [Next]_vars => ProcInv'
  BY Zenon, TypeStep, CpuStep, StageStep, ParentStep, WakeStep DEF ProcInv
<1> QED
  BY <1>1, <1>2, PTL DEF Spec

(***************************************************************************)
(* One owner per slot: no kernel stack is on two CPUs, wait() frees none   *)
(* that a CPU still uses, and two fork()s never fill the same slot.        *)
(***************************************************************************)
THEOREM SlotsOwned == Spec => []SlotOwned
<1>1. ProcInv => SlotOwned
  BY Zenon DEF ProcInv, CpuInv, StageInv, SlotOwned
<1> QED
  BY <1>1, ProcInvariant, PTL

(***************************************************************************)
(* reparent() and exit(): no process is the child of a dead or free one.   *)
(***************************************************************************)
THEOREM NobodyOrphaned == Spec => []NoOrphans
<1>1. ProcInv => NoOrphans
  BY Zenon DEF ProcInv, ParentInv
<1> QED
  BY <1>1, ProcInvariant, PTL

(***************************************************************************)
(* wait_lock does its work: with it free, nobody sleeps in wait() beside a *)
(* child that has exited, or without children.                             *)
(***************************************************************************)
THEOREM ExitNotLost == Spec => []NoLostExit
<1>1. ProcInv => NoLostExit
  <2> SUFFICES ASSUME ProcInv, wlock = NoCpu, NEW p \in Proc, state[p] = "SLEEPING"
               PROVE  Children(p) # {} /\ \A q \in Children(p) : state[q] # "ZOMBIE"
    BY Zenon DEF NoLostExit
  <2>1. \A e \in Proc : pc[e] # "wakeinit"
    BY NoCpuAssumption DEF ProcInv, CpuInv, HoldsWait
  <2> QED
    BY Zenon, <2>1 DEF ProcInv, WakeInv, SeesZombies, HasKids, Children
<1> QED
  BY <1>1, ProcInvariant, PTL
=============================================================================
