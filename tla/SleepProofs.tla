---------------------------- MODULE SleepProofs ----------------------------
(***************************************************************************)
(* Proofs about what is built on sleep() and wakeup(): the sleep-lock      *)
(* (SleepLock, with the scheduler of Sched), the clock (Ticks) and the     *)
(* input of the console (Console), for every number of processes and CPUs, *)
(* every width of the counters and every size of the input buffer.         *)
(***************************************************************************)
EXTENDS SleepLock, Ticks, Console, Modulo

(***************************************************************************)
(* The sleep-lock.  LockInv is the inductive invariant; TypeOK is used     *)
(* with it.                                                                *)
(***************************************************************************)

(***************************************************************************)
(* Every step of sleeplock.c and of the scheduler keeps the variables in   *)
(* their types; in particular wakeup() never runs past the table.          *)
(***************************************************************************)
THEOREM TypeCorrect == Spec => []TypeOK
<1> USE NPROCAssumption DEF Proc, NoProc, LockChan, TypeOK, SchedTypeOK, ProcState
<1>0. 1 \in 1..(NPROC + 1)
  BY SMT
<1>1. Init => TypeOK
  BY Zenon, <1>0 DEF Init
<1>2. TypeOK /\ [Next]_vars => TypeOK'
  <2> SUFFICES ASSUME TypeOK, [Next]_vars PROVE TypeOK'
    BY Zenon
  <2>1. ASSUME NEW c \in CPU, NEW p \in Proc, AcquireSleep(c, p) PROVE TypeOK'
    BY Zenon, <2>1 DEF AcquireSleep
  <2>2. ASSUME NEW c \in CPU, NEW p \in Proc, Sleep(c, p) PROVE TypeOK'
    BY Zenon, <2>2 DEF Sleep, GiveUp
  <2>3. ASSUME NEW c \in CPU, NEW p \in Proc, ReleaseSleep(c, p) PROVE TypeOK'
    BY Zenon, <1>0, <2>3 DEF ReleaseSleep, schedVars
  <2>4. ASSUME NEW c \in CPU, NEW p \in Proc, Wakeup(c, p) PROVE TypeOK'
    BY <2>4 DEF Wakeup, WakeOne
  <2>5. ASSUME NEW c \in CPU, NEW p \in Proc, ReleaseDone(c, p) PROVE TypeOK'
    BY <2>5 DEF ReleaseDone
  <2>6. ASSUME NEW c \in CPU, NEW p \in Proc, Preempt(c, p) PROVE TypeOK'
    BY Zenon, <2>6 DEF Preempt, Yield, GiveUp, lockVars
  <2>7. ASSUME NEW c \in CPU, NEW p \in Proc, Schedule(c, p) PROVE TypeOK'
    BY Zenon, <2>7 DEF Schedule, SwtchTo, lockVars
  <2>8. ASSUME NEW c \in CPU, NEW p \in Proc, NEW q \in Proc, Kill(c, p, q)
        PROVE  TypeOK'
    BY Zenon, <2>8 DEF Kill, KillOne, lockVars
  <2>9. ASSUME NEW c \in CPU, Deschedule(c) PROVE TypeOK'
    BY Zenon, <2>9 DEF Deschedule, SwtchBack, lockVars
  <2>10. CASE UNCHANGED vars
    BY Zenon, <2>10 DEF vars
  <2> QED
    BY Zenon, <2>1, <2>2, <2>3, <2>4, <2>5, <2>6, <2>7, <2>8, <2>9, <2>10 DEF Next, Step
<1> QED
  BY <1>1, <1>2, PTL DEF Spec

(***************************************************************************)
(* LockInv is inductive relative to TypeOK.                                *)
(***************************************************************************)
LEMMA LockInvInductive == TypeOK /\ LockInv /\ [Next]_vars => LockInv'
<1> SUFFICES ASSUME TypeOK, LockInv, [Next]_vars PROVE LockInv'
  BY Zenon
<1> USE NPROCAssumption, NoCpuAssumption
    DEF Proc, NoProc, LockChan, TypeOK, SchedTypeOK, ProcState, On, HoldingSleep,
        OneCpuPerProc, MutualExclusion, LockInv
<1>1. ASSUME NEW c \in CPU, NEW p \in Proc, AcquireSleep(c, p) PROVE LockInv'
  BY <1>1, SMTT(30) DEF AcquireSleep
<1>2. ASSUME NEW c \in CPU, NEW p \in Proc, Sleep(c, p) PROVE LockInv'
  BY <1>2 DEF Sleep, GiveUp
<1>3. ASSUME NEW c \in CPU, NEW p \in Proc, ReleaseSleep(c, p) PROVE LockInv'
  BY <1>3 DEF ReleaseSleep, schedVars
<1>4. ASSUME NEW c \in CPU, NEW p \in Proc, Wakeup(c, p) PROVE LockInv'
  BY <1>4, SMTT(30) DEF Wakeup, WakeOne
<1>5. ASSUME NEW c \in CPU, NEW p \in Proc, ReleaseDone(c, p) PROVE LockInv'
  BY <1>5 DEF ReleaseDone
<1>6. ASSUME NEW c \in CPU, NEW p \in Proc, Preempt(c, p) PROVE LockInv'
  BY <1>6 DEF Preempt, Yield, GiveUp, lockVars
<1>7. ASSUME NEW c \in CPU, NEW p \in Proc, Schedule(c, p) PROVE LockInv'
  <2>1. OneCpuPerProc' /\ \A d \in CPU : curr[d] # p
    BY <1>7 DEF Schedule, SwtchTo
  <2>2. UNCHANGED <<lk, locked, pid, pc, widx, plock>>
    BY Zenon, <1>7 DEF Schedule, SwtchTo, lockVars
  <2>3. /\ state[p] = "RUNNABLE" /\ state' = [state EXCEPT ![p] = "RUNNING"]
        /\ curr[c] = NoProc /\ curr' = [curr EXCEPT ![c] = p]
        /\ plock[p] = NoCpu /\ chan' = [chan EXCEPT ![p] = 0]
    BY Zenon, <1>7 DEF Schedule, SwtchTo
  <2>4. \A d \in CPU, q \in Proc : On(d, q) => On(d, q)'
    BY <2>3
  <2>5. \A d \in CPU, q \in Proc :
          plock'[q] = d <=> (curr'[d] = q /\ state'[q] # "RUNNING")
    BY <2>1, <2>2, <2>3
  <2> QED
    BY <2>1, <2>2, <2>3, <2>4, <2>5
<1>8. ASSUME NEW c \in CPU, NEW p \in Proc, NEW q \in Proc, Kill(c, p, q)
      PROVE  LockInv'
  BY <1>8, SMTT(30) DEF Kill, KillOne, lockVars
<1>9. ASSUME NEW c \in CPU, Deschedule(c) PROVE LockInv'
  BY <1>9 DEF Deschedule, SwtchBack, lockVars
<1>10. CASE UNCHANGED vars
  BY <1>10 DEF vars
<1> QED
  BY Zenon, <1>1, <1>2, <1>3, <1>4, <1>5, <1>6, <1>7, <1>8, <1>9, <1>10 DEF Next, Step

(***************************************************************************)
(* LockInv holds in every reachable state.                                 *)
(***************************************************************************)
THEOREM LockInvariant == Spec => []LockInv
<1>1. Init => LockInv
  BY NPROCAssumption, NoCpuAssumption
     DEF Init, LockInv, Proc, NoProc, On, HoldingSleep, OneCpuPerProc, MutualExclusion
<1> QED
  BY <1>1, TypeCorrect, LockInvInductive, PTL DEF Spec

(***************************************************************************)
(* No two CPUs ever run on the kernel stack of one process, although       *)
(* wakeup() and kill() may make it RUNNABLE while it leaves the CPU.       *)
(***************************************************************************)
THEOREM OneCpu == Spec => []OneCpuPerProc
<1>1. LockInv => OneCpuPerProc
  BY Zenon DEF LockInv
<1> QED
  BY <1>1, LockInvariant, PTL

(***************************************************************************)
(* acquiresleep()/releasesleep() exclude, and holdingsleep() tells the     *)
(* holder, with any number of contenders, preemptions and spurious wakeups.*)
(***************************************************************************)
THEOREM Exclusion == Spec => []MutualExclusion
<1>1. LockInv => MutualExclusion
  BY Zenon DEF LockInv
<1> QED
  BY <1>1, LockInvariant, PTL

(***************************************************************************)
(* sleep() and wakeup() lose no wakeup: nobody sleeps on a free lock once  *)
(* its releasesleep() has finished.                                        *)
(***************************************************************************)
THEOREM WakeupNotLost == Spec => []NoLostWakeup
<1>1. LockInv => NoLostWakeup
  BY Zenon, NoCpuAssumption DEF LockInv, NoLostWakeup
<1> QED
  BY <1>1, LockInvariant, PTL
-----------------------------------------------------------------------------
(***************************************************************************)
(* The clock and the console.                                              *)
(***************************************************************************)

(* The comparison of sys_sleep() is one of unsigned numbers. *)
LEMMA NapIs ==
  ASSUME NEW n \in Naps \cup {0}
  PROVE  /\ n \in Int /\ n < TUINT /\ (n + TUINT) % TUINT \in 0..(TUINT - 1)
         /\ n >= 0 => (n + TUINT) % TUINT = n
         /\ n # 0 => (n + TUINT) % TUINT # 0
<1> USE TicksAssumption
<1>0. n \in Int /\ -TUINT < n /\ n < TUINT
  OBVIOUS
<1>1. CASE n >= 0
  <2>1. n + TUINT \in Nat /\ TUINT <= n + TUINT /\ n + TUINT < 2 * TUINT
    BY <1>0, <1>1
  <2>2. (n + TUINT) % TUINT = n + TUINT - TUINT
    BY <2>1, ModOnce
  <2> QED
    BY <1>0, <1>1, <2>2
<1>2. CASE n < 0
  <2>1. n + TUINT \in 0..(TUINT - 1)
    BY <1>0, <1>2
  <2>2. (n + TUINT) % TUINT = n + TUINT
    BY Zenon, <2>1, ModSmall
  <2> QED
    BY <1>0, <1>2, <2>1, <2>2
<1> QED
  BY <1>0, <1>1, <1>2

(* A tick makes the time that has passed one longer, also where ticks wraps. *)
LEMMA TickDoes ==
  ASSUME NEW t \in 0..(TUINT - 1), NEW t0 \in 0..(TUINT - 1),
         ((t + TUINT - t0) % TUINT) + 1 < TUINT
  PROVE  (((t + 1) % TUINT) + TUINT - t0) % TUINT = ((t + TUINT - t0) % TUINT) + 1
<1> USE TicksAssumption
<1>0. (t + TUINT - t0) % TUINT = IF t0 <= t THEN t - t0 ELSE t + TUINT - t0
  BY Zenon, ModDistance
<1>1. CASE t = TUINT - 1
  <2>1. (t + 1) % TUINT = 0
    BY <1>1
  <2>2. (0 + TUINT - t0) % TUINT = IF t0 <= 0 THEN 0 - t0 ELSE 0 + TUINT - t0
    BY ModDistance, 0 \in 0..(TUINT - 1)
  <2> QED
    BY <1>0, <1>1, <2>1, <2>2
<1>2. CASE t # TUINT - 1
  <2>0. t + 1 \in 0..(TUINT - 1)
    BY <1>2
  <2>1. (t + 1) % TUINT = t + 1
    BY Zenon, <2>0, ModSmall
  <2>2. ((t + 1) + TUINT - t0) % TUINT = IF t0 <= t + 1 THEN t + 1 - t0 ELSE t + 1 + TUINT - t0
    BY <2>0, ModDistance
  <2> QED
    BY <1>0, <1>2, <2>1, <2>2
<1> QED
  BY Zenon, <1>1, <1>2

(***************************************************************************)
(* The inductive invariant of sys_sleep() and clockintr().                 *)
(***************************************************************************)
THEOREM NapInvariant == TkSpec => []NapInv
<1> USE TicksAssumption
<1>1. TkInit => NapInv
  <2> SUFFICES ASSUME TkInit PROVE NapInv
    BY Zenon
  <2>1. 0 \in 0..(TUINT - 1) /\ 0 \in 0..TUINT
    OBVIOUS
  <2> QED
    BY Zenon, <2>1 DEF TkInit, NapInv, NapExact, TkTypeOK, SleptEnough, NoTickMissed
<1>2. NapInv /\ [TkNext]_tkVars => NapInv'
  <2> SUFFICES ASSUME NapInv, [TkNext]_tkVars PROVE NapInv'
    BY Zenon
  <2> USE DEF NapInv, NapExact, TkTypeOK, SleptEnough, NoTickMissed
  <2>1. CASE ClockIntr
    <3>1. TickOne \in 0..(TUINT - 1)
      BY ModRange DEF TickOne
    <3>2. TkTypeOK' /\ SleptEnough' /\ NoTickMissed'
      BY <2>1, <3>1 DEF ClockIntr, WakeTicks
    <3>3. ASSUME NEW p \in Sleeper, tpc'[p] # "out", passed'[p] < TUINT PROVE Elapsed(p)' = passed'[p]
      <4>1. tpc[p] # "out" /\ passed[p] < TUINT /\ passed'[p] = passed[p] + 1
        BY <2>1, <3>3 DEF ClockIntr, WakeTicks
      <4>2. Elapsed(p)' = (TickOne + TUINT - ticks0[p]) % TUINT
        BY Zenon, <2>1 DEF ClockIntr, Elapsed
      <4>3. Elapsed(p) = passed[p] /\ ticks \in 0..(TUINT - 1) /\ ticks0[p] \in 0..(TUINT - 1)
        BY Zenon, <4>1
      <4>4. Elapsed(p)' = Elapsed(p) + 1
        BY ZenonT(60), <3>3, <4>1, <4>2, <4>3, TickDoes DEF Elapsed, TickOne
      <4> QED
        BY Zenon, <4>1, <4>3, <4>4
    <3> QED
      BY Zenon, <3>2, <3>3
  <2>2. ASSUME NEW p \in Sleeper, SleepTest(p) PROVE NapInv'
    <3>1. UNCHANGED <<ticks, ticks0, nap, tkilled, passed>>
      BY Zenon, <2>2 DEF SleepTest
    <3>2. \A q \in Sleeper : (Due(q)' <=> Due(q)) /\ Elapsed(q)' = Elapsed(q)
      BY Zenon, <3>1 DEF Due, Elapsed
    <3>3. ~(Due(p) /\ nap[p] >= 0 /\ passed[p] < nap[p])
      <4> SUFFICES ASSUME Due(p), nap[p] >= 0, passed[p] < nap[p] PROVE FALSE
        BY Zenon
      <4>1. nap[p] \in Int /\ nap[p] < TUINT /\ (nap[p] + TUINT) % TUINT = nap[p] /\ passed[p] \in Nat
        BY NapIs
      <4>2. Elapsed(p) = passed[p]
        BY <2>2, <4>1 DEF SleepTest
      <4> QED
        BY <4>1, <4>2 DEF Due
    <3>4. early' = FALSE
      BY Zenon, <2>2, <3>3 DEF SleepTest
    <3> QED
      BY Zenon, <2>2, <3>1, <3>2, <3>4 DEF SleepTest
  <2>3. ASSUME NEW p \in Sleeper, NEW n \in Naps, SysSleep(p, n) PROVE NapInv'
    <3>1. Elapsed(p)' = 0
      <4>1. Elapsed(p)' = (ticks + TUINT - ticks) % TUINT
        BY Zenon, <2>3 DEF SysSleep, Elapsed
      <4>2. (ticks + TUINT - ticks) % TUINT = 0
        BY ModDistance
      <4> QED
        BY Zenon, <4>1, <4>2
    <3>2. \A q \in Sleeper : q # p => (Due(q)' <=> Due(q)) /\ Elapsed(q)' = Elapsed(q)
      BY Zenon, <2>3 DEF SysSleep, Due, Elapsed
    <3>3. n # 0 => ~Due(p)'
      <4>1. nap'[p] = n
        BY Zenon, <2>3 DEF SysSleep
      <4>2. n # 0 => (n + TUINT) % TUINT # 0 /\ (n + TUINT) % TUINT \in 0..(TUINT - 1)
        BY Zenon, NapIs
      <4> QED
        BY <3>1, <4>1, <4>2 DEF Due
    <3>4. TkTypeOK' /\ SleptEnough'
      BY <2>3 DEF SysSleep
    <3>5. NoTickMissed'
      BY Zenon, <2>3, <3>2, <3>3 DEF SysSleep
    <3>6. ASSUME NEW q \in Sleeper, tpc'[q] # "out", passed'[q] < TUINT PROVE Elapsed(q)' = passed'[q]
      BY Zenon, <2>3, <3>1, <3>2, <3>6 DEF SysSleep
    <3> QED
      BY Zenon, <3>4, <3>5, <3>6
  <2>4. ASSUME NEW p \in Sleeper, KillSleeper(p) PROVE NapInv'
    BY Zenon, <2>4 DEF KillSleeper, Due, Elapsed
  <2>5. CASE UNCHANGED tkVars
    BY Zenon, <2>5 DEF tkVars, Due, Elapsed
  <2> QED
    BY Zenon, <2>1, <2>2, <2>3, <2>4, <2>5 DEF TkNext
<1> QED
  BY <1>1, <1>2, PTL DEF TkSpec

(***************************************************************************)
(* sleep(n) returns 0 after n ticks, neither sooner nor, without a         *)
(* kill(), later than the tick that makes it due.                          *)
(***************************************************************************)
THEOREM NapsAreExact == TkSpec => []NapExact
<1>1. NapInv => NapExact
  BY Zenon DEF NapInv
<1> QED
  BY <1>1, NapInvariant, PTL

-----------------------------------------------------------------------------
(* The sizes, without what ties one to the other. *)
LEMMA BufSizes ==
  /\ INPUT_BUF_SIZE \in Nat \ {0} /\ CUINT \in Nat \ {0} /\ INPUT_BUF_SIZE < CUINT /\ MaxRead \in Nat
<1>1. INPUT_BUF_SIZE \in Nat \ {0} /\ CUINT \in Nat /\ INPUT_BUF_SIZE < CUINT /\ MaxRead \in Nat
  BY Zenon, ConsoleAssumption
<1> QED
  BY <1>1

(* The uint arithmetic on cons.r, cons.w and cons.e. *)
LEMMA MinusIs ==
  ASSUME NEW a \in 0..(CUINT - 1), NEW b \in 0..(CUINT - 1)
  PROVE  Minus(a, b) = (IF b <= a THEN a - b ELSE a + CUINT - b) /\ Minus(a, b) \in 0..(CUINT - 1)
<1>1. Minus(a, b) = IF b <= a THEN a - b ELSE a + CUINT - b
  BY Zenon, BufSizes, ModDistance DEF Minus
<1> QED
  BY <1>1, BufSizes

LEMMA MinusNat ==
  ASSUME NEW a \in 0..(CUINT - 1), NEW b \in 0..(CUINT - 1)
  PROVE  Minus(a, b) \in Nat /\ (Minus(a, b) = 0 <=> a = b)
<1>1. Minus(a, b) = (IF b <= a THEN a - b ELSE a + CUINT - b)
  BY Zenon, MinusIs
<1> QED
  BY <1>1, BufSizes

LEMMA Plus1Is ==
  ASSUME NEW a \in 0..(CUINT - 1)
  PROVE  Plus1(a) = (IF a = CUINT - 1 THEN 0 ELSE a + 1) /\ Plus1(a) \in 0..(CUINT - 1)
<1>1. CASE a = CUINT - 1
  BY <1>1, BufSizes, ModOnce, a + 1 \in Nat DEF Plus1
<1>2. CASE a # CUINT - 1
  BY <1>2, BufSizes, ModSmall, a + 1 \in 0..(CUINT - 1) DEF Plus1
<1> QED
  BY Zenon, <1>1, <1>2

(* The distances after a character is stored, erased or taken. *)
LEMMA Further ==
  ASSUME NEW a \in 0..(CUINT - 1), NEW b \in 0..(CUINT - 1), Minus(a, b) < INPUT_BUF_SIZE
  PROVE  Minus(Plus1(a), b) = Minus(a, b) + 1
<1>1. Plus1(a) = (IF a = CUINT - 1 THEN 0 ELSE a + 1) /\ Plus1(a) \in 0..(CUINT - 1)
  BY Zenon, Plus1Is
<1>2. Minus(Plus1(a), b) = IF b <= Plus1(a) THEN Plus1(a) - b ELSE Plus1(a) + CUINT - b
  BY Zenon, <1>1, MinusIs
<1>3. Minus(a, b) = IF b <= a THEN a - b ELSE a + CUINT - b
  BY Zenon, MinusIs
<1> QED
  BY <1>1, <1>2, <1>3, BufSizes

LEMMA Nearer ==
  ASSUME NEW a \in 0..(CUINT - 1), NEW b \in 0..(CUINT - 1), a # b
  PROVE  Minus(a, Plus1(b)) = Minus(a, b) - 1 /\ Minus(a, b) >= 1
<1>1. Plus1(b) = (IF b = CUINT - 1 THEN 0 ELSE b + 1) /\ Plus1(b) \in 0..(CUINT - 1)
  BY Zenon, Plus1Is
<1>2. Minus(a, Plus1(b)) = IF Plus1(b) <= a THEN a - Plus1(b) ELSE a + CUINT - Plus1(b)
  BY Zenon, <1>1, MinusIs
<1>3. Minus(a, b) = IF b <= a THEN a - b ELSE a + CUINT - b
  BY Zenon, MinusIs
<1> QED
  BY <1>1, <1>2, <1>3, BufSizes

LEMMA Back ==
  ASSUME NEW a \in 0..(CUINT - 1), NEW b \in 0..(CUINT - 1), NEW n \in 0..Minus(a, b)
  PROVE  Minus(a, n) \in 0..(CUINT - 1) /\ Minus(Minus(a, n), b) = Minus(a, b) - n
<1>0. Minus(a, b) = (IF b <= a THEN a - b ELSE a + CUINT - b) /\ Minus(a, b) \in 0..(CUINT - 1)
  BY Zenon, MinusIs
<1>1. n \in 0..(CUINT - 1)
  BY <1>0, BufSizes
<1>2. Minus(a, n) = (IF n <= a THEN a - n ELSE a + CUINT - n) /\ Minus(a, n) \in 0..(CUINT - 1)
  BY Zenon, <1>1, MinusIs
<1>3. Minus(Minus(a, n), b) = IF b <= Minus(a, n) THEN Minus(a, n) - b ELSE Minus(a, n) + CUINT - b
  BY Zenon, <1>2, MinusIs
<1> QED
  BY <1>0, <1>1, <1>2, <1>3, BufSizes

(* What lies m behind b, at most at a, is at b + m of the ring, wrapped or not. *)
LEMMA Around ==
  ASSUME NEW a \in 0..(CUINT - 1), NEW b \in 0..(CUINT - 1), NEW m \in Nat
  PROVE  (a + m) % INPUT_BUF_SIZE = (b + Minus(a, b) + m) % INPUT_BUF_SIZE
<1>0. Minus(a, b) = IF b <= a THEN a - b ELSE a + CUINT - b
  BY Zenon, MinusIs
<1>1. CASE b <= a
  <2>1. b + Minus(a, b) + m = a + m
    BY <1>0, <1>1, BufSizes
  <2> QED
    BY Zenon, <2>1
<1>2. CASE ~(b <= a)
  <2>1. b + Minus(a, b) + m = CUINT + (a + m) /\ a + m \in Nat
    BY <1>0, <1>2, BufSizes
  <2>2. CUINT % INPUT_BUF_SIZE = 0
    BY Zenon, ConsoleAssumption
  <2>3. (CUINT + (a + m)) % INPUT_BUF_SIZE = (a + m) % INPUT_BUF_SIZE
    <3>1. INPUT_BUF_SIZE \in Nat \ {0} /\ CUINT \in Nat
      BY Zenon, BufSizes
    <3> QED
      BY Zenon, <2>1, <2>2, <3>1, ModMultiple
  <2> QED
    BY Zenon, <2>1, <2>3
<1> QED
  BY Zenon, <1>1, <1>2

(* The variables keep their types, and the ring is indexed within its bounds. *)
LEMMA ConTypeStep == ConTypeOK /\ ConGot /\ [ConNext]_conVars => ConTypeOK'
<1> SUFFICES ASSUME ConTypeOK, ConGot, [ConNext]_conVars PROVE ConTypeOK'
  BY Zenon
<1> USE DEF ConTypeOK
<1>1. ASSUME NEW k \in Keys, Store(k) PROVE ConTypeOK'
  <2>1. e % INPUT_BUF_SIZE \in 0..(INPUT_BUF_SIZE - 1) /\ Plus1(e) \in 0..(CUINT - 1)
    <3>1. e \in Int /\ INPUT_BUF_SIZE \in Nat \ {0}
      BY BufSizes
    <3>2. e % INPUT_BUF_SIZE \in 0..(INPUT_BUF_SIZE - 1)
      BY Zenon, <3>1, ModRange
    <3> QED
      BY Zenon, <3>2, Plus1Is
  <2>2. (IF k = "cr" THEN "nl" ELSE k) \in Keys
    BY Zenon DEF Keys
  <2> QED
    BY Zenon, <1>1, <2>1, <2>2 DEF Store, WakeReaders
<1>2. CASE Backspace
  <2>1. 1 \in 0..(CUINT - 1)
    BY BufSizes
  <2> QED
    BY Zenon, <1>2, <2>1, MinusIs DEF Backspace, readVars
<1>3. CASE KillLine
  BY <1>3, Back DEF KillLine, readVars
<1>4. ASSUME NEW p \in Reader, NEW n \in 1..MaxRead, Read(p, n) PROVE ConTypeOK'
  BY <1>4, BufSizes DEF Read, RGoto
<1>5. ASSUME NEW p \in Reader, ReadEnter(p) PROVE ConTypeOK'
  BY Zenon, <1>5 DEF ReadEnter, RGoto
<1>6. ASSUME NEW p \in Reader, ReadSleeps(p) PROVE ConTypeOK'
  BY Zenon, <1>6 DEF ReadSleeps, Leave, RGoto
<1>7. ASSUME NEW p \in Reader, NEW ok \in BOOLEAN, ReadTake(p, ok) PROVE ConTypeOK'
  <2>1. CharAt(r) \in Keys /\ Plus1(r) \in 0..(CUINT - 1)
    <3>1. r \in Int /\ INPUT_BUF_SIZE \in Nat \ {0}
      BY BufSizes
    <3>2. r % INPUT_BUF_SIZE \in 0..(INPUT_BUF_SIZE - 1)
      BY Zenon, <3>1, ModRange
    <3> QED
      BY Zenon, <3>2, Plus1Is DEF CharAt
  <2>2. want[p] - 1 \in 0..MaxRead /\ Append(got[p], CharAt(r)) \in Seq(Keys)
    BY <1>7, <2>1, BufSizes DEF ReadTake
  <2>3. r' \in 0..(CUINT - 1) /\ want' \in [Reader -> 0..MaxRead] /\ got' \in [Reader -> Seq(Keys)]
    BY Zenon, <1>7, <2>1, <2>2 DEF ReadTake, AfterEof
  <2>4. conslock' \in Reader \cup {Unlocked} /\ rpc' \in [Reader -> {"out", "enter", "take", "asleep", "woken"}]
    BY Zenon, <1>7 DEF ReadTake, Leave, RGoto
  <2> QED
    BY Zenon, <1>7, <2>3, <2>4 DEF ReadTake
<1>8. ASSUME NEW p \in Reader, ReadFull(p) PROVE ConTypeOK'
  BY Zenon, <1>8 DEF ReadFull, Leave, RGoto
<1>9. ASSUME NEW p \in Reader, KillReader(p) PROVE ConTypeOK'
  BY Zenon, <1>9 DEF KillReader
<1>10. CASE UNCHANGED conVars
  BY Zenon, <1>10 DEF conVars
<1> QED
  BY Zenon, <1>1, <1>2, <1>3, <1>4, <1>5, <1>6, <1>7, <1>8, <1>9, <1>10 DEF ConNext, ConsoleIntr, ConReaderStep

(* cons.lock is held in the loop of consoleread(), and nobody is asleep beside input. *)
LEMMA ConHolderStep ==
  ConTypeOK /\ ConHolder /\ NoInputAsleep /\ [ConNext]_conVars => ConHolder' /\ NoInputAsleep'
<1> SUFFICES ASSUME ConTypeOK, ConHolder, NoInputAsleep, [ConNext]_conVars
             PROVE  ConHolder' /\ NoInputAsleep'
  BY Zenon
<1> USE ReaderAssumption DEF ConTypeOK, ConHolder, NoInputAsleep
<1>1. ASSUME NEW k \in Keys, Store(k) PROVE ConHolder' /\ NoInputAsleep'
  BY Zenon, <1>1 DEF Store, WakeReaders
<1>2. CASE Backspace
  BY Zenon, <1>2 DEF Backspace, readVars
<1>3. CASE KillLine
  BY Zenon, <1>3 DEF KillLine, readVars
<1>4. ASSUME NEW p \in Reader, NEW n \in 1..MaxRead, Read(p, n) PROVE ConHolder' /\ NoInputAsleep'
  BY Zenon, <1>4 DEF Read, RGoto
<1>5. ASSUME NEW p \in Reader, ReadEnter(p) PROVE ConHolder' /\ NoInputAsleep'
  BY Zenon, <1>5 DEF ReadEnter, RGoto
<1>6. ASSUME NEW p \in Reader, ReadSleeps(p) PROVE ConHolder' /\ NoInputAsleep'
  BY Zenon, <1>6 DEF ReadSleeps, Leave, RGoto
<1>7. ASSUME NEW p \in Reader, NEW ok \in BOOLEAN, ReadTake(p, ok) PROVE ConHolder' /\ NoInputAsleep'
  BY Zenon, <1>7 DEF ReadTake, Leave, RGoto
<1>8. ASSUME NEW p \in Reader, ReadFull(p) PROVE ConHolder' /\ NoInputAsleep'
  BY Zenon, <1>8 DEF ReadFull, Leave, RGoto
<1>9. ASSUME NEW p \in Reader, KillReader(p) PROVE ConHolder' /\ NoInputAsleep'
  BY Zenon, <1>9 DEF KillReader
<1>10. CASE UNCHANGED conVars
  BY Zenon, <1>10 DEF conVars
<1> QED
  BY Zenon, <1>1, <1>2, <1>3, <1>4, <1>5, <1>6, <1>7, <1>8, <1>9, <1>10 DEF ConNext, ConsoleIntr, ConReaderStep

(* What a read has got. *)
LEMMA ConGotStep == ConTypeOK /\ ConGot /\ [ConNext]_conVars => ConGot'
<1> SUFFICES ASSUME ConTypeOK, ConGot, [ConNext]_conVars PROVE ConGot'
  BY Zenon
<1> USE DEF ConTypeOK, ConGot
<1>1. ASSUME NEW p \in Reader, NEW n \in 1..MaxRead, Read(p, n) PROVE ConGot'
  BY <1>1, BufSizes DEF Read, RGoto
<1>2. ASSUME NEW p \in Reader, NEW ok \in BOOLEAN, ReadTake(p, ok) PROVE ConGot'
  <2>0. /\ target' = target
        /\ \A q \in Reader : q # p => want'[q] = want[q] /\ got'[q] = got[q] /\ rpc'[q] = rpc[q]
    BY Zenon, <1>2 DEF ReadTake, Leave, RGoto
  <2>1. CASE got' = got /\ want' = want
    BY ZenonT(60), <1>2, <2>0, <2>1 DEF ReadTake
  <2>2. CASE ~(got' = got /\ want' = want)
    <3>1. /\ want'[p] = want[p] - 1 /\ got'[p] = Append(got[p], CharAt(r))
          /\ rpc'[p] # "out" => CharAt(r) # "nl"
      BY Zenon, <1>2, <2>2 DEF ReadTake, EndsRead, Leave, RGoto
    <3>2. rpc[p] = "take" /\ want[p] > 0
      BY Zenon, <1>2 DEF ReadTake
    <3>3. got[p] \in Seq(Keys) /\ want[p] \in Nat /\ target[p] \in Nat
      BY BufSizes
    <3>4. want'[p] + Len(got'[p]) = target[p]
      BY <3>1, <3>2, <3>3
    <3>5. rpc'[p] # "out" => \A n \in 1..Len(got'[p]) : got'[p][n] # "nl"
      <4> SUFFICES ASSUME rpc'[p] # "out", NEW n \in 1..Len(got'[p]) PROVE got'[p][n] # "nl"
        BY Zenon
      <4>1. Len(got'[p]) = Len(got[p]) + 1 /\ Len(got[p]) \in Nat
        BY <3>1, <3>3
      <4>2. CASE n = Len(got[p]) + 1
        BY <3>1, <3>3, <4>2
      <4>3. CASE n # Len(got[p]) + 1
        <5>1. n \in 1..Len(got[p])
          BY <4>1, <4>3
        <5>2. Append(got[p], CharAt(r))[n] = got[p][n]
          BY <3>3, <5>1
        <5> QED
          BY Zenon, <3>1, <3>2, <5>1, <5>2
      <4> QED
        BY Zenon, <4>2, <4>3
    <3> QED
      BY ZenonT(60), <2>0, <3>4, <3>5
  <2> QED
    BY Zenon, <2>1, <2>2
<1>3. ASSUME UNCHANGED <<want, target, got>>, \A p \in Reader : rpc'[p] # "out" => rpc[p] # "out"
      PROVE  ConGot'
  BY Zenon, <1>3
<1>4. CASE UNCHANGED conVars
  BY Zenon, <1>3, <1>4 DEF conVars
<1>5. ASSUME NEW k \in Keys, Store(k) PROVE ConGot'
  BY <1>3, <1>5 DEF Store, WakeReaders
<1>6. CASE Backspace \/ KillLine
  BY Zenon, <1>3, <1>6 DEF Backspace, KillLine, readVars
<1>7. ASSUME NEW p \in Reader, ReadEnter(p) \/ ReadSleeps(p) \/ ReadFull(p) \/ KillReader(p) PROVE ConGot'
  BY Zenon, <1>3, <1>7 DEF ReadEnter, ReadSleeps, ReadFull, KillReader, Leave, RGoto
<1> QED
  BY Zenon, <1>1, <1>2, <1>4, <1>5, <1>6, <1>7 DEF ConNext, ConsoleIntr, ConReaderStep

(* r, w and e follow each other round the ring, and a full ring can be read. *)
LEMMA ConRingStep ==
  ConTypeOK /\ ConOrder /\ FullIsReadable /\ [ConNext]_conVars => ConOrder' /\ FullIsReadable'
<1> SUFFICES ASSUME ConTypeOK, ConOrder, FullIsReadable, [ConNext]_conVars
             PROVE  ConOrder' /\ FullIsReadable'
  BY Zenon
<1>0. r \in 0..(CUINT - 1) /\ w \in 0..(CUINT - 1) /\ e \in 0..(CUINT - 1)
  BY Zenon DEF ConTypeOK
<1>1. Minus(w, r) \in 0..(CUINT - 1) /\ Minus(e, w) \in 0..(CUINT - 1) /\ Minus(e, r) \in 0..(CUINT - 1)
  BY Zenon, <1>0, MinusIs
<1> USE BufSizes
<1>2. ASSUME NEW k \in Keys, Store(k) PROVE ConOrder' /\ FullIsReadable'
  <2>1. Minus(e, r) < INPUT_BUF_SIZE /\ Minus(e, w) < INPUT_BUF_SIZE /\ r' = r /\ e' = Plus1(e)
    BY <1>1, <1>2 DEF Store, ConOrder
  <2>2. Minus(e', r) = Minus(e, r) + 1 /\ Minus(e', w) = Minus(e, w) + 1
    BY Zenon, <1>0, <2>1, Further
  <2>3. e' \in 0..(CUINT - 1)
    BY Zenon, <1>0, <2>1, Plus1Is
  <2>4. Minus(e', e') = 0
    BY <2>3, MinusIs
  <2>5. w' = e' \/ (w' = w /\ Minus(Plus1(e), r) # INPUT_BUF_SIZE)
    BY Zenon, <1>2 DEF Store, Complete
  <2>6. CASE w' = e'
    BY <1>1, <2>1, <2>2, <2>4, <2>6 DEF ConOrder, FullIsReadable
  <2>7. CASE w' = w /\ Minus(Plus1(e), r) # INPUT_BUF_SIZE
    BY <1>1, <2>1, <2>2, <2>7 DEF ConOrder, FullIsReadable
  <2> QED
    BY Zenon, <2>5, <2>6, <2>7
<1>3. ASSUME NEW n \in 0..Minus(e, w), e' = Minus(e, n), r' = r, w' = w PROVE ConOrder' /\ FullIsReadable'
  <2>1. n \in 0..Minus(e, r)
    BY <1>1 DEF ConOrder
  <2>2. Minus(e', w) = Minus(e, w) - n /\ Minus(e', r) = Minus(e, r) - n
    BY Zenon, <1>0, <1>3, <2>1, Back
  <2>3. CASE n = 0
    <3>1. e' = e
      BY <1>0, <1>3, <2>3, MinusIs, 0 \in 0..(CUINT - 1)
    <3> QED
      BY Zenon, <1>3, <3>1 DEF ConOrder, FullIsReadable
  <2>4. CASE n > 0
    BY <1>1, <1>3, <2>2, <2>4 DEF ConOrder, FullIsReadable
  <2> QED
    BY <2>3, <2>4
<1>4. CASE Backspace
  <2>1. 1 \in 0..Minus(e, w)
    <3>1. Minus(e, w) # 0
      BY Zenon, <1>0, <1>4, MinusNat DEF Backspace, CanErase
    <3> QED
      BY <1>1, <3>1
  <2> QED
    BY Zenon, <1>3, <1>4, <2>1 DEF Backspace
<1>5. CASE KillLine
  BY Zenon, <1>3, <1>5 DEF KillLine
<1>6. ASSUME NEW p \in Reader, NEW ok \in BOOLEAN, ReadTake(p, ok) PROVE ConOrder' /\ FullIsReadable'
  <2>1. r # w /\ w' = w /\ e' = e /\ (r' = r \/ r' = Plus1(r))
    BY Zenon, <1>6 DEF ReadTake, AfterEof
  <2>2. CASE r' = r
    BY Zenon, <2>1, <2>2 DEF ConOrder, FullIsReadable
  <2>3. CASE r' = Plus1(r)
    <3>1. Minus(w, r') = Minus(w, r) - 1 /\ Minus(w, r) >= 1
      BY Zenon, <1>0, <2>1, <2>3, Nearer
    <3>2. Minus(e, r) >= 1
      BY <1>1, <3>1 DEF ConOrder
    <3>3. e # r
      BY <1>0, <3>2, MinusNat
    <3>4. Minus(e, r') = Minus(e, r) - 1
      BY Zenon, <1>0, <2>3, <3>3, Nearer
    <3> QED
      BY <1>1, <2>1, <3>1, <3>4 DEF ConOrder, FullIsReadable
  <2> QED
    BY Zenon, <2>1, <2>2, <2>3
<1>7. CASE UNCHANGED <<r, w, e>>
  BY Zenon, <1>7 DEF ConOrder, FullIsReadable
<1> QED
  BY Zenon, <1>2, <1>4, <1>5, <1>6, <1>7
     DEF ConNext, ConsoleIntr, ConReaderStep, Read, ReadEnter, ReadSleeps, ReadFull, KillReader, conVars

(* The characters from i to j of the ring f. *)
Slice(f, i, j) == [n \in 1..Minus(j, i) |-> f[(i + n - 1) % INPUT_BUF_SIZE]]

LEMMA SameSequence ==
  ASSUME NEW S, NEW s \in Seq(S), NEW t \in Seq(S), Len(s) = Len(t), \A n \in 1..Len(s) : s[n] = t[n]
  PROVE  s = t
OBVIOUS

LEMMA SliceIs ==
  ASSUME NEW f \in [0..(INPUT_BUF_SIZE - 1) -> Keys],
         NEW i \in 0..(CUINT - 1), NEW j \in 0..(CUINT - 1)
  PROVE  /\ Slice(f, i, j) \in Seq(Keys) /\ Len(Slice(f, i, j)) = Minus(j, i)
         /\ \A n \in 1..Minus(j, i) : Slice(f, i, j)[n] = f[(i + n - 1) % INPUT_BUF_SIZE]
<1>1. Minus(j, i) \in Nat
  BY Zenon, MinusNat
<1>2. ASSUME NEW n \in 1..Minus(j, i) PROVE (i + n - 1) % INPUT_BUF_SIZE \in 0..(INPUT_BUF_SIZE - 1)
  <2>1. i + n - 1 \in Int /\ INPUT_BUF_SIZE \in Nat \ {0}
    BY <1>1, BufSizes
  <2> QED
    BY Zenon, <2>1, ModRange
<1>3. Slice(f, i, j) \in [1..Minus(j, i) -> Keys]
  BY Zenon, <1>2 DEF Slice
<1>4. Slice(f, i, j) \in Seq(Keys) /\ Len(Slice(f, i, j)) = Minus(j, i)
  BY <1>1, <1>3
<1> QED
  BY Zenon, <1>4 DEF Slice

(* The ring f with c at a. *)
Stored(f, a, c) == [f EXCEPT ![a % INPUT_BUF_SIZE] = c]

(* A character goes behind the ones that are there, and on none of them. *)
LEMMA StorePlace ==
  ASSUME NEW a \in 0..(CUINT - 1), NEW b \in 0..(CUINT - 1)
  PROVE  /\ a % INPUT_BUF_SIZE = (b + Minus(a, b)) % INPUT_BUF_SIZE
         /\ a % INPUT_BUF_SIZE \in 0..(INPUT_BUF_SIZE - 1)
<1>1. Minus(a, b) \in Nat
  BY Zenon, MinusNat
<1>2. (a + 0) % INPUT_BUF_SIZE = (b + Minus(a, b) + 0) % INPUT_BUF_SIZE
  BY Zenon, Around, 0 \in Nat
<1>3. a + 0 = a /\ b + Minus(a, b) + 0 = b + Minus(a, b)
  BY <1>1
<1>4. a \in Int /\ INPUT_BUF_SIZE \in Nat \ {0}
  BY BufSizes
<1>5. a % INPUT_BUF_SIZE \in 0..(INPUT_BUF_SIZE - 1)
  BY Zenon, <1>4, ModRange
<1> QED
  BY Zenon, <1>2, <1>3, <1>5

LEMMA StoreKeeps ==
  ASSUME NEW f \in [0..(INPUT_BUF_SIZE - 1) -> Keys], NEW a \in 0..(CUINT - 1), NEW b \in 0..(CUINT - 1),
         Minus(a, b) < INPUT_BUF_SIZE, NEW c \in Keys, NEW n \in 1..Minus(a, b)
  PROVE  Stored(f, a, c)[(b + n - 1) % INPUT_BUF_SIZE] = f[(b + n - 1) % INPUT_BUF_SIZE]
<1>1. Minus(a, b) \in Nat
  BY Zenon, MinusNat
<1>2. /\ b + n - 1 \in Nat /\ b + Minus(a, b) \in Nat /\ INPUT_BUF_SIZE \in Nat \ {0}
      /\ b + n - 1 < b + Minus(a, b) /\ b + Minus(a, b) < b + n - 1 + INPUT_BUF_SIZE
  BY <1>1, BufSizes
<1>3. (b + n - 1) % INPUT_BUF_SIZE # (b + Minus(a, b)) % INPUT_BUF_SIZE
  BY Zenon, <1>2, ModDistinct
<1>4. (b + n - 1) % INPUT_BUF_SIZE \in 0..(INPUT_BUF_SIZE - 1)
  BY <1>2, ModRange
<1> QED
  BY <1>3, <1>4, StorePlace DEF Stored

LEMMA SlicePut ==
  ASSUME NEW f \in [0..(INPUT_BUF_SIZE - 1) -> Keys], NEW a \in 0..(CUINT - 1), NEW b \in 0..(CUINT - 1),
         Minus(a, b) < INPUT_BUF_SIZE, NEW c \in Keys
  PROVE  Slice(Stored(f, a, c), b, Plus1(a)) = Append(Slice(f, b, a), c)
<1> DEFINE g == Stored(f, a, c)
           s == Slice(f, b, a)
           t == Slice(g, b, Plus1(a))
<1>0. g \in [0..(INPUT_BUF_SIZE - 1) -> Keys] /\ Plus1(a) \in 0..(CUINT - 1)
  BY Zenon, Plus1Is DEF Stored
<1>1. Minus(a, b) \in Nat /\ Minus(Plus1(a), b) = Minus(a, b) + 1
  BY Zenon, Further, MinusNat
<1>2. /\ s \in Seq(Keys) /\ Len(s) = Minus(a, b)
      /\ \A n \in 1..Minus(a, b) : s[n] = f[(b + n - 1) % INPUT_BUF_SIZE]
  BY Zenon, SliceIs
<1>3. g[(b + Minus(a, b)) % INPUT_BUF_SIZE] = c
  BY Zenon, StorePlace DEF Stored
<1>4. ASSUME NEW n \in 1..Minus(a, b) PROVE g[(b + n - 1) % INPUT_BUF_SIZE] = s[n]
  BY Zenon, <1>2, StoreKeeps
<1> HIDE DEF g, s
<1>5. /\ t \in Seq(Keys) /\ Len(t) = Minus(Plus1(a), b)
      /\ \A n \in 1..Minus(Plus1(a), b) : t[n] = g[(b + n - 1) % INPUT_BUF_SIZE]
  BY Zenon, <1>0, SliceIs
<1> HIDE DEF t
<1>6. ASSUME NEW n \in 1..(Minus(a, b) + 1) PROVE t[n] = Append(s, c)[n]
  <2>1. CASE n = Minus(a, b) + 1
    <3>1. b + n - 1 = b + Minus(a, b)
      BY <1>1, <2>1
    <3>2. t[n] = c
      BY Zenon, <1>1, <1>3, <1>5, <3>1
    <3> QED
      BY <1>2, <2>1, <3>2
  <2>2. CASE n # Minus(a, b) + 1
    <3>1. n \in 1..Minus(a, b)
      BY <1>1, <2>2
    <3>2. t[n] = s[n]
      BY Zenon, <1>1, <1>4, <1>5, <3>1
    <3> QED
      BY <1>2, <3>1, <3>2
  <2> QED
    BY Zenon, <2>1, <2>2
<1>7. Append(s, c) \in Seq(Keys) /\ Len(Append(s, c)) = Minus(a, b) + 1
  BY <1>2
<1>8. t = Append(s, c)
  BY Zenon, <1>1, <1>5, <1>6, <1>7, SameSequence
<1> QED
  BY Zenon, <1>8 DEF t, s, g

LEMMA SliceKept ==
  ASSUME NEW f \in [0..(INPUT_BUF_SIZE - 1) -> Keys], NEW a \in 0..(CUINT - 1), NEW b \in 0..(CUINT - 1),
         Minus(a, b) < INPUT_BUF_SIZE, NEW c \in Keys,
         NEW d \in 0..(CUINT - 1), Minus(d, b) <= Minus(a, b)
  PROVE  Slice(Stored(f, a, c), b, d) = Slice(f, b, d)
<1>1. Minus(a, b) \in Nat /\ Minus(d, b) \in Nat
  BY Zenon, MinusNat
<1>2. ASSUME NEW n \in 1..Minus(a, b)
      PROVE  Stored(f, a, c)[(b + n - 1) % INPUT_BUF_SIZE] = f[(b + n - 1) % INPUT_BUF_SIZE]
  BY Zenon, StoreKeeps
<1>3. \A n \in 1..Minus(d, b) : n \in 1..Minus(a, b)
  BY <1>1
<1> QED
  BY Zenon, <1>2, <1>3 DEF Slice

(* Two neighbouring parts of the ring make one. *)
LEMMA SliceJoin ==
  ASSUME NEW f \in [0..(INPUT_BUF_SIZE - 1) -> Keys],
         NEW i \in 0..(CUINT - 1), NEW j \in 0..(CUINT - 1), NEW k \in 0..(CUINT - 1),
         Minus(j, i) + Minus(k, j) = Minus(k, i)
  PROVE  Slice(f, i, k) = Slice(f, i, j) \o Slice(f, j, k)
<1>1. Minus(j, i) \in Nat /\ Minus(k, j) \in Nat /\ Minus(k, i) \in Nat
  BY Zenon, MinusNat
<1>2. /\ Slice(f, i, j) \in Seq(Keys) /\ Len(Slice(f, i, j)) = Minus(j, i)
      /\ \A n \in 1..Minus(j, i) : Slice(f, i, j)[n] = f[(i + n - 1) % INPUT_BUF_SIZE]
  BY Zenon, SliceIs
<1>3. /\ Slice(f, j, k) \in Seq(Keys) /\ Len(Slice(f, j, k)) = Minus(k, j)
      /\ \A n \in 1..Minus(k, j) : Slice(f, j, k)[n] = f[(j + n - 1) % INPUT_BUF_SIZE]
  BY Zenon, SliceIs
<1>4. /\ Slice(f, i, k) \in Seq(Keys) /\ Len(Slice(f, i, k)) = Minus(k, i)
      /\ \A n \in 1..Minus(k, i) : Slice(f, i, k)[n] = f[(i + n - 1) % INPUT_BUF_SIZE]
  BY Zenon, SliceIs
<1> DEFINE s == Slice(f, i, j)
           t == Slice(f, j, k)
<1>5. ASSUME NEW n \in 1..Minus(k, i) PROVE Slice(f, i, k)[n] = (s \o t)[n]
  <2>1. CASE n <= Minus(j, i)
    <3>1. n \in 1..Minus(j, i)
      BY <1>1, <2>1
    <3>2. (s \o t)[n] = s[n]
      <4>1. s \in Seq(Keys) /\ t \in Seq(Keys) /\ Len(s) = Minus(j, i)
        BY Zenon, <1>2, <1>3
      <4> HIDE DEF s, t
      <4> QED
        BY <3>1, <4>1
    <3> QED
      BY Zenon, <1>2, <1>4, <3>1, <3>2
  <2>2. CASE ~(n <= Minus(j, i))
    <3> DEFINE m == n - Minus(j, i)
    <3>1. m \in 1..Minus(k, j) /\ m - 1 \in Nat
      BY <1>1, <2>2
    <3>2. (s \o t)[n] = t[m]
      <4>1. s \in Seq(Keys) /\ t \in Seq(Keys) /\ Len(s) = Minus(j, i) /\ Len(t) = Minus(k, j)
        BY Zenon, <1>2, <1>3
      <4> HIDE DEF s, t
      <4>2. n \in (Len(s) + 1)..(Len(s) + Len(t)) /\ m = n - Len(s)
        BY <1>1, <2>2, <4>1
      <4> QED
        BY <4>1, <4>2
    <3>3. t[m] = f[(j + m - 1) % INPUT_BUF_SIZE]
      BY Zenon, <1>3, <3>1
    <3>4. (j + (m - 1)) % INPUT_BUF_SIZE = (i + Minus(j, i) + (m - 1)) % INPUT_BUF_SIZE
      BY Zenon, <3>1, Around
    <3>5. j + (m - 1) = j + m - 1 /\ i + Minus(j, i) + (m - 1) = i + n - 1
      BY <1>1
    <3> QED
      BY Zenon, <1>4, <3>2, <3>3, <3>4, <3>5
  <2> QED
    BY Zenon, <2>1, <2>2
<1> HIDE DEF s, t
<1>6. s \o t \in Seq(Keys) /\ Len(s \o t) = Minus(k, i)
  <2>1. s \in Seq(Keys) /\ t \in Seq(Keys) /\ Len(s) + Len(t) = Minus(k, i)
    BY Zenon, <1>2, <1>3 DEF s, t
  <2> QED
    BY <2>1
<1>7. Slice(f, i, k) = s \o t
  BY Zenon, <1>4, <1>5, <1>6, SameSequence
<1> QED
  BY Zenon, <1>7 DEF s, t

LEMMA SliceErase ==
  ASSUME NEW f \in [0..(INPUT_BUF_SIZE - 1) -> Keys], NEW a \in 0..(CUINT - 1), NEW b \in 0..(CUINT - 1),
         NEW n \in 0..Minus(a, b)
  PROVE  Slice(f, b, Minus(a, n)) = SubSeq(Slice(f, b, a), 1, Minus(a, b) - n)
<1>1. Minus(a, b) \in Nat /\ Minus(a, n) \in 0..(CUINT - 1) /\ Minus(Minus(a, n), b) = Minus(a, b) - n
  BY Zenon, MinusNat, Back
<1>2. /\ Slice(f, b, a) \in Seq(Keys) /\ Len(Slice(f, b, a)) = Minus(a, b)
      /\ \A m \in 1..Minus(a, b) : Slice(f, b, a)[m] = f[(b + m - 1) % INPUT_BUF_SIZE]
  BY Zenon, SliceIs
<1> DEFINE l == Minus(a, b) - n
<1>3. l \in Nat /\ l <= Minus(a, b)
  BY <1>1
<1>4. Slice(f, b, Minus(a, n)) = [m \in 1..l |-> f[(b + m - 1) % INPUT_BUF_SIZE]]
  BY Zenon, <1>1 DEF Slice
<1>5. SubSeq(Slice(f, b, a), 1, l) = [m \in 1..l |-> Slice(f, b, a)[m]]
  BY <1>2, <1>3
<1>6. \A m \in 1..l : Slice(f, b, a)[m] = f[(b + m - 1) % INPUT_BUF_SIZE]
  BY <1>1, <1>2, <1>3
<1> QED
  BY Zenon, <1>4, <1>5, <1>6

(* The first character of a part of the ring, and the others. *)
LEMMA SliceTake ==
  ASSUME NEW f \in [0..(INPUT_BUF_SIZE - 1) -> Keys], NEW a \in 0..(CUINT - 1), NEW b \in 0..(CUINT - 1),
         a # b
  PROVE  /\ Slice(f, b, a) # <<>> /\ Head(Slice(f, b, a)) = f[b % INPUT_BUF_SIZE]
         /\ Slice(f, Plus1(b), a) = Tail(Slice(f, b, a))
<1>1. /\ Minus(a, b) \in Nat /\ Minus(a, b) >= 1 /\ Plus1(b) \in 0..(CUINT - 1)
      /\ Minus(a, Plus1(b)) = Minus(a, b) - 1
  BY Zenon, MinusNat, Nearer, Plus1Is
<1>2. /\ Slice(f, b, a) \in Seq(Keys) /\ Len(Slice(f, b, a)) = Minus(a, b)
      /\ \A m \in 1..Minus(a, b) : Slice(f, b, a)[m] = f[(b + m - 1) % INPUT_BUF_SIZE]
  BY Zenon, SliceIs
<1>3. /\ Slice(f, Plus1(b), a) \in Seq(Keys) /\ Len(Slice(f, Plus1(b), a)) = Minus(a, b) - 1
      /\ \A m \in 1..(Minus(a, b) - 1) :
           Slice(f, Plus1(b), a)[m] = f[(Plus1(b) + m - 1) % INPUT_BUF_SIZE]
  <2>1. /\ Slice(f, Plus1(b), a) \in Seq(Keys) /\ Len(Slice(f, Plus1(b), a)) = Minus(a, Plus1(b))
        /\ \A m \in 1..Minus(a, Plus1(b)) :
             Slice(f, Plus1(b), a)[m] = f[(Plus1(b) + m - 1) % INPUT_BUF_SIZE]
    BY Zenon, <1>1, SliceIs
  <2> QED
    BY Zenon, <1>1, <2>1
<1>4. b + 1 - 1 = b /\ 1 \in 1..Minus(a, b)
  BY <1>1
<1>5. Head(Slice(f, b, a)) = f[b % INPUT_BUF_SIZE]
  BY <1>2, <1>4
<1>6. ASSUME NEW m \in 1..(Minus(a, b) - 1)
      PROVE  Slice(f, Plus1(b), a)[m] = Tail(Slice(f, b, a))[m]
  <2>1. m + 1 \in 1..Minus(a, b) /\ m - 1 \in Nat
    BY <1>1
  <2>2. Tail(Slice(f, b, a))[m] = f[(b + (m + 1) - 1) % INPUT_BUF_SIZE]
    BY <1>1, <1>2, <2>1
  <2>3. (Plus1(b) + (m - 1)) % INPUT_BUF_SIZE = (b + Minus(Plus1(b), b) + (m - 1)) % INPUT_BUF_SIZE
    BY Zenon, <1>1, <2>1, Around
  <2>4. Minus(Plus1(b), b) = 1
    <3>1. Minus(b, b) = 0
      BY Zenon, MinusNat
    <3> QED
      BY <3>1, Further, BufSizes
  <2>5. Plus1(b) + (m - 1) = Plus1(b) + m - 1 /\ b + 1 + (m - 1) = b + (m + 1) - 1
    BY <1>1
  <2> QED
    BY Zenon, <1>3, <2>2, <2>3, <2>4, <2>5
<1>7. Tail(Slice(f, b, a)) \in Seq(Keys) /\ Len(Tail(Slice(f, b, a))) = Minus(a, b) - 1
  BY <1>1, <1>2
<1>8. Slice(f, Plus1(b), a) = Tail(Slice(f, b, a))
  BY Zenon, <1>3, <1>6, <1>7, SameSequence
<1> QED
  BY <1>1, <1>2, <1>5, <1>8

(* What is still edited holds no end of a line: that would have handed it over. *)
LEMMA ConLineStep ==
  ConTypeOK /\ ConOrder /\ FullIsReadable /\ ConLine /\ [ConNext]_conVars => ConLine'
<1> SUFFICES ASSUME ConTypeOK, ConOrder, FullIsReadable, ConLine, [ConNext]_conVars PROVE ConLine'
  BY Zenon
<1>0. /\ r \in 0..(CUINT - 1) /\ w \in 0..(CUINT - 1) /\ e \in 0..(CUINT - 1)
      /\ buf \in [0..(INPUT_BUF_SIZE - 1) -> Keys]
  BY Zenon DEF ConTypeOK
<1>1. Minus(w, r) \in Nat /\ Minus(e, w) \in Nat /\ Minus(e, r) \in Nat
  BY Zenon, <1>0, MinusNat
<1>2. ASSUME NEW k \in Keys, Store(k) PROVE ConLine'
  <2> DEFINE c == IF k = "cr" THEN "nl" ELSE k
  <2>1. /\ Minus(e, w) < INPUT_BUF_SIZE /\ e' = Plus1(e) /\ buf' = Stored(buf, e, c)
        /\ w' = e' \/ (w' = w /\ c # "nl")
    BY <1>1, <1>2, BufSizes DEF Store, ConOrder, Complete, Stored
  <2>2. CASE w' = e'
    <3>1. Minus(e', w') = 0
      BY Zenon, <1>0, <2>1, <2>2, Plus1Is, MinusNat
    <3> QED
      BY <3>1 DEF ConLine
  <2>3. CASE w' = w /\ c # "nl"
    <3>1. Minus(e', w') = Minus(e, w) + 1
      BY Zenon, <1>0, <2>1, <2>3, Further
    <3>0. c \in Keys
      BY Zenon DEF Keys
    <3> HIDE DEF c
    <3>2. ASSUME NEW n \in 1..Minus(e, w) PROVE buf'[(w + n - 1) % INPUT_BUF_SIZE] # "nl"
      <4>1. Stored(buf, e, c)[(w + n - 1) % INPUT_BUF_SIZE] = buf[(w + n - 1) % INPUT_BUF_SIZE]
        BY ZenonT(60), <1>0, <2>1, <3>0, StoreKeeps
      <4> QED
        BY Zenon, <2>1, <4>1 DEF ConLine, CharAt
    <3>3. buf'[(w + Minus(e, w)) % INPUT_BUF_SIZE] # "nl"
      BY Zenon, <1>0, <2>1, <2>3, StorePlace DEF Stored
    <3>4. ASSUME NEW n \in 1..(Minus(e, w) + 1) PROVE buf'[(w + n - 1) % INPUT_BUF_SIZE] # "nl"
      <4>1. CASE n = Minus(e, w) + 1
        <5>1. w + n - 1 = w + Minus(e, w)
          BY <1>0, <1>1, <4>1
        <5> QED
          BY Zenon, <3>3, <5>1
      <4>2. CASE n # Minus(e, w) + 1
        <5>1. n \in 1..Minus(e, w)
          BY <1>1, <4>2
        <5> QED
          BY Zenon, <3>2, <5>1
      <4> QED
        BY Zenon, <4>1, <4>2
    <3> QED
      BY Zenon, <2>3, <3>1, <3>4 DEF ConLine, CharAt
  <2> QED
    BY Zenon, <2>1, <2>2, <2>3
<1>3. ASSUME NEW n \in 0..Minus(e, w), e' = Minus(e, n), w' = w, buf' = buf PROVE ConLine'
  <2>1. Minus(e', w') = Minus(e, w) - n
    BY Zenon, <1>0, <1>3, Back
  <2>2. \A m \in 1..(Minus(e, w) - n) : m \in 1..Minus(e, w)
    BY <1>1
  <2> QED
    BY Zenon, <1>3, <2>1, <2>2 DEF ConLine, CharAt
<1>4. CASE Backspace
  <2>1. Minus(e, w) # 0
    BY Zenon, <1>0, <1>4, MinusNat DEF Backspace, CanErase
  <2>2. 1 \in 0..Minus(e, w)
    BY <1>1, <2>1
  <2> QED
    BY Zenon, <1>3, <1>4, <2>2 DEF Backspace
<1>5. CASE KillLine
  BY Zenon, <1>3, <1>5 DEF KillLine
<1>6. CASE UNCHANGED <<w, e, buf>>
  BY Zenon, <1>6 DEF ConLine, CharAt
<1> QED
  BY Zenon, <1>2, <1>4, <1>5, <1>6
     DEF ConNext, ConsoleIntr, ConReaderStep, Read, ReadEnter, ReadSleeps, ReadTake, ReadFull, KillReader,
         conVars

(***************************************************************************)
(* The inductive invariant of consoleread() and consoleintr().             *)
(***************************************************************************)
THEOREM ConInvariant == ConSpec => []ConInv
<1>1. ConInit => ConInv
  <2> SUFFICES ASSUME ConInit PROVE ConInv
    BY Zenon
  <2>1. 0 \in 0..(CUINT - 1) /\ 0 \in 0..MaxRead
    BY BufSizes
  <2>2. ConTypeOK
    BY <2>1 DEF ConInit, ConTypeOK, Keys
  <2>3. Minus(0, 0) = 0
    BY Zenon, <2>1, MinusNat
  <2>4. ConHolder /\ NoInputAsleep /\ ConGot
    BY ReaderAssumption DEF ConInit, ConHolder, NoInputAsleep, ConGot
  <2>5. FullIsReadable /\ ConOrder /\ ConLine
    BY <2>3, BufSizes DEF ConInit, FullIsReadable, ConOrder, ConLine
  <2> QED
    BY Zenon, <2>2, <2>4, <2>5 DEF ConInv, ConSafe
<1>2. ConInv /\ [ConNext]_conVars => ConInv'
  BY Zenon, ConTypeStep, ConHolderStep, ConGotStep, ConRingStep, ConLineStep DEF ConInv, ConSafe
<1> QED
  BY <1>1, <1>2, PTL DEF ConSpec

(***************************************************************************)
(* A reader does not sleep while there is input, and a full buffer can be  *)
(* read.                                                                   *)
(***************************************************************************)
THEOREM ConIsSafe == ConSpec => []ConSafe
<1>1. ConInv => ConSafe
  BY Zenon DEF ConInv
<1> QED
  BY <1>1, ConInvariant, PTL

(* The two parts of the ring that the abstract console has. *)
LEMMA SegmentIs ==
  ASSUME ConInv
  PROVE  /\ Segment(r, w) = Slice(buf, r, w) /\ Segment(w, e) = Slice(buf, w, e)
         /\ Segment(r, w) \in Seq(Keys) /\ Segment(w, e) \in Seq(Keys)
         /\ Len(Segment(r, w)) = Minus(w, r) /\ Len(Segment(w, e)) = Minus(e, w)
         /\ Len(Segment(r, w)) + Len(Segment(w, e)) = Minus(e, r)
<1>1. /\ r \in 0..(CUINT - 1) /\ w \in 0..(CUINT - 1) /\ e \in 0..(CUINT - 1)
      /\ buf \in [0..(INPUT_BUF_SIZE - 1) -> Keys]
  BY Zenon DEF ConInv, ConSafe, ConTypeOK
<1>2. Segment(r, w) = Slice(buf, r, w) /\ Segment(w, e) = Slice(buf, w, e)
  BY Zenon DEF Segment, Slice, CharAt
<1>3. Minus(w, r) + Minus(e, w) = Minus(e, r)
  BY Zenon DEF ConInv, ConOrder
<1> QED
  BY Zenon, <1>1, <1>2, <1>3, SliceIs

(* consoleintr() stores a character. *)
LEMMA StoreTypes ==
  ASSUME ConInv, NEW k \in Keys, Store(k)
  PROVE  \E c \in Plain \cup {"nl", "eof"} : Lines!Type(c)
<1> DEFINE c == IF k = "cr" THEN "nl" ELSE k
           ready == Segment(r, w)
           line == Segment(w, e)
<1>0. /\ r \in 0..(CUINT - 1) /\ w \in 0..(CUINT - 1) /\ e \in 0..(CUINT - 1)
      /\ buf \in [0..(INPUT_BUF_SIZE - 1) -> Keys] /\ c \in Keys
  BY Zenon DEF ConInv, ConSafe, ConTypeOK, Keys
<1>1. Minus(w, r) \in Nat /\ Minus(e, w) \in Nat /\ Minus(e, r) \in Nat
  BY Zenon, <1>0, MinusNat
<1>2. Minus(w, r) + Minus(e, w) = Minus(e, r)
  BY Zenon DEF ConInv, ConOrder
<1>3. /\ ready = Slice(buf, r, w) /\ line = Slice(buf, w, e)
      /\ ready \in Seq(Keys) /\ line \in Seq(Keys) /\ Len(ready) + Len(line) = Minus(e, r)
  BY Zenon, SegmentIs
<1>4. /\ c \in Plain \cup {"nl", "eof"} /\ Minus(e, r) < INPUT_BUF_SIZE
      /\ e' = Plus1(e) /\ buf' = Stored(buf, e, c) /\ r' = r
      /\ IF Complete(c) THEN w' = e' ELSE w' = w
      /\ UNCHANGED <<got, conslock>>
  BY Zenon DEF Store, Stored
<1>5. Minus(e, w) < INPUT_BUF_SIZE /\ Minus(w, r) <= Minus(e, r)
  BY <1>1, <1>2, <1>4, BufSizes
<1>6. Minus(Plus1(e), r) = Minus(e, r) + 1
  BY Zenon, <1>0, <1>4, Further
<1>7. Segment(r, w)' = Slice(buf', r', w') /\ Segment(w, e)' = Slice(buf', w', e')
  BY Zenon DEF Segment, Slice, CharAt
<1> HIDE DEF c
<1>8. CASE Complete(c)
  <2>1. Segment(r, w)' = Append(Slice(buf, r, e), c)
    BY <1>0, <1>4, <1>7, <1>8, SlicePut
  <2>2. Slice(buf, r, e) = ready \o line
    <3>1. Slice(buf, r, e) = Slice(buf, r, w) \o Slice(buf, w, e)
      BY Zenon, <1>0, <1>2, SliceJoin
    <3> QED
      BY Zenon, <1>3, <3>1
  <2>3. Append(ready \o line, c) = ready \o Append(line, c)
    <3> HIDE DEF ready, line
    <3>1. ready \in Seq(Keys) /\ line \in Seq(Keys) /\ c \in Keys
      BY Zenon, <1>0, <1>3
    <3> QED
      BY <3>1
  <2>4. Minus(e', e') = 0
    BY Zenon, <1>0, <1>4, Plus1Is, MinusNat
  <2>5. Segment(w, e)' = <<>>
    BY <1>4, <1>7, <1>8, <2>4 DEF Slice
  <2>6. c \in {"nl", "eof"} \/ Len(ready) + Len(line) + 1 = INPUT_BUF_SIZE
    BY Zenon, <1>3, <1>6, <1>8 DEF Complete
  <2>7. Segment(r, w)' = ready \o Append(line, c)
    BY Zenon, <2>1, <2>2, <2>3
  <2>8. Lines!Type(c)
    BY Zenon, <1>3, <1>4, <2>5, <2>6, <2>7 DEF Lines!Type
  <2> QED
    BY Zenon, <1>4, <2>8
<1>9. CASE ~Complete(c)
  <2>1. Segment(r, w)' = ready
    <3>1. Slice(Stored(buf, e, c), r, w) = Slice(buf, r, w)
      BY <1>0, <1>4, <1>5, SliceKept
    <3> QED
      BY Zenon, <1>3, <1>4, <1>7, <1>9, <3>1
  <2>2. Segment(w, e)' = Append(line, c)
    <3>1. Slice(Stored(buf, e, c), w, Plus1(e)) = Append(Slice(buf, w, e), c)
      BY Zenon, <1>0, <1>5, SlicePut
    <3> QED
      BY Zenon, <1>3, <1>4, <1>7, <1>9, <3>1
  <2>3. ~(c \in {"nl", "eof"} \/ Len(ready) + Len(line) + 1 = INPUT_BUF_SIZE)
    BY Zenon, <1>3, <1>6, <1>9 DEF Complete
  <2>4. Lines!Type(c)
    BY Zenon, <1>3, <1>4, <2>1, <2>2, <2>3 DEF Lines!Type
  <2> QED
    BY Zenon, <1>4, <2>4
<1> QED
  BY Zenon, <1>8, <1>9

(* consoleintr() erases a character, or the whole line. *)
LEMMA EraseErases ==
  ASSUME ConInv, Backspace \/ KillLine
  PROVE  \E n \in {1, Len(Segment(w, e))} : Lines!Erase(n)
<1>0. /\ r \in 0..(CUINT - 1) /\ w \in 0..(CUINT - 1) /\ e \in 0..(CUINT - 1)
      /\ buf \in [0..(INPUT_BUF_SIZE - 1) -> Keys]
  BY Zenon DEF ConInv, ConSafe, ConTypeOK
<1>1. Minus(e, w) \in Nat /\ Minus(e, w) # 0
  BY Zenon, <1>0, MinusNat DEF Backspace, KillLine, CanErase
<1>2. /\ r' = r /\ w' = w /\ buf' = buf /\ UNCHANGED <<got, conslock>>
      /\ \/ e' = Minus(e, 1)
         \/ \E n \in 0..Minus(e, w) : /\ n = Minus(e, w) \/ CharAt(Minus(e, n + 1)) = "nl"
                                      /\ e' = Minus(e, n)
  BY Zenon DEF Backspace, KillLine, readVars
<1>3. ASSUME NEW n \in 0..Minus(e, w), n # Minus(e, w) PROVE CharAt(Minus(e, n + 1)) # "nl"
  <2> DEFINE m == Minus(e, w) - n
  <2>1. n + 1 \in 0..Minus(e, w) /\ m \in 1..Minus(e, w) /\ m - 1 = Minus(e, w) - (n + 1) /\ m - 1 \in Nat
    BY <1>1, <1>3
  <2>2. Minus(e, n + 1) \in 0..(CUINT - 1) /\ Minus(Minus(e, n + 1), w) = m - 1
    BY Zenon, <1>0, <2>1, Back
  <2>3. Minus(e, n + 1) % INPUT_BUF_SIZE = (w + (m - 1)) % INPUT_BUF_SIZE
    BY Zenon, <1>0, <2>2, StorePlace
  <2>4. w + (m - 1) = w + m - 1
    BY Zenon, <1>0, <1>1
  <2>5. CharAt(w + m - 1) # "nl"
    BY Zenon, <2>1 DEF ConInv, ConLine
  <2> QED
    BY Zenon, <2>3, <2>4, <2>5 DEF CharAt
<1>4. \E n \in {1, Minus(e, w)} : e' = Minus(e, n)
  BY Zenon, <1>1, <1>2, <1>3
<1>5. PICK n \in {1, Minus(e, w)} : e' = Minus(e, n)
  BY Zenon, <1>4
<1>6. n \in 0..Minus(e, w)
  BY <1>1
<1>7. /\ Segment(w, e) = Slice(buf, w, e) /\ Len(Segment(w, e)) = Minus(e, w)
  BY Zenon, SegmentIs
<1>8. Segment(w, e)' = Slice(buf, w, Minus(e, n)) /\ Segment(r, w)' = Segment(r, w)
  BY Zenon, <1>2, <1>5 DEF Segment, Slice, CharAt
<1>9. Slice(buf, w, Minus(e, n)) = SubSeq(Slice(buf, w, e), 1, Minus(e, w) - n)
  BY Zenon, <1>0, <1>6, SliceErase
<1>10. n <= Len(Segment(w, e)) /\ Segment(w, e)' = SubSeq(Segment(w, e), 1, Len(Segment(w, e)) - n)
  BY <1>1, <1>6, <1>7, <1>8, <1>9
<1>11. Lines!Erase(n)
  BY Zenon, <1>2, <1>8, <1>10 DEF Lines!Erase
<1> QED
  BY Zenon, <1>5, <1>7, <1>11

(* consoleread() takes a character, or leaves at the end of file. *)
LEMMA TakeTakes ==
  ASSUME ConInv, NEW p \in Reader, NEW ok \in BOOLEAN, ReadTake(p, ok)
  PROVE  Lines!Take(p) \/ Lines!Pass
<1>0. /\ r \in 0..(CUINT - 1) /\ w \in 0..(CUINT - 1) /\ r # w /\ conslock = p
      /\ buf \in [0..(INPUT_BUF_SIZE - 1) -> Keys]
      /\ got \in [Reader -> Seq(Keys)] /\ want[p] + Len(got[p]) = target[p]
      /\ \A n \in 1..Len(got[p]) : got[p][n] # "nl"
  BY Zenon DEF ReadTake, ConInv, ConSafe, ConTypeOK, ConHolder, ConGot
<1>1. w' = w /\ e' = e /\ buf' = buf
  BY Zenon DEF ReadTake
<1>2. Segment(r, w) = Slice(buf, r, w) /\ Segment(r, w)' = Slice(buf, r', w)
  BY Zenon, <1>1 DEF Segment, Slice, CharAt
<1>3. Segment(w, e)' = Segment(w, e)
  BY Zenon, <1>1 DEF Segment, CharAt
<1>4. conslock' \in {p, Unlocked}
  BY Zenon, <1>0 DEF ReadTake, Leave
<1>5. /\ Slice(buf, r, w) # <<>> /\ Head(Slice(buf, r, w)) = CharAt(r)
      /\ Slice(buf, Plus1(r), w) = Tail(Slice(buf, r, w))
  BY Zenon, <1>0, SliceTake DEF CharAt
<1>6. CASE r' = r /\ got' = got
  BY Zenon, <1>2, <1>3, <1>4, <1>6 DEF Lines!Pass
<1>7. CASE CharAt(r) = "eof" /\ r' = Plus1(r) /\ got' = got /\ ~(want[p] < target[p])
  <2>1. want[p] \in Nat /\ target[p] \in Nat
    BY BufSizes DEF ConInv, ConSafe, ConTypeOK
  <2>2. Len(got[p]) = 0
    BY <1>0, <1>7, <2>1
  <2>3. got[p] = <<>>
    BY <1>0, <2>2
  <2> QED
    BY Zenon, <1>0, <1>2, <1>3, <1>4, <1>5, <1>7, <2>3 DEF Lines!Take
<1>8. CASE /\ CharAt(r) # "eof" /\ r' = Plus1(r)
           /\ got' \in {got, [got EXCEPT ![p] = Append(@, CharAt(r))]}
  BY Zenon, <1>0, <1>2, <1>3, <1>4, <1>5, <1>8 DEF Lines!Take
<1>9. \/ r' = r /\ got' = got
      \/ CharAt(r) = "eof" /\ r' = Plus1(r) /\ got' = got /\ ~(want[p] < target[p])
      \/ /\ CharAt(r) # "eof" /\ r' = Plus1(r)
         /\ got' \in {got, [got EXCEPT ![p] = Append(@, CharAt(r))]}
  BY Zenon DEF ReadTake, AfterEof
<1> QED
  BY Zenon, <1>6, <1>7, <1>8, <1>9

(***************************************************************************)
(* The input ring with its three wrapping indices is a queue of edited     *)
(* lines: console.c implements LineQueue.  A character typed is Type,      *)
(* backspace and kill-line are Erase, one taken by consoleread() is Take.  *)
(***************************************************************************)
THEOREM ConsoleIsLines == ConSpec => ImplementsLines
<1>1. ConInit => Lines!LqInit
  <2> SUFFICES ASSUME ConInit PROVE Lines!LqInit
    BY Zenon
  <2>1. Minus(0, 0) = 0
    BY BufSizes, MinusNat, 0 \in 0..(CUINT - 1)
  <2>2. Segment(r, w) = <<>> /\ Segment(w, e) = <<>>
    BY <2>1 DEF ConInit, Segment
  <2> QED
    BY Zenon, <2>2 DEF ConInit, Lines!LqInit
<1>2. ConInv /\ [ConNext]_conVars => [Lines!LqNext]_Lines!lqVars
  <2> SUFFICES ASSUME ConInv, [ConNext]_conVars PROVE [Lines!LqNext]_Lines!lqVars
    BY Zenon
  <2>1. ASSUME NEW k \in Keys, Store(k) PROVE Lines!LqNext
    BY Zenon, <2>1, StoreTypes DEF Lines!LqNext
  <2>2. CASE Backspace \/ KillLine
    BY Zenon, <2>2, EraseErases DEF Lines!LqNext
  <2>3. ASSUME NEW p \in Reader, NEW ok \in BOOLEAN, ReadTake(p, ok) PROVE Lines!LqNext
    BY Zenon, <2>3, TakeTakes DEF Lines!LqNext
  <2>4. ASSUME UNCHANGED <<buf, r, w, e>> PROVE UNCHANGED <<Segment(r, w), Segment(w, e)>>
    BY Zenon, <2>4 DEF Segment, CharAt
  <2>5. ASSUME NEW p \in Reader, NEW n \in 1..MaxRead, Read(p, n) PROVE Lines!LqNext
    <3>1. Lines!BeginRead(p)
      BY Zenon, <2>4, <2>5 DEF Read, Lines!BeginRead
    <3> QED
      BY Zenon, <3>1 DEF Lines!LqNext
  <2>6. ASSUME NEW p \in Reader, ReadEnter(p) \/ ReadSleeps(p) \/ ReadFull(p) PROVE Lines!LqNext
    <3>1. Lines!Pass
      BY Zenon, <2>4, <2>6 DEF ReadEnter, ReadSleeps, ReadFull, Leave, Lines!Pass
    <3> QED
      BY Zenon, <3>1 DEF Lines!LqNext
  <2>7. ASSUME NEW p \in Reader, KillReader(p) PROVE UNCHANGED Lines!lqVars
    BY Zenon, <2>4, <2>7 DEF KillReader, Lines!lqVars
  <2>8. CASE UNCHANGED conVars
    BY Zenon, <2>4, <2>8 DEF conVars, Lines!lqVars
  <2> QED
    BY Zenon, <2>1, <2>2, <2>3, <2>5, <2>6, <2>7, <2>8 DEF ConNext, ConsoleIntr, ConReaderStep
<1> QED
  BY <1>1, <1>2, ConInvariant, PTL DEF ConSpec, ImplementsLines, Lines!LqSpec

=============================================================================
