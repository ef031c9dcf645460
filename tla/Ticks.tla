------------------------------- MODULE Ticks --------------------------------
(***************************************************************************)
(* sys_sleep() and sys_uptime() of kernel/sysproc.c against clockintr() of *)
(* kernel/trap.c.  Everything happens under tickslock; a step is a         *)
(* critical section.  ticks is a uint, of TUINT values, and sys_sleep()    *)
(* compares the difference of two uints with an int, which makes the       *)
(* comparison unsigned.                                                    *)
(***************************************************************************)
EXTENDS Integers

CONSTANTS Sleeper, TUINT, Naps    \* Naps: the arguments of sleep()

(* n is an int, no wider than a uint. *)
ASSUME TicksAssumption ==
  /\ TUINT \in Nat \ {0}
  /\ \A n \in Naps : n \in Int /\ -TUINT < n /\ n < TUINT

VARIABLES ticks, ticks0, nap,
          tpc,        \* "out", "test" (in the loop, about to take tickslock), "asleep"
          tkilled,
          passed,     \* history: the ticks since the call, up to TUINT
          early       \* history: a sleep() returned 0 too early

tkVars == <<ticks, ticks0, nap, tpc, tkilled, passed, early>>

TkTypeOK ==
  /\ ticks \in 0..(TUINT - 1) /\ ticks0 \in [Sleeper -> 0..(TUINT - 1)]
  /\ nap \in [Sleeper -> Naps \cup {0}]
  /\ tpc \in [Sleeper -> {"out", "test", "asleep"}] /\ tkilled \subseteq Sleeper
  /\ passed \in [Sleeper -> 0..TUINT] /\ early \in BOOLEAN

TkInit ==
  /\ ticks = 0 /\ ticks0 = [p \in Sleeper |-> 0] /\ nap = [p \in Sleeper |-> 0]
  /\ tpc = [p \in Sleeper |-> "out"] /\ tkilled = {}
  /\ passed = [p \in Sleeper |-> 0] /\ early = FALSE
-----------------------------------------------------------------------------
TickOne == (ticks + 1) % TUINT

(* wakeup(&ticks) *)
WakeTicks == [p \in Sleeper |-> IF tpc[p] = "asleep" THEN "test" ELSE tpc[p]]

(* clockintr() *)
ClockIntr ==
  /\ ticks' = TickOne
  /\ tpc' = WakeTicks
  /\ passed' = [p \in Sleeper |-> IF tpc[p] = "out" \/ passed[p] = TUINT THEN passed[p] ELSE passed[p] + 1]
  /\ UNCHANGED <<ticks0, nap, tkilled, early>>

(* ticks - ticks0 *)
Elapsed(p) == (ticks + TUINT - ticks0[p]) % TUINT

(* Mutant: the time to wake up is computed, and compared. *)
DueAt(p) == ticks >= (ticks0[p] + nap[p]) % TUINT

(* ~(ticks - ticks0 < n) *)
Due(p) == Elapsed(p) >= (nap[p] + TUINT) % TUINT

(* sys_sleep(): the loop, from one sleep() to the next. *)
SleepTest(p) ==
  /\ tpc[p] = "test"
  /\ tpc' = [tpc EXCEPT ![p] = IF Due(p) \/ p \in tkilled THEN "out" ELSE "asleep"]
  /\ early' = (early \/ (Due(p) /\ nap[p] >= 0 /\ passed[p] < nap[p]))
  /\ UNCHANGED <<ticks, ticks0, nap, tkilled, passed>>

(* ... and its beginning: ticks is read, and the test made, under the lock. *)
SysSleep(p, n) ==
  /\ tpc[p] = "out"
  /\ ticks0' = [ticks0 EXCEPT ![p] = ticks] /\ nap' = [nap EXCEPT ![p] = n]
  /\ passed' = [passed EXCEPT ![p] = 0]
  /\ tpc' = [tpc EXCEPT ![p] = IF n = 0 \/ p \in tkilled THEN "out" ELSE "asleep"]
  /\ UNCHANGED <<ticks, tkilled, early>>

KillSleeper(p) ==
  /\ p \notin tkilled
  /\ tkilled' = tkilled \cup {p}
  /\ tpc' = [tpc EXCEPT ![p] = IF @ = "asleep" THEN "test" ELSE @]
  /\ UNCHANGED <<ticks, ticks0, nap, passed, early>>

TkNext ==
  ClockIntr \/ \E p \in Sleeper : SleepTest(p) \/ KillSleeper(p) \/ \E n \in Naps : SysSleep(p, n)

TkSpec == TkInit /\ [][TkNext]_tkVars
-----------------------------------------------------------------------------
(* sleep(n) returns 0 after n ticks, not sooner, also when ticks wraps. *)
SleptEnough == ~early

(* Nobody sleeps whose time has come, unless ticks has gone round meanwhile; a
   negative n is a time of almost TUINT ticks. *)
NoTickMissed == \A p \in Sleeper : tpc[p] = "asleep" => ~Due(p)

(* sys_sleep() lasts as long as it should, neither less nor more. *)
NapExact == TkTypeOK /\ SleptEnough /\ NoTickMissed

(* Why: ticks - ticks0, modulo TUINT, is the time that has passed since the
   call, as long as that is less than TUINT. *)
NapInv == NapExact /\ \A p \in Sleeper : tpc[p] # "out" /\ passed[p] < TUINT => Elapsed(p) = passed[p]
=============================================================================
