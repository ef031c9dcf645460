-------------------------------- MODULE Trap --------------------------------
(***************************************************************************)
(* Interrupts: push_off() and pop_off() of kernel/spinlock.c, usertrap(),  *)
(* usertrapret() and kerneltrap() of kernel/trap.c, and what scheduler()   *)
(* and sched() do with intena, on harts that take an interrupt whenever    *)
(* they may.  Threads move from hart to hart.                              *)
(*                                                                         *)
(* stack[x] is the kernel stack of a thread, or of the scheduler of hart   *)
(* x; a frame is where it is and how many spinlocks it holds there:        *)
(*   "user"; "sys" in syscall(), with interrupts on; "utrap" in usertrap() *)
(*   for a device; "uret" in usertrapret(), before and "sret" after it has *)
(*   set the registers; "ktrap" in kerneltrap(), "kret" when it has        *)
(*   restored the registers; "yield" in sched(); "new" before forkret();   *)
(*   "loop" and "back" in scheduler(), before and after a swtch()          *)
(***************************************************************************)
EXTENDS Naturals, Sequences

CONSTANTS Hart, Thread, MaxHeld   \* MaxHeld: nested spinlocks, a bound

VARIABLES sie, noff, intena, stvec,   \* of a hart
          sepc, spp, spie,            \* its trap registers
          current,                    \* whose stack it is on
          stack, plock                \* plock[t]: the hart that holds p->lock, or none

trapVars == <<sie, noff, intena, stvec, sepc, spp, spie, current, stack, plock>>
regVars == <<sepc, spp, spie>>

NoHart == "none"

ASSUME TrapAssumption == MaxHeld \in Nat \ {0} /\ Hart \cap Thread = {} /\ NoHart \notin Hart

Frame(l) == [at |-> l, held |-> 0, timer |-> FALSE, intena |-> FALSE, pc |-> <<>>, spie |-> FALSE]
Labels == {"user", "sys", "utrap", "uret", "sret", "ktrap", "kret", "yield", "new", "loop", "back"}

Stacks == Thread \cup Hart

(* A frame of a stack, and where a trap returns to. *)
Places == {<<>>} \cup (Stacks \X (1..3))
Frames == [at : Labels, held : 0..MaxHeld, timer : BOOLEAN, intena : BOOLEAN, pc : Places, spie : BOOLEAN]

TopOf(x) == stack[x][Len(stack[x])]
Top(h) == TopOf(current[h])
Here(h, ls) == Top(h).at \in ls
SetTop(h, f) == stack' = [stack EXCEPT ![current[h]][Len(stack[current[h]])] = f]
Pop(s) == SubSeq(s, 1, Len(s) - 1)

TrTypeOK ==
  /\ sie \in [Hart -> BOOLEAN] /\ intena \in [Hart -> BOOLEAN]
  /\ noff \in [Hart -> 0..MaxHeld]
  /\ stvec \in [Hart -> {"uservec", "kernelvec"}]
  /\ sepc \in [Hart -> Places] /\ spp \in [Hart -> {"U", "S"}] /\ spie \in [Hart -> BOOLEAN]
  /\ current \in [Hart -> Stacks]
  /\ stack \in [Stacks -> Seq(Frames)] /\ \A x \in Stacks : Len(stack[x]) \in 1..3
  /\ plock \in [Thread -> Hart \cup {NoHart}]

(* Each hart enters scheduler(); the threads wait for forkret(). *)
TrInit ==
  /\ sie = [h \in Hart |-> FALSE] /\ noff = [h \in Hart |-> 0] /\ intena = [h \in Hart |-> FALSE]
  /\ stvec = [h \in Hart |-> "kernelvec"]
  /\ sepc = [h \in Hart |-> <<>>] /\ spp = [h \in Hart |-> "S"] /\ spie = [h \in Hart |-> FALSE]
  /\ current = [h \in Hart |-> h]
  /\ stack = [x \in Stacks |-> <<Frame(IF x \in Hart THEN "loop" ELSE "new")>>]
  /\ plock = [t \in Thread |-> NoHart]
-----------------------------------------------------------------------------
Saved(h) == IF noff[h] = 0 THEN sie[h] ELSE intena[h]

(* push_off() *)
PushOff(h) ==
  /\ intena' = [intena EXCEPT ![h] = Saved(h)]
  /\ noff' = [noff EXCEPT ![h] = @ + 1]
  /\ sie' = [sie EXCEPT ![h] = FALSE]

Reenable(h) == noff[h] = 1 /\ intena[h]

(* pop_off(), which is not called with interrupts on or noff 0: see LocksMatch. *)
PopOff(h) ==
  /\ noff' = [noff EXCEPT ![h] = @ - 1]
  /\ sie' = [sie EXCEPT ![h] = @ \/ Reenable(h)]

(* acquire() and release(), in a system call or in a handler. *)
Acquire(h) ==
  /\ Here(h, {"sys", "utrap", "ktrap"}) /\ Top(h).held < MaxHeld
  /\ PushOff(h)
  /\ SetTop(h, [Top(h) EXCEPT !.held = @ + 1])
  /\ UNCHANGED <<stvec, regVars, current, plock>>

Release(h) ==
  /\ Top(h).held > 0
  /\ PopOff(h)
  /\ SetTop(h, [Top(h) EXCEPT !.held = @ - 1])
  /\ UNCHANGED <<intena, stvec, regVars, current, plock>>
-----------------------------------------------------------------------------
(* The hardware takes a trap. *)
TakeTrap(h, mode) ==
  /\ sepc' = [sepc EXCEPT ![h] = <<current[h], Len(stack[current[h]])>>]
  /\ spp' = [spp EXCEPT ![h] = mode]

(* usertrap(): a system call turns interrupts on, ... *)
Ecall(h) ==
  /\ Here(h, {"user"})
  /\ TakeTrap(h, "U") /\ spie' = [spie EXCEPT ![h] = TRUE]
  /\ stvec' = [stvec EXCEPT ![h] = "kernelvec"]
  /\ sie' = [sie EXCEPT ![h] = TRUE]
  /\ SetTop(h, Frame("sys"))
  /\ UNCHANGED <<noff, intena, current, plock>>

(* ... an interrupt does not. *)
UserIntr(h, timer) ==
  /\ Here(h, {"user"})
  /\ TakeTrap(h, "U") /\ spie' = [spie EXCEPT ![h] = TRUE]
  /\ stvec' = [stvec EXCEPT ![h] = "kernelvec"]
  /\ sie' = [sie EXCEPT ![h] = FALSE]
  /\ SetTop(h, [Frame("utrap") EXCEPT !.timer = timer])
  /\ UNCHANGED <<noff, intena, current, plock>>

(* kerneltrap(), which saves the registers, in kernel code that can be interrupted. *)
KernelIntr(h, timer) ==
  LET x == current[h] IN
  /\ ~Here(h, {"user"}) /\ sie[h] /\ stvec[h] = "kernelvec"
  /\ TakeTrap(h, "S") /\ spie' = [spie EXCEPT ![h] = TRUE]
  /\ sie' = [sie EXCEPT ![h] = FALSE]
  /\ stack' = [stack EXCEPT ![x] = Append(@, [Frame("ktrap") EXCEPT
                 !.timer = timer, !.pc = sepc'[h], !.spie = spie'[h]])]
  /\ UNCHANGED <<noff, intena, stvec, current, plock>>

(* Mutant: the registers are left as the yield() has left them. *)
RestoredNot(h) == UNCHANGED regVars

(* w_sepc(sepc), w_sstatus(sstatus) *)
Restored(h) ==
  /\ sepc' = [sepc EXCEPT ![h] = Top(h).pc]
  /\ spp' = [spp EXCEPT ![h] = "S"]
  /\ spie' = [spie EXCEPT ![h] = Top(h).spie]

KernelRestore(h) ==
  /\ Here(h, {"ktrap"}) /\ Top(h).held = 0
  /\ Top(h).timer => current[h] \in Hart      \* yield() was called
  /\ Restored(h)
  /\ SetTop(h, [Top(h) EXCEPT !.at = "kret"])
  /\ UNCHANGED <<sie, noff, intena, stvec, current, plock>>

(* kernelvec's sret *)
KernelReturn(h) ==
  /\ Here(h, {"kret"})
  /\ sie' = [sie EXCEPT ![h] = spie[h]]
  /\ stack' = [stack EXCEPT ![current[h]] = Pop(@)]
  /\ UNCHANGED <<noff, intena, stvec, regVars, current, plock>>

(* intr_off() *)
ReturnOff(h) == sie' = [sie EXCEPT ![h] = FALSE]

(* usertrapret() ... *)
UserTrapRet(h) ==
  /\ Here(h, {"sys", "utrap", "uret"}) /\ Top(h).held = 0
  /\ ~Top(h).timer
  /\ ReturnOff(h)
  /\ stvec' = [stvec EXCEPT ![h] = "uservec"]
  /\ spp' = [spp EXCEPT ![h] = "U"] /\ spie' = [spie EXCEPT ![h] = TRUE]
  /\ sepc' = [sepc EXCEPT ![h] = <<current[h], 1>>]
  /\ SetTop(h, Frame("sret"))
  /\ UNCHANGED <<noff, intena, current, plock>>

(* ... and userret's sret. *)
UserReturn(h) ==
  /\ Here(h, {"sret"})
  /\ sie' = [sie EXCEPT ![h] = spie[h]]
  /\ SetTop(h, Frame("user"))
  /\ UNCHANGED <<noff, intena, stvec, regVars, current, plock>>
-----------------------------------------------------------------------------
(* scheduler(): intr_on() at the head of its outer loop. *)
IntrOn(h) ==
  /\ Here(h, {"loop"}) /\ ~sie[h]
  /\ sie' = [sie EXCEPT ![h] = TRUE]
  /\ UNCHANGED <<noff, intena, stvec, regVars, current, stack, plock>>

(* mycpu()->intena = intena, in sched(); forkret() keeps the scheduler's. *)
Resumed(h, t) == IF TopOf(t).at = "yield" THEN TopOf(t).intena ELSE Saved(h)

(* scheduler(): acquire(&p->lock) and swtch() to a RUNNABLE thread. *)
SwtchIn(h, t) ==
  /\ Here(h, {"loop"})
  /\ plock[t] = NoHart /\ TopOf(t).at \in {"yield", "new"} /\ \A g \in Hart : current[g] # t
  /\ plock' = [plock EXCEPT ![t] = h]
  /\ noff' = [noff EXCEPT ![h] = @ + 1] /\ sie' = [sie EXCEPT ![h] = FALSE]
  /\ intena' = [intena EXCEPT ![h] = Resumed(h, t)]
  /\ current' = [current EXCEPT ![h] = t]
  /\ stack' = [stack EXCEPT ![h] = <<Frame("back")>>]
  /\ UNCHANGED <<stvec, regVars>>

(* The thread releases p->lock, in yield() or in forkret(). *)
Resume(h) ==
  LET t == current[h] IN
  /\ Here(h, {"yield", "new"})
  /\ PopOff(h)
  /\ plock' = [plock EXCEPT ![t] = NoHart]
  /\ stack' = [stack EXCEPT ![t] = IF TopOf(t).at = "new" THEN <<Frame("uret")>>
                                   ELSE LET s == Pop(@) IN [s EXCEPT ![Len(s)].timer = FALSE]]
  /\ UNCHANGED <<intena, stvec, regVars, current>>

(* yield(), for the timer or in sleep(), and sched(): acquire(&p->lock), and
   swtch() to the scheduler. *)
Yield(h) ==
  LET t == current[h] IN
  /\ t \in Thread /\ Top(h).held = 0
  /\ \/ Here(h, {"sys"})
     \/ Here(h, {"utrap", "ktrap"}) /\ Top(h).timer
  /\ plock[t] = NoHart
  /\ PushOff(h)
  /\ plock' = [plock EXCEPT ![t] = h]
  /\ stack' = [stack EXCEPT ![t] = Append(@, [Frame("yield") EXCEPT !.intena = Saved(h)])]
  /\ current' = [current EXCEPT ![h] = h]
  /\ UNCHANGED <<stvec, regVars>>

(* scheduler() after swtch(): release(&p->lock). *)
SwtchBack(h) ==
  /\ Here(h, {"back"})
  /\ PopOff(h)
  /\ plock' = [t \in Thread |-> IF plock[t] = h THEN NoHart ELSE plock[t]]
  /\ SetTop(h, Frame("loop"))
  /\ UNCHANGED <<intena, stvec, regVars, current>>

TrNext ==
  \E h \in Hart :
    \/ Acquire(h) \/ Release(h) \/ Ecall(h) \/ UserTrapRet(h) \/ UserReturn(h)
    \/ KernelRestore(h) \/ KernelReturn(h)
    \/ \E timer \in BOOLEAN : UserIntr(h, timer) \/ KernelIntr(h, timer)
    \/ IntrOn(h) \/ Resume(h) \/ Yield(h) \/ SwtchBack(h)
    \/ \E t \in Thread : SwtchIn(h, t)

TrSpec == TrInit /\ [][TrNext]_trapVars
-----------------------------------------------------------------------------
(* "disable interrupts to avoid deadlock": a hart that holds a spinlock is not
   interrupted, so that no handler spins for a lock of the code below it. *)
NoTrapWithLock ==
  /\ \A h \in Hart : noff[h] > 0 => ~sie[h]
  /\ \A x \in Stacks : \A k \in 1..(Len(stack[x]) - 1) : stack[x][k].held = 0

(* noff is the number of locks held: pop_off() does not panic, and sched() is
   entered with p->lock alone. *)
LocksMatch ==
  \A h \in Hart : noff[h] = Top(h).held + (IF Here(h, {"yield", "new", "back"}) THEN 1 ELSE 0)

(* "intena is a property of this kernel thread, not this CPU": without locks a
   system call runs with interrupts on, and a handler with interrupts off, also
   after it has yielded and gone on on another hart. *)
IntrFollowsThread ==
  \A h \in Hart : Top(h).held = 0 => /\ Here(h, {"sys"}) => sie[h]
                                     /\ Here(h, {"utrap", "ktrap", "kret", "sret"}) => ~sie[h]

(* kerneltrap() returns to what it has interrupted, with interrupts on, although
   other traps came in between ("the yield() may have caused some traps"). *)
TrapReturns ==
  \A h \in Hart : Here(h, {"kret"}) =>
    /\ sepc[h] = <<current[h], Len(stack[current[h]]) - 1>>
    /\ spp[h] = "S" /\ spie[h]

(* In the kernel, an interrupt that can come goes to kerneltrap(); in user
   space, to usertrap(), which panics on one from the kernel. *)
VectorRight ==
  \A h \in Hart : /\ Here(h, {"user"}) => stvec[h] = "uservec" /\ noff[h] = 0
                  /\ ~Here(h, {"user"}) /\ sie[h] => stvec[h] = "kernelvec"

(* push_off(), sched() and the trap handlers keep the interrupt state and the
   trap registers right through locks, nested traps and moves between harts. *)
TrapSafe == TrTypeOK /\ NoTrapWithLock /\ LocksMatch /\ IntrFollowsThread /\ TrapReturns /\ VectorRight

(* Why.  Only what can be interrupted lies below a handler, and only what may
   call yield() below a "yield", which holds the intena of the code below it;
   locks are held at the top. *)
FrameOK(x, k) ==
  LET f == stack[x][k] IN
  /\ k = 1 <=> f.at \notin {"ktrap", "kret", "yield"}
  /\ k = 1 => (x \in Hart <=> f.at \in {"loop", "back"})
  /\ f.held > 0 => f.at \in {"sys", "utrap", "ktrap"}
  /\ f.at \in {"ktrap", "kret"} =>
       stack[x][k - 1].at \in {"sys", "uret", "loop"} /\ f.pc = <<x, k - 1>> /\ f.spie
  /\ f.at = "yield" => /\ k = Len(stack[x]) /\ x \in Thread
                       /\ stack[x][k - 1].at \in {"sys", "utrap", "ktrap"}
                       /\ f.intena <=> stack[x][k - 1].at = "sys"
StacksInv == \A x \in Stacks : \A k \in 1..Len(stack[x]) : FrameOK(x, k)

(* A hart is on a stack of its own, or on that of a thread from scheduler(). *)
CurrentInv ==
  /\ \A h \in Hart : current[h] = h \/ (current[h] \in Thread /\ stack[h] = <<Frame("back")>>)
  /\ \A g, h \in Hart : current[g] = current[h] => g = h

(* With locks held, intena is what pop_off() must go back to; stvec is the
   user's from usertrapret() to the next trap. *)
HartInv ==
  \A h \in Hart :
    /\ Top(h).held > 0 => (intena[h] <=> Here(h, {"sys"}))
    /\ Here(h, {"yield"}) => intena[h] = Top(h).intena
    /\ stvec[h] = IF Here(h, {"user", "sret"}) THEN "uservec" ELSE "kernelvec"

TrapInv == TrapSafe /\ StacksInv /\ CurrentInv /\ HartInv
=============================================================================
