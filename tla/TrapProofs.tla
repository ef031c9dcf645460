----------------------------- MODULE TrapProofs -----------------------------
(***************************************************************************)
(* Proofs about interrupts, traps and the switch between threads (Trap),   *)
(* for every number of harts and threads and every depth of spinlocks.     *)
(***************************************************************************)
EXTENDS Trap, TLAPS

(* What changing, pushing and popping the top frame does to a stack. *)
LEMMA PopLast ==
  ASSUME NEW S, NEW s \in Seq(S), Len(s) >= 1
  PROVE  /\ Pop(s) \in Seq(S) /\ Len(Pop(s)) = Len(s) - 1
         /\ \A k \in 1..(Len(s) - 1) : Pop(s)[k] = s[k]
<1>1. Len(s) \in Nat /\ Len(s) - 1 \in Nat
  OBVIOUS
<1>2. Pop(s) \in Seq(S)
  BY <1>1 DEF Pop
<1>3. Len(Pop(s)) = Len(s) - 1
  <2>1. CASE Len(s) = 1
    BY <2>1 DEF Pop
  <2>2. CASE Len(s) >= 2
    BY <2>2 DEF Pop
  <2>3. \A n \in Nat : n >= 1 => n = 1 \/ n >= 2
    OBVIOUS
  <2> QED
    BY Zenon, <1>1, <2>1, <2>2, <2>3
<1>4. \A k \in 1..(Len(s) - 1) : Pop(s)[k] = s[k]
  BY <1>1 DEF Pop
<1> QED
  BY Zenon, <1>2, <1>3, <1>4

(* Changing the top keeps what is below it. *)
LEMMA SetLast ==
  ASSUME NEW S, NEW s \in Seq(S), NEW n \in 1..Len(s), NEW f \in S
  PROVE  /\ [s EXCEPT ![n] = f] \in Seq(S) /\ Len([s EXCEPT ![n] = f]) = Len(s)
         /\ [s EXCEPT ![n] = f][n] = f
         /\ \A k \in 1..Len(s) : k # n => [s EXCEPT ![n] = f][k] = s[k]
OBVIOUS

(* Pushing a frame keeps what is below it. *)
LEMMA PushLast ==
  ASSUME NEW S, NEW s \in Seq(S), NEW f \in S
  PROVE  /\ Append(s, f) \in Seq(S) /\ Len(Append(s, f)) = Len(s) + 1
         /\ Append(s, f)[Len(s) + 1] = f
         /\ \A k \in 1..Len(s) : Append(s, f)[k] = s[k]
OBVIOUS

(* TrapInv, one stack and one hart at a time. *)
StackOK(x) ==
  \A k \in 1..Len(stack[x]) : FrameOK(x, k) /\ (k < Len(stack[x]) => stack[x][k].held = 0)

HartFits(h, f, p) ==
  /\ noff[h] > 0 => ~sie[h]
  /\ noff[h] = f.held + (IF f.at \in {"yield", "new", "back"} THEN 1 ELSE 0)
  /\ f.held = 0 => /\ f.at \in {"sys"} => sie[h]
                   /\ f.at \in {"utrap", "ktrap", "kret", "sret"} => ~sie[h]
  /\ f.held > 0 => (intena[h] <=> f.at \in {"sys"})
  /\ f.at \in {"yield"} => intena[h] = f.intena
  /\ stvec[h] = IF f.at \in {"user", "sret"} THEN "uservec" ELSE "kernelvec"
  /\ f.at \in {"kret"} => sepc[h] = p /\ spp[h] = "S" /\ spie[h]
HartOK(h) == HartFits(h, Top(h), <<current[h], Len(stack[current[h]]) - 1>>)

(* The top of the stack that a hart is on. *)
LEMMA TopIs ==
  ASSUME TrTypeOK, StacksInv, NEW h \in Hart
  PROVE  /\ current[h] \in Stacks /\ stack[current[h]] \in Seq(Frames) /\ Len(stack[current[h]]) \in 1..3
         /\ Top(h) = stack[current[h]][Len(stack[current[h]])] /\ Top(h) \in Frames
         /\ FrameOK(current[h], Len(stack[current[h]]))
<1>1. current[h] \in Stacks /\ stack[current[h]] \in Seq(Frames) /\ Len(stack[current[h]]) \in 1..3
  BY Zenon DEF TrTypeOK
<1>2. \A n \in 1..3 : n \in 1..n
  OBVIOUS
<1>3. Top(h) = stack[current[h]][Len(stack[current[h]])]
  BY Zenon DEF Top, TopOf
<1>4. Len(stack[current[h]]) \in 1..Len(stack[current[h]])
  BY Zenon, <1>1, <1>2
<1>5. Top(h) \in Frames
  BY <1>1, <1>3, <1>4
<1> QED
  BY Zenon, <1>1, <1>3, <1>4, <1>5 DEF StacksInv

Parts == CurrentInv /\ (\A x \in Stacks : StackOK(x)) /\ (\A h \in Hart : HartOK(h))

(* With the types, TrapInv is what it says of each stack and of each hart. *)
LEMMA TrapParts == TrTypeOK => (TrapInv <=> Parts)
<1> SUFFICES ASSUME TrTypeOK PROVE TrapInv <=> Parts
  BY Zenon
<1>1. StacksInv /\ NoTrapWithLock <=> /\ \A x \in Stacks : StackOK(x)
                                      /\ \A h \in Hart : noff[h] > 0 => ~sie[h]
  <2>1. \A x \in Stacks : Len(stack[x]) \in 1..3
    BY Zenon DEF TrTypeOK
  <2>2. \A x \in Stacks : \A k : k \in 1..(Len(stack[x]) - 1) <=> k \in 1..Len(stack[x]) /\ k < Len(stack[x])
    BY <2>1
  <2> QED
    BY Zenon, <2>2 DEF StacksInv, NoTrapWithLock, StackOK
<1>2. ASSUME \A x \in Stacks : StackOK(x), NEW h \in Hart
      PROVE  Top(h).held = 0 \/ Top(h).held > 0
  <2>1. StacksInv
    BY Zenon, <1>2 DEF StackOK, StacksInv
  <2>2. Top(h).held \in 0..MaxHeld
    BY Zenon, <2>1, TopIs DEF Frames
  <2> QED
    BY <2>2, TrapAssumption
<1>3. ASSUME CurrentInv, \A x \in Stacks : StackOK(x), NEW h \in Hart, HartOK(h)
      PROVE  /\ Here(h, {"user"}) => stvec[h] = "uservec" /\ noff[h] = 0
             /\ ~Here(h, {"user"}) /\ sie[h] => stvec[h] = "kernelvec"
  <2>1. StacksInv
    BY Zenon, <1>3 DEF StackOK, StacksInv
  <2>2. Top(h).held > 0 => Top(h).at \in {"sys", "utrap", "ktrap"}
    BY Zenon, <2>1, TopIs DEF FrameOK
  <2>3. Here(h, {"user", "sret"}) => Top(h).held = 0
    BY Zenon, <1>2, <1>3, <2>2 DEF Here
  <2>4. CASE Here(h, {"user"})
    BY <1>3, <2>3, <2>4 DEF HartOK, HartFits, Here
  <2>5. CASE Here(h, {"sret"})
    BY Zenon, <1>3, <2>3, <2>5 DEF HartOK, HartFits, Here
  <2>6. CASE ~Here(h, {"user", "sret"})
    BY Zenon, <1>3, <2>6 DEF HartOK, HartFits, Here
  <2> QED
    BY Zenon, <2>4, <2>5, <2>6 DEF Here
<1> QED
  BY <1>1, <1>3 DEF TrapInv, TrapSafe, LocksMatch, IntrFollowsThread, TrapReturns, VectorRight,
     HartInv, HartOK, HartFits, Here,
     NoTrapWithLock, Parts

(* Nobody runs on the stack of a scheduler that has switched to a thread. *)
LEMMA NotOnIt ==
  ASSUME CurrentInv, NEW g \in Hart, NEW h \in Hart, current[g] # g
  PROVE  g # current[h]
<1>1. current[h] = h \/ current[h] \in Thread
  BY Zenon DEF CurrentInv
<1>2. current[h] = h => g # current[h]
  BY Zenon
<1>3. current[h] \in Thread => g # current[h]
  BY Zenon, TrapAssumption
<1> QED
  BY Zenon, <1>1, <1>2, <1>3

(* A step of one hart is no business of the others, nor of the other stacks. *)
LEMMA OtherHarts ==
  ASSUME TrTypeOK, CurrentInv, NEW h \in Hart,
         \A x \in Stacks : StackOK(x), \A g \in Hart : HartOK(g),
         \A g \in Hart \ {h} : /\ sie'[g] = sie[g] /\ noff'[g] = noff[g] /\ intena'[g] = intena[g]
                               /\ stvec'[g] = stvec[g] /\ sepc'[g] = sepc[g] /\ spp'[g] = spp[g]
                               /\ spie'[g] = spie[g] /\ current'[g] = current[g],
         \A x \in Stacks \ {current[h]} : stack'[x] = stack[x]
  PROVE  /\ \A x \in Stacks \ {current[h]} : StackOK(x)'
         /\ \A g \in Hart \ {h} : HartOK(g)'
<1>1. ASSUME NEW x \in Stacks \ {current[h]} PROVE StackOK(x)'
  BY <1>1 DEF StackOK, FrameOK
<1>2. ASSUME NEW g \in Hart \ {h} PROVE HartOK(g)'
  <2>1. current[g] \in Stacks \ {current[h]}
    BY Zenon DEF CurrentInv, TrTypeOK
  <2>2. Top(g)' = Top(g) /\ Len(stack'[current'[g]]) = Len(stack[current[g]])
    BY Zenon, <2>1 DEF Top, TopOf
  <2> QED
    BY <2>2 DEF HartOK, HartFits, Here
<1> QED
  BY Zenon, <1>1, <1>2

(* The frames below the top stay as they are: what is left to show is the top. *)
LEMMA StackStep ==
  ASSUME TrTypeOK, TrTypeOK', NEW x \in Stacks, StackOK(x), NEW m \in Nat, Len(stack'[x]) = m,
         m <= Len(stack[x]) + 1, \A k \in 1..(m - 1) : stack'[x][k] = stack[x][k],
         m > Len(stack[x]) => stack[x][m - 1].held = 0 /\ stack[x][m - 1].at # "yield",
         FrameOK(x, m)'
  PROVE  StackOK(x)'
<1>0. Len(stack[x]) \in 1..3 /\ m \in 1..3
  BY Zenon DEF TrTypeOK
<1>1. ASSUME NEW k \in 1..(m - 1) PROVE FrameOK(x, k)' /\ stack'[x][k].held = 0
  <2>1. k \in 1..Len(stack[x]) /\ stack'[x][k] = stack[x][k]
    BY <1>0
  <2>2. FrameOK(x, k) /\ (k < Len(stack[x]) => stack[x][k].held = 0)
    BY Zenon, <2>1 DEF StackOK
  <2>3. k = Len(stack[x]) => m = Len(stack[x]) + 1 /\ m - 1 = k
    BY <1>0
  <2>4. stack[x][k].held = 0 /\ stack[x][k].at # "yield"
    BY <1>0, <2>1, <2>2, <2>3 DEF FrameOK
  <2>5. k > 1 => k - 1 \in 1..(m - 1)
    BY <1>0
  <2>6. k = 1 => stack[x][k].at \notin {"ktrap", "kret"}
    BY Zenon, <2>2 DEF FrameOK
  <2>7. k > 1 => stack'[x][k - 1] = stack[x][k - 1]
    BY Zenon, <2>5
  <2> QED
    BY <1>0, <2>1, <2>2, <2>4, <2>6, <2>7 DEF FrameOK
<1>2. \A k \in 1..m : k \in 1..(m - 1) \/ k = m
  BY <1>0
<1>3. ~(m < m)
  BY <1>0
<1> QED
  BY Zenon, <1>1, <1>2, <1>3 DEF StackOK

(* SetTop() *)
LEMMA SetTopDoes ==
  ASSUME TrTypeOK, StacksInv, NEW h \in Hart, NEW f \in Frames, SetTop(h, f)
  PROVE  /\ stack' \in [Stacks -> Seq(Frames)]
         /\ Len(stack'[current[h]]) = Len(stack[current[h]])
         /\ stack'[current[h]][Len(stack[current[h]])] = f
         /\ \A k \in 1..(Len(stack[current[h]]) - 1) : stack'[current[h]][k] = stack[current[h]][k]
         /\ \A x \in Stacks \ {current[h]} : stack'[x] = stack[x]
<1>0. current[h] \in Stacks /\ stack[current[h]] \in Seq(Frames) /\ Len(stack[current[h]]) \in 1..3
  BY Zenon DEF TrTypeOK
<1>1. /\ Len(stack[current[h]]) \in 1..Len(stack[current[h]])
      /\ \A k \in 1..(Len(stack[current[h]]) - 1) : k \in 1..Len(stack[current[h]]) /\ k # Len(stack[current[h]])
  <2>1. \A n \in 1..3 : n \in 1..n /\ \A k \in 1..(n - 1) : k \in 1..n /\ k # n
    OBVIOUS
  <2> QED
    BY Zenon, <1>0, <2>1
<1>2. /\ stack'[current[h]] = [stack[current[h]] EXCEPT ![Len(stack[current[h]])] = f]
      /\ \A x \in Stacks \ {current[h]} : stack'[x] = stack[x] /\ stack[x] \in Seq(Frames)
      /\ DOMAIN stack' = Stacks /\ stack' = [x \in Stacks |-> stack'[x]]
  BY Zenon, <1>0 DEF SetTop, TrTypeOK
<1>3. /\ stack'[current[h]] \in Seq(Frames) /\ Len(stack'[current[h]]) = Len(stack[current[h]])
      /\ stack'[current[h]][Len(stack[current[h]])] = f
      /\ \A k \in 1..Len(stack[current[h]]) :
           k # Len(stack[current[h]]) => stack'[current[h]][k] = stack[current[h]][k]
  BY <1>0, <1>1, <1>2, SetLast
<1> QED
  BY Zenon, <1>1, <1>2, <1>3

(* What a step of hart h leaves alone. *)
OthersKept(h) ==
  \A g \in Hart \ {h} : /\ sie'[g] = sie[g] /\ noff'[g] = noff[g] /\ intena'[g] = intena[g]
                        /\ stvec'[g] = stvec[g] /\ sepc'[g] = sepc[g] /\ spp'[g] = spp[g]
                        /\ spie'[g] = spie[g] /\ current'[g] = current[g]

(* What is left to show of a step of hart h, on stack x. *)
LEMMA Finish ==
  ASSUME TrapInv, TrTypeOK', CurrentInv', NEW h \in Hart, NEW x \in Stacks, x = current[h],
         NEW m \in Nat, Len(stack'[x]) = m, m <= Len(stack[x]) + 1,
         \A k \in 1..(m - 1) : stack'[x][k] = stack[x][k],
         m > Len(stack[x]) => stack[x][m - 1].held = 0 /\ stack[x][m - 1].at # "yield",
         FrameOK(x, m)',
         \A y \in Stacks \ {x} : stack'[y] = stack[y],
         OthersKept(h), HartOK(h)'
  PROVE  TrapInv'
<1>1. TrTypeOK /\ Parts
  BY Zenon, TrapParts DEF TrapInv, TrapSafe
<1>2. \A y \in Stacks \ {x} : StackOK(y)'
  BY Zenon, <1>1, OtherHarts DEF Parts, OthersKept
<1>3. \A g \in Hart \ {h} : HartOK(g)'
  BY Zenon, <1>1, OtherHarts DEF Parts, OthersKept
<1>4. StackOK(x)'
  BY Zenon, <1>1, StackStep DEF Parts
<1>5. Parts'
  BY Zenon, <1>2, <1>3, <1>4 DEF Parts
<1> QED
  BY <1>5, TrapParts, PTL

(* The stack x of hart h, of n frames, and its top t. *)
IsTop(h, x, n, t) ==
  /\ x = current[h] /\ n = Len(stack[x]) /\ stack[x] \in Seq(Frames)
  /\ t = Top(h) /\ t = stack[x][n]
  /\ FrameOK(x, n) /\ HartFits(h, t, <<x, n - 1>>)

(* Every hart is on a stack that has a top. *)
LEMMA Now ==
  ASSUME TrapInv, NEW h \in Hart
  PROVE  \E x \in Stacks, n \in 1..3, t \in Frames : IsTop(h, x, n, t)
<1>1. TrTypeOK /\ StacksInv /\ Parts
  BY Zenon, TrapParts DEF TrapInv, TrapSafe
<1>2. HartOK(h)
  BY Zenon, <1>1 DEF Parts
<1>3. /\ current[h] \in Stacks /\ stack[current[h]] \in Seq(Frames) /\ Len(stack[current[h]]) \in 1..3
      /\ Top(h) = stack[current[h]][Len(stack[current[h]])] /\ Top(h) \in Frames
      /\ FrameOK(current[h], Len(stack[current[h]]))
  BY Zenon, <1>1, TopIs
<1> QED
  BY Zenon, <1>2, <1>3 DEF HartOK, IsTop

(* TrTypeOK but for the stacks. *)
RegsOK ==
  /\ sie \in [Hart -> BOOLEAN] /\ intena \in [Hart -> BOOLEAN]
  /\ noff \in [Hart -> 0..MaxHeld]
  /\ stvec \in [Hart -> {"uservec", "kernelvec"}]
  /\ sepc \in [Hart -> Places] /\ spp \in [Hart -> {"U", "S"}] /\ spie \in [Hart -> BOOLEAN]
  /\ current \in [Hart -> Stacks]
  /\ plock \in [Thread -> Hart \cup {NoHart}]

(* Without locks, noff is 1 between sched() and the release of p->lock and 0 elsewhere. *)
LEMMA NoLocks ==
  ASSUME NEW h, NEW t, NEW p, HartFits(h, t, p), t.held = 0
  PROVE  noff[h] = IF t.at \in {"yield", "new", "back"} THEN 1 ELSE 0
BY DEF HartFits

(* Which frame may take the place of the top. *)
Replaces(f, t) ==
  /\ f.at \in {"ktrap", "kret"} <=> t.at \in {"ktrap", "kret"}
  /\ f.at \in {"loop", "back"} <=> t.at \in {"loop", "back"}
  /\ f.at # "yield" /\ t.at # "yield"
  /\ f.held > 0 => f.at \in {"sys", "utrap", "ktrap"}
  /\ f.at \in {"ktrap", "kret"} => f.pc = t.pc /\ f.spie = t.spie

(* A step of hart h that only changes the top of its stack. *)
LEMMA TopKept ==
  ASSUME TrapInv, NEW h \in Hart, NEW x \in Stacks, NEW n \in 1..3, NEW t \in Frames, IsTop(h, x, n, t),
         NEW f \in Frames,
         stack' \in [Stacks -> Seq(Frames)], \A y \in Stacks \ {x} : stack'[y] = stack[y],
         Len(stack'[x]) = n, stack'[x][n] = f, \A k \in 1..(n - 1) : stack'[x][k] = stack[x][k],
         Replaces(f, t), current' = current, RegsOK', OthersKept(h),
         HartFits(h, f, <<x, n - 1>>)'
  PROVE  TrapInv'
<1>1. TrTypeOK /\ StacksInv /\ CurrentInv
  BY Zenon DEF TrapInv, TrapSafe
<1>2. x = current[h] /\ n = Len(stack[x])
  BY Zenon DEF IsTop
<1>4. \A y \in Stacks : Len(stack'[y]) \in 1..3
  BY Zenon, <1>1, <1>2 DEF TrTypeOK
<1>5. TrTypeOK'
  BY Zenon, <1>4 DEF TrTypeOK, RegsOK
<1>6. CurrentInv'
  <2>1. ASSUME NEW g \in Hart, current[g] # g PROVE stack'[g] = stack[g]
    <3>1. g # x
      BY Zenon, <1>1, <1>2, <2>1, NotOnIt
    <3> QED
      BY Zenon, <3>1 DEF Stacks
  <2> QED
    BY Zenon, <1>1, <2>1 DEF CurrentInv
<1>7. FrameOK(x, n)'
  <2>1. n > 1 => n - 1 \in 1..(n - 1) /\ stack'[x][n - 1] = stack[x][n - 1]
    OBVIOUS
  <2>2. FrameOK(x, n) /\ t = stack[x][n]
    BY Zenon DEF IsTop
  <2>3. t.at \in {"ktrap", "kret"} <=> n # 1
    BY Zenon, <2>2 DEF FrameOK, Replaces
  <2> QED
    BY <2>1, <2>2, <2>3 DEF FrameOK, Replaces
<1>8. HartOK(h)'
  <2>1. Top(h)' = f /\ current'[h] = x /\ Len(stack'[x]) = n
    BY Zenon, <1>2 DEF Top, TopOf
  <2> QED
    BY Zenon, <2>1 DEF HartOK
<1>9. n \in Nat /\ n <= Len(stack[x]) + 1 /\ ~(n > Len(stack[x]))
  BY <1>2
<1> QED
  BY Zenon, <1>2, <1>5, <1>6, <1>7, <1>8, <1>9, Finish

(* SetTop() is such a step. *)
LEMMA TopStep ==
  ASSUME TrapInv, NEW h \in Hart, NEW x \in Stacks, NEW n \in 1..3, NEW t \in Frames, IsTop(h, x, n, t),
         NEW f \in Frames, SetTop(h, f), Replaces(f, t), current' = current, RegsOK', OthersKept(h),
         HartFits(h, f, <<x, n - 1>>)'
  PROVE  TrapInv'
<1>1. TrTypeOK /\ StacksInv
  BY Zenon DEF TrapInv, TrapSafe
<1>2. x = current[h] /\ n = Len(stack[x])
  BY Zenon DEF IsTop
<1>3. /\ stack' \in [Stacks -> Seq(Frames)]
      /\ Len(stack'[current[h]]) = Len(stack[current[h]])
      /\ stack'[current[h]][Len(stack[current[h]])] = f
      /\ \A k \in 1..(Len(stack[current[h]]) - 1) : stack'[current[h]][k] = stack[current[h]][k]
      /\ \A y \in Stacks \ {current[h]} : stack'[y] = stack[y]
  BY Zenon, <1>1, SetTopDoes
<1>4. /\ stack' \in [Stacks -> Seq(Frames)] /\ \A y \in Stacks \ {x} : stack'[y] = stack[y]
      /\ Len(stack'[x]) = n /\ stack'[x][n] = f /\ \A k \in 1..(n - 1) : stack'[x][k] = stack[x][k]
  BY Zenon, <1>2, <1>3
<1> QED
  BY Zenon, <1>4, TopKept

(* Frames of a new trap and changed ones. *)
LEMMA NewFrame ==
  ASSUME NEW l \in Labels, NEW tm \in BOOLEAN
  PROVE  /\ [Frame(l) EXCEPT !.timer = tm] \in Frames /\ Frame(l) \in Frames
         /\ [Frame(l) EXCEPT !.timer = tm].at = l /\ [Frame(l) EXCEPT !.timer = tm].held = 0
         /\ Frame(l).at = l /\ Frame(l).held = 0
<1>1. 0 \in 0..MaxHeld /\ <<>> \in Places
  BY TrapAssumption DEF Places
<1>2. Frame(l) \in Frames
  BY Zenon, <1>1 DEF Frames, Frame
<1>3. [Frame(l) EXCEPT !.timer = tm] \in Frames
  BY Zenon, <1>2 DEF Frames
<1> QED
  BY Zenon, <1>2, <1>3 DEF Frame

(* A frame with another number of locks is a frame. *)
LEMMA HeldFrame ==
  ASSUME NEW t \in Frames, NEW d \in 0..MaxHeld
  PROVE  /\ [t EXCEPT !.held = d] \in Frames
         /\ [t EXCEPT !.held = d].at = t.at /\ [t EXCEPT !.held = d].held = d
         /\ [t EXCEPT !.held = d].pc = t.pc /\ [t EXCEPT !.held = d].spie = t.spie
<1>1. [t EXCEPT !.held = d] \in Frames
  BY Zenon DEF Frames
<1> QED
  BY Zenon, <1>1 DEF Frames

(* So is one that is somewhere else, ... *)
LEMMA MovedFrame ==
  ASSUME NEW t \in Frames, NEW l \in Labels
  PROVE  /\ [t EXCEPT !.at = l] \in Frames
         /\ [t EXCEPT !.at = l].at = l /\ [t EXCEPT !.at = l].held = t.held
         /\ [t EXCEPT !.at = l].pc = t.pc /\ [t EXCEPT !.at = l].spie = t.spie
<1>1. [t EXCEPT !.at = l] \in Frames
  BY Zenon DEF Frames
<1> QED
  BY Zenon, <1>1 DEF Frames

(* What TrapInv says of the top, in the words of a step. *)
LEMMA TopFacts ==
  ASSUME NEW h \in Hart, NEW x \in Stacks, NEW n \in 1..3, NEW t \in Frames, IsTop(h, x, n, t)
  PROVE  /\ t.at \in Labels /\ t.held \in 0..MaxHeld /\ t.pc \in Places /\ t.spie \in BOOLEAN /\ t.intena \in BOOLEAN
         /\ n = 1 <=> t.at \notin {"ktrap", "kret", "yield"}
         /\ n = 1 => (x \in Hart <=> t.at \in {"loop", "back"})
         /\ t.held > 0 => t.at \in {"sys", "utrap", "ktrap"}
         /\ t.held = 0 \/ t.held > 0
         /\ t.at \in {"ktrap", "kret"} => t.pc = <<x, n - 1>> /\ t.spie
<1>1. t.at \in Labels /\ t.held \in 0..MaxHeld /\ t.pc \in Places /\ t.spie \in BOOLEAN /\ t.intena \in BOOLEAN
  BY Zenon DEF Frames
<1>2. t.held = 0 \/ t.held > 0
  BY <1>1, TrapAssumption
<1> QED
  BY Zenon, <1>1, <1>2 DEF IsTop, FrameOK

(* acquire(): the first push_off() saves what interrupts were. *)
LEMMA AcquireKeeps ==
  ASSUME TrapInv, NEW h \in Hart, Acquire(h)
  PROVE  TrapInv'
<1>1. PICK x \in Stacks, n \in 1..3, t \in Frames : IsTop(h, x, n, t)
  BY Zenon, Now
<1>2. RegsOK
  BY Zenon DEF TrapInv, TrapSafe, TrTypeOK, RegsOK
<1>3. x = current[h] /\ n = Len(stack[x]) /\ t = Top(h) /\ HartFits(h, t, <<x, n - 1>>)
  BY Zenon, <1>1 DEF IsTop
<1>4. t.at \in {"sys", "utrap", "ktrap"} /\ t.held < MaxHeld
  BY Zenon, <1>3 DEF Acquire, Here
<1>5. /\ t.at \in Labels /\ t.held \in 0..MaxHeld /\ t.pc \in Places /\ t.spie \in BOOLEAN /\ t.intena \in BOOLEAN
      /\ n = 1 <=> t.at \notin {"ktrap", "kret", "yield"}
      /\ n = 1 => (x \in Hart <=> t.at \in {"loop", "back"})
      /\ t.held > 0 => t.at \in {"sys", "utrap", "ktrap"}
      /\ t.held = 0 \/ t.held > 0
      /\ t.at \in {"ktrap", "kret"} => t.pc = <<x, n - 1>> /\ t.spie
  BY Zenon, <1>1, TopFacts
<1>6. /\ t.held + 1 \in 0..MaxHeld /\ noff[h] = t.held
      /\ (noff[h] = 0 <=> t.held = 0) /\ (noff[h] = 1 <=> t.held + 1 = 2)
      /\ t.held + 1 > 0 <=> ~(t.held + 1 = 0)
  BY <1>2, <1>3, <1>4, <1>5, TrapAssumption DEF HartFits, RegsOK
<1>7. PICK f \in Frames : /\ f = [t EXCEPT !.held = t.held + 1]
                          /\ f.at = t.at /\ f.held = t.held + 1 /\ f.pc = t.pc /\ f.spie = t.spie
  BY Zenon, <1>6, HeldFrame
<1>8. SetTop(h, f) /\ current' = current
  BY Zenon, <1>3, <1>7 DEF Acquire
<1>9. Replaces(f, t)
  BY Zenon, <1>4, <1>5, <1>7 DEF Replaces
<1>10. /\ sie'[h] = FALSE /\ noff'[h] = noff[h] + 1 /\ intena'[h] = (IF noff[h] = 0 THEN sie[h] ELSE intena[h]) /\ stvec'[h] = stvec[h]
       /\ sepc'[h] = sepc[h] /\ spp'[h] = spp[h] /\ spie'[h] = spie[h]
  BY Zenon, <1>2, <1>3 DEF Acquire, RegsOK, regVars, PushOff, Saved
<1>11. OthersKept(h)
  BY Zenon, <1>2 DEF Acquire, OthersKept, RegsOK, regVars, PushOff, Saved
<1>12. HartFits(h, f, <<x, n - 1>>)'
  BY <1>2, <1>3, <1>4, <1>5, <1>6, <1>7, <1>10 DEF HartFits
<1>13. RegsOK'
  <2>1. noff'[h] \in 0..MaxHeld
    BY Zenon, <1>6, <1>7, <1>10
  <2>2. sepc'[h] \in Places
    <3>1. <<x, n>> \in Places /\ <<x, 1>> \in Places
      BY DEF Places
    <3> QED
      BY Zenon, <1>2, <1>3, <1>5, <1>10, <3>1 DEF RegsOK
  <2>4. /\ sie' \in [Hart -> BOOLEAN] /\ intena' \in [Hart -> BOOLEAN] /\ spie' \in [Hart -> BOOLEAN]
        /\ stvec' \in [Hart -> {"uservec", "kernelvec"}] /\ spp' \in [Hart -> {"U", "S"}]
    BY Zenon, <1>2, <1>3, <1>5 DEF Acquire, RegsOK, regVars, PushOff, Saved
  <2>5. noff' \in [Hart -> 0..MaxHeld]
    BY Zenon, <1>2, <2>1 DEF Acquire, RegsOK, PushOff, Saved
  <2>6. sepc' \in [Hart -> Places]
    BY Zenon, <1>2, <2>2 DEF Acquire, RegsOK, regVars, PushOff, Saved
  <2>7. plock' \in [Thread -> Hart \cup {NoHart}]
    BY Zenon, <1>2 DEF Acquire, RegsOK
  <2> QED
    BY Zenon, <1>2, <1>8, <2>4, <2>5, <2>6, <2>7 DEF RegsOK
<1> QED
  BY Zenon, <1>1, <1>8, <1>9, <1>11, <1>12, <1>13, TopStep

(* release(): the last pop_off() restores it. *)
LEMMA ReleaseKeeps ==
  ASSUME TrapInv, NEW h \in Hart, Release(h)
  PROVE  TrapInv'
<1>1. PICK x \in Stacks, n \in 1..3, t \in Frames : IsTop(h, x, n, t)
  BY Zenon, Now
<1>2. RegsOK
  BY Zenon DEF TrapInv, TrapSafe, TrTypeOK, RegsOK
<1>3. x = current[h] /\ n = Len(stack[x]) /\ t = Top(h) /\ HartFits(h, t, <<x, n - 1>>)
  BY Zenon, <1>1 DEF IsTop
<1>4. t.held > 0
  BY Zenon, <1>3 DEF Release, Here
<1>5. /\ t.at \in Labels /\ t.held \in 0..MaxHeld /\ t.pc \in Places /\ t.spie \in BOOLEAN /\ t.intena \in BOOLEAN
      /\ n = 1 <=> t.at \notin {"ktrap", "kret", "yield"}
      /\ n = 1 => (x \in Hart <=> t.at \in {"loop", "back"})
      /\ t.held > 0 => t.at \in {"sys", "utrap", "ktrap"}
      /\ t.held = 0 \/ t.held > 0
      /\ t.at \in {"ktrap", "kret"} => t.pc = <<x, n - 1>> /\ t.spie
  BY Zenon, <1>1, TopFacts
<1>6. /\ t.held - 1 \in 0..MaxHeld /\ noff[h] = t.held
      /\ (noff[h] = 0 <=> t.held = 0) /\ (noff[h] = 1 <=> t.held - 1 = 0)
      /\ t.held - 1 > 0 <=> ~(t.held - 1 = 0)
  BY <1>2, <1>3, <1>4, <1>5, TrapAssumption DEF HartFits, RegsOK
<1>7. PICK f \in Frames : /\ f = [t EXCEPT !.held = t.held - 1]
                          /\ f.at = t.at /\ f.held = t.held - 1 /\ f.pc = t.pc /\ f.spie = t.spie
  BY Zenon, <1>6, HeldFrame
<1>6a. ~sie[h] /\ (intena[h] <=> t.at = "sys") /\ stvec[h] = "kernelvec" /\ t.at \in {"sys", "utrap", "ktrap"}
  BY Zenon, <1>3, <1>4, <1>5, <1>6 DEF HartFits
<1>8. SetTop(h, f) /\ current' = current
  BY Zenon, <1>3, <1>7 DEF Release
<1>9. Replaces(f, t)
  BY Zenon, <1>4, <1>5, <1>7 DEF Replaces
<1>10. /\ (sie'[h] <=> t.held - 1 = 0 /\ t.at = "sys") /\ noff'[h] = t.held - 1 /\ intena'[h] = intena[h] /\ stvec'[h] = stvec[h]
       /\ sepc'[h] = sepc[h] /\ spp'[h] = spp[h] /\ spie'[h] = spie[h]
  BY Zenon, <1>2, <1>3, <1>5, <1>6, <1>6a DEF Release, RegsOK, regVars, PopOff, Reenable
<1>11. OthersKept(h)
  BY Zenon, <1>2 DEF Release, OthersKept, RegsOK, regVars, PopOff, Reenable
<1>12. HartFits(h, f, <<x, n - 1>>)'
  <2>1. /\ sie'[h] <=> f.held = 0 /\ f.at = "sys"
        /\ intena'[h] <=> f.at = "sys"
        /\ noff'[h] = f.held /\ stvec'[h] = "kernelvec"
    BY Zenon, <1>2, <1>6a, <1>7, <1>10
  <2>2. f.at \in {"sys", "utrap", "ktrap"} /\ f.held + 0 = f.held /\ (f.held > 0 <=> f.held # 0)
    BY <1>6, <1>6a, <1>7
  <2> QED
    BY Zenon, <2>1, <2>2 DEF HartFits
<1>13. RegsOK'
  <2>1. noff'[h] \in 0..MaxHeld
    BY Zenon, <1>6, <1>7, <1>10
  <2>2. sepc'[h] \in Places
    <3>1. <<x, n>> \in Places /\ <<x, 1>> \in Places
      BY DEF Places
    <3> QED
      BY Zenon, <1>2, <1>3, <1>5, <1>10, <3>1 DEF RegsOK
  <2>4. /\ sie' \in [Hart -> BOOLEAN] /\ intena' \in [Hart -> BOOLEAN] /\ spie' \in [Hart -> BOOLEAN]
        /\ stvec' \in [Hart -> {"uservec", "kernelvec"}] /\ spp' \in [Hart -> {"U", "S"}]
    BY Zenon, <1>2, <1>3, <1>5 DEF Release, RegsOK, regVars, PopOff, Reenable
  <2>5. noff' \in [Hart -> 0..MaxHeld]
    BY Zenon, <1>2, <2>1 DEF Release, RegsOK, PopOff, Reenable
  <2>6. sepc' \in [Hart -> Places]
    BY Zenon, <1>2, <2>2 DEF Release, RegsOK, regVars, PopOff, Reenable
  <2>7. plock' \in [Thread -> Hart \cup {NoHart}]
    BY Zenon, <1>2 DEF Release, RegsOK
  <2> QED
    BY Zenon, <1>2, <1>8, <2>4, <2>5, <2>6, <2>7 DEF RegsOK
<1> QED
  BY Zenon, <1>1, <1>8, <1>9, <1>11, <1>12, <1>13, TopStep

(* usertrap() for a system call. *)
LEMMA EcallKeeps ==
  ASSUME TrapInv, NEW h \in Hart, Ecall(h)
  PROVE  TrapInv'
<1>1. PICK x \in Stacks, n \in 1..3, t \in Frames : IsTop(h, x, n, t)
  BY Zenon, Now
<1>2. RegsOK
  BY Zenon DEF TrapInv, TrapSafe, TrTypeOK, RegsOK
<1>3. x = current[h] /\ n = Len(stack[x]) /\ t = Top(h) /\ HartFits(h, t, <<x, n - 1>>)
  BY Zenon, <1>1 DEF IsTop
<1>4. t.at = "user"
  BY Zenon, <1>3 DEF Ecall, Here
<1>5. /\ t.at \in Labels /\ t.held \in 0..MaxHeld /\ t.pc \in Places /\ t.spie \in BOOLEAN /\ t.intena \in BOOLEAN
      /\ n = 1 <=> t.at \notin {"ktrap", "kret", "yield"}
      /\ n = 1 => (x \in Hart <=> t.at \in {"loop", "back"})
      /\ t.held > 0 => t.at \in {"sys", "utrap", "ktrap"}
      /\ t.held = 0 \/ t.held > 0
      /\ t.at \in {"ktrap", "kret"} => t.pc = <<x, n - 1>> /\ t.spie
  BY Zenon, <1>1, TopFacts
<1>6. /\ noff[h] \in 0..MaxHeld /\ noff[h] = (IF t.at \in {"yield", "new", "back"} THEN 1 ELSE 0)
      /\ 0 \in 0..MaxHeld /\ 1 \in 0..MaxHeld
  BY <1>2, <1>3, <1>4, <1>5, TrapAssumption DEF HartFits, RegsOK
<1>7. PICK f \in Frames : f = Frame("sys") /\ f.at = "sys" /\ f.held = 0
  <2>1. "sys" \in Labels /\ FALSE \in BOOLEAN
    BY Zenon DEF Labels
  <2> QED
    BY Zenon, <2>1, NewFrame
<1>8. SetTop(h, f) /\ current' = current
  BY Zenon, <1>3, <1>7 DEF Ecall
<1>9. Replaces(f, t)
  BY Zenon, <1>4, <1>5, <1>7 DEF Replaces
<1>10. /\ sie'[h] = TRUE /\ noff'[h] = noff[h] /\ intena'[h] = intena[h] /\ stvec'[h] = "kernelvec"
       /\ sepc'[h] = <<x, n>> /\ spp'[h] = "U" /\ spie'[h] = TRUE
  BY Zenon, <1>2, <1>3 DEF Ecall, RegsOK, regVars, TakeTrap
<1>11. OthersKept(h)
  BY Zenon, <1>2 DEF Ecall, OthersKept, RegsOK, regVars, TakeTrap
<1>12. HartFits(h, f, <<x, n - 1>>)'
  BY ZenonT(60), <1>2, <1>3, <1>4, <1>5, <1>6, <1>7, <1>10 DEF HartFits
<1>13. RegsOK'
  <2>1. noff'[h] \in 0..MaxHeld
    BY Zenon, <1>6, <1>7, <1>10
  <2>2. sepc'[h] \in Places
    <3>1. <<x, n>> \in Places /\ <<x, 1>> \in Places
      BY DEF Places
    <3> QED
      BY Zenon, <1>2, <1>3, <1>5, <1>10, <3>1 DEF RegsOK
  <2>4. /\ sie' \in [Hart -> BOOLEAN] /\ intena' \in [Hart -> BOOLEAN] /\ spie' \in [Hart -> BOOLEAN]
        /\ stvec' \in [Hart -> {"uservec", "kernelvec"}] /\ spp' \in [Hart -> {"U", "S"}]
    BY Zenon, <1>2, <1>3, <1>5 DEF Ecall, RegsOK, regVars, TakeTrap
  <2>5. noff' \in [Hart -> 0..MaxHeld]
    BY Zenon, <1>2, <2>1 DEF Ecall, RegsOK, TakeTrap
  <2>6. sepc' \in [Hart -> Places]
    BY Zenon, <1>2, <2>2 DEF Ecall, RegsOK, regVars, TakeTrap
  <2>7. plock' \in [Thread -> Hart \cup {NoHart}]
    BY Zenon, <1>2 DEF Ecall, RegsOK
  <2> QED
    BY Zenon, <1>2, <1>8, <2>4, <2>5, <2>6, <2>7 DEF RegsOK
<1> QED
  BY Zenon, <1>1, <1>8, <1>9, <1>11, <1>12, <1>13, TopStep

(* usertrap() for a device. *)
LEMMA UserIntrKeeps ==
  ASSUME TrapInv, NEW h \in Hart, NEW timer \in BOOLEAN, UserIntr(h, timer)
  PROVE  TrapInv'
<1>1. PICK x \in Stacks, n \in 1..3, t \in Frames : IsTop(h, x, n, t)
  BY Zenon, Now
<1>2. RegsOK
  BY Zenon DEF TrapInv, TrapSafe, TrTypeOK, RegsOK
<1>3. x = current[h] /\ n = Len(stack[x]) /\ t = Top(h) /\ HartFits(h, t, <<x, n - 1>>)
  BY Zenon, <1>1 DEF IsTop
<1>4. t.at = "user"
  BY Zenon, <1>3 DEF UserIntr, Here
<1>5. /\ t.at \in Labels /\ t.held \in 0..MaxHeld /\ t.pc \in Places /\ t.spie \in BOOLEAN /\ t.intena \in BOOLEAN
      /\ n = 1 <=> t.at \notin {"ktrap", "kret", "yield"}
      /\ n = 1 => (x \in Hart <=> t.at \in {"loop", "back"})
      /\ t.held > 0 => t.at \in {"sys", "utrap", "ktrap"}
      /\ t.held = 0 \/ t.held > 0
      /\ t.at \in {"ktrap", "kret"} => t.pc = <<x, n - 1>> /\ t.spie
  BY Zenon, <1>1, TopFacts
<1>6. /\ noff[h] \in 0..MaxHeld /\ noff[h] = (IF t.at \in {"yield", "new", "back"} THEN 1 ELSE 0)
      /\ 0 \in 0..MaxHeld /\ 1 \in 0..MaxHeld
  BY <1>2, <1>3, <1>4, <1>5, TrapAssumption DEF HartFits, RegsOK
<1>7. PICK f \in Frames : f = [Frame("utrap") EXCEPT !.timer = timer] /\ f.at = "utrap" /\ f.held = 0
  <2>1. "utrap" \in Labels /\ timer \in BOOLEAN
    BY Zenon DEF Labels
  <2> QED
    BY Zenon, <2>1, NewFrame
<1>8. SetTop(h, f) /\ current' = current
  BY Zenon, <1>3, <1>7 DEF UserIntr
<1>9. Replaces(f, t)
  BY Zenon, <1>4, <1>5, <1>7 DEF Replaces
<1>10. /\ sie'[h] = FALSE /\ noff'[h] = noff[h] /\ intena'[h] = intena[h] /\ stvec'[h] = "kernelvec"
       /\ sepc'[h] = <<x, n>> /\ spp'[h] = "U" /\ spie'[h] = TRUE
  BY Zenon, <1>2, <1>3 DEF UserIntr, RegsOK, regVars, TakeTrap
<1>11. OthersKept(h)
  BY Zenon, <1>2 DEF UserIntr, OthersKept, RegsOK, regVars, TakeTrap
<1>12. HartFits(h, f, <<x, n - 1>>)'
  BY ZenonT(60), <1>2, <1>3, <1>4, <1>5, <1>6, <1>7, <1>10 DEF HartFits
<1>13. RegsOK'
  <2>1. noff'[h] \in 0..MaxHeld
    BY Zenon, <1>6, <1>7, <1>10
  <2>2. sepc'[h] \in Places
    <3>1. <<x, n>> \in Places /\ <<x, 1>> \in Places
      BY DEF Places
    <3> QED
      BY Zenon, <1>2, <1>3, <1>5, <1>10, <3>1 DEF RegsOK
  <2>4. /\ sie' \in [Hart -> BOOLEAN] /\ intena' \in [Hart -> BOOLEAN] /\ spie' \in [Hart -> BOOLEAN]
        /\ stvec' \in [Hart -> {"uservec", "kernelvec"}] /\ spp' \in [Hart -> {"U", "S"}]
    BY Zenon, <1>2, <1>3, <1>5 DEF UserIntr, RegsOK, regVars, TakeTrap
  <2>5. noff' \in [Hart -> 0..MaxHeld]
    BY Zenon, <1>2, <2>1 DEF UserIntr, RegsOK, TakeTrap
  <2>6. sepc' \in [Hart -> Places]
    BY Zenon, <1>2, <2>2 DEF UserIntr, RegsOK, regVars, TakeTrap
  <2>7. plock' \in [Thread -> Hart \cup {NoHart}]
    BY Zenon, <1>2 DEF UserIntr, RegsOK
  <2> QED
    BY Zenon, <1>2, <1>8, <2>4, <2>5, <2>6, <2>7 DEF RegsOK
<1> QED
  BY Zenon, <1>1, <1>8, <1>9, <1>11, <1>12, <1>13, TopStep

(* usertrapret(). *)
LEMMA UserTrapRetKeeps ==
  ASSUME TrapInv, NEW h \in Hart, UserTrapRet(h)
  PROVE  TrapInv'
<1>1. PICK x \in Stacks, n \in 1..3, t \in Frames : IsTop(h, x, n, t)
  BY Zenon, Now
<1>2. RegsOK
  BY Zenon DEF TrapInv, TrapSafe, TrTypeOK, RegsOK
<1>3. x = current[h] /\ n = Len(stack[x]) /\ t = Top(h) /\ HartFits(h, t, <<x, n - 1>>)
  BY Zenon, <1>1 DEF IsTop
<1>4. t.at \in {"sys", "utrap", "uret"} /\ t.held = 0
  BY Zenon, <1>3 DEF UserTrapRet, Here
<1>5. /\ t.at \in Labels /\ t.held \in 0..MaxHeld /\ t.pc \in Places /\ t.spie \in BOOLEAN /\ t.intena \in BOOLEAN
      /\ n = 1 <=> t.at \notin {"ktrap", "kret", "yield"}
      /\ n = 1 => (x \in Hart <=> t.at \in {"loop", "back"})
      /\ t.held > 0 => t.at \in {"sys", "utrap", "ktrap"}
      /\ t.held = 0 \/ t.held > 0
      /\ t.at \in {"ktrap", "kret"} => t.pc = <<x, n - 1>> /\ t.spie
  BY Zenon, <1>1, TopFacts
<1>6. /\ noff[h] \in 0..MaxHeld /\ noff[h] = (IF t.at \in {"yield", "new", "back"} THEN 1 ELSE 0)
      /\ 0 \in 0..MaxHeld /\ 1 \in 0..MaxHeld
  BY <1>2, <1>3, <1>4, <1>5, TrapAssumption DEF HartFits, RegsOK
<1>7. PICK f \in Frames : f = Frame("sret") /\ f.at = "sret" /\ f.held = 0
  <2>1. "sret" \in Labels /\ FALSE \in BOOLEAN
    BY Zenon DEF Labels
  <2> QED
    BY Zenon, <2>1, NewFrame
<1>8. SetTop(h, f) /\ current' = current
  BY Zenon, <1>3, <1>7 DEF UserTrapRet
<1>9. Replaces(f, t)
  BY <1>4, <1>5, <1>7 DEF Replaces
<1>10. /\ sie'[h] = FALSE /\ noff'[h] = noff[h] /\ intena'[h] = intena[h] /\ stvec'[h] = "uservec"
       /\ sepc'[h] = <<x, 1>> /\ spp'[h] = "U" /\ spie'[h] = TRUE
  BY Zenon, <1>2, <1>3 DEF UserTrapRet, RegsOK, regVars, ReturnOff
<1>11. OthersKept(h)
  BY Zenon, <1>2 DEF UserTrapRet, OthersKept, RegsOK, regVars, ReturnOff
<1>12. HartFits(h, f, <<x, n - 1>>)'
  BY <1>2, <1>3, <1>4, <1>5, <1>6, <1>7, <1>10 DEF HartFits
<1>13. RegsOK'
  <2>1. noff'[h] \in 0..MaxHeld
    BY Zenon, <1>6, <1>7, <1>10
  <2>2. sepc'[h] \in Places
    <3>1. <<x, n>> \in Places /\ <<x, 1>> \in Places
      BY DEF Places
    <3> QED
      BY Zenon, <1>2, <1>3, <1>5, <1>10, <3>1 DEF RegsOK
  <2>4. /\ sie' \in [Hart -> BOOLEAN] /\ intena' \in [Hart -> BOOLEAN] /\ spie' \in [Hart -> BOOLEAN]
        /\ stvec' \in [Hart -> {"uservec", "kernelvec"}] /\ spp' \in [Hart -> {"U", "S"}]
    BY Zenon, <1>2, <1>3, <1>5 DEF UserTrapRet, RegsOK, regVars, ReturnOff
  <2>5. noff' \in [Hart -> 0..MaxHeld]
    BY Zenon, <1>2, <2>1 DEF UserTrapRet, RegsOK, ReturnOff
  <2>6. sepc' \in [Hart -> Places]
    BY Zenon, <1>2, <2>2 DEF UserTrapRet, RegsOK, regVars, ReturnOff
  <2>7. plock' \in [Thread -> Hart \cup {NoHart}]
    BY Zenon, <1>2 DEF UserTrapRet, RegsOK
  <2> QED
    BY Zenon, <1>2, <1>8, <2>4, <2>5, <2>6, <2>7 DEF RegsOK
<1> QED
  BY Zenon, <1>1, <1>8, <1>9, <1>11, <1>12, <1>13, TopStep

(* The sret of userret. *)
LEMMA UserReturnKeeps ==
  ASSUME TrapInv, NEW h \in Hart, UserReturn(h)
  PROVE  TrapInv'
<1>1. PICK x \in Stacks, n \in 1..3, t \in Frames : IsTop(h, x, n, t)
  BY Zenon, Now
<1>2. RegsOK
  BY Zenon DEF TrapInv, TrapSafe, TrTypeOK, RegsOK
<1>3. x = current[h] /\ n = Len(stack[x]) /\ t = Top(h) /\ HartFits(h, t, <<x, n - 1>>)
  BY Zenon, <1>1 DEF IsTop
<1>4. t.at = "sret"
  BY Zenon, <1>3 DEF UserReturn, Here
<1>5. /\ t.at \in Labels /\ t.held \in 0..MaxHeld /\ t.pc \in Places /\ t.spie \in BOOLEAN /\ t.intena \in BOOLEAN
      /\ n = 1 <=> t.at \notin {"ktrap", "kret", "yield"}
      /\ n = 1 => (x \in Hart <=> t.at \in {"loop", "back"})
      /\ t.held > 0 => t.at \in {"sys", "utrap", "ktrap"}
      /\ t.held = 0 \/ t.held > 0
      /\ t.at \in {"ktrap", "kret"} => t.pc = <<x, n - 1>> /\ t.spie
  BY Zenon, <1>1, TopFacts
<1>6. /\ noff[h] \in 0..MaxHeld /\ noff[h] = (IF t.at \in {"yield", "new", "back"} THEN 1 ELSE 0)
      /\ 0 \in 0..MaxHeld /\ 1 \in 0..MaxHeld
  BY <1>2, <1>3, <1>4, <1>5, TrapAssumption DEF HartFits, RegsOK
<1>7. PICK f \in Frames : f = Frame("user") /\ f.at = "user" /\ f.held = 0
  <2>1. "user" \in Labels /\ FALSE \in BOOLEAN
    BY Zenon DEF Labels
  <2> QED
    BY Zenon, <2>1, NewFrame
<1>8. SetTop(h, f) /\ current' = current
  BY Zenon, <1>3, <1>7 DEF UserReturn
<1>9. Replaces(f, t)
  BY Zenon, <1>4, <1>5, <1>7 DEF Replaces
<1>10. /\ sie'[h] = spie[h] /\ noff'[h] = noff[h] /\ intena'[h] = intena[h] /\ stvec'[h] = stvec[h]
       /\ sepc'[h] = sepc[h] /\ spp'[h] = spp[h] /\ spie'[h] = spie[h]
  BY Zenon, <1>2, <1>3 DEF UserReturn, RegsOK, regVars
<1>11. OthersKept(h)
  BY Zenon, <1>2 DEF UserReturn, OthersKept, RegsOK, regVars
<1>12. HartFits(h, f, <<x, n - 1>>)'
  BY Zenon, <1>2, <1>3, <1>4, <1>5, <1>6, <1>7, <1>10 DEF HartFits
<1>13. RegsOK'
  <2>1. noff'[h] \in 0..MaxHeld
    BY Zenon, <1>6, <1>7, <1>10
  <2>2. sepc'[h] \in Places
    <3>1. <<x, n>> \in Places /\ <<x, 1>> \in Places
      BY DEF Places
    <3> QED
      BY Zenon, <1>2, <1>3, <1>5, <1>10, <3>1 DEF RegsOK
  <2>4. /\ sie' \in [Hart -> BOOLEAN] /\ intena' \in [Hart -> BOOLEAN] /\ spie' \in [Hart -> BOOLEAN]
        /\ stvec' \in [Hart -> {"uservec", "kernelvec"}] /\ spp' \in [Hart -> {"U", "S"}]
    BY Zenon, <1>2, <1>3, <1>5 DEF UserReturn, RegsOK, regVars
  <2>5. noff' \in [Hart -> 0..MaxHeld]
    BY Zenon, <1>2, <2>1 DEF UserReturn, RegsOK
  <2>6. sepc' \in [Hart -> Places]
    BY Zenon, <1>2, <2>2 DEF UserReturn, RegsOK, regVars
  <2>7. plock' \in [Thread -> Hart \cup {NoHart}]
    BY Zenon, <1>2 DEF UserReturn, RegsOK
  <2> QED
    BY Zenon, <1>2, <1>8, <2>4, <2>5, <2>6, <2>7 DEF RegsOK
<1> QED
  BY Zenon, <1>1, <1>8, <1>9, <1>11, <1>12, <1>13, TopStep

(* The end of kerneltrap(), which restores sepc and sstatus. *)
LEMMA KernelRestoreKeeps ==
  ASSUME TrapInv, NEW h \in Hart, KernelRestore(h)
  PROVE  TrapInv'
<1>1. PICK x \in Stacks, n \in 1..3, t \in Frames : IsTop(h, x, n, t)
  BY Zenon, Now
<1>2. RegsOK
  BY Zenon DEF TrapInv, TrapSafe, TrTypeOK, RegsOK
<1>3. x = current[h] /\ n = Len(stack[x]) /\ t = Top(h) /\ HartFits(h, t, <<x, n - 1>>)
  BY Zenon, <1>1 DEF IsTop
<1>4. t.at = "ktrap" /\ t.held = 0
  BY Zenon, <1>3 DEF KernelRestore, Here
<1>5. /\ t.at \in Labels /\ t.held \in 0..MaxHeld /\ t.pc \in Places /\ t.spie \in BOOLEAN /\ t.intena \in BOOLEAN
      /\ n = 1 <=> t.at \notin {"ktrap", "kret", "yield"}
      /\ n = 1 => (x \in Hart <=> t.at \in {"loop", "back"})
      /\ t.held > 0 => t.at \in {"sys", "utrap", "ktrap"}
      /\ t.held = 0 \/ t.held > 0
      /\ t.at \in {"ktrap", "kret"} => t.pc = <<x, n - 1>> /\ t.spie
  BY Zenon, <1>1, TopFacts
<1>6. noff[h] \in 0..MaxHeld
  BY Zenon, <1>2 DEF RegsOK
<1>7. PICK f \in Frames : /\ f = [t EXCEPT !.at = "kret"]
                          /\ f.at = "kret" /\ f.held = t.held /\ f.pc = t.pc /\ f.spie = t.spie
  <2>1. "kret" \in Labels
    BY Zenon DEF Labels
  <2> QED
    BY Zenon, <2>1, MovedFrame
<1>8. SetTop(h, f) /\ current' = current
  BY Zenon, <1>3, <1>7 DEF KernelRestore
<1>9. Replaces(f, t)
  BY <1>4, <1>5, <1>7 DEF Replaces
<1>10. /\ sie'[h] = sie[h] /\ noff'[h] = noff[h] /\ intena'[h] = intena[h] /\ stvec'[h] = stvec[h]
       /\ sepc'[h] = t.pc /\ spp'[h] = "S" /\ (spie'[h] <=> t.spie)
  BY Zenon, <1>2, <1>3 DEF KernelRestore, RegsOK, regVars, Restored
<1>11. OthersKept(h)
  BY Zenon, <1>2 DEF KernelRestore, OthersKept, RegsOK, regVars, Restored
<1>12. HartFits(h, f, <<x, n - 1>>)'
  BY Zenon, <1>2, <1>3, <1>4, <1>5, <1>6, <1>7, <1>10 DEF HartFits
<1>13. RegsOK'
  <2>1. noff'[h] \in 0..MaxHeld
    BY Zenon, <1>6, <1>7, <1>10
  <2>2. sepc'[h] \in Places
    <3>1. <<x, n>> \in Places /\ <<x, 1>> \in Places
      BY DEF Places
    <3> QED
      BY Zenon, <1>2, <1>3, <1>5, <1>10, <3>1 DEF RegsOK
  <2>4. /\ sie' \in [Hart -> BOOLEAN] /\ intena' \in [Hart -> BOOLEAN] /\ spie' \in [Hart -> BOOLEAN]
        /\ stvec' \in [Hart -> {"uservec", "kernelvec"}] /\ spp' \in [Hart -> {"U", "S"}]
    BY Zenon, <1>2, <1>3, <1>5 DEF KernelRestore, RegsOK, regVars, Restored
  <2>5. noff' \in [Hart -> 0..MaxHeld]
    BY Zenon, <1>2, <2>1 DEF KernelRestore, RegsOK, Restored
  <2>6. sepc' \in [Hart -> Places]
    BY Zenon, <1>2, <2>2 DEF KernelRestore, RegsOK, regVars, Restored
  <2>7. plock' \in [Thread -> Hart \cup {NoHart}]
    BY Zenon, <1>2 DEF KernelRestore, RegsOK
  <2> QED
    BY Zenon, <1>2, <1>8, <2>4, <2>5, <2>6, <2>7 DEF RegsOK
<1> QED
  BY Zenon, <1>1, <1>8, <1>9, <1>11, <1>12, <1>13, TopStep

(* scheduler() after swtch(). *)
LEMMA SwtchBackKeeps ==
  ASSUME TrapInv, NEW h \in Hart, SwtchBack(h)
  PROVE  TrapInv'
<1>1. PICK x \in Stacks, n \in 1..3, t \in Frames : IsTop(h, x, n, t)
  BY Zenon, Now
<1>2. RegsOK
  BY Zenon DEF TrapInv, TrapSafe, TrTypeOK, RegsOK
<1>3. x = current[h] /\ n = Len(stack[x]) /\ t = Top(h) /\ HartFits(h, t, <<x, n - 1>>)
  BY Zenon, <1>1 DEF IsTop
<1>4. t.at = "back"
  BY Zenon, <1>3 DEF SwtchBack, Here
<1>5. /\ t.at \in Labels /\ t.held \in 0..MaxHeld /\ t.pc \in Places /\ t.spie \in BOOLEAN /\ t.intena \in BOOLEAN
      /\ n = 1 <=> t.at \notin {"ktrap", "kret", "yield"}
      /\ n = 1 => (x \in Hart <=> t.at \in {"loop", "back"})
      /\ t.held > 0 => t.at \in {"sys", "utrap", "ktrap"}
      /\ t.held = 0 \/ t.held > 0
      /\ t.at \in {"ktrap", "kret"} => t.pc = <<x, n - 1>> /\ t.spie
  BY Zenon, <1>1, TopFacts
<1>6. /\ noff[h] \in 0..MaxHeld /\ noff[h] = (IF t.at \in {"yield", "new", "back"} THEN 1 ELSE 0)
      /\ 0 \in 0..MaxHeld /\ 1 \in 0..MaxHeld
  BY <1>2, <1>3, <1>4, <1>5, TrapAssumption DEF HartFits, RegsOK
<1>7. PICK f \in Frames : f = Frame("loop") /\ f.at = "loop" /\ f.held = 0
  <2>1. "loop" \in Labels /\ FALSE \in BOOLEAN
    BY Zenon DEF Labels
  <2> QED
    BY Zenon, <2>1, NewFrame
<1>6a. ~sie[h] /\ noff[h] = 1 /\ stvec[h] = "kernelvec" /\ ~(0 > 0) /\ 0 = 0 + 0
  BY <1>3, <1>4, <1>6 DEF HartFits
<1>8. SetTop(h, f) /\ current' = current
  BY Zenon, <1>3, <1>7 DEF SwtchBack
<1>9. Replaces(f, t)
  BY Zenon, <1>4, <1>5, <1>7 DEF Replaces
<1>10. /\ sie'[h] = intena[h] /\ noff'[h] = 0 /\ intena'[h] = intena[h] /\ stvec'[h] = stvec[h]
       /\ sepc'[h] = sepc[h] /\ spp'[h] = spp[h] /\ spie'[h] = spie[h]
  BY <1>2, <1>3, <1>4, <1>6, <1>6a DEF SwtchBack, RegsOK, regVars, PopOff, Reenable
<1>11. OthersKept(h)
  BY Zenon, <1>2 DEF SwtchBack, OthersKept, RegsOK, regVars, PopOff, Reenable
<1>12. HartFits(h, f, <<x, n - 1>>)'
  BY Zenon, <1>6a, <1>6, <1>7, <1>10 DEF HartFits
<1>13. RegsOK'
  <2>1. noff'[h] \in 0..MaxHeld
    BY Zenon, <1>6, <1>7, <1>10
  <2>2. sepc'[h] \in Places
    <3>1. <<x, n>> \in Places /\ <<x, 1>> \in Places
      BY DEF Places
    <3> QED
      BY Zenon, <1>2, <1>3, <1>5, <1>10, <3>1 DEF RegsOK
  <2>4. /\ sie' \in [Hart -> BOOLEAN] /\ intena' \in [Hart -> BOOLEAN] /\ spie' \in [Hart -> BOOLEAN]
        /\ stvec' \in [Hart -> {"uservec", "kernelvec"}] /\ spp' \in [Hart -> {"U", "S"}]
    BY Zenon, <1>2, <1>3, <1>5 DEF SwtchBack, RegsOK, regVars, PopOff, Reenable
  <2>5. noff' \in [Hart -> 0..MaxHeld]
    BY Zenon, <1>2, <2>1 DEF SwtchBack, RegsOK, PopOff, Reenable
  <2>6. sepc' \in [Hart -> Places]
    BY Zenon, <1>2, <2>2 DEF SwtchBack, RegsOK, regVars, PopOff, Reenable
  <2>7. plock' \in [Thread -> Hart \cup {NoHart}]
    BY Zenon, <1>2 DEF SwtchBack, RegsOK
  <2> QED
    BY Zenon, <1>2, <1>8, <2>4, <2>5, <2>6, <2>7 DEF RegsOK
<1> QED
  BY Zenon, <1>1, <1>8, <1>9, <1>11, <1>12, <1>13, TopStep

(* intr_on() in scheduler(). *)
LEMMA IntrOnKeeps ==
  ASSUME TrapInv, NEW h \in Hart, IntrOn(h)
  PROVE  TrapInv'
<1>1. PICK x \in Stacks, n \in 1..3, t \in Frames : IsTop(h, x, n, t)
  BY Zenon, Now
<1>2. RegsOK /\ TrTypeOK /\ StacksInv /\ CurrentInv
  BY Zenon DEF TrapInv, TrapSafe, TrTypeOK, RegsOK
<1>3. x = current[h] /\ n = Len(stack[x]) /\ stack[x] \in Seq(Frames) /\ t = Top(h) /\ t = stack[x][n]
      /\ FrameOK(x, n) /\ HartFits(h, t, <<x, n - 1>>)
  BY Zenon, <1>1 DEF IsTop
<1>4. /\ t.at \in Labels /\ t.held \in 0..MaxHeld /\ t.pc \in Places /\ t.spie \in BOOLEAN /\ t.intena \in BOOLEAN
      /\ n = 1 <=> t.at \notin {"ktrap", "kret", "yield"}
      /\ n = 1 => (x \in Hart <=> t.at \in {"loop", "back"})
      /\ t.held > 0 => t.at \in {"sys", "utrap", "ktrap"}
      /\ t.held = 0 \/ t.held > 0
      /\ t.at \in {"ktrap", "kret"} => t.pc = <<x, n - 1>> /\ t.spie
  BY Zenon, <1>1, TopFacts
<1>5. t.at = "loop" /\ stack' = stack /\ current' = current
  BY Zenon, <1>3 DEF IntrOn, Here
<1>6. noff[h] = 0
  BY Zenon, <1>3, <1>4, <1>5, NoLocks
<1>7. RegsOK' /\ TrTypeOK'
  BY Zenon, <1>2 DEF IntrOn, RegsOK, TrTypeOK, regVars
<1>8. OthersKept(h)
  BY Zenon, <1>2 DEF IntrOn, OthersKept, RegsOK, regVars
<1>9. CurrentInv' /\ FrameOK(x, n)'
  BY Zenon, <1>2, <1>3, <1>5 DEF CurrentInv, FrameOK
<1>10. HartOK(h)'
  <2>1. /\ Top(h)' = t /\ current'[h] = x /\ stack'[x] = stack[x] /\ noff'[h] = 0 /\ t.held = 0 /\ stvec'[h] = stvec[h]
        /\ intena'[h] = intena[h] /\ ~(0 > 0) /\ 0 + 0 = 0
    BY <1>2, <1>3, <1>4, <1>5, <1>6 DEF Top, TopOf, IntrOn, RegsOK
  <2> QED
    BY Zenon, <1>3, <1>5, <2>1 DEF HartOK, HartFits
<1>11. n \in Nat /\ n <= Len(stack[x]) + 1 /\ ~(n > Len(stack[x])) /\ Len(stack'[x]) = n
  BY <1>3, <1>5
<1> QED
  BY Zenon, <1>3, <1>5, <1>7, <1>8, <1>9, <1>10, <1>11, Finish

(* ... one whose timer interrupt has been dealt with, ... *)
LEMMA QuietFrame ==
  ASSUME NEW t \in Frames
  PROVE  \E f \in Frames : /\ f = [t EXCEPT !.timer = FALSE]
                           /\ f.at = t.at /\ f.held = t.held /\ f.pc = t.pc /\ f.spie = t.spie
<1> DEFINE f == [t EXCEPT !.timer = FALSE]
<1>1. f \in Frames
  BY Zenon DEF Frames
<1>2. f.at = t.at /\ f.held = t.held /\ f.pc = t.pc /\ f.spie = t.spie
  BY Zenon DEF Frames
<1> HIDE DEF f
<1>3. \E g \in Frames : g = f /\ g.at = t.at /\ g.held = t.held /\ g.pc = t.pc /\ g.spie = t.spie
  BY Zenon, <1>1, <1>2
<1> QED
  BY Zenon, <1>3 DEF f

(* ... the one kerneltrap() starts with, ... *)
LEMMA TrapFrame ==
  ASSUME NEW tm \in BOOLEAN, NEW p \in Places
  PROVE  \E f \in Frames : /\ f = [Frame("ktrap") EXCEPT !.timer = tm, !.pc = p, !.spie = TRUE]
                           /\ f.at = "ktrap" /\ f.held = 0 /\ f.pc = p /\ f.spie
<1>1. Frame("ktrap") \in Frames
  BY Zenon, NewFrame DEF Labels
<1> DEFINE f == [Frame("ktrap") EXCEPT !.timer = tm, !.pc = p, !.spie = TRUE]
<1>2. f \in Frames
  BY Zenon, <1>1 DEF Frames
<1>3. f.at = "ktrap" /\ f.held = 0 /\ f.pc = p /\ f.spie
  BY Zenon, <1>1 DEF Frames, Frame
<1> HIDE DEF f
<1>4. \E g \in Frames : g = f /\ g.at = "ktrap" /\ g.held = 0 /\ g.pc = p /\ g.spie
  BY Zenon, <1>2, <1>3
<1> QED
  BY Zenon, <1>4 DEF f

(* ... and the one sched() leaves. *)
LEMMA YieldFrame ==
  ASSUME NEW b \in BOOLEAN
  PROVE  \E f \in Frames : /\ f.at = "yield" /\ f.held = 0 /\ f.intena = b
                           /\ f = [Frame("yield") EXCEPT !.intena = b]
<1>1. Frame("yield") \in Frames
  BY Zenon, NewFrame DEF Labels
<1> DEFINE f == [Frame("yield") EXCEPT !.intena = b]
<1>2. f \in Frames
  BY Zenon, <1>1 DEF Frames
<1>3. f.at = "yield" /\ f.held = 0 /\ f.intena = b
  BY Zenon, <1>1 DEF Frames, Frame
<1> HIDE DEF f
<1>4. \E g \in Frames : g.at = "yield" /\ g.held = 0 /\ g.intena = b /\ g = f
  BY Zenon, <1>2, <1>3
<1> QED
  BY Zenon, <1>4 DEF f

(* A trap or a call of sched() pushes a frame. *)
LEMMA PushStep ==
  ASSUME TrapInv, NEW h \in Hart, NEW x \in Stacks, NEW n \in 1..3, NEW t \in Frames, IsTop(h, x, n, t),
         NEW f \in Frames, stack' = [stack EXCEPT ![x] = Append(@, f)], n < 3,
         t.held = 0, t.at # "yield", f.held = 0, f.at \in {"ktrap", "yield"},
         f.at = "ktrap" => t.at \in {"sys", "uret", "loop"} /\ f.pc = <<x, n>> /\ f.spie,
         f.at = "yield" => /\ x \in Thread /\ t.at \in {"sys", "utrap", "ktrap"}
                           /\ f.intena <=> t.at = "sys",
         RegsOK', OthersKept(h),
         \A g, k \in Hart : current'[g] = current'[k] => g = k,
         current'[h] = x \/ (current'[h] = h /\ x \in Thread /\ stack[h] = <<Frame("back")>>),
         current'[h] = x => HartFits(h, f, <<x, n>>)',
         current'[h] # x => HartFits(h, Frame("back"), <<x, n>>)'
  PROVE  TrapInv'
<1>1. TrTypeOK /\ CurrentInv /\ stack \in [Stacks -> Seq(Frames)]
  BY Zenon DEF TrapInv, TrapSafe, TrTypeOK
<1>2. x = current[h] /\ n = Len(stack[x]) /\ stack[x] \in Seq(Frames) /\ t = stack[x][n]
  BY Zenon DEF IsTop
<1>3. /\ Append(stack[x], f) \in Seq(Frames) /\ Len(Append(stack[x], f)) = n + 1
      /\ Append(stack[x], f)[n + 1] = f /\ \A k \in 1..n : Append(stack[x], f)[k] = stack[x][k]
  BY <1>2, PushLast
<1>4. /\ stack' \in [Stacks -> Seq(Frames)] /\ stack'[x] = Append(stack[x], f)
      /\ \A y \in Stacks \ {x} : stack'[y] = stack[y]
  BY Zenon, <1>1, <1>3
<1>5. PICK m \in 1..3 : m = n + 1
  OBVIOUS
<1>6. /\ Len(stack'[x]) = m /\ stack'[x][m] = f /\ (\A k \in 1..(m - 1) : stack'[x][k] = stack[x][k])
      /\ stack'[x][m - 1] = t /\ stack[x][m - 1] = t
      /\ m - 1 = n /\ m # 1 /\ m \in Nat /\ m <= Len(stack[x]) + 1
  <2>1. m - 1 = n /\ m # 1 /\ m \in Nat /\ m <= n + 1 /\ n \in 1..n
    BY <1>5
  <2>2. n + 1 = m /\ 1..(m - 1) = 1..n
    BY Zenon, <1>5, <2>1
  <2>3. Len(stack'[x]) = m /\ stack'[x][m] = f
    BY Zenon, <1>3, <1>4, <2>2
  <2>4. \A k \in 1..n : stack'[x][k] = stack[x][k]
    BY Zenon, <1>3, <1>4
  <2>5. m <= Len(stack[x]) + 1
    BY Zenon, <1>2, <2>1
  <2> QED
    BY Zenon, <1>2, <2>1, <2>2, <2>3, <2>4, <2>5
<1>7. TrTypeOK'
  <2>1. \A y \in Stacks : Len(stack'[y]) \in 1..3
    BY Zenon, <1>1, <1>4, <1>6 DEF TrTypeOK
  <2> QED
    BY Zenon, <1>4, <2>1 DEF TrTypeOK, RegsOK
<1>8. CurrentInv'
  <2>1. ASSUME NEW g \in Hart PROVE current'[g] = g \/ (current'[g] \in Thread /\ stack'[g] = <<Frame("back")>>)
    <3>1. CASE g = h
      <4>1. x \in Thread => h # x /\ h \in Stacks
        BY Zenon, TrapAssumption DEF Stacks
      <4> QED
        BY Zenon, <1>1, <1>2, <1>4, <3>1, <4>1 DEF CurrentInv
    <3>2. CASE g # h
      <4>1. current'[g] = current[g]
        BY Zenon, <3>2 DEF OthersKept
      <4>2. current[g] # g => g # x /\ g \in Stacks
        BY Zenon, <1>1, <1>2, <3>2, TrapAssumption DEF CurrentInv, Stacks
      <4> QED
        BY Zenon, <1>1, <1>4, <4>1, <4>2 DEF CurrentInv
    <3> QED
      BY Zenon, <3>1, <3>2
  <2> QED
    BY Zenon, <2>1 DEF CurrentInv
<1>9. FrameOK(x, m)'
  <2>1. ~(f.held > 0)
    OBVIOUS
  <2>2. CASE f.at = "ktrap"
    BY Zenon, <1>6, <2>1, <2>2 DEF FrameOK
  <2>3. CASE f.at = "yield"
    BY Zenon, <1>6, <2>1, <2>3 DEF FrameOK
  <2> QED
    BY Zenon, <2>2, <2>3
<1>10. HartOK(h)'
  <2>1. CASE current'[h] = x
    <3>1. Top(h)' = f /\ Len(stack'[current'[h]]) - 1 = n
      BY Zenon, <1>6, <2>1 DEF Top, TopOf
    <3> QED
      BY Zenon, <2>1, <3>1 DEF HartOK
  <2>2. CASE current'[h] # x
    <3>1. stack'[h] = <<Frame("back")>> /\ Len(<<Frame("back")>>) = 1 /\ <<Frame("back")>>[1] = Frame("back")
      BY Zenon, <1>4, <2>2, TrapAssumption DEF Stacks
    <3>2. Top(h)' = Frame("back")
      BY Zenon, <2>2, <3>1 DEF Top, TopOf
    <3>3. Frame("back").at = "back"
      BY Zenon DEF Frame
    <3> QED
      BY Zenon, <2>2, <3>2, <3>3 DEF HartOK, HartFits
  <2> QED
    BY Zenon, <2>1, <2>2
<1>11. stack[x][m - 1].held = 0 /\ stack[x][m - 1].at # "yield"
  BY Zenon, <1>6
<1>12. /\ Len(stack'[x]) = m /\ m \in Nat /\ m <= Len(stack[x]) + 1
       /\ \A k \in 1..(m - 1) : stack'[x][k] = stack[x][k]
       /\ \A y \in Stacks \ {x} : stack'[y] = stack[y]
  BY Zenon, <1>4, <1>6
<1> QED
  BY ZenonT(60), <1>2, <1>7, <1>8, <1>9, <1>10, <1>11, <1>12, Finish

(* An interrupt in the kernel: interrupts are on, so no lock is held and no handler is running. *)
LEMMA KernelIntrKeeps ==
  ASSUME TrapInv, NEW h \in Hart, NEW timer \in BOOLEAN, KernelIntr(h, timer)
  PROVE  TrapInv'
<1>1. PICK x \in Stacks, n \in 1..3, t \in Frames : IsTop(h, x, n, t)
  BY Zenon, Now
<1>2. RegsOK /\ TrTypeOK /\ StacksInv /\ CurrentInv
  BY Zenon DEF TrapInv, TrapSafe, TrTypeOK, RegsOK
<1>3. x = current[h] /\ n = Len(stack[x]) /\ stack[x] \in Seq(Frames) /\ t = Top(h) /\ t = stack[x][n]
      /\ FrameOK(x, n) /\ HartFits(h, t, <<x, n - 1>>)
  BY Zenon, <1>1 DEF IsTop
<1>4. /\ t.at \in Labels /\ t.held \in 0..MaxHeld /\ t.pc \in Places /\ t.spie \in BOOLEAN /\ t.intena \in BOOLEAN
      /\ n = 1 <=> t.at \notin {"ktrap", "kret", "yield"}
      /\ n = 1 => (x \in Hart <=> t.at \in {"loop", "back"})
      /\ t.held > 0 => t.at \in {"sys", "utrap", "ktrap"}
      /\ t.held = 0 \/ t.held > 0
      /\ t.at \in {"ktrap", "kret"} => t.pc = <<x, n - 1>> /\ t.spie
  BY Zenon, <1>1, TopFacts
<1>5. t.at # "user" /\ sie[h] /\ stvec[h] = "kernelvec" /\ current' = current
  BY <1>3 DEF KernelIntr, Here
<1>6. noff[h] = 0
  <2>1. ~(noff[h] > 0) /\ noff[h] \in 0..MaxHeld
    BY Zenon, <1>2, <1>3, <1>5 DEF HartFits, RegsOK
  <2> QED
    BY <2>1, TrapAssumption
<1>7. t.held = 0 /\ t.at \in {"sys", "uret", "loop"}
  <2>1. t.held = 0 /\ t.at \notin {"yield", "new", "back"}
    <3>1. t.held \in Nat /\ t.held + 0 >= t.held /\ t.held + 1 > 0
      BY <1>4, TrapAssumption
    <3>2. 0 = t.held + (IF t.at \in {"yield", "new", "back"} THEN 1 ELSE 0)
      BY Zenon, <1>3, <1>6 DEF HartFits
    <3> QED
      BY <3>1, <3>2
  <2> QED
    BY Zenon, <1>3, <1>4, <1>5, <2>1 DEF HartFits, Labels
<1>8. n = 1 /\ <<x, n>> \in Places /\ 0 \in 0..MaxHeld
  BY Zenon, <1>4, <1>7, TrapAssumption DEF Places
<1>9. PICK f \in Frames : /\ f = [Frame("ktrap") EXCEPT !.timer = timer, !.pc = <<x, n>>, !.spie = TRUE]
                          /\ f.at = "ktrap" /\ f.held = 0 /\ f.pc = <<x, n>> /\ f.spie
  <2>1. PICK p \in Places : p = <<x, n>>
    BY ZenonT(60), <1>8
  <2>2. \E f \in Frames : /\ f = [Frame("ktrap") EXCEPT !.timer = timer, !.pc = p, !.spie = TRUE]
                         /\ f.at = "ktrap" /\ f.held = 0 /\ f.pc = p /\ f.spie
    BY ZenonT(60), TrapFrame
  <2> QED
    BY Zenon, <2>1, <2>2
<1>10. /\ sie'[h] = FALSE /\ noff'[h] = noff[h] /\ intena'[h] = intena[h] /\ stvec'[h] = stvec[h]
       /\ sepc'[h] = <<x, n>> /\ spie'[h] = TRUE
  BY Zenon, <1>2, <1>3 DEF KernelIntr, TakeTrap, RegsOK
<1>11. stack' = [stack EXCEPT ![x] = Append(@, f)]
  BY Zenon, <1>3, <1>9, <1>10 DEF KernelIntr
<1>12. OthersKept(h)
  BY Zenon, <1>2 DEF KernelIntr, TakeTrap, OthersKept, RegsOK
<1>13. RegsOK'
  <2>1. sepc' \in [Hart -> Places]
    BY Zenon, <1>2, <1>3, <1>8 DEF KernelIntr, TakeTrap, RegsOK
  <2> QED
    BY Zenon, <1>2, <1>5, <2>1 DEF KernelIntr, TakeTrap, RegsOK
<1>14. HartFits(h, f, <<x, n>>)'
  <2>1. noff'[h] = 0 /\ 0 + 0 = 0 /\ ~(0 > 0) /\ ~sie'[h] /\ stvec'[h] = "kernelvec"
    BY <1>5, <1>6, <1>10
  <2> QED
    BY Zenon, <1>9, <2>1 DEF HartFits
<1>15. /\ \A g, k \in Hart : current'[g] = current'[k] => g = k
       /\ current'[h] = x /\ n < 3
  BY <1>2, <1>3, <1>5, <1>8 DEF CurrentInv
<1> QED
  <2>1. /\ t.at # "yield" /\ f.at \in {"ktrap", "yield"} /\ f.at # "yield"
        /\ t.at \in {"sys", "uret", "loop"} /\ f.pc = <<x, n>> /\ f.spie
    BY Zenon, <1>7, <1>9
  <2>2. f.held = 0 /\ t.held = 0
    BY Zenon, <1>7, <1>9
  <2> QED
    BY Zenon, <1>1, <1>11, <1>12, <1>13, <1>14, <1>15, <2>1, <2>2, PushStep

(* yield() and sched(): interrupts are on just in a system call, and that is the intena that is kept. *)
LEMMA YieldKeeps ==
  ASSUME TrapInv, NEW h \in Hart, Yield(h)
  PROVE  TrapInv'
<1>1. PICK x \in Stacks, n \in 1..3, t \in Frames : IsTop(h, x, n, t)
  BY Zenon, Now
<1>2. RegsOK /\ TrTypeOK /\ StacksInv /\ CurrentInv
  BY Zenon DEF TrapInv, TrapSafe, TrTypeOK, RegsOK
<1>3. x = current[h] /\ n = Len(stack[x]) /\ stack[x] \in Seq(Frames) /\ t = Top(h) /\ t = stack[x][n]
      /\ FrameOK(x, n) /\ HartFits(h, t, <<x, n - 1>>)
  BY Zenon, <1>1 DEF IsTop
<1>4. /\ t.at \in Labels /\ t.held \in 0..MaxHeld /\ t.pc \in Places /\ t.spie \in BOOLEAN /\ t.intena \in BOOLEAN
      /\ n = 1 <=> t.at \notin {"ktrap", "kret", "yield"}
      /\ n = 1 => (x \in Hart <=> t.at \in {"loop", "back"})
      /\ t.held > 0 => t.at \in {"sys", "utrap", "ktrap"}
      /\ t.held = 0 \/ t.held > 0
      /\ t.at \in {"ktrap", "kret"} => t.pc = <<x, n - 1>> /\ t.spie
  BY Zenon, <1>1, TopFacts
<1>5. /\ x \in Thread /\ t.held = 0 /\ t.at \in {"sys", "utrap", "ktrap"}
      /\ current' = [current EXCEPT ![h] = h]
  BY Zenon, <1>3 DEF Yield, Here
<1>6. noff[h] = 0 /\ stvec[h] = "kernelvec" /\ (sie[h] <=> t.at = "sys")
  <2>1. noff[h] = 0
    BY Zenon, <1>3, <1>5, NoLocks
  <2> QED
    BY Zenon, <1>3, <1>5, <2>1 DEF HartFits
<1>7. Saved(h) = sie[h] /\ sie[h] \in BOOLEAN
  BY Zenon, <1>2, <1>6 DEF Saved, RegsOK
<1>8. n < 3
  <2>1. ASSUME n = 3 PROVE FALSE
    <3>1. stack[x][2].at \in {"sys", "uret", "loop"} /\ 2 \in 1..Len(stack[x])
      <4>1. t.at = "ktrap"
        BY <1>4, <1>5, <2>1
      <4>2. stack[x][n - 1].at \in {"sys", "uret", "loop"}
        BY Zenon, <1>3, <4>1 DEF FrameOK
      <4> QED
        BY <1>3, <2>1, <4>2
    <3>2. FrameOK(x, 2)
      BY Zenon, <1>2, <3>1 DEF StacksInv
    <3>3. 2 = 1 <=> stack[x][2].at \notin {"ktrap", "kret", "yield"}
      BY Zenon, <3>2 DEF FrameOK
    <3> QED
      BY <3>1, <3>3
  <2> QED
    BY <2>1
<1>9. PICK f \in Frames : f.at = "yield" /\ f.held = 0 /\ f.intena = sie[h] /\ f = [Frame("yield") EXCEPT !.intena = sie[h]]
  BY Zenon, <1>7, YieldFrame
<1>10. /\ sie'[h] = FALSE /\ noff'[h] = noff[h] + 1 /\ stvec'[h] = stvec[h] /\ current'[h] = h
  BY Zenon, <1>2, <1>5 DEF Yield, PushOff, RegsOK
<1>11. stack' = [stack EXCEPT ![x] = Append(@, f)]
  BY Zenon, <1>3, <1>7, <1>9 DEF Yield
<1>12. OthersKept(h)
  BY Zenon, <1>2 DEF Yield, PushOff, OthersKept, RegsOK, regVars
<1>13. RegsOK'
  <2>1. noff[h] + 1 \in 0..MaxHeld
    BY <1>6, TrapAssumption
  <2>2. noff' \in [Hart -> 0..MaxHeld] /\ sie' \in [Hart -> BOOLEAN] /\ intena' \in [Hart -> BOOLEAN]
    BY Zenon, <1>2, <1>7, <2>1 DEF Yield, PushOff, RegsOK
  <2>3. current' \in [Hart -> Stacks] /\ plock' \in [Thread -> Hart \cup {NoHart}]
    BY <1>2, <1>5 DEF Yield, RegsOK, Stacks
  <2> QED
    BY Zenon, <1>2, <2>2, <2>3 DEF Yield, RegsOK, regVars
<1>14. HartFits(h, Frame("back"), <<x, n>>)'
  <2>1. Frame("back").at = "back" /\ Frame("back").held = 0
    BY Zenon DEF Frame
  <2>2. noff'[h] = 0 + 1 /\ ~(0 > 0)
    BY <1>6, <1>10
  <2> QED
    BY Zenon, <1>6, <1>10, <2>1, <2>2 DEF HartFits
<1>15. x # h /\ stack[h] = <<Frame("back")>>
  BY Zenon, <1>2, <1>3, <1>5, TrapAssumption DEF CurrentInv
<1>16. \A g, k \in Hart : current'[g] = current'[k] => g = k
  <2>1. \A g \in Hart \ {h} : current'[g] = current[g] /\ current'[g] # h
    BY Zenon, <1>2, <1>12, TrapAssumption DEF CurrentInv, OthersKept
  <2> QED
    BY Zenon, <1>2, <1>10, <2>1 DEF CurrentInv
<1>17. f.intena <=> t.at = "sys"
  BY Zenon, <1>6, <1>9
<1> QED
  BY Zenon, <1>1, <1>5, <1>8, <1>9, <1>10, <1>11, <1>12, <1>13, <1>14, <1>15, <1>16, <1>17, PushStep

(* A return takes the top frame, or gives up the stack as it is. *)
LEMMA PopStep ==
  ASSUME TrapInv, NEW h \in Hart, NEW x \in Stacks, NEW n \in 1..3, NEW t \in Frames, IsTop(h, x, n, t),
         NEW m \in 1..2, n = m + 1, NEW f \in Frames, 
         stack' \in [Stacks -> Seq(Frames)], \A y \in Stacks \ {x} : stack'[y] = stack[y],
         Len(stack'[x]) = m, stack'[x][m] = f, \A k \in 1..(m - 1) : stack'[x][k] = stack[x][k],
         f.at = stack[x][m].at, f.held = 0, f.pc = stack[x][m].pc, f.spie = stack[x][m].spie,
         f.at \notin {"yield", "kret"}, RegsOK', OthersKept(h), current' = current, NEW p, HartFits(h, f, p)'
  PROVE  TrapInv'
<1>1. TrTypeOK /\ CurrentInv /\ StacksInv /\ stack \in [Stacks -> Seq(Frames)]
  BY Zenon DEF TrapInv, TrapSafe, TrTypeOK
<1>2. x = current[h] /\ n = Len(stack[x]) /\ stack[x] \in Seq(Frames) /\ t = stack[x][n]
  BY Zenon DEF IsTop
<1>3. m >= 1 /\ n >= 1 /\ n - 1 = m /\ m \in Nat /\ m \in 1..n /\ m \in 1..3 /\ m <= n + 1 /\ ~(m > n) /\ m \in 1..m
  OBVIOUS
<1>4. m <= Len(stack[x]) + 1 /\ ~(m > Len(stack[x]))
  BY Zenon, <1>2, <1>3
<1>9. TrTypeOK'
  <2>1. \A y \in Stacks : Len(stack'[y]) \in 1..3
    BY ZenonT(60), <1>1, <1>3 DEF TrTypeOK
  <2> QED
    BY Zenon, <2>1 DEF TrTypeOK, RegsOK
<1>10. CurrentInv'
  <2>1. ASSUME NEW g \in Hart, current[g] # g PROVE stack'[g] = stack[g]
    <3>1. g # x
      BY <1>1, <1>2, <2>1, NotOnIt
    <3> QED
      BY Zenon, <3>1 DEF Stacks
  <2> QED
    BY Zenon, <1>1, <2>1 DEF CurrentInv
<1>11. FrameOK(x, m)'
  <2>1. FrameOK(x, m)
    BY Zenon, <1>1, <1>2, <1>3 DEF StacksInv
  <2>2. m > 1 => stack'[x][m - 1] = stack[x][m - 1]
    OBVIOUS
  <2>3. m = 1 \/ m > 1
    OBVIOUS
  <2>4. ~(f.held > 0)
    OBVIOUS
  <2> QED
    BY Zenon, <2>1, <2>2, <2>3, <2>4 DEF FrameOK
<1>12. HartOK(h)'
  <2>1. Top(h)' = f /\ current'[h] = x /\ Len(stack'[x]) = m
    BY Zenon, <1>2 DEF Top, TopOf
  <2> QED
    BY Zenon, <2>1 DEF HartOK, HartFits
<1> QED
  BY Zenon, <1>2, <1>3, <1>4, <1>9, <1>10, <1>11, <1>12, Finish

(* The sret of kernelvec goes back to code that runs with interrupts on. *)
LEMMA KernelReturnKeeps ==
  ASSUME TrapInv, NEW h \in Hart, KernelReturn(h)
  PROVE  TrapInv'
<1>1. PICK x \in Stacks, n \in 1..3, t \in Frames : IsTop(h, x, n, t)
  BY Zenon, Now
<1>2. RegsOK /\ TrTypeOK /\ StacksInv /\ CurrentInv
  BY Zenon DEF TrapInv, TrapSafe, TrTypeOK, RegsOK
<1>3. x = current[h] /\ n = Len(stack[x]) /\ stack[x] \in Seq(Frames) /\ t = Top(h) /\ t = stack[x][n]
      /\ FrameOK(x, n) /\ HartFits(h, t, <<x, n - 1>>)
  BY Zenon, <1>1 DEF IsTop
<1>4. /\ t.at \in Labels /\ t.held \in 0..MaxHeld /\ t.pc \in Places /\ t.spie \in BOOLEAN /\ t.intena \in BOOLEAN
      /\ n = 1 <=> t.at \notin {"ktrap", "kret", "yield"}
      /\ n = 1 => (x \in Hart <=> t.at \in {"loop", "back"})
      /\ t.held > 0 => t.at \in {"sys", "utrap", "ktrap"}
      /\ t.held = 0 \/ t.held > 0
      /\ t.at \in {"ktrap", "kret"} => t.pc = <<x, n - 1>> /\ t.spie
  BY Zenon, <1>1, TopFacts
<1>5. t.at = "kret" /\ current' = current /\ n # 1
  BY Zenon, <1>3, <1>4 DEF KernelReturn, Here
<1>6. PICK m \in 1..2 : n = m + 1
  <2>1. \A k \in 1..3 : k # 1 => k - 1 \in 1..2 /\ k = (k - 1) + 1
    OBVIOUS
  <2> QED
    BY Zenon, <1>5, <2>1
<1>7. n - 1 = m /\ n >= 1 /\ m \in 1..n /\ m \in 1..(n - 1) /\ \A k \in 1..(m - 1) : k \in 1..(n - 1)
  BY <1>6
<1>8. /\ Pop(stack[x]) \in Seq(Frames) /\ Len(Pop(stack[x])) = Len(stack[x]) - 1
      /\ \A k \in 1..(Len(stack[x]) - 1) : Pop(stack[x])[k] = stack[x][k]
  BY Zenon, <1>3, <1>7, PopLast
<1>9. /\ stack' \in [Stacks -> Seq(Frames)] /\ stack'[x] = Pop(stack[x])
      /\ \A y \in Stacks \ {x} : stack'[y] = stack[y]
  BY Zenon, <1>2, <1>3, <1>8 DEF KernelReturn, TrTypeOK
<1>10. PICK f \in Frames : f = stack[x][m]
  <2>1. m \in 1..Len(stack[x])
    BY Zenon, <1>3, <1>7
  <2>2. stack[x][m] \in Frames
    BY <1>3, <2>1
  <2> QED
    BY Zenon, <2>2
<1>11. Len(stack'[x]) = m /\ stack'[x][m] = f /\ \A k \in 1..(m - 1) : stack'[x][k] = stack[x][k]
  BY <1>3, <1>7, <1>8, <1>9, <1>10
<1>12. f.at \in {"sys", "uret", "loop"} /\ f.held = 0
  <2>1. f.at \in {"sys", "uret", "loop"}
    BY Zenon, <1>3, <1>5, <1>7, <1>10 DEF FrameOK
  <2>2. \A k \in 1..(Len(stack[x]) - 1) : stack[x][k].held = 0
    BY Zenon DEF TrapInv, TrapSafe, NoTrapWithLock
  <2> QED
    BY Zenon, <1>3, <1>7, <1>10, <2>1, <2>2
<1>13. noff[h] = 0 /\ spie[h] /\ stvec[h] = "kernelvec" /\ spie[h] \in BOOLEAN
  <2>1. t.held = 0
    BY Zenon, <1>4, <1>5
  <2>2. noff[h] = 0
    BY Zenon, <1>3, <1>5, <2>1, NoLocks
  <2> QED
    BY Zenon, <1>2, <1>3, <1>5, <2>2 DEF HartFits, RegsOK
<1>14. sie'[h] /\ noff'[h] = 0 /\ stvec'[h] = "kernelvec"
  BY Zenon, <1>2, <1>13 DEF KernelReturn, RegsOK
<1>15. OthersKept(h)
  BY Zenon, <1>2 DEF KernelReturn, OthersKept, RegsOK, regVars
<1>16. RegsOK'
  BY Zenon, <1>2, <1>13 DEF KernelReturn, RegsOK, regVars
<1>17. HartFits(h, f, <<x, m - 1>>)'
  <2>1. 0 + 0 = 0 /\ ~(0 > 0)
    OBVIOUS
  <2> QED
    BY Zenon, <1>12, <1>14, <2>1 DEF HartFits
<1>18. f.at = stack[x][m].at /\ f.held = 0 /\ f.pc = stack[x][m].pc /\ f.spie = stack[x][m].spie
       /\ f.at \notin {"yield", "kret"}
  BY Zenon, <1>10, <1>12
<1>19. stack' \in [Stacks -> Seq(Frames)] /\ \A y \in Stacks \ {x} : stack'[y] = stack[y]
  BY Zenon, <1>9
<1> QED
  BY ZenonT(60), <1>1, <1>5, <1>6, <1>11, <1>15, <1>16, <1>17, <1>18, <1>19, PopStep

(* The thread goes on in yield(), with its own intena on this hart, or in forkret(). *)
LEMMA ResumeKeeps ==
  ASSUME TrapInv, NEW h \in Hart, Resume(h)
  PROVE  TrapInv'
<1>1. PICK x \in Stacks, n \in 1..3, t \in Frames : IsTop(h, x, n, t)
  BY Zenon, Now
<1>2. RegsOK /\ TrTypeOK /\ StacksInv /\ CurrentInv
  BY Zenon DEF TrapInv, TrapSafe, TrTypeOK, RegsOK
<1>3. x = current[h] /\ n = Len(stack[x]) /\ stack[x] \in Seq(Frames) /\ t = Top(h) /\ t = stack[x][n]
      /\ FrameOK(x, n) /\ HartFits(h, t, <<x, n - 1>>)
  BY Zenon, <1>1 DEF IsTop
<1>4. /\ t.at \in Labels /\ t.held \in 0..MaxHeld /\ t.pc \in Places /\ t.spie \in BOOLEAN /\ t.intena \in BOOLEAN
      /\ n = 1 <=> t.at \notin {"ktrap", "kret", "yield"}
      /\ n = 1 => (x \in Hart <=> t.at \in {"loop", "back"})
      /\ t.held > 0 => t.at \in {"sys", "utrap", "ktrap"}
      /\ t.held = 0 \/ t.held > 0
      /\ t.at \in {"ktrap", "kret"} => t.pc = <<x, n - 1>> /\ t.spie
  BY Zenon, <1>1, TopFacts
<1>5. t.at \in {"yield", "new"} /\ current' = current
  BY Zenon, <1>3 DEF Resume, Here
<1>6. noff[h] = 1 /\ t.held = 0 /\ ~sie[h] /\ stvec[h] = "kernelvec"
  <2>1. t.held = 0
    BY Zenon, <1>4, <1>5
  <2>2. noff[h] = 1
    BY Zenon, <1>3, <1>5, <2>1, NoLocks
  <2> QED
    BY <1>3, <1>5, <2>1, <2>2 DEF HartFits
<1>7. /\ noff'[h] = 0 /\ (sie'[h] <=> intena[h]) /\ stvec'[h] = "kernelvec" /\ intena'[h] = intena[h]
      /\ 0 + 0 = 0 /\ ~(0 > 0)
  BY <1>2, <1>6 DEF Resume, PopOff, Reenable, RegsOK
<1>8. OthersKept(h)
  BY Zenon, <1>2 DEF Resume, PopOff, OthersKept, RegsOK, regVars
<1>9. x \in Thread
  BY Zenon, <1>3, <1>4, <1>5 DEF FrameOK, Stacks
<1>10. RegsOK'
  <2>1. noff[h] - 1 \in 0..MaxHeld
    BY <1>6, TrapAssumption
  <2>2. noff' \in [Hart -> 0..MaxHeld] /\ sie' \in [Hart -> BOOLEAN]
    BY Zenon, <1>2, <2>1 DEF Resume, PopOff, RegsOK, Reenable
  <2>3. plock' \in [Thread -> Hart \cup {NoHart}]
    BY Zenon, <1>2 DEF Resume, RegsOK
  <2> QED
    BY Zenon, <1>2, <2>2, <2>3 DEF Resume, RegsOK, regVars
<1>11. TopOf(x).at = t.at
  BY Zenon, <1>3 DEF TopOf
<1>12. CASE t.at = "new"
  <2>1. n = 1
    BY Zenon, <1>4, <1>12
  <2>3. PICK f \in Frames : f = Frame("uret") /\ f.at = "uret" /\ f.held = 0
    <3>1. "uret" \in Labels /\ FALSE \in BOOLEAN
      BY Zenon DEF Labels
    <3> QED
      BY Zenon, <3>1, NewFrame
  <2>4. Replaces(f, t)
    BY <1>12, <2>3 DEF Replaces
  <2>5. HartFits(h, f, <<x, n - 1>>)'
    BY Zenon, <1>7, <2>3 DEF HartFits
  <2>6. stack' = [stack EXCEPT ![x] = <<f>>]
    BY Zenon, <1>3, <1>11, <1>12, <2>3 DEF Resume
  <2>7. <<f>> \in Seq(Frames) /\ Len(<<f>>) = 1 /\ <<f>>[1] = f
    OBVIOUS
  <2>8. /\ stack' \in [Stacks -> Seq(Frames)] /\ \A y \in Stacks \ {x} : stack'[y] = stack[y]
        /\ stack'[x] = <<f>>
    BY Zenon, <1>2, <2>6, <2>7 DEF TrTypeOK
  <2>9. Len(stack'[x]) = n /\ stack'[x][n] = f /\ \A k \in 1..(n - 1) : stack'[x][k] = stack[x][k]
    <3>1. \A k \in 1..(n - 1) : FALSE
      BY <2>1
    <3> QED
      BY Zenon, <2>1, <2>7, <2>8, <3>1
  <2> QED
    BY Zenon, <1>1, <1>5, <1>8, <1>10, <2>4, <2>5, <2>8, <2>9, TopKept
<1>13. CASE t.at = "yield"
  <2>1. PICK m \in 1..2 : n = m + 1
    <3>1. \A k \in 1..3 : k # 1 => k - 1 \in 1..2 /\ k = (k - 1) + 1
      OBVIOUS
    <3> QED
      BY Zenon, <1>4, <1>13, <3>1
  <2>2. n - 1 = m /\ n >= 1 /\ m >= 1 /\ m \in 1..n /\ m \in 1..m /\ \A k \in 1..(m - 1) : k \in 1..m
    BY <2>1
  <2>3. PICK s \in Seq(Frames) : s = Pop(stack[x]) /\ Len(s) = m /\ \A k \in 1..m : s[k] = stack[x][k]
    <3>1. /\ Pop(stack[x]) \in Seq(Frames) /\ Len(Pop(stack[x])) = Len(stack[x]) - 1
          /\ \A k \in 1..(Len(stack[x]) - 1) : Pop(stack[x])[k] = stack[x][k]
      BY Zenon, <1>3, <2>2, PopLast
    <3> QED
      BY Zenon, <1>3, <2>2, <3>1
  <2>4. PICK b \in Frames : b = stack[x][m] /\ b = s[m]
    BY <1>3, <2>2, <2>3
  <2>5. PICK f \in Frames : /\ f = [b EXCEPT !.timer = FALSE]
                            /\ f.at = b.at /\ f.held = b.held /\ f.pc = b.pc /\ f.spie = b.spie
    BY Zenon, QuietFrame
  <2>6. /\ b.at \in {"sys", "utrap", "ktrap"} /\ (t.intena <=> b.at = "sys")
    BY Zenon, <1>3, <1>13, <2>2, <2>4 DEF FrameOK
  <2>7. b.held = 0
    <3>1. \A k \in 1..(Len(stack[x]) - 1) : stack[x][k].held = 0
      BY Zenon DEF TrapInv, TrapSafe, NoTrapWithLock
    <3> QED
      BY Zenon, <1>3, <2>2, <2>4, <3>1
  <2>8. /\ [s EXCEPT ![m] = f] \in Seq(Frames) /\ Len([s EXCEPT ![m] = f]) = m
        /\ [s EXCEPT ![m] = f][m] = f /\ \A k \in 1..(m - 1) : [s EXCEPT ![m] = f][k] = s[k]
    <3>1. /\ [s EXCEPT ![m] = f] \in Seq(Frames) /\ Len([s EXCEPT ![m] = f]) = Len(s)
          /\ [s EXCEPT ![m] = f][m] = f
          /\ \A k \in 1..Len(s) : k # m => [s EXCEPT ![m] = f][k] = s[k]
      BY <2>2, <2>3, SetLast
    <3>2. \A k \in 1..(m - 1) : k \in 1..m /\ k # m
      OBVIOUS
    <3> QED
      BY Zenon, <2>3, <3>1, <3>2
  <2>9. stack' = [stack EXCEPT ![x] = [s EXCEPT ![m] = f]]
    BY Zenon, <1>3, <1>11, <1>13, <2>3, <2>4, <2>5 DEF Resume
  <2>10. /\ stack' \in [Stacks -> Seq(Frames)] /\ stack'[x] = [s EXCEPT ![m] = f]
         /\ \A y \in Stacks \ {x} : stack'[y] = stack[y]
    BY Zenon, <1>2, <2>8, <2>9 DEF TrTypeOK
  <2>11. Len(stack'[x]) = m /\ stack'[x][m] = f /\ \A k \in 1..(m - 1) : stack'[x][k] = stack[x][k]
    BY Zenon, <2>2, <2>3, <2>8, <2>10
  <2>12. intena[h] <=> b.at = "sys"
    BY Zenon, <1>3, <1>13, <2>6 DEF HartFits
  <2>13. HartFits(h, f, <<x, m - 1>>)'
    <3>1. (sie'[h] <=> f.at = "sys") /\ f.at \in {"sys", "utrap", "ktrap"} /\ f.held = 0
      BY Zenon, <1>7, <2>5, <2>6, <2>7, <2>12
    <3> QED
      BY Zenon, <1>7, <3>1 DEF HartFits
  <2>14. f.at = stack[x][m].at /\ f.held = 0 /\ f.pc = stack[x][m].pc /\ f.spie = stack[x][m].spie
         /\ f.at \notin {"yield", "kret"}
    BY Zenon, <2>4, <2>5, <2>6, <2>7
  <2>15. stack' \in [Stacks -> Seq(Frames)] /\ \A y \in Stacks \ {x} : stack'[y] = stack[y]
    BY Zenon, <2>10
  <2> QED
    BY ZenonT(60), <1>1, <1>5, <1>8, <1>10, <2>1, <2>11, <2>13, <2>14, <2>15, PopStep
<1> QED
  BY Zenon, <1>5, <1>12, <1>13

(* scheduler() switches to a thread. *)
LEMMA SwtchInKeeps ==
  ASSUME TrapInv, NEW h \in Hart, NEW u \in Thread, SwtchIn(h, u)
  PROVE  TrapInv'
<1>1. PICK x \in Stacks, n \in 1..3, t \in Frames : IsTop(h, x, n, t)
  BY Zenon, Now
<1>2. RegsOK /\ TrTypeOK /\ StacksInv /\ CurrentInv
  BY Zenon DEF TrapInv, TrapSafe, TrTypeOK, RegsOK
<1>3. x = current[h] /\ n = Len(stack[x]) /\ stack[x] \in Seq(Frames) /\ t = Top(h) /\ t = stack[x][n]
      /\ FrameOK(x, n) /\ HartFits(h, t, <<x, n - 1>>)
  BY Zenon, <1>1 DEF IsTop
<1>4. /\ t.at \in Labels /\ t.held \in 0..MaxHeld /\ t.pc \in Places /\ t.spie \in BOOLEAN /\ t.intena \in BOOLEAN
      /\ n = 1 <=> t.at \notin {"ktrap", "kret", "yield"}
      /\ n = 1 => (x \in Hart <=> t.at \in {"loop", "back"})
      /\ t.held > 0 => t.at \in {"sys", "utrap", "ktrap"}
      /\ t.held = 0 \/ t.held > 0
      /\ t.at \in {"ktrap", "kret"} => t.pc = <<x, n - 1>> /\ t.spie
  BY Zenon, <1>1, TopFacts
<1>5. /\ t.at = "loop" /\ (\A g \in Hart : current[g] # u) /\ TopOf(u).at \in {"yield", "new"}
      /\ current' = [current EXCEPT ![h] = u] /\ stack' = [stack EXCEPT ![h] = <<Frame("back")>>]
  BY Zenon, <1>3 DEF SwtchIn, Here
<1>6. x = h /\ n = 1 /\ u # h /\ u \in Stacks /\ h \in Stacks
  BY Zenon, <1>2, <1>3, <1>4, <1>5, TrapAssumption DEF CurrentInv, Stacks
<1>7. PICK f \in Frames : f = Frame("back") /\ f.at = "back" /\ f.held = 0
  <2>1. "back" \in Labels /\ FALSE \in BOOLEAN
    BY Zenon DEF Labels
  <2> QED
    BY Zenon, <2>1, NewFrame
<1>8. noff[h] = 0 /\ t.held = 0 /\ stvec[h] = "kernelvec"
  <2>1. t.held = 0
    BY Zenon, <1>4, <1>5
  <2>2. noff[h] = 0
    BY Zenon, <1>3, <1>5, <2>1, NoLocks
  <2> QED
    BY Zenon, <1>3, <1>5, <2>1, <2>2 DEF HartFits
<1>9. /\ stack'[h] = <<f>> /\ Len(<<f>>) = 1 /\ <<f>>[1] = f /\ <<f>> \in Seq(Frames)
      /\ \A y \in Stacks \ {h} : stack'[y] = stack[y]
  BY <1>2, <1>5, <1>6, <1>7 DEF TrTypeOK
<1>10. PICK d \in Frames : /\ d = TopOf(u) /\ d.at \in {"yield", "new"} /\ d.held = 0 /\ d.intena \in BOOLEAN
  <2>1. stack[u] \in Seq(Frames) /\ Len(stack[u]) \in 1..3
    BY Zenon, <1>2, <1>6 DEF TrTypeOK
  <2>2. \A k \in 1..3 : k \in 1..k
    OBVIOUS
  <2>3. Len(stack[u]) \in 1..Len(stack[u])
    BY Zenon, <2>1, <2>2
  <2>4. FrameOK(u, Len(stack[u])) /\ stack[u][Len(stack[u])] \in Frames
    BY <1>2, <1>6, <2>1, <2>3 DEF StacksInv
  <2>5. TopOf(u) = stack[u][Len(stack[u])]
    BY Zenon DEF TopOf
  <2>6. TopOf(u).held \in 0..MaxHeld /\ TopOf(u).intena \in BOOLEAN
    BY Zenon, <2>4, <2>5 DEF Frames
  <2>7. ~(TopOf(u).held > 0)
    BY Zenon, <1>5, <2>4, <2>5 DEF FrameOK
  <2>8. TopOf(u).held = 0
    BY <2>6, <2>7, TrapAssumption
  <2> QED
    BY Zenon, <1>5, <2>4, <2>5, <2>6, <2>8
<1>11. /\ noff'[h] = 1 /\ sie'[h] = FALSE /\ stvec'[h] = "kernelvec" /\ current'[h] = u
       /\ d.at = "yield" => intena'[h] = d.intena
  <2>1. noff'[h] = noff[h] + 1 /\ sie'[h] = FALSE /\ stvec'[h] = stvec[h] /\ current'[h] = u /\ intena'[h] = Resumed(h, u)
    BY Zenon, <1>2, <1>5 DEF SwtchIn, RegsOK
  <2> QED
    BY <1>8, <1>10, <2>1 DEF Resumed
<1>12. OthersKept(h)
  BY Zenon, <1>2 DEF SwtchIn, OthersKept, RegsOK, regVars
<1>13. RegsOK'
  <2>1. noff[h] + 1 \in 0..MaxHeld
    BY <1>8, TrapAssumption
  <2>2. Resumed(h, u) \in BOOLEAN
    BY Zenon, <1>2, <1>10 DEF Resumed, Saved, RegsOK
  <2>3. noff' \in [Hart -> 0..MaxHeld] /\ sie' \in [Hart -> BOOLEAN] /\ intena' \in [Hart -> BOOLEAN]
    BY Zenon, <1>2, <2>1, <2>2 DEF SwtchIn, RegsOK
  <2>4. current' \in [Hart -> Stacks] /\ plock' \in [Thread -> Hart \cup {NoHart}]
    BY Zenon, <1>2, <1>5, <1>6 DEF SwtchIn, RegsOK
  <2> QED
    BY Zenon, <1>2, <2>3, <2>4 DEF SwtchIn, RegsOK, regVars
<1>14. TrTypeOK'
  <2>1. stack' \in [Stacks -> Seq(Frames)]
    BY Zenon, <1>2, <1>5, <1>6, <1>7, <1>9 DEF TrTypeOK
  <2>2. \A y \in Stacks : Len(stack'[y]) \in 1..3
    <3>1. 1 \in 1..3
      OBVIOUS
    <3> QED
      BY Zenon, <1>2, <1>9, <3>1 DEF TrTypeOK
  <2> QED
    BY Zenon, <1>13, <2>1, <2>2 DEF TrTypeOK, RegsOK
<1>15. CurrentInv'
  <2>1. \A g \in Hart \ {h} : current'[g] = current[g] /\ stack'[g] = stack[g]
    BY Zenon, <1>9, <1>12 DEF OthersKept, Stacks
  <2>2. current'[h] = u /\ stack'[h] = <<Frame("back")>>
    BY Zenon, <1>7, <1>9, <1>11
  <2>3. \A g \in Hart : current'[g] = g \/ (current'[g] \in Thread /\ stack'[g] = <<Frame("back")>>)
    BY Zenon, <1>2, <2>1, <2>2 DEF CurrentInv
  <2>4. \A g, k \in Hart : current'[g] = current'[k] => g = k
    BY <1>2, <1>5, <2>1, <2>2 DEF CurrentInv
  <2> QED
    BY Zenon, <2>3, <2>4 DEF CurrentInv
<1>16. FrameOK(x, n)'
  <2>1. stack'[x][n] = f /\ x \in Hart /\ ~(f.held > 0) /\ n = 1
    BY <1>6, <1>7, <1>9
  <2> QED
    BY Zenon, <1>7, <2>1 DEF FrameOK
<1>17. HartOK(h)'
  <2>1. Top(h)' = d
    BY Zenon, <1>6, <1>9, <1>10, <1>11 DEF Top, TopOf
  <2>2. 0 + 1 = 1
    OBVIOUS
  <2>3. ~(d.held > 0) /\ d.held + 1 = 1 /\ d.at \notin {"sys", "utrap", "ktrap", "kret", "sret", "user"}
    BY <1>10, <2>2
  <2> QED
    BY Zenon, <1>10, <1>11, <2>1, <2>3 DEF HartOK, HartFits
<1>18. /\ n \in Nat /\ Len(stack'[x]) = n /\ n <= Len(stack[x]) + 1 /\ ~(n > Len(stack[x]))
       /\ \A k \in 1..(n - 1) : stack'[x][k] = stack[x][k]
  <2>1. n \in Nat /\ n <= n + 1 /\ ~(n > n) /\ \A k \in 1..(n - 1) : FALSE
    BY <1>6
  <2> QED
    BY Zenon, <1>3, <1>6, <1>9, <2>1
<1>19. \A y \in Stacks \ {x} : stack'[y] = stack[y]
  BY Zenon, <1>6, <1>9
<1> QED
  BY Zenon, <1>3, <1>12, <1>14, <1>15, <1>16, <1>17, <1>18, <1>19, Finish

(* The kernel's interrupt invariant: every step of push_off(), pop_off(), the
   trap handlers, sched() and scheduler() keeps TrapInv. *)
THEOREM TrapInvariant == TrSpec => []TrapInv
<1>1. TrInit => TrapInv
  <2> SUFFICES ASSUME TrInit PROVE TrapInv
    BY Zenon
  <2>1. \A x \in Stacks : stack[x] = <<Frame(IF x \in Hart THEN "loop" ELSE "new")>>
    BY Zenon DEF TrInit
  <2>2. Frame("loop") \in Frames /\ Frame("new") \in Frames
    <3>1. "loop" \in Labels /\ "new" \in Labels /\ FALSE \in BOOLEAN
      BY Zenon DEF Labels
    <3> QED
      BY Zenon, <3>1, NewFrame
  <2>3. \A x \in Stacks : /\ stack[x] \in Seq(Frames) /\ Len(stack[x]) = 1
                          /\ stack[x][1] = Frame(IF x \in Hart THEN "loop" ELSE "new")
    <3>1. \A f \in Frames : <<f>> \in Seq(Frames) /\ Len(<<f>>) = 1 /\ <<f>>[1] = f
      OBVIOUS
    <3> QED
      BY Zenon, <2>1, <2>2, <3>1
  <2>4. TrTypeOK
    <3>1. 0 \in 0..MaxHeld /\ 1 \in 1..3
      BY TrapAssumption
    <3>2. stack \in [Stacks -> Seq(Frames)] /\ \A x \in Stacks : Len(stack[x]) \in 1..3
      BY Zenon, <2>3, <3>1 DEF TrInit
    <3>3. \A h \in Hart : h \in Stacks
      BY Zenon DEF Stacks
    <3> QED
      BY Zenon, <3>1, <3>2, <3>3 DEF TrInit, TrTypeOK, Places
  <2>5. CurrentInv
    BY Zenon DEF TrInit, CurrentInv
  <2>6. ASSUME NEW x \in Stacks PROVE StackOK(x)
    <3>1. \A k \in 1..Len(stack[x]) : k = 1 /\ ~(1 < 1)
      BY <2>3
    <3>2. stack[x][1].held = 0 /\ stack[x][1].at = IF x \in Hart THEN "loop" ELSE "new"
      <4>1. \A l : Frame(l).held = 0 /\ Frame(l).at = l
        BY Zenon DEF Frame
      <4> QED
        BY Zenon, <2>3, <4>1
    <3>3. ~(0 > 0)
      OBVIOUS
    <3>4. FrameOK(x, 1)
      BY Zenon, <3>2, <3>3 DEF FrameOK
    <3> QED
      BY Zenon, <2>3, <3>1, <3>4 DEF StackOK
  <2>7. ASSUME NEW h \in Hart PROVE HartOK(h)
    <3>1. Top(h) = Frame("loop")
      BY Zenon, <2>3 DEF Top, TopOf, TrInit, Stacks
    <3>2. Top(h).held = 0 /\ Top(h).at = "loop"
      BY <3>1 DEF Frame
    <3>3. noff[h] = 0 /\ stvec[h] = "kernelvec" /\ 0 + 0 = 0 /\ ~(0 > 0)
      BY DEF TrInit
    <3> QED
      BY Zenon, <3>2, <3>3 DEF HartOK, HartFits
  <2> QED
    BY Zenon, <2>4, <2>5, <2>6, <2>7, TrapParts DEF Parts
<1>2. TrapInv /\ [TrNext]_trapVars => TrapInv'
  <2> SUFFICES ASSUME TrapInv, [TrNext]_trapVars PROVE TrapInv'
    BY Zenon
  <2>1. CASE UNCHANGED trapVars
    <3>1. TrTypeOK' /\ CurrentInv' /\ StacksInv' /\ NoTrapWithLock'
      <4>1. TrTypeOK'
        BY Zenon, <2>1 DEF trapVars, TrapInv, TrapSafe, TrTypeOK
      <4>2. CurrentInv'
        BY Zenon, <2>1 DEF trapVars, TrapInv, CurrentInv
      <4>3. StacksInv'
        BY <2>1 DEF trapVars, TrapInv, StacksInv, FrameOK
      <4>4. NoTrapWithLock'
        BY Zenon, <2>1 DEF trapVars, TrapInv, TrapSafe, NoTrapWithLock
      <4> QED
        BY Zenon, <4>1, <4>2, <4>3, <4>4
    <3>2. \A h \in Hart : Top(h)' = Top(h) /\ current'[h] = current[h] /\ stack' = stack
      BY Zenon, <2>1 DEF trapVars, Top, TopOf
    <3>3. LocksMatch' /\ IntrFollowsThread' /\ TrapReturns'
      BY Zenon, <2>1, <3>2 DEF trapVars, TrapInv, TrapSafe, LocksMatch, IntrFollowsThread, TrapReturns, Here
    <3>4. VectorRight' /\ HartInv'
      BY Zenon, <2>1, <3>2 DEF trapVars, TrapInv, TrapSafe, VectorRight, HartInv, Here
    <3> QED
      BY Zenon, <3>1, <3>3, <3>4 DEF TrapInv, TrapSafe
  <2>2. CASE TrNext
    BY Zenon, <2>2, AcquireKeeps, ReleaseKeeps, EcallKeeps, UserIntrKeeps, UserTrapRetKeeps, UserReturnKeeps, KernelRestoreKeeps,
       SwtchBackKeeps, IntrOnKeeps, KernelIntrKeeps, YieldKeeps, KernelReturnKeeps, ResumeKeeps, SwtchInKeeps DEF TrNext
  <2> QED
    BY Zenon, <2>1, <2>2
<1> QED
  BY <1>1, <1>2, PTL DEF TrSpec

(* A hart that holds a spinlock is not interrupted, noff counts the locks,
   intena follows the thread from hart to hart, and kerneltrap() returns to what
   it has interrupted, for every number of harts and threads and every nesting. *)
THEOREM TrapsAreSafe == TrSpec => []TrapSafe
<1>1. TrapInv => TrapSafe
  BY Zenon DEF TrapInv
<1> QED
  BY <1>1, TrapInvariant, PTL

=============================================================================
