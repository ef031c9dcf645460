----------------------------- MODULE RingProofs -----------------------------
(***************************************************************************)
(* Proofs about the two rings of bytes: Pipe, for every set of readers and *)
(* writers, every ring size and every width of the counters that is a      *)
(* multiple of it, and Uart, for every size of the transmit buffer and any *)
(* number of CPUs below the size of the device's queue.  PipeInv and       *)
(* UartInv are the inductive invariants; each part has a lemma that shows  *)
(* what keeps it, with one step per action.                                *)
(***************************************************************************)
EXTENDS Pipe, Uart, Modulo, FiniteSetTheorems

(* The sizes, without what ties one to the other. *)
LEMMA Sizes == /\ PIPESIZE \in Nat \ {0} /\ UINT \in Nat \ {0} /\ PIPESIZE < UINT /\ MaxCount \in Nat
               /\ Counts \subseteq 0..MaxCount
<1>1. /\ PIPESIZE \in Nat \ {0} /\ UINT \in Nat /\ PIPESIZE < UINT /\ MaxCount \in Nat
      /\ Counts \subseteq 0..MaxCount
  BY Zenon, PipeAssumption
<1> QED
  BY <1>1

(* nread++ and nwrite++ wrap at the width of a uint. *)
LEMMA IncDoes ==
  ASSUME NEW x \in 0..(UINT - 1)
  PROVE  Inc(x) = (IF x = UINT - 1 THEN 0 ELSE x + 1) /\ Inc(x) \in 0..(UINT - 1)
<1>1. CASE x = UINT - 1
  BY <1>1, Sizes, ModOnce, x + 1 \in Nat DEF Inc
<1>2. CASE x # UINT - 1
  BY <1>2, Sizes, ModSmall, x + 1 \in 0..(UINT - 1) DEF Inc
<1> QED
  BY Zenon, <1>1, <1>2

(* What the two counters say of the ring, wrapped or not. *)
LEMMA UsedIs ==
  ASSUME TypeOK
  PROVE  /\ Used = IF nread <= nwrite THEN nwrite - nread ELSE nwrite + UINT - nread
         /\ Used \in 0..(UINT - 1)
         /\ Empty <=> Used = 0
         /\ Full <=> Used = PIPESIZE
<1> USE Sizes
<1>0. nread \in 0..(UINT - 1) /\ nwrite \in 0..(UINT - 1)
  BY Zenon DEF TypeOK
<1>1. Used = IF nread <= nwrite THEN nwrite - nread ELSE nwrite + UINT - nread
  BY Zenon, <1>0, ModDistance DEF Used
<1>2. (nread + PIPESIZE) % UINT = IF nread + PIPESIZE < UINT THEN nread + PIPESIZE
                                                            ELSE nread + PIPESIZE - UINT
  <2>1. CASE nread + PIPESIZE < UINT
    BY <1>0, <2>1, ModSmall, nread + PIPESIZE \in 0..(UINT - 1)
  <2>2. CASE ~(nread + PIPESIZE < UINT)
    <3> DEFINE x == nread + PIPESIZE
    <3>1. x \in Nat /\ UINT <= x /\ x < 2 * UINT
      BY <1>0, <2>2
    <3> HIDE DEF x
    <3>2. x % UINT = x - UINT
      BY Zenon, <3>1, ModOnce
    <3> QED
      BY <1>0, <2>2, <3>2 DEF x
  <2> QED
    BY Zenon, <2>1, <2>2
<1> QED
  BY <1>0, <1>1, <1>2 DEF Empty, Full

(* The variables keep their types; the ring is indexed within its bounds. *)
LEMMA TypeStep == TypeOK /\ CallsInv /\ [Next]_vars => TypeOK'
<1> SUFFICES ASSUME TypeOK, CallsInv, [Next]_vars PROVE TypeOK'
  BY Zenon
<1> USE Sizes
    DEF TypeOK, Labels
<1>1. ASSUME NEW p \in Procs, Lock(p) PROVE TypeOK'
  BY Zenon, <1>1 DEF Lock, Goto, pipeVars
<1>2. ASSUME NEW p \in Procs, WriteDone(p) PROVE TypeOK'
  BY <1>2 DEF WriteDone, WakeAndGoto, Woken, Return, pipeVars
<1>3. ASSUME NEW p \in Procs, WriteFails(p) PROVE TypeOK'
  BY <1>3 DEF WriteFails, Goto, Return, pipeVars
<1>4. ASSUME NEW p \in Procs, WriteCheck(p) PROVE TypeOK'
  BY Zenon, <1>4 DEF WriteCheck, Goto, pipeVars
<1>5. ASSUME NEW p \in Procs, WriteSleep(p) PROVE TypeOK'
  BY Zenon, <1>5 DEF WriteSleep, WakeAndGoto, Woken, pipeVars
<1>6. ASSUME NEW p \in Procs, WriteByte(p) PROVE TypeOK'
  <2>1. i[p] < n[p] /\ nwrite % PIPESIZE \in 0..(PIPESIZE - 1) /\ Inc(nwrite) \in 0..(UINT - 1)
    BY <1>6, IncDoes, ModRange DEF WriteByte, CallsInv
  <2>2. i[p] + 1 \in 0..MaxCount
    BY <2>1
  <2> QED
    BY Zenon, <1>6, <2>1, <2>2 DEF WriteByte, Goto
<1>7. ASSUME NEW p \in Procs, ReadWait(p) PROVE TypeOK'
  <2>1. CASE p \in killed
    <3>1. Goto(p, "user") /\ Return(p) /\ UNCHANGED <<pipeVars, freed, open, killed>>
      BY Zenon, <1>7, <2>1 DEF ReadWait
    <3> QED
      BY <3>1 DEF Goto, Return, pipeVars
  <2>2. CASE p \notin killed
    BY Zenon, <1>7, <2>2 DEF ReadWait, Goto, pipeVars
  <2> QED
    BY Zenon, <2>1, <2>2
<1>8. ASSUME NEW p \in Procs, ReadSleep(p) PROVE TypeOK'
  BY Zenon, <1>8 DEF ReadSleep, Goto, pipeVars
<1>9. ASSUME NEW p \in Procs, ReadReady(p) PROVE TypeOK'
  BY Zenon, <1>9 DEF ReadReady, Goto, pipeVars
<1>10. ASSUME NEW p \in Procs, ReadByte(p) PROVE TypeOK'
  <2>1. i[p] + 1 \in 0..MaxCount
    BY <1>10 DEF ReadByte
  <2>2. Inc(nread) \in 0..(UINT - 1)
    BY Zenon, IncDoes
  <2> QED
    BY Zenon, <1>10, <2>1, <2>2 DEF ReadByte
<1>11. ASSUME NEW p \in Procs, ReadDone(p) PROVE TypeOK'
  BY <1>11 DEF ReadDone, WakeAndGoto, Woken, Return, pipeVars
<1>12. ASSUME NEW p \in Procs, PipeClose(p) PROVE TypeOK'
  BY Zenon, <1>12 DEF PipeClose, WakeAndGoto, Woken
<1>13. ASSUME NEW p \in Procs, WriteFault(p) PROVE TypeOK'
  BY <1>13 DEF WriteFault, WakeAndGoto, Woken, Return, pipeVars
<1>14. ASSUME NEW p \in Procs, ReadFault(p) PROVE TypeOK'
  BY <1>14, IncDoes DEF ReadFault, WakeAndGoto, Woken, Return
<1>15. ASSUME NEW p \in Procs, NEW k \in Counts, Call(p, k) PROVE TypeOK'
  BY <1>15 DEF Call, Goto, pipeVars
<1>16. ASSUME NEW p \in Procs, Close(p) PROVE TypeOK'
  BY Zenon, <1>16 DEF Close, Goto, pipeVars
<1>17. ASSUME NEW p \in Procs, Kill(p) PROVE TypeOK'
  BY Zenon, <1>17 DEF Kill, Goto, Woken, pipeVars
<1>18. CASE UNCHANGED vars
  BY Zenon, <1>18 DEF vars
<1> QED
  BY Zenon, <1>1, <1>2, <1>3, <1>4, <1>5, <1>6, <1>7, <1>8, <1>9, <1>10, <1>11,
     <1>12, <1>13, <1>14, <1>15, <1>16, <1>17, <1>18 DEF Next, Step

(* pi->lock is held exactly in the loops. *)
LEMMA HolderStep == TypeOK /\ HolderInv /\ [Next]_vars => HolderInv'
<1> SUFFICES ASSUME TypeOK, HolderInv, [Next]_vars PROVE HolderInv'
  BY Zenon
<1> USE EndsAssumption
    DEF TypeOK, HolderInv, Holds, Procs
<1>1. ASSUME NEW p \in Procs, Lock(p) PROVE HolderInv'
  BY Zenon, <1>1 DEF Lock, Goto, pipeVars
<1>2. ASSUME NEW p \in Procs, WriteDone(p) PROVE HolderInv'
  BY Zenon, <1>2 DEF WriteDone, WakeAndGoto, Woken, Return, pipeVars
<1>3. ASSUME NEW p \in Procs, WriteFails(p) PROVE HolderInv'
  BY Zenon, <1>3 DEF WriteFails, Goto, Return, pipeVars
<1>4. ASSUME NEW p \in Procs, WriteCheck(p) PROVE HolderInv'
  BY Zenon, <1>4 DEF WriteCheck, Goto, pipeVars
<1>5. ASSUME NEW p \in Procs, WriteSleep(p) PROVE HolderInv'
  BY Zenon, <1>5 DEF WriteSleep, WakeAndGoto, Woken, pipeVars
<1>6. ASSUME NEW p \in Procs, WriteByte(p) PROVE HolderInv'
  BY Zenon, <1>6 DEF WriteByte, Goto
<1>7. ASSUME NEW p \in Procs, ReadWait(p) PROVE HolderInv'
  BY Zenon, <1>7 DEF ReadWait, Goto, Return, pipeVars
<1>8. ASSUME NEW p \in Procs, ReadSleep(p) PROVE HolderInv'
  BY Zenon, <1>8 DEF ReadSleep, Goto, pipeVars
<1>9. ASSUME NEW p \in Procs, ReadReady(p) PROVE HolderInv'
  BY Zenon, <1>9 DEF ReadReady, Goto, pipeVars
<1>10. ASSUME NEW p \in Procs, ReadByte(p) PROVE HolderInv'
  BY Zenon, <1>10 DEF ReadByte
<1>11. ASSUME NEW p \in Procs, ReadDone(p) PROVE HolderInv'
  BY Zenon, <1>11 DEF ReadDone, WakeAndGoto, Woken, Return, pipeVars
<1>12. ASSUME NEW p \in Procs, PipeClose(p) PROVE HolderInv'
  BY Zenon, <1>12 DEF PipeClose, WakeAndGoto, Woken
<1>13. ASSUME NEW p \in Procs, WriteFault(p) PROVE HolderInv'
  BY Zenon, <1>13 DEF WriteFault, WakeAndGoto, Woken, Return, pipeVars
<1>14. ASSUME NEW p \in Procs, ReadFault(p) PROVE HolderInv'
  BY Zenon, <1>14 DEF ReadFault, WakeAndGoto, Woken, Return
<1>15. ASSUME NEW p \in Procs, NEW k \in Counts, Call(p, k) PROVE HolderInv'
  BY Zenon, <1>15 DEF Call, Goto, pipeVars
<1>16. ASSUME NEW p \in Procs, Close(p) PROVE HolderInv'
  BY Zenon, <1>16 DEF Close, Goto, pipeVars
<1>17. ASSUME NEW p \in Procs, Kill(p) PROVE HolderInv'
  BY Zenon, <1>17 DEF Kill, Goto, Woken, pipeVars
<1>18. CASE UNCHANGED vars
  BY Zenon, <1>18 DEF vars
<1> QED
  BY Zenon, <1>1, <1>2, <1>3, <1>4, <1>5, <1>6, <1>7, <1>8, <1>9, <1>10, <1>11,
     <1>12, <1>13, <1>14, <1>15, <1>16, <1>17, <1>18 DEF Next, Step

(* Ends are closed once, by their last user. *)
LEMMA EndsStep == TypeOK /\ HolderInv /\ EndsInv /\ [Next]_vars => EndsInv'
<1> SUFFICES ASSUME TypeOK, HolderInv, EndsInv, [Next]_vars PROVE EndsInv'
  BY Zenon
<1> USE EndsAssumption
    DEF TypeOK, HolderInv, Holds, EndsInv, InWrite, InRead, End, Procs
<1>1. ASSUME NEW p \in Procs, Lock(p) PROVE EndsInv'
  BY Zenon, <1>1 DEF Lock, Goto, pipeVars
<1>2. ASSUME NEW p \in Procs, WriteDone(p) PROVE EndsInv'
  BY Zenon, <1>2 DEF WriteDone, WakeAndGoto, Woken, Return, pipeVars
<1>3. ASSUME NEW p \in Procs, WriteFails(p) PROVE EndsInv'
  BY Zenon, <1>3 DEF WriteFails, Goto, Return, pipeVars
<1>4. ASSUME NEW p \in Procs, WriteCheck(p) PROVE EndsInv'
  BY Zenon, <1>4 DEF WriteCheck, Goto, pipeVars
<1>5. ASSUME NEW p \in Procs, WriteSleep(p) PROVE EndsInv'
  BY Zenon, <1>5 DEF WriteSleep, WakeAndGoto, Woken, pipeVars
<1>6. ASSUME NEW p \in Procs, WriteByte(p) PROVE EndsInv'
  BY Zenon, <1>6 DEF WriteByte, Goto
<1>7. ASSUME NEW p \in Procs, ReadWait(p) PROVE EndsInv'
  BY <1>7 DEF ReadWait, Goto, Return, pipeVars
<1>8. ASSUME NEW p \in Procs, ReadSleep(p) PROVE EndsInv'
  BY Zenon, <1>8 DEF ReadSleep, Goto, pipeVars
<1>9. ASSUME NEW p \in Procs, ReadReady(p) PROVE EndsInv'
  BY Zenon, <1>9 DEF ReadReady, Goto, pipeVars
<1>10. ASSUME NEW p \in Procs, ReadByte(p) PROVE EndsInv'
  BY Zenon, <1>10 DEF ReadByte
<1>11. ASSUME NEW p \in Procs, ReadDone(p) PROVE EndsInv'
  BY Zenon, <1>11 DEF ReadDone, WakeAndGoto, Woken, Return, pipeVars
<1>12. ASSUME NEW p \in Procs, PipeClose(p) PROVE EndsInv'
  BY Zenon, <1>12 DEF PipeClose, WakeAndGoto, Woken
<1>13. ASSUME NEW p \in Procs, WriteFault(p) PROVE EndsInv'
  BY Zenon, <1>13 DEF WriteFault, WakeAndGoto, Woken, Return, pipeVars
<1>14. ASSUME NEW p \in Procs, ReadFault(p) PROVE EndsInv'
  BY Zenon, <1>14 DEF ReadFault, WakeAndGoto, Woken, Return
<1>15. ASSUME NEW p \in Procs, NEW k \in Counts, Call(p, k) PROVE EndsInv'
  BY Zenon, <1>15 DEF Call, Goto, pipeVars
<1>16. ASSUME NEW p \in Procs, Close(p) PROVE EndsInv'
  BY <1>16, SMTT(30) DEF Close, Goto, pipeVars
<1>17. ASSUME NEW p \in Procs, Kill(p) PROVE EndsInv'
  BY <1>17 DEF Kill, Goto, Woken, pipeVars
<1>18. CASE UNCHANGED vars
  BY Zenon, <1>18 DEF vars
<1> QED
  BY Zenon, <1>1, <1>2, <1>3, <1>4, <1>5, <1>6, <1>7, <1>8, <1>9, <1>10, <1>11,
     <1>12, <1>13, <1>14, <1>15, <1>16, <1>17, <1>18 DEF Next, Step

(* Full and Empty depend on the counters only. *)
LEMMA CountersOnly == UNCHANGED <<nread, nwrite>> => (Full' <=> Full) /\ (Empty' <=> Empty)
BY Zenon DEF Full, Empty

(* Past their tests, with pi->lock held, writers have a reader and readers something to return. *)
LEMMA CallsStep == TypeOK /\ HolderInv /\ EndsInv /\ CallsInv /\ [Next]_vars => CallsInv'
<1> SUFFICES ASSUME TypeOK, HolderInv, EndsInv, CallsInv, [Next]_vars PROVE CallsInv'
  BY Zenon
<1> USE EndsAssumption, CountersOnly
    DEF TypeOK, HolderInv, Holds, EndsInv, CallsInv, InWrite, InRead, Procs
<1>1. ASSUME NEW p \in Procs, Lock(p) PROVE CallsInv'
  BY Zenon, <1>1 DEF Lock, Goto, pipeVars
<1>2. ASSUME NEW p \in Procs, WriteDone(p) PROVE CallsInv'
  BY Zenon, <1>2 DEF WriteDone, WakeAndGoto, Woken, Return, pipeVars
<1>3. ASSUME NEW p \in Procs, WriteFails(p) PROVE CallsInv'
  BY Zenon, <1>3 DEF WriteFails, Goto, Return, pipeVars
<1>4. ASSUME NEW p \in Procs, WriteCheck(p) PROVE CallsInv'
  BY Zenon, <1>4 DEF WriteCheck, Goto, pipeVars
<1>5. ASSUME NEW p \in Procs, WriteSleep(p) PROVE CallsInv'
  BY Zenon, <1>5 DEF WriteSleep, WakeAndGoto, Woken, pipeVars
<1>6. ASSUME NEW p \in Procs, WriteByte(p) PROVE CallsInv'
  BY <1>6 DEF WriteByte, Goto
<1>7. ASSUME NEW p \in Procs, ReadWait(p) PROVE CallsInv'
  BY <1>7 DEF ReadWait, Goto, Return, pipeVars
<1>8. ASSUME NEW p \in Procs, ReadSleep(p) PROVE CallsInv'
  BY Zenon, <1>8 DEF ReadSleep, Goto, pipeVars
<1>9. ASSUME NEW p \in Procs, ReadReady(p) PROVE CallsInv'
  BY Zenon, <1>9 DEF ReadReady, Goto, pipeVars
<1>10. ASSUME NEW p \in Procs, ReadByte(p) PROVE CallsInv'
  BY <1>10 DEF ReadByte
<1>11. ASSUME NEW p \in Procs, ReadDone(p) PROVE CallsInv'
  BY Zenon, <1>11 DEF ReadDone, WakeAndGoto, Woken, Return, pipeVars
<1>12. ASSUME NEW p \in Procs, PipeClose(p) PROVE CallsInv'
  BY <1>12 DEF PipeClose, WakeAndGoto, Woken
<1>13. ASSUME NEW p \in Procs, WriteFault(p) PROVE CallsInv'
  BY Zenon, <1>13 DEF WriteFault, WakeAndGoto, Woken, Return, pipeVars
<1>14. ASSUME NEW p \in Procs, ReadFault(p) PROVE CallsInv'
  BY Zenon, <1>14 DEF ReadFault, WakeAndGoto, Woken, Return
<1>15. ASSUME NEW p \in Procs, NEW k \in Counts, Call(p, k) PROVE CallsInv'
  BY <1>15, Sizes, k \in 0..MaxCount DEF Call, Goto, pipeVars
<1>16. ASSUME NEW p \in Procs, Close(p) PROVE CallsInv'
  BY Zenon, <1>16 DEF Close, Goto, pipeVars
<1>17. ASSUME NEW p \in Procs, Kill(p) PROVE CallsInv'
  BY <1>17 DEF Kill, Goto, Woken, pipeVars
<1>18. CASE UNCHANGED vars
  BY Zenon, <1>18 DEF vars
<1> QED
  BY Zenon, <1>1, <1>2, <1>3, <1>4, <1>5, <1>6, <1>7, <1>8, <1>9, <1>10, <1>11,
     <1>12, <1>13, <1>14, <1>15, <1>16, <1>17, <1>18 DEF Next, Step

(* Whoever sleeps has a reason to, or somebody who will wake them holds pi->lock. *)
LEMMA SleepStep == TypeOK /\ HolderInv /\ EndsInv /\ CallsInv /\ SleepInv /\ [Next]_vars => SleepInv'
<1> SUFFICES ASSUME TypeOK, HolderInv, EndsInv, CallsInv, SleepInv, [Next]_vars PROVE SleepInv'
  BY Zenon
<1> USE EndsAssumption, CountersOnly
    DEF TypeOK, HolderInv, Holds, EndsInv, CallsInv, SleepInv, InWrite, InRead, End, Procs
<1>1. ASSUME NEW p \in Procs, Lock(p) PROVE SleepInv'
  BY Zenon, <1>1 DEF Lock, Goto, pipeVars
<1>2. ASSUME NEW p \in Procs, WriteDone(p) PROVE SleepInv'
  BY Zenon, <1>2 DEF WriteDone, WakeAndGoto, Woken, Return, pipeVars
<1>3. ASSUME NEW p \in Procs, WriteFails(p) PROVE SleepInv'
  BY Zenon, <1>3 DEF WriteFails, Goto, Return, pipeVars
<1>4. ASSUME NEW p \in Procs, WriteCheck(p) PROVE SleepInv'
  BY Zenon, <1>4 DEF WriteCheck, Goto, pipeVars
<1>5. ASSUME NEW p \in Procs, WriteSleep(p) PROVE SleepInv'
  BY Zenon, <1>5 DEF WriteSleep, WakeAndGoto, Woken, pipeVars
<1>6. ASSUME NEW p \in Procs, WriteByte(p) PROVE SleepInv'
  BY Zenon, <1>6 DEF WriteByte, Goto
<1>7. ASSUME NEW p \in Procs, ReadWait(p) PROVE SleepInv'
  BY <1>7 DEF ReadWait, Goto, Return, pipeVars
<1>8. ASSUME NEW p \in Procs, ReadSleep(p) PROVE SleepInv'
  BY Zenon, <1>8 DEF ReadSleep, Goto, pipeVars
<1>9. ASSUME NEW p \in Procs, ReadReady(p) PROVE SleepInv'
  BY Zenon, <1>9 DEF ReadReady, Goto, pipeVars
<1>10. ASSUME NEW p \in Procs, ReadByte(p) PROVE SleepInv'
  BY Zenon, <1>10 DEF ReadByte
<1>11. ASSUME NEW p \in Procs, ReadDone(p) PROVE SleepInv'
  BY Zenon, <1>11 DEF ReadDone, WakeAndGoto, Woken, Return, pipeVars
<1>12. ASSUME NEW p \in Procs, PipeClose(p) PROVE SleepInv'
  BY Zenon, <1>12 DEF PipeClose, WakeAndGoto, Woken
<1>13. ASSUME NEW p \in Procs, WriteFault(p) PROVE SleepInv'
  BY Zenon, <1>13 DEF WriteFault, WakeAndGoto, Woken, Return, pipeVars
<1>14. ASSUME NEW p \in Procs, ReadFault(p) PROVE SleepInv'
  BY Zenon, <1>14 DEF ReadFault, WakeAndGoto, Woken, Return
<1>15. ASSUME NEW p \in Procs, NEW k \in Counts, Call(p, k) PROVE SleepInv'
  BY Zenon, <1>15 DEF Call, Goto, pipeVars
<1>16. ASSUME NEW p \in Procs, Close(p) PROVE SleepInv'
  BY Zenon, <1>16 DEF Close, Goto, pipeVars
<1>17. ASSUME NEW p \in Procs, Kill(p) PROVE SleepInv'
  BY Zenon, <1>17 DEF Kill, Goto, Woken, pipeVars
<1>18. CASE UNCHANGED vars
  BY Zenon, <1>18 DEF vars
<1> QED
  BY Zenon, <1>1, <1>2, <1>3, <1>4, <1>5, <1>6, <1>7, <1>8, <1>9, <1>10, <1>11,
     <1>12, <1>13, <1>14, <1>15, <1>16, <1>17, <1>18 DEF Next, Step

(* Four actions change struct pipe; the others only go through the code. *)
LEMMA RingMoves ==
  [Next]_vars => \/ UNCHANGED pipeVars
                 \/ \E p \in Procs : WriteByte(p) \/ ReadByte(p) \/ ReadFault(p) \/ PipeClose(p)
BY Zenon DEF Next, Step, Lock, WriteDone, WriteFails, WriteCheck, WriteSleep, WriteFault,
       ReadWait, ReadSleep, ReadReady, ReadDone, Call, Close, Kill, pipeVars, vars

(* pipewrite() stops at a full ring, piperead() at an empty one. *)
LEMMA UsedStep == TypeOK /\ TypeOK' /\ Used <= PIPESIZE /\ [Next]_vars => Used' <= PIPESIZE
<1> SUFFICES ASSUME TypeOK, TypeOK', Used <= PIPESIZE, [Next]_vars PROVE Used' <= PIPESIZE
  BY Zenon
<1>0. /\ nread \in 0..(UINT - 1) /\ nwrite \in 0..(UINT - 1)
      /\ nread' \in 0..(UINT - 1) /\ nwrite' \in 0..(UINT - 1)
  BY Zenon DEF TypeOK
<1>1. Used' = IF nread' <= nwrite' THEN nwrite' - nread' ELSE nwrite' + UINT - nread'
  BY Zenon, <1>0, Sizes, ModDistance DEF Used
<1>2. CASE UNCHANGED <<nread, nwrite>>
  BY Zenon, <1>2 DEF Used
<1>3. ASSUME ~Full, nwrite' = Inc(nwrite), nread' = nread PROVE Used' <= PIPESIZE
  BY <1>0, <1>1, <1>3, Sizes, UsedIs, IncDoes
<1>4. ASSUME ~Empty, nread' = Inc(nread), nwrite' = nwrite PROVE Used' <= PIPESIZE
  BY <1>0, <1>1, <1>4, Sizes, UsedIs, IncDoes
<1>5. \/ UNCHANGED <<nread, nwrite>>
      \/ ~Full /\ nwrite' = Inc(nwrite) /\ nread' = nread
      \/ ~Empty /\ nread' = Inc(nread) /\ nwrite' = nwrite
  BY Zenon, RingMoves DEF pipeVars, WriteByte, ReadByte, ReadFault, PipeClose
<1> QED
  BY Zenon, <1>2, <1>3, <1>4, <1>5

(***************************************************************************)
(* The page of the pipe is freed once everybody is out of it, and nobody   *)
(* misses a wakeup: both follow from where pi->lock is held and what the   *)
(* sleepers wait for.                                                      *)
(***************************************************************************)
LEMMA SafeFromParts ==
  ASSUME TypeOK, HolderInv, EndsInv, SleepInv
  PROVE  PipeSafe
<1>1. NoUseAfterFree
  BY Zenon DEF TypeOK, EndsInv, NoUseAfterFree, Procs
<1>2. NoLostWakeup
  <2>1. lock = None => \A p \in Procs : pc[p] \notin Holds
    BY Zenon, EndsAssumption DEF HolderInv, Procs
  <2> QED
    BY Zenon, <2>1 DEF NoLostWakeup, SleepInv, Holds
<1> QED
  BY Zenon, <1>1, <1>2 DEF PipeSafe

(***************************************************************************)
(* The inductive invariant of pipe.c.                                      *)
(***************************************************************************)
THEOREM PipeInvariant == Spec => []PipeInv
<1>1. Init => PipeInv
  <2> SUFFICES ASSUME Init PROVE PipeInv
    BY Zenon
  <2>1. TypeOK
    <3>1. 0 \in 0..(UINT - 1) /\ 0 \in 0..MaxCount
      BY Sizes
    <3> QED
      BY Zenon, <3>1 DEF Init, TypeOK, Labels
  <2>2. HolderInv /\ EndsInv /\ CallsInv /\ SleepInv
    BY Zenon, EndsAssumption DEF Init, HolderInv, Holds, EndsInv, CallsInv, SleepInv, InWrite, InRead, Procs
  <2>3. Used <= PIPESIZE
    BY <2>1, Sizes, UsedIs DEF Init
  <2> QED
    BY Zenon, <2>1, <2>2, <2>3, SafeFromParts DEF PipeInv
<1>2. PipeInv /\ [Next]_vars => PipeInv'
  <2> SUFFICES ASSUME PipeInv, [Next]_vars PROVE PipeInv'
    BY Zenon
  <2>1. TypeOK' /\ HolderInv' /\ EndsInv' /\ CallsInv' /\ SleepInv'
    BY Zenon, TypeStep, HolderStep, EndsStep, CallsStep, SleepStep DEF PipeInv, PipeSafe
  <2>2. Used' <= PIPESIZE
    BY Zenon, <2>1, UsedStep DEF PipeInv, PipeSafe
  <2>3. PipeSafe'
    BY <2>1, SafeFromParts, PTL
  <2> QED
    BY Zenon, <2>1, <2>2, <2>3 DEF PipeInv
<1> QED
  BY <1>1, <1>2, PTL DEF Spec

(***************************************************************************)
(* pipe.c neither frees a pipe in use nor leaves anybody asleep in one.    *)
(***************************************************************************)
THEOREM PipeIsSafe == Spec => []PipeSafe
<1>1. PipeInv => PipeSafe
  BY Zenon DEF PipeInv
<1> QED
  BY <1>1, PipeInvariant, PTL

(***************************************************************************)
(* piperead() returns 0, to a reader that asks for something, only at the  *)
(* end of file or where copyout() fails on the first byte.                 *)
(***************************************************************************)
THEOREM ZeroIsEOF == Spec => ReadZeroIsEOF
<1>1. PipeInv /\ [Next]_vars =>
        [\A p \in Procs : pc[p] = "copy" /\ pc'[p] = "user" /\ i[p] = 0 /\ n[p] > 0
                            => \/ Empty /\ Writers \cap open = {}
                               \/ ~Empty /\ nread' = Inc(nread)]_vars
  <2> SUFFICES ASSUME PipeInv, Next,
                      NEW p \in Procs, pc[p] = "copy", pc'[p] = "user", i[p] = 0, n[p] > 0
               PROVE  \/ Empty /\ Writers \cap open = {}
                      \/ ~Empty /\ nread' = Inc(nread)
    BY Zenon
  <2> USE DEF PipeInv, PipeSafe
  <2>1. ~(Empty /\ writeopen) /\ i[p] # n[p]
    BY Sizes DEF CallsInv, TypeOK
  <2>2. ReadDone(p) \/ ReadFault(p)
    <3> USE DEF TypeOK
    <3>1. PICK q \in Procs : \/ Step(q) \/ WriteFault(q) \/ ReadFault(q)
                             \/ \E k \in Counts : Call(q, k)
                             \/ Close(q) \/ Kill(q)
      BY Zenon DEF Next
    <3>2. CASE q = p
      BY Zenon, <3>1, <3>2 DEF Step, Lock, WriteDone, WriteFails, WriteCheck, WriteSleep, WriteByte, WriteFault,
           ReadWait, ReadSleep, ReadReady, ReadByte, ReadDone, ReadFault, Call, Close, PipeClose, Kill, Goto, Woken
    <3>3. CASE q # p
      BY Zenon, <3>1, <3>3 DEF Step, Lock, WriteDone, WriteFails, WriteCheck, WriteSleep, WriteByte, WriteFault,
           ReadWait, ReadSleep, ReadReady, ReadByte, ReadDone, ReadFault, Call, Close, PipeClose, Kill, Goto,
           WakeAndGoto, Woken
    <3> QED
      BY Zenon, <3>2, <3>3
  <2>3. ReadFault(p) => ~Empty /\ nread' = Inc(nread)
    BY Zenon DEF ReadFault
  <2>4. ReadDone(p) => Empty
    BY Zenon, <2>1 DEF ReadDone
  <2>5. ~writeopen => Writers \cap open = {}
    BY Zenon DEF EndsInv, Procs
  <2> QED
    BY Zenon, <2>1, <2>2, <2>3, <2>4, <2>5
<1> QED
  BY <1>1, PipeInvariant, PTL DEF Spec, ReadZeroIsEOF

(* The contents of the ring, byte by byte. *)
InTheRing ==
  /\ Contents \in Seq(Byte) /\ Len(Contents) = Used
  /\ \A k \in 1..Used : Contents[k] = data[(nread + k - 1) % PIPESIZE]

LEMMA ContentsIs == TypeOK => InTheRing
<1> SUFFICES ASSUME TypeOK PROVE InTheRing
  BY Zenon
<1>1. Used \in Nat /\ nread \in Nat /\ data \in [0..(PIPESIZE - 1) -> Byte]
  BY UsedIs, Sizes DEF TypeOK
<1>2. \A k \in 1..Used : (nread + k - 1) % PIPESIZE \in 0..(PIPESIZE - 1)
  BY <1>1, Sizes, ModRange
<1>3. Contents \in [1..Used -> Byte]
  BY Zenon, <1>1, <1>2 DEF Contents
<1>4. Contents \in Seq(Byte) /\ Len(Contents) = Used
  BY <1>1, <1>3
<1> QED
  BY Zenon, <1>4 DEF InTheRing, Contents

(***************************************************************************)
(* A byte of pipewrite() goes behind the ones in the ring and on none of   *)
(* them, whether or not a counter wraps: UINT is a multiple of PIPESIZE.   *)
(***************************************************************************)
LEMMA PutDoes ==
  ASSUME TypeOK, TypeOK', Used <= PIPESIZE, Used' <= PIPESIZE, ~Full,
         NEW b \in Byte, data' = [data EXCEPT ![nwrite % PIPESIZE] = b],
         nwrite' = Inc(nwrite), nread' = nread
  PROVE  Len(Contents) < PIPESIZE /\ Contents' = Append(Contents, b)
<1>0. /\ nread \in 0..(UINT - 1) /\ nwrite \in 0..(UINT - 1)
      /\ nread' \in 0..(UINT - 1) /\ nwrite' \in 0..(UINT - 1)
  BY Zenon DEF TypeOK
<1>1. /\ Used = IF nread <= nwrite THEN nwrite - nread ELSE nwrite + UINT - nread
      /\ Used < PIPESIZE /\ Used \in Nat
  BY UsedIs, Sizes
<1>2. Used' = IF nread' <= nwrite' THEN nwrite' - nread' ELSE nwrite' + UINT - nread'
  BY Zenon, <1>0, Sizes, ModDistance DEF Used
<1>3. Used' = Used + 1
  BY <1>0, <1>1, <1>2, Sizes, IncDoes
<1>4. nwrite % PIPESIZE = (nread + Used) % PIPESIZE
  <2>1. CASE nread <= nwrite
    BY <1>0, <1>1, <2>1
  <2>2. CASE ~(nread <= nwrite)
    <3>1. nread + Used = UINT + nwrite
      BY <1>0, <1>1, <2>2, Sizes
    <3>2. UINT % PIPESIZE = 0
      BY Zenon, PipeAssumption
    <3>3. (UINT + nwrite) % PIPESIZE = nwrite % PIPESIZE
      <4>1. nwrite \in Nat /\ PIPESIZE \in Nat \ {0} /\ UINT \in Nat
        BY <1>0, Sizes
      <4> QED
        BY Zenon, <3>2, <4>1, ModMultiple
    <3> QED
      BY Zenon, <3>1, <3>3
  <2> QED
    BY Zenon, <2>1, <2>2
<1>5. ASSUME NEW k \in 1..Used
      PROVE  (nread + k - 1) % PIPESIZE # (nread + Used) % PIPESIZE
  <2>1. /\ nread + k - 1 \in Nat /\ nread + Used \in Nat
        /\ nread + k - 1 < nread + Used /\ nread + Used < nread + k - 1 + PIPESIZE
    BY <1>0, <1>1, Sizes
  <2> QED
    BY Zenon, <2>1, Sizes, ModDistinct
<1>6. /\ Contents \in Seq(Byte) /\ Len(Contents) = Used
      /\ \A k \in 1..Used : Contents[k] = data[(nread + k - 1) % PIPESIZE]
  BY Zenon, ContentsIs DEF InTheRing
<1>7. /\ Contents' \in Seq(Byte) /\ Len(Contents') = Used'
      /\ \A k \in 1..Used' : Contents'[k] = data'[(nread' + k - 1) % PIPESIZE]
  <2>1. InTheRing'
    BY ContentsIs, PTL
  <2> QED
    BY Zenon, <2>1 DEF InTheRing
<1>8. data \in [0..(PIPESIZE - 1) -> Byte] /\ nwrite % PIPESIZE \in 0..(PIPESIZE - 1)
  BY <1>0, Sizes, ModRange DEF TypeOK
<1>9. ASSUME NEW k \in 1..(Used + 1)
      PROVE  Contents'[k] = Append(Contents, b)[k]
  <2>1. CASE k = Used + 1
    <3>1. nread + k - 1 = nread + Used
      BY <1>0, <1>1, <2>1
    <3>2. Contents'[k] = data'[nwrite % PIPESIZE]
      BY Zenon, <1>3, <1>4, <1>7, <3>1
    <3> QED
      BY <1>6, <1>8, <2>1, <3>2
  <2>2. CASE k # Used + 1
    <3>1. k \in 1..Used
      BY <1>1, <2>2
    <3>2. (nread + k - 1) % PIPESIZE \in 0..(PIPESIZE - 1)
      <4>1. nread + k - 1 \in Int
        BY <1>0, <3>1
      <4>2. PIPESIZE \in Nat \ {0}
        BY Zenon, Sizes
      <4> QED
        BY Zenon, <4>1, <4>2, ModRange
    <3>3. data'[(nread + k - 1) % PIPESIZE] = data[(nread + k - 1) % PIPESIZE]
      BY Zenon, <1>4, <1>5, <1>8, <3>1, <3>2
    <3> QED
      BY <1>3, <1>6, <1>7, <3>1, <3>3
  <2> QED
    BY Zenon, <2>1, <2>2
<1>10. Append(Contents, b) \in Seq(Byte) /\ Len(Append(Contents, b)) = Used + 1
  BY <1>6
<1>11. Contents' = Append(Contents, b)
  BY <1>3, <1>7, <1>9, <1>10
<1> QED
  BY Zenon, <1>1, <1>6, <1>11

(***************************************************************************)
(* piperead() takes the oldest byte and leaves the others where they are.  *)
(***************************************************************************)
LEMMA GetDoes ==
  ASSUME TypeOK, TypeOK', Used <= PIPESIZE, Used' <= PIPESIZE, ~Empty,
         nread' = Inc(nread), nwrite' = nwrite, data' = data
  PROVE  Contents # <<>> /\ Contents' = Tail(Contents)
<1>0. /\ nread \in 0..(UINT - 1) /\ nwrite \in 0..(UINT - 1)
      /\ nread' \in 0..(UINT - 1) /\ nwrite' \in 0..(UINT - 1)
  BY Zenon DEF TypeOK
<1>1. /\ Used = IF nread <= nwrite THEN nwrite - nread ELSE nwrite + UINT - nread
      /\ 0 < Used /\ Used \in Nat
  BY UsedIs, Sizes
<1>2. Used' = IF nread' <= nwrite' THEN nwrite' - nread' ELSE nwrite' + UINT - nread'
  BY Zenon, <1>0, Sizes, ModDistance DEF Used
<1>3. Used' = Used - 1
  BY <1>0, <1>1, <1>2, Sizes, IncDoes
<1>4. ASSUME NEW k \in 1..(Used - 1)
      PROVE  (nread' + k - 1) % PIPESIZE = (nread + k) % PIPESIZE
  <2>1. CASE nread = UINT - 1
    <3>1. nread' = 0 /\ nread + k = UINT + (k - 1) /\ k - 1 \in Nat
      BY <1>0, <1>1, <2>1, IncDoes, Sizes
    <3>2. UINT % PIPESIZE = 0
      BY Zenon, PipeAssumption
    <3>3. (UINT + (k - 1)) % PIPESIZE = (k - 1) % PIPESIZE
      BY Zenon, <3>1, <3>2, Sizes, ModMultiple
    <3> QED
      BY <3>1, <3>3
  <2>2. CASE nread # UINT - 1
    <3>1. nread' + k - 1 = nread + k
      BY <1>0, <1>1, <2>2, IncDoes, Sizes
    <3> QED
      BY Zenon, <3>1
  <2> QED
    BY Zenon, <2>1, <2>2
<1>6. /\ Contents \in Seq(Byte) /\ Len(Contents) = Used
      /\ \A k \in 1..Used : Contents[k] = data[(nread + k - 1) % PIPESIZE]
  BY Zenon, ContentsIs DEF InTheRing
<1>7. /\ Contents' \in Seq(Byte) /\ Len(Contents') = Used'
      /\ \A k \in 1..Used' : Contents'[k] = data'[(nread' + k - 1) % PIPESIZE]
  <2>1. InTheRing'
    BY ContentsIs, PTL
  <2> QED
    BY Zenon, <2>1 DEF InTheRing
<1>8. ASSUME NEW k \in 1..(Used - 1)
      PROVE  Contents'[k] = Tail(Contents)[k]
  <2>1. k + 1 \in 1..Used /\ nread + (k + 1) - 1 = nread + k
    BY <1>0, <1>1
  <2>2. Contents[k + 1] = data[(nread + k) % PIPESIZE]
    BY Zenon, <1>6, <2>1
  <2>3. Contents'[k] = data[(nread + k) % PIPESIZE]
    BY Zenon, <1>3, <1>4, <1>7
  <2>4. Tail(Contents)[k] = Contents[k + 1]
    BY <1>1, <1>6
  <2> QED
    BY Zenon, <2>2, <2>3, <2>4
<1> QED
  BY <1>1, <1>3, <1>6, <1>7, <1>8

(***************************************************************************)
(* The ring with its wrapping counters is a queue of at most PIPESIZE      *)
(* bytes: pipe.c implements ByteQueue.  A byte stored is Put, a byte       *)
(* fetched is Get, delivered or not, and pipeclose() closes an end.        *)
(***************************************************************************)
THEOREM PipeIsQueue == Spec => Fifo
<1>1. Init => Queue!Init
  <2> SUFFICES ASSUME Init PROVE Queue!Init
    BY Zenon
  <2>1. TypeOK
    <3>1. 0 \in 0..(UINT - 1) /\ 0 \in 0..MaxCount
      BY Sizes
    <3> QED
      BY Zenon, <3>1 DEF Init, TypeOK, Labels
  <2>2. Used = 0
    BY Zenon, <2>1, UsedIs DEF Init, Empty
  <2>3. Contents = <<>>
    BY <2>1, <2>2, ContentsIs DEF InTheRing
  <2> QED
    BY Zenon, <2>3 DEF Init, Queue!Init
<1>2. PipeInv /\ PipeInv' /\ [Next]_vars => [Queue!Next]_Queue!vars
  <2> SUFFICES ASSUME PipeInv, PipeInv', [Next]_vars PROVE [Queue!Next]_Queue!vars
    BY Zenon
  <2>0. TypeOK /\ TypeOK' /\ Used <= PIPESIZE /\ Used' <= PIPESIZE
    BY Zenon DEF PipeInv, PipeSafe
  <2>1. ASSUME UNCHANGED pipeVars PROVE UNCHANGED Queue!vars
    BY Zenon, <2>1 DEF pipeVars, Queue!vars, Contents, Used
  <2>2. ASSUME NEW p \in Procs, WriteByte(p) PROVE Queue!Next
    <3>1. readopen /\ writeopen
      BY Zenon, <2>2 DEF WriteByte, PipeInv, CallsInv, EndsInv, InWrite
    <3>2. PICK b \in Byte : data' = [data EXCEPT ![nwrite % PIPESIZE] = b]
      BY Zenon, <2>2 DEF WriteByte
    <3>3. Len(Contents) < PIPESIZE /\ Contents' = Append(Contents, b)
      BY Zenon, <2>0, <2>2, <3>2, PutDoes DEF WriteByte
    <3>4. Queue!Put(b)
      BY Zenon, <2>2, <3>1, <3>3 DEF WriteByte, Queue!Put
    <3> QED
      BY Zenon, <3>4 DEF Queue!Next
  <2>3. ASSUME NEW p \in Procs, ReadByte(p) \/ ReadFault(p) PROVE Queue!Next
    <3>1. readopen
      BY Zenon, <2>3 DEF ReadByte, ReadFault, PipeInv, EndsInv, InRead
    <3>2. Contents # <<>> /\ Contents' = Tail(Contents)
      BY Zenon, <2>0, <2>3, GetDoes DEF ReadByte, ReadFault
    <3> QED
      BY Zenon, <2>3, <3>1, <3>2 DEF ReadByte, ReadFault, Queue!Next, Queue!Get
  <2>4. ASSUME NEW p \in Procs, PipeClose(p) PROVE [Queue!Next]_Queue!vars
    <3>1. Contents' = Contents
      BY Zenon, <2>4 DEF PipeClose, Contents, Used
    <3>2. readopen \in BOOLEAN /\ writeopen \in BOOLEAN
      BY Zenon, <2>0 DEF TypeOK
    <3> QED
      BY Zenon, <2>4, <3>1, <3>2, EndsAssumption
         DEF PipeClose, Procs, Queue!Next, Queue!CloseRead, Queue!CloseWrite, Queue!vars
  <2> QED
    BY Zenon, <2>1, <2>2, <2>3, <2>4, RingMoves
<1> QED
  BY <1>1, <1>2, PipeInvariant, PTL DEF Spec, Fifo, Queue!Spec

-----------------------------------------------------------------------------
(* A CPU that is in uartstart() is the only one. *)
OneInStart == \A a, c \in Actors : upc[a] \in {"start", "thr"} /\ upc[c] \in {"start", "thr"} => a = c

LEMMA OneStarts == TxLockInv => OneInStart
BY Zenon DEF TxLockInv, OneInStart

LEMMA UartTypes ==
  ASSUME UartTypeOK
  PROVE  /\ tx_w \in Nat /\ tx_r \in Nat /\ tx_r <= tx_w /\ tx_w <= tx_r + UART_TX_BUF_SIZE
         /\ upc \in [Actors -> {"out", "put", "full", "start", "thr", "poll", "echo"}]
         /\ fifo \in Seq(Nat) /\ Len(fifo) \in Nat /\ UART_TX_BUF_SIZE \in Nat \ {0}
BY UartAssumption DEF UartTypeOK

(* Where a step changes the place of at most one CPU. *)
LEMMA UGotoDoes ==
  ASSUME UartTypeOK, NEW a \in Actors, NEW l, UGoto(a, l)
  PROVE  upc'[a] = l /\ \A c \in Actors : c # a => upc'[c] = upc[c]
BY Zenon DEF UGoto, UartTypeOK

(* Those who store keep their room when nobody joins them and the queue stays. *)
LEMMA RoomKept ==
  ASSUME RoomInv, \A a \in Actors : upc'[a] \in {"thr", "echo"} => upc[a] \in {"thr", "echo"},
         fifo \in Seq(Nat), fifo' \in Seq(Nat), Len(fifo') <= Len(fifo)
  PROVE  RoomInv'
<1>1. Storing' \in SUBSET Storing  BY Zenon DEF Storing
<1>2. IsFiniteSet(Storing) /\ Len(fifo) + Cardinality(Storing) <= FIFO  BY Zenon DEF RoomInv
<1>3. IsFiniteSet(Storing') /\ Cardinality(Storing') <= Cardinality(Storing)  BY Zenon, <1>1, <1>2, FS_Subset
<1>4. Cardinality(Storing') \in Nat /\ Cardinality(Storing) \in Nat  BY Zenon, <1>2, <1>3, FS_CardinalityType
<1>5. Len(fifo) \in Nat /\ Len(fifo') \in Nat /\ FIFO \in Nat  BY UartAssumption
<1>6. Len(fifo') + Cardinality(Storing') <= FIFO  BY <1>2, <1>3, <1>4, <1>5
<1> QED  BY Zenon, <1>3, <1>6 DEF RoomInv

(* Whoever finds the device idle finds room: at most one CPU is in uartstart(),
   and the others are in uartputc_sync(). *)
LEMMA RoomFound ==
  ASSUME UartTypeOK, TxLockInv', fifo = <<>>, fifo' = fifo
  PROVE  RoomInv'
<1>1. PICK S : IsFiniteSet(S) /\ Storing' \in SUBSET S /\ Cardinality(S) <= Cardinality(Echo) + 1
  <2>1. IsFiniteSet(Echo)  BY Zenon, UartAssumption
  <2>2. /\ IsFiniteSet(Echo \cup {txlock'})
        /\ Cardinality(Echo \cup {txlock'}) =
             IF txlock' \in Echo THEN Cardinality(Echo) ELSE Cardinality(Echo) + 1
    BY Zenon, <2>1, FS_AddElement
  <2>3. Cardinality(Echo) \in Nat  BY Zenon, <2>1, FS_CardinalityType
  <2>4. Storing' \in SUBSET (Echo \cup {txlock'})  BY Zenon DEF Storing, TxLockInv
  <2> QED  BY <2>2, <2>3, <2>4
<1>2. IsFiniteSet(Storing') /\ Cardinality(Storing') <= Cardinality(S)  BY Zenon, <1>1, FS_Subset
<1>3. Cardinality(Storing') \in Nat /\ Cardinality(S) \in Nat  BY Zenon, <1>1, <1>2, FS_CardinalityType
<1>4. Cardinality(Echo) \in Nat  BY Zenon, UartAssumption, FS_CardinalityType
<1>5. FIFO \in Nat /\ FIFO > Cardinality(Echo)  BY Zenon, UartAssumption
<1>6. Len(fifo') = 0  BY Zenon
<1>7. Cardinality(Storing') <= FIFO  BY <1>1, <1>2, <1>3, <1>4, <1>5
<1>8. Len(fifo') + Cardinality(Storing') <= FIFO  BY <1>3, <1>6, <1>7
<1> QED  BY Zenon, <1>2, <1>8 DEF RoomInv

(* A store in THR finds room, and takes it. *)
LEMMA RoomTaken ==
  ASSUME UartTypeOK, RoomInv, NEW a \in Actors, upc[a] \in {"thr", "echo"}, NEW ch \in Nat, THR(ch),
         upc'[a] \notin {"thr", "echo"}, \A c \in Actors : c # a => upc'[c] = upc[c]
  PROVE  /\ fifo' = Append(fifo, ch) /\ UNCHANGED lost
         /\ Len(fifo') <= FIFO /\ RoomInv'
<1>1. Storing' = Storing \ {a} /\ a \in Storing  BY Zenon DEF Storing
<1>2. IsFiniteSet(Storing) /\ Len(fifo) + Cardinality(Storing) <= FIFO  BY Zenon DEF RoomInv
<1>3. IsFiniteSet(Storing') /\ Cardinality(Storing') = Cardinality(Storing) - 1
  BY Zenon, <1>1, <1>2, FS_RemoveElement
<1>4. Cardinality(Storing') \in Nat /\ Cardinality(Storing) \in Nat  BY Zenon, <1>2, <1>3, FS_CardinalityType
<1>5. Len(fifo) \in Nat /\ FIFO \in Nat /\ fifo \in Seq(Nat)  BY UartAssumption DEF UartTypeOK
<1>6. Len(fifo) < FIFO  BY <1>2, <1>3, <1>4, <1>5
<1>7. fifo' = Append(fifo, ch) /\ UNCHANGED lost  BY Zenon, <1>6 DEF THR
<1>8. Len(fifo') = Len(fifo) + 1  BY <1>5, <1>7
<1>9. Len(fifo') + Cardinality(Storing') <= FIFO /\ Len(fifo') <= FIFO
  BY <1>2, <1>3, <1>4, <1>5, <1>6, <1>8
<1> QED  BY Zenon, <1>3, <1>7, <1>9 DEF RoomInv

UartParts ==
  /\ UartTypeOK /\ NoCharLost /\ SentInOrder /\ NoStall
  /\ TxLockInv /\ TxRingInv /\ RoomInv

LEMMA UartFromParts == UartParts <=> UartInv
<1>1. TxLockInv => NoWriterAsleep  BY Zenon DEF TxLockInv, NoWriterAsleep, Actors
<1> QED  BY Zenon, <1>1 DEF UartParts, UartInv, UartSafe

(* A CPU moves outside uartstart(): a call, a sleep, a test of LSR_TX_IDLE. *)
LEMMA QuietStep ==
  ASSUME UartParts, NEW a \in Actors, NEW l \in {"put", "full", "poll", "echo"}, UGoto(a, l),
         upc[a] \notin {"start", "thr"},
         l \in {"poll", "echo"} => a \in Echo, l = "full" => TxFull, l = "echo" => TXIDLE,
         UNCHANGED <<tx_buf, tx_w, tx_r, txlock, thr, fifo, lost, sent, uirq>>
  PROVE  UartParts'
<1>1. UartTypeOK /\ SentInOrder /\ TxLockInv /\ RoomInv  BY Zenon DEF UartParts
<1>2. upc'[a] = l /\ \A c \in Actors : c # a => upc'[c] = upc[c]  BY Zenon, <1>1, UGotoDoes
<1>3. UartTypeOK'  BY Zenon, <1>1 DEF UartTypeOK, UGoto
<1>4. NoCharLost' /\ NoStall' /\ TxRingInv'
  BY Zenon DEF UartParts, NoCharLost, NoStall, TxRingInv, TXIDLE
<1>5. TxLockInv'
  <2>1. \A c \in Actors : upc'[c] \in {"start", "thr"} <=> txlock' = c  BY Zenon, <1>1, <1>2 DEF TxLockInv
  <2>2. \A c \in Actors : upc'[c] \in {"poll", "echo"} => c \in Echo  BY Zenon, <1>1, <1>2 DEF TxLockInv
  <2>3. \A c \in Actors : upc'[c] = "full" => TxFull'  BY Zenon, <1>1, <1>2 DEF TxLockInv, TxFull
  <2> QED  BY Zenon, <2>1, <2>2, <2>3 DEF TxLockInv
<1>6. \A c \in Actors : upc'[c] = "thr" <=> upc[c] = "thr"  BY Zenon, <1>2
<1>7. SentInOrder'  BY Zenon, <1>1, <1>6 DEF SentInOrder, NoneInHand, EchoesBut
<1>8. RoomInv'
  <2>1. CASE l = "echo"  BY Zenon, <1>1, <1>5, <2>1, RoomFound DEF TXIDLE
  <2>2. CASE l # "echo"
    <3>1. \A c \in Actors : upc'[c] \in {"thr", "echo"} => upc[c] \in {"thr", "echo"}  BY Zenon, <1>2, <2>2
    <3>2. fifo \in Seq(Nat) /\ fifo' \in Seq(Nat) /\ Len(fifo') <= Len(fifo)  BY <1>1, UartTypes
    <3> QED  BY Zenon, <1>1, <3>1, <3>2, RoomKept
  <2> QED  BY Zenon, <2>1, <2>2
<1> QED  BY Zenon, <1>3, <1>4, <1>5, <1>7, <1>8 DEF UartParts

LEMMA OutsideKeeps ==
  ASSUME UartParts, NEW a \in Actors, WriteCall(a) \/ PutFull(a) \/ SyncCall(a) \/ SyncPoll(a)
  PROVE  UartParts'
<1>1. CASE WriteCall(a)
  <2>1. upc[a] \notin {"start", "thr"} /\ UGoto(a, "put")
    BY Zenon, <1>1 DEF WriteCall
  <2>2. UNCHANGED <<tx_buf, tx_w, tx_r, txlock, thr, fifo, lost, sent, uirq>>  BY Zenon, <1>1 DEF WriteCall
  <2> QED  BY Zenon, <2>1, <2>2, QuietStep
<1>2. CASE PutFull(a)
  <2>1. upc[a] \notin {"start", "thr"} /\ UGoto(a, "full") /\ TxFull
    BY Zenon, <1>2 DEF PutFull
  <2>2. UNCHANGED <<tx_buf, tx_w, tx_r, txlock, thr, fifo, lost, sent, uirq>>  BY Zenon, <1>2 DEF PutFull
  <2> QED  BY Zenon, <2>1, <2>2, QuietStep
<1>3. CASE SyncCall(a)
  <2>1. upc[a] \notin {"start", "thr"} /\ UGoto(a, "poll") /\ a \in Echo
    BY Zenon, <1>3 DEF SyncCall
  <2>2. UNCHANGED <<tx_buf, tx_w, tx_r, txlock, thr, fifo, lost, sent, uirq>>  BY Zenon, <1>3 DEF SyncCall
  <2> QED  BY Zenon, <2>1, <2>2, QuietStep
<1>4. CASE SyncPoll(a)
  <2>1. upc[a] \notin {"start", "thr"} /\ UGoto(a, "echo") /\ TXIDLE
    BY Zenon, <1>4 DEF SyncPoll
  <2>2. UNCHANGED <<tx_buf, tx_w, tx_r, txlock, thr, fifo, lost, sent, uirq>>  BY Zenon, <1>4 DEF SyncPoll
  <2>3. a \in Echo  BY Zenon, <1>4 DEF SyncPoll, UartParts, TxLockInv
  <2> QED  BY Zenon, <2>1, <2>2, <2>3, QuietStep
<1> QED  BY Zenon, <1>1, <1>2, <1>3, <1>4

(* Nobody holds uart_tx_lock: nobody is in uartstart(). *)
LEMMA NobodyStarts ==
  ASSUME TxLockInv, txlock = Open
  PROVE  \A c \in Actors : upc[c] \notin {"start", "thr"}
BY Zenon, UartAssumption DEF TxLockInv

(* uartputc() stores a character. *)
LEMMA PutCharKeeps ==
  ASSUME UartParts, NEW a \in Actors, PutChar(a)
  PROVE  UartParts'
<1>1. UartTypeOK /\ SentInOrder /\ TxLockInv /\ TxRingInv /\ RoomInv  BY Zenon DEF UartParts
<1>2. /\ upc[a] = "put" /\ txlock = Open /\ tx_w # tx_r + UART_TX_BUF_SIZE /\ tx_w < MaxChars
      /\ txlock' = a /\ tx_buf' = [tx_buf EXCEPT ![tx_w % UART_TX_BUF_SIZE] = tx_w + 1]
      /\ tx_w' = tx_w + 1 /\ UGoto(a, "start")
      /\ UNCHANGED <<tx_r, thr, fifo, lost, sent, uirq>>
  BY Zenon DEF PutChar, TxFull
<1>3. upc'[a] = "start" /\ \A c \in Actors : c # a => upc'[c] = upc[c]  BY Zenon, <1>1, <1>2, UGotoDoes
<1>4. /\ tx_w \in Nat /\ tx_r \in Nat /\ tx_r <= tx_w /\ tx_w <= tx_r + UART_TX_BUF_SIZE
      /\ UART_TX_BUF_SIZE \in Nat \ {0}
  BY Zenon, <1>1, UartTypes
<1>5. tx_w < tx_r + UART_TX_BUF_SIZE  BY <1>2, <1>4
<1>6. tx_w % UART_TX_BUF_SIZE \in 0..(UART_TX_BUF_SIZE - 1)  BY <1>4, ModRange
<1>7. UartTypeOK'
  <2>1. tx_w' \in 0..MaxChars /\ tx_r' \in 0..tx_w' /\ tx_w' <= tx_r' + UART_TX_BUF_SIZE
    BY <1>2, <1>4, <1>5, UartAssumption
  <2>2. tx_buf' \in [0..(UART_TX_BUF_SIZE - 1) -> Nat]  BY <1>1, <1>2, <1>4 DEF UartTypeOK
  <2>3. upc' \in [Actors -> {"out", "put", "full", "start", "thr", "poll", "echo"}]
    BY Zenon, <1>1, <1>2 DEF UartTypeOK, UGoto
  <2> QED  BY Zenon, <1>1, <1>2, <2>1, <2>2, <2>3 DEF UartTypeOK
<1>8. NoCharLost'  BY Zenon, <1>2 DEF UartParts, NoCharLost
<1>9. NoStall'  BY Zenon, <1>2, UartAssumption DEF NoStall
<1>10. TxLockInv'
  <2>1. \A c \in Actors : upc[c] \notin {"start", "thr"}  BY Zenon, <1>1, <1>2, NobodyStarts
  <2>2. \A c \in Actors : upc'[c] \in {"start", "thr"} <=> txlock' = c  BY Zenon, <1>2, <1>3, <2>1
  <2>3. \A c \in Actors : upc'[c] \in {"poll", "echo"} => c \in Echo  BY Zenon, <1>1, <1>3 DEF TxLockInv
  <2>4. \A c \in Actors : upc'[c] # "full"  BY Zenon, <1>1, <1>2, <1>3 DEF TxLockInv, TxFull
  <2> QED  BY Zenon, <2>2, <2>3, <2>4 DEF TxLockInv
<1>11. \A c \in Actors : upc'[c] = "thr" <=> upc[c] = "thr"  BY Zenon, <1>2, <1>3
<1>12. SentInOrder'  BY Zenon, <1>1, <1>2, <1>11 DEF SentInOrder, NoneInHand, EchoesBut
<1>13. TxRingInv'
  <2> SUFFICES ASSUME NEW m \in tx_r'..(tx_w' - 1)  PROVE tx_buf'[m % UART_TX_BUF_SIZE] = m + 1
    BY Zenon DEF TxRingInv
  <2>0. m \in tx_r..tx_w  BY <1>2, <1>4
  <2>1. tx_buf \in [0..(UART_TX_BUF_SIZE - 1) -> Nat]  BY Zenon, <1>1 DEF UartTypeOK
  <2>2. CASE m = tx_w  BY Zenon, <1>2, <1>6, <2>1, <2>2
  <2>3. CASE m # tx_w
    <3>1. m \in Nat /\ m < tx_w /\ tx_w < m + UART_TX_BUF_SIZE /\ m \in tx_r..(tx_w - 1)
      BY <1>4, <1>5, <2>0, <2>3
    <3>2. m % UART_TX_BUF_SIZE # tx_w % UART_TX_BUF_SIZE  BY Zenon, <1>4, <3>1, ModDistinct
    <3>3. tx_buf[m % UART_TX_BUF_SIZE] = m + 1  BY Zenon, <1>1, <3>1 DEF TxRingInv
    <3>4. m % UART_TX_BUF_SIZE \in 0..(UART_TX_BUF_SIZE - 1)  BY <1>4, <3>1, ModRange
    <3> QED  BY Zenon, <1>2, <2>1, <3>2, <3>3, <3>4
  <2> QED  BY Zenon, <2>2, <2>3
<1>14. RoomInv'
  <2>1. \A c \in Actors : upc'[c] \in {"thr", "echo"} => upc[c] \in {"thr", "echo"}  BY Zenon, <1>3
  <2>2. fifo \in Seq(Nat) /\ fifo' \in Seq(Nat) /\ Len(fifo') <= Len(fifo)  BY <1>1, <1>2, UartTypes
  <2> QED  BY Zenon, <1>1, <2>1, <2>2, RoomKept
<1> QED  BY Zenon, <1>7, <1>8, <1>9, <1>10, <1>12, <1>13, <1>14 DEF UartParts

(* uartintr() goes to uartstart(). *)
LEMMA UartIntrKeeps ==
  ASSUME UartParts, UartIntr
  PROVE  UartParts'
<1>1. UartTypeOK /\ SentInOrder /\ TxLockInv /\ TxRingInv /\ RoomInv  BY Zenon DEF UartParts
<1>2. /\ upc[Handler] = "out" /\ txlock = Open /\ uirq' = FALSE /\ txlock' = Handler
      /\ UGoto(Handler, "start")
      /\ UNCHANGED <<tx_buf, tx_w, tx_r, thr, fifo, lost, sent>>
  BY Zenon DEF UartIntr
<1>3. Handler \in Actors  BY Zenon DEF Actors
<1>4. upc'[Handler] = "start" /\ \A c \in Actors : c # Handler => upc'[c] = upc[c]
  BY Zenon, <1>1, <1>2, <1>3, UGotoDoes
<1>5. UartTypeOK'
  <2>1. upc' \in [Actors -> {"out", "put", "full", "start", "thr", "poll", "echo"}]
    BY Zenon, <1>1, <1>2 DEF UartTypeOK, UGoto
  <2> QED  BY Zenon, <1>1, <1>2, <1>3, <2>1 DEF UartTypeOK
<1>6. NoCharLost'  BY Zenon, <1>2 DEF UartParts, NoCharLost
<1>7. NoStall'  BY Zenon, <1>2, <1>3, UartAssumption DEF NoStall
<1>8. TxLockInv'
  <2>1. \A c \in Actors : upc[c] \notin {"start", "thr"}  BY Zenon, <1>1, <1>2, NobodyStarts
  <2>2. \A c \in Actors : upc'[c] \in {"start", "thr"} <=> txlock' = c  BY Zenon, <1>2, <1>4, <2>1
  <2>3. \A c \in Actors : upc'[c] \in {"poll", "echo"} => c \in Echo  BY Zenon, <1>1, <1>4 DEF TxLockInv
  <2>4. \A c \in Actors : upc'[c] = "full" => TxFull'  BY Zenon, <1>1, <1>2, <1>4 DEF TxLockInv, TxFull
  <2> QED  BY Zenon, <2>2, <2>3, <2>4 DEF TxLockInv
<1>9. \A c \in Actors : upc'[c] = "thr" <=> upc[c] = "thr"  BY Zenon, <1>2, <1>4
<1>10. SentInOrder'  BY Zenon, <1>1, <1>2, <1>9 DEF SentInOrder, NoneInHand, EchoesBut
<1>11. TxRingInv'  BY Zenon, <1>1, <1>2 DEF TxRingInv
<1>12. RoomInv'
  <2>1. \A c \in Actors : upc'[c] \in {"thr", "echo"} => upc[c] \in {"thr", "echo"}  BY Zenon, <1>4
  <2>2. fifo \in Seq(Nat) /\ fifo' \in Seq(Nat) /\ Len(fifo') <= Len(fifo)  BY <1>1, <1>2, UartTypes
  <2> QED  BY Zenon, <1>1, <2>1, <2>2, RoomKept
<1> QED  BY Zenon, <1>5, <1>6, <1>7, <1>8, <1>10, <1>11, <1>12 DEF UartParts

(* uartstart() takes a character, and wakes the writers. *)
LEMMA StartTakeKeeps ==
  ASSUME UartParts, NEW a \in Actors, StartTake(a)
  PROVE  UartParts'
<1>1. UartTypeOK /\ SentInOrder /\ TxLockInv /\ TxRingInv /\ RoomInv  BY Zenon DEF UartParts
<1>2. /\ upc[a] = "start" /\ tx_w # tx_r /\ fifo = <<>>
      /\ thr' = [thr EXCEPT ![a] = tx_buf[tx_r % UART_TX_BUF_SIZE]]
      /\ tx_r' = tx_r + 1 /\ upc' = WakeWriters(a)
      /\ UNCHANGED <<tx_buf, tx_w, txlock, fifo, lost, sent, uirq>>
  BY Zenon DEF StartTake, TXIDLE
<1>3. /\ upc'[a] = "thr"
      /\ \A c \in Actors : c # a => upc'[c] = IF upc[c] = "full" THEN "put" ELSE upc[c]
      /\ upc' \in [Actors -> {"out", "put", "full", "start", "thr", "poll", "echo"}]
  BY Zenon, <1>1, <1>2, UartTypes DEF WakeWriters
<1>4. /\ tx_w \in Nat /\ tx_r \in Nat /\ tx_r <= tx_w /\ tx_w <= tx_r + UART_TX_BUF_SIZE
      /\ UART_TX_BUF_SIZE \in Nat \ {0}
  BY Zenon, <1>1, UartTypes
<1>5. \A c \in Actors : c # a => upc[c] \notin {"start", "thr"}
  BY Zenon, <1>1, <1>2, OneStarts DEF OneInStart
<1>6. tx_r = sent
  <2>1. NoneInHand  BY Zenon, <1>2, <1>5 DEF NoneInHand
  <2>2. ~ \E k \in 1..Len(fifo) : TRUE  BY <1>2
  <2>3. ~ \E c \in Actors : \A d \in Actors : upc[d] = "thr" <=> d = c  BY Zenon, <2>1 DEF NoneInHand
  <2> QED  BY Zenon, <1>1, <2>2, <2>3 DEF SentInOrder
<1>7. tx_buf[tx_r % UART_TX_BUF_SIZE] = tx_r + 1
  <2>1. tx_r \in tx_r..(tx_w - 1)  BY <1>2, <1>4
  <2> QED  BY Zenon, <1>1, <2>1 DEF TxRingInv
<1>8. thr' \in [Actors -> Nat] /\ thr'[a] = tx_r + 1
  BY <1>1, <1>2, <1>4, <1>7 DEF UartTypeOK
<1>9. UartTypeOK'
  <2>1. tx_r' \in 0..tx_w' /\ tx_w' <= tx_r' + UART_TX_BUF_SIZE /\ tx_w' \in 0..MaxChars
    BY <1>1, <1>2, <1>4 DEF UartTypeOK
  <2> QED  BY Zenon, <1>1, <1>2, <1>3, <1>8, <2>1 DEF UartTypeOK
<1>10. NoCharLost'  BY Zenon, <1>2 DEF UartParts, NoCharLost
<1>11. txlock = a  BY Zenon, <1>1, <1>2 DEF TxLockInv
<1>12. NoStall'  BY Zenon, <1>2, <1>11, UartAssumption DEF NoStall
<1>13. TxLockInv'
  <2>1. \A c \in Actors : upc'[c] \in {"start", "thr"} <=> txlock' = c
    BY Zenon, <1>2, <1>3, <1>5, <1>11
  <2>2. \A c \in Actors : upc'[c] \in {"poll", "echo"} => c \in Echo  BY Zenon, <1>1, <1>3 DEF TxLockInv
  <2>3. \A c \in Actors : upc'[c] # "full"  BY Zenon, <1>3
  <2> QED  BY Zenon, <2>1, <2>2, <2>3 DEF TxLockInv
<1>14. SentInOrder'
  <2>1. \A c \in Actors : upc'[c] = "thr" <=> c = a  BY Zenon, <1>3, <1>5
  <2>2. EchoesBut(0)'  BY <1>2 DEF EchoesBut
  <2>3. tx_r' = sent' + 1 /\ thr'[a] = tx_r'  BY Zenon, <1>2, <1>6, <1>8
  <2> QED  BY Zenon, <2>1, <2>2, <2>3 DEF SentInOrder
<1>15. TxRingInv'
  <2>1. tx_r'..(tx_w' - 1) \subseteq tx_r..(tx_w - 1)  BY <1>2, <1>4
  <2> QED  BY Zenon, <1>1, <1>2, <2>1 DEF TxRingInv
<1>16. RoomInv'  BY Zenon, <1>1, <1>2, <1>13, RoomFound
<1> QED  BY Zenon, <1>9, <1>10, <1>12, <1>13, <1>14, <1>15, <1>16 DEF UartParts

(* uartstart() returns: the buffer is empty, or the device will interrupt. *)
LEMMA StartReturnKeeps ==
  ASSUME UartParts, NEW a \in Actors, StartReturn(a)
  PROVE  UartParts'
<1>1. UartTypeOK /\ SentInOrder /\ TxLockInv /\ TxRingInv /\ RoomInv  BY Zenon DEF UartParts
<1>2. /\ upc[a] = "start" /\ (tx_w = tx_r \/ ~TXIDLE) /\ txlock' = Open /\ UGoto(a, "out")
      /\ UNCHANGED <<tx_buf, tx_w, tx_r, thr, fifo, lost, sent, uirq>>
  BY Zenon DEF StartReturn
<1>3. upc'[a] = "out" /\ \A c \in Actors : c # a => upc'[c] = upc[c]  BY Zenon, <1>1, <1>2, UGotoDoes
<1>4. \A c \in Actors : c # a => upc[c] \notin {"start", "thr"}
  BY Zenon, <1>1, <1>2, OneStarts DEF OneInStart
<1>5. UartTypeOK'
  <2>1. upc' \in [Actors -> {"out", "put", "full", "start", "thr", "poll", "echo"}]
    BY Zenon, <1>1, <1>2 DEF UartTypeOK, UGoto
  <2> QED  BY Zenon, <1>1, <1>2, <2>1 DEF UartTypeOK
<1>6. NoCharLost'  BY Zenon, <1>2 DEF UartParts, NoCharLost
<1>7. NoStall'  BY Zenon, <1>2 DEF NoStall, TXIDLE
<1>8. TxLockInv'
  <2>1. \A c \in Actors : c # Open  BY Zenon, UartAssumption
  <2>2. \A c \in Actors : upc'[c] \in {"start", "thr"} <=> txlock' = c  BY Zenon, <1>2, <1>3, <1>4, <2>1
  <2>3. \A c \in Actors : upc'[c] \in {"poll", "echo"} => c \in Echo  BY Zenon, <1>1, <1>3 DEF TxLockInv
  <2>4. \A c \in Actors : upc'[c] = "full" => TxFull'  BY Zenon, <1>1, <1>2, <1>3 DEF TxLockInv, TxFull
  <2> QED  BY Zenon, <2>2, <2>3, <2>4 DEF TxLockInv
<1>9. \A c \in Actors : upc'[c] = "thr" <=> upc[c] = "thr"  BY Zenon, <1>2, <1>3
<1>10. SentInOrder'  BY Zenon, <1>1, <1>2, <1>9 DEF SentInOrder, NoneInHand, EchoesBut
<1>11. TxRingInv'  BY Zenon, <1>1, <1>2 DEF TxRingInv
<1>12. RoomInv'
  <2>1. \A c \in Actors : upc'[c] \in {"thr", "echo"} => upc[c] \in {"thr", "echo"}  BY Zenon, <1>3
  <2>2. fifo \in Seq(Nat) /\ fifo' \in Seq(Nat) /\ Len(fifo') <= Len(fifo)  BY <1>1, <1>2, UartTypes
  <2> QED  BY Zenon, <1>1, <2>1, <2>2, RoomKept
<1> QED  BY Zenon, <1>5, <1>6, <1>7, <1>8, <1>10, <1>11, <1>12 DEF UartParts

(* A store in THR: the place of the others, the lock and the ring are as before. *)
LEMMA StoreStep ==
  ASSUME UartParts, NEW a \in Actors, NEW l \in {"start", "out"}, NEW ch \in Nat,
         upc[a] \in {"thr", "echo"}, upc[a] = "thr" <=> l = "start",
         THR(ch), UGoto(a, l),
         UNCHANGED <<tx_buf, tx_w, tx_r, txlock, thr, sent, uirq>>
  PROVE  /\ UartTypeOK' /\ NoCharLost' /\ NoStall' /\ TxLockInv' /\ TxRingInv' /\ RoomInv'
         /\ upc'[a] = l /\ \A c \in Actors : c # a => upc'[c] = upc[c]
         /\ Len(fifo') = Len(fifo) + 1 /\ Len(fifo) \in Nat /\ fifo'[Len(fifo) + 1] = ch
         /\ \A k \in 1..Len(fifo) : fifo'[k] = fifo[k]
<1>1. UartTypeOK /\ TxLockInv /\ TxRingInv /\ RoomInv  BY Zenon DEF UartParts
<1>2. upc'[a] = l /\ \A c \in Actors : c # a => upc'[c] = upc[c]  BY Zenon, <1>1, UGotoDoes
<1>3. upc'[a] \notin {"thr", "echo"} /\ upc[a] \in {"thr", "echo"}  BY Zenon, <1>2
<1>4. fifo' = Append(fifo, ch) /\ UNCHANGED lost /\ Len(fifo') <= FIFO /\ RoomInv'
  BY Zenon, <1>1, <1>2, <1>3, RoomTaken
<1>5. fifo \in Seq(Nat)  BY Zenon, <1>1, UartTypes
<1>6. /\ fifo' \in Seq(Nat)
      /\ Len(fifo') = Len(fifo) + 1 /\ Len(fifo) \in Nat /\ fifo'[Len(fifo) + 1] = ch
      /\ \A k \in 1..Len(fifo) : fifo'[k] = fifo[k]
  BY <1>4, <1>5
<1>7. UartTypeOK'
  <2>1. upc' \in [Actors -> {"out", "put", "full", "start", "thr", "poll", "echo"}]
    BY Zenon, <1>1 DEF UartTypeOK, UGoto
  <2> QED  BY Zenon, <1>1, <1>4, <1>6, <2>1 DEF UartTypeOK
<1>8. NoCharLost'  BY Zenon, <1>4 DEF UartParts, NoCharLost
<1>9. NoStall'
  <2>1. fifo' # <<>>  BY <1>6
  <2> QED  BY Zenon, <2>1 DEF NoStall, TXIDLE
<1>10. TxLockInv'
  <2>1. \A c \in Actors : upc'[c] \in {"start", "thr"} <=> txlock' = c  BY Zenon, <1>1, <1>2 DEF TxLockInv
  <2>2. \A c \in Actors : upc'[c] \in {"poll", "echo"} => c \in Echo  BY Zenon, <1>1, <1>2 DEF TxLockInv
  <2>3. \A c \in Actors : upc'[c] = "full" => TxFull'  BY Zenon, <1>1, <1>2 DEF TxLockInv, TxFull
  <2> QED  BY Zenon, <2>1, <2>2, <2>3 DEF TxLockInv
<1>11. TxRingInv'  BY Zenon, <1>1 DEF TxRingInv
<1> QED  BY Zenon, <1>2, <1>4, <1>6, <1>7, <1>8, <1>9, <1>10, <1>11

(* uartstart() stores the character it has taken. *)
LEMMA StartStoreKeeps ==
  ASSUME UartParts, NEW a \in Actors, StartStore(a)
  PROVE  UartParts'
<1>1. /\ upc[a] = "thr" /\ THR(thr[a]) /\ UGoto(a, "start")
      /\ UNCHANGED <<tx_buf, tx_w, tx_r, txlock, thr, sent, uirq>>
  BY Zenon DEF StartStore
<1>2. PICK ch \in Nat : ch = thr[a]  BY Zenon DEF UartParts, UartTypeOK
<1>3. /\ upc[a] \in {"thr", "echo"} /\ (upc[a] = "thr" <=> "start" = "start")
      /\ THR(ch) /\ UGoto(a, "start")
      /\ UNCHANGED <<tx_buf, tx_w, tx_r, txlock, thr, sent, uirq>>
  BY Zenon, <1>1, <1>2
<1>4. /\ UartTypeOK' /\ NoCharLost' /\ NoStall' /\ TxLockInv' /\ TxRingInv' /\ RoomInv'
      /\ upc'[a] = "start" /\ \A c \in Actors : c # a => upc'[c] = upc[c]
      /\ Len(fifo') = Len(fifo) + 1 /\ Len(fifo) \in Nat /\ fifo'[Len(fifo) + 1] = ch
      /\ \A k \in 1..Len(fifo) : fifo'[k] = fifo[k]
  BY Zenon, <1>3, StoreStep
<1>5. /\ EchoesBut(0) /\ tx_r = sent + 1 /\ thr[a] = tx_r
      /\ \A c \in Actors : upc[c] = "thr" => c = a
  <2>1. ~NoneInHand  BY Zenon, <1>1 DEF NoneInHand
  <2> QED  BY Zenon, <1>1, <2>1 DEF UartParts, SentInOrder
<1>6. NoneInHand'  BY Zenon, <1>4, <1>5 DEF NoneInHand
<1>7. PICK m : m = Len(fifo) + 1  BY Zenon
<1>8. m \in 1..Len(fifo') /\ fifo'[m] = tx_r' /\ tx_r' = sent' + 1
  BY <1>1, <1>2, <1>4, <1>5, <1>7
<1>9. EchoesBut(m)'
  <2> SUFFICES ASSUME NEW j \in 1..Len(fifo'), j # m  PROVE fifo'[j] = 0
    BY Zenon DEF EchoesBut
  <2>1. j \in 1..Len(fifo) /\ j # 0  BY <1>4, <1>7
  <2> QED  BY Zenon, <1>4, <1>5, <2>1 DEF EchoesBut
<1>10. SentInOrder'  BY Zenon, <1>6, <1>8, <1>9 DEF SentInOrder
<1> QED  BY Zenon, <1>4, <1>10 DEF UartParts

(* uartputc_sync() stores an echo. *)
LEMMA SyncStoreKeeps ==
  ASSUME UartParts, NEW a \in Actors, SyncStore(a)
  PROVE  UartParts'
<1>1. /\ upc[a] = "echo" /\ THR(0) /\ UGoto(a, "out")
      /\ UNCHANGED <<tx_buf, tx_w, tx_r, txlock, thr, sent, uirq>>
  BY Zenon DEF SyncStore
<1>2. /\ UartTypeOK' /\ NoCharLost' /\ NoStall' /\ TxLockInv' /\ TxRingInv' /\ RoomInv'
      /\ upc'[a] = "out" /\ \A c \in Actors : c # a => upc'[c] = upc[c]
      /\ Len(fifo') = Len(fifo) + 1 /\ Len(fifo) \in Nat /\ fifo'[Len(fifo) + 1] = 0
      /\ \A k \in 1..Len(fifo) : fifo'[k] = fifo[k]
  BY Zenon, <1>1, StoreStep
<1>3. \A c \in Actors : upc'[c] = "thr" <=> upc[c] = "thr"  BY Zenon, <1>1, <1>2
<1>4. NoneInHand => NoneInHand'  BY Zenon, <1>3 DEF NoneInHand
<1>5. \A j \in 1..Len(fifo') : j \in 1..Len(fifo) \/ j = Len(fifo) + 1  BY <1>2
<1>6. ASSUME NEW k \in Nat, EchoesBut(k)  PROVE \A j \in 1..Len(fifo') : j # k => fifo'[j] = 0
  BY Zenon, <1>2, <1>5, <1>6 DEF EchoesBut
<1>7. SentInOrder'
  <2>1. CASE NoneInHand /\ EchoesBut(0) /\ tx_r = sent
    <3>1. EchoesBut(0)'  BY Zenon, <1>6, <2>1 DEF EchoesBut
    <3> QED  BY Zenon, <1>1, <1>4, <2>1, <3>1 DEF SentInOrder
  <2>2. CASE /\ EchoesBut(0) /\ tx_r = sent + 1
             /\ \E c \in Actors : thr[c] = tx_r /\ \A d \in Actors : upc[d] = "thr" <=> d = c
    <3>1. EchoesBut(0)'  BY Zenon, <1>6, <2>2 DEF EchoesBut
    <3> QED  BY Zenon, <1>1, <1>3, <2>2, <3>1 DEF SentInOrder
  <2>3. CASE /\ NoneInHand /\ tx_r = sent + 1
             /\ \E k \in 1..Len(fifo) : fifo[k] = tx_r /\ EchoesBut(k)
    <3>1. PICK k \in 1..Len(fifo) : fifo[k] = tx_r /\ EchoesBut(k)  BY Zenon, <2>3
    <3>2. k \in 1..Len(fifo')  BY <1>2
    <3>3. fifo'[k] = tx_r'
      <4>1. fifo'[k] = fifo[k]  BY Zenon, <1>2
      <4> QED  BY Zenon, <1>1, <3>1, <4>1
    <3>4. EchoesBut(k)'
      <4>1. k \in Nat  BY <1>2
      <4> QED  BY Zenon, <1>6, <3>1, <4>1 DEF EchoesBut
    <3> QED  BY Zenon, <1>1, <1>4, <2>3, <3>2, <3>3, <3>4 DEF SentInOrder
  <2> QED  BY Zenon, <2>1, <2>2, <2>3 DEF UartParts, SentInOrder
<1> QED  BY Zenon, <1>2, <1>7 DEF UartParts

(* The device sends a character. *)
LEMMA SendKeeps ==
  ASSUME UartParts, Send
  PROVE  UartParts'
<1>1. UartTypeOK /\ SentInOrder /\ TxLockInv /\ TxRingInv /\ RoomInv /\ NoStall  BY Zenon DEF UartParts
<1>2. /\ fifo # <<>> /\ fifo' = Tail(fifo) /\ sent' = (IF Head(fifo) # 0 THEN Head(fifo) ELSE sent)
      /\ uirq' = (uirq \/ Len(fifo) = 1)
      /\ UNCHANGED <<tx_buf, tx_w, tx_r, txlock, upc, thr, lost>>
  BY Zenon DEF Send
<1>3. fifo \in Seq(Nat)  BY Zenon, <1>1, UartTypes
<1>4. /\ Len(fifo) \in Nat \ {0} /\ fifo' \in Seq(Nat) /\ Len(fifo') = Len(fifo) - 1
      /\ Head(fifo) = fifo[1] /\ fifo[1] \in Nat
      /\ \A j \in 1..Len(fifo') : fifo'[j] = fifo[j + 1]
  BY <1>2, <1>3
<1>5. UartTypeOK'
  <2>1. Len(fifo') <= FIFO  BY <1>1, <1>4, UartAssumption DEF UartTypeOK
  <2>2. sent' \in Nat  BY Zenon, <1>1, <1>2, <1>4 DEF UartTypeOK
  <2>3. uirq' \in BOOLEAN  BY Zenon, <1>2
  <2> QED  BY Zenon, <1>1, <1>2, <1>4, <2>1, <2>2, <2>3 DEF UartTypeOK
<1>6. NoCharLost'  BY Zenon, <1>2 DEF UartParts, NoCharLost
<1>7. NoStall'
  <2>1. CASE Len(fifo) = 1  BY Zenon, <1>2, <2>1 DEF NoStall
  <2>2. CASE Len(fifo) # 1
    <3>1. Len(fifo') # 0  BY <1>4, <2>2
    <3>2. fifo' # <<>>  BY <3>1
    <3> QED  BY Zenon, <3>2 DEF NoStall, TXIDLE
  <2> QED  BY Zenon, <2>1, <2>2
<1>8. TxLockInv' /\ TxRingInv'  BY Zenon, <1>1, <1>2 DEF TxLockInv, TxFull, TxRingInv
<1>9. RoomInv'
  <2>1. \A c \in Actors : upc'[c] \in {"thr", "echo"} => upc[c] \in {"thr", "echo"}  BY Zenon, <1>2
  <2>2. Len(fifo') <= Len(fifo)  BY <1>4
  <2> QED  BY Zenon, <1>1, <1>3, <1>4, <2>1, <2>2, RoomKept
<1>10. NoneInHand' <=> NoneInHand  BY Zenon, <1>2 DEF NoneInHand
<1>11. \A j \in 1..Len(fifo') : j + 1 \in 1..Len(fifo) /\ j + 1 # 1 /\ j + 1 # 0  BY <1>4
<1>12. 1 \in 1..Len(fifo)  BY <1>4
<1>13. EchoesBut(0) => fifo[1] = 0 /\ EchoesBut(0)'
  BY <1>4, <1>11, <1>12 DEF EchoesBut
<1>14. SentInOrder'
  <2>1. CASE NoneInHand /\ EchoesBut(0) /\ tx_r = sent
    BY Zenon, <1>2, <1>4, <1>10, <1>13, <2>1 DEF SentInOrder
  <2>2. CASE /\ EchoesBut(0) /\ tx_r = sent + 1
             /\ \E c \in Actors : thr[c] = tx_r /\ \A d \in Actors : upc[d] = "thr" <=> d = c
    BY Zenon, <1>2, <1>4, <1>13, <2>2 DEF SentInOrder
  <2>3. CASE /\ NoneInHand /\ tx_r = sent + 1
             /\ \E k \in 1..Len(fifo) : fifo[k] = tx_r /\ EchoesBut(k)
    <3>1. PICK k \in 1..Len(fifo) : fifo[k] = tx_r /\ EchoesBut(k)  BY Zenon, <2>3
    <3>2. sent \in Nat /\ tx_r # 0  BY <1>1, <2>3 DEF UartTypeOK
    <3>3. CASE k = 1
      <4>1. sent' = tx_r  BY Zenon, <1>2, <1>4, <3>1, <3>2, <3>3
      <4>2. EchoesBut(0)'  BY Zenon, <1>4, <1>11, <3>1, <3>3 DEF EchoesBut
      <4> QED  BY Zenon, <1>2, <1>10, <2>3, <4>1, <4>2 DEF SentInOrder
    <3>4. CASE k # 1
      <4>1. sent' = sent  BY Zenon, <1>2, <1>4, <1>12, <3>1, <3>4 DEF EchoesBut
      <4>2. PICK m : m = k - 1  BY Zenon
      <4>3. m \in 1..Len(fifo') /\ m + 1 = k  BY <1>4, <3>4, <4>2
      <4>4. fifo'[m] = tx_r'  BY Zenon, <1>2, <1>4, <3>1, <4>3
      <4>5. \A j \in 1..Len(fifo') : j # m => j + 1 # k  BY <1>4, <4>3
      <4>6. EchoesBut(m)'  BY Zenon, <1>4, <1>11, <3>1, <4>5 DEF EchoesBut
      <4> QED  BY Zenon, <1>2, <1>10, <2>3, <4>1, <4>3, <4>4, <4>6 DEF SentInOrder
    <3> QED  BY Zenon, <3>3, <3>4
  <2> QED  BY Zenon, <1>1, <2>1, <2>2, <2>3 DEF SentInOrder
<1> QED  BY Zenon, <1>5, <1>6, <1>7, <1>8, <1>9, <1>14 DEF UartParts

LEMMA UartStarts == UartInit => UartParts
<1> SUFFICES ASSUME UartInit  PROVE UartParts
  BY Zenon
<1> USE DEF UartInit
<1>1. fifo \in Seq(Nat) /\ Len(fifo) = 0  OBVIOUS
<1>2. UartTypeOK  BY <1>1, UartAssumption DEF UartTypeOK
<1>3. NoCharLost /\ NoStall  BY Zenon DEF NoCharLost, NoStall
<1>4. SentInOrder  BY DEF SentInOrder, NoneInHand, EchoesBut
<1>5. TxLockInv  BY Zenon, UartAssumption DEF TxLockInv
<1>6. TxRingInv
  <2>1. tx_r..(tx_w - 1) = {}  OBVIOUS
  <2> QED  BY Zenon, <2>1 DEF TxRingInv
<1>7. RoomInv
  <2>1. Storing = {}  BY Zenon DEF Storing
  <2>2. IsFiniteSet(Storing) /\ Cardinality(Storing) = 0  BY Zenon, <2>1, FS_EmptySet
  <2>3. FIFO \in Nat  BY Zenon, UartAssumption
  <2> QED  BY <1>1, <2>2, <2>3 DEF RoomInv
<1> QED  BY Zenon, <1>2, <1>3, <1>4, <1>5, <1>6, <1>7 DEF UartParts

LEMMA UartSteps == UartParts /\ [UartNext]_uartVars => UartParts'
<1> SUFFICES ASSUME UartParts, [UartNext]_uartVars  PROVE UartParts'
  BY Zenon
<1>1. CASE UNCHANGED uartVars
  <2>1. UNCHANGED <<tx_buf, tx_w, tx_r, txlock, upc, thr, fifo, lost, sent, uirq>>
    BY Zenon, <1>1 DEF uartVars
  <2>2. UartTypeOK' /\ NoCharLost' /\ NoStall'
    BY Zenon, <2>1 DEF UartParts, UartTypeOK, NoCharLost, NoStall, TXIDLE
  <2>3. SentInOrder'  BY Zenon, <2>1 DEF UartParts, SentInOrder, NoneInHand, EchoesBut
  <2>4. TxLockInv' /\ TxRingInv'  BY Zenon, <2>1 DEF UartParts, TxLockInv, TxFull, TxRingInv
  <2>5. RoomInv'  BY Zenon, <2>1 DEF UartParts, RoomInv, Storing
  <2> QED  BY Zenon, <2>2, <2>3, <2>4, <2>5 DEF UartParts
<1>2. CASE UartIntr  BY Zenon, <1>2, UartIntrKeeps
<1>3. CASE Send  BY Zenon, <1>3, SendKeeps
<1>4. ASSUME NEW a \in Actors, WriteCall(a) \/ SyncCall(a) \/ PutFull(a) \/ SyncPoll(a)
      PROVE  UartParts'
  BY Zenon, <1>4, OutsideKeeps
<1>5. ASSUME NEW a \in Actors, PutChar(a) \/ SyncStore(a)  PROVE UartParts'
  BY Zenon, <1>5, PutCharKeeps, SyncStoreKeeps
<1>6. ASSUME NEW a \in Actors, StartTake(a) \/ StartReturn(a) \/ StartStore(a)  PROVE UartParts'
  BY Zenon, <1>6, StartTakeKeeps, StartReturnKeeps, StartStoreKeeps
<1> QED  BY Zenon, <1>1, <1>2, <1>3, <1>4, <1>5, <1>6 DEF UartNext, UartRuns

(* uart.c keeps UartInv: whatever processes write, CPUs echo and print without
   uart_tx_lock, and whenever the device interrupts. *)
THEOREM UartInvariant == UartSpec => []UartInv
<1>1. UartSpec => []UartParts  BY UartStarts, UartSteps, PTL DEF UartSpec
<1> QED  BY <1>1, UartFromParts, PTL

(* No character of write() is lost, doubled or overtaken in uart.c, output does
   not stall, and no writer sleeps beside a buffer with room, for every size of
   the buffer and any number of CPUs below the size of the device's queue. *)
THEOREM UartIsSafe == UartSpec => []UartSafe
<1>1. UartInv => UartSafe  BY DEF UartInv
<1> QED  BY <1>1, UartInvariant, PTL
=============================================================================
