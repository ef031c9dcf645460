------------------------------ MODULE LogProofs ------------------------------
(***************************************************************************)
(* Proofs about Log for any finite set of processes, any blocks and values *)
(* and any sizes: LogInv is inductive, and with it log.c implements the    *)
(* transactional disk of TxDisk.                                           *)
(***************************************************************************)
EXTENDS Log, FiniteSetTheorems, TLAPS

(***************************************************************************)
(* The count of outstanding operations follows the processes: Outstanding  *)
(* is finite, and adding or removing one process counts by one.            *)
(***************************************************************************)
LEMMA Counting ==
  ASSUME TypeOK
  PROVE  /\ IsFiniteSet(Outstanding) /\ Cardinality(Outstanding) \in Nat
         /\ Cardinality(Outstanding) = 0 <=> Outstanding = {}
         /\ \A p \in Proc :
              /\ p \notin Outstanding
                   => Cardinality(Outstanding \cup {p}) = Cardinality(Outstanding) + 1
              /\ p \in Outstanding
                   => Cardinality(Outstanding \ {p}) = Cardinality(Outstanding) - 1
<1>1. IsFiniteSet(Outstanding)
  BY Zenon, LogAssumption, FS_Subset DEF Outstanding
<1> QED
  BY Zenon, <1>1, FS_CardinalityType, FS_EmptySet, FS_AddElement, FS_RemoveElement

(***************************************************************************)
(* Every step of log.c and every crash keeps the variables in their types; *)
(* that copying and installing stay inside the log's blocks needs LogInv.  *)
(***************************************************************************)
LEMMA TypeInductive == TypeOK /\ LogInv /\ [Next]_vars => TypeOK'
<1> USE LogAssumption DEF TypeOK, Slot
<1> SUFFICES ASSUME TypeOK, LogInv, [Next]_vars PROVE TypeOK'
  BY Zenon
<1>0. /\ \A p \in Proc : pc[p] \in {"write_log", "install"} /\ tail[p] <= Len(lh)
           => tail[p] \in Slot /\ lh[tail[p]] \in Block
      /\ mode = "install" /\ rtail <= Len(lh) => rtail \in Slot /\ lh[rtail] \in Block
  BY DEF LogInv, OpsInv, HeadInv, RecoverInv
<1>1. ASSUME NEW p \in Proc, BeginOp(p) PROVE TypeOK'
  <2>1. /\ UNCHANGED <<home, dlog, hdr, cache, pin, lh, committing, tail, wrote, mode, rtail>>
        /\ outstanding' \in {outstanding, outstanding + 1}
    BY Zenon, <1>1 DEF BeginOp
  <2>2. pc' = [pc EXCEPT ![p] = "asleep"] \/ pc' = [pc EXCEPT ![p] = "op"]
    BY Zenon, <1>1 DEF BeginOp
  <2>3. outstanding' \in Nat
    BY <2>1
  <2>4. pc' \in [Proc -> {"out", "asleep", "begin", "op", "write_log", "install",
                      "done", "panic"}]
    BY Zenon, <2>2
  <2> QED
    BY Zenon, <2>1, <2>3, <2>4
<1>2. ASSUME NEW p \in Proc, EndOp(p) PROVE TypeOK'
  <2>1. UNCHANGED <<home, dlog, hdr, cache, pin, lh, mode, rtail>>
    BY Zenon, <1>2 DEF EndOp
  <2>2. \/ \E x \in {"panic", "done", "write_log"} : pc' = [pc EXCEPT ![p] = x]
        \/ pc' = [Woken EXCEPT ![p] = "out"]
    BY Zenon, <1>2 DEF EndOp
  <2>3. pc' \in [Proc -> {"out", "asleep", "begin", "op", "write_log", "install",
                      "done", "panic"}]
    BY Zenon, <2>2 DEF Woken
  <2>4. tail' = tail \/ tail' = [tail EXCEPT ![p] = 1]
    BY Zenon, <1>2 DEF EndOp
  <2>5. tail' \in [Proc -> Nat]
    <3>1. CASE tail' = tail
      BY Zenon, <3>1
    <3>2. CASE tail' = [tail EXCEPT ![p] = 1]
      BY Zenon, <3>2
    <3> QED
      BY Zenon, <2>4, <3>1, <3>2
  <2>6. outstanding' \in Nat /\ wrote' \in [Proc -> SUBSET Block]
    <3>1. outstanding # 0
      <4>1. p \in Outstanding
        BY Zenon, <1>2 DEF EndOp, Outstanding
      <4> QED
        BY Zenon, <4>1, Counting DEF LogInv, OpsInv
    <3> QED
      BY <1>2, <3>1 DEF EndOp
  <2>7. committing' \in BOOLEAN
    BY Zenon, <1>2, Zenon DEF EndOp
  <2> QED
    BY Zenon, <2>1, <2>3, <2>5, <2>6, <2>7
<1>3. ASSUME NEW p \in Proc, WriteLog(p) PROVE TypeOK'
  BY <1>0, <1>3, SMTT(30) DEF WriteLog, Bread
<1>4. ASSUME NEW p \in Proc, WriteHead(p) PROVE TypeOK'
  BY Zenon, <1>0, <1>4 DEF WriteHead
<1>5. ASSUME NEW p \in Proc, Install(p) PROVE TypeOK'
  <2>1. pin[lh[tail[p]]] = 1
    BY <1>5 DEF Install, LogInv, RunInv, OpsInv, InstallInv
  <2> QED
    BY <1>0, <1>5, <2>1 DEF Install, InstallBlock
<1>6. ASSUME NEW p \in Proc, EraseHead(p) PROVE TypeOK'
  BY <1>0, <1>6 DEF EraseHead
<1>7. ASSUME NEW p \in Proc, EndCommit(p) PROVE TypeOK'
  BY Zenon, <1>0, <1>7 DEF EndCommit, Woken
<1>8. ASSUME NEW p \in Proc, NEW b \in Block, NEW v \in Value, LogWrite(p, b, v)
      PROVE  TypeOK'
  <2>1. UNCHANGED <<home, dlog, hdr, outstanding, committing, tail, mode, rtail>>
    BY Zenon, <1>8 DEF LogWrite
  <2>2. pc' \in [Proc -> {"out", "asleep", "begin", "op", "write_log", "install",
                      "done", "panic"}]
    BY Zenon, <1>8 DEF LogWrite
  <2>3. cache' \in [Block -> Value \cup {Torn, NotCached}]
    BY Zenon, <1>8 DEF LogWrite
  <2>4. pin' \in [Block -> Nat]
    <3>1. pin' = pin \/ pin' = [pin EXCEPT ![b] = pin[b] + 1]
      BY Zenon, <1>8 DEF LogWrite
    <3>2. pin[b] + 1 \in Nat
      OBVIOUS
    <3> QED
      BY Zenon, <3>1, <3>2
  <2>5. lh' \in Seq(Block)
    <3>1. lh' = lh \/ lh' = Append(lh, b)
      BY Zenon, <1>8 DEF LogWrite
    <3>2. Append(lh, b) \in Seq(Block)
      OBVIOUS
    <3> QED
      BY Zenon, <3>1, <3>2
  <2>6. wrote' \in [Proc -> SUBSET Block]
    <3>1. wrote' = wrote \/ wrote' = [wrote EXCEPT ![p] = wrote[p] \cup {b}]
      BY Zenon, <1>8 DEF LogWrite
    <3>2. wrote[p] \cup {b} \in SUBSET Block
      BY Zenon
    <3> QED
      BY Zenon, <3>1, <3>2
  <2> QED
    BY Zenon, <2>1, <2>2, <2>3, <2>4, <2>5, <2>6
<1>9. ASSUME NEW b \in Block, ReadBlock(b) PROVE TypeOK'
  BY Zenon, <1>9 DEF ReadBlock
<1>10. ASSUME NEW b \in Block, Recycle(b) PROVE TypeOK'
  BY Zenon, <1>10 DEF Recycle
<1>11. CASE Crash
  <2>1. home' \in [Block -> Value \cup {Torn}] /\ dlog' \in [Slot -> Value \cup {Torn}]
    BY Zenon, <1>11 DEF Crash
  <2>2. /\ cache' \in [Block -> Value \cup {Torn, NotCached}]
        /\ pin' \in [Block -> Nat]
        /\ lh' \in Seq(Block)
    BY <1>11 DEF Crash
  <2>3. /\ pc' \in [Proc -> {"out", "asleep", "begin", "op", "write_log", "install",
                             "done", "panic"}]
    BY Zenon, <1>11 DEF Crash
  <2>7. tail' \in [Proc -> Nat]
    BY Zenon, <1>11 DEF Crash
  <2>6. wrote' \in [Proc -> SUBSET Block]
    BY Zenon, <1>11, Zenon DEF Crash
  <2>4. outstanding' \in Nat
    BY Zenon, <1>11 DEF Crash
  <2>8. committing' \in BOOLEAN
    BY Zenon, <1>11 DEF Crash
  <2>5. UNCHANGED hdr /\ mode' = "read_head" /\ rtail' \in Nat
    BY Zenon, <1>11 DEF Crash
  <2> QED
    BY Zenon, <2>1, <2>2, <2>3, <2>4, <2>5, <2>6, <2>7, <2>8
<1>12. CASE RecoverHead
  BY Zenon, <1>0, <1>12 DEF RecoverHead
<1>13. CASE RecoverInstall
  BY <1>0, <1>13 DEF RecoverInstall, InstallBlock
<1>14. CASE RecoverErase
  BY <1>0, <1>14 DEF RecoverErase
<1>15. CASE UNCHANGED vars
  BY Zenon, <1>15 DEF vars
<1> QED
  BY Zenon, <1>1, <1>2, <1>3, <1>4, <1>5, <1>6, <1>7, <1>8, <1>9, <1>10, <1>11, <1>12, <1>13, <1>14, <1>15
     DEF Next, ProcStep, Recover

(***************************************************************************)
(* A fresh file system satisfies the invariant.                            *)
(***************************************************************************)
LEMMA InitInv == Init => TypeOK /\ LogInv
<1> SUFFICES ASSUME Init PROVE TypeOK /\ LogInv
  BY Zenon
<1> USE LogAssumption DEF Init
<1>1. TypeOK
  <2>1. lh \in Seq(Block) /\ hdr \in Seq(Block)
    OBVIOUS
  <2>2. /\ home \in [Block -> Value \cup {Torn}]
        /\ dlog \in [Slot -> Value \cup {Torn}]
        /\ cache \in [Block -> Value \cup {Torn, NotCached}]
        /\ pin \in [Block -> Int]
    OBVIOUS
  <2>3. /\ pc \in [Proc -> {"out", "asleep", "begin", "op", "write_log", "install",
                            "done", "panic"}]
        /\ tail \in [Proc -> Nat]
        /\ wrote \in [Proc -> SUBSET Block]
    BY Zenon
  <2>4. outstanding \in Int /\ mode = "run" /\ rtail \in Nat
    OBVIOUS
  <2>5. committing \in BOOLEAN
    BY Zenon
  <2> QED
    BY Zenon, <2>1, <2>2, <2>3, <2>4, <2>5 DEF TypeOK
<1>2. OpsInv
  <2>1. Outstanding = {}
    BY Zenon DEF Outstanding
  <2> QED
    BY Zenon, <2>1, FS_EmptySet DEF OpsInv, Committing, SleeperHasWaker
<1>3. HeadInv /\ RunInv /\ RecoverInv
  BY DEF HeadInv, RunInv, BlocksInv, OpenInv, CopyInv, InstallInv, RecoverInv, NoDuplicates, Logged
<1> QED
  BY Zenon, <1>1, <1>2, <1>3 DEF LogInv

(***************************************************************************)
(* One step keeps the bookkeeping of operations and commits.               *)
(***************************************************************************)
LEMMA OpsInductive == TypeOK /\ LogInv /\ [Next]_vars => OpsInv'
<1> SUFFICES ASSUME TypeOK, LogInv, [Next]_vars PROVE OpsInv'
  BY Zenon
<1> USE DEF LogInv
<1>0. Outstanding' = {p \in Proc : pc'[p] \in {"op", "panic"}}
  BY Zenon DEF Outstanding
<1>1. ASSUME NEW p \in Proc, BeginOp(p) PROVE OpsInv'
  <2>1. CASE committing \/ NoRoom
    <3>1. Outstanding' = Outstanding
      BY Zenon, <1>1, <2>1 DEF BeginOp, Outstanding, TypeOK
    <3>2. committing \/ outstanding > 0
      <4>1. CASE lh = <<>> /\ outstanding = 0
        BY <2>1, <4>1, LogAssumption DEF NoRoom
      <4>2. outstanding \in Nat
        BY Zenon, Counting DEF OpsInv
      <4> QED
        BY <1>1, <4>1, <4>2 DEF OpsInv, BeginOp
    <3> QED
      BY ZenonT(60), <1>1, <2>1, <3>1, <3>2 DEF BeginOp, OpsInv, Committing, SleeperHasWaker, TypeOK
  <2>2. CASE ~(committing \/ NoRoom)
    <3>1. p \notin Outstanding /\ Outstanding' = Outstanding \cup {p}
      BY Zenon, <1>1, <2>2 DEF BeginOp, Outstanding, TypeOK
    <3>2. outstanding' = Cardinality(Outstanding')
      BY Zenon, <1>1, <2>2, <3>1, Counting DEF BeginOp, OpsInv
    <3> QED
      BY <1>1, <2>2, <3>2, Counting DEF BeginOp, OpsInv, Committing, SleeperHasWaker, TypeOK
  <2> QED
    BY Zenon, <2>1, <2>2
<1>2. ASSUME NEW p \in Proc, EndOp(p) PROVE OpsInv'
  <2>1. p \in Outstanding /\ outstanding \in Nat \ {0} /\ ~committing
    BY Zenon, <1>2, Counting DEF EndOp, OpsInv, Outstanding
  <2>2. \A q \in Proc : ~Committing(q)
    BY Zenon, <2>1 DEF OpsInv
  <2>3. CASE outstanding = 1
    <3>1. /\ pc' = [pc EXCEPT ![p] = IF lh = <<>> THEN "done" ELSE "write_log"]
          /\ outstanding' = 0
          /\ tail' = [tail EXCEPT ![p] = 1] /\ lh' = lh /\ mode' = mode
      BY <1>2, <2>1, <2>3 DEF EndOp
    <3>0. committing'
      BY <1>2, <2>1, <2>3 DEF EndOp
    <3>2. Outstanding' = Outstanding \ {p}
      BY Zenon, <3>1 DEF Outstanding, TypeOK
    <3>3. outstanding' = Cardinality(Outstanding')
      <4>1. Cardinality(Outstanding \ {p}) = Cardinality(Outstanding) - 1
        BY Zenon, <2>1, Counting
      <4>2. Cardinality(Outstanding) = 1
        BY Zenon, <2>3 DEF OpsInv
      <4>3. outstanding' = 0
        BY Zenon, <3>1
      <4> QED
        BY <3>2, <4>1, <4>2, <4>3
    <3>4. 1 \in 1..(Len(lh) + 1)
      BY DEF TypeOK
    <3>5. \A q \in Proc : Committing(q)' => q = p
      BY Zenon, <2>2, <3>1 DEF Committing, TypeOK
    <3>6. tail'[p] = 1
      BY Zenon, <3>1 DEF TypeOK
    <3>7. \A q \in Proc : pc'[q] = "done" => lh' = <<>>
      BY Zenon, <2>2, <3>1 DEF TypeOK, Committing
    <3> QED
      BY Zenon, <3>0, <3>1, <3>3, <3>4, <3>5, <3>6, <3>7 DEF OpsInv, Committing, SleeperHasWaker
  <2>4. CASE outstanding # 1
    <3>1. /\ pc' = [Woken EXCEPT ![p] = "out"]
          /\ outstanding' = outstanding - 1 /\ outstanding' > 0
          /\ UNCHANGED <<committing, tail, lh, mode>>
      BY <1>2, <2>1, <2>4 DEF EndOp
    <3>2. Outstanding' = Outstanding \ {p}
      BY Zenon, <3>1 DEF Outstanding, Woken, TypeOK
    <3>3. outstanding' = Cardinality(Outstanding')
      BY Zenon, <2>1, <3>1, <3>2, Counting DEF OpsInv
    <3>4. \A q \in Proc : ~Committing(q)' /\ pc'[q] # "asleep"
      BY Zenon, <2>2, <3>1 DEF Committing, Woken, TypeOK
    <3> QED
      BY <2>1, <3>1, <3>3, <3>4 DEF OpsInv, Committing, SleeperHasWaker
  <2> QED
    BY Zenon, <2>3, <2>4
<1>3. ASSUME NEW p \in Proc, NEW b \in Block, NEW v \in Value, LogWrite(p, b, v)
      PROVE  OpsInv'
  <2>1. Outstanding' = Outstanding /\ p \in Outstanding
    BY Zenon, <1>3 DEF LogWrite, Outstanding, TypeOK
  <2>2. outstanding > 0 /\ ~committing
    BY <2>1, Counting DEF OpsInv
  <2>3. \A q \in Proc : ~Committing(q)
    BY Zenon, <2>2 DEF OpsInv
  <2>4. UNCHANGED <<outstanding, committing, mode>>
    BY Zenon, <1>3 DEF LogWrite
  <2>5. \A q \in Proc : ~Committing(q)'
    BY Zenon, <1>3, <2>3 DEF LogWrite, Committing, TypeOK
  <2> QED
    BY <2>1, <2>2, <2>4, <2>5 DEF OpsInv, Committing, SleeperHasWaker
<1>4. ASSUME NEW p \in Proc, WriteLog(p) PROVE OpsInv'
  <2>1. Outstanding' = Outstanding
    BY Zenon, <1>4 DEF WriteLog, Outstanding, TypeOK
  <2> QED
    BY <1>4, <2>1 DEF WriteLog, OpsInv, Committing, SleeperHasWaker, TypeOK
<1>5. ASSUME NEW p \in Proc, WriteHead(p) PROVE OpsInv'
  <2>1. Outstanding' = Outstanding
    BY Zenon, <1>5 DEF WriteHead, Outstanding, TypeOK
  <2> QED
    BY <1>5, <2>1 DEF WriteHead, OpsInv, Committing, SleeperHasWaker, TypeOK
<1>6. ASSUME NEW p \in Proc, Install(p) PROVE OpsInv'
  <2>1. Outstanding' = Outstanding
    BY Zenon, <1>6 DEF Install, Outstanding, TypeOK
  <2> QED
    BY <1>6, <2>1 DEF Install, OpsInv, Committing, SleeperHasWaker, TypeOK
<1>7. ASSUME NEW p \in Proc, EraseHead(p) PROVE OpsInv'
  <2>1. Outstanding' = Outstanding
    BY Zenon, <1>7 DEF EraseHead, Outstanding, TypeOK
  <2> QED
    BY Zenon, <1>7, <2>1 DEF EraseHead, OpsInv, Committing, SleeperHasWaker, TypeOK
<1>8. ASSUME NEW p \in Proc, EndCommit(p) PROVE OpsInv'
  <2>1. Outstanding' = Outstanding
    BY Zenon, <1>8 DEF EndCommit, Woken, Outstanding, TypeOK
  <2>2. \A q \in Proc : ~Committing(q)' /\ pc'[q] # "asleep"
    BY Zenon, <1>8 DEF EndCommit, Woken, Committing, OpsInv, TypeOK
  <2> QED
    BY Zenon, <1>8, <2>1, <2>2 DEF EndCommit, OpsInv, Committing, SleeperHasWaker
<1>9. CASE Crash
  <2>1. Outstanding' = {}
    BY Zenon, <1>9 DEF Crash, Outstanding
  <2> QED
    BY Zenon, <1>9, <2>1, FS_EmptySet DEF Crash, OpsInv, Committing, SleeperHasWaker
<1>10. ASSUME NEW b \in Block, ReadBlock(b) \/ Recycle(b) PROVE OpsInv'
  <2>1. UNCHANGED <<outstanding, committing, pc, tail, lh, mode>>
    BY Zenon, <1>10 DEF ReadBlock, Recycle
  <2> QED
    BY Zenon, <2>1 DEF OpsInv, Outstanding, Committing, SleeperHasWaker
<1>11. CASE Recover
  <2>1. UNCHANGED <<outstanding, committing, pc, tail>> /\ \A p \in Proc : pc[p] = "out"
    BY Zenon, <1>11 DEF Recover, RecoverHead, RecoverInstall, RecoverErase, RecoverInv
  <2>2. mode' # "run" \/ lh' = <<>>
    BY Zenon, <1>11 DEF Recover, RecoverHead, RecoverInstall, RecoverErase
  <2> QED
    BY Zenon, <2>1, <2>2 DEF OpsInv, Outstanding, Committing, SleeperHasWaker
<1>12. CASE UNCHANGED vars
  BY Zenon, <1>12 DEF vars, OpsInv, Outstanding, Committing, SleeperHasWaker
<1> QED
  BY Zenon, <1>1, <1>2, <1>3, <1>4, <1>5, <1>6, <1>7, <1>8, <1>9, <1>10, <1>11, <1>12 DEF Next, ProcStep

(***************************************************************************)
(* One step keeps both headers free of duplicates and inside the log.     *)
(***************************************************************************)
LEMMA HeadInductive == TypeOK /\ LogInv /\ [Next]_vars => HeadInv'
<1> SUFFICES ASSUME TypeOK, LogInv, [Next]_vars PROVE HeadInv'
  BY Zenon
<1> USE LogAssumption DEF LogInv, HeadInv, NoDuplicates, TypeOK
<1>1. ASSUME NEW p \in Proc, BeginOp(p) PROVE HeadInv'
  BY Zenon, <1>1 DEF BeginOp
<1>2. ASSUME NEW p \in Proc, EndOp(p) PROVE HeadInv'
  BY Zenon, <1>2 DEF EndOp
<1>3. ASSUME NEW p \in Proc, WriteLog(p) PROVE HeadInv'
  BY <1>3 DEF WriteLog, RunInv, BlocksInv, OpenInv, CopyInv, InstallInv, OpsInv, Committing
<1>4. ASSUME NEW p \in Proc, WriteHead(p) PROVE HeadInv'
  <2>1. \A q \in Proc : pc[q] # "install"
    BY Zenon, <1>4 DEF WriteHead, OpsInv, Committing
  <2>2. \A i \in 1..Len(lh) : dlog[i] = cache[lh[i]] /\ pin[lh[i]] = 1
    BY <1>4, <2>1 DEF WriteHead, RunInv, BlocksInv, OpenInv, CopyInv, InstallInv
  <2>3. \A b \in Block : pin[b] = 1 => cache[b] \in Value
    BY <1>4 DEF WriteHead, RunInv, BlocksInv, OpenInv, CopyInv, InstallInv
  <2>4. \A i \in 1..Len(lh) : dlog[i] \in Value
    <3>1. \A i \in 1..Len(lh) : lh[i] \in Block
      OBVIOUS
    <3> QED
      BY Zenon, <2>2, <2>3, <3>1
  <2> QED
    BY <1>4, <2>4 DEF WriteHead
<1>5. ASSUME NEW p \in Proc, Install(p) PROVE HeadInv'
  BY Zenon, <1>5 DEF Install, InstallBlock
<1>6. ASSUME NEW p \in Proc, EraseHead(p) PROVE HeadInv'
  BY <1>6 DEF EraseHead
<1>7. ASSUME NEW p \in Proc, EndCommit(p) PROVE HeadInv'
  BY Zenon, <1>7 DEF EndCommit
<1>8. ASSUME NEW p \in Proc, NEW b \in Block, NEW v \in Value, LogWrite(p, b, v)
      PROVE  HeadInv'
  <2>1. UNCHANGED <<dlog, hdr>>
    BY Zenon, <1>8 DEF LogWrite
  <2>2. CASE lh' = lh
    BY Zenon, <2>1, <2>2
  <2>3. CASE lh' # lh
    <3>1. b \notin Logged /\ lh' = Append(lh, b) /\ Len(lh) < NLOG - 1
      BY <1>8, <2>3 DEF LogWrite, LogFull
    <3>2. /\ Len(lh') = Len(lh) + 1 /\ lh'[Len(lh) + 1] = b
          /\ \A i \in 1..Len(lh) : lh'[i] = lh[i]
      BY <3>1, SMTT(30)
    <3>4. \A i \in 1..Len(lh) : lh[i] # b
      BY Zenon, <3>1 DEF Logged
    <3>3. NoDuplicates(lh')
      <4> SUFFICES ASSUME NEW i \in 1..Len(lh'), NEW j \in 1..Len(lh'), lh'[i] = lh'[j]
                   PROVE  i = j
        BY Zenon
      <4>1. i \in 1..Len(lh) \/ i = Len(lh) + 1
        BY <3>2
      <4>2. j \in 1..Len(lh) \/ j = Len(lh) + 1
        BY <3>2
      <4> QED
        BY Zenon, <3>2, <3>4, <4>1, <4>2
    <3> QED
      BY <2>1, <3>1, <3>2, <3>3, SMTT(30)
  <2> QED
    BY Zenon, <2>2, <2>3
<1>9. ASSUME NEW b \in Block, ReadBlock(b) PROVE HeadInv'
  BY Zenon, <1>9 DEF ReadBlock
<1>10. ASSUME NEW b \in Block, Recycle(b) PROVE HeadInv'
  BY <1>10 DEF Recycle
<1>11. CASE Crash
  <2>1. lh' = <<>> /\ hdr' = hdr
    BY Zenon, <1>11 DEF Crash
  <2>2. CASE dlog' = dlog
    BY <2>1, <2>2
  <2>3. CASE dlog' # dlog
    <3>1. PICK p \in Proc : pc[p] = "write_log"
      BY <1>11, <2>3 DEF Crash, LogInFlight
    <3>2. mode = "run" /\ \A q \in Proc : pc[q] # "install"
      BY Zenon, <3>1 DEF RecoverInv, OpsInv, Committing
    <3>3. hdr = <<>>
      BY Zenon, <3>2 DEF RunInv, OpenInv
    <3> QED
      BY <2>1, <3>3
  <2> QED
    BY Zenon, <2>2, <2>3
<1>12. CASE RecoverHead
  BY Zenon, <1>12 DEF RecoverHead
<1>13. CASE RecoverInstall
  BY Zenon, <1>13 DEF RecoverInstall, InstallBlock
<1>14. CASE RecoverErase
  BY <1>14 DEF RecoverErase
<1>15. CASE UNCHANGED vars
  BY ZenonT(60), <1>15 DEF vars
<1> QED
  BY <1>1, <1>2, <1>3, <1>4, <1>5, <1>6, <1>7, <1>8, <1>9, <1>10, <1>11, <1>12, <1>13, <1>14, <1>15
     DEF Next, ProcStep, Recover

(***************************************************************************)
(* One step keeps what recovery relies on.                                 *)
(***************************************************************************)
LEMMA RecoverInductive == TypeOK /\ LogInv /\ [Next]_vars => RecoverInv'
<1> SUFFICES ASSUME TypeOK, LogInv, [Next]_vars PROVE RecoverInv'
  BY Zenon
<1> USE LogAssumption DEF LogInv, RecoverInv, TypeOK
<1>1. ASSUME NEW p \in Proc, BeginOp(p) PROVE RecoverInv'
  BY Zenon, <1>1 DEF BeginOp
<1>2. ASSUME NEW p \in Proc, EndOp(p) PROVE RecoverInv'
  BY Zenon, <1>2 DEF EndOp
<1>3. ASSUME NEW p \in Proc, WriteLog(p) PROVE RecoverInv'
  BY Zenon, <1>3 DEF WriteLog
<1>4. ASSUME NEW p \in Proc, WriteHead(p) PROVE RecoverInv'
  BY Zenon, <1>4 DEF WriteHead
<1>5. ASSUME NEW p \in Proc, Install(p) PROVE RecoverInv'
  BY Zenon, <1>5 DEF Install, InstallBlock
<1>6. ASSUME NEW p \in Proc, EraseHead(p) PROVE RecoverInv'
  BY Zenon, <1>6 DEF EraseHead
<1>7. ASSUME NEW p \in Proc, EndCommit(p) PROVE RecoverInv'
  BY Zenon, <1>7 DEF EndCommit
<1>8. ASSUME NEW p \in Proc, NEW b \in Block, NEW v \in Value, LogWrite(p, b, v)
      PROVE  RecoverInv'
  BY Zenon, <1>8 DEF LogWrite
<1>9. ASSUME NEW b \in Block, ReadBlock(b) PROVE RecoverInv'
  BY Zenon, <1>9 DEF ReadBlock
<1>10. ASSUME NEW b \in Block, Recycle(b) PROVE RecoverInv'
  BY Zenon, <1>10 DEF Recycle
<1>11. CASE Crash
  <2>1. /\ cache' = [b \in Block |-> NotCached] /\ pin' = [b \in Block |-> 0]
        /\ lh' = <<>> /\ hdr' = hdr /\ committing' = FALSE /\ pc' = [p \in Proc |-> "out"]
        /\ mode' = "read_head" /\ rtail' = 1
    BY Zenon, <1>11 DEF Crash
  <2>2. ASSUME NEW b \in Block, \A i \in 1..Len(hdr) : hdr[i] # b
        PROVE  home'[b] \in Value
    <3>1. home[b] \in Value
      <4>1. CASE mode = "run"
        BY Zenon, <4>1 DEF RunInv, BlocksInv
      <4>2. CASE mode # "run"
        BY Zenon, <2>2, <4>2
      <4> QED
        BY Zenon, <4>1, <4>2
    <3>2. ASSUME NEW p \in Proc, pc[p] = "install", tail[p] <= Len(lh) PROVE lh[tail[p]] # b
      <4>1. mode = "run"
        BY Zenon, <3>2
      <4>2. hdr = lh
        BY Zenon, <3>2, <4>1 DEF RunInv, InstallInv
      <4>3. tail[p] \in 1..Len(lh)
        BY <3>2 DEF OpsInv
      <4> QED
        BY Zenon, <2>2, <4>2, <4>3
    <3>3. mode = "install" /\ rtail <= Len(lh) => lh[rtail] # b
      BY <2>2
    <3>4. b \notin HomeInFlight
      BY <3>2, <3>3 DEF HomeInFlight
    <3>5. home' = home \/ \E c \in HomeInFlight : home' = [home EXCEPT ![c] = Torn]
      BY Zenon, <1>11 DEF Crash
    <3> QED
      BY Zenon, <3>1, <3>4, <3>5
  <2> QED
    BY Zenon, <2>1, <2>2
<1>12. CASE RecoverHead
  BY <1>12 DEF RecoverHead, HeadInv
<1>13. CASE RecoverInstall
  BY <1>13 DEF RecoverInstall, InstallBlock, HeadInv, NoDuplicates
<1>14. CASE RecoverErase
  BY Zenon, <1>14 DEF RecoverErase
<1>15. CASE UNCHANGED vars
  BY Zenon, <1>15 DEF vars
<1> QED
  BY Zenon, <1>1, <1>2, <1>3, <1>4, <1>5, <1>6, <1>7, <1>8, <1>9, <1>10, <1>11, <1>12, <1>13, <1>14, <1>15
     DEF Next, ProcStep, Recover

(***************************************************************************)
(* Steps that touch neither disk, cache nor header, and start or end no    *)
(* copying except at the first block, keep the invariants of a running     *)
(* system.                                                                 *)
(***************************************************************************)
LEMMA RunFrame ==
  ASSUME TypeOK, BlocksInv, OpenInv, CopyInv, InstallInv,
         UNCHANGED <<home, dlog, hdr, cache, pin, lh>>,
         \A q \in Proc :
           /\ pc'[q] = "install" <=> pc[q] = "install"
           /\ pc'[q] = "install" => tail'[q] = tail[q]
           /\ pc'[q] = "write_log" =>
                tail'[q] = 1 \/ (pc[q] = "write_log" /\ tail'[q] = tail[q])
  PROVE  BlocksInv' /\ OpenInv' /\ CopyInv' /\ InstallInv'
<1>1. BlocksInv'
  BY Zenon DEF BlocksInv, Logged
<1>2. OpenInv'
  BY Zenon DEF OpenInv
<1>3. CopyInv'
  <2> SUFFICES ASSUME NEW q \in Proc, pc'[q] = "write_log",
                      NEW i \in 1..Len(lh), i < tail'[q]
               PROVE  dlog[i] = cache[lh[i]]
    BY Zenon DEF CopyInv
  <2>1. CASE tail'[q] = 1
    BY <2>1
  <2>2. CASE pc[q] = "write_log" /\ tail'[q] = tail[q]
    BY Zenon, <2>2 DEF CopyInv
  <2> QED
    BY Zenon, <2>1, <2>2
<1>4. InstallInv'
  BY Zenon DEF InstallInv
<1> QED
  BY Zenon, <1>1, <1>2, <1>3, <1>4

(***************************************************************************)
(* One step keeps the cache, the pins and the log of a running system in   *)
(* step.                                                                   *)
(***************************************************************************)
LEMMA RunInductive == TypeOK /\ LogInv /\ [Next]_vars => RunInv'
<1> SUFFICES ASSUME TypeOK, LogInv, [Next]_vars, mode' = "run"
             PROVE  BlocksInv' /\ OpenInv' /\ CopyInv' /\ InstallInv'
  BY Zenon DEF RunInv
<1> USE LogAssumption
<1>0. /\ OpsInv /\ HeadInv /\ RecoverInv
      /\ mode = "run" => BlocksInv /\ OpenInv /\ CopyInv /\ InstallInv
  BY Zenon DEF LogInv, RunInv
<1>00. \A i \in 1..Len(lh) : lh[i] \in Block
  BY DEF TypeOK
<1>1. ASSUME NEW p \in Proc, BeginOp(p) PROVE BlocksInv' /\ OpenInv' /\ CopyInv' /\ InstallInv'
  <2>1. UNCHANGED <<home, dlog, hdr, cache, pin, lh, tail>> /\ mode = "run"
    BY Zenon, <1>1 DEF BeginOp
  <2>2. \A q \in Proc : /\ pc'[q] = "install" <=> pc[q] = "install"
                        /\ pc'[q] = "write_log" <=> pc[q] = "write_log"
    BY Zenon, <1>1 DEF BeginOp, TypeOK
  <2>3. \A q \in Proc :
           /\ pc'[q] = "install" <=> pc[q] = "install"
           /\ pc'[q] = "install" => tail'[q] = tail[q]
           /\ pc'[q] = "write_log" =>
                tail'[q] = 1 \/ (pc[q] = "write_log" /\ tail'[q] = tail[q])
    BY Zenon, <2>1, <2>2
  <2>4. BlocksInv /\ OpenInv /\ CopyInv /\ InstallInv
    BY Zenon, <1>0, <2>1
  <2> QED
    BY Zenon, <2>1, <2>3, <2>4, RunFrame
<1>2. ASSUME NEW p \in Proc, EndOp(p) PROVE BlocksInv' /\ OpenInv' /\ CopyInv' /\ InstallInv'
  <2>1. UNCHANGED <<home, dlog, hdr, cache, pin, lh>> /\ mode = "run"
    BY Zenon, <1>2 DEF EndOp
  <2>2. p \in Outstanding /\ ~committing
    BY Zenon, <1>0, <1>2, Counting DEF EndOp, OpsInv, Outstanding
  <2>3. \A q \in Proc : pc[q] \notin {"install", "write_log"}
    BY Zenon, <1>0, <2>2 DEF OpsInv, Committing
  <2>4. \A q \in Proc : /\ pc'[q] # "install"
                        /\ pc'[q] = "write_log" => tail'[q] = 1
    <3>1. CASE outstanding' = 0
      BY Zenon, <1>2, <2>2, <2>3, <3>1 DEF EndOp, TypeOK
    <3>2. CASE outstanding' # 0
      <4>1. pc' = [Woken EXCEPT ![p] = "out"]
        BY Zenon, <1>2, <2>2, <3>2 DEF EndOp
      <4> QED
        BY Zenon, <2>3, <4>1 DEF Woken, TypeOK
    <3> QED
      BY Zenon, <3>1, <3>2
  <2>5. \A q \in Proc :
           /\ pc'[q] = "install" <=> pc[q] = "install"
           /\ pc'[q] = "install" => tail'[q] = tail[q]
           /\ pc'[q] = "write_log" =>
                tail'[q] = 1 \/ (pc[q] = "write_log" /\ tail'[q] = tail[q])
    BY Zenon, <2>3, <2>4
  <2>6. BlocksInv /\ OpenInv /\ CopyInv /\ InstallInv
    BY Zenon, <1>0, <2>1
  <2> QED
    BY Zenon, <2>1, <2>5, <2>6, RunFrame
<1>3. ASSUME NEW p \in Proc, WriteLog(p) PROVE BlocksInv' /\ OpenInv' /\ CopyInv' /\ InstallInv'
  <2> DEFINE k == tail[p]
  <2>1. UNCHANGED <<home, hdr, pin, lh, pc>> /\ mode = "run" /\ pc[p] = "write_log"
    BY Zenon, <1>3 DEF WriteLog
  <2>2. \A q \in Proc : pc[q] # "install" /\ (pc[q] = "write_log" => q = p)
    BY Zenon, <1>0, <2>1 DEF OpsInv, Committing
  <2>3. k \in 1..Len(lh)
    BY <1>0, <1>3 DEF WriteLog, OpsInv, TypeOK
  <2>4. lh[k] \in Block /\ pin[lh[k]] = 1 /\ cache[lh[k]] \in Value
    BY <1>0, <1>00, <2>1, <2>2, <2>3 DEF OpenInv, BlocksInv
  <2>5. Bread(lh[k]) = cache[lh[k]]
    BY Zenon, <2>4 DEF Bread
  <2>6. cache' = cache /\ dlog' = [dlog EXCEPT ![k] = cache[lh[k]]]
    BY Zenon, <1>3, <2>4, <2>5 DEF WriteLog, TypeOK
  <2>7. tail'[p] = k + 1
    BY Zenon, <1>3 DEF WriteLog, TypeOK
  <2>8. \A i \in 1..Len(lh) : i < k + 1 => dlog'[i] = cache[lh[i]]
    <3> SUFFICES ASSUME NEW i \in 1..Len(lh), i < k + 1 PROVE dlog'[i] = cache[lh[i]]
      BY Zenon
    <3>1. i \in Slot
      BY <1>0 DEF HeadInv, Slot, TypeOK
    <3>2. CASE i = k
      BY Zenon, <2>6, <3>1, <3>2 DEF TypeOK
    <3>3. CASE i < k
      BY Zenon, <1>0, <2>1, <2>6, <3>1, <3>3 DEF CopyInv, TypeOK
    <3> QED
      BY <2>3, <3>2, <3>3
  <2>9. BlocksInv' /\ OpenInv'
    BY Zenon, <1>0, <2>1, <2>6 DEF BlocksInv, OpenInv, Logged
  <2>10. CopyInv' /\ InstallInv'
    <3>1. CopyInv'
      BY <2>1, <2>2, <2>7, <2>8, <2>6 DEF CopyInv
    <3>2. InstallInv'
      BY Zenon, <2>1, <2>2 DEF InstallInv
    <3> QED
      BY Zenon, <3>1, <3>2
  <2> QED
    BY Zenon, <2>9, <2>10
<1>4. ASSUME NEW p \in Proc, WriteHead(p) PROVE BlocksInv' /\ OpenInv' /\ CopyInv' /\ InstallInv'
  <2>1. /\ UNCHANGED <<home, dlog, cache, pin, lh>> /\ mode = "run" /\ hdr' = lh
        /\ pc[p] = "write_log" /\ pc' = [pc EXCEPT ![p] = "install"]
        /\ tail[p] > Len(lh) /\ tail' = [tail EXCEPT ![p] = 1]
    BY Zenon, <1>4 DEF WriteHead
  <2>2. \A q \in Proc : pc[q] # "install" /\ (pc[q] = "write_log" => q = p)
    BY Zenon, <1>0, <2>1 DEF OpsInv, Committing
  <2>3. \A i \in 1..Len(lh) : pin[lh[i]] = 1 /\ dlog[i] = cache[lh[i]]
    <3>1. \A i \in 1..Len(lh) : i < tail[p]
      BY <2>1 DEF TypeOK
    <3> QED
      BY Zenon, <1>0, <2>1, <2>2, <3>1 DEF OpenInv, CopyInv
  <2>4. /\ pc'[p] = "install" /\ tail'[p] = 1
        /\ \A q \in Proc : pc'[q] # "write_log" /\ (pc'[q] = "install" => q = p)
    BY Zenon, <2>1, <2>2 DEF TypeOK
  <2>5. BlocksInv'
    BY Zenon, <1>0, <2>1 DEF BlocksInv, Logged
  <2>6. OpenInv' /\ CopyInv'
    BY Zenon, <2>4 DEF OpenInv, CopyInv
  <2>7. InstallInv'
    BY <2>1, <2>3, <2>4 DEF InstallInv
  <2> QED
    BY Zenon, <2>5, <2>6, <2>7
<1>5. ASSUME NEW p \in Proc, Install(p) PROVE BlocksInv' /\ OpenInv' /\ CopyInv' /\ InstallInv'
  <2> DEFINE k == tail[p]
  <2>0. /\ UNCHANGED <<dlog, hdr, lh, pc>> /\ mode = "run" /\ pc[p] = "install"
        /\ k <= Len(lh) /\ tail' = [tail EXCEPT ![p] = k + 1]
        /\ home' = [home EXCEPT ![lh[k]] = dlog[k]]
        /\ cache' = [cache EXCEPT ![lh[k]] = dlog[k]]
        /\ pin' = [pin EXCEPT ![lh[k]] = pin[lh[k]] - 1]
    BY Zenon, <1>5 DEF Install, InstallBlock
  <2>1. k \in 1..Len(lh) /\ lh[k] \in Block
    <3>1. k \in 1..(Len(lh) + 1)
      BY Zenon, <1>0, <2>0 DEF OpsInv
    <3> QED
      BY <1>00, <2>0, <3>1 DEF TypeOK
  <2>2. \A q \in Proc : pc[q] # "write_log" /\ (pc[q] = "install" => q = p)
    BY Zenon, <1>0, <2>0 DEF OpsInv, Committing
  <2>3. hdr = lh /\ pin[lh[k]] = 1 /\ dlog[k] \in Value
    BY <1>0, <2>0, <2>1 DEF InstallInv, HeadInv, TypeOK
  <2>4. home'[lh[k]] = dlog[k] /\ cache'[lh[k]] = dlog[k] /\ pin'[lh[k]] = 0
    BY <2>0, <2>1, <2>3 DEF TypeOK
  <2>5. \A b \in Block \ {lh[k]} :
           home'[b] = home[b] /\ cache'[b] = cache[b] /\ pin'[b] = pin[b]
    BY Zenon, <2>0 DEF TypeOK
  <2>6. BlocksInv'
    <3> SUFFICES ASSUME NEW b \in Block
                 PROVE  /\ home'[b] \in Value
                        /\ b \notin Logged => pin'[b] = 0
                        /\ IF pin'[b] = 0 THEN cache'[b] \in {NotCached, home'[b]}
                                         ELSE cache'[b] \in Value
      BY <2>0 DEF BlocksInv, Logged
    <3>1. CASE b = lh[k]
      BY Zenon, <2>3, <2>4, <3>1
    <3>2. CASE b # lh[k]
      BY Zenon, <1>0, <2>0, <2>5, <3>2 DEF BlocksInv
    <3> QED
      BY Zenon, <3>1, <3>2
  <2>7. OpenInv' /\ CopyInv'
    BY Zenon, <2>0, <2>2 DEF OpenInv, CopyInv
  <2>8. \A i \in 1..Len(lh) :
           IF i < k + 1 THEN home'[lh[i]] = dlog[i] /\ pin'[lh[i]] = 0
                        ELSE cache'[lh[i]] = dlog[i] /\ pin'[lh[i]] = 1
    <3> TAKE i \in 1..Len(lh)
    <3>1. CASE i = k
      BY <2>1, <2>4, <3>1, SMTT(30)
    <3>2. CASE i # k
      <4>1. lh[i] \in Block \ {lh[k]}
        BY Zenon, <1>0, <1>00, <2>1, <3>2 DEF HeadInv, NoDuplicates
      <4>2. IF i < k THEN home[lh[i]] = dlog[i] /\ pin[lh[i]] = 0
                     ELSE cache[lh[i]] = dlog[i] /\ pin[lh[i]] = 1
        BY Zenon, <1>0, <2>0 DEF InstallInv
      <4>3. i < k <=> i < k + 1
        BY <2>1, <3>2
      <4> QED
        BY Zenon, <2>5, <4>1, <4>2, <4>3
    <3> QED
      BY Zenon, <3>1, <3>2
  <2>9. InstallInv'
    <3>1. tail'[p] = k + 1
      BY Zenon, <2>0 DEF TypeOK
    <3> QED
      BY <2>0, <2>2, <2>3, <2>8, <3>1 DEF InstallInv
  <2> QED
    BY Zenon, <2>6, <2>7, <2>9
<1>6. ASSUME NEW p \in Proc, EraseHead(p) PROVE BlocksInv' /\ OpenInv' /\ CopyInv' /\ InstallInv'
  <2>1. /\ UNCHANGED <<home, dlog, cache, pin>> /\ mode = "run" /\ lh' = <<>> /\ hdr' = <<>>
        /\ pc[p] = "install" /\ tail[p] > Len(lh) /\ pc' = [pc EXCEPT ![p] = "done"]
    BY Zenon, <1>6 DEF EraseHead
  <2>2. \A q \in Proc : pc'[q] \notin {"write_log", "install"}
    BY Zenon, <1>0, <2>1 DEF OpsInv, Committing, TypeOK
  <2>3. \A b \in Block : pin[b] = 0
    <3>1. \A i \in 1..Len(lh) : pin[lh[i]] = 0
      BY <1>0, <2>1 DEF InstallInv, TypeOK
    <3> QED
      BY <1>0, <2>1, <3>1 DEF BlocksInv, Logged
  <2>4. BlocksInv'
    BY Zenon, <1>0, <2>1, <2>3 DEF BlocksInv
  <2>5. OpenInv' /\ CopyInv' /\ InstallInv'
    BY <2>1, <2>2 DEF OpenInv, CopyInv, InstallInv
  <2> QED
    BY Zenon, <2>4, <2>5
<1>7. ASSUME NEW p \in Proc, EndCommit(p) PROVE BlocksInv' /\ OpenInv' /\ CopyInv' /\ InstallInv'
  <2>1. UNCHANGED <<home, dlog, hdr, cache, pin, lh, tail>> /\ mode = "run"
    BY Zenon, <1>7 DEF EndCommit
  <2>2. \A q \in Proc : /\ pc'[q] = "install" <=> pc[q] = "install"
                        /\ pc'[q] = "write_log" <=> pc[q] = "write_log"
    BY Zenon, <1>7 DEF EndCommit, Woken, TypeOK
  <2>3. \A q \in Proc :
           /\ pc'[q] = "install" <=> pc[q] = "install"
           /\ pc'[q] = "install" => tail'[q] = tail[q]
           /\ pc'[q] = "write_log" =>
                tail'[q] = 1 \/ (pc[q] = "write_log" /\ tail'[q] = tail[q])
    BY Zenon, <2>1, <2>2
  <2>4. BlocksInv /\ OpenInv /\ CopyInv /\ InstallInv
    BY Zenon, <1>0, <2>1
  <2> QED
    BY Zenon, <2>1, <2>3, <2>4, RunFrame
<1>8. ASSUME NEW p \in Proc, NEW b \in Block, NEW v \in Value, LogWrite(p, b, v)
      PROVE  BlocksInv' /\ OpenInv' /\ CopyInv' /\ InstallInv'
  <2>1. p \in Outstanding /\ ~committing /\ mode = "run"
    BY Zenon, <1>0, <1>8, Counting DEF LogWrite, OpsInv, Outstanding
  <2>2. \A q \in Proc : pc[q] \notin {"install", "write_log"}
    BY Zenon, <1>0, <2>1 DEF OpsInv, Committing
  <2>3. /\ UNCHANGED <<home, dlog, hdr, tail>>
        /\ \A q \in Proc : pc'[q] \notin {"install", "write_log"}
    BY Zenon, <1>8, <2>2 DEF LogWrite, TypeOK
  <2>4. CopyInv' /\ InstallInv'
    BY Zenon, <2>3 DEF CopyInv, InstallInv
  <2>5. CASE UNCHANGED <<cache, lh, pin>>
    BY Zenon, <1>0, <2>1, <2>2, <2>3, <2>4, <2>5, RunFrame
  <2>6. CASE /\ cache' = [cache EXCEPT ![b] = v]
             /\ b \in Logged /\ UNCHANGED <<lh, pin>>
    <3>1. pin[b] = 1
      BY Zenon, <1>0, <2>1, <2>2, <2>6 DEF OpenInv, Logged
    <3>2. Logged' = Logged
      BY Zenon, <2>6 DEF Logged
    <3>3. BlocksInv'
      BY <1>0, <2>1, <2>3, <2>6, <3>1, <3>2 DEF BlocksInv, TypeOK
    <3>4. OpenInv'
      BY Zenon, <1>0, <2>1, <2>2, <2>3, <2>6 DEF OpenInv
    <3> QED
      BY Zenon, <2>4, <3>3, <3>4
  <2>7. CASE /\ cache' = [cache EXCEPT ![b] = v]
             /\ b \notin Logged /\ lh' = Append(lh, b)
             /\ pin' = [pin EXCEPT ![b] = pin[b] + 1]
    <3>1. /\ Len(lh') = Len(lh) + 1 /\ lh'[Len(lh) + 1] = b
          /\ \A i \in 1..Len(lh) : lh'[i] = lh[i]
      BY <2>7 DEF TypeOK
    <3>2. pin[b] = 0 /\ pin'[b] = 1
      BY <1>0, <2>1, <2>7 DEF BlocksInv, TypeOK
    <3>3. \A i \in 1..Len(lh) : pin'[lh[i]] = 1
      BY Zenon, <1>0, <1>00, <2>1, <2>2, <2>7 DEF OpenInv, Logged, TypeOK
    <3>4. OpenInv'
      <4>1. \A i \in 1..Len(lh') : pin'[lh'[i]] = 1
        <5> SUFFICES ASSUME NEW i \in 1..Len(lh') PROVE pin'[lh'[i]] = 1
          BY Zenon
        <5>1. i \in 1..Len(lh) \/ i = Len(lh) + 1
          BY <3>1, SMTT(30) DEF TypeOK
        <5> QED
          BY Zenon, <3>1, <3>2, <3>3, <5>1
      <4> QED
        BY Zenon, <1>0, <2>1, <2>2, <2>3, <4>1 DEF OpenInv
    <3>5. b \in Logged' /\ Logged \subseteq Logged'
      <4>1. Len(lh) + 1 \in 1..Len(lh') /\ \A i \in 1..Len(lh) : i \in 1..Len(lh')
        BY <3>1 DEF TypeOK
      <4> QED
        BY Zenon, <3>1, <4>1 DEF Logged
    <3>6. BlocksInv'
      BY <1>0, <2>1, <2>3, <2>7, <3>2, <3>5, SMTT(30) DEF BlocksInv, TypeOK
    <3> QED
      BY Zenon, <2>4, <3>4, <3>6
  <2> QED
    BY Zenon, <1>8, <2>5, <2>6, <2>7 DEF LogWrite
<1>9. ASSUME NEW b \in Block, ReadBlock(b) PROVE BlocksInv' /\ OpenInv' /\ CopyInv' /\ InstallInv'
  BY <1>0, <1>9 DEF ReadBlock, Logged, BlocksInv, OpenInv, CopyInv, InstallInv, TypeOK
<1>10. ASSUME NEW b \in Block, Recycle(b) PROVE BlocksInv' /\ OpenInv' /\ CopyInv' /\ InstallInv'
  <2>1. UNCHANGED <<home, dlog, hdr, pin, lh, pc, tail>> /\ mode = "run"
    BY Zenon, <1>10 DEF Recycle
  <2>2. \A a \in Block : /\ pin[a] # 0 => cache'[a] = cache[a]
                         /\ cache'[a] \in {cache[a], NotCached}
    BY ZenonT(60), <1>10 DEF Recycle, TypeOK
  <2>3. BlocksInv' /\ OpenInv'
    BY <1>0, <2>1, <2>2 DEF BlocksInv, OpenInv, Logged
  <2>4. CopyInv'
    <3> SUFFICES ASSUME NEW q \in Proc, pc[q] = "write_log",
                        NEW i \in 1..Len(lh), i < tail[q]
                 PROVE  dlog[i] = cache'[lh[i]]
      BY Zenon, <2>1 DEF CopyInv
    <3>1. \A r \in Proc : pc[r] # "install"
      BY Zenon, <1>0 DEF OpsInv, Committing
    <3>2. pin[lh[i]] # 0
      <4>1. OpenInv
        BY Zenon, <1>0, <2>1
      <4> QED
        BY <3>1, <4>1 DEF OpenInv
    <3>3. dlog[i] = cache[lh[i]]
      BY Zenon, <1>0, <2>1 DEF CopyInv
    <3> QED
      BY Zenon, <1>00, <2>2, <3>2, <3>3
  <2>5. InstallInv'
    BY <1>0, <1>00, <2>1, <2>2 DEF InstallInv
  <2> QED
    BY Zenon, <2>3, <2>4, <2>5
<1>11. CASE RecoverErase
  <2>1. /\ UNCHANGED <<home, cache, pin, pc>> /\ lh' = <<>> /\ hdr' = <<>>
        /\ lh = hdr /\ rtail > Len(lh) /\ mode = "install"
        /\ \A p \in Proc : pc[p] = "out"
    BY Zenon, <1>0, <1>11 DEF RecoverErase, RecoverInv
  <2>2. \A i \in 1..Len(hdr) : home[hdr[i]] \in Value
    BY <1>0, <2>1 DEF RecoverInv, HeadInv, TypeOK
  <2>3. \A b \in Block : home[b] \in Value /\ pin[b] = 0 /\ cache[b] \in {NotCached, home[b]}
    BY Zenon, <1>0, <2>1, <2>2 DEF RecoverInv
  <2> QED
    BY <2>1, <2>3 DEF BlocksInv, OpenInv, CopyInv, InstallInv
<1>12. CASE Crash \/ RecoverHead \/ RecoverInstall
  BY Zenon, <1>12 DEF Crash, RecoverHead, RecoverInstall
<1>13. CASE UNCHANGED vars
  BY Zenon, <1>0, <1>13, RunFrame DEF vars
<1> QED
  BY Zenon, <1>1, <1>2, <1>3, <1>4, <1>5, <1>6, <1>7, <1>8, <1>9, <1>10, <1>11, <1>12, <1>13
     DEF Next, ProcStep, Recover

(***************************************************************************)
(* Type correctness and the invariant, for every number of processes,      *)
(* blocks and values and every size of log.                                *)
(***************************************************************************)
THEOREM LogInvariant == Spec => [](TypeOK /\ LogInv)
<1>1. TypeOK /\ LogInv /\ [Next]_vars => (TypeOK /\ LogInv)'
  BY Zenon, TypeInductive, OpsInductive, HeadInductive, RunInductive, RecoverInductive DEF LogInv
<1> QED
  BY InitInv, <1>1, PTL DEF Spec

(* A process that sleeps in begin_op() has somebody who will wake it. *)
THEOREM WakerExists == Spec => []SleeperHasWaker
<1>1. TypeOK /\ LogInv => SleeperHasWaker
  BY Zenon DEF LogInv, OpsInv
<1> QED
  BY LogInvariant, <1>1, PTL
-----------------------------------------------------------------------------
(***************************************************************************)
(* What Overlay computes when the header names no block twice.             *)
(***************************************************************************)
LEMMA OverlayIs ==
  ASSUME NEW h \in Seq(Block), NoDuplicates(h), NEW d, NEW base
  PROVE  /\ \A i \in 1..Len(h) : Overlay(h, d, base)[h[i]] = d[i]
         /\ \A b \in Block : (\A i \in 1..Len(h) : h[i] # b) => Overlay(h, d, base)[b] = base[b]
<1>1. ASSUME NEW i \in 1..Len(h) PROVE Overlay(h, d, base)[h[i]] = d[i]
  <2> DEFINE k == CHOOSE j \in 1..Len(h) : h[j] = h[i]
  <2>1. h[i] \in Block
    OBVIOUS
  <2>2. k \in 1..Len(h) /\ h[k] = h[i]
    BY Zenon
  <2>3. k = i
    BY Zenon, <2>2 DEF NoDuplicates
  <2>4. Overlay(h, d, base)[h[i]] = d[k]
    BY Zenon, <2>1 DEF Overlay
  <2> QED
    BY Zenon, <2>3, <2>4
<1>2. ASSUME NEW b \in Block, \A i \in 1..Len(h) : h[i] # b
      PROVE  Overlay(h, d, base)[b] = base[b]
  BY Zenon, <1>2 DEF Overlay
<1> QED
  BY Zenon, <1>1, <1>2

(* Two transactions that agree block by block overlay to the same disk. *)
LEMMA OverlayEq ==
  ASSUME NEW h \in Seq(Block), NoDuplicates(h), NEW d, NEW base, NEW f,
         \A i \in 1..Len(h) : f[h[i]] = d[i],
         \A b \in Block : (\A i \in 1..Len(h) : h[i] # b) => f[b] = base[b],
         f = [b \in Block |-> f[b]]
  PROVE  Overlay(h, d, base) = f
<1>1. \A b \in Block : Overlay(h, d, base)[b] = f[b]
  <2> TAKE b \in Block
  <2>1. CASE \E i \in 1..Len(h) : h[i] = b
    <3>1. PICK i \in 1..Len(h) : h[i] = b
      BY Zenon, <2>1
    <3>2. Overlay(h, d, base)[h[i]] = d[i]
      BY OverlayIs
    <3> QED
      BY Zenon, <3>1, <3>2
  <2>2. CASE \A i \in 1..Len(h) : h[i] # b
    <3>1. Overlay(h, d, base)[b] = base[b]
      BY <2>2, OverlayIs
    <3> QED
      BY Zenon, <2>2, <3>1
  <2> QED
    BY Zenon, <2>1, <2>2
<1>2. Overlay(h, d, base) = [b \in Block |-> Overlay(h, d, base)[b]]
  BY Zenon DEF Overlay
<1> QED
  BY Zenon, <1>1, <1>2, Zenon

(***************************************************************************)
(* The log implements the transactional disk of TxDisk: a crash at any     *)
(* moment, during recovery too, leaves the state after whole transactions. *)
(***************************************************************************)
LEMMA TxInitially == Init => Tx!TxInit
<1> SUFFICES ASSUME Init PROVE Tx!TxInit
  BY Zenon
<1>1. Recovered = home
  BY DEF Init, Recovered, Overlay
<1>2. Seen = home
  BY Zenon DEF Init, Seen, Bread
<1>3. Ops = {}
  BY Zenon DEF Init, Ops
<1> QED
  BY Zenon, <1>1, <1>2, <1>3 DEF Init, Tx!TxInit

(* A step that keeps the header, the committed log blocks and the home     *)
(* blocks outside the transaction keeps what recovery would produce.       *)
LEMMA RecoveredFrame ==
  ASSUME TypeOK, HeadInv, hdr' = hdr,
         \A i \in 1..Len(hdr) : dlog'[i] = dlog[i],
         \A b \in Block : (\A i \in 1..Len(hdr) : hdr[i] # b) => home'[b] = home[b]
  PROVE  Recovered' = Recovered
<1> DEFINE f == Overlay(hdr, dlog, home)
<1>1. hdr \in Seq(Block) /\ NoDuplicates(hdr)
  BY Zenon DEF TypeOK, HeadInv
<1>2. f = [b \in Block |-> f[b]]
  BY Zenon DEF Overlay
<1>3. \A i \in 1..Len(hdr) : f[hdr[i]] = dlog'[i]
  BY <1>1, OverlayIs
<1>4. \A b \in Block : (\A i \in 1..Len(hdr) : hdr[i] # b) => f[b] = home'[b]
  BY <1>1, OverlayIs
<1> HIDE DEF f
<1>5. Overlay(hdr, dlog', home') = f
  BY <1>1, <1>2, <1>3, <1>4, OverlayEq
<1> QED
  BY Zenon, <1>5 DEF f, Recovered

(* With no committed transaction on disk, recovery leaves the home blocks. *)
LEMMA OverlayEmpty ==
  ASSUME NEW d, NEW base, base = [b \in Block |-> base[b]]
  PROVE  Overlay(<<>>, d, base) = base
  BY DEF Overlay

LEMMA NothingToRecover == TypeOK /\ hdr = <<>> => Recovered = home
  BY Zenon, OverlayEmpty DEF Recovered, TypeOK

(* While the system runs, an unpinned block reads as its home. *)
LEMMA SeenRunning ==
  ASSUME TypeOK, mode = "run", BlocksInv
  PROVE  /\ Seen = [b \in Block |-> Bread(b)]
         /\ \A b \in Block : Seen[b] = IF pin[b] = 0 THEN home[b] ELSE cache[b]
  BY Zenon, LogAssumption DEF Seen, Bread, BlocksInv, TypeOK

(* Every step of the log is a step of the transactional disk or none.      *)
LEMMA TxStep ==
  TypeOK /\ LogInv /\ TypeOK' /\ LogInv' /\ [Next]_vars
    => [Tx!TxNext]_<<Recovered, Seen, Ops>>
<1> SUFFICES ASSUME TypeOK, LogInv, TypeOK', LogInv', [Next]_vars
             PROVE  Tx!TxNext \/ UNCHANGED <<Recovered, Seen, Ops>>
  BY Zenon
<1> USE LogAssumption
<1>0. /\ OpsInv /\ HeadInv /\ RecoverInv
      /\ mode = "run" => BlocksInv /\ OpenInv /\ CopyInv /\ InstallInv
      /\ mode' = "run" => BlocksInv'
  BY Zenon DEF LogInv, RunInv
<1>00. (\A i \in 1..Len(lh) : lh[i] \in Block) /\ Ops \subseteq Proc
  BY DEF TypeOK, Ops
<1>a. UNCHANGED diskVars => UNCHANGED Recovered
  BY Zenon DEF diskVars, Recovered
<1>b. UNCHANGED <<home, cache, mode>> /\ mode = "run" => UNCHANGED Seen
  BY Zenon DEF Seen, Bread
<1>1. ASSUME NEW p \in Proc, BeginOp(p) PROVE Tx!TxNext \/ UNCHANGED <<Recovered, Seen, Ops>>
  <2>1. UNCHANGED <<Recovered, Seen>>
    BY Zenon, <1>1, <1>a, <1>b DEF BeginOp, diskVars
  <2>2. Ops' = Ops \cup {p} \/ Ops' = Ops
    BY <1>1 DEF BeginOp, Ops, TypeOK
  <2> QED
    BY Zenon, <2>1, <2>2 DEF Tx!TxNext, Tx!Begin
<1>2. ASSUME NEW p \in Proc, EndOp(p) PROVE Tx!TxNext \/ UNCHANGED <<Recovered, Seen, Ops>>
  <2>1. UNCHANGED <<Recovered, Seen>>
    BY Zenon, <1>2, <1>a, <1>b DEF EndOp, diskVars
  <2>2. /\ pc'[p] # "op"
        /\ \A q \in Proc \ {p} : pc'[q] = "op" <=> pc[q] = "op"
    BY ZenonT(60), <1>2 DEF EndOp, Woken, TypeOK
  <2>3. Ops' = Ops \ {p}
    BY Zenon, <2>2 DEF Ops
  <2> QED
    BY Zenon, <2>1, <2>3 DEF Tx!TxNext, Tx!End
<1>3. ASSUME NEW p \in Proc, WriteLog(p) PROVE Tx!TxNext \/ UNCHANGED <<Recovered, Seen, Ops>>
  <2>0. /\ UNCHANGED <<home, hdr, pc, mode>> /\ mode = "run"
        /\ pc[p] = "write_log" /\ tail[p] <= Len(lh)
    BY Zenon, <1>3 DEF WriteLog
  <2>1. tail[p] \in 1..Len(lh)
    <3>1. tail[p] \in 1..(Len(lh) + 1)
      BY Zenon, <1>0, <2>0 DEF OpsInv
    <3> QED
      BY <2>0, <3>1 DEF TypeOK
  <2>2. hdr = <<>> /\ pin[lh[tail[p]]] # 0
    <3>1. \A q \in Proc : pc[q] # "install"
      BY Zenon, <1>0, <2>0 DEF OpsInv, Committing
    <3> QED
      BY <1>0, <2>0, <2>1, <3>1 DEF OpenInv
  <2>3. cache[lh[tail[p]]] \in Value
    <3>1. BlocksInv
      BY Zenon, <1>0, <2>0
    <3> QED
      BY Zenon, <1>00, <2>1, <2>2, <3>1 DEF BlocksInv
  <2>4. cache' = cache
    BY Zenon, <1>3, <1>00, <2>1, <2>3 DEF WriteLog, Bread, TypeOK
  <2>5. \A i \in 1..Len(hdr) : dlog'[i] = dlog[i]
    BY <2>2
  <2>6. UNCHANGED Recovered
    BY Zenon, <1>0, <2>0, <2>5, RecoveredFrame
  <2> QED
    BY Zenon, <1>b, <2>0, <2>4, <2>6 DEF Ops
<1>4. ASSUME NEW p \in Proc, WriteHead(p) PROVE Tx!TxNext \/ UNCHANGED <<Recovered, Seen, Ops>>
  <2>1. /\ UNCHANGED <<home, dlog, cache, lh, mode>> /\ mode = "run" /\ hdr' = lh
        /\ pc[p] = "write_log" /\ tail[p] > Len(lh)
        /\ pc' = [pc EXCEPT ![p] = "install"]
    BY Zenon, <1>4 DEF WriteHead
  <2>2. Outstanding = {}
    BY Zenon, <1>0, <2>1, Counting DEF OpsInv, Committing
  <2>3. Ops = {} /\ Ops' = {}
    BY Zenon, <2>1, <2>2 DEF Ops, Outstanding, TypeOK
  <2>4. \A i \in 1..Len(lh) : pin[lh[i]] # 0 /\ dlog[i] = cache[lh[i]]
    <3>1. \A q \in Proc : pc[q] # "install"
      BY Zenon, <1>0, <2>1 DEF OpsInv, Committing
    <3>2. \A i \in 1..Len(lh) : pin[lh[i]] # 0
      BY <1>0, <2>1, <3>1 DEF OpenInv
    <3>3. \A i \in 1..Len(lh) : dlog[i] = cache[lh[i]]
      BY <1>0, <2>1 DEF CopyInv, TypeOK
    <3> QED
      BY Zenon, <3>2, <3>3
  <2>5. \A i \in 1..Len(lh) : Seen[lh[i]] = dlog[i]
    <3>1. \A b \in Block : pin[b] # 0 => Seen[b] = cache[b]
      BY Zenon, <1>0, <2>1, SeenRunning
    <3> QED
      BY Zenon, <1>00, <2>4, <3>1
  <2>6. \A b \in Block : (\A i \in 1..Len(lh) : lh[i] # b) => Seen[b] = home[b]
    BY Zenon, <1>0, <2>1, SeenRunning DEF BlocksInv, Logged
  <2>7. Seen = [b \in Block |-> Seen[b]] /\ lh \in Seq(Block) /\ NoDuplicates(lh)
    BY Zenon, <1>0, <2>1 DEF Seen, HeadInv, TypeOK
  <2>8. Overlay(lh, dlog, home) = Seen
    BY <2>5, <2>6, <2>7, OverlayEq
  <2>9. Recovered' = Seen
    BY Zenon, <2>1, <2>8 DEF Recovered
  <2> QED
    BY Zenon, <1>b, <2>1, <2>3, <2>9 DEF Tx!TxNext, Tx!Commit
<1>5. ASSUME NEW p \in Proc, Install(p) PROVE Tx!TxNext \/ UNCHANGED <<Recovered, Seen, Ops>>
  <2> DEFINE k == tail[p]
  <2>1. /\ UNCHANGED <<dlog, hdr, lh, pc, mode>> /\ mode = "run" /\ pc[p] = "install"
        /\ k \in 1..Len(lh) /\ lh[k] \in Block
        /\ home' = [home EXCEPT ![lh[k]] = dlog[k]]
        /\ cache' = [cache EXCEPT ![lh[k]] = dlog[k]]
    BY <1>0, <1>5, SMTT(30) DEF Install, InstallBlock, OpsInv, TypeOK
  <2>2. hdr = lh /\ cache[lh[k]] = dlog[k] /\ pin[lh[k]] # 0
    BY <1>0, <2>1 DEF InstallInv, TypeOK
  <2>3. cache[lh[k]] \in Value
    <3>1. BlocksInv
      BY Zenon, <1>0, <2>1
    <3> QED
      BY Zenon, <2>1, <2>2, <3>1 DEF BlocksInv
  <2>4. cache' = cache
    BY <2>1, <2>2 DEF TypeOK
  <2>5. UNCHANGED Recovered
    <3>1. \A b \in Block : (\A i \in 1..Len(hdr) : hdr[i] # b) => home'[b] = home[b]
      BY Zenon, <2>1, <2>2 DEF TypeOK
    <3> QED
      BY Zenon, <1>0, <2>1, <3>1, RecoveredFrame
  <2>6. \A b \in Block : Bread(b)' = Bread(b)
    BY <2>1, <2>2, <2>3, <2>4, SMTT(30) DEF Bread, TypeOK
  <2>7. UNCHANGED <<Seen, Ops>>
    BY Zenon, <2>1, <2>6 DEF Seen, Ops
  <2> QED
    BY Zenon, <2>5, <2>7
<1>6. ASSUME NEW p \in Proc, EraseHead(p) PROVE Tx!TxNext \/ UNCHANGED <<Recovered, Seen, Ops>>
  <2>1. /\ UNCHANGED <<home, dlog, cache, mode>> /\ mode = "run" /\ pc[p] = "install"
        /\ tail[p] > Len(lh) /\ hdr' = <<>> /\ pc' = [pc EXCEPT ![p] = "done"]
    BY Zenon, <1>6 DEF EraseHead
  <2>2. hdr = lh /\ \A i \in 1..Len(hdr) : home[hdr[i]] = dlog[i]
    BY <1>0, <2>1 DEF InstallInv, TypeOK
  <2>3. home = [b \in Block |-> home[b]] /\ hdr \in Seq(Block) /\ NoDuplicates(hdr)
    BY Zenon, <1>0 DEF HeadInv, TypeOK
  <2>4. Overlay(hdr, dlog, home) = home
    BY <2>2, <2>3, OverlayEq
  <2>5. Recovered = home /\ Recovered' = home
    BY Zenon, <2>1, <2>3, <2>4, OverlayEmpty DEF Recovered
  <2>6. UNCHANGED Ops
    BY Zenon, <2>1 DEF Ops, TypeOK
  <2> QED
    BY Zenon, <1>b, <2>1, <2>5, <2>6
<1>7. ASSUME NEW p \in Proc, EndCommit(p) PROVE Tx!TxNext \/ UNCHANGED <<Recovered, Seen, Ops>>
  <2>1. UNCHANGED <<Recovered, Seen>>
    BY Zenon, <1>7, <1>a, <1>b DEF EndCommit, diskVars
  <2>2. Ops' = Ops
    BY Zenon, <1>7 DEF EndCommit, Woken, Ops, TypeOK
  <2> QED
    BY Zenon, <2>1, <2>2
<1>8. ASSUME NEW p \in Proc, NEW b \in Block, NEW v \in Value, LogWrite(p, b, v)
      PROVE  Tx!TxNext \/ UNCHANGED <<Recovered, Seen, Ops>>
  <2>1. UNCHANGED Recovered /\ UNCHANGED <<home, mode>> /\ mode = "run" /\ p \in Ops
    BY Zenon, <1>8, <1>a DEF LogWrite, diskVars, Ops
  <2>2. CASE UNCHANGED cache /\ pc' = [pc EXCEPT ![p] = "panic"]
    <3>1. Ops' = Ops \ {p}
      BY Zenon, <2>2 DEF Ops, TypeOK
    <3> QED
      BY Zenon, <1>b, <2>1, <2>2, <3>1 DEF Tx!TxNext, Tx!End
  <2>3. CASE cache' = [cache EXCEPT ![b] = v] /\ UNCHANGED pc
    <3>1. v # NotCached
      BY Zenon
    <3>2. \A a \in Block : Bread(a)' = IF a = b THEN v ELSE Bread(a)
      BY Zenon, <2>1, <2>3, <3>1 DEF Bread, TypeOK
    <3>3. Seen' = [Seen EXCEPT ![b] = v]
      BY Zenon, <2>1, <3>2 DEF Seen
    <3>4. Ops' = Ops
      BY Zenon, <2>3 DEF Ops
    <3> QED
      BY Zenon, <2>1, <3>3, <3>4 DEF Tx!TxNext, Tx!Write
  <2> QED
    BY Zenon, <1>8, <2>2, <2>3 DEF LogWrite
<1>9. ASSUME NEW b \in Block, ReadBlock(b) \/ Recycle(b)
      PROVE  Tx!TxNext \/ UNCHANGED <<Recovered, Seen, Ops>>
  <2>1. /\ UNCHANGED Recovered /\ UNCHANGED <<home, pc, mode>> /\ mode = "run"
        /\ \/ cache[b] = NotCached /\ cache' = [cache EXCEPT ![b] = home[b]]
           \/ pin[b] = 0 /\ cache' = [cache EXCEPT ![b] = NotCached]
    BY Zenon, <1>9, <1>a DEF ReadBlock, Recycle, diskVars
  <2>2. home[b] # NotCached /\ (pin[b] = 0 => cache[b] \in {NotCached, home[b]})
    BY Zenon, <1>0, <2>1 DEF BlocksInv
  <2>3. \A a \in Block : Bread(a)' = Bread(a)
    BY <2>1, <2>2 DEF Bread, TypeOK
  <2>4. UNCHANGED <<Seen, Ops>>
    BY Zenon, <2>1, <2>3 DEF Seen, Ops
  <2> QED
    BY Zenon, <2>1, <2>4
<1>10. CASE Crash
  <2>1. hdr' = hdr /\ mode' = "read_head" /\ \A p \in Proc : pc'[p] = "out"
    BY Zenon, <1>10 DEF Crash
  <2>2. \A i \in 1..Len(hdr) : dlog'[i] = dlog[i]
    <3>1. LogInFlight # {} => Len(hdr) = 0
      <4> SUFFICES ASSUME NEW p \in Proc, pc[p] = "write_log" PROVE Len(hdr) = 0
        BY Zenon DEF LogInFlight
      <4>1. mode = "run" /\ \A q \in Proc : pc[q] # "install"
        BY Zenon, <1>0 DEF OpsInv, Committing, RecoverInv
      <4>2. OpenInv
        BY Zenon, <1>0, <4>1
      <4> QED
        BY <4>1, <4>2 DEF OpenInv
    <3> QED
      BY <1>10, <3>1 DEF Crash
  <2>3. \A b \in Block : (\A i \in 1..Len(hdr) : hdr[i] # b) => home'[b] = home[b]
    <3>1. \A b \in HomeInFlight : \E i \in 1..Len(hdr) : hdr[i] = b
      <4>1. ASSUME NEW p \in Proc, pc[p] = "install", tail[p] <= Len(lh)
            PROVE  \E i \in 1..Len(hdr) : hdr[i] = lh[tail[p]]
        <5>1. mode = "run"
          BY Zenon, <1>0, <4>1 DEF RecoverInv
        <5>2. hdr = lh /\ tail[p] \in 1..Len(hdr)
          BY <1>0, <4>1, <5>1 DEF InstallInv, OpsInv, TypeOK
        <5> QED
          BY Zenon, <5>2
      <4>2. ASSUME mode = "install", rtail <= Len(lh)
            PROVE  \E i \in 1..Len(hdr) : hdr[i] = lh[rtail]
        <5>1. hdr = lh /\ rtail \in 1..Len(hdr)
          BY <1>0, <4>2 DEF RecoverInv, TypeOK
        <5> QED
          BY Zenon, <5>1
      <4> QED
        BY <4>1, <4>2 DEF HomeInFlight
    <3>2. \A b \in Block \ HomeInFlight : home'[b] = home[b]
      BY Zenon, <1>10 DEF Crash, TypeOK
    <3> QED
      BY Zenon, <3>1, <3>2
  <2>4. Recovered' = Recovered
    BY Zenon, <1>0, <2>1, <2>2, <2>3, RecoveredFrame
  <2>5. Seen' = Recovered' /\ Ops' = {}
    BY Zenon, <2>1 DEF Seen, Ops
  <2> QED
    BY Zenon, <2>4, <2>5 DEF Tx!TxNext, Tx!Crash
<1>11. CASE RecoverHead
  BY Zenon, <1>11, <1>a DEF RecoverHead, diskVars, Seen, Ops
<1>12. CASE RecoverInstall
  <2>1. /\ UNCHANGED <<dlog, hdr, pc, mode>> /\ mode = "install"
        /\ lh = hdr /\ rtail \in 1..Len(hdr) /\ home' = [home EXCEPT ![hdr[rtail]] = dlog[rtail]]
    BY <1>0, <1>12, SMTT(30) DEF RecoverInstall, InstallBlock, RecoverInv, TypeOK
  <2>2. \A b \in Block : (\A i \in 1..Len(hdr) : hdr[i] # b) => home'[b] = home[b]
    BY Zenon, <2>1 DEF TypeOK
  <2>3. Recovered' = Recovered
    BY Zenon, <1>0, <2>1, <2>2, RecoveredFrame
  <2> QED
    BY Zenon, <2>1, <2>3 DEF Seen, Ops
<1>13. CASE RecoverErase
  <2>1. /\ UNCHANGED <<home, dlog, cache, pc>> /\ mode = "install" /\ mode' = "run"
        /\ lh = hdr /\ rtail > Len(lh) /\ hdr' = <<>>
        /\ \A i \in 1..Len(hdr) : i < rtail => home[hdr[i]] = dlog[i]
        /\ \A b \in Block : cache[b] \in {NotCached, home[b]}
    BY Zenon, <1>0, <1>13 DEF RecoverErase, RecoverInv
  <2>2. \A i \in 1..Len(hdr) : home[hdr[i]] = dlog[i]
    BY <2>1 DEF TypeOK
  <2>3. home = [b \in Block |-> home[b]] /\ hdr \in Seq(Block) /\ NoDuplicates(hdr)
    BY Zenon, <1>0 DEF HeadInv, TypeOK
  <2>4. Overlay(hdr, dlog, home) = home
    BY <2>2, <2>3, OverlayEq
  <2>5. Recovered = home /\ Recovered' = home /\ Seen = Recovered
    BY Zenon, <2>1, <2>3, <2>4, OverlayEmpty DEF Recovered, Seen
  <2>6. Seen' = home
    BY Zenon, <2>1, <2>3 DEF Seen, Bread
  <2> QED
    BY Zenon, <2>1, <2>5, <2>6 DEF Ops
<1>14. CASE UNCHANGED vars
  BY Zenon, <1>14, <1>a DEF vars, diskVars, Seen, Bread, Ops
<1> QED
  BY Zenon, <1>1, <1>2, <1>3, <1>4, <1>5, <1>6, <1>7, <1>8, <1>9, <1>10, <1>11, <1>12, <1>13, <1>14
     DEF Next, ProcStep, Recover

(***************************************************************************)
(* begin_op(), log_write(), end_op(), commit() and recover_from_log()      *)
(* implement the transactional disk: FS calls are atomic across crashes.   *)
(***************************************************************************)
THEOREM LogImplementsTxDisk == Spec => Atomicity
<1>1. TypeOK /\ LogInv /\ TypeOK' /\ LogInv' /\ [Next]_vars
        => [Tx!TxNext]_<<Recovered, Seen, Ops>>
  BY Zenon, TxStep
<1> QED
  BY LogInvariant, TxInitially, <1>1, PTL DEF Spec, Atomicity, Tx!TxSpec

(* The counters, the two headers and the blocks of log.c keep their types. *)
THEOREM LogTypes == Spec => []TypeOK
  BY LogInvariant, PTL

(* When no FS call is outstanding and no commit runs, nothing is volatile. *)
THEOREM DurableWhenIdle == Spec => []SyncedWhenIdle
<1>1. TypeOK /\ LogInv => SyncedWhenIdle
  <2> SUFFICES ASSUME TypeOK, LogInv, mode = "run", outstanding = 0, ~committing
               PROVE  Seen = Recovered
    BY Zenon DEF SyncedWhenIdle
  <2>1. lh = <<>> /\ BlocksInv /\ OpenInv /\ \A p \in Proc : pc[p] # "install"
    BY Zenon DEF LogInv, OpsInv, RunInv, Committing
  <2>2. hdr = <<>> /\ \A b \in Block : pin[b] = 0
    BY <2>1 DEF OpenInv, BlocksInv, Logged
  <2>3. \A b \in Block : Seen[b] = home[b]
    BY Zenon, <2>1, <2>2, SeenRunning
  <2>4. Seen = [b \in Block |-> Seen[b]] /\ home = [b \in Block |-> home[b]]
    BY Zenon DEF Seen, TypeOK
  <2> QED
    BY Zenon, <2>2, <2>3, <2>4, NothingToRecover
<1> QED
  BY LogInvariant, <1>1, PTL
-----------------------------------------------------------------------------
(* A set of pairs <<an operation, a block of its reservation>> is finite. *)
LEMMA PairsCount ==
  ASSUME NEW S, IsFiniteSet(S), NEW m \in Nat, NEW R \in SUBSET (S \X (1..m))
  PROVE  IsFiniteSet(R) /\ Cardinality(R) \in Nat /\ Cardinality(R) <= Cardinality(S) * m
<1>1. IsFiniteSet(1..m) /\ Cardinality(1..m) = m
  <2>1. IsFiniteSet(1..m) /\ Cardinality(1..m) = IF 1 > m THEN 0 ELSE m - 1 + 1
    BY FS_Interval
  <2> QED
    BY <2>1
<1>2. IsFiniteSet(S \X (1..m)) /\ Cardinality(S \X (1..m)) = Cardinality(S) * m
  BY Zenon, <1>1, FS_Product
<1> QED
  BY Zenon, <1>2, FS_Subset, FS_CardinalityType

LEMMA ReservedCounts ==
  ASSUME TypeOK
  PROVE  IsFiniteSet(Reserved) /\ Cardinality(Reserved) \in Nat
<1>1. Reserved \in SUBSET (Outstanding \X (1..MAXOPBLOCKS))
  BY Zenon DEF Reserved
<1>2. IsFiniteSet(Outstanding) /\ MAXOPBLOCKS \in Nat
  BY Zenon, Counting, LogAssumption
<1> QED
  BY Zenon, <1>1, <1>2, PairsCount

(* An operation that still runs has its last block left. *)
LEMMA LastLeft ==
  ASSUME LogFits, TypeOK, WroteInv, NEW p \in Outstanding
  PROVE  <<p, MAXOPBLOCKS>> \in Reserved
<1>1. p \in Proc
  BY Zenon DEF Outstanding
<1>2. IsFiniteSet(wrote[p]) /\ Cardinality(wrote[p]) <= OpBlocks
  BY Zenon, <1>1 DEF WroteInv
<1>3. Cardinality(wrote[p]) \in Nat
  BY Zenon, <1>2, FS_CardinalityType
<1>4. MAXOPBLOCKS > Cardinality(wrote[p]) /\ MAXOPBLOCKS \in 1..MAXOPBLOCKS
  BY <1>2, <1>3, LogAssumption DEF LogFits
<1> QED
  BY <1>4 DEF Reserved

(* log_write() finds room. *)
LEMMA RoomLeft ==
  ASSUME LogFits, TypeOK, LogInv, ReserveInv, mode = "run", NEW p \in Outstanding
  PROVE  ~LogFull /\ outstanding >= 1
<1>1. p \in Proc /\ WroteInv /\ Len(lh) \in Nat
  BY DEF ReserveInv, Outstanding, TypeOK
<1>2. outstanding = Cardinality(Outstanding) /\ Cardinality(Outstanding) \in Nat /\ Cardinality(Outstanding) # 0
  BY Zenon, Counting DEF LogInv, OpsInv
<1>3. IsFiniteSet(Reserved) /\ Cardinality(Reserved) \in Nat
  BY Zenon, ReservedCounts
<1>4. /\ OpBlocks \in Nat /\ MAXOPBLOCKS \in Nat /\ LOGSIZE \in Nat /\ NLOG \in Nat /\ MAXOPBLOCKS <= LOGSIZE
      /\ OpBlocks < MAXOPBLOCKS /\ LOGSIZE <= NLOG /\ OpBlocks < NLOG - 1
  BY LogAssumption DEF LogFits
<1>5. <<p, MAXOPBLOCKS>> \in Reserved
  BY Zenon, <1>1, LastLeft
<1>6. /\ IsFiniteSet(Reserved \ {<<p, MAXOPBLOCKS>>})
      /\ Cardinality(Reserved \ {<<p, MAXOPBLOCKS>>}) = Cardinality(Reserved) - 1
      /\ Cardinality(Reserved \ {<<p, MAXOPBLOCKS>>}) \in Nat
  BY Zenon, <1>3, <1>5, FS_RemoveElement, FS_CardinalityType
<1>7. Len(lh) + Cardinality(Reserved) <= LOGSIZE
  BY Zenon DEF ReserveInv, RoomInv
<1>8. CASE Outstanding = {p}
  <2>1. Len(lh) <= Cardinality(wrote[p]) \/ Len(lh) + Cardinality(Reserved) < LOGSIZE
    BY Zenon, <1>1, <1>8 DEF ReserveInv, RoomInv
  <2>2. Cardinality(wrote[p]) \in Nat /\ Cardinality(wrote[p]) <= OpBlocks
    BY Zenon, <1>1, FS_CardinalityType DEF WroteInv
  <2>3. Len(lh) < LOGSIZE /\ Len(lh) < NLOG - 1
    BY <1>1, <1>3, <1>4, <1>6, <2>1, <2>2
  <2> QED
    BY <1>1, <1>2, <1>4, <2>3 DEF LogFull
<1>9. CASE Outstanding # {p}
  <2>1. PICK q \in Outstanding : q # p
    BY Zenon, <1>9
  <2>2. <<q, MAXOPBLOCKS>> \in Reserved \ {<<p, MAXOPBLOCKS>>}
    BY Zenon, <1>1, <2>1, LastLeft
  <2>3. Cardinality(Reserved \ {<<p, MAXOPBLOCKS>>}) # 0
    BY Zenon, <1>6, <2>2, FS_EmptySet
  <2>4. Len(lh) < LOGSIZE /\ Len(lh) < NLOG - 1
    BY <1>1, <1>3, <1>4, <1>6, <1>7, <2>3
  <2> QED
    BY <1>1, <1>2, <1>4, <2>4 DEF LogFull
<1> QED
  BY Zenon, <1>8, <1>9

(* A step that leaves the operations, what they wrote and the log alone. *)
LEMMA ReserveFrame ==
  ASSUME ReserveInv, UNCHANGED <<lh, wrote>>, mode' = "run" => mode = "run",
         \A p \in Proc : pc'[p] \in {"op", "panic"} <=> pc[p] \in {"op", "panic"},
         \A p \in Proc : pc'[p] # "panic"
  PROVE  ReserveInv'
<1>1. Outstanding' = Outstanding
  BY Zenon DEF Outstanding
<1>2. Reserved' = Reserved /\ Logged' = Logged
  BY Zenon, <1>1 DEF Reserved, Logged
<1>3. \A p \in Proc : pc[p] = "op" => pc'[p] = "op"
  BY Zenon
<1>4. WroteInv'
  BY Zenon, <1>2, <1>3 DEF ReserveInv, WroteInv
<1>5. RoomInv'
  BY Zenon, <1>1, <1>2 DEF ReserveInv, RoomInv
<1> QED
  BY Zenon, <1>4, <1>5 DEF ReserveInv, NoPanic

(* A step after which no operation runs and the log is empty or cut short. *)
LEMMA ReserveIdle ==
  ASSUME TypeOK', \A p \in Proc : wrote'[p] = {} /\ pc'[p] \notin {"op", "panic"},
         mode' = "run" => Len(lh') <= LOGSIZE
  PROVE  ReserveInv'
<1>1. Outstanding' = {}
  BY Zenon DEF Outstanding
<1>2. Reserved' = {}
  BY <1>1 DEF Reserved
<1>3. IsFiniteSet({}) /\ Cardinality({}) = 0
  BY Zenon, FS_EmptySet
<1>4. Len(lh') \in Nat /\ LOGSIZE \in Nat /\ OpBlocks \in Nat
  BY LogAssumption DEF TypeOK
<1>5. 0 <= OpBlocks /\ Len(lh') + 0 = Len(lh')
  BY <1>4
<1>6. WroteInv'
  BY Zenon, <1>3, <1>5 DEF WroteInv
<1>7. RoomInv'
  BY Zenon, <1>1, <1>2, <1>3, <1>5 DEF RoomInv
<1> QED
  BY Zenon, <1>6, <1>7 DEF ReserveInv, NoPanic

LEMMA BeginKeepsRoom ==
  ASSUME LogFits, TypeOK, LogInv, ReserveInv, TypeOK', NEW p \in Proc, BeginOp(p), ~committing, ~NoRoom
  PROVE  ReserveInv'
<1>1. /\ mode = "run" /\ pc[p] \in {"out", "begin"} /\ pc' = [pc EXCEPT ![p] = "op"]
      /\ UNCHANGED <<lh, wrote, mode>>
  BY Zenon DEF BeginOp
<1>2. p \notin Outstanding /\ Outstanding' = Outstanding \cup {p} /\ Logged' = Logged
  <2>1. pc'[p] = "op" /\ \A q \in Proc : q # p => pc'[q] = pc[q]
    BY Zenon, <1>1 DEF TypeOK
  <2> QED
    BY Zenon, <1>1, <2>1 DEF Outstanding, Logged
<1>3. NoPanic' /\ WroteInv'
  BY Zenon, <1>1, <1>2 DEF ReserveInv, NoPanic, WroteInv, TypeOK
<1>4. /\ IsFiniteSet(Outstanding) /\ Cardinality(Outstanding) \in Nat /\ outstanding = Cardinality(Outstanding)
      /\ Cardinality(Outstanding \cup {p}) = Cardinality(Outstanding) + 1
      /\ Cardinality(Outstanding) = 0 <=> Outstanding = {}
  BY Zenon, <1>2, Counting DEF LogInv, OpsInv
<1>5. IsFiniteSet(Outstanding') /\ Cardinality(Outstanding') = outstanding + 1
  BY Zenon, <1>2, <1>4, FS_AddElement
<1>6. Reserved' \in SUBSET (Outstanding' \X (1..MAXOPBLOCKS)) /\ MAXOPBLOCKS \in Nat /\ LOGSIZE \in Nat
  BY Zenon, LogAssumption DEF Reserved
<1>7. Cardinality(Reserved') \in Nat /\ Cardinality(Reserved') <= (outstanding + 1) * MAXOPBLOCKS
  BY Zenon, <1>5, <1>6, PairsCount
<1>8. Len(lh) \in Nat /\ (outstanding + 1) * MAXOPBLOCKS \in Nat
  BY <1>4, <1>6 DEF TypeOK
<1>9. Len(lh) + (outstanding + 1) * MAXOPBLOCKS <= LOGSIZE
  BY <1>6, <1>8 DEF NoRoom
<1>10. Len(lh) + Cardinality(Reserved') <= LOGSIZE
  BY <1>6, <1>7, <1>8, <1>9
<1>11. ASSUME NEW q \in Proc, Outstanding' = {q} PROVE Len(lh) <= Cardinality(wrote[q])
  <2>1. Outstanding = {}
    BY Zenon, <1>2, <1>11
  <2>2. lh = <<>>
    BY Zenon, <1>1, <1>4, <2>1 DEF LogInv, OpsInv
  <2>3. Cardinality(wrote[q]) \in Nat
    BY Zenon, FS_CardinalityType DEF ReserveInv, WroteInv
  <2> QED
    BY <2>2, <2>3
<1>12. RoomInv'
  BY Zenon, <1>1, <1>10, <1>11 DEF RoomInv
<1> QED
  BY Zenon, <1>3, <1>12 DEF ReserveInv

LEMMA EndKeepsRoom ==
  ASSUME LogFits, TypeOK, LogInv, ReserveInv, TypeOK', NEW p \in Proc, EndOp(p)
  PROVE  ReserveInv'
<1>1. /\ mode = "run" /\ pc[p] = "op" /\ p \in Outstanding /\ UNCHANGED <<lh, mode>>
      /\ wrote' = [wrote EXCEPT ![p] = {}]
  BY Zenon DEF EndOp, Outstanding
<1>2. ~committing
  BY Zenon, <1>1, Counting DEF LogInv, OpsInv
<1>3. /\ pc'[p] \in {"write_log", "done", "out"}
      /\ \A q \in Proc : q # p => pc'[q] = pc[q] \/ (pc[q] = "asleep" /\ pc'[q] = "begin")
  BY Zenon, <1>2 DEF EndOp, Woken, TypeOK
<1>4. Outstanding' = Outstanding \ {p} /\ Logged' = Logged
  BY Zenon, <1>1, <1>3 DEF Outstanding, Logged
<1>5. wrote'[p] = {} /\ \A q \in Proc : q # p => wrote'[q] = wrote[q]
  BY Zenon, <1>1 DEF TypeOK
<1>6. NoPanic'
  BY Zenon, <1>3 DEF ReserveInv, NoPanic
<1>7. WroteInv'
  <2>1. IsFiniteSet({}) /\ Cardinality({}) <= OpBlocks
    <3>1. IsFiniteSet({}) /\ Cardinality({}) = 0
      BY Zenon, FS_EmptySet
    <3> QED
      BY <3>1, LogAssumption
  <2>2. \A q \in Proc : q # p /\ pc[q] = "op" => pc'[q] = "op"
    BY Zenon, <1>3
  <2> QED
    BY Zenon, <1>4, <1>5, <2>1, <2>2 DEF ReserveInv, WroteInv
<1>8. Reserved' \in SUBSET (Reserved \ {<<p, MAXOPBLOCKS>>})
  <2>1. \A q \in Outstanding' : q \in Outstanding /\ q # p /\ wrote'[q] = wrote[q]
    BY Zenon, <1>4, <1>5 DEF Outstanding
  <2> QED
    BY <2>1 DEF Reserved
<1>9. <<p, MAXOPBLOCKS>> \in Reserved /\ IsFiniteSet(Reserved) /\ Cardinality(Reserved) \in Nat
  BY Zenon, <1>1, LastLeft, ReservedCounts DEF ReserveInv
<1>10. /\ IsFiniteSet(Reserved \ {<<p, MAXOPBLOCKS>>})
       /\ Cardinality(Reserved \ {<<p, MAXOPBLOCKS>>}) = Cardinality(Reserved) - 1
  BY Zenon, <1>9, FS_RemoveElement
<1>11. Cardinality(Reserved') <= Cardinality(Reserved) - 1 /\ Cardinality(Reserved') \in Nat
  <2> DEFINE rest == Reserved \ {<<p, MAXOPBLOCKS>>}
  <2>1. IsFiniteSet(rest) /\ Cardinality(rest) = Cardinality(Reserved) - 1 /\ Reserved' \in SUBSET rest
    BY Zenon, <1>8, <1>10
  <2> HIDE DEF rest
  <2>2. IsFiniteSet(Reserved') /\ Cardinality(Reserved') <= Cardinality(rest)
    BY Zenon, <2>1, FS_Subset
  <2>3. Cardinality(Reserved') \in Nat
    BY Zenon, <2>2, FS_CardinalityType
  <2> QED
    BY Zenon, <2>1, <2>2, <2>3
<1>12. Len(lh) + Cardinality(Reserved) <= LOGSIZE /\ Len(lh) \in Nat /\ LOGSIZE \in Nat
  BY <1>1, LogAssumption DEF ReserveInv, RoomInv, TypeOK
<1>13. Len(lh) + Cardinality(Reserved') < LOGSIZE /\ Len(lh) + Cardinality(Reserved') <= LOGSIZE
  BY <1>9, <1>11, <1>12
<1>14. RoomInv'
  BY Zenon, <1>1, <1>13 DEF RoomInv
<1> QED
  BY Zenon, <1>6, <1>7, <1>14 DEF ReserveInv

LEMMA WriteKeepsRoom ==
  ASSUME LogFits, TypeOK, LogInv, ReserveInv, TypeOK', NEW p \in Proc, NEW b \in Block, NEW v \in Value,
         LogWrite(p, b, v)
  PROVE  ReserveInv'
<1>1. mode = "run" /\ p \in Outstanding /\ Cardinality(wrote[p] \cup {b}) <= OpBlocks /\ mode' = mode
  BY Zenon DEF LogWrite, Outstanding
<1>2. ~LogFull /\ ~(outstanding < 1)
  <2>1. ~LogFull /\ outstanding >= 1
    BY Zenon, <1>1, RoomLeft
  <2> QED
    BY <2>1 DEF TypeOK
<1>3. /\ pc' = pc /\ wrote' = [wrote EXCEPT ![p] = wrote[p] \cup {b}]
      /\ IF b \in Logged THEN lh' = lh ELSE lh' = Append(lh, b)
  BY Zenon, <1>2 DEF LogWrite
<1>4. wrote'[p] = wrote[p] \cup {b} /\ \A q \in Proc : q # p => wrote'[q] = wrote[q]
  BY Zenon, <1>3 DEF TypeOK
<1>5. Outstanding' = Outstanding /\ NoPanic'
  BY Zenon, <1>3 DEF Outstanding, ReserveInv, NoPanic
<1>6. Logged \cup {b} \subseteq Logged'
  <2>1. CASE b \in Logged
    BY Zenon, <1>3, <2>1 DEF Logged
  <2>2. CASE b \notin Logged
    <3>1. lh \in Seq(Block) /\ lh' = Append(lh, b)
      BY Zenon, <1>3, <2>2 DEF TypeOK
    <3>2. Len(lh') = Len(lh) + 1 /\ lh'[Len(lh) + 1] = b /\ \A i \in 1..Len(lh) : lh'[i] = lh[i] /\ i \in 1..Len(lh')
      BY <3>1
    <3>3. Len(lh) + 1 \in 1..Len(lh')
      BY <3>1, <3>2
    <3> QED
      BY Zenon, <3>2, <3>3 DEF Logged
  <2> QED
    BY Zenon, <2>1, <2>2
<1>7. /\ IsFiniteSet(wrote[p]) /\ Cardinality(wrote[p]) \in Nat /\ wrote[p] \subseteq Logged
      /\ IsFiniteSet(wrote'[p]) /\ Cardinality(wrote'[p]) \in Nat
      /\ Cardinality(wrote'[p]) = IF b \in wrote[p] THEN Cardinality(wrote[p]) ELSE Cardinality(wrote[p]) + 1
  <2>1. IsFiniteSet(wrote[p]) /\ wrote[p] \subseteq Logged
    BY Zenon DEF ReserveInv, WroteInv
  <2>2. IsFiniteSet(wrote'[p])
    BY Zenon, <1>4, <2>1, FS_AddElement
  <2>3. Cardinality(wrote[p]) \in Nat /\ Cardinality(wrote'[p]) \in Nat
    BY Zenon, <2>1, <2>2, FS_CardinalityType
  <2>4. Cardinality(wrote[p] \cup {b}) =
          IF b \in wrote[p] THEN Cardinality(wrote[p]) ELSE Cardinality(wrote[p]) + 1
    BY Zenon, <2>1, FS_AddElement
  <2> QED
    BY Zenon, <1>4, <2>1, <2>2, <2>3, <2>4
<1>8. WroteInv'
  <2>1. pc'[p] = "op"
    BY Zenon, <1>3 DEF LogWrite
  <2>2. Cardinality(wrote'[p]) <= OpBlocks /\ wrote'[p] \subseteq Logged'
    BY Zenon, <1>1, <1>4, <1>6, <1>7
  <2> QED
    BY Zenon, <1>3, <1>4, <1>6, <1>7, <2>1, <2>2 DEF ReserveInv, WroteInv
<1>9. Reserved' \subseteq Reserved
  <2>1. ASSUME NEW q \in Outstanding PROVE \A k \in Nat : k > Cardinality(wrote'[q]) => k > Cardinality(wrote[q])
    <3>1. CASE q = p
      BY <1>7, <3>1
    <3>2. CASE q # p
      BY Zenon, <1>4, <3>2 DEF Outstanding
    <3> QED
      BY Zenon, <3>1, <3>2
  <2> QED
    BY <1>5, <2>1 DEF Reserved
<1>10. IsFiniteSet(Reserved) /\ Cardinality(Reserved) \in Nat
  BY Zenon, ReservedCounts
<1>11. Cardinality(Reserved') \in Nat /\ Cardinality(Reserved') <= Cardinality(Reserved)
  BY Zenon, <1>9, <1>10, FS_Subset, FS_CardinalityType
<1>12. /\ Len(lh) \in Nat /\ LOGSIZE \in Nat /\ Len(lh) + Cardinality(Reserved) <= LOGSIZE
       /\ \A q \in Proc : Outstanding = {q} =>
            Len(lh) <= Cardinality(wrote[q]) \/ Len(lh) + Cardinality(Reserved) < LOGSIZE
  BY <1>1, LogAssumption DEF ReserveInv, RoomInv, TypeOK
<1>13. CASE b \in Logged
  <2>1. lh' = lh /\ Len(lh) + Cardinality(Reserved') <= LOGSIZE
    BY <1>3, <1>10, <1>11, <1>12, <1>13
  <2>2. ASSUME NEW q \in Proc, Outstanding' = {q}
        PROVE  Len(lh) <= Cardinality(wrote'[q]) \/ Len(lh) + Cardinality(Reserved') < LOGSIZE
    <3>1. q = p /\ (Len(lh) <= Cardinality(wrote[p]) \/ Len(lh) + Cardinality(Reserved) < LOGSIZE)
      BY Zenon, <1>1, <1>5, <1>12, <2>2
    <3> QED
      BY <1>7, <1>10, <1>11, <1>12, <3>1
  <2>3. RoomInv'
    BY Zenon, <2>1, <2>2 DEF RoomInv
  <2> QED
    BY Zenon, <1>5, <1>8, <2>3 DEF ReserveInv
<1>14. CASE b \notin Logged
  <2>1. b \notin wrote[p] /\ Cardinality(wrote'[p]) = Cardinality(wrote[p]) + 1 /\ lh' = Append(lh, b)
    BY Zenon, <1>3, <1>7, <1>14
  <2>2. Len(lh') = Len(lh) + 1
    BY <2>1 DEF TypeOK
  <2> DEFINE next == <<p, Cardinality(wrote[p]) + 1>>
  <2>3. next \in Reserved
    <3>1. Cardinality(wrote[p]) + 1 <= OpBlocks
      BY ZenonT(60), <1>1, <1>4, <2>1
    <3>2. Cardinality(wrote[p]) + 1 \in 1..MAXOPBLOCKS /\ Cardinality(wrote[p]) + 1 > Cardinality(wrote[p])
      BY <1>7, <3>1, LogAssumption, SMTT(30) DEF LogFits
    <3> QED
      BY <1>1, <3>2 DEF Reserved
  <2>4. next \notin Reserved'
    <3>1. ~(Cardinality(wrote[p]) + 1 > Cardinality(wrote'[p]))
      BY <1>7, <2>1
    <3> QED
      BY <3>1, SMTT(30) DEF Reserved
  <2>5. Reserved' \in SUBSET (Reserved \ {next})
    BY Zenon, <1>9, <2>4
  <2>6. IsFiniteSet(Reserved \ {next}) /\ Cardinality(Reserved \ {next}) = Cardinality(Reserved) - 1
    BY Zenon, <1>10, <2>3, FS_RemoveElement
  <2>7. Cardinality(Reserved') <= Cardinality(Reserved) - 1
    <3> DEFINE rest == Reserved \ {next}
    <3>1. IsFiniteSet(rest) /\ Cardinality(rest) = Cardinality(Reserved) - 1 /\ Reserved' \in SUBSET rest
      BY Zenon, <2>5, <2>6
    <3> HIDE DEF rest
    <3>2. Cardinality(Reserved') <= Cardinality(rest)
      BY Zenon, <3>1, FS_Subset
    <3> QED
      BY Zenon, <3>1, <3>2
  <2> HIDE DEF next
  <2>8. Len(lh') + Cardinality(Reserved') <= LOGSIZE
    BY <1>10, <1>11, <1>12, <2>2, <2>7, SMTT(30)
  <2>9. ASSUME NEW q \in Proc, Outstanding' = {q}
        PROVE  Len(lh') <= Cardinality(wrote'[q]) \/ Len(lh') + Cardinality(Reserved') < LOGSIZE
    <3>1. q = p /\ (Len(lh) <= Cardinality(wrote[p]) \/ Len(lh) + Cardinality(Reserved) < LOGSIZE)
      BY Zenon, <1>1, <1>5, <1>12, <2>9
    <3> QED
      BY <1>7, <1>10, <1>11, <1>12, <2>1, <2>2, <2>7, <3>1
  <2>10. RoomInv'
    BY Zenon, <2>8, <2>9 DEF RoomInv
  <2> QED
    BY Zenon, <1>5, <1>8, <2>10 DEF ReserveInv
<1> QED
  BY Zenon, <1>13, <1>14

LEMMA ReserveInductive ==
  ASSUME LogFits
  PROVE  TypeOK /\ LogInv /\ ReserveInv /\ [Next]_vars => ReserveInv'
<1> SUFFICES ASSUME TypeOK, LogInv, ReserveInv, [Next]_vars PROVE ReserveInv'
  BY Zenon
<1>0. TypeOK'
  BY Zenon, TypeInductive
<1>1. ASSUME NEW p \in Proc, BeginOp(p) PROVE ReserveInv'
  <2>1. CASE committing \/ NoRoom
    <3>1. pc[p] \in {"out", "begin"} /\ pc' = [pc EXCEPT ![p] = "asleep"] /\ UNCHANGED <<lh, wrote, mode>>
      BY Zenon, <1>1, <2>1 DEF BeginOp
    <3>2. \A q \in Proc : /\ pc'[q] \in {"op", "panic"} <=> pc[q] \in {"op", "panic"}
                          /\ pc'[q] # "panic"
      BY Zenon, <3>1 DEF TypeOK, ReserveInv, NoPanic
    <3> QED
      BY Zenon, <3>1, <3>2, ReserveFrame
  <2>2. CASE ~(committing \/ NoRoom)
    BY Zenon, <1>0, <1>1, <2>2, BeginKeepsRoom
  <2> QED
    BY Zenon, <2>1, <2>2
<1>2. ASSUME NEW p \in Proc, EndOp(p) PROVE ReserveInv'
  BY Zenon, <1>0, <1>2, EndKeepsRoom
<1>3. ASSUME NEW p \in Proc, NEW b \in Block, NEW v \in Value, LogWrite(p, b, v) PROVE ReserveInv'
  BY Zenon, <1>0, <1>3, WriteKeepsRoom
<1>4. ASSUME NEW p \in Proc, WriteLog(p) \/ WriteHead(p) \/ Install(p) \/ EndCommit(p) PROVE ReserveInv'
  <2>1. UNCHANGED <<lh, wrote, mode>>
    BY Zenon, <1>4 DEF WriteLog, WriteHead, Install, EndCommit
  <2>2. /\ pc[p] \notin {"op", "panic"} /\ pc'[p] \notin {"op", "panic"}
        /\ \A q \in Proc : q # p => pc'[q] = pc[q] \/ (pc[q] = "asleep" /\ pc'[q] = "begin")
    BY Zenon, <1>4 DEF WriteLog, WriteHead, Install, EndCommit, Woken, TypeOK
  <2>3. \A q \in Proc : /\ pc'[q] \in {"op", "panic"} <=> pc[q] \in {"op", "panic"}
                        /\ pc'[q] # "panic"
    BY Zenon, <2>2 DEF ReserveInv, NoPanic
  <2> QED
    BY Zenon, <2>1, <2>3, ReserveFrame
<1>5. ASSUME NEW p \in Proc, EraseHead(p) PROVE ReserveInv'
  <2>1. pc[p] = "install" /\ pc' = [pc EXCEPT ![p] = "done"] /\ lh' = <<>> /\ wrote' = wrote
    BY Zenon, <1>5 DEF EraseHead
  <2>2. Outstanding = {}
    BY Zenon, <2>1, Counting DEF LogInv, OpsInv, Committing
  <2>3. \A q \in Proc : wrote'[q] = {} /\ pc'[q] \notin {"op", "panic"}
    BY Zenon, <2>1, <2>2 DEF Outstanding, TypeOK, ReserveInv, WroteInv
  <2>4. Len(lh') <= LOGSIZE
    BY <2>1, LogAssumption
  <2> QED
    BY Zenon, <1>0, <2>3, <2>4, ReserveIdle
<1>6. ASSUME NEW b \in Block, ReadBlock(b) \/ Recycle(b) PROVE ReserveInv'
  BY Zenon, <1>6, ReserveFrame DEF ReadBlock, Recycle, ReserveInv, NoPanic
<1>7. CASE Crash
  BY Zenon, <1>0, <1>7, ReserveIdle DEF Crash
<1>8. CASE RecoverHead \/ RecoverErase
  <2>1. mode # "run" /\ UNCHANGED <<pc, wrote>> /\ (mode' = "run" => lh' = <<>>)
    BY Zenon, <1>8 DEF RecoverHead, RecoverErase
  <2>2. \A q \in Proc : wrote'[q] = {} /\ pc'[q] \notin {"op", "panic"}
    BY Zenon, <2>1 DEF LogInv, RecoverInv, ReserveInv, WroteInv
  <2>3. mode' = "run" => Len(lh') <= LOGSIZE
    BY <2>1, LogAssumption
  <2> QED
    BY Zenon, <1>0, <2>2, <2>3, ReserveIdle
<1>9. CASE RecoverInstall
  BY Zenon, <1>9, ReserveFrame DEF RecoverInstall, ReserveInv, NoPanic
<1>10. CASE UNCHANGED vars
  BY Zenon, <1>10, ReserveFrame DEF vars, ReserveInv, NoPanic
<1> QED
  BY Zenon, <1>1, <1>2, <1>3, <1>4, <1>5, <1>6, <1>7, <1>8, <1>9, <1>10 DEF Next, ProcStep, Recover

LEMMA ReserveInitially == Init => ReserveInv
<1> SUFFICES ASSUME Init PROVE ReserveInv
  BY Zenon
<1>1. Outstanding = {}
  BY Zenon DEF Init, Outstanding
<1>2. Reserved = {}
  BY <1>1 DEF Reserved
<1>3. IsFiniteSet({}) /\ Cardinality({}) = 0
  BY Zenon, FS_EmptySet
<1>4. Len(lh) = 0 /\ 0 <= OpBlocks /\ 0 + 0 <= LOGSIZE
  BY LogAssumption DEF Init
<1>5. NoPanic /\ WroteInv
  BY Zenon, <1>3, <1>4 DEF Init, NoPanic, WroteInv
<1>6. RoomInv
  BY Zenon, <1>1, <1>2, <1>3, <1>4 DEF RoomInv
<1> QED
  BY Zenon, <1>5, <1>6 DEF ReserveInv

(***************************************************************************)
(* begin_op()'s reservations do their work: with FS calls that write fewer *)
(* than MAXOPBLOCKS blocks and a log of LOGSIZE blocks, one of them its    *)
(* header, log_write() never finds the log full, whatever the calls write  *)
(* twice, and end_op() never runs beside a commit.                         *)
(***************************************************************************)
THEOREM LogNeverFull ==
  ASSUME LogFits
  PROVE  Spec => []ReserveInv
<1>1. TypeOK /\ LogInv /\ ReserveInv /\ [Next]_vars => ReserveInv'
  BY ReserveInductive
<1> QED
  BY <1>1, LogInvariant, ReserveInitially, PTL DEF Spec
=============================================================================
