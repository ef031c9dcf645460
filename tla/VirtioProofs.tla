---------------------------- MODULE VirtioProofs ----------------------------
(***************************************************************************)
(* Proofs about Virtio for every set of processes, every workload, every   *)
(* number of descriptors and every width of the ring indices that is a     *)
(* multiple of it.  VioCore, the parts of VioInv from which the others     *)
(* follow, is inductive; the last theorem shows that the driver and the    *)
(* device implement DiskPort.                                              *)
(***************************************************************************)
EXTENDS Virtio, Modulo

(* The indices of a ring: the distance from i to j. *)
LEMMA AheadIs ==
  ASSUME NEW i \in 0..(IDX - 1), NEW j \in 0..(IDX - 1)
  PROVE  /\ Ahead(i, j) = IF i <= j THEN j - i ELSE j + IDX - i
         /\ Ahead(i, j) \in 0..(IDX - 1) /\ (Ahead(i, j) = 0 <=> i = j)
<1>1. IDX \in Nat \ {0}  BY VirtioAssumption
<1>2. Ahead(i, j) = IF i <= j THEN j - i ELSE j + IDX - i  BY Zenon, <1>1, ModDistance DEF Ahead
<1> QED  BY <1>1, <1>2

LEMMA SuccIs ==
  ASSUME NEW i \in 0..(IDX - 1)
  PROVE  Succ(i) \in 0..(IDX - 1) /\ Succ(i) = IF i = IDX - 1 THEN 0 ELSE i + 1
<1>1. IDX \in Nat \ {0}  BY VirtioAssumption
<1>2. CASE i = IDX - 1
  <2>1. Succ(i) = i + 1 - IDX  BY <1>1, <1>2, ModOnce, i + 1 \in Nat DEF Succ
  <2> QED  BY <1>1, <1>2, <2>1
<1>3. CASE i # IDX - 1
  <2>1. i + 1 \in 0..(IDX - 1)  BY <1>1, <1>3
  <2>2. Succ(i) = i + 1  BY Zenon, <1>1, <2>1, ModSmall DEF Succ
  <2> QED  BY Zenon, <1>1, <1>3, <2>1, <2>2
<1> QED  BY Zenon, <1>2, <1>3

(* Where an index has wrapped, its place in the ring is the same. *)
LEMMA PlaceWraps ==
  ASSUME NEW x \in Nat
  PROVE  (IDX + x) % NUM = x % NUM
<1>1. NUM \in Nat \ {0} /\ IDX \in Nat /\ IDX % NUM = 0  BY VirtioAssumption
<1> QED  BY Zenon, <1>1, ModMultiple

LEMMA PlaceIn ==
  ASSUME NEW x \in Nat
  PROVE  x % NUM \in Desc
BY VirtioAssumption, ModRange DEF Desc

(* Index j is Ahead(i, j) places after i. *)
LEMMA PlaceOf ==
  ASSUME NEW i \in 0..(IDX - 1), NEW j \in 0..(IDX - 1)
  PROVE  j % NUM = (i + Ahead(i, j)) % NUM
<1>1. IDX \in Nat /\ i \in Nat /\ j \in Nat  BY VirtioAssumption
<1>2. CASE i <= j  BY <1>1, <1>2, AheadIs, i + (j - i) = j
<1>3. CASE ~(i <= j)
  <2>1. i + Ahead(i, j) = IDX + j  BY <1>1, <1>3, AheadIs
  <2> QED  BY Zenon, <1>1, <2>1, PlaceWraps
<1> QED  BY Zenon, <1>2, <1>3

(* ... and n places after Succ(i) is n + 1 places after i. *)
LEMMA PlaceNext ==
  ASSUME NEW i \in 0..(IDX - 1), NEW n \in Nat
  PROVE  (Succ(i) + n) % NUM = (i + (n + 1)) % NUM
<1>1. IDX \in Nat /\ i \in Nat  BY VirtioAssumption
<1>2. CASE i = IDX - 1
  <2>1. Succ(i) + n = n /\ i + (n + 1) = IDX + n  BY <1>1, <1>2, SuccIs
  <2> QED  BY Zenon, <2>1, PlaceWraps
<1>3. CASE i # IDX - 1
  BY <1>1, <1>3, SuccIs, (i + 1) + n = i + (n + 1)
<1> QED  BY Zenon, <1>2, <1>3

(* Fewer than NUM entries lie in different places. *)
LEMMA PlacesDiffer ==
  ASSUME NEW i \in Nat, NEW m \in Nat, NEW n \in Nat, m < NUM, n < NUM, m # n
  PROVE  (i + m) % NUM # (i + n) % NUM
<1>1. NUM \in Nat \ {0}  BY VirtioAssumption
<1>2. i + m \in Nat /\ i + n \in Nat  OBVIOUS
<1>3. CASE m < n
  <2>1. i + m < i + n /\ i + n < (i + m) + NUM  BY <1>1, <1>3
  <2> QED  BY Zenon, <1>1, <1>2, <2>1, ModDistinct
<1>4. CASE n < m
  <2>1. i + n < i + m /\ i + m < (i + n) + NUM  BY <1>1, <1>4
  <2> QED  BY Zenon, <1>1, <1>2, <2>1, ModDistinct
<1> QED  BY <1>3, <1>4

(* There is room in a ring for one more. *)
HasRoom(i, j) == Ahead(i, j) < NUM - 2
Stored(ring2, ring, j, h) == ring2 = [ring EXCEPT ![j % NUM] = h]

(* A request is put into a ring that has room ... *)
LEMMA RingPut ==
  ASSUME NEW ring \in [Desc -> Desc \cup {None}],
         NEW i \in 0..(IDX - 1), NEW j \in 0..(IDX - 1), RingOK(ring, i, j),
         HasRoom(i, j), NEW h \in Desc, h \notin Between(ring, i, j),
         NEW ring2, Stored(ring2, ring, j, h)
  PROVE  /\ ring2 \in [Desc -> Desc \cup {None}]
         /\ Between(ring2, i, Succ(j)) = Between(ring, i, j) \cup {h}
         /\ RingOK(ring2, i, Succ(j))
<1>0. NUM \in Nat /\ IDX \in Nat /\ NUM >= 3 /\ IDX >= NUM  BY Zenon, VirtioAssumption
<1>1. PICK d \in Nat : d = Ahead(i, j) /\ d < NUM - 2  BY AheadIs, <1>0 DEF HasRoom
<1>2. Succ(j) \in 0..(IDX - 1)  BY Zenon, SuccIs
<1>3. Ahead(i, Succ(j)) = d + 1
  <2>1. d + 1 < IDX  BY <1>0, <1>1
  <2>2. d = IF i <= j THEN j - i ELSE j + IDX - i  BY Zenon, <1>1, AheadIs
  <2>3. Ahead(i, Succ(j)) = IF i <= Succ(j) THEN Succ(j) - i ELSE Succ(j) + IDX - i  BY Zenon, <1>2, AheadIs
  <2>4. Succ(j) = IF j = IDX - 1 THEN 0 ELSE j + 1  BY Zenon, SuccIs
  <2> QED  BY <1>0, <2>1, <2>2, <2>3, <2>4
<1>4. j % NUM = (i + d) % NUM /\ j % NUM \in Desc  BY <1>0, <1>1, PlaceOf, PlaceIn
<1>5. \A n \in 0..(d - 1) : (i + n) % NUM \in Desc /\ (i + n) % NUM # j % NUM
  <2> SUFFICES ASSUME NEW n \in 0..(d - 1) PROVE (i + n) % NUM \in Desc /\ (i + n) % NUM # j % NUM
    BY Zenon
  <2>1. i \in Nat /\ n \in Nat /\ i + n \in Nat /\ n < NUM /\ d < NUM /\ n # d  BY <1>0, <1>1
  <2> QED  BY Zenon, <1>4, <2>1, PlaceIn, PlacesDiffer
<1>6. /\ \A n \in 0..(d - 1) : ring2[(i + n) % NUM] = ring[(i + n) % NUM]
      /\ ring2[(i + d) % NUM] = h
  BY Zenon, <1>4, <1>5 DEF Stored
<1>7. Between(ring, i, j) = {ring[(i + n) % NUM] : n \in 0..(d - 1)}  BY Zenon, <1>1 DEF Between
<1>8. Between(ring2, i, Succ(j)) = {ring2[(i + n) % NUM] : n \in 0..d}
  <2>1. (d + 1) - 1 = d  OBVIOUS
  <2> QED  BY Zenon, <1>3, <2>1 DEF Between
<1>9. \A n \in 0..d : n = d \/ n \in 0..(d - 1)  OBVIOUS
<1>10. \A n \in 0..(d - 1) : n \in 0..d  OBVIOUS
<1>11. d \in 0..d  OBVIOUS
<1>12. Between(ring2, i, Succ(j)) = Between(ring, i, j) \cup {h}
  BY Zenon, <1>6, <1>7, <1>8, <1>9, <1>10, <1>11
<1>13. \A n \in 0..(d - 1) : ring[(i + n) % NUM] # h  BY Zenon, <1>7
<1>14. RingOK(ring2, i, Succ(j))
  <2>1. d + 1 <= NUM - 2  BY <1>0, <1>1
  <2>2. \A m, n \in 0..(d - 1) : m # n => ring[(i + m) % NUM] # ring[(i + n) % NUM]  BY Zenon, <1>1 DEF RingOK
  <2>3. \A m, n \in 0..d : m # n => ring2[(i + m) % NUM] # ring2[(i + n) % NUM]
    BY Zenon, <1>6, <1>9, <1>13, <2>2
  <2>4. (d + 1) - 1 = d  OBVIOUS
  <2> QED  BY Zenon, <1>3, <2>1, <2>3, <2>4 DEF RingOK
<1> QED  BY Zenon, <1>4, <1>12, <1>14 DEF Stored

(* ... and the oldest is taken from one that is not empty. *)
LEMMA RingTake ==
  ASSUME NEW ring \in [Desc -> Desc \cup {None}],
         NEW i \in 0..(IDX - 1), NEW j \in 0..(IDX - 1), RingOK(ring, i, j), i # j,
         NEW ring2, ring2 = [ring EXCEPT ![i % NUM] = None]
  PROVE  /\ ring2 \in [Desc -> Desc \cup {None}]
         /\ ring[i % NUM] \in Between(ring, i, j)
         /\ Between(ring2, Succ(i), j) = Between(ring, i, j) \ {ring[i % NUM]}
         /\ RingOK(ring2, Succ(i), j)
<1>0. NUM \in Nat /\ IDX \in Nat /\ NUM >= 3 /\ IDX >= NUM  BY Zenon, VirtioAssumption
<1>1. PICK d \in Nat : d = Ahead(i, j) - 1  BY AheadIs, <1>0
<1>2. Succ(i) \in 0..(IDX - 1)  BY Zenon, SuccIs
<1>3. Ahead(i, j) = d + 1 /\ d + 1 <= NUM - 2
  <2>1. Ahead(i, j) \in Nat  BY <1>0, AheadIs
  <2>2. Ahead(i, j) <= NUM - 2  BY Zenon DEF RingOK
  <2> QED  BY <1>0, <1>1, <2>1, <2>2
<1>4. Ahead(Succ(i), j) = d
  <2>2. d + 1 = IF i <= j THEN j - i ELSE j + IDX - i  BY Zenon, <1>3, AheadIs
  <2>3. Ahead(Succ(i), j) = IF Succ(i) <= j THEN j - Succ(i) ELSE j + IDX - Succ(i)  BY Zenon, <1>2, AheadIs
  <2>4. Succ(i) = IF i = IDX - 1 THEN 0 ELSE i + 1  BY Zenon, SuccIs
  <2> QED  BY <1>0, <2>2, <2>3, <2>4
<1>5. i % NUM = (i + 0) % NUM /\ i % NUM \in Desc  BY <1>0, PlaceIn
<1>6. \A n \in 0..(d - 1) :
        /\ (i + (n + 1)) % NUM \in Desc /\ (i + (n + 1)) % NUM # i % NUM
        /\ (Succ(i) + n) % NUM = (i + (n + 1)) % NUM
  <2> SUFFICES ASSUME NEW n \in 0..(d - 1)
               PROVE  /\ (i + (n + 1)) % NUM \in Desc /\ (i + (n + 1)) % NUM # i % NUM
                      /\ (Succ(i) + n) % NUM = (i + (n + 1)) % NUM
    BY Zenon
  <2>1. /\ i \in Nat /\ n \in Nat /\ n + 1 \in Nat /\ 0 \in Nat /\ i + (n + 1) \in Nat
        /\ n + 1 < NUM /\ 0 < NUM /\ n + 1 # 0
    BY <1>0, <1>3
  <2>2. (i + (n + 1)) % NUM # (i + 0) % NUM  BY Zenon, <2>1, PlacesDiffer
  <2> QED  BY Zenon, <1>5, <2>1, <2>2, PlaceIn, PlaceNext
<1>7. \A n \in 0..(d - 1) : ring2[(Succ(i) + n) % NUM] = ring[(i + (n + 1)) % NUM]
  BY Zenon, <1>5, <1>6
<1>8. Between(ring, i, j) = {ring[(i + n) % NUM] : n \in 0..d}
  <2>1. (d + 1) - 1 = d  OBVIOUS
  <2> QED  BY Zenon, <1>3, <2>1 DEF Between
<1>9. Between(ring2, Succ(i), j) = {ring[(i + (n + 1)) % NUM] : n \in 0..(d - 1)}
  BY Zenon, <1>4, <1>7 DEF Between
<1>10. \A n \in 0..d : n = 0 \/ (n - 1 \in 0..(d - 1) /\ (n - 1) + 1 = n)  OBVIOUS
<1>11. \A n \in 0..(d - 1) : n + 1 \in 0..d /\ n + 1 # 0  OBVIOUS
<1>12. 0 \in 0..d  OBVIOUS
<1>13. \A m, n \in 0..d : m # n => ring[(i + m) % NUM] # ring[(i + n) % NUM]
  <2>1. (d + 1) - 1 = d  OBVIOUS
  <2> QED  BY Zenon, <1>3, <2>1 DEF RingOK
<1>14. ring[i % NUM] \in Between(ring, i, j)  BY Zenon, <1>5, <1>8, <1>12
<1>15. \A n \in 0..(d - 1) : ring[(i + (n + 1)) % NUM] # ring[i % NUM]
  BY Zenon, <1>5, <1>11, <1>12, <1>13
<1>16. Between(ring2, Succ(i), j) = Between(ring, i, j) \ {ring[i % NUM]}
  <2>1. ASSUME NEW x \in Between(ring2, Succ(i), j) PROVE x \in Between(ring, i, j) \ {ring[i % NUM]}
    <3>1. PICK n \in 0..(d - 1) : x = ring[(i + (n + 1)) % NUM]  BY Zenon, <1>9
    <3>2. n + 1 \in 0..d  BY Zenon, <1>11
    <3> QED  BY Zenon, <1>8, <1>15, <3>1, <3>2
  <2>2. ASSUME NEW x \in Between(ring, i, j), x # ring[i % NUM] PROVE x \in Between(ring2, Succ(i), j)
    <3>1. PICK n \in 0..d : x = ring[(i + n) % NUM]  BY Zenon, <1>8
    <3>2. n - 1 \in 0..(d - 1) /\ (n - 1) + 1 = n  BY Zenon, <1>5, <1>10, <2>2, <3>1
    <3>3. PICK m \in 0..(d - 1) : m + 1 = n  BY Zenon, <3>2
    <3> QED  BY Zenon, <1>9, <3>1, <3>3
  <2> QED  BY Zenon, <2>1, <2>2
<1>17. RingOK(ring2, Succ(i), j)
  <2>1. \A m, n \in 0..(d - 1) : m # n => m + 1 # n + 1  OBVIOUS
  <2>2. \A m, n \in 0..(d - 1) : m # n => ring[(i + (m + 1)) % NUM] # ring[(i + (n + 1)) % NUM]
    BY Zenon, <1>11, <1>13, <2>1
  <2>3. \A m, n \in 0..(d - 1) : m # n => ring2[(Succ(i) + m) % NUM] # ring2[(Succ(i) + n) % NUM]
    BY Zenon, <1>7, <2>2
  <2>4. d <= NUM - 2  BY <1>0, <1>3
  <2> QED  BY Zenon, <1>4, <2>3, <2>4 DEF RingOK
<1> QED  BY Zenon, <1>5, <1>14, <1>16, <1>17

(* n + 1 numbers do not go into n places: proved below, as PigeonHole. *)
Pigeons ==
  \A n \in Nat : \A f \in [0..n -> 0..(n - 1)] : \E i, j \in 0..n : i # j /\ f[i] = f[j]

(* The part of VioInv from which the rest follows. *)
VioCore == VioTypeOK /\ RequestsInv /\ PlaceInv /\ RingsInv /\ BlocksInv /\ SleepsForReason

LEMMA VioTypes ==
  ASSUME VioTypeOK
  PROVE  /\ avail.idx \in 0..(IDX - 1) /\ avail.ring \in [Desc -> Desc \cup {None}]
         /\ used.idx \in 0..(IDX - 1) /\ used.ring \in [Desc -> Desc \cup {None}]
         /\ used_idx \in 0..(IDX - 1) /\ devidx \in 0..(IDX - 1)
         /\ avail = [idx |-> avail.idx, ring |-> avail.ring]
         /\ used = [idx |-> used.idx, ring |-> used.ring]
         /\ \A d \in Desc : desc[d].next \in Desc /\ info[d].status \in {0, 255}
BY DEF VioTypeOK

(* The descriptors that free_chain() frees are those of the request. *)
LEMMA TrioIs ==
  ASSUME VioTypeOK, NEW p \in Proc, Formatted(p)
  PROVE  /\ ChainOf(chain[p]) = Trio(p)
         /\ chain[p] \in Desc /\ Second(p) \in Desc /\ Third(p) \in Desc /\ Trio(p) \subseteq Desc
<1>1. Second(p) \in Desc /\ Third(p) \in Desc /\ chain[p] \in Desc
  BY Zenon, VioTypes DEF Formatted, Second, Third
<1>2. ChainOf(chain[p]) = Trio(p)
  BY Zenon DEF ChainOf, Formatted, Second, Third, Trio
<1> QED  BY Zenon, <1>1, <1>2 DEF Trio

(* What the other parts say about descriptors and completions. *)
LEMMA CoreIsAll == VioCore => VioInv
<1> SUFFICES ASSUME VioCore PROVE VioInv  BY Zenon
<1>1. VioTypeOK /\ RequestsInv /\ PlaceInv  BY Zenon DEF VioCore
<1>2. \A p \in Proc : InRw(p) =>
        /\ ChainOf(chain[p]) = Trio(p)
        /\ \E i, j, k \in Desc : Different(i, j, k) /\ Trio(p) = {i, j, k}
  BY Zenon, <1>1, TrioIs DEF RequestsInv, Formatted, Trio, Different
<1>3. free = Desc \ UNION {ChainOf(chain[p]) : p \in {q \in Proc : InRw(q)}}
  <2>1. free \subseteq Desc  BY Zenon, <1>1 DEF VioTypeOK
  <2>2. \A d \in Desc : d \in free <=> \A p \in Proc : InRw(p) => d \notin ChainOf(chain[p])
    BY <1>1, <1>2 DEF RequestsInv
  <2> QED  BY Zenon, <2>1, <2>2
<1>4. \A p, q \in Proc : p # q /\ InRw(p) /\ InRw(q) => ChainOf(chain[p]) \cap ChainOf(chain[q]) = {}
  BY Zenon, <1>1, <1>2 DEF RequestsInv
<1>5. DescriptorsConserved
  BY Zenon, <1>2, <1>3, <1>4 DEF DescriptorsConserved
<1>6. NoLostCompletion
  <2> SUFFICES ASSUME NEW p \in Proc, InRw(p), bdisk[p]
               PROVE  \/ chain[p] \in Available \cup fetched
                      \/ chain[p] \in Used /\ (irq \/ hpc = "loop")
    BY Zenon DEF NoLostCompletion
  <2>0. chain[p] \in Desc  BY Zenon, <1>1 DEF RequestsInv, Formatted
  <2>1. info[chain[p]].status \in {0, 255}  BY Zenon, <1>1, <2>0, VioTypes
  <2> QED  BY Zenon, <1>1, <2>1 DEF PlaceInv
<1> QED  BY Zenon, <1>5, <1>6 DEF VioCore, VioInv, VioSafe

(* Steps that leave the descriptors alone. *)
LEMMA RequestsKept ==
  ASSUME VioTypeOK, RequestsInv, UNCHANGED <<chain, desc, ops, free>>,
         \A p \in Proc : InRw(p)' <=> InRw(p),
         \A p \in Proc : InRw(p) => write'[p] = write[p] /\ blockno'[p] = blockno[p],
         \A h \in Desc : info'[h].b = info[h].b
  PROVE  RequestsInv'
<1>1. \A p \in Proc : Second(p)' = Second(p) /\ Third(p)' = Third(p) /\ Trio(p)' = Trio(p)
  BY Zenon DEF Second, Third, Trio
<1>2. \A p \in Proc : InRw(p) /\ Formatted(p) => Formatted(p)'
  BY <1>1 DEF Formatted
<1> QED  BY Zenon, <1>1, <1>2 DEF RequestsInv

(* Steps that leave every request where it is. *)
LEMMA PlaceKept ==
  ASSUME PlaceInv, UNCHANGED <<chain, avail, devidx, used, used_idx, fetched, info>>,
         \A p \in Proc : InRw(p)' <=> InRw(p),
         \A p \in Proc : bdisk'[p] = bdisk[p],
         irq \/ hpc = "loop" => irq' \/ hpc' = "loop"
  PROVE  PlaceInv'
<1>1. Available' = Available /\ Used' = Used  BY Zenon DEF Available, Used, Between, Ahead
<1> QED  BY <1>1 DEF PlaceInv

LEMMA RingsKept ==
  ASSUME RingsInv, UNCHANGED <<avail, devidx, used, used_idx>>
  PROVE  RingsInv'
BY DEF RingsInv, RingOK, Ahead

(* A process goes to sleep, or is woken: nothing else changes. *)
LEMMA GoKeeps ==
  ASSUME VioCore, UNCHANGED <<bufVars, free, desc, ops, info, ringVars, write, chain, hpc, devVars>>,
         vpc' \in [Proc -> {"out", "start", "nodesc", "wait", "asleep"}],
         \A p \in Proc : InRw(p)' <=> InRw(p),
         \A p \in Proc : vpc'[p] = "out" <=> vpc[p] = "out",
         SleepsForReason'
  PROVE  VioCore'
<1> USE DEF bufVars, ringVars, devVars
<1>1. VioTypeOK /\ RequestsInv /\ PlaceInv /\ RingsInv /\ BlocksInv  BY Zenon DEF VioCore
<1>2. VioTypeOK'  BY Zenon, <1>1 DEF VioTypeOK
<1>3. RequestsInv'  BY Zenon, <1>1, RequestsKept
<1>4. PlaceInv'  BY Zenon, <1>1, PlaceKept
<1>5. RingsInv'  BY Zenon, <1>1, RingsKept
<1>6. BlocksInv'  BY Zenon, <1>1 DEF BlocksInv
<1> QED  BY Zenon, <1>2, <1>3, <1>4, <1>5, <1>6 DEF VioCore

LEMMA NoDescriptorsKeeps ==
  ASSUME VioCore, NEW p \in Proc, NoDescriptors(p)
  PROVE  VioCore'
<1>1. VioTypeOK /\ SleepsForReason  BY Zenon DEF VioCore
<1>2. /\ UNCHANGED <<bufVars, free, desc, ops, info, ringVars, write, chain, hpc, devVars>>
      /\ vpc[p] = "start" /\ ~HasThree(free)
  BY Zenon DEF NoDescriptors
<1>3. vpc' = [vpc EXCEPT ![p] = "nodesc"] \/ FreeDesc(p, "nodesc")
  BY Zenon DEF NoDescriptors
<1>4. /\ vpc' \in [Proc -> {"out", "start", "nodesc", "wait", "asleep"}]
      /\ vpc'[p] = "nodesc"
      /\ \A q \in Proc : q # p => vpc'[q] = vpc[q] \/ (vpc[q] = "nodesc" /\ vpc'[q] = "start")
  BY <1>1, <1>3 DEF VioTypeOK, FreeDesc, WakeNodesc
<1>5. \A q \in Proc : InRw(q)' <=> InRw(q)  BY Zenon, <1>2, <1>4 DEF InRw
<1>6. \A q \in Proc : vpc'[q] = "out" <=> vpc[q] = "out"  BY Zenon, <1>2, <1>4
<1>7. SleepsForReason'  BY Zenon, <1>1, <1>2, <1>4 DEF SleepsForReason, bufVars
<1> QED  BY Zenon, <1>2, <1>4, <1>5, <1>6, <1>7, GoKeeps

LEMMA WaitKeeps ==
  ASSUME VioCore, NEW p \in Proc, Wait(p) \/ KillWakes(p)
  PROVE  VioCore'
<1>1. VioTypeOK /\ SleepsForReason  BY Zenon DEF VioCore
<1>2. UNCHANGED <<bufVars, free, desc, ops, info, ringVars, write, chain, hpc, devVars>>
  BY Zenon DEF Wait, KillWakes
<1>3. /\ vpc' \in [Proc -> {"out", "start", "nodesc", "wait", "asleep"}]
      /\ \/ vpc[p] = "wait" /\ bdisk[p] /\ vpc'[p] = "asleep"
         \/ vpc[p] = "nodesc" /\ vpc'[p] = "start"
         \/ vpc[p] = "asleep" /\ vpc'[p] = "wait"
      /\ \A q \in Proc : q # p => vpc'[q] = vpc[q]
  BY <1>1 DEF VioTypeOK, Wait, KillWakes
<1>5. \A q \in Proc : InRw(q)' <=> InRw(q)  BY Zenon, <1>3 DEF InRw
<1>6. \A q \in Proc : vpc'[q] = "out" <=> vpc[q] = "out"  BY Zenon, <1>3
<1>7. SleepsForReason'  BY Zenon, <1>1, <1>2, <1>3 DEF SleepsForReason, bufVars
<1> QED  BY Zenon, <1>2, <1>3, <1>5, <1>6, <1>7, GoKeeps

LEMMA RwKeeps ==
  ASSUME VioCore, NEW p \in Proc, NEW k \in Block, NEW w \in BOOLEAN, NEW v \in Value, Rw(p, k, w, v)
  PROVE  VioCore'
<1> USE DEF ringVars, devVars
<1>1. VioTypeOK /\ RequestsInv /\ PlaceInv /\ RingsInv /\ BlocksInv /\ SleepsForReason  BY Zenon DEF VioCore
<1>2. /\ UNCHANGED <<bdisk, free, desc, ops, info, ringVars, chain, hpc, devVars>>
      /\ vpc[p] = "out" /\ \A q \in Proc : blockno[q] # k
  BY Zenon DEF Rw
<1>3. VioTypeOK'  BY Zenon, <1>1 DEF VioTypeOK, Rw
<1>4. /\ vpc'[p] = "start" /\ blockno'[p] = k
      /\ \A q \in Proc : q # p => vpc'[q] = vpc[q] /\ blockno'[q] = blockno[q] /\ write'[q] = write[q]
  BY Zenon, <1>1 DEF VioTypeOK, Rw
<1>5. \A q \in Proc : InRw(q)' <=> InRw(q)  BY Zenon, <1>2, <1>4 DEF InRw
<1>6. \A q \in Proc : InRw(q) => write'[q] = write[q] /\ blockno'[q] = blockno[q]  BY Zenon, <1>2, <1>4 DEF InRw
<1>7. RequestsInv'  BY Zenon, <1>1, <1>2, <1>5, <1>6, RequestsKept
<1>8. PlaceInv'  BY Zenon, <1>1, <1>2, <1>5, PlaceKept
<1>9. RingsInv'  BY Zenon, <1>1, <1>2, RingsKept
<1>10. BlocksInv'
  <2>1. k # None  BY Zenon, VirtioAssumption
  <2> QED  BY Zenon, <1>1, <1>2, <1>4, <2>1 DEF BlocksInv
<1>11. SleepsForReason'  BY Zenon, <1>1, <1>2, <1>4 DEF SleepsForReason
<1> QED  BY Zenon, <1>3, <1>7, <1>8, <1>9, <1>10, <1>11 DEF VioCore

LEMMA IntrKeeps ==
  ASSUME VioCore, IntrAck \/ IntrReturn
  PROVE  VioCore'
<1> USE DEF bufVars, callVars, ringVars, devVars
<1>1. VioTypeOK /\ RequestsInv /\ PlaceInv /\ RingsInv /\ BlocksInv /\ SleepsForReason  BY Zenon DEF VioCore
<1>2. UNCHANGED <<bufVars, free, desc, ops, info, ringVars, callVars, fetched, devidx, disk>>
  BY Zenon DEF IntrAck, IntrReturn
<1>3. VioTypeOK'  BY Zenon, <1>1, <1>2 DEF VioTypeOK, IntrAck, IntrReturn
<1>4. \A q \in Proc : InRw(q)' <=> InRw(q)  BY Zenon, <1>2 DEF InRw
<1>5. RequestsInv'  BY Zenon, <1>1, <1>2, <1>4, RequestsKept
<1>6. PlaceInv'
  <2>1. CASE IntrAck
    <3>1. irq \/ hpc = "loop" => irq' \/ hpc' = "loop"  BY Zenon, <2>1 DEF IntrAck
    <3> QED  BY Zenon, <1>1, <1>2, <1>4, <3>1, PlaceKept
  <2>2. CASE IntrReturn
    <3>1. used_idx = used.idx /\ used_idx \in 0..(IDX - 1)  BY Zenon, <1>1, <2>2, VioTypes DEF IntrReturn
    <3>2. Ahead(used_idx, used.idx) = 0  BY Zenon, <3>1, AheadIs
    <3>3. \A n : n \notin 0..(0 - 1)  OBVIOUS
    <3>4. Used = {}  BY Zenon, <3>2, <3>3 DEF Used, Between
    <3>5. Available' = Available /\ Used' = Used  BY Zenon, <1>2 DEF Available, Used, Between, Ahead
    <3> QED  BY <1>1, <1>2, <1>4, <3>4, <3>5 DEF PlaceInv
  <2> QED  BY Zenon, <2>1, <2>2
<1>7. RingsInv'  BY Zenon, <1>1, <1>2, RingsKept
<1>8. BlocksInv' /\ SleepsForReason'  BY Zenon, <1>1, <1>2 DEF BlocksInv, SleepsForReason
<1> QED  BY Zenon, <1>3, <1>5, <1>6, <1>7, <1>8 DEF VioCore

(* Every request has one caller, which info[] names. *)
LEMMA OwnerIs ==
  ASSUME RequestsInv, PlaceInv, NEW h \in Available \cup fetched \cup Used
  PROVE  \E p \in Proc : /\ InRw(p) /\ chain[p] = h /\ info[h].b = p /\ Formatted(p)
                         /\ \A q \in Proc : InRw(q) /\ chain[q] = h => q = p
<1>1. PICK p \in Proc : InRw(p) /\ chain[p] = h  BY Zenon DEF PlaceInv
<1>2. Formatted(p) /\ info[h].b = p  BY Zenon, <1>1 DEF RequestsInv, Formatted
<1>3. \A q \in Proc : InRw(q) /\ chain[q] = h => q = p
  <2>1. \A q \in Proc : chain[q] \in Trio(q)  BY Zenon DEF Trio
  <2>2. \A q \in Proc : q # p /\ InRw(q) => Trio(p) \cap Trio(q) = {}  BY Zenon, <1>1 DEF RequestsInv
  <2> QED  BY Zenon, <1>1, <2>1, <2>2
<1> QED  BY Zenon, <1>1, <1>2, <1>3

(* virtio_disk_intr() finds a request that the device has finished; its status is
   0, and it tells the caller. *)
LEMMA IntrOneKeeps ==
  ASSUME VioCore, IntrOne
  PROVE  VioCore'
<1> USE DEF devVars
<1>1. VioTypeOK /\ RequestsInv /\ PlaceInv /\ RingsInv /\ BlocksInv /\ SleepsForReason  BY Zenon DEF VioCore
<1>2. /\ UNCHANGED <<blockno, data, free, desc, ops, info, avail, write, chain, hpc, devVars>>
      /\ used_idx # used.idx /\ hpc = "loop" /\ used_idx' = Succ(used_idx)
  BY Zenon DEF IntrOne
<1>3. PICK ring2 : ring2 = [used.ring EXCEPT ![used_idx % NUM] = None]  BY Zenon
<1>4. used' = [idx |-> used.idx, ring |-> ring2] /\ used'.idx = used.idx /\ used'.ring = ring2
  BY Zenon, <1>1, <1>3, VioTypes DEF IntrOne
<1>5. PICK h : h = used.ring[used_idx % NUM]  BY Zenon
<1>6. /\ ring2 \in [Desc -> Desc \cup {None}]
      /\ h \in Between(used.ring, used_idx, used.idx)
      /\ Between(ring2, Succ(used_idx), used.idx) = Between(used.ring, used_idx, used.idx) \ {h}
      /\ RingOK(ring2, Succ(used_idx), used.idx)
  <2>1. /\ used.ring \in [Desc -> Desc \cup {None}] /\ used.idx \in 0..(IDX - 1)
        /\ used_idx \in 0..(IDX - 1) /\ used_idx # used.idx
    BY Zenon, <1>1, <1>2, VioTypes
  <2>2. RingOK(used.ring, used_idx, used.idx)  BY Zenon, <1>1 DEF RingsInv
  <2> QED  BY Zenon, <1>3, <1>5, <2>1, <2>2, RingTake
<1>7. h \in Used /\ Used' = Used \ {h} /\ Available' = Available
  BY Zenon, <1>2, <1>4, <1>6 DEF Used, Available, Between, Ahead
<1>8. PICK p \in Proc : /\ InRw(p) /\ chain[p] = h /\ info[h].b = p
                        /\ \A q \in Proc : InRw(q) /\ chain[q] = h => q = p
  BY <1>1, <1>7, OwnerIs
<1>9. /\ bdisk' = [bdisk EXCEPT ![p] = FALSE]
      /\ vpc' = [vpc EXCEPT ![p] = IF @ = "asleep" THEN "wait" ELSE @]
  BY Zenon, <1>5, <1>8 DEF IntrOne
<1>10. VioTypeOK'
  <2>1. Succ(used_idx) \in 0..(IDX - 1)  BY Zenon, <1>1, SuccIs, VioTypes
  <2>2. used' \in [idx : 0..(IDX - 1), ring : [Desc -> Desc \cup {None}]]  BY Zenon, <1>1, <1>4, <1>6, VioTypes
  <2> QED  BY <1>1, <1>2, <1>9, <2>1, <2>2 DEF VioTypeOK
<1>11. /\ \A q \in Proc : InRw(q)' <=> InRw(q)
       /\ \A q \in Proc : vpc'[q] = "out" <=> vpc[q] = "out"
       /\ \A q \in Proc : vpc'[q] = "nodesc" => vpc[q] = "nodesc"
       /\ \A q \in Proc : vpc'[q] = "asleep" => vpc[q] = "asleep" /\ q # p
       /\ ~bdisk'[p] /\ \A q \in Proc : q # p => bdisk'[q] = bdisk[q]
  BY <1>1, <1>9 DEF VioTypeOK, InRw
<1>12. RequestsInv'  BY Zenon, <1>1, <1>2, <1>11, RequestsKept
<1>13. PlaceInv'
  <2>1. info[h].status = 0  BY Zenon, <1>1, <1>7, <1>8 DEF PlaceInv
  <2>2. \A g \in (Available \cup fetched \cup Used)' : \E q \in Proc : (InRw(q) /\ chain[q] = g)'
    BY <1>1, <1>2, <1>7, <1>11 DEF PlaceInv
  <2>3. ASSUME NEW q \in Proc, InRw(q)
        PROVE  /\ chain'[q] \in (Available \cup fetched)' <=> info'[chain'[q]].status = 255
               /\ chain'[q] \in Used' <=> (info'[chain'[q]].status = 0 /\ bdisk'[q])
               /\ info'[chain'[q]].status = 255 => bdisk'[q]
    <3>1. CASE q = p  BY <1>1, <1>2, <1>7, <1>8, <1>11, <2>1, <3>1 DEF PlaceInv
    <3>2. CASE q # p
      <4>1. chain[q] # h  BY Zenon, <1>8, <2>3, <3>2
      <4> QED  BY <1>1, <1>2, <1>7, <1>11, <2>3, <3>2, <4>1 DEF PlaceInv
    <3> QED  BY Zenon, <3>1, <3>2
  <2>4. (Available \cap fetched)' = {}  BY Zenon, <1>1, <1>2, <1>7 DEF PlaceInv
  <2> QED  BY Zenon, <1>2, <1>11, <2>2, <2>3, <2>4 DEF PlaceInv
<1>14. RingsInv'
  <2>1. RingOK(avail.ring, devidx, avail.idx)'  BY <1>1, <1>2 DEF RingsInv, RingOK, Ahead
  <2>2. RingOK(used.ring, used_idx, used.idx)'  BY <1>2, <1>4, <1>6 DEF RingOK, Ahead
  <2> QED  BY Zenon, <2>1, <2>2 DEF RingsInv
<1>15. BlocksInv'  BY Zenon, <1>1, <1>2, <1>11 DEF BlocksInv
<1>16. SleepsForReason'  BY Zenon, <1>1, <1>2, <1>11 DEF SleepsForReason
<1> QED  BY Zenon, <1>10, <1>12, <1>13, <1>14, <1>15, <1>16 DEF VioCore

(* The device takes a request from the avail ring. *)
LEMMA DevFetchKeeps ==
  ASSUME VioCore, DevFetch
  PROVE  VioCore'
<1> USE DEF bufVars, callVars
<1>1. VioTypeOK /\ RequestsInv /\ PlaceInv /\ RingsInv /\ BlocksInv /\ SleepsForReason  BY Zenon DEF VioCore
<1>2. /\ UNCHANGED <<bufVars, free, desc, ops, info, used, used_idx, callVars, hpc, irq, disk>>
      /\ devidx # avail.idx /\ devidx' = Succ(devidx)
  BY Zenon DEF DevFetch
<1>3. PICK ring2 : ring2 = [avail.ring EXCEPT ![devidx % NUM] = None]  BY Zenon
<1>4. avail' = [idx |-> avail.idx, ring |-> ring2] /\ avail'.idx = avail.idx /\ avail'.ring = ring2
  BY Zenon, <1>1, <1>3, VioTypes DEF DevFetch
<1>5. PICK h : h = avail.ring[devidx % NUM]  BY Zenon
<1>6. /\ ring2 \in [Desc -> Desc \cup {None}]
      /\ h \in Between(avail.ring, devidx, avail.idx)
      /\ Between(ring2, Succ(devidx), avail.idx) = Between(avail.ring, devidx, avail.idx) \ {h}
      /\ RingOK(ring2, Succ(devidx), avail.idx)
  <2>1. /\ avail.ring \in [Desc -> Desc \cup {None}] /\ avail.idx \in 0..(IDX - 1)
        /\ devidx \in 0..(IDX - 1) /\ devidx # avail.idx
    BY Zenon, <1>1, <1>2, VioTypes
  <2>2. RingOK(avail.ring, devidx, avail.idx)  BY Zenon, <1>1 DEF RingsInv
  <2> QED  BY Zenon, <1>3, <1>5, <2>1, <2>2, RingTake
<1>7. /\ h \in Available /\ Available' = Available \ {h} /\ Used' = Used
      /\ fetched' = fetched \cup {h}
  <2>1. fetched' = fetched \cup {h}  BY Zenon, <1>5 DEF DevFetch
  <2> QED  BY Zenon, <1>2, <1>4, <1>6, <2>1 DEF Used, Available, Between, Ahead
<1>8. PICK p \in Proc : InRw(p) /\ chain[p] = h /\ Formatted(p)
  BY Zenon, <1>1, <1>7, OwnerIs
<1>9. VioTypeOK'
  <2>1. Succ(devidx) \in 0..(IDX - 1)  BY Zenon, <1>1, SuccIs, VioTypes
  <2>2. avail' \in [idx : 0..(IDX - 1), ring : [Desc -> Desc \cup {None}]]  BY Zenon, <1>1, <1>4, <1>6, VioTypes
  <2>3. h \in Desc  BY Zenon, <1>8 DEF Formatted
  <2> QED  BY <1>1, <1>2, <1>7, <2>1, <2>2, <2>3 DEF VioTypeOK
<1>10. \A q \in Proc : InRw(q)' <=> InRw(q)  BY Zenon, <1>2 DEF InRw
<1>11. RequestsInv'  BY Zenon, <1>1, <1>2, <1>10, RequestsKept
<1>12. PlaceInv'
  <2>1. (Available \cup fetched)' = Available \cup fetched  BY Zenon, <1>7
  <2>2. (Available \cap fetched)' = {}  BY <1>1, <1>7 DEF PlaceInv
  <2> QED  BY <1>1, <1>2, <1>7, <1>10, <2>1, <2>2 DEF PlaceInv
<1>13. RingsInv'
  <2>1. RingOK(used.ring, used_idx, used.idx)'  BY <1>1, <1>2 DEF RingsInv, RingOK, Ahead
  <2>2. RingOK(avail.ring, devidx, avail.idx)'  BY <1>2, <1>4, <1>6 DEF RingOK, Ahead
  <2> QED  BY Zenon, <2>1, <2>2 DEF RingsInv
<1>14. BlocksInv' /\ SleepsForReason'  BY Zenon, <1>1, <1>2 DEF BlocksInv, SleepsForReason
<1> QED  BY Zenon, <1>9, <1>11, <1>12, <1>13, <1>14 DEF VioCore

(* A ring in which a request is missing that is in progress has room for it. *)
LEMMA RoomForOne ==
  ASSUME Pigeons, VioTypeOK, NEW ring, NEW i \in 0..(IDX - 1), NEW j \in 0..(IDX - 1), RingOK(ring, i, j),
         NEW a \in Desc, NEW b \in Desc, NEW c \in Desc, Different(a, b, c),
         Between(ring, i, j) \subseteq Desc \ {a, b, c}
  PROVE  HasRoom(i, j)
<1> DEFINE d == Ahead(i, j)
           f == [n \in 0..NUM |-> IF n < d THEN ring[(i + n) % NUM]
                                  ELSE IF n = d THEN a ELSE IF n = d + 1 THEN b ELSE c]
<1>1. d \in Nat /\ NUM \in Nat /\ d <= NUM - 2  BY AheadIs, VirtioAssumption DEF RingOK
<1>2. \A m \in 0..(d - 1) : ring[(i + m) % NUM] \in Desc \ {a, b, c}  BY Zenon DEF Between
<1>3. \A m, n \in 0..(d - 1) : m # n => ring[(i + m) % NUM] # ring[(i + n) % NUM]  BY Zenon DEF RingOK
<1> HIDE DEF d
<1>4. SUFFICES ASSUME d = NUM - 2 PROVE FALSE  BY <1>1 DEF HasRoom, d
<1>5. \A n \in 0..NUM : f[n] \in Desc  BY <1>1, <1>2
<1>6. ASSUME NEW m \in 0..NUM, NEW n \in 0..NUM, m < n PROVE f[m] # f[n]
  <2>1. CASE n < d
    <3>1. m \in 0..(d - 1) /\ n \in 0..(d - 1) /\ m # n  BY <1>1, <1>6, <2>1
    <3>2. f[m] = ring[(i + m) % NUM] /\ f[n] = ring[(i + n) % NUM]  BY <1>1, <1>6, <2>1
    <3> QED  BY Zenon, <1>3, <3>1, <3>2
  <2>2. CASE ~(n < d) /\ m < d
    <3>1. m \in 0..(d - 1) /\ f[m] = ring[(i + m) % NUM] /\ f[n] \in {a, b, c}  BY <1>1, <2>2
    <3> QED  BY Zenon, <1>2, <3>1
  <2>3. CASE ~(n < d) /\ ~(m < d)
    <3>1. m \in {d, d + 1, NUM} /\ n \in {d, d + 1, NUM} /\ NUM = d + 2  BY <1>1, <1>4, <2>3
    <3>2. f[m] = IF m = d THEN a ELSE IF m = d + 1 THEN b ELSE c  BY Zenon, <2>3
    <3>3. f[n] = IF n = d THEN a ELSE IF n = d + 1 THEN b ELSE c  BY Zenon, <2>3
    <3> QED  BY <1>1, <1>6, <3>1, <3>2, <3>3 DEF Different
  <2> QED  BY Zenon, <2>1, <2>2, <2>3
<1>7. \A m, n \in 0..NUM : m # n => f[m] # f[n]
  <2>1. \A m, n \in 0..NUM : m # n => m < n \/ n < m  BY <1>1
  <2> QED  BY Zenon, <1>6, <2>1
<1>8. f \in [0..NUM -> 0..(NUM - 1)]  BY Zenon, <1>5 DEF Desc
<1> HIDE DEF f
<1> QED  BY Zenon, <1>1, <1>7, <1>8 DEF Pigeons

(* The request with head h, which the device has fetched, is that of p. *)
LEMMA DevDoneIs ==
  ASSUME VioCore, NEW h \in Desc, DevDone(h)
  PROVE  \E p \in Proc :
           /\ InRw(p) /\ chain[p] = h /\ Formatted(p) /\ blockno[p] \in Block
           /\ \A q \in Proc : InRw(q) /\ chain[q] = h => q = p
           /\ IF write[p] THEN disk' = [disk EXCEPT ![blockno[p]] = data[p]] /\ UNCHANGED data
                          ELSE data' = [data EXCEPT ![p] = disk[blockno[p]]] /\ UNCHANGED disk
           /\ info' = [info EXCEPT ![h].status = 0]
<1>1. VioTypeOK /\ RequestsInv /\ PlaceInv /\ BlocksInv  BY Zenon DEF VioCore
<1>2. h \in Available \cup fetched \cup Used  BY Zenon DEF DevDone
<1>3. PICK p \in Proc : /\ InRw(p) /\ chain[p] = h /\ Formatted(p)
                        /\ \A q \in Proc : InRw(q) /\ chain[q] = h => q = p
  BY Zenon, <1>1, <1>2, OwnerIs
<1>4. blockno[p] \in Block
  <2>1. vpc[p] # "out"  BY Zenon, <1>3 DEF InRw
  <2> QED  BY <1>1, <2>1 DEF BlocksInv, VioTypeOK
<1>5. /\ ops[h].write = write[p] /\ ops[h].sector = SPB * blockno[p]
      /\ desc[desc[h].next].addr = p /\ desc[desc[desc[h].next].next].addr = h
  BY <1>3 DEF Formatted, Second, Third
<1>6. (SPB * blockno[p]) \div SPB = blockno[p]
  <2>1. \A n \in Nat : (2 * n) \div 2 = n  OBVIOUS
  <2> QED  BY Zenon, <1>4, <2>1, VirtioAssumption DEF SPB
<1>7. ops[h].sector \div SPB = blockno[p]  BY Zenon, <1>5, <1>6
<1>8. IF write[p] THEN disk' = [disk EXCEPT ![blockno[p]] = data[p]] /\ UNCHANGED data
                  ELSE data' = [data EXCEPT ![p] = disk[blockno[p]]] /\ UNCHANGED disk
  BY Zenon, <1>5, <1>7 DEF DevDone
<1>9. info' = [info EXCEPT ![h].status = 0]  BY Zenon, <1>5 DEF DevDone
<1> QED  BY Zenon, <1>3, <1>4, <1>8, <1>9

LEMMA DevDoneKeeps ==
  ASSUME Pigeons, VioCore, NEW h \in Desc, DevDone(h)
  PROVE  VioCore'
<1> USE DEF callVars
<1>1. VioTypeOK /\ RequestsInv /\ PlaceInv /\ RingsInv /\ BlocksInv /\ SleepsForReason  BY Zenon DEF VioCore
<1>2. /\ UNCHANGED <<blockno, bdisk, free, desc, ops, avail, used_idx, callVars, hpc, devidx>>
      /\ h \in fetched /\ fetched' = fetched \ {h} /\ irq' = TRUE
  BY Zenon DEF DevDone
<1>3. PICK p \in Proc :
           /\ InRw(p) /\ chain[p] = h /\ Formatted(p) /\ blockno[p] \in Block
           /\ \A q \in Proc : InRw(q) /\ chain[q] = h => q = p
           /\ IF write[p] THEN disk' = [disk EXCEPT ![blockno[p]] = data[p]] /\ UNCHANGED data
                          ELSE data' = [data EXCEPT ![p] = disk[blockno[p]]] /\ UNCHANGED disk
           /\ info' = [info EXCEPT ![h].status = 0]
  BY Zenon, DevDoneIs
<1>4. info[h].status = 255 /\ h \notin Used /\ h \notin Available /\ bdisk[p]
  <2>1. info[h].status = 255 /\ bdisk[p]  BY Zenon, <1>1, <1>2, <1>3 DEF PlaceInv
  <2>2. h \notin Used  BY <1>1, <1>3, <2>1 DEF PlaceInv
  <2>3. h \notin Available  BY Zenon, <1>1, <1>2 DEF PlaceInv
  <2> QED  BY Zenon, <2>1, <2>2, <2>3
<1>5. Used \subseteq Desc \ {h, Second(p), Third(p)}
  <2> SUFFICES ASSUME NEW g \in Used PROVE g \in Desc \ {h, Second(p), Third(p)}  BY Zenon
  <2>1. PICK q \in Proc : InRw(q) /\ chain[q] = g  BY Zenon, <1>1 DEF PlaceInv
  <2>2. q # p  BY Zenon, <1>3, <1>4, <2>1
  <2>3. g \in Trio(q) /\ Trio(p) = {h, Second(p), Third(p)}  BY Zenon, <1>3, <2>1 DEF Trio
  <2>4. Trio(p) \cap Trio(q) = {} /\ g \in Desc  BY Zenon, <1>1, <1>3, <2>1, <2>2 DEF RequestsInv, Formatted
  <2> QED  BY Zenon, <2>3, <2>4
<1>6. Second(p) \in Desc /\ Third(p) \in Desc /\ h # Second(p) /\ h # Third(p) /\ Second(p) # Third(p)
  BY Zenon, <1>1, <1>3, VioTypes DEF Formatted, Second, Third
<1>7. PICK ring2 : ring2 = [used.ring EXCEPT ![used.idx % NUM] = h]  BY Zenon
<1>8. used' = [idx |-> Succ(used.idx), ring |-> ring2] /\ used'.idx = Succ(used.idx) /\ used'.ring = ring2
  BY Zenon, <1>7 DEF DevDone
<1>9. /\ ring2 \in [Desc -> Desc \cup {None}]
      /\ Between(ring2, used_idx, Succ(used.idx)) = Between(used.ring, used_idx, used.idx) \cup {h}
      /\ RingOK(ring2, used_idx, Succ(used.idx))
  <2>1. /\ used.ring \in [Desc -> Desc \cup {None}] /\ used.idx \in 0..(IDX - 1)
        /\ used_idx \in 0..(IDX - 1)
    BY Zenon, <1>1, VioTypes
  <2>2. RingOK(used.ring, used_idx, used.idx)  BY Zenon, <1>1 DEF RingsInv
  <2>3. HasRoom(used_idx, used.idx)
    <3>1. Between(used.ring, used_idx, used.idx) \subseteq Desc \ {h, Second(p), Third(p)}  BY Zenon, <1>5 DEF Used
    <3>2. Different(h, Second(p), Third(p))  BY Zenon, <1>6 DEF Different
    <3> QED  BY Zenon, <1>1, <1>6, <2>1, <2>2, <3>1, <3>2, RoomForOne
  <2>4. h \notin Between(used.ring, used_idx, used.idx)  BY Zenon, <1>4 DEF Used
  <2>5. PICK r, i, j : r = used.ring /\ i = used_idx /\ j = used.idx  BY Zenon
  <2>6. /\ r \in [Desc -> Desc \cup {None}] /\ i \in 0..(IDX - 1) /\ j \in 0..(IDX - 1)
        /\ RingOK(r, i, j) /\ HasRoom(i, j) /\ h \notin Between(r, i, j)
        /\ Stored(ring2, r, j, h)
    BY Zenon, <1>7, <2>1, <2>2, <2>3, <2>4, <2>5 DEF Stored
  <2>7. /\ ring2 \in [Desc -> Desc \cup {None}]
        /\ Between(ring2, i, Succ(j)) = Between(r, i, j) \cup {h}
        /\ RingOK(ring2, i, Succ(j))
    BY Zenon, <2>6, RingPut
  <2> QED  BY Zenon, <2>5, <2>7
<1>10. Used' = Used \cup {h} /\ Available' = Available
  BY Zenon, <1>2, <1>8, <1>9 DEF Used, Available, Between, Ahead
<1>11. /\ info' \in [Desc -> [b : Proc \cup {None}, status : {0, 255}]]
       /\ info'[h].status = 0 /\ \A g \in Desc : info'[g].b = info[g].b
       /\ \A g \in Desc : g # h => info'[g] = info[g]
  BY <1>1, <1>3 DEF VioTypeOK
<1>12. VioTypeOK'
  <2>1. Succ(used.idx) \in 0..(IDX - 1)  BY Zenon, <1>1, SuccIs, VioTypes
  <2>2. used' \in [idx : 0..(IDX - 1), ring : [Desc -> Desc \cup {None}]]  BY Zenon, <1>8, <1>9, <2>1
  <2>3. data' \in [Proc -> Value] /\ disk' \in [Block -> Value]
    <3>1. data \in [Proc -> Value] /\ disk \in [Block -> Value] /\ write[p] \in BOOLEAN
      BY Zenon, <1>1 DEF VioTypeOK
    <3>2. CASE write[p]  BY Zenon, <1>3, <3>1, <3>2
    <3>3. CASE ~write[p]  BY Zenon, <1>3, <3>1, <3>3
    <3> QED  BY Zenon, <3>2, <3>3
  <2> QED  BY <1>1, <1>2, <1>11, <2>2, <2>3 DEF VioTypeOK
<1>13. \A q \in Proc : InRw(q)' <=> InRw(q)  BY Zenon, <1>2 DEF InRw
<1>14. RequestsInv'  BY Zenon, <1>1, <1>2, <1>11, <1>13, RequestsKept
<1>15. PlaceInv'
  <2>1. \A g \in (Available \cup fetched \cup Used)' : \E q \in Proc : (InRw(q) /\ chain[q] = g)'
    BY <1>1, <1>2, <1>10, <1>13 DEF PlaceInv
  <2>2. ASSUME NEW q \in Proc, InRw(q)
        PROVE  /\ chain'[q] \in (Available \cup fetched)' <=> info'[chain'[q]].status = 255
               /\ chain'[q] \in Used' <=> (info'[chain'[q]].status = 0 /\ bdisk'[q])
               /\ info'[chain'[q]].status = 255 => bdisk'[q]
    <3>1. CASE q = p  BY <1>2, <1>3, <1>4, <1>10, <1>11, <3>1
    <3>2. CASE q # p
      <4>1. chain[q] # h /\ chain[q] \in Desc  BY Zenon, <1>1, <1>3, <2>2, <3>2 DEF RequestsInv, Formatted
      <4> QED  BY <1>1, <1>2, <1>10, <1>11, <2>2, <4>1 DEF PlaceInv
    <3> QED  BY Zenon, <3>1, <3>2
  <2>3. (Available \cap fetched)' = {}  BY <1>1, <1>2, <1>10 DEF PlaceInv
  <2> QED  BY Zenon, <1>2, <1>13, <2>1, <2>2, <2>3 DEF PlaceInv
<1>16. RingsInv'
  <2>1. RingOK(avail.ring, devidx, avail.idx)'  BY <1>1, <1>2 DEF RingsInv, RingOK, Ahead
  <2>2. RingOK(used.ring, used_idx, used.idx)'  BY <1>2, <1>8, <1>9 DEF RingOK, Ahead
  <2> QED  BY Zenon, <2>1, <2>2 DEF RingsInv
<1>17. BlocksInv' /\ SleepsForReason'  BY Zenon, <1>1, <1>2 DEF BlocksInv, SleepsForReason
<1> QED  BY Zenon, <1>12, <1>14, <1>15, <1>16, <1>17 DEF VioCore

(* The request that Start(p) makes. *)
LEMMA StartIs ==
  ASSUME VioTypeOK, NEW p \in Proc, Start(p)
  PROVE  \E i0, i1, i2 \in free :
           /\ i0 # i1 /\ i0 # i2 /\ i1 # i2
           /\ free' = free \ {i0, i1, i2}
           /\ Format(p, i0, i1, i2)
           /\ avail' = [idx |-> Succ(avail.idx), ring |-> [avail.ring EXCEPT ![avail.idx % NUM] = i0]]
           /\ chain' = [chain EXCEPT ![p] = i0]
<1>1. PICK i0, i1, i2 \in free :
        /\ Lowest(i0, free) /\ Lowest(i1, free \ {i0}) /\ Lowest(i2, free \ {i0, i1})
        /\ free' = free \ {i0, i1, i2}
        /\ Format(p, i0, i1, i2)
        /\ avail' = [idx |-> Succ(avail.idx), ring |-> [avail.ring EXCEPT ![avail.idx % NUM] = i0]]
        /\ chain' = [chain EXCEPT ![p] = i0]
  BY Zenon DEF Start
<1>2. i0 # i1 /\ i0 # i2 /\ i1 # i2  BY Zenon, <1>1 DEF Lowest
<1> QED  BY Zenon, <1>1, <1>2

LEMMA StartKeeps ==
  ASSUME Pigeons, VioCore, NEW p \in Proc, Start(p)
  PROVE  VioCore'
<1> USE DEF devVars
<1>1. VioTypeOK /\ RequestsInv /\ PlaceInv /\ RingsInv /\ BlocksInv /\ SleepsForReason  BY Zenon DEF VioCore
<1>2. /\ UNCHANGED <<blockno, data, used, used_idx, write, hpc, devVars>>
      /\ vpc[p] = "start" /\ bdisk' = [bdisk EXCEPT ![p] = TRUE] /\ vpc' = [vpc EXCEPT ![p] = "wait"]
  BY Zenon DEF Start
<1>3. PICK i0, i1, i2 \in free :
           /\ i0 # i1 /\ i0 # i2 /\ i1 # i2
           /\ free' = free \ {i0, i1, i2}
           /\ Format(p, i0, i1, i2)
           /\ avail' = [idx |-> Succ(avail.idx), ring |-> [avail.ring EXCEPT ![avail.idx % NUM] = i0]]
           /\ chain' = [chain EXCEPT ![p] = i0]
  BY Zenon, <1>1, StartIs
<1>4. i0 \in Desc /\ i1 \in Desc /\ i2 \in Desc  BY Zenon, <1>1 DEF VioTypeOK
<1>5. /\ InRw(p)' /\ ~InRw(p) /\ bdisk'[p] /\ vpc'[p] = "wait" /\ chain'[p] = i0
      /\ \A q \in Proc : q # p => vpc'[q] = vpc[q] /\ bdisk'[q] = bdisk[q] /\ chain'[q] = chain[q]
  BY <1>1, <1>2, <1>3 DEF VioTypeOK, InRw
<1>6. \A q \in Proc : q # p => (InRw(q)' <=> InRw(q))  BY Zenon, <1>5 DEF InRw
<1>7. \A q \in Proc : InRw(q) => {i0, i1, i2} \cap Trio(q) = {}  BY Zenon, <1>1, <1>3, <1>4 DEF RequestsInv
<1>8. /\ desc'[i0] = [addr |-> i0, more |-> TRUE, next |-> i1]
      /\ desc'[i1] = [addr |-> p, more |-> TRUE, next |-> i2]
      /\ desc'[i2] = [addr |-> i0, more |-> FALSE, next |-> 0]
      /\ \A d \in Desc : d \notin {i0, i1, i2} => desc'[d] = desc[d]
      /\ desc' \in [Desc -> [addr : Desc \cup Proc \cup {None}, more : BOOLEAN, next : Desc]]
  <2>1. 0 \in Desc  BY VirtioAssumption DEF Desc
  <2>2. desc \in [Desc -> [addr : Desc \cup Proc \cup {None}, more : BOOLEAN, next : Desc]]
    BY Zenon, <1>1 DEF VioTypeOK
  <2>3. desc' = [desc EXCEPT ![i0] = [addr |-> i0, more |-> TRUE, next |-> i1],
                             ![i1] = [addr |-> p, more |-> TRUE, next |-> i2],
                             ![i2] = [addr |-> i0, more |-> FALSE, next |-> 0]]
    BY Zenon, <1>3 DEF Format
  <2> QED  BY Zenon, <1>3, <1>4, <2>1, <2>2, <2>3
<1>9. /\ ops'[i0] = [write |-> write[p], sector |-> SPB * blockno[p]]
      /\ \A d \in Desc : d # i0 => ops'[d] = ops[d] /\ info'[d] = info[d]
      /\ info'[i0] = [b |-> p, status |-> 255]
      /\ info'[i0].b = p /\ info'[i0].status = 255
  BY <1>1, <1>3, <1>4 DEF Format, VioTypeOK
<1>10. blockno[p] \in Block  BY <1>1, <1>2 DEF BlocksInv, VioTypeOK
<1>11. \A q \in Proc : q # p /\ InRw(q) =>
         /\ Second(q)' = Second(q) /\ Third(q)' = Third(q) /\ Trio(q)' = Trio(q) /\ chain[q] # i0
         /\ Formatted(q)'
  <2> SUFFICES ASSUME NEW q \in Proc, q # p, InRw(q)
               PROVE  /\ Second(q)' = Second(q) /\ Third(q)' = Third(q) /\ Trio(q)' = Trio(q)
                      /\ chain[q] # i0 /\ Formatted(q)'
    BY Zenon
  <2>1. Formatted(q)  BY Zenon, <1>1 DEF RequestsInv
  <2>2. chain[q] \in Trio(q) /\ Second(q) \in Trio(q) /\ Third(q) \in Trio(q) /\ Trio(q) \subseteq Desc
    BY Zenon, <1>1, <2>1, TrioIs DEF Trio
  <2>3. \A d \in Trio(q) : desc'[d] = desc[d] /\ d # i0  BY Zenon, <1>7, <1>8, <2>2
  <2>4. chain'[q] = chain[q] /\ Second(q)' = Second(q) /\ Third(q)' = Third(q)
    BY <1>5, <2>2, <2>3 DEF Second, Third
  <2>5. Trio(q)' = Trio(q) /\ chain[q] # i0  BY Zenon, <2>2, <2>3, <2>4 DEF Trio
  <2>6. Formatted(q)'  BY <1>2, <1>9, <2>1, <2>2, <2>3, <2>4, <2>5 DEF Formatted
  <2> QED  BY Zenon, <2>4, <2>5, <2>6
<1>12. Second(p)' = i1 /\ Third(p)' = i2 /\ Trio(p)' = {i0, i1, i2} /\ Formatted(p)'
  <2>1. Second(p)' = i1 /\ Third(p)' = i2  BY <1>5, <1>8 DEF Second, Third
  <2> QED  BY <1>2, <1>3, <1>4, <1>5, <1>8, <1>9, <2>1 DEF Trio, Formatted
<1>13. RequestsInv'
  <2>1. \A q \in Proc : InRw(q)' => Formatted(q)'  BY Zenon, <1>6, <1>11, <1>12
  <2>2. ASSUME NEW q \in Proc, NEW r \in Proc, q # r, InRw(q)', InRw(r)' PROVE Trio(q)' \cap Trio(r)' = {}
    <3>1. CASE q = p  BY Zenon, <1>6, <1>7, <1>11, <1>12, <2>2, <3>1
    <3>2. CASE r = p  BY <1>6, <1>7, <1>11, <1>12, <2>2, <3>2
    <3>3. CASE q # p /\ r # p  BY Zenon, <1>1, <1>6, <1>11, <2>2, <3>3 DEF RequestsInv
    <3> QED  BY Zenon, <3>1, <3>2, <3>3
  <2>3. ASSUME NEW d \in Desc PROVE d \in free' <=> \A q \in Proc : InRw(q)' => d \notin Trio(q)'
    <3>1. d \in free <=> \A q \in Proc : InRw(q) => d \notin Trio(q)  BY Zenon, <1>1 DEF RequestsInv
    <3>2. d \in free' <=> d \in free /\ d \notin {i0, i1, i2}  BY Zenon, <1>3
    <3>3. (\A q \in Proc : InRw(q)' => d \notin Trio(q)') <=>
            (d \notin {i0, i1, i2} /\ \A q \in Proc : InRw(q) => d \notin Trio(q))
      BY Zenon, <1>5, <1>6, <1>11, <1>12
    <3> QED  BY Zenon, <3>1, <3>2, <3>3
  <2> QED  BY Zenon, <2>1, <2>2, <2>3 DEF RequestsInv
<1>14. Available \subseteq Desc \ {i0, i1, i2}
  <2> SUFFICES ASSUME NEW g \in Available PROVE g \in Desc \ {i0, i1, i2}  BY Zenon
  <2>1. PICK q \in Proc : InRw(q) /\ chain[q] = g  BY Zenon, <1>1 DEF PlaceInv
  <2>2. g \in Trio(q) /\ g \in Desc  BY Zenon, <1>1, <2>1 DEF Trio, RequestsInv, Formatted
  <2> QED  BY Zenon, <1>7, <2>1, <2>2
<1>15. PICK ring2 : ring2 = [avail.ring EXCEPT ![avail.idx % NUM] = i0]  BY Zenon
<1>16. avail' = [idx |-> Succ(avail.idx), ring |-> ring2] /\ avail'.idx = Succ(avail.idx) /\ avail'.ring = ring2
  BY Zenon, <1>3, <1>15
<1>17. /\ ring2 \in [Desc -> Desc \cup {None}]
       /\ Between(ring2, devidx, Succ(avail.idx)) = Between(avail.ring, devidx, avail.idx) \cup {i0}
       /\ RingOK(ring2, devidx, Succ(avail.idx))
  <2>1. PICK r, i, j : r = avail.ring /\ i = devidx /\ j = avail.idx  BY Zenon
  <2>2. /\ r \in [Desc -> Desc \cup {None}] /\ i \in 0..(IDX - 1) /\ j \in 0..(IDX - 1)
        /\ RingOK(r, i, j) /\ i0 \notin Between(r, i, j)
    BY Zenon, <1>1, <1>14, <2>1, VioTypes DEF RingsInv, Available
  <2>3. HasRoom(i, j)
    <3>1. Between(r, i, j) \subseteq Desc \ {i0, i1, i2}  BY Zenon, <1>14, <2>1 DEF Available
    <3>2. Different(i0, i1, i2)  BY Zenon, <1>3 DEF Different
    <3> QED  BY Zenon, <1>1, <1>4, <2>2, <3>1, <3>2, RoomForOne
  <2>4. Stored(ring2, r, j, i0)  BY Zenon, <1>15, <2>1 DEF Stored
  <2>5. /\ ring2 \in [Desc -> Desc \cup {None}]
        /\ Between(ring2, i, Succ(j)) = Between(r, i, j) \cup {i0}
        /\ RingOK(ring2, i, Succ(j))
    BY Zenon, <1>4, <2>2, <2>3, <2>4, RingPut
  <2> QED  BY Zenon, <2>1, <2>5
<1>18. Available' = Available \cup {i0} /\ Used' = Used
  BY Zenon, <1>2, <1>16, <1>17 DEF Used, Available, Between, Ahead
<1>19. i0 \notin fetched /\ i0 \notin Used
  <2>1. \A q \in Proc : InRw(q) => chain[q] # i0  BY Zenon, <1>5, <1>11
  <2> QED  BY <1>1, <2>1 DEF PlaceInv
<1>20. PlaceInv'
  <2>1. ASSUME NEW g \in (Available \cup fetched \cup Used)' PROVE \E q \in Proc : (InRw(q) /\ chain[q] = g)'
    <3>1. CASE g = i0  BY Zenon, <1>5, <3>1
    <3>2. CASE g # i0
      <4>1. PICK q \in Proc : InRw(q) /\ chain[q] = g  BY <1>1, <1>2, <1>18, <2>1, <3>2 DEF PlaceInv
      <4> QED  BY Zenon, <1>5, <1>6, <4>1
    <3> QED  BY Zenon, <3>1, <3>2
  <2>2. ASSUME NEW q \in Proc, InRw(q)'
        PROVE  /\ chain'[q] \in (Available \cup fetched)' <=> info'[chain'[q]].status = 255
               /\ chain'[q] \in Used' <=> (info'[chain'[q]].status = 0 /\ bdisk'[q])
               /\ info'[chain'[q]].status = 255 => bdisk'[q]
    <3>1. CASE q = p  BY <1>2, <1>5, <1>9, <1>18, <1>19, <3>1
    <3>2. CASE q # p
      <4>1. InRw(q) /\ chain'[q] = chain[q] /\ chain[q] # i0 /\ bdisk'[q] = bdisk[q]
        BY Zenon, <1>5, <1>6, <1>11, <2>2, <3>2
      <4>2. info'[chain[q]] = info[chain[q]]  BY Zenon, <1>1, <1>9, <4>1 DEF RequestsInv, Formatted
      <4>3. /\ chain[q] \in Available \cup fetched <=> info[chain[q]].status = 255
            /\ chain[q] \in Used <=> (info[chain[q]].status = 0 /\ bdisk[q])
            /\ info[chain[q]].status = 255 => bdisk[q]
        BY Zenon, <1>1, <4>1 DEF PlaceInv
      <4>4. /\ chain[q] \in (Available \cup fetched)' <=> chain[q] \in Available \cup fetched
            /\ chain[q] \in Used' <=> chain[q] \in Used
        BY Zenon, <1>2, <1>18, <4>1
      <4> QED  BY <4>1, <4>2, <4>3, <4>4
    <3> QED  BY Zenon, <3>1, <3>2
  <2>3. (Available \cap fetched)' = {}  BY <1>1, <1>2, <1>18, <1>19 DEF PlaceInv
  <2>4. (Used # {} => irq \/ hpc = "loop")'  BY Zenon, <1>1, <1>2, <1>18 DEF PlaceInv
  <2> QED  BY Zenon, <2>1, <2>2, <2>3, <2>4 DEF PlaceInv
<1>21. RingsInv'
  <2>1. RingOK(used.ring, used_idx, used.idx)'  BY <1>1, <1>2 DEF RingsInv, RingOK, Ahead
  <2>2. RingOK(avail.ring, devidx, avail.idx)'  BY <1>2, <1>16, <1>17 DEF RingOK, Ahead
  <2> QED  BY Zenon, <2>1, <2>2 DEF RingsInv
<1>22. VioTypeOK'
  <2>1. Succ(avail.idx) \in 0..(IDX - 1)  BY Zenon, <1>1, SuccIs, VioTypes
  <2>2. avail' \in [idx : 0..(IDX - 1), ring : [Desc -> Desc \cup {None}]]  BY Zenon, <1>16, <1>17, <2>1
  <2>3. SPB * blockno[p] \in Nat /\ write[p] \in BOOLEAN
    <3>1. \A n \in Nat : 2 * n \in Nat  OBVIOUS
    <3>2. write[p] \in BOOLEAN  BY Zenon, <1>1 DEF VioTypeOK
    <3> QED  BY Zenon, <1>10, <3>1, <3>2, VirtioAssumption DEF SPB
  <2>4. ops' \in [Desc -> [write : BOOLEAN, sector : Nat] \cup {None}]
    BY Zenon, <1>1, <1>3, <1>4, <2>3 DEF Format, VioTypeOK
  <2>5. info' \in [Desc -> [b : Proc \cup {None}, status : {0, 255}]]
    BY Zenon, <1>1, <1>3, <1>4 DEF Format, VioTypeOK
  <2>6. chain' \in [Proc -> Desc \cup {None}] /\ free' \in SUBSET Desc
    BY Zenon, <1>1, <1>3, <1>4 DEF VioTypeOK
  <2>7. vpc' \in [Proc -> {"out", "start", "nodesc", "wait", "asleep"}] /\ bdisk' \in [Proc -> BOOLEAN]
    BY Zenon, <1>1, <1>2 DEF VioTypeOK
  <2>8. /\ desc' \in [Desc -> [addr : Desc \cup Proc \cup {None}, more : BOOLEAN, next : Desc]]
        /\ {avail', used'} \subseteq [idx : 0..(IDX - 1), ring : [Desc -> Desc \cup {None}]]
    BY <1>1, <1>2, <1>8, <2>2 DEF VioTypeOK
  <2> QED  BY Zenon, <1>1, <1>2, <2>4, <2>5, <2>6, <2>7, <2>8 DEF VioTypeOK
<1>23. BlocksInv'  BY Zenon, <1>1, <1>2, <1>5 DEF BlocksInv
<1>24. SleepsForReason'
  <2>1. HasThree(free)' => HasThree(free)  BY Zenon, <1>3 DEF HasThree
  <2> QED  BY Zenon, <1>1, <1>5, <2>1 DEF SleepsForReason
<1> QED  BY Zenon, <1>13, <1>20, <1>21, <1>22, <1>23, <1>24 DEF VioCore

(* The request is done: the status is 0, and its descriptors are in no ring. *)
LEMMA FinishKeeps ==
  ASSUME VioCore, NEW p \in Proc, Finish(p)
  PROVE  VioCore'
<1> USE DEF ringVars, devVars
<1>1. VioTypeOK /\ RequestsInv /\ PlaceInv /\ RingsInv /\ BlocksInv /\ SleepsForReason  BY Zenon DEF VioCore
<1>2. /\ UNCHANGED <<data, bdisk, ringVars, write, hpc, devVars>>
      /\ vpc[p] = "wait" /\ ~bdisk[p] /\ InRw(p)
      /\ chain' = [chain EXCEPT ![p] = None] /\ blockno' = [blockno EXCEPT ![p] = None]
      /\ vpc' = [r \in Proc |-> IF r = p THEN "out" ELSE IF vpc[r] = "nodesc" THEN "start" ELSE vpc[r]]
  BY Zenon DEF Finish, Done, InRw, FreeDesc, WakeNodesc
<1>3. PICK h \in Desc : h = chain[p] /\ Formatted(p)  BY Zenon, <1>1, <1>2 DEF RequestsInv, Formatted
<1>4. ChainOf(h) = Trio(p) /\ Trio(p) \subseteq Desc /\ h \in Trio(p)  BY Zenon, <1>1, <1>3, TrioIs DEF Trio
<1>5. /\ info' = [info EXCEPT ![h] = NoInfo] /\ ops' = [ops EXCEPT ![h] = None]
      /\ free' = free \cup Trio(p)
      /\ desc' = [i \in Desc |-> IF i \in Trio(p) THEN Blank ELSE desc[i]]
  BY Zenon, <1>3, <1>4 DEF Finish
<1>6. h \notin Available \cup fetched \cup Used
  BY Zenon, <1>1, <1>2, <1>3 DEF PlaceInv
<1>7. /\ ~InRw(p)' /\ vpc'[p] = "out" /\ blockno'[p] = None
      /\ \A q \in Proc : q # p => chain'[q] = chain[q] /\ blockno'[q] = blockno[q]
      /\ \A q \in Proc : vpc'[q] # "nodesc"
      /\ \A q \in Proc : vpc'[q] = "asleep" => vpc[q] = "asleep"
      /\ \A q \in Proc : q # p => (vpc'[q] = "out" <=> vpc[q] = "out")
      /\ \A q \in Proc : q # p => (InRw(q)' <=> InRw(q))
  BY Zenon, <1>1, <1>2 DEF VioTypeOK, InRw
<1>8. \A q \in Proc : q # p /\ InRw(q) => Trio(q) \cap Trio(p) = {}  BY Zenon, <1>1, <1>2 DEF RequestsInv
<1>9. \A d \in Desc : d \notin Trio(p) => desc'[d] = desc[d] /\ ops'[d] = ops[d] /\ info'[d] = info[d]
  BY <1>1, <1>4, <1>5 DEF VioTypeOK
<1>10. \A q \in Proc : q # p /\ InRw(q) =>
         /\ Trio(q)' = Trio(q) /\ Formatted(q)' /\ info'[chain[q]] = info[chain[q]]
  <2> SUFFICES ASSUME NEW q \in Proc, q # p, InRw(q)
               PROVE  Trio(q)' = Trio(q) /\ Formatted(q)' /\ info'[chain[q]] = info[chain[q]]
    BY Zenon
  <2>1. Formatted(q)  BY Zenon, <1>1 DEF RequestsInv
  <2>2. chain[q] \in Trio(q) /\ Second(q) \in Trio(q) /\ Third(q) \in Trio(q) /\ Trio(q) \subseteq Desc
    BY Zenon, <1>1, <2>1, TrioIs DEF Trio
  <2>3. \A d \in Trio(q) : desc'[d] = desc[d] /\ ops'[d] = ops[d] /\ info'[d] = info[d]  BY Zenon, <1>8, <1>9, <2>2
  <2>4. chain'[q] = chain[q] /\ Second(q)' = Second(q) /\ Third(q)' = Third(q)
    BY <1>7, <2>2, <2>3 DEF Second, Third
  <2>5. Trio(q)' = Trio(q)  BY Zenon, <2>4 DEF Trio
  <2>6. Formatted(q)'  BY <1>2, <1>7, <2>1, <2>2, <2>3, <2>4, <2>5 DEF Formatted
  <2> QED  BY Zenon, <2>2, <2>3, <2>5, <2>6
<1>11. RequestsInv'
  <2>1. \A q \in Proc : InRw(q)' => Formatted(q)'  BY Zenon, <1>7, <1>10
  <2>2. \A q, r \in Proc : q # r /\ InRw(q)' /\ InRw(r)' => Trio(q)' \cap Trio(r)' = {}
    BY Zenon, <1>1, <1>7, <1>10 DEF RequestsInv
  <2>3. ASSUME NEW d \in Desc PROVE d \in free' <=> \A q \in Proc : InRw(q)' => d \notin Trio(q)'
    <3>1. d \in free <=> \A q \in Proc : InRw(q) => d \notin Trio(q)  BY Zenon, <1>1 DEF RequestsInv
    <3>2. d \in free' <=> d \in free \/ d \in Trio(p)  BY Zenon, <1>5
    <3>3. (\A q \in Proc : InRw(q)' => d \notin Trio(q)') <=> \A q \in Proc : q # p /\ InRw(q) => d \notin Trio(q)
      BY Zenon, <1>7, <1>10
    <3>4. d \in Trio(p) => \A q \in Proc : q # p /\ InRw(q) => d \notin Trio(q)  BY Zenon, <1>8
    <3> QED  BY Zenon, <1>2, <3>1, <3>2, <3>3, <3>4
  <2> QED  BY Zenon, <2>1, <2>2, <2>3 DEF RequestsInv
<1>12. Available' = Available /\ Used' = Used  BY Zenon, <1>2 DEF Available, Used, Between, Ahead
<1>13. PlaceInv'
  <2>1. ASSUME NEW g \in (Available \cup fetched \cup Used)' PROVE \E q \in Proc : (InRw(q) /\ chain[q] = g)'
    <3>1. PICK q \in Proc : InRw(q) /\ chain[q] = g  BY Zenon, <1>1, <1>2, <1>12, <2>1 DEF PlaceInv
    <3>2. q # p  BY Zenon, <1>2, <1>3, <1>6, <1>12, <2>1, <3>1
    <3> QED  BY Zenon, <1>7, <3>1, <3>2
  <2>2. ASSUME NEW q \in Proc, InRw(q)'
        PROVE  /\ chain'[q] \in (Available \cup fetched)' <=> info'[chain'[q]].status = 255
               /\ chain'[q] \in Used' <=> (info'[chain'[q]].status = 0 /\ bdisk'[q])
               /\ info'[chain'[q]].status = 255 => bdisk'[q]
    <3>1. InRw(q) /\ chain'[q] = chain[q] /\ info'[chain[q]] = info[chain[q]]  BY Zenon, <1>7, <1>10, <2>2
    <3>2. /\ chain[q] \in Available \cup fetched <=> info[chain[q]].status = 255
          /\ chain[q] \in Used <=> (info[chain[q]].status = 0 /\ bdisk[q])
          /\ info[chain[q]].status = 255 => bdisk[q]
      BY Zenon, <1>1, <3>1 DEF PlaceInv
    <3> QED  BY <1>2, <1>12, <3>1, <3>2
  <2>3. (Available \cap fetched)' = {} /\ (Used # {} => irq \/ hpc = "loop")'
    BY Zenon, <1>1, <1>2, <1>12 DEF PlaceInv
  <2> QED  BY Zenon, <2>1, <2>2, <2>3 DEF PlaceInv
<1>14. RingsInv'  BY Zenon, <1>1, <1>2, RingsKept
<1>15. VioTypeOK'
  <2>1. 0 \in Desc  BY VirtioAssumption DEF Desc
  <2>2. desc' \in [Desc -> [addr : Desc \cup Proc \cup {None}, more : BOOLEAN, next : Desc]]
    BY <1>1, <1>5, <2>1 DEF VioTypeOK, Blank
  <2>3. /\ ops' \in [Desc -> [write : BOOLEAN, sector : Nat] \cup {None}]
        /\ info' \in [Desc -> [b : Proc \cup {None}, status : {0, 255}]]
    BY Zenon, <1>1, <1>5 DEF VioTypeOK, NoInfo
  <2>4. /\ chain' \in [Proc -> Desc \cup {None}] /\ free' \in SUBSET Desc
        /\ blockno' \in [Proc -> Block \cup {None}]
    BY Zenon, <1>1, <1>2, <1>4, <1>5 DEF VioTypeOK
  <2>5. vpc' \in [Proc -> {"out", "start", "nodesc", "wait", "asleep"}]
    BY Zenon, <1>1, <1>2 DEF VioTypeOK
  <2> QED  BY Zenon, <1>1, <1>2, <2>2, <2>3, <2>4, <2>5 DEF VioTypeOK
<1>16. BlocksInv'  BY Zenon, <1>1, <1>7 DEF BlocksInv
<1>17. SleepsForReason'  BY Zenon, <1>1, <1>2, <1>7 DEF SleepsForReason
<1> QED  BY Zenon, <1>11, <1>13, <1>14, <1>15, <1>16, <1>17 DEF VioCore

LEMMA VioInitially == VioInit => VioCore
<1> SUFFICES ASSUME VioInit PROVE VioCore  BY Zenon
<1>0. 0 \in Desc /\ 0 \in 0..(IDX - 1) /\ 0 \in Value /\ NUM \in Nat /\ NUM >= 3
  BY VirtioAssumption DEF Desc
<1>1. VioTypeOK
  <2>1. /\ desc \in [Desc -> [addr : Desc \cup Proc \cup {None}, more : BOOLEAN, next : Desc]]
        /\ info \in [Desc -> [b : Proc \cup {None}, status : {0, 255}]]
        /\ {avail, used} \subseteq [idx : 0..(IDX - 1), ring : [Desc -> Desc \cup {None}]]
    BY <1>0 DEF VioInit, Blank, NoInfo
  <2> QED  BY Zenon, <1>0, <2>1 DEF VioInit, VioTypeOK
<1>2. \A p \in Proc : ~InRw(p) /\ vpc[p] = "out" /\ blockno[p] = None  BY Zenon DEF VioInit, InRw
<1>3. free = Desc /\ fetched = {} /\ avail.idx = 0 /\ devidx = 0 /\ used.idx = 0 /\ used_idx = 0  BY Zenon DEF VioInit
<1>4. Ahead(0, 0) = 0  BY Zenon, <1>0, AheadIs
<1>5. \A n : n \notin 0..(0 - 1)  OBVIOUS
<1>6. Available = {} /\ Used = {}  BY Zenon, <1>3, <1>4, <1>5 DEF Available, Used, Between
<1>7. RequestsInv  BY Zenon, <1>2, <1>3 DEF RequestsInv
<1>8. PlaceInv  BY Zenon, <1>2, <1>3, <1>6 DEF PlaceInv
<1>9. RingsInv
  <2>1. 0 <= NUM - 2  BY <1>0
  <2> QED  BY Zenon, <1>3, <1>4, <1>5, <2>1 DEF RingsInv, RingOK
<1>10. BlocksInv /\ SleepsForReason  BY Zenon, <1>2 DEF BlocksInv, SleepsForReason
<1> QED  BY Zenon, <1>1, <1>7, <1>8, <1>9, <1>10 DEF VioCore

LEMMA VioSteps == Pigeons /\ VioCore /\ [VioNext]_vioVars => VioCore'
<1> SUFFICES ASSUME Pigeons, VioCore, [VioNext]_vioVars PROVE VioCore'  BY Zenon
<1>1. ASSUME NEW p \in Proc, NEW c \in Load, Rw(p, c.k, c.w, c.v) PROVE VioCore'
  <2>1. c.k \in Block /\ c.w \in BOOLEAN /\ c.v \in Value  BY Zenon, VirtioAssumption
  <2> QED  BY Zenon, <1>1, <2>1, RwKeeps
<1>2. ASSUME NEW p \in Proc, NoDescriptors(p) PROVE VioCore'  BY Zenon, <1>2, NoDescriptorsKeeps
<1>3. ASSUME NEW p \in Proc, Start(p) PROVE VioCore'  BY Zenon, <1>3, StartKeeps
<1>4. ASSUME NEW p \in Proc, Wait(p) \/ KillWakes(p) PROVE VioCore'  BY Zenon, <1>4, WaitKeeps
<1>5. ASSUME NEW p \in Proc, Finish(p) PROVE VioCore'  BY Zenon, <1>5, FinishKeeps
<1>6. CASE IntrAck \/ IntrReturn  BY Zenon, <1>6, IntrKeeps
<1>7. CASE IntrOne  BY Zenon, <1>7, IntrOneKeeps
<1>8. CASE DevFetch  BY Zenon, <1>8, DevFetchKeeps
<1>9. ASSUME NEW h \in Desc, DevDone(h) PROVE VioCore'  BY Zenon, <1>9, DevDoneKeeps
<1>10. CASE UNCHANGED vioVars
  <2>1. VioTypeOK /\ SleepsForReason  BY Zenon DEF VioCore
  <2>2. UNCHANGED <<bufVars, free, desc, ops, info, ringVars, write, chain, hpc, devVars, vpc>>
    BY Zenon, <1>10 DEF vioVars, callVars
  <2>3. SleepsForReason'  BY Zenon, <2>1, <2>2 DEF SleepsForReason, bufVars
  <2> QED  BY Zenon, <2>1, <2>2, <2>3, GoKeeps DEF InRw, VioTypeOK
<1> QED  BY Zenon, <1>1, <1>2, <1>3, <1>4, <1>5, <1>6, <1>7, <1>8, <1>9, <1>10 DEF VioNext, Intr

(* A call is done when its request is in progress and the status byte is 0. *)
DoneAt(p) == InRw(p) /\ info[chain[p]].status = 0

LEMMA PortIs ==
  ASSUME NEW p \in Proc
  PROVE  /\ vpc[p] = "out" => portOf[p] = [at |-> "out"]
         /\ vpc[p] # "out" => portOf[p] = [at |-> IF DoneAt(p) THEN "done" ELSE "pending",
                                           buf |-> p, block |-> blockno[p], write |-> write[p]]
         /\ vpc[p] # "out" => portOf[p] # [at |-> "out"] /\ portOf[p].buf = p
BY Zenon DEF portOf, DoneAt

(* Steps that are none for the cache. *)
LEMMA PortStutters ==
  ASSUME UNCHANGED <<disk, data, blockno, write>>,
         \A p \in Proc : vpc'[p] = "out" <=> vpc[p] = "out",
         \A p \in Proc : DoneAt(p)' <=> DoneAt(p)
  PROVE  UNCHANGED Port!portVars
<1>1. portOf' = portOf  BY Zenon DEF portOf, DoneAt
<1> QED  BY Zenon, <1>1 DEF Port!portVars

LEMMA RwCalls ==
  ASSUME VioCore, NEW p \in Proc, NEW k \in Block, NEW w \in BOOLEAN, NEW v \in Value, Rw(p, k, w, v)
  PROVE  Port!PortNext
<1>1. VioTypeOK  BY Zenon DEF VioCore
<1>2. /\ UNCHANGED <<info, chain, disk>> /\ vpc[p] = "out" /\ data' = [data EXCEPT ![p] = v]
  BY Zenon DEF Rw, devVars
<1>3. /\ vpc'[p] = "start" /\ blockno'[p] = k /\ write'[p] = w
      /\ \A q \in Proc : q # p => vpc'[q] = vpc[q] /\ blockno'[q] = blockno[q] /\ write'[q] = write[q]
  BY <1>1 DEF VioTypeOK, Rw
<1>4. portOf[p] = [at |-> "out"] /\ \A q \in Proc : portOf[q] # [at |-> "out"] => portOf[q].buf # p
  BY Zenon, <1>2, PortIs
<1>5. ~Port!Busy(p) /\ portOf[p] = Port!Idle  BY Zenon, <1>4 DEF Port!Busy, Port!Idle
<1>6. portOf' = [portOf EXCEPT ![p] = Port!Transfer(p, k, w, "pending")]
  <2>1. portOf'[p] = Port!Transfer(p, k, w, "pending")  BY Zenon, <1>3 DEF portOf, InRw, Port!Transfer
  <2>2. \A q \in Proc : q # p => portOf'[q] = portOf[q]  BY Zenon, <1>2, <1>3 DEF portOf, InRw
  <2> QED  BY Zenon, <2>1, <2>2 DEF portOf
<1>7. Port!PortCall(p, p, k, w)  BY Zenon, <1>5, <1>6 DEF Port!PortCall
<1>8. Port!PortStore(p, v)  BY Zenon, <1>2, <1>5 DEF Port!PortStore
<1> QED  BY Zenon, <1>2, <1>7, <1>8 DEF Port!PortNext

LEMMA DoneTransfers ==
  ASSUME VioCore, NEW h \in Desc, DevDone(h)
  PROVE  Port!PortNext
<1>1. VioTypeOK /\ PlaceInv /\ RequestsInv  BY Zenon DEF VioCore
<1>2. UNCHANGED <<blockno, chain, vpc, write>> /\ h \in fetched  BY Zenon DEF DevDone, callVars
<1>3. PICK p \in Proc :
           /\ InRw(p) /\ chain[p] = h
           /\ \A q \in Proc : InRw(q) /\ chain[q] = h => q = p
           /\ IF write[p] THEN disk' = [disk EXCEPT ![blockno[p]] = data[p]] /\ UNCHANGED data
                          ELSE data' = [data EXCEPT ![p] = disk[blockno[p]]] /\ UNCHANGED disk
           /\ info' = [info EXCEPT ![h].status = 0]
  BY Zenon, DevDoneIs
<1>4. info[h].status = 255  BY Zenon, <1>1, <1>2, <1>3 DEF PlaceInv
<1>5. info'[h].status = 0 /\ \A g \in Desc : g # h => info'[g] = info[g]  BY <1>1, <1>3 DEF VioTypeOK
<1>6. vpc[p] # "out"  BY Zenon, <1>3 DEF InRw
<1>7. ~DoneAt(p) /\ DoneAt(p)'  BY <1>2, <1>3, <1>4, <1>5 DEF DoneAt, InRw
<1>8. \A q \in Proc : q # p => (DoneAt(q)' <=> DoneAt(q))
  <2> SUFFICES ASSUME NEW q \in Proc, q # p, InRw(q) PROVE DoneAt(q)' <=> DoneAt(q)
    BY Zenon, <1>2 DEF DoneAt, InRw
  <2>1. chain[q] \in Desc /\ chain[q] # h  BY Zenon, <1>1, <1>3 DEF RequestsInv, Formatted
  <2> QED  BY Zenon, <1>2, <1>5, <2>1 DEF DoneAt, InRw
<1>9. portOf[p] = [at |-> "pending", buf |-> p, block |-> blockno[p], write |-> write[p]]
  BY Zenon, <1>6, <1>7, PortIs
<1>10. portOf' = [portOf EXCEPT ![p].at = "done"]
  <2>1. portOf'[p] = [at |-> "done", buf |-> p, block |-> blockno[p], write |-> write[p]]
    BY Zenon, <1>2, <1>6, <1>7 DEF portOf, DoneAt
  <2>2. \A q \in Proc : q # p => portOf'[q] = portOf[q]  BY Zenon, <1>2, <1>8 DEF portOf, DoneAt
  <2>3. [portOf[p] EXCEPT !.at = "done"] = [at |-> "done", buf |-> p, block |-> blockno[p], write |-> write[p]]
    BY <1>9
  <2>4. portOf = [q \in Proc |-> portOf[q]]  BY Zenon DEF portOf
  <2>5. portOf' = [q \in Proc |-> portOf'[q]]  BY Zenon DEF portOf
  <2>6. portOf' = [portOf EXCEPT ![p] = [portOf[p] EXCEPT !.at = "done"]]  BY Zenon, <2>1, <2>2, <2>3, <2>4, <2>5
  <2> QED  BY Zenon, <2>6
<1>11. Port!PortTransfer(p)
  <2>1. portOf[p].at = "pending" /\ portOf[p].buf = p /\ portOf[p].block = blockno[p] /\ portOf[p].write = write[p]
    BY <1>9
  <2> QED  BY Zenon, <1>3, <1>10, <2>1 DEF Port!PortTransfer
<1> QED  BY Zenon, <1>11 DEF Port!PortNext

LEMMA FinishReturns ==
  ASSUME VioCore, NEW p \in Proc, Finish(p)
  PROVE  Port!PortNext
<1>1. VioTypeOK /\ PlaceInv /\ RequestsInv  BY Zenon DEF VioCore
<1>2. /\ UNCHANGED <<data, write, disk>> /\ vpc[p] = "wait" /\ ~bdisk[p] /\ InRw(p)
      /\ chain' = [chain EXCEPT ![p] = None] /\ blockno' = [blockno EXCEPT ![p] = None]
      /\ vpc' = [r \in Proc |-> IF r = p THEN "out" ELSE IF vpc[r] = "nodesc" THEN "start" ELSE vpc[r]]
      /\ info' = [info EXCEPT ![chain[p]] = NoInfo]
  BY Zenon DEF Finish, Done, InRw, FreeDesc, WakeNodesc, devVars
<1>3. chain[p] \in Desc /\ info[chain[p]].status \in {0, 255}
  <2>1. chain[p] \in Desc  BY Zenon, <1>1, <1>2 DEF RequestsInv, Formatted
  <2> QED  BY Zenon, <1>1, <2>1, VioTypes
<1>4. DoneAt(p)
  <2>1. info[chain[p]].status # 255  BY Zenon, <1>1, <1>2 DEF PlaceInv
  <2> QED  BY Zenon, <1>2, <1>3, <2>1 DEF DoneAt
<1>5. portOf[p].at = "done"
  <2>1. vpc[p] # "out"  BY Zenon, <1>2
  <2>2. portOf[p] = [at |-> "done", buf |-> p, block |-> blockno[p], write |-> write[p]]
    BY Zenon, <1>4, <2>1, PortIs
  <2> QED  BY <2>2
<1>6. \A q \in Proc : q # p =>
        /\ chain'[q] = chain[q] /\ blockno'[q] = blockno[q]
        /\ (vpc'[q] = "out" <=> vpc[q] = "out") /\ (InRw(q)' <=> InRw(q))
  BY Zenon, <1>1, <1>2 DEF VioTypeOK, InRw
<1>7. \A q \in Proc : q # p => (DoneAt(q)' <=> DoneAt(q))
  <2> SUFFICES ASSUME NEW q \in Proc, q # p, InRw(q) PROVE DoneAt(q)' <=> DoneAt(q)
    BY Zenon, <1>6 DEF DoneAt
  <2>1. Trio(p) \cap Trio(q) = {} /\ chain[q] \in Desc  BY Zenon, <1>1, <1>2 DEF RequestsInv, Formatted
  <2>2. chain[q] # chain[p]  BY Zenon, <2>1 DEF Trio
  <2>3. info'[chain[q]] = info[chain[q]]  BY <1>1, <1>2, <1>3, <2>1, <2>2 DEF VioTypeOK
  <2> QED  BY Zenon, <1>6, <2>3 DEF DoneAt
<1>8. portOf' = [portOf EXCEPT ![p] = Port!Idle]
  <2>1. portOf'[p] = Port!Idle  BY Zenon, <1>2 DEF portOf, Port!Idle
  <2>2. \A q \in Proc : q # p => portOf'[q] = portOf[q]  BY Zenon, <1>2, <1>6, <1>7 DEF portOf, DoneAt
  <2>3. portOf = [q \in Proc |-> portOf[q]]  BY Zenon DEF portOf
  <2>4. portOf' = [q \in Proc |-> portOf'[q]]  BY Zenon DEF portOf
  <2> QED  BY Zenon, <2>1, <2>2, <2>3, <2>4
<1>9. Port!PortReturn(p)  BY Zenon, <1>5, <1>8 DEF Port!PortReturn
<1> QED  BY Zenon, <1>2, <1>9 DEF Port!PortNext

(* The steps that the cache does not see. *)
LEMMA QuietPort ==
  ASSUME VioCore,
         \/ \E p \in Proc : NoDescriptors(p) \/ Start(p) \/ Wait(p) \/ KillWakes(p)
         \/ Intr \/ DevFetch \/ UNCHANGED vioVars
  PROVE  UNCHANGED Port!portVars
<1> USE DEF bufVars, callVars, ringVars, devVars
<1>1. VioTypeOK /\ PlaceInv /\ RequestsInv  BY Zenon DEF VioCore
<1>2. ASSUME NEW p \in Proc, NoDescriptors(p) PROVE UNCHANGED Port!portVars
  <2>1. UNCHANGED <<disk, data, blockno, write, chain, info>> /\ vpc[p] = "start"  BY Zenon, <1>2 DEF NoDescriptors
  <2>2. vpc' = [vpc EXCEPT ![p] = "nodesc"] \/ FreeDesc(p, "nodesc")  BY Zenon, <1>2 DEF NoDescriptors
  <2>3. \A q \in Proc : (vpc'[q] = "out" <=> vpc[q] = "out") /\ (InRw(q)' <=> InRw(q))
    BY <1>1, <2>1, <2>2 DEF VioTypeOK, FreeDesc, WakeNodesc, InRw
  <2> QED  BY Zenon, <2>1, <2>3, PortStutters DEF DoneAt
<1>3. ASSUME NEW p \in Proc, Wait(p) \/ KillWakes(p) PROVE UNCHANGED Port!portVars
  <2>1. UNCHANGED <<disk, data, blockno, write, chain, info>>  BY Zenon, <1>3 DEF Wait, KillWakes
  <2>2. \A q \in Proc : (vpc'[q] = "out" <=> vpc[q] = "out") /\ (InRw(q)' <=> InRw(q))
    BY <1>1, <1>3 DEF VioTypeOK, Wait, KillWakes, InRw
  <2> QED  BY Zenon, <2>1, <2>2, PortStutters DEF DoneAt
<1>4. ASSUME NEW p \in Proc, Start(p) PROVE UNCHANGED Port!portVars
  <2>1. /\ UNCHANGED <<disk, data, blockno, write>> /\ vpc[p] = "start" /\ vpc' = [vpc EXCEPT ![p] = "wait"]
    BY Zenon, <1>4 DEF Start
  <2>2. PICK i0 \in free : /\ \E i1, i2 \in free : Format(p, i0, i1, i2)
                           /\ chain' = [chain EXCEPT ![p] = i0]
    BY Zenon, <1>1, <1>4, StartIs
  <2>3. info' = [info EXCEPT ![i0] = [b |-> p, status |-> 255]] /\ i0 \in Desc
    BY Zenon, <1>1, <2>2 DEF Format, VioTypeOK
  <2>4. \A q \in Proc : q # p => vpc'[q] = vpc[q] /\ chain'[q] = chain[q] /\ (InRw(q)' <=> InRw(q))
    BY <1>1, <2>1, <2>2 DEF VioTypeOK, InRw
  <2>5. ~DoneAt(p) /\ ~DoneAt(p)' /\ vpc'[p] # "out" /\ vpc[p] # "out"
    BY <1>1, <2>1, <2>2, <2>3 DEF VioTypeOK, InRw, DoneAt
  <2>6. \A q \in Proc : q # p => (DoneAt(q)' <=> DoneAt(q))
    <3> SUFFICES ASSUME NEW q \in Proc, q # p, InRw(q) PROVE DoneAt(q)' <=> DoneAt(q)
      BY Zenon, <2>4 DEF DoneAt
    <3>1. chain[q] \in Desc  BY Zenon, <1>1 DEF RequestsInv, Formatted
    <3>2. chain[q] # i0  BY Zenon, <1>1, <2>2, <2>3 DEF RequestsInv, Trio
    <3>3. info'[chain[q]] = info[chain[q]]  BY Zenon, <1>1, <2>3, <3>1, <3>2 DEF VioTypeOK
    <3> QED  BY Zenon, <2>4, <3>3 DEF DoneAt
  <2>7. \A q \in Proc : DoneAt(q)' <=> DoneAt(q)  BY Zenon, <2>5, <2>6
  <2>8. \A q \in Proc : vpc'[q] = "out" <=> vpc[q] = "out"  BY Zenon, <2>4, <2>5
  <2> QED  BY Zenon, <2>1, <2>7, <2>8, PortStutters
<1>5. CASE IntrAck \/ IntrReturn \/ DevFetch \/ UNCHANGED vioVars
  <2>1. UNCHANGED <<disk, data, blockno, write, chain, info, vpc>>
    BY Zenon, <1>5 DEF IntrAck, IntrReturn, DevFetch, vioVars
  <2> QED  BY Zenon, <2>1, PortStutters DEF DoneAt, InRw
<1>6. CASE IntrOne
  <2>1. UNCHANGED <<disk, data, blockno, write, chain, info>>  BY Zenon, <1>6 DEF IntrOne
  <2>2. PICK p : vpc' = [vpc EXCEPT ![p] = IF @ = "asleep" THEN "wait" ELSE @]
    BY Zenon, <1>6 DEF IntrOne
  <2>3. \A q \in Proc : (vpc'[q] = "out" <=> vpc[q] = "out") /\ (InRw(q)' <=> InRw(q))
    BY <1>1, <2>2 DEF VioTypeOK, InRw
  <2> QED  BY Zenon, <2>1, <2>3, PortStutters DEF DoneAt
<1> QED  BY Zenon, <1>2, <1>3, <1>4, <1>5, <1>6 DEF Intr

LEMMA PortInitially == VioInit => Port!PortInit
<1> SUFFICES ASSUME VioInit PROVE Port!PortInit  BY Zenon
<1>1. disk \in [Block -> Value] /\ data \in [Proc -> Value]  BY Zenon, VirtioAssumption DEF VioInit
<1>2. portOf = [p \in Proc |-> Port!Idle]  BY Zenon DEF VioInit, portOf, Port!Idle
<1> QED  BY Zenon, <1>1, <1>2 DEF Port!PortInit

(* Every step is one of the port, or none. *)
LEMMA PortSteps == VioCore /\ [VioNext]_vioVars => [Port!PortNext]_Port!portVars
<1> SUFFICES ASSUME VioCore, [VioNext]_vioVars PROVE [Port!PortNext]_Port!portVars  BY Zenon
<1>1. ASSUME NEW p \in Proc, NEW c \in Load, Rw(p, c.k, c.w, c.v) PROVE Port!PortNext
  <2>1. c.k \in Block /\ c.w \in BOOLEAN /\ c.v \in Value  BY Zenon, VirtioAssumption
  <2> QED  BY Zenon, <1>1, <2>1, RwCalls
<1>2. ASSUME NEW h \in Desc, DevDone(h) PROVE Port!PortNext  BY Zenon, <1>2, DoneTransfers
<1>3. ASSUME NEW p \in Proc, Finish(p) PROVE Port!PortNext  BY Zenon, <1>3, FinishReturns
<1>4. ASSUME \/ \E p \in Proc : NoDescriptors(p) \/ Start(p) \/ Wait(p) \/ KillWakes(p)
             \/ Intr \/ DevFetch \/ UNCHANGED vioVars
      PROVE  UNCHANGED Port!portVars
  BY Zenon, <1>4, QuietPort
<1> QED  BY Zenon, <1>1, <1>2, <1>3, <1>4 DEF VioNext

-----------------------------------------------------------------------------
LOCAL INSTANCE FiniteSetTheorems

LEMMA PigeonHole == Pigeons
<1> SUFFICES ASSUME NEW n \in Nat, NEW f \in [0..n -> 0..(n - 1)]
             PROVE  \E i, j \in 0..n : i # j /\ f[i] = f[j]
  BY Zenon DEF Pigeons
<1>1. IsFiniteSet(0..n) /\ Cardinality(0..n) = n + 1
  <2>1. IsFiniteSet(0..n) /\ Cardinality(0..n) = IF 0 > n THEN 0 ELSE n - 0 + 1  BY FS_Interval
  <2> QED  BY <2>1
<1>2. IsFiniteSet(0..(n - 1)) /\ Cardinality(0..(n - 1)) = n
  <2>1. IsFiniteSet(0..(n - 1)) /\ Cardinality(0..(n - 1)) = IF 0 > n - 1 THEN 0 ELSE (n - 1) - 0 + 1
    BY FS_Interval, n - 1 \in Int
  <2> QED  BY <2>1
<1>3. PICK S, T : S = 0..n /\ T = 0..(n - 1)  BY Zenon
<1>4. IsFiniteSet(S) /\ IsFiniteSet(T) /\ Cardinality(T) < Cardinality(S) /\ f \in [S -> T]
  BY <1>1, <1>2, <1>3
<1>5. \E i, j \in S : i # j /\ f[i] = f[j]  BY Zenon, <1>4, FS_PigeonHole
<1> QED  BY Zenon, <1>3, <1>5

(***************************************************************************)
(* virtio_disk_rw() and virtio_disk_intr(), with a device that finishes    *)
(* requests in any order and ring indices that wrap: VioInv holds in every *)
(* reachable state.                                                        *)
(***************************************************************************)
THEOREM VioInvariant == VioSpec => []VioInv
<1>1. VioCore /\ [VioNext]_vioVars => VioCore'  BY VioSteps, PigeonHole
<1> QED  BY <1>1, VioInitially, CoreIsAll, PTL DEF VioSpec

(***************************************************************************)
(* No descriptor is lost or freed twice, no completion and no wakeup is    *)
(* missed.                                                                 *)
(***************************************************************************)
THEOREM VioIsSafe == VioSpec => []VioSafe
<1>1. VioInv => VioSafe  BY DEF VioInv
<1> QED  BY <1>1, VioInvariant, PTL

(***************************************************************************)
(* The driver and the device do what bio.c expects of virtio_disk_rw():    *)
(* one transfer per call, of the right block and buffer, between the call  *)
(* and the return.                                                         *)
(***************************************************************************)
THEOREM PortImplemented == VioSpec => ImplementsPort
<1>1. VioCore /\ [VioNext]_vioVars => VioCore'  BY VioSteps, PigeonHole
<1> QED  BY <1>1, VioInitially, PortInitially, PortSteps, PTL DEF VioSpec, ImplementsPort, Port!PortSpec
=============================================================================
