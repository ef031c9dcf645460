---------------------------- MODULE CacheProofs ----------------------------
(***************************************************************************)
(* The buffer cache of bio.c: CacheInv is an invariant, for any number of  *)
(* buffers, blocks and processes, with any number of buffers for each of   *)
(* them, and any disk that does what virtio_disk_rw() promises.  One lemma *)
(* per action; the theorems are at the end.                                *)
(***************************************************************************)
EXTENDS Bcache, FiniteSetTheorems, TLAPS

(* The part of CacheInv from which the rest follows. *)
CacheCore ==
  /\ BcTypeOK /\ OneBufferPerBlock /\ BuffersSuffice
  /\ UsersInv /\ CallsInv /\ PinsInv /\ ContentsInv

-----------------------------------------------------------------------------
(* The references of users are counted by a natural number. *)
LEMMA UserCount ==
  ASSUME NEW b
  PROVE  /\ IsFiniteSet(Users(b)) /\ Cardinality(Users(b)) \in Nat
         /\ Cardinality(User) \in Nat /\ Cardinality(Users(b)) <= Cardinality(User)
         /\ Cardinality(Users(b)) = 0 <=> Users(b) = {}
<1>1. Users(b) \in SUBSET User  BY Zenon DEF Users
<1>2. IsFiniteSet(User)  BY Zenon, BuffersAssumption
<1>3. IsFiniteSet(Users(b)) /\ Cardinality(Users(b)) <= Cardinality(User)
  BY Zenon, <1>1, <1>2, FS_Subset
<1>4. Cardinality(Users(b)) \in Nat /\ Cardinality(User) \in Nat
  BY Zenon, <1>2, <1>3, FS_CardinalityType
<1>5. Cardinality(Users(b)) = 0 <=> Users(b) = {}  BY Zenon, <1>3, FS_EmptySet
<1> QED  BY Zenon, <1>3, <1>4, <1>5

(* bget() adds the caller to the users of the buffer. *)
LEMMA OneMoreUser ==
  ASSUME BcTypeOK, NEW p \in User, NEW b \in Buf, cur[p] = NoBuf,
         cur' = [cur EXCEPT ![p] = b]
  PROVE  /\ Cardinality(Users(b)') = Cardinality(Users(b)) + 1
         /\ \A c \in Buf : c # b => Users(c)' = Users(c)
<1>1. b # NoBuf  BY BuffersAssumption DEF NoBuf
<1>2. cur \in [User -> Buf \cup {NoBuf}]  BY Zenon DEF BcTypeOK
<1>3. Users(b)' = Users(b) \cup {p}  BY Zenon, <1>2 DEF Users
<1>4. p \notin Users(b)  BY Zenon, <1>1 DEF Users
<1>5. IsFiniteSet(Users(b))  BY Zenon, UserCount
<1>6. Cardinality(Users(b)') = Cardinality(Users(b)) + 1  BY Zenon, <1>3, <1>4, <1>5, FS_AddElement
<1>7. \A c \in Buf : NoBuf # c  BY BuffersAssumption DEF NoBuf
<1>8. \A c \in Buf : c # b => Users(c)' = Users(c)  BY Zenon, <1>2, <1>7 DEF Users
<1> QED  BY Zenon, <1>6, <1>8

(* brelse() takes the caller out of them. *)
LEMMA OneLessUser ==
  ASSUME BcTypeOK, NEW p \in User, NEW b \in Buf, cur[p] = b,
         cur' = [cur EXCEPT ![p] = NoBuf]
  PROVE  /\ Cardinality(Users(b)') = Cardinality(Users(b)) - 1
         /\ \A c \in Buf : c # b => Users(c)' = Users(c)
<1>1. b # NoBuf  BY BuffersAssumption DEF NoBuf
<1>2. cur \in [User -> Buf \cup {NoBuf}]  BY Zenon DEF BcTypeOK
<1>3. Users(b)' = Users(b) \ {p}  BY Zenon, <1>1, <1>2 DEF Users
<1>4. p \in Users(b)  BY Zenon DEF Users
<1>5. IsFiniteSet(Users(b))  BY Zenon, UserCount
<1>6. Cardinality(Users(b)') = Cardinality(Users(b)) - 1  BY Zenon, <1>3, <1>4, <1>5, FS_RemoveElement
<1>7. \A c \in Buf : NoBuf # c  BY BuffersAssumption DEF NoBuf
<1>8. \A c \in Buf : c # b => Users(c)' = Users(c)  BY Zenon, <1>2, <1>7 DEF Users
<1> QED  BY Zenon, <1>6, <1>8

(* The sleep-lock of a buffer has one holder. *)
Exclusive == \A p, q \in User : Locks(p) /\ Locks(q) /\ cur[p] = cur[q] => p = q

LEMMA OneHolder == BcTypeOK /\ UsersInv => Exclusive
<1> SUFFICES ASSUME BcTypeOK, UsersInv, NEW p \in User, NEW q \in User,
                    Locks(p), Locks(q), cur[p] = cur[q]
             PROVE  p = q
  BY Zenon DEF Exclusive
<1>1. cur[p] # NoBuf  BY Zenon DEF UsersInv, Locks, Transfers, HoldsBuf
<1>2. cur[p] \in Buf  BY Zenon, <1>1 DEF BcTypeOK
<1> QED  BY <1>2 DEF UsersInv

(* When there are enough buffers, bget() finds one that nobody uses: the other
   users have at most one each, and the log MaxPinned. *)
LEMMA FreeBuffer ==
  ASSUME CacheCore, EnoughBuffers, NEW p \in User, bpc[p] = "out"
  PROVE  ~ \A j \in 1..NBUF : refcnt[lru[j]] # 0
<1> SUFFICES ASSUME \A j \in 1..NBUF : refcnt[lru[j]] # 0  PROVE FALSE
  BY Zenon
<1> DEFINE others == User \ {p}
           used == {cur[q] : q \in others}
           logged == {b \in Buf : blockno[b] \in pinned}
           g == [q \in others |-> cur[q]]
           h == [b \in logged |-> blockno[b]]
<1>1. \A b \in Buf : refcnt[b] # 0  BY Zenon DEF CacheCore, BcTypeOK, LruOK
<1>2. cur[p] = NoBuf  BY Zenon DEF CacheCore, UsersInv
<1>3. ASSUME NEW b \in Buf, b \notin logged  PROVE b \in used
  <2>1. refcnt[b] = Cardinality(Users(b)) + Pins(b)  BY Zenon DEF CacheCore, OneBufferPerBlock
  <2>2. Pins(b) = 0  BY Zenon, <1>3 DEF Pins
  <2>3. Cardinality(Users(b)) # 0  BY <1>1, <2>1, <2>2, UserCount
  <2>4. PICK q \in User : cur[q] = b  BY Zenon, <2>3, UserCount DEF Users
  <2>5. q # p  BY <1>2, <2>4, BuffersAssumption DEF NoBuf
  <2> QED  BY Zenon, <2>4, <2>5
<1>4. IsFiniteSet(others) /\ Cardinality(others) = Cardinality(User) - 1
  BY Zenon, BuffersAssumption, FS_RemoveElement
<1>5. g \in Surjection(others, used)  BY Zenon DEF Surjection
<1>6. IsFiniteSet(used) /\ Cardinality(used) <= Cardinality(others)
  BY Zenon, <1>4, <1>5, FS_Surjection
<1>7. h \in Injection(logged, pinned)
  <2>1. \A a, b \in Buf : blockno[a] = blockno[b] /\ blockno[a] # NoBlock => a = b
    BY Zenon DEF CacheCore, OneBufferPerBlock
  <2>2. \A k \in pinned : k # NoBlock  BY Zenon, BuffersAssumption DEF CacheCore, BcTypeOK
  <2> QED  BY Zenon, <2>1, <2>2 DEF Injection, IsInjective
<1>8. IsFiniteSet(pinned) /\ Cardinality(pinned) <= MaxPinned  BY Zenon DEF CacheCore, PinsInv
<1>9. IsFiniteSet(logged) /\ Cardinality(logged) <= Cardinality(pinned)
  BY Zenon, <1>7, <1>8, FS_Injection
<1>10. /\ IsFiniteSet(used \cup logged)
       /\ Cardinality(used \cup logged)
            = Cardinality(used) + Cardinality(logged) - Cardinality(used \cap logged)
  BY Zenon, <1>6, <1>9, FS_Union
<1>11. IsFiniteSet(used \cap logged)  BY Zenon, <1>6, FS_Intersection
<1>12. Buf \in SUBSET (used \cup logged)  BY Zenon, <1>3
<1>13. Cardinality(Buf) <= Cardinality(used \cup logged)  BY Zenon, <1>10, <1>12, FS_Subset
<1>14. Cardinality(Buf) = NBUF
  <2>1. NBUF \in Nat /\ Buf = 1..NBUF  BY Zenon, BuffersAssumption
  <2>2. Cardinality(1..NBUF) = IF 1 > NBUF THEN 0 ELSE NBUF - 1 + 1  BY <2>1, FS_Interval
  <2> QED  BY <2>1, <2>2
<1>15. /\ Cardinality(used) \in Nat /\ Cardinality(logged) \in Nat
       /\ Cardinality(used \cap logged) \in Nat /\ Cardinality(pinned) \in Nat
       /\ Cardinality(User) \in Nat
  BY Zenon, <1>6, <1>8, <1>9, <1>11, UserCount, FS_CardinalityType
<1> HIDE DEF others, used, logged
<1> QED
  BY <1>4, <1>6, <1>8, <1>9, <1>10, <1>13, <1>14, <1>15, BuffersAssumption DEF EnoughBuffers
-----------------------------------------------------------------------------
(* What a user that has a buffer knows of it. *)
LEMMA CurFacts ==
  ASSUME CacheCore, NEW p \in User, bpc[p] \notin {"out", "panic"}
  PROVE  /\ cur[p] \in Buf /\ cur[p] # NoBuf
         /\ blockno[cur[p]] \in Block /\ blockno[cur[p]] # NoBlock
<1>1. cur[p] # NoBuf  BY Zenon DEF CacheCore, UsersInv
<1>2. cur[p] \in Buf  BY Zenon, <1>1 DEF CacheCore, BcTypeOK
<1>3. blockno[cur[p]] # NoBlock  BY Zenon, <1>1 DEF CacheCore, UsersInv
<1>4. blockno[cur[p]] \in Block  BY Zenon, <1>2, <1>3 DEF CacheCore, BcTypeOK
<1> QED  BY Zenon, <1>1, <1>2, <1>3, <1>4

(* Counts that are exact are in the range of their type. *)
CountsOK == \A b \in Buf : refcnt[b] \in 0..(Cardinality(User) + 1)

LEMMA CountsInRange == OneBufferPerBlock => CountsOK
<1> SUFFICES ASSUME OneBufferPerBlock, NEW b \in Buf
             PROVE  refcnt[b] \in 0..(Cardinality(User) + 1)
  BY Zenon DEF CountsOK
<1>1. Pins(b) \in {0, 1}  BY Zenon DEF Pins
<1>2. refcnt[b] = Cardinality(Users(b)) + Pins(b)  BY Zenon DEF OneBufferPerBlock
<1> QED  BY <1>1, <1>2, UserCount

(* The types, as the provers use them. *)
LEMMA BcTypes ==
  ASSUME BcTypeOK
  PROVE  /\ cur \in [User -> Buf \cup {NoBuf}] /\ refcnt \in [Buf -> Nat]
         /\ bpc \in [User -> {"out", "lock", "reading", "held", "changed", "writing", "written",
                              "release", "panic"}]
<1>1. Cardinality(User) \in Nat  BY Zenon, UserCount
<1>2. refcnt \in [Buf -> Nat]
  <2>1. 0..(Cardinality(User) + 1) \subseteq Nat  BY <1>1
  <2> QED  BY Zenon, <2>1 DEF BcTypeOK
<1> QED  BY Zenon, <1>2 DEF BcTypeOK

(* A step in which no reference is taken or dropped. *)
LEMMA CountsKept ==
  ASSUME OneBufferPerBlock, UNCHANGED <<blockno, refcnt, cur, pinned>>,
         \A p, q \in User : (HoldsBuf(p) /\ HoldsBuf(q) /\ cur[p] = cur[q] => p = q)'
  PROVE  OneBufferPerBlock'
<1>1. \A b \in Buf : Users(b)' = Users(b) /\ Pins(b)' = Pins(b)  BY Zenon DEF Users, Pins
<1> QED  BY Zenon, <1>1 DEF OneBufferPerBlock

(* bget(), the block is cached. *)
LEMMA BgetHitKeeps ==
  ASSUME CacheCore, NEW p \in User, NEW k \in Block, BgetHit(p, k)
  PROVE  CacheCore'
<1>1. PICK b \in Buf : /\ blockno[b] = k
                       /\ refcnt' = [refcnt EXCEPT ![b] = @ + 1]
                       /\ cur' = [cur EXCEPT ![p] = b]
  BY Zenon DEF BgetHit
<1>2. /\ bpc[p] = "out" /\ bpc' = [bpc EXCEPT ![p] = "lock"]
      /\ UNCHANGED <<disk, data, port, blockno, valid, block_lock, lru, pinned, latest>>
  BY Zenon DEF BgetHit, MayGet, BcGoto, portVars
<1>3. BcTypeOK /\ OneBufferPerBlock /\ UsersInv /\ CallsInv /\ PinsInv /\ ContentsInv
  BY Zenon DEF CacheCore
<1>4. cur[p] = NoBuf  BY Zenon, <1>2, <1>3 DEF UsersInv
<1>6. \A q \in User : q # p => cur'[q] = cur[q] /\ bpc'[q] = bpc[q]  BY Zenon, <1>1, <1>2, <1>3, BcTypes
<1>7. cur'[p] = b /\ bpc'[p] = "lock"  BY Zenon, <1>1, <1>2, <1>3, BcTypes
<1>8. k # NoBlock /\ b # NoBuf  BY BuffersAssumption DEF NoBuf
<1>9. \A c \in Buf : refcnt'[c] = Cardinality(Users(c)') + Pins(c)'
  <2>1. Pins(b)' = Pins(b) /\ Cardinality(Users(b)') = Cardinality(Users(b)) + 1
    BY Zenon, <1>1, <1>2, <1>3, <1>4, OneMoreUser DEF Pins
  <2>2. refcnt'[b] = refcnt[b] + 1  BY Zenon, <1>1, <1>3, BcTypes
  <2>3. refcnt[b] = Cardinality(Users(b)) + Pins(b)  BY Zenon, <1>3 DEF OneBufferPerBlock
  <2>4. Pins(b) \in Nat  BY Zenon DEF Pins
  <2>5. refcnt'[b] = Cardinality(Users(b)') + Pins(b)'  BY <2>1, <2>2, <2>3, <2>4, UserCount
  <2>6. ASSUME NEW c \in Buf, c # b  PROVE refcnt'[c] = Cardinality(Users(c)') + Pins(c)'
    <3>1. Users(c)' = Users(c)  BY Zenon, <1>1, <1>3, <1>4, <2>6, OneMoreUser
    <3>2. Pins(c)' = Pins(c)  BY Zenon, <1>2 DEF Pins
    <3>3. refcnt'[c] = refcnt[c]  BY Zenon, <1>1, <1>3, <2>6, BcTypes
    <3> QED  BY Zenon, <1>3, <3>1, <3>2, <3>3 DEF OneBufferPerBlock
  <2> QED  BY Zenon, <2>5, <2>6
<1>10. OneBufferPerBlock'
  BY <1>2, <1>3, <1>6, <1>7, <1>9 DEF OneBufferPerBlock, HoldsBuf
<1>11. BcTypeOK'
  <2>1. CountsOK'  BY <1>10, CountsInRange, PTL
  <2>2. refcnt' \in [Buf -> 0..(Cardinality(User) + 1)]  BY Zenon, <1>1, <1>3, <2>1, BcTypes DEF CountsOK
  <2> QED  BY Zenon, <1>1, <1>2, <1>3, <2>2 DEF BcTypeOK, LruOK
<1>12. BuffersSuffice'
  BY Zenon, <1>6, <1>7 DEF CacheCore, BuffersSuffice
<1>13. UsersInv'
  BY <1>1, <1>2, <1>3, <1>6, <1>7, <1>8 DEF UsersInv, Locks, Transfers, HoldsBuf
<1>14. CallsInv'
  BY <1>2, <1>3, <1>6, <1>7 DEF CallsInv, Transfers
<1>15. PinsInv'
  BY Zenon, <1>2, <1>3 DEF PinsInv
<1>16. ContentsInv'
  BY <1>2, <1>3, <1>6, <1>7 DEF ContentsInv, HoldsBuf
<1> QED  BY Zenon, <1>10, <1>11, <1>12, <1>13, <1>14, <1>15, <1>16 DEF CacheCore

(* bget() recycles a buffer that nobody uses: its contents are on disk. *)
LEMMA RecycleKeeps ==
  ASSUME CacheCore, NEW p \in User, NEW k \in Block, NEW b \in Buf,
         bpc[p] = "out", \A c \in Buf : blockno[c] # k, refcnt[b] = 0,
         bpc' = [bpc EXCEPT ![p] = "lock"], Recycle(p, b, k),
         UNCHANGED <<disk, data, port, block_lock, lru, pinned, latest>>
  PROVE  CacheCore'
<1>1. /\ blockno' = [blockno EXCEPT ![b] = k] /\ valid' = [valid EXCEPT ![b] = FALSE]
      /\ refcnt' = [refcnt EXCEPT ![b] = 1] /\ cur' = [cur EXCEPT ![p] = b]
  BY Zenon DEF Recycle
<1>2. /\ blockno \in [Buf -> Block \cup {NoBlock}] /\ valid \in [Buf -> BOOLEAN]
      /\ pinned \in SUBSET Block /\ block_lock \in [Buf -> User \cup {Unlocked}]
  BY Zenon DEF CacheCore, BcTypeOK
<1>3. BcTypeOK /\ OneBufferPerBlock /\ UsersInv /\ CallsInv /\ PinsInv /\ ContentsInv
  BY Zenon DEF CacheCore
<1>4. cur[p] = NoBuf  BY Zenon, <1>3 DEF UsersInv
<1>5. refcnt[b] = Cardinality(Users(b)) + Pins(b)  BY Zenon, <1>3 DEF OneBufferPerBlock
<1>6. Cardinality(Users(b)) = 0 /\ Pins(b) = 0
  <2>1. Pins(b) \in Nat  BY Zenon DEF Pins
  <2> QED  BY <1>5, <2>1, UserCount
<1>7. blockno[b] \notin pinned  BY <1>6 DEF Pins
<1>8. \A q \in User : cur[q] # b  BY Zenon, <1>6, UserCount DEF Users
<1>9. \A q \in User : q # p => cur'[q] = cur[q] /\ bpc'[q] = bpc[q]  BY Zenon, <1>1, <1>3, BcTypes
<1>10. cur'[p] = b /\ bpc'[p] = "lock"  BY Zenon, <1>1, <1>3, BcTypes
<1>11. \A c \in Buf : c # b => blockno'[c] = blockno[c] /\ valid'[c] = valid[c]  BY Zenon, <1>1, <1>2
<1>12. blockno'[b] = k /\ ~valid'[b]  BY Zenon, <1>1, <1>2
<1>13. k # NoBlock /\ b # NoBuf  BY BuffersAssumption DEF NoBuf
<1>14. k \notin pinned  BY Zenon, <1>3 DEF PinsInv
<1>15. \A q \in User : q # p => cur[q] \in Buf \/ cur[q] = NoBuf  BY Zenon, <1>3, BcTypes
<1>16. block_lock[b] = Unlocked
  BY <1>2, <1>3, <1>8 DEF UsersInv
<1>17. \A c \in Buf : refcnt'[c] = Cardinality(Users(c)') + Pins(c)'
  <2>1. Pins(b)' = 0  BY Zenon, <1>12, <1>14 DEF Pins
  <2>2. Cardinality(Users(b)') = Cardinality(Users(b)) + 1  BY Zenon, <1>1, <1>3, <1>4, OneMoreUser
  <2>3. refcnt'[b] = 1  BY Zenon, <1>1, <1>3, BcTypes
  <2>4. refcnt'[b] = Cardinality(Users(b)') + Pins(b)'  BY <1>6, <2>1, <2>2, <2>3
  <2>5. ASSUME NEW c \in Buf, c # b  PROVE refcnt'[c] = Cardinality(Users(c)') + Pins(c)'
    <3>1. Users(c)' = Users(c)  BY Zenon, <1>1, <1>3, <1>4, <2>5, OneMoreUser
    <3>2. Pins(c)' = Pins(c)  BY Zenon, <1>11, <2>5 DEF Pins
    <3>3. refcnt'[c] = refcnt[c]  BY Zenon, <1>1, <1>3, <2>5, BcTypes
    <3> QED  BY Zenon, <1>3, <3>1, <3>2, <3>3 DEF OneBufferPerBlock
  <2> QED  BY Zenon, <2>4, <2>5
<1>18. OneBufferPerBlock'
  <2>1. \A a, c \in Buf : (blockno[a] = blockno[c] /\ blockno[a] # NoBlock)' => a = c
    BY <1>3, <1>11, <1>12 DEF OneBufferPerBlock
  <2>2. \A q, r \in User : (HoldsBuf(q) /\ HoldsBuf(r) /\ cur[q] = cur[r])' => q = r
    BY <1>3, <1>9, <1>10 DEF OneBufferPerBlock, HoldsBuf
  <2> QED  BY Zenon, <1>17, <2>1, <2>2 DEF OneBufferPerBlock
<1>19. BcTypeOK'
  <2>1. CountsOK'  BY <1>18, CountsInRange, PTL
  <2>2. refcnt' \in [Buf -> 0..(Cardinality(User) + 1)]  BY Zenon, <1>1, <1>3, <2>1, BcTypes DEF CountsOK
  <2> QED  BY Zenon, <1>1, <1>3, <2>2 DEF BcTypeOK, LruOK
<1>20. BuffersSuffice'
  BY Zenon, <1>9, <1>10 DEF CacheCore, BuffersSuffice
<1>21. UsersInv'
  BY <1>2, <1>3, <1>8, <1>9, <1>10, <1>11, <1>12, <1>13, <1>15, <1>16
  DEF UsersInv, Locks, Transfers, HoldsBuf
<1>22. CallsInv'
  <2> SUFFICES ASSUME NEW q \in User
               PROVE  (IF Transfers(q)
                        THEN /\ port[q].at \in {"pending", "done"} /\ port[q].buf = cur[q]
                             /\ port[q].block = blockno[cur[q]] /\ (port[q].write <=> bpc[q] = "writing")
                             /\ port[q].at = "done" => disk[blockno[cur[q]]] = data[cur[q]]
                        ELSE port[q] = Idle)'
    BY Zenon DEF CallsInv
  <2>1. CASE q = p  BY Zenon, <1>3, <1>10, <2>1 DEF CallsInv, Transfers
  <2>2. CASE q # p /\ ~Transfers(q)  BY Zenon, <1>3, <1>9, <2>2 DEF CallsInv, Transfers
  <2>3. CASE q # p /\ Transfers(q)
    <3>1. cur[q] \in Buf /\ cur[q] # b  BY Zenon, <1>8, <2>3, CurFacts DEF Transfers
    <3> QED  BY <1>3, <1>9, <1>11, <2>3, <3>1 DEF CallsInv, Transfers
  <2> QED  BY Zenon, <2>1, <2>2, <2>3
<1>23. PinsInv'
  BY <1>3, <1>7, <1>11 DEF PinsInv
<1>24. ContentsInv'
  <2>1. \A c \in Buf : valid'[c] => blockno'[c] # NoBlock /\ data'[c] = latest'[blockno'[c]]
    BY <1>3, <1>11, <1>12 DEF ContentsInv
  <2>2. \A q \in User : HoldsBuf(q)' => valid'[cur'[q]]
    BY <1>3, <1>8, <1>9, <1>10, <1>11, CurFacts DEF ContentsInv, HoldsBuf
  <2>3. \A q \in User : bpc'[q] = "reading" => ~valid'[cur'[q]]
    BY <1>3, <1>8, <1>9, <1>10, <1>11, CurFacts DEF ContentsInv
  <2>4. ASSUME NEW m \in Block
        PROVE  \/ m \in pinned' \/ disk'[m] = latest'[m]
               \/ \E q \in User : bpc'[q] \in {"changed", "writing"} /\ blockno'[cur'[q]] = m
    <3>1. CASE m \in pinned \/ disk[m] = latest[m]  BY Zenon, <3>1
    <3>2. CASE \E q \in User : bpc[q] \in {"changed", "writing"} /\ blockno[cur[q]] = m
      <4>1. PICK q \in User : bpc[q] \in {"changed", "writing"} /\ blockno[cur[q]] = m  BY Zenon, <3>2
      <4>2. q # p  BY Zenon, <4>1
      <4>3. cur[q] \in Buf /\ cur[q] # b  BY Zenon, <1>8, <4>1, CurFacts
      <4> QED  BY Zenon, <1>9, <1>11, <4>1, <4>2, <4>3
    <3> QED  BY Zenon, <1>3, <3>1, <3>2 DEF ContentsInv
  <2>5. \A q \in User : bpc'[q] = "written" => disk'[blockno'[cur'[q]]] = latest'[blockno'[cur'[q]]]
    BY <1>3, <1>8, <1>9, <1>10, <1>11, CurFacts DEF ContentsInv
  <2> QED  BY Zenon, <2>1, <2>2, <2>3, <2>4, <2>5 DEF ContentsInv
<1> QED  BY Zenon, <1>18, <1>19, <1>20, <1>21, <1>22, <1>23, <1>24 DEF CacheCore

(* bget(), the block is not cached: a buffer is recycled, or there is none. *)
LEMMA BgetMissKeeps ==
  ASSUME CacheCore, NEW p \in User, NEW k \in Block, BgetMiss(p, k)
  PROVE  CacheCore'
<1>1. /\ bpc[p] = "out" /\ \A b \in Buf : blockno[b] # k
      /\ UNCHANGED <<disk, data, port, block_lock, lru, pinned, latest>>
  BY Zenon DEF BgetMiss, MayGet, portVars
<1>2. CASE \E j \in 1..NBUF : LeastRecent(j) /\ BcGoto(p, "lock") /\ Recycle(p, lru[j], k)
  <2>1. PICK j \in 1..NBUF : LeastRecent(j) /\ BcGoto(p, "lock") /\ Recycle(p, lru[j], k)
    BY Zenon, <1>2
  <2>2. lru[j] \in Buf  BY DEF CacheCore, BcTypeOK, LruOK
  <2>3. refcnt[lru[j]] = 0  BY Zenon, <2>1 DEF LeastRecent
  <2>4. bpc' = [bpc EXCEPT ![p] = "lock"]  BY Zenon, <2>1 DEF BcGoto
  <2>5. Recycle(p, lru[j], k)  BY Zenon, <2>1
  <2> QED  BY Zenon, <1>1, <2>2, <2>3, <2>4, <2>5, RecycleKeeps
<1>3. CASE /\ \A j \in 1..NBUF : refcnt[lru[j]] # 0
           /\ BcGoto(p, "panic") /\ UNCHANGED <<blockno, valid, refcnt, cur>>
  <2>1. ~EnoughBuffers  BY Zenon, <1>1, <1>3, FreeBuffer
  <2>2. /\ BcTypeOK /\ OneBufferPerBlock /\ UsersInv /\ CallsInv /\ PinsInv /\ ContentsInv
        /\ bpc' = [bpc EXCEPT ![p] = "panic"] /\ UNCHANGED <<blockno, valid, refcnt, cur>>
    BY Zenon, <1>3 DEF CacheCore, BcGoto
  <2>3. \A q \in User : q # p => bpc'[q] = bpc[q]  BY Zenon, <2>2, BcTypes
  <2>4. bpc'[p] = "panic"  BY Zenon, <2>2, BcTypes
  <2>5. BcTypeOK'  BY Zenon, <1>1, <2>2 DEF BcTypeOK, LruOK
  <2>6. OneBufferPerBlock'
    <3>1. \A q, r \in User : (HoldsBuf(q) /\ HoldsBuf(r) /\ cur[q] = cur[r] => q = r)'
      BY Zenon, <2>2, <2>3, <2>4 DEF OneBufferPerBlock, HoldsBuf
    <3> QED  BY Zenon, <1>1, <2>2, <3>1, CountsKept
  <2>7. BuffersSuffice'  BY Zenon, <2>1 DEF BuffersSuffice, EnoughBuffers
  <2>8. UsersInv'
    BY <1>1, <2>2, <2>3, <2>4 DEF UsersInv, Locks, Transfers, HoldsBuf
  <2>9. CallsInv'  BY Zenon, <1>1, <2>2, <2>3, <2>4 DEF CallsInv, Transfers
  <2>10. PinsInv'  BY Zenon, <1>1, <2>2 DEF PinsInv
  <2>11. ContentsInv'  BY <1>1, <2>2, <2>3, <2>4 DEF ContentsInv, HoldsBuf
  <2> QED  BY Zenon, <2>5, <2>6, <2>7, <2>8, <2>9, <2>10, <2>11 DEF CacheCore
<1> QED  BY Zenon, <1>2, <1>3 DEF BgetMiss
-----------------------------------------------------------------------------
(* Two users that are past acquiresleep() have different buffers, of
   different blocks. *)
LEMMA Apart ==
  ASSUME CacheCore, NEW p \in User, NEW q \in User, p # q, Locks(p), Locks(q)
  PROVE  cur[p] # cur[q] /\ blockno[cur[p]] # blockno[cur[q]]
<1>1. cur[p] # cur[q]  BY Zenon, OneHolder DEF CacheCore, Exclusive
<1>2. bpc[p] \notin {"out", "panic"} /\ bpc[q] \notin {"out", "panic"}
  BY Zenon DEF Locks, Transfers, HoldsBuf
<1>3. cur[p] \in Buf /\ cur[q] \in Buf /\ blockno[cur[p]] # NoBlock  BY Zenon, <1>2, CurFacts
<1> QED  BY Zenon, <1>1, <1>3 DEF CacheCore, OneBufferPerBlock

(* A step of user p between bget() and brelse() that takes and drops no
   reference and moves p from one place to another. *)
Moves(p, l) ==
  /\ bpc' = [bpc EXCEPT ![p] = l]
  /\ UNCHANGED <<blockno, refcnt, lru, pinned, cur>>

LEMMA MovesKeeps ==
  ASSUME CacheCore, NEW p \in User, NEW l, Moves(p, l),
         bpc[p] \notin {"out", "panic"},
         l \in {"reading", "held", "changed", "writing", "written", "release"},
         disk' \in [Block -> Value], data' \in [Buf -> Value], latest' \in [Block -> Value],
         valid' \in [Buf -> BOOLEAN], block_lock' \in [Buf -> User \cup {Unlocked}],
         port' \in [User -> {Idle} \cup
                      [at : {"pending", "done"}, buf : Buf, block : Block, write : BOOLEAN]],
         UsersInv', CallsInv', ContentsInv',
         \A b \in Buf : valid[b] => valid'[b]
  PROVE  CacheCore'
<1>1. /\ bpc' = [bpc EXCEPT ![p] = l] /\ UNCHANGED <<blockno, refcnt, lru, pinned, cur>>
      /\ BcTypeOK /\ OneBufferPerBlock /\ PinsInv
  BY Zenon DEF CacheCore, Moves
<1>2. BcTypeOK'  BY Zenon, <1>1 DEF BcTypeOK, LruOK
<1>3. \A q, r \in User : (HoldsBuf(q) /\ HoldsBuf(r) /\ cur[q] = cur[r] => q = r)'
  <2>1. Exclusive'  BY <1>2, OneHolder, PTL
  <2> QED  BY Zenon, <2>1 DEF Exclusive, Locks
<1>4. OneBufferPerBlock'  BY Zenon, <1>1, <1>3, CountsKept
<1>5. BuffersSuffice'
  <2>1. bpc'[p] # "panic" /\ \A q \in User : q # p => bpc'[q] = bpc[q]  BY Zenon, <1>1, BcTypes
  <2> QED  BY Zenon, <2>1 DEF CacheCore, BuffersSuffice
<1>6. PinsInv'  BY Zenon, <1>1 DEF PinsInv
<1> QED  BY Zenon, <1>2, <1>4, <1>5, <1>6 DEF CacheCore

(* acquiresleep(), and the call of virtio_disk_rw() for a buffer that is not
   valid. *)
LEMMA LockBufKeeps ==
  ASSUME CacheCore, NEW p \in User, LockBuf(p)
  PROVE  CacheCore'
<1> DEFINE b == cur[p]
<1>1. /\ bpc[p] = "lock" /\ block_lock[b] = Unlocked
      /\ block_lock' = [block_lock EXCEPT ![b] = p]
      /\ UNCHANGED <<disk, data, blockno, refcnt, valid, lru, pinned, cur, latest>>
  BY Zenon DEF LockBuf
<1>2. BcTypeOK /\ OneBufferPerBlock /\ UsersInv /\ CallsInv /\ PinsInv /\ ContentsInv
  BY Zenon DEF CacheCore
<1>3. b \in Buf /\ blockno[b] \in Block /\ blockno[b] # NoBlock  BY Zenon, <1>1, CurFacts
<1>4. PICK l \in {"held", "reading"} :
        /\ Moves(p, l) /\ (l = "held" <=> valid[b])
        /\ l = "held" => UNCHANGED port
        /\ l = "reading" => PortCall(p, b, blockno[b], FALSE)
  BY Zenon, <1>1 DEF LockBuf, BcGoto, Moves
<1>5. bpc'[p] = l /\ \A q \in User : q # p => bpc'[q] = bpc[q]  BY Zenon, <1>2, <1>4, BcTypes DEF Moves
<1>6. block_lock \in [Buf -> User \cup {Unlocked}] /\ block_lock' \in [Buf -> User \cup {Unlocked}]
  BY Zenon, <1>1, <1>2 DEF BcTypeOK
<1>7. block_lock'[b] = p /\ \A c \in Buf : c # b => block_lock'[c] = block_lock[c]
  BY Zenon, <1>1, <1>3, <1>6
<1>8. \A q \in User : Locks(q) => cur[q] # b
  BY <1>1, <1>2, <1>3, BuffersAssumption DEF UsersInv
<1>9. UsersInv'
  <2>1. \A q \in User : q # p => (Locks(q)' <=> Locks(q))  BY Zenon, <1>5 DEF Locks, Transfers, HoldsBuf
  <2>2. Locks(p)'  BY Zenon, <1>5 DEF Locks, Transfers, HoldsBuf
  <2>3. \A q \in User : cur[q] \in Buf \cup {NoBuf}  BY Zenon, <1>2, BcTypes
  <2>4. \A q \in User : Locks(q) => cur[q] \in Buf
    BY Zenon, CurFacts DEF Locks, Transfers, HoldsBuf
  <2>5. ASSUME NEW q \in User, NEW c \in Buf
        PROVE  (block_lock[c] = q <=> cur[q] = c /\ Locks(q))'
    <3>1. block_lock[c] = q <=> cur[q] = c /\ Locks(q)  BY Zenon, <1>2 DEF UsersInv
    <3>2. cur'[q] = cur[q]  BY Zenon, <1>1
    <3>3. ~Locks(p)  BY Zenon, <1>1 DEF Locks, Transfers, HoldsBuf
    <3> QED  BY Zenon, <1>7, <1>8, <2>1, <2>2, <3>1, <3>2, <3>3
  <2>7. \A q \in User : (cur[q] = NoBuf <=> bpc[q] \in {"out", "panic"})'
    BY Zenon, <1>1, <1>2, <1>5 DEF UsersInv
  <2>8. \A q \in User : (cur[q] # NoBuf => blockno[cur[q]] # NoBlock)'
    BY Zenon, <1>1, <1>2 DEF UsersInv
  <2> QED  BY Zenon, <2>5, <2>7, <2>8 DEF UsersInv
<1>10. port[p] = Idle  BY Zenon, <1>1, <1>2 DEF CallsInv, Transfers
<1>11. /\ port' \in [User -> {Idle} \cup
                      [at : {"pending", "done"}, buf : Buf, block : Block, write : BOOLEAN]]
       /\ \A q \in User : q # p => port'[q] = port[q]
       /\ l = "held" => port'[p] = Idle
       /\ l = "reading" => port'[p] = Transfer(b, blockno[b], FALSE, "pending")
  <2>1. port \in [User -> {Idle} \cup
                      [at : {"pending", "done"}, buf : Buf, block : Block, write : BOOLEAN]]
    BY Zenon, <1>2 DEF BcTypeOK
  <2>2. CASE l = "held"  BY Zenon, <1>4, <1>10, <2>1, <2>2
  <2>3. CASE l = "reading"
    <3>1. port' = [port EXCEPT ![p] = Transfer(b, blockno[b], FALSE, "pending")]
      BY Zenon, <1>4, <2>3 DEF PortCall
    <3>2. Transfer(b, blockno[b], FALSE, "pending")
            \in [at : {"pending", "done"}, buf : Buf, block : Block, write : BOOLEAN]
      BY Zenon, <1>3 DEF Transfer
    <3> QED  BY Zenon, <2>1, <2>3, <3>1, <3>2
  <2> QED  BY Zenon, <2>2, <2>3
<1>12. CallsInv'
  BY <1>1, <1>2, <1>5, <1>11 DEF CallsInv, Transfers, Transfer
<1>13. ContentsInv'
  BY <1>1, <1>2, <1>4, <1>5, <1>11 DEF ContentsInv, HoldsBuf
<1>14. /\ disk' \in [Block -> Value] /\ data' \in [Buf -> Value] /\ latest' \in [Block -> Value]
       /\ valid' \in [Buf -> BOOLEAN]
  BY Zenon, <1>1, <1>2 DEF BcTypeOK
<1>15. \A c \in Buf : valid[c] => valid'[c]  BY Zenon, <1>1
<1> QED  BY Zenon, <1>1, <1>4, <1>6, <1>9, <1>11, <1>12, <1>13, <1>14, <1>15, MovesKeeps

(* A step of p that keeps its lock: the locks are as before. *)
LEMMA LocksKept ==
  ASSUME UsersInv, NEW p \in User, NEW l,
         bpc'[p] = l, \A q \in User : q # p => bpc'[q] = bpc[q],
         Locks(p), l \in {"reading", "held", "changed", "writing", "written"},
         UNCHANGED <<blockno, block_lock, cur>>
  PROVE  UsersInv'
<1>1. \A q \in User : Locks(q)' <=> Locks(q)  BY Zenon DEF Locks, Transfers, HoldsBuf
<1>2. \A q \in User : bpc'[q] \in {"out", "panic"} <=> bpc[q] \in {"out", "panic"}
  BY Zenon DEF Locks, Transfers, HoldsBuf
<1> QED  BY <1>1, <1>2 DEF UsersInv

(* A call that returns. *)
LEMMA PortReturned ==
  ASSUME BcTypeOK, NEW p \in User, PortReturn(p)
  PROVE  /\ port[p].at = "done" /\ port'[p] = Idle
         /\ \A q \in User : q # p => port'[q] = port[q]
         /\ port' \in [User -> {Idle} \cup
                         [at : {"pending", "done"}, buf : Buf, block : Block, write : BOOLEAN]]
BY Zenon DEF PortReturn, BcTypeOK

(* bread() has its block: what was on disk is the latest. *)
LEMMA ReadDoneKeeps ==
  ASSUME CacheCore, NEW p \in User, ReadDone(p)
  PROVE  CacheCore'
<1> DEFINE b == cur[p]
<1>1. /\ bpc[p] = "reading" /\ PortReturn(p) /\ valid' = [valid EXCEPT ![b] = TRUE]
      /\ Moves(p, "held")
      /\ UNCHANGED <<disk, data, blockno, refcnt, block_lock, lru, pinned, cur, latest>>
  BY Zenon DEF ReadDone, BcGoto, Moves
<1>2. BcTypeOK /\ OneBufferPerBlock /\ UsersInv /\ CallsInv /\ PinsInv /\ ContentsInv
  BY Zenon DEF CacheCore
<1>3. b \in Buf /\ blockno[b] \in Block /\ blockno[b] # NoBlock  BY Zenon, <1>1, CurFacts
<1>4. bpc'[p] = "held" /\ \A q \in User : q # p => bpc'[q] = bpc[q]  BY Zenon, <1>1, <1>2, BcTypes DEF Moves
<1>5. Locks(p)  BY Zenon, <1>1 DEF Locks, Transfers
<1>6. UsersInv'  BY Zenon, <1>1, <1>2, <1>4, <1>5, LocksKept
<1>7. /\ port[p].at = "done" /\ port'[p] = Idle
      /\ \A q \in User : q # p => port'[q] = port[q]
      /\ port' \in [User -> {Idle} \cup
                      [at : {"pending", "done"}, buf : Buf, block : Block, write : BOOLEAN]]
  BY Zenon, <1>1, <1>2, PortReturned
<1>8. CallsInv'
  BY <1>1, <1>2, <1>4, <1>7 DEF CallsInv, Transfers
<1>9. ~valid[b]  BY Zenon, <1>1, <1>2 DEF ContentsInv
<1>10. data[b] = latest[blockno[b]]
  <2>1. disk[blockno[b]] = data[b]  BY Zenon, <1>1, <1>2, <1>7 DEF CallsInv, Transfers
  <2>2. blockno[b] \notin pinned  BY <1>2, <1>3, <1>9 DEF PinsInv, OneBufferPerBlock
  <2>3. ASSUME NEW q \in User, bpc[q] \in {"changed", "writing"}, blockno[cur[q]] = blockno[b]
        PROVE  FALSE
    <3>1. q # p /\ Locks(q)  BY Zenon, <1>1, <2>3 DEF Locks, HoldsBuf
    <3> QED  BY Zenon, <1>5, <2>3, <3>1, Apart
  <2> QED  BY Zenon, <1>2, <1>3, <2>1, <2>2, <2>3 DEF ContentsInv
<1>11. /\ valid' \in [Buf -> BOOLEAN] /\ valid'[b]
       /\ \A c \in Buf : c # b => valid'[c] = valid[c]
  BY Zenon, <1>1, <1>2, <1>3 DEF BcTypeOK
<1>12. ContentsInv'
  <2>1. \A c \in Buf : (valid[c] => blockno[c] # NoBlock /\ data[c] = latest[blockno[c]])'
    BY Zenon, <1>1, <1>2, <1>3, <1>10, <1>11 DEF ContentsInv
  <2>2. \A q \in User : HoldsBuf(q) => cur[q] \in Buf  BY Zenon, CurFacts DEF HoldsBuf
  <2>3. \A q \in User : (HoldsBuf(q) => valid[cur[q]])'
    BY <1>1, <1>2, <1>4, <1>11, <2>2 DEF ContentsInv, HoldsBuf
  <2>4. ASSUME NEW q \in User, bpc'[q] = "reading"  PROVE ~valid'[cur'[q]]
    <3>1. q # p /\ bpc[q] = "reading"  BY Zenon, <1>4, <2>4
    <3>2. Locks(q) /\ cur[q] \in Buf  BY Zenon, <3>1, CurFacts DEF Locks, Transfers
    <3>3. cur[q] # b  BY Zenon, <1>5, <3>1, <3>2, Apart
    <3> QED  BY Zenon, <1>1, <1>2, <1>11, <3>1, <3>2, <3>3 DEF ContentsInv
  <2>5. \A m \in Block : (\/ m \in pinned \/ disk[m] = latest[m]
                         \/ \E q \in User : bpc[q] \in {"changed", "writing"} /\ blockno[cur[q]] = m)'
    BY <1>1, <1>2, <1>4 DEF ContentsInv
  <2>6. \A q \in User : (bpc[q] = "written" => disk[blockno[cur[q]]] = latest[blockno[cur[q]]])'
    BY <1>1, <1>2, <1>4 DEF ContentsInv
  <2> QED  BY Zenon, <2>1, <2>3, <2>4, <2>5, <2>6 DEF ContentsInv
<1>13. /\ disk' \in [Block -> Value] /\ data' \in [Buf -> Value] /\ latest' \in [Block -> Value]
       /\ block_lock' \in [Buf -> User \cup {Unlocked}]
  BY Zenon, <1>1, <1>2 DEF BcTypeOK
<1>14. \A c \in Buf : valid[c] => valid'[c]  BY Zenon, <1>11
<1> QED  BY Zenon, <1>1, <1>6, <1>7, <1>8, <1>11, <1>12, <1>13, <1>14, MovesKeeps

(* bwrite() returns: the block is on disk. *)
LEMMA WriteDoneKeeps ==
  ASSUME CacheCore, NEW p \in User, WriteDone(p)
  PROVE  CacheCore'
<1> DEFINE b == cur[p]
<1>1. /\ bpc[p] = "writing" /\ PortReturn(p) /\ Moves(p, "written")
      /\ UNCHANGED <<disk, data, blockno, refcnt, valid, block_lock, lru, pinned, cur, latest>>
  BY Zenon DEF WriteDone, BcGoto, Moves
<1>2. BcTypeOK /\ OneBufferPerBlock /\ UsersInv /\ CallsInv /\ PinsInv /\ ContentsInv
  BY Zenon DEF CacheCore
<1>3. b \in Buf /\ blockno[b] \in Block /\ blockno[b] # NoBlock  BY Zenon, <1>1, CurFacts
<1>4. bpc'[p] = "written" /\ \A q \in User : q # p => bpc'[q] = bpc[q]  BY Zenon, <1>1, <1>2, BcTypes DEF Moves
<1>5. Locks(p)  BY Zenon, <1>1 DEF Locks, Transfers
<1>6. UsersInv'  BY Zenon, <1>1, <1>2, <1>4, <1>5, LocksKept
<1>7. /\ port[p].at = "done" /\ port'[p] = Idle
      /\ \A q \in User : q # p => port'[q] = port[q]
      /\ port' \in [User -> {Idle} \cup
                      [at : {"pending", "done"}, buf : Buf, block : Block, write : BOOLEAN]]
  BY Zenon, <1>1, <1>2, PortReturned
<1>8. CallsInv'
  BY <1>1, <1>2, <1>4, <1>7 DEF CallsInv, Transfers
<1>9. disk[blockno[b]] = latest[blockno[b]]
  <2>1. disk[blockno[b]] = data[b]  BY Zenon, <1>1, <1>2, <1>7 DEF CallsInv, Transfers
  <2>2. valid[b]  BY Zenon, <1>1, <1>2 DEF ContentsInv, HoldsBuf
  <2> QED  BY Zenon, <1>2, <1>3, <2>1, <2>2 DEF ContentsInv
<1>10. ContentsInv'
  <2>1. \A c \in Buf : (valid[c] => blockno[c] # NoBlock /\ data[c] = latest[blockno[c]])'
    BY Zenon, <1>1, <1>2 DEF ContentsInv
  <2>2. \A q \in User : (HoldsBuf(q) => valid[cur[q]])'
    BY Zenon, <1>1, <1>2, <1>4 DEF ContentsInv, HoldsBuf
  <2>3. \A q \in User : (bpc[q] = "reading" => ~valid[cur[q]])'
    BY Zenon, <1>1, <1>2, <1>4 DEF ContentsInv
  <2>4. \A m \in Block : (\/ m \in pinned \/ disk[m] = latest[m]
                         \/ \E q \in User : bpc[q] \in {"changed", "writing"} /\ blockno[cur[q]] = m)'
    BY <1>1, <1>2, <1>4, <1>9 DEF ContentsInv
  <2>5. \A q \in User : (bpc[q] = "written" => disk[blockno[cur[q]]] = latest[blockno[cur[q]]])'
    BY <1>1, <1>2, <1>4, <1>9 DEF ContentsInv
  <2> QED  BY Zenon, <2>1, <2>2, <2>3, <2>4, <2>5 DEF ContentsInv
<1>11. /\ disk' \in [Block -> Value] /\ data' \in [Buf -> Value] /\ latest' \in [Block -> Value]
       /\ block_lock' \in [Buf -> User \cup {Unlocked}] /\ valid' \in [Buf -> BOOLEAN]
  BY Zenon, <1>1, <1>2 DEF BcTypeOK
<1>12. \A c \in Buf : valid[c] => valid'[c]  BY Zenon, <1>1
<1> QED  BY Zenon, <1>1, <1>6, <1>7, <1>8, <1>10, <1>11, <1>12, MovesKeeps

(* The holder changes the block. *)
LEMMA ChangeKeeps ==
  ASSUME CacheCore, NEW p \in User, NEW v \in Value, Change(p, v)
  PROVE  CacheCore'
<1> DEFINE b == cur[p]
           k == blockno[b]
<1>1. /\ bpc[p] = "held" /\ data' = [data EXCEPT ![b] = v] /\ latest' = [latest EXCEPT ![k] = v]
      /\ Moves(p, "changed")
      /\ UNCHANGED <<disk, port, blockno, refcnt, valid, block_lock, lru, pinned, cur>>
  BY Zenon DEF Change, PortStore, BcGoto, Moves
<1>2. BcTypeOK /\ OneBufferPerBlock /\ UsersInv /\ CallsInv /\ PinsInv /\ ContentsInv
  BY Zenon DEF CacheCore
<1>3. b \in Buf /\ k \in Block /\ k # NoBlock  BY Zenon, <1>1, CurFacts
<1>4. bpc'[p] = "changed" /\ \A q \in User : q # p => bpc'[q] = bpc[q]  BY Zenon, <1>1, <1>2, BcTypes DEF Moves
<1>5. Locks(p)  BY Zenon, <1>1 DEF Locks, HoldsBuf
<1>6. UsersInv'  BY Zenon, <1>1, <1>2, <1>4, <1>5, LocksKept
<1>7. /\ data' \in [Buf -> Value] /\ latest' \in [Block -> Value]
      /\ data'[b] = v /\ \A c \in Buf : c # b => data'[c] = data[c]
      /\ latest'[k] = v /\ \A m \in Block : m # k => latest'[m] = latest[m]
  BY Zenon, <1>1, <1>2, <1>3 DEF BcTypeOK
<1>8. \A q \in User : q # p /\ Locks(q) => cur[q] \in Buf /\ blockno[cur[q]] \in Block
                                          /\ cur[q] # b /\ blockno[cur[q]] # k
  BY Zenon, <1>5, Apart, CurFacts DEF Locks, Transfers, HoldsBuf
<1> HIDE DEF b, k
<1>9. CallsInv'
  BY <1>1, <1>2, <1>4, <1>7, <1>8 DEF CallsInv, Transfers, Locks
<1>10. ContentsInv'
  <2>1. ASSUME NEW c \in Buf, valid[c]
        PROVE  blockno[c] # NoBlock /\ data'[c] = latest'[blockno[c]]
    <3>1. blockno[c] # NoBlock /\ data[c] = latest[blockno[c]]  BY Zenon, <1>2, <2>1 DEF ContentsInv
    <3>2. CASE c = b  BY Zenon, <1>3, <1>7, <3>2 DEF b, k
    <3>3. CASE c # b
      <4>1. blockno[c] # k  BY Zenon, <1>2, <1>3, <3>3 DEF OneBufferPerBlock, k
      <4>2. blockno[c] \in Block  BY Zenon, <1>2, <3>1 DEF BcTypeOK
      <4> QED  BY Zenon, <1>7, <3>1, <3>3, <4>1, <4>2
    <3> QED  BY Zenon, <3>2, <3>3
  <2>2. \A q \in User : (HoldsBuf(q) => valid[cur[q]])'
    BY Zenon, <1>1, <1>2, <1>4 DEF ContentsInv, HoldsBuf
  <2>3. \A q \in User : (bpc[q] = "reading" => ~valid[cur[q]])'
    BY <1>1, <1>2, <1>4 DEF ContentsInv
  <2>4. ASSUME NEW m \in Block
        PROVE  \/ m \in pinned \/ disk[m] = latest'[m]
               \/ \E q \in User : bpc'[q] \in {"changed", "writing"} /\ blockno[cur[q]] = m
    <3>1. CASE m = k  BY Zenon, <1>4, <3>1 DEF b, k
    <3>2. CASE m # k
      <4>1. latest'[m] = latest[m]  BY Zenon, <1>7, <3>2
      <4>2. CASE \E q \in User : bpc[q] \in {"changed", "writing"} /\ blockno[cur[q]] = m
        BY Zenon, <1>1, <1>4, <4>2
      <4> QED  BY Zenon, <1>2, <4>1, <4>2 DEF ContentsInv
    <3> QED  BY Zenon, <3>1, <3>2
  <2>5. \A q \in User : (bpc[q] = "written" => disk[blockno[cur[q]]] = latest[blockno[cur[q]]])'
    BY <1>1, <1>2, <1>4, <1>7, <1>8 DEF ContentsInv, Locks, HoldsBuf
  <2> QED  BY <1>1, <2>1, <2>2, <2>3, <2>4, <2>5 DEF ContentsInv
<1>11. /\ disk' \in [Block -> Value] /\ block_lock' \in [Buf -> User \cup {Unlocked}]
       /\ valid' \in [Buf -> BOOLEAN]
       /\ port' \in [User -> {Idle} \cup
                      [at : {"pending", "done"}, buf : Buf, block : Block, write : BOOLEAN]]
  BY Zenon, <1>1, <1>2 DEF BcTypeOK
<1>12. \A c \in Buf : valid[c] => valid'[c]  BY Zenon, <1>1
<1> QED  BY Zenon, <1>1, <1>6, <1>7, <1>9, <1>10, <1>11, <1>12, MovesKeeps

(* bwrite() calls virtio_disk_rw(). *)
LEMMA BwriteKeeps ==
  ASSUME CacheCore, NEW p \in User, Bwrite(p)
  PROVE  CacheCore'
<1> DEFINE b == cur[p]
<1>1. /\ bpc[p] \in {"changed", "held"}
      /\ bpc[p] = "held" => blockno[b] \in pinned
      /\ port' = [port EXCEPT ![p] = Transfer(b, blockno[b], TRUE, "pending")]
      /\ Moves(p, "writing")
      /\ UNCHANGED <<disk, data, blockno, refcnt, valid, block_lock, lru, pinned, cur, latest>>
  BY Zenon DEF Bwrite, PortCall, BcGoto, Moves
<1>2. BcTypeOK /\ OneBufferPerBlock /\ UsersInv /\ CallsInv /\ PinsInv /\ ContentsInv
  BY Zenon DEF CacheCore
<1>3. b \in Buf /\ blockno[b] \in Block /\ blockno[b] # NoBlock  BY Zenon, <1>1, CurFacts
<1>4. bpc'[p] = "writing" /\ \A q \in User : q # p => bpc'[q] = bpc[q]  BY Zenon, <1>1, <1>2, BcTypes DEF Moves
<1>5. Locks(p)  BY Zenon, <1>1 DEF Locks, HoldsBuf
<1>6. UsersInv'  BY Zenon, <1>1, <1>2, <1>4, <1>5, LocksKept
<1>7. /\ port' \in [User -> {Idle} \cup
                      [at : {"pending", "done"}, buf : Buf, block : Block, write : BOOLEAN]]
      /\ port'[p] = Transfer(b, blockno[b], TRUE, "pending")
      /\ \A q \in User : q # p => port'[q] = port[q]
  <2>1. Transfer(b, blockno[b], TRUE, "pending")
          \in [at : {"pending", "done"}, buf : Buf, block : Block, write : BOOLEAN]
    BY Zenon, <1>3 DEF Transfer
  <2> QED  BY Zenon, <1>1, <1>2, <2>1 DEF BcTypeOK
<1>8. CallsInv'
  BY Zenon, <1>1, <1>2, <1>4, <1>7 DEF CallsInv, Transfers, Transfer
<1>9. ContentsInv'
  <2>1. \A c \in Buf : (valid[c] => blockno[c] # NoBlock /\ data[c] = latest[blockno[c]])'
    BY Zenon, <1>1, <1>2 DEF ContentsInv
  <2>2. \A q \in User : (HoldsBuf(q) => valid[cur[q]])'
    BY Zenon, <1>1, <1>2, <1>4 DEF ContentsInv, HoldsBuf
  <2>3. \A q \in User : (bpc[q] = "reading" => ~valid[cur[q]])'
    BY Zenon, <1>1, <1>2, <1>4 DEF ContentsInv
  <2>4. \A m \in Block : (\/ m \in pinned \/ disk[m] = latest[m]
                         \/ \E q \in User : bpc[q] \in {"changed", "writing"} /\ blockno[cur[q]] = m)'
    BY <1>1, <1>2, <1>4 DEF ContentsInv
  <2>5. \A q \in User : (bpc[q] = "written" => disk[blockno[cur[q]]] = latest[blockno[cur[q]]])'
    BY <1>1, <1>2, <1>4 DEF ContentsInv
  <2> QED  BY Zenon, <2>1, <2>2, <2>3, <2>4, <2>5 DEF ContentsInv
<1>10. /\ disk' \in [Block -> Value] /\ data' \in [Buf -> Value] /\ latest' \in [Block -> Value]
       /\ block_lock' \in [Buf -> User \cup {Unlocked}] /\ valid' \in [Buf -> BOOLEAN]
  BY Zenon, <1>1, <1>2 DEF BcTypeOK
<1>11. \A c \in Buf : valid[c] => valid'[c]  BY Zenon, <1>1
<1> QED  BY Zenon, <1>1, <1>6, <1>7, <1>8, <1>9, <1>10, <1>11, MovesKeeps

(* brelse(), up to releasesleep(). *)
LEMMA BrelseKeeps ==
  ASSUME CacheCore, NEW p \in User, Brelse(p)
  PROVE  CacheCore'
<1> DEFINE b == cur[p]
<1>1. /\ bpc[p] \in {"held", "written"} /\ block_lock' = [block_lock EXCEPT ![b] = Unlocked]
      /\ Moves(p, "release")
      /\ UNCHANGED <<disk, data, port, blockno, refcnt, valid, lru, pinned, cur, latest>>
  BY Zenon DEF Brelse, BcGoto, Moves, portVars
<1>2. BcTypeOK /\ OneBufferPerBlock /\ UsersInv /\ CallsInv /\ PinsInv /\ ContentsInv
  BY Zenon DEF CacheCore
<1>3. b \in Buf  BY Zenon, <1>1, CurFacts
<1>4. bpc'[p] = "release" /\ \A q \in User : q # p => bpc'[q] = bpc[q]  BY Zenon, <1>1, <1>2, BcTypes DEF Moves
<1>5. Locks(p)  BY Zenon, <1>1 DEF Locks, HoldsBuf
<1>6. /\ block_lock' \in [Buf -> User \cup {Unlocked}] /\ block_lock'[b] = Unlocked
      /\ \A c \in Buf : c # b => block_lock'[c] = block_lock[c]
  BY Zenon, <1>1, <1>2, <1>3 DEF BcTypeOK
<1>7. UsersInv'
  <2>1. ~Locks(p)' /\ \A q \in User : q # p => (Locks(q)' <=> Locks(q))
    BY Zenon, <1>4 DEF Locks, Transfers, HoldsBuf
  <2>2. ASSUME NEW q \in User, NEW c \in Buf
        PROVE  (block_lock[c] = q <=> cur[q] = c /\ Locks(q))'
    <3>1. block_lock[c] = q <=> cur[q] = c /\ Locks(q)  BY Zenon, <1>2 DEF UsersInv
    <3>2. cur'[q] = cur[q]  BY Zenon, <1>1
    <3>3. Unlocked # q  BY Zenon, BuffersAssumption
    <3>4. q # p /\ Locks(q) => cur[q] # b  BY Zenon, <1>5, Apart
    <3> QED  BY Zenon, <1>6, <2>1, <3>1, <3>2, <3>3, <3>4
  <2>3. \A q \in User : (cur[q] = NoBuf <=> bpc[q] \in {"out", "panic"})'
    BY Zenon, <1>1, <1>2, <1>4 DEF UsersInv
  <2>4. \A q \in User : (cur[q] # NoBuf => blockno[cur[q]] # NoBlock)'
    BY Zenon, <1>1, <1>2 DEF UsersInv
  <2> QED  BY Zenon, <2>2, <2>3, <2>4 DEF UsersInv
<1>8. CallsInv'  BY Zenon, <1>1, <1>2, <1>4 DEF CallsInv, Transfers
<1>9. ContentsInv'
  <2>1. \A c \in Buf : (valid[c] => blockno[c] # NoBlock /\ data[c] = latest[blockno[c]])'
    BY Zenon, <1>1, <1>2 DEF ContentsInv
  <2>2. \A q \in User : (HoldsBuf(q) => valid[cur[q]])'
    BY Zenon, <1>1, <1>2, <1>4 DEF ContentsInv, HoldsBuf
  <2>3. \A q \in User : (bpc[q] = "reading" => ~valid[cur[q]])'
    BY Zenon, <1>1, <1>2, <1>4 DEF ContentsInv
  <2>4. \A m \in Block : (\/ m \in pinned \/ disk[m] = latest[m]
                         \/ \E q \in User : bpc[q] \in {"changed", "writing"} /\ blockno[cur[q]] = m)'
    BY <1>1, <1>2, <1>4 DEF ContentsInv
  <2>5. \A q \in User : (bpc[q] = "written" => disk[blockno[cur[q]]] = latest[blockno[cur[q]]])'
    BY <1>1, <1>2, <1>4 DEF ContentsInv
  <2> QED  BY Zenon, <2>1, <2>2, <2>3, <2>4, <2>5 DEF ContentsInv
<1>10. /\ disk' \in [Block -> Value] /\ data' \in [Buf -> Value] /\ latest' \in [Block -> Value]
       /\ valid' \in [Buf -> BOOLEAN]
       /\ port' \in [User -> {Idle} \cup
                      [at : {"pending", "done"}, buf : Buf, block : Block, write : BOOLEAN]]
  BY Zenon, <1>1, <1>2 DEF BcTypeOK
<1>11. \A c \in Buf : valid[c] => valid'[c]  BY Zenon, <1>1
<1> QED  BY Zenon, <1>1, <1>6, <1>7, <1>8, <1>9, <1>10, <1>11, MovesKeeps
-----------------------------------------------------------------------------
(* The transfer of a block: of the buffer that the caller has locked. *)
LEMMA DiskTransferKeeps ==
  ASSUME CacheCore, NEW p \in User, DiskTransfer(p)
  PROVE  CacheCore'
<1> DEFINE b == cur[p]
           k == blockno[b]
<1>1. /\ port[p].at = "pending" /\ port' = [port EXCEPT ![p].at = "done"]
      /\ IF port[p].write
           THEN disk' = [disk EXCEPT ![port[p].block] = data[port[p].buf]] /\ UNCHANGED data
           ELSE data' = [data EXCEPT ![port[p].buf] = disk[port[p].block]] /\ UNCHANGED disk
      /\ UNCHANGED <<blockno, refcnt, valid, block_lock, lru, pinned, bpc, cur, latest>>
  BY Zenon DEF DiskTransfer, PortTransfer, bcacheVars
<1>2. BcTypeOK /\ OneBufferPerBlock /\ UsersInv /\ CallsInv /\ PinsInv /\ ContentsInv
  BY Zenon DEF CacheCore
<1>3. Transfers(p)
  <2>1. port[p] # Idle  BY <1>1 DEF Idle
  <2> QED  BY Zenon, <1>2, <2>1 DEF CallsInv
<1>4. port[p].buf = b /\ port[p].block = k /\ (port[p].write <=> bpc[p] = "writing")
  BY Zenon, <1>2, <1>3 DEF CallsInv
<1>5. b \in Buf /\ k \in Block /\ k # NoBlock  BY Zenon, <1>3, CurFacts DEF Transfers
<1>6. Locks(p)  BY Zenon, <1>3 DEF Locks
<1>7. \A q \in User : q # p /\ Locks(q) => cur[q] \in Buf /\ blockno[cur[q]] \in Block
                                          /\ cur[q] # b /\ blockno[cur[q]] # k
  BY Zenon, <1>6, Apart, CurFacts DEF Locks, Transfers, HoldsBuf
<1> HIDE DEF b, k
<1>8. /\ port' \in [User -> {Idle} \cup
                      [at : {"pending", "done"}, buf : Buf, block : Block, write : BOOLEAN]]
      /\ \A q \in User : q # p => port'[q] = port[q]
      /\ port'[p].at = "done" /\ port'[p].buf = b /\ port'[p].block = k
      /\ port'[p].write <=> bpc[p] = "writing"
  <2>1. port \in [User -> {Idle} \cup
                      [at : {"pending", "done"}, buf : Buf, block : Block, write : BOOLEAN]]
    BY Zenon, <1>2 DEF BcTypeOK
  <2>2. port[p] \in [at : {"pending", "done"}, buf : Buf, block : Block, write : BOOLEAN]
    BY <1>1, <2>1 DEF Idle
  <2>3. PICK r : r = [port[p] EXCEPT !.at = "done"]  BY Zenon
  <2>4. /\ r \in [at : {"pending", "done"}, buf : Buf, block : Block, write : BOOLEAN]
        /\ r.at = "done" /\ r.buf = port[p].buf /\ r.block = port[p].block
        /\ r.write = port[p].write
    BY Zenon, <2>2, <2>3
  <2>5. port' = [port EXCEPT ![p] = r]  BY Zenon, <1>1, <2>3
  <2>6. port'[p] = r /\ \A q \in User : q # p => port'[q] = port[q]  BY Zenon, <2>1, <2>5
  <2>7. port' \in [User -> {Idle} \cup
                      [at : {"pending", "done"}, buf : Buf, block : Block, write : BOOLEAN]]
    BY Zenon, <2>1, <2>4, <2>5
  <2> QED  BY Zenon, <1>4, <2>4, <2>6, <2>7
<1>9. disk'[k] = data'[b] /\ disk' \in [Block -> Value] /\ data' \in [Buf -> Value]
  BY <1>1, <1>2, <1>4, <1>5 DEF BcTypeOK
<1>10. /\ \A m \in Block : m # k => disk'[m] = disk[m]
       /\ \A c \in Buf : c # b => data'[c] = data[c]
  BY Zenon, <1>1, <1>2, <1>4, <1>5 DEF BcTypeOK
<1>11. bpc[p] = "writing" => disk'[k] = latest[k] /\ data'[b] = data[b]
  <2> SUFFICES ASSUME bpc[p] = "writing"  PROVE disk'[k] = latest[k] /\ data'[b] = data[b]
    BY Zenon
  <2>1. valid[b]  BY Zenon, <1>2 DEF ContentsInv, HoldsBuf, b
  <2>2. data[b] = latest[k]  BY Zenon, <1>2, <1>5, <2>1 DEF ContentsInv, k
  <2>3. UNCHANGED data  BY Zenon, <1>1, <1>4
  <2> QED  BY Zenon, <1>9, <2>2, <2>3
<1>12. bpc[p] = "reading" => ~valid[b] /\ disk'[k] = disk[k]
  BY Zenon, <1>1, <1>2, <1>4 DEF ContentsInv, b
<1>13. bpc[p] \in {"reading", "writing"}  BY Zenon, <1>3 DEF Transfers
<1>14. BcTypeOK'  BY <1>1, <1>2, <1>8, <1>9 DEF BcTypeOK, LruOK
<1>15. \A q \in User : (Locks(q)' <=> Locks(q)) /\ (HoldsBuf(q)' <=> HoldsBuf(q))
                       /\ (Transfers(q)' <=> Transfers(q))
  BY Zenon, <1>1 DEF Locks, HoldsBuf, Transfers
<1>16. UsersInv'  BY <1>1, <1>2, <1>15 DEF UsersInv
<1>17. OneBufferPerBlock'
  <2>1. \A q, r \in User : (HoldsBuf(q) /\ HoldsBuf(r) /\ cur[q] = cur[r] => q = r)'
    BY Zenon, <1>1, <1>2, <1>15 DEF OneBufferPerBlock
  <2> QED  BY Zenon, <1>1, <1>2, <2>1, CountsKept
<1>18. BuffersSuffice'  BY Zenon, <1>1 DEF CacheCore, BuffersSuffice
<1>19. PinsInv'  BY Zenon, <1>1, <1>2 DEF PinsInv
<1>20. CallsInv'
  <2> SUFFICES ASSUME NEW q \in User
               PROVE  (IF Transfers(q)
                        THEN /\ port[q].at \in {"pending", "done"} /\ port[q].buf = cur[q]
                             /\ port[q].block = blockno[cur[q]] /\ (port[q].write <=> bpc[q] = "writing")
                             /\ port[q].at = "done" => disk[blockno[cur[q]]] = data[cur[q]]
                        ELSE port[q] = Idle)'
    BY Zenon DEF CallsInv
  <2>1. CASE q = p  BY Zenon, <1>1, <1>3, <1>8, <1>9, <1>15, <2>1 DEF b, k
  <2>2. CASE q # p  BY <1>1, <1>2, <1>7, <1>8, <1>10, <1>15, <2>2 DEF CallsInv, Locks
  <2> QED  BY Zenon, <2>1, <2>2
<1>21. ContentsInv'
  <2>1. ASSUME NEW c \in Buf, valid[c]
        PROVE  blockno[c] # NoBlock /\ data'[c] = latest[blockno[c]]
    <3>1. blockno[c] # NoBlock /\ data[c] = latest[blockno[c]]  BY Zenon, <1>2, <2>1 DEF ContentsInv
    <3>2. data'[c] = data[c]  BY Zenon, <1>10, <1>11, <1>12, <1>13, <2>1
    <3> QED  BY Zenon, <3>1, <3>2
  <2>2. \A q \in User : (HoldsBuf(q) => valid[cur[q]])'
    BY Zenon, <1>1, <1>2, <1>15 DEF ContentsInv
  <2>3. \A q \in User : (bpc[q] = "reading" => ~valid[cur[q]])'
    BY Zenon, <1>1, <1>2 DEF ContentsInv
  <2>4. ASSUME NEW m \in Block
        PROVE  \/ m \in pinned \/ disk'[m] = latest[m]
               \/ \E q \in User : bpc[q] \in {"changed", "writing"} /\ blockno[cur[q]] = m
    <3>1. m # k => disk'[m] = disk[m]  BY Zenon, <1>10
    <3>2. \/ m \in pinned \/ disk[m] = latest[m]
          \/ \E q \in User : bpc[q] \in {"changed", "writing"} /\ blockno[cur[q]] = m
      BY Zenon, <1>2 DEF ContentsInv
    <3> QED  BY Zenon, <1>11, <1>12, <1>13, <3>1, <3>2
  <2>5. ASSUME NEW q \in User, bpc[q] = "written"
        PROVE  disk'[blockno[cur[q]]] = latest[blockno[cur[q]]]
    <3>1. q # p /\ Locks(q)  BY Zenon, <1>13, <2>5 DEF Locks, HoldsBuf
    <3> QED  BY Zenon, <1>2, <1>7, <1>10, <2>5, <3>1 DEF ContentsInv
  <2> QED  BY Zenon, <1>1, <2>1, <2>2, <2>3, <2>4, <2>5 DEF ContentsInv
<1> QED  BY Zenon, <1>14, <1>16, <1>17, <1>18, <1>19, <1>20, <1>21 DEF CacheCore
-----------------------------------------------------------------------------
(* log_write(): bpin(). *)
LEMMA BpinKeeps ==
  ASSUME CacheCore, NEW p \in User, Bpin(p)
  PROVE  CacheCore'
<1> DEFINE b == cur[p]
           k == blockno[b]
<1>1. /\ bpc[p] = "changed" /\ bpc' = [bpc EXCEPT ![p] = "held"]
      /\ k \in pinned \/ Cardinality(pinned) < MaxPinned
      /\ refcnt' = IF k \in pinned THEN refcnt ELSE [refcnt EXCEPT ![b] = @ + 1]
      /\ pinned' = pinned \cup {k}
      /\ UNCHANGED <<disk, data, port, blockno, valid, block_lock, lru, cur, latest>>
  BY Zenon DEF Bpin, PinRef, BcGoto, portVars
<1>2. BcTypeOK /\ OneBufferPerBlock /\ UsersInv /\ CallsInv /\ PinsInv /\ ContentsInv
  BY Zenon DEF CacheCore
<1>3. b \in Buf /\ k \in Block /\ k # NoBlock  BY Zenon, <1>1, CurFacts
<1>4. bpc'[p] = "held" /\ \A q \in User : q # p => bpc'[q] = bpc[q]  BY Zenon, <1>1, <1>2, BcTypes
<1>5. Locks(p) /\ HoldsBuf(p)  BY Zenon, <1>1 DEF Locks, HoldsBuf
<1>6. UsersInv'  BY Zenon, <1>1, <1>2, <1>4, <1>5, LocksKept
<1>7. \A c \in Buf : blockno[c] = k => c = b  BY Zenon, <1>2, <1>3 DEF OneBufferPerBlock
<1>8. valid[b]  BY Zenon, <1>2, <1>5 DEF ContentsInv
<1>9. blockno[b] = k  BY Zenon
<1> HIDE DEF b, k
<1>10. ASSUME NEW c \in Buf  PROVE refcnt'[c] = Cardinality(Users(c)') + Pins(c)'
  <2>1. refcnt[c] = Cardinality(Users(c)) + Pins(c)  BY Zenon, <1>2 DEF OneBufferPerBlock
  <2>2. Users(c)' = Users(c)  BY Zenon, <1>1 DEF Users
  <2>3. refcnt \in [Buf -> Nat]  BY Zenon, <1>2, BcTypes
  <2>4. CASE c # b
    <3>1. Pins(c)' = Pins(c)  BY Zenon, <1>1, <1>7, <2>4 DEF Pins
    <3>2. refcnt'[c] = refcnt[c]  BY Zenon, <1>1, <1>3, <2>3, <2>4
    <3> QED  BY Zenon, <2>1, <2>2, <3>1, <3>2
  <2>5. CASE c = b /\ k \in pinned
    <3>1. Pins(c)' = Pins(c)  BY Zenon, <1>1, <1>9, <2>5 DEF Pins
    <3>2. refcnt'[c] = refcnt[c]  BY Zenon, <1>1, <2>5
    <3> QED  BY Zenon, <2>1, <2>2, <3>1, <3>2
  <2>6. CASE c = b /\ k \notin pinned
    <3>1. Pins(c)' = 1 /\ Pins(c) = 0  BY Zenon, <1>1, <1>9, <2>6 DEF Pins
    <3>2. refcnt'[c] = refcnt[c] + 1  BY Zenon, <1>1, <2>3, <2>6
    <3> QED  BY <2>1, <2>2, <3>1, <3>2, UserCount
  <2> QED  BY Zenon, <2>4, <2>5, <2>6
<1>11. OneBufferPerBlock'
  <2>1. \A q, r \in User : (HoldsBuf(q) /\ HoldsBuf(r) /\ cur[q] = cur[r])' => q = r
    BY Zenon, <1>1, <1>2, <1>4, <1>5 DEF OneBufferPerBlock, HoldsBuf
  <2> QED  BY Zenon, <1>1, <1>2, <1>10, <2>1 DEF OneBufferPerBlock
<1>12. BcTypeOK'
  <2>1. CountsOK'  BY <1>11, CountsInRange, PTL
  <2>2. refcnt' \in [Buf -> 0..(Cardinality(User) + 1)]
    <3>1. refcnt' \in [Buf -> Nat]  BY <1>1, <1>2, <1>3, BcTypes
    <3> QED  BY Zenon, <2>1, <3>1 DEF CountsOK
  <2>3. pinned' \in SUBSET Block  BY Zenon, <1>1, <1>2, <1>3 DEF BcTypeOK
  <2> QED  BY Zenon, <1>1, <1>2, <2>2, <2>3 DEF BcTypeOK, LruOK
<1>13. BuffersSuffice'  BY Zenon, <1>4 DEF CacheCore, BuffersSuffice
<1>14. CallsInv'  BY Zenon, <1>1, <1>2, <1>4 DEF CallsInv, Transfers
<1>15. PinsInv'
  <2>1. IsFiniteSet(pinned) /\ Cardinality(pinned) <= MaxPinned  BY Zenon, <1>2 DEF PinsInv
  <2>2. IsFiniteSet(pinned') /\ Cardinality(pinned') <= MaxPinned
    <3>1. /\ IsFiniteSet(pinned \cup {k})
          /\ Cardinality(pinned \cup {k}) =
                IF k \in pinned THEN Cardinality(pinned) ELSE Cardinality(pinned) + 1
      BY Zenon, <2>1, FS_AddElement
    <3>2. Cardinality(pinned) \in Nat /\ MaxPinned \in Nat
      BY Zenon, <2>1, FS_CardinalityType, BuffersAssumption
    <3> QED  BY <1>1, <2>1, <3>1, <3>2
  <2>3. \A m \in pinned' : \E c \in Buf : blockno'[c] = m /\ valid'[c]
    BY Zenon, <1>1, <1>2, <1>3, <1>8, <1>9 DEF PinsInv
  <2> QED  BY Zenon, <2>2, <2>3 DEF PinsInv
<1>16. ContentsInv'
  <2>1. \A c \in Buf : (valid[c] => blockno[c] # NoBlock /\ data[c] = latest[blockno[c]])'
    BY Zenon, <1>1, <1>2 DEF ContentsInv
  <2>2. \A q \in User : (HoldsBuf(q) => valid[cur[q]])'
    BY Zenon, <1>1, <1>2, <1>4, <1>5 DEF ContentsInv, HoldsBuf
  <2>3. \A q \in User : (bpc[q] = "reading" => ~valid[cur[q]])'
    BY <1>1, <1>2, <1>4 DEF ContentsInv
  <2>4. ASSUME NEW m \in Block
        PROVE  (\/ m \in pinned \/ disk[m] = latest[m]
                \/ \E q \in User : bpc[q] \in {"changed", "writing"} /\ blockno[cur[q]] = m)'
    BY <1>1, <1>2, <1>4 DEF ContentsInv, b, k
  <2>5. \A q \in User : (bpc[q] = "written" => disk[blockno[cur[q]]] = latest[blockno[cur[q]]])'
    BY <1>1, <1>2, <1>4 DEF ContentsInv
  <2> QED  BY Zenon, <2>1, <2>2, <2>3, <2>4, <2>5 DEF ContentsInv
<1> QED  BY Zenon, <1>6, <1>11, <1>12, <1>13, <1>14, <1>15, <1>16 DEF CacheCore

(* install_trans(): bunpin(), after the block is on disk. *)
LEMMA BunpinKeeps ==
  ASSUME CacheCore, NEW p \in User, Bunpin(p)
  PROVE  CacheCore'
<1> DEFINE b == cur[p]
           k == blockno[b]
<1>1. /\ bpc[p] = "written" /\ k \in pinned
      /\ refcnt' = [refcnt EXCEPT ![b] = @ - 1]
      /\ pinned' = pinned \ {k}
      /\ UNCHANGED <<disk, data, port, blockno, valid, block_lock, lru, bpc, cur, latest>>
  BY Zenon DEF Bunpin, UnpinRef, portVars
<1>2. BcTypeOK /\ OneBufferPerBlock /\ UsersInv /\ CallsInv /\ PinsInv /\ ContentsInv
  BY Zenon DEF CacheCore
<1>3. b \in Buf /\ k \in Block /\ k # NoBlock  BY Zenon, <1>1, CurFacts
<1>4. \A q \in User : (Locks(q)' <=> Locks(q)) /\ (HoldsBuf(q)' <=> HoldsBuf(q))
                       /\ (Transfers(q)' <=> Transfers(q))
  BY Zenon, <1>1 DEF Locks, HoldsBuf, Transfers
<1>5. UsersInv'  BY Zenon, <1>1, <1>2, <1>4 DEF UsersInv
<1>6. \A c \in Buf : blockno[c] = k => c = b  BY Zenon, <1>2, <1>3 DEF OneBufferPerBlock
<1>7. blockno[b] = k  BY Zenon
<1>8. disk[k] = latest[k]  BY Zenon, <1>1, <1>2 DEF ContentsInv
<1> HIDE DEF b, k
<1>9. ASSUME NEW c \in Buf  PROVE refcnt'[c] = Cardinality(Users(c)') + Pins(c)'
  <2>1. refcnt[c] = Cardinality(Users(c)) + Pins(c)  BY Zenon, <1>2 DEF OneBufferPerBlock
  <2>2. Users(c)' = Users(c)  BY Zenon, <1>1 DEF Users
  <2>3. refcnt \in [Buf -> Nat]  BY Zenon, <1>2, BcTypes
  <2>4. CASE c # b
    <3>1. Pins(c)' = Pins(c)  BY Zenon, <1>1, <1>6, <2>4 DEF Pins
    <3>2. refcnt'[c] = refcnt[c]  BY Zenon, <1>1, <1>3, <2>3, <2>4
    <3> QED  BY Zenon, <2>1, <2>2, <3>1, <3>2
  <2>5. CASE c = b
    <3>1. Pins(c)' = 0 /\ Pins(c) = 1  BY Zenon, <1>1, <1>7, <2>5 DEF Pins
    <3>2. refcnt'[c] = refcnt[c] - 1  BY Zenon, <1>1, <2>3, <2>5
    <3> QED  BY <2>1, <2>2, <3>1, <3>2, UserCount
  <2> QED  BY Zenon, <2>4, <2>5
<1>10. OneBufferPerBlock'
  <2>1. \A q, r \in User : (HoldsBuf(q) /\ HoldsBuf(r) /\ cur[q] = cur[r])' => q = r
    BY Zenon, <1>1, <1>2, <1>4 DEF OneBufferPerBlock
  <2> QED  BY Zenon, <1>1, <1>2, <1>9, <2>1 DEF OneBufferPerBlock
<1>11. BcTypeOK'
  <2>1. CountsOK'  BY <1>10, CountsInRange, PTL
  <2>2. refcnt' \in [Buf -> 0..(Cardinality(User) + 1)]
    BY Zenon, <1>1, <1>2, <2>1, BcTypes DEF CountsOK
  <2>3. pinned' \in SUBSET Block  BY Zenon, <1>1, <1>2 DEF BcTypeOK
  <2> QED  BY Zenon, <1>1, <1>2, <2>2, <2>3 DEF BcTypeOK, LruOK
<1>12. BuffersSuffice'  BY Zenon, <1>1 DEF CacheCore, BuffersSuffice
<1>13. CallsInv'  BY Zenon, <1>1, <1>2, <1>4 DEF CallsInv
<1>14. PinsInv'
  <2>1. IsFiniteSet(pinned) /\ Cardinality(pinned) <= MaxPinned  BY Zenon, <1>2 DEF PinsInv
  <2>2. pinned' \in SUBSET pinned  BY Zenon, <1>1
  <2>3. IsFiniteSet(pinned') /\ Cardinality(pinned') <= Cardinality(pinned)  BY Zenon, <2>1, <2>2, FS_Subset
  <2>4. Cardinality(pinned) \in Nat /\ Cardinality(pinned') \in Nat /\ MaxPinned \in Nat
    BY Zenon, <2>1, <2>3, FS_CardinalityType, BuffersAssumption
  <2> QED  BY <1>1, <1>2, <2>1, <2>2, <2>3, <2>4 DEF PinsInv
<1>15. ContentsInv'
  <2>1. \A q \in User : (HoldsBuf(q) => valid[cur[q]])'
    BY Zenon, <1>1, <1>2, <1>4 DEF ContentsInv
  <2>2. ASSUME NEW m \in Block
        PROVE  (\/ m \in pinned \/ disk[m] = latest[m]
                \/ \E q \in User : bpc[q] \in {"changed", "writing"} /\ blockno[cur[q]] = m)'
    BY Zenon, <1>1, <1>2, <1>8 DEF ContentsInv
  <2> QED  BY Zenon, <1>1, <1>2, <2>1, <2>2 DEF ContentsInv
<1> QED  BY Zenon, <1>5, <1>10, <1>11, <1>12, <1>13, <1>14, <1>15 DEF CacheCore

(* A buffer moves to the front of the list, which stays a permutation. *)
LEMMA ToFrontKeeps ==
  ASSUME LruOK, NEW b \in Buf
  PROVE  /\ Len(ToFront(b)) = NBUF /\ ToFront(b) \in Seq(Buf)
         /\ \A c \in Buf : \E i \in 1..NBUF : ToFront(b)[i] = c
<1> DEFINE j == CHOOSE i \in 1..NBUF : lru[i] = b
<1>1. j \in 1..NBUF /\ lru[j] = b  BY Zenon DEF LruOK
<1>2. ToFront(b) = [i \in 1..NBUF |-> IF i = 1 THEN b ELSE IF i <= j THEN lru[i - 1] ELSE lru[i]]
  BY Zenon DEF ToFront
<1> HIDE DEF j
<1>3. NBUF \in Nat /\ lru \in Seq(Buf) /\ Len(lru) = NBUF  BY Zenon, BuffersAssumption DEF LruOK
<1>4. \A i \in 1..NBUF : lru[i] \in Buf  BY <1>3
<1>5. \A i \in 1..NBUF : ToFront(b)[i] \in Buf  BY <1>1, <1>2, <1>3, <1>4
<1>6. ToFront(b) \in [1..NBUF -> Buf]  BY Zenon, <1>2, <1>5
<1>7. ToFront(b) \in Seq(Buf) /\ Len(ToFront(b)) = NBUF  BY <1>3, <1>6
<1>8. ASSUME NEW c \in Buf  PROVE \E i \in 1..NBUF : ToFront(b)[i] = c
  <2>1. PICK n \in 1..NBUF : lru[n] = c  BY Zenon DEF LruOK
  <2>2. CASE c = b
    <3>1. 1 \in 1..NBUF  BY <1>1, <1>3
    <3> QED  BY Zenon, <1>2, <2>2, <3>1
  <2>3. CASE c # b /\ n < j
    <3>1. n + 1 \in 1..NBUF /\ n + 1 # 1 /\ n + 1 <= j /\ n + 1 - 1 = n  BY <1>1, <1>3, <2>3
    <3>2. ToFront(b)[n + 1] = lru[n]  BY <1>2, <3>1
    <3> QED  BY Zenon, <2>1, <3>1, <3>2
  <2>4. CASE c # b /\ ~(n < j)
    <3>1. n # j  BY Zenon, <1>1, <2>1, <2>4
    <3>2. n # 1 /\ ~(n <= j)  BY <1>1, <1>3, <2>4, <3>1
    <3>3. ToFront(b)[n] = lru[n]  BY Zenon, <1>2, <3>2
    <3> QED  BY Zenon, <2>1, <3>3
  <2> QED  BY Zenon, <2>2, <2>3, <2>4
<1> QED  BY Zenon, <1>7, <1>8

(* brelse(), the critical section of bcache.lock. *)
LEMMA DropKeeps ==
  ASSUME CacheCore, NEW p \in User, Drop(p)
  PROVE  CacheCore'
<1> DEFINE b == cur[p]
<1>1. /\ bpc[p] = "release" /\ bpc' = [bpc EXCEPT ![p] = "out"]
      /\ refcnt' = [refcnt EXCEPT ![b] = @ - 1]
      /\ lru' = IF refcnt[b] = 1 THEN ToFront(b) ELSE lru
      /\ cur' = [cur EXCEPT ![p] = NoBuf]
      /\ UNCHANGED <<disk, data, port, blockno, valid, block_lock, pinned, latest>>
  BY Zenon DEF Drop, BcGoto, portVars
<1>2. BcTypeOK /\ OneBufferPerBlock /\ UsersInv /\ CallsInv /\ PinsInv /\ ContentsInv
  BY Zenon DEF CacheCore
<1>3. b \in Buf /\ b # NoBuf  BY Zenon, <1>1, CurFacts
<1>4. \A q \in User : q # p => cur'[q] = cur[q] /\ bpc'[q] = bpc[q]  BY Zenon, <1>1, <1>2, BcTypes
<1>5. cur'[p] = NoBuf /\ bpc'[p] = "out"  BY Zenon, <1>1, <1>2, BcTypes
<1>6. b = cur[p]  BY Zenon
<1> HIDE DEF b
<1>7. ASSUME NEW c \in Buf  PROVE refcnt'[c] = Cardinality(Users(c)') + Pins(c)'
  <2>1. refcnt[c] = Cardinality(Users(c)) + Pins(c)  BY Zenon, <1>2 DEF OneBufferPerBlock
  <2>2. Pins(c)' = Pins(c) /\ Pins(c) \in Nat  BY Zenon, <1>1 DEF Pins
  <2>3. refcnt \in [Buf -> Nat]  BY Zenon, <1>2, BcTypes
  <2>4. CASE c = b
    <3>1. Cardinality(Users(c)') = Cardinality(Users(c)) - 1
      BY Zenon, <1>1, <1>2, <1>3, <1>6, <2>4, OneLessUser
    <3>2. refcnt'[c] = refcnt[c] - 1  BY Zenon, <1>1, <2>3, <2>4
    <3> QED  BY <2>1, <2>2, <3>1, <3>2, UserCount
  <2>5. CASE c # b
    <3>1. Users(c)' = Users(c)  BY Zenon, <1>1, <1>2, <1>3, <1>6, <2>5, OneLessUser
    <3>2. refcnt'[c] = refcnt[c]  BY Zenon, <1>1, <1>3, <2>3, <2>5
    <3> QED  BY Zenon, <2>1, <2>2, <3>1, <3>2
  <2> QED  BY Zenon, <2>4, <2>5
<1>8. OneBufferPerBlock'
  <2>1. \A q, r \in User : (HoldsBuf(q) /\ HoldsBuf(r) /\ cur[q] = cur[r])' => q = r
    BY <1>2, <1>4, <1>5 DEF OneBufferPerBlock, HoldsBuf
  <2> QED  BY Zenon, <1>1, <1>2, <1>7, <2>1 DEF OneBufferPerBlock
<1>9. BcTypeOK'
  <2>1. CountsOK'  BY <1>8, CountsInRange, PTL
  <2>2. refcnt' \in [Buf -> 0..(Cardinality(User) + 1)]
    BY Zenon, <1>1, <1>2, <2>1, BcTypes DEF CountsOK
  <2>3. LruOK'
    <3>1. LruOK  BY Zenon, <1>2 DEF BcTypeOK
    <3>2. CASE refcnt[b] = 1  BY Zenon, <1>1, <1>3, <3>1, <3>2, ToFrontKeeps DEF LruOK
    <3>3. CASE refcnt[b] # 1  BY Zenon, <1>1, <3>1, <3>3 DEF LruOK
    <3> QED  BY Zenon, <3>2, <3>3
  <2>4. cur' \in [User -> Buf \cup {NoBuf}]  BY Zenon, <1>1, <1>2 DEF BcTypeOK
  <2> QED  BY Zenon, <1>1, <1>2, <2>2, <2>3, <2>4 DEF BcTypeOK
<1>10. BuffersSuffice'  BY Zenon, <1>4, <1>5 DEF CacheCore, BuffersSuffice
<1>11. UsersInv'
  <2>1. ~Locks(p) /\ ~Locks(p)'  BY Zenon, <1>1, <1>5 DEF Locks, Transfers, HoldsBuf
  <2>2. \A q \in User : q # p => (Locks(q)' <=> Locks(q))
    BY Zenon, <1>4 DEF Locks, Transfers, HoldsBuf
  <2>3. ASSUME NEW q \in User, NEW c \in Buf
        PROVE  (block_lock[c] = q <=> cur[q] = c /\ Locks(q))'
    <3>1. block_lock[c] = q <=> cur[q] = c /\ Locks(q)  BY Zenon, <1>2 DEF UsersInv
    <3> QED  BY Zenon, <1>1, <1>4, <2>1, <2>2, <3>1
  <2>4. \A q \in User : (cur[q] = NoBuf <=> bpc[q] \in {"out", "panic"})'
    BY Zenon, <1>2, <1>4, <1>5 DEF UsersInv
  <2>5. \A q \in User : (cur[q] # NoBuf => blockno[cur[q]] # NoBlock)'
    BY <1>1, <1>2, <1>4, <1>5 DEF UsersInv
  <2> QED  BY Zenon, <2>3, <2>4, <2>5 DEF UsersInv
<1>12. CallsInv'  BY <1>1, <1>2, <1>4, <1>5 DEF CallsInv, Transfers
<1>13. PinsInv'  BY Zenon, <1>1, <1>2 DEF PinsInv
<1>14. ContentsInv'
  <2>1. \A c \in Buf : (valid[c] => blockno[c] # NoBlock /\ data[c] = latest[blockno[c]])'
    BY Zenon, <1>1, <1>2 DEF ContentsInv
  <2>2. \A q \in User : (HoldsBuf(q) => valid[cur[q]])'
    BY ZenonT(60), <1>1, <1>2, <1>4, <1>5 DEF ContentsInv, HoldsBuf
  <2>3. \A q \in User : (bpc[q] = "reading" => ~valid[cur[q]])'
    BY <1>1, <1>2, <1>4, <1>5 DEF ContentsInv
  <2>4. ASSUME NEW m \in Block
        PROVE  (\/ m \in pinned \/ disk[m] = latest[m]
                \/ \E q \in User : bpc[q] \in {"changed", "writing"} /\ blockno[cur[q]] = m)'
    BY <1>1, <1>2, <1>4, <1>5 DEF ContentsInv
  <2>5. \A q \in User : (bpc[q] = "written" => disk[blockno[cur[q]]] = latest[blockno[cur[q]]])'
    BY <1>1, <1>2, <1>4, <1>5 DEF ContentsInv
  <2> QED  BY Zenon, <2>1, <2>2, <2>3, <2>4, <2>5 DEF ContentsInv
<1> QED  BY Zenon, <1>8, <1>9, <1>10, <1>11, <1>12, <1>13, <1>14 DEF CacheCore
-----------------------------------------------------------------------------
(* binit() establishes the invariant. *)
LEMMA CacheStarts == BcInit => CacheCore
<1> SUFFICES ASSUME BcInit  PROVE CacheCore
  BY Zenon
<1> USE DEF BcInit
<1>1. NBUF \in Nat /\ Buf = 1..NBUF /\ 0 \in Value  BY Zenon, BuffersAssumption
<1>2. OneBufferPerBlock
  <2>1. \A b \in Buf : b # NoBuf  BY <1>1 DEF NoBuf
  <2>2. ASSUME NEW b \in Buf  PROVE refcnt[b] = Cardinality(Users(b)) + Pins(b)
    <3>1. Users(b) = {}  BY Zenon, <2>1 DEF Users
    <3>2. Cardinality(Users(b)) = 0  BY Zenon, <3>1, UserCount
    <3>3. Pins(b) = 0  BY Zenon DEF Pins
    <3> QED  BY <3>2, <3>3
  <2> QED  BY Zenon, <2>2 DEF OneBufferPerBlock, HoldsBuf
<1>3. BcTypeOK
  <2>1. LruOK
    <3>1. \A i \in 1..NBUF : lru[i] \in Buf  BY <1>1
    <3>2. lru \in [1..NBUF -> Buf]  BY Zenon, <3>1
    <3>3. lru \in Seq(Buf) /\ Len(lru) = NBUF  BY <1>1, <3>2
    <3>4. ASSUME NEW b \in Buf  PROVE \E i \in 1..NBUF : lru[i] = b
      <4>1. NBUF + 1 - b \in 1..NBUF  BY <1>1
      <4>2. lru[NBUF + 1 - b] = b  BY <1>1, <4>1
      <4> QED  BY Zenon, <4>1, <4>2
    <3> QED  BY Zenon, <3>3, <3>4 DEF LruOK
  <2>2. CountsOK  BY Zenon, <1>2, CountsInRange
  <2>3. refcnt \in [Buf -> 0..(Cardinality(User) + 1)]  BY Zenon, <2>2 DEF CountsOK
  <2> QED  BY Zenon, <1>1, <2>1, <2>3 DEF BcTypeOK
<1>4. BuffersSuffice  BY Zenon DEF BuffersSuffice
<1>5. UsersInv
  BY Zenon, BuffersAssumption DEF UsersInv, Locks, Transfers, HoldsBuf
<1>6. CallsInv  BY Zenon DEF CallsInv, Transfers
<1>7. PinsInv
  <2>1. IsFiniteSet(pinned) /\ Cardinality(pinned) = 0  BY Zenon, FS_EmptySet
  <2> QED  BY <2>1, BuffersAssumption DEF PinsInv
<1>8. ContentsInv  BY Zenon DEF ContentsInv, HoldsBuf
<1> QED  BY Zenon, <1>2, <1>3, <1>4, <1>5, <1>6, <1>7, <1>8 DEF CacheCore

(* Every step preserves it. *)
LEMMA CacheSteps == CacheCore /\ [BcNext]_bcVars => CacheCore'
<1> SUFFICES ASSUME CacheCore, [BcNext]_bcVars  PROVE CacheCore'
  BY Zenon
<1>1. CASE UNCHANGED bcVars
  <2>1. UNCHANGED <<disk, data, port, blockno, refcnt, valid, block_lock, lru, pinned, bpc, cur, latest>>
    BY Zenon, <1>1 DEF bcVars, portVars, bcacheVars
  <2>2. \A b : Users(b)' = Users(b) /\ Pins(b)' = Pins(b)  BY Zenon, <2>1 DEF Users, Pins
  <2>3. \A p : (HoldsBuf(p)' <=> HoldsBuf(p)) /\ (Locks(p)' <=> Locks(p)) /\ (Transfers(p)' <=> Transfers(p))
    BY Zenon, <2>1 DEF HoldsBuf, Locks, Transfers
  <2>4. BcTypeOK' /\ BuffersSuffice'
    BY Zenon, <2>1 DEF CacheCore, BcTypeOK, LruOK, BuffersSuffice
  <2>5. OneBufferPerBlock'  BY Zenon, <2>1, <2>2, <2>3 DEF CacheCore, OneBufferPerBlock
  <2>6. UsersInv'  BY Zenon, <2>1, <2>3 DEF CacheCore, UsersInv
  <2>7. CallsInv'  BY Zenon, <2>1, <2>3 DEF CacheCore, CallsInv
  <2>8. PinsInv'  BY Zenon, <2>1 DEF CacheCore, PinsInv
  <2>9. ContentsInv'  BY Zenon, <2>1, <2>3 DEF CacheCore, ContentsInv
  <2> QED  BY Zenon, <2>4, <2>5, <2>6, <2>7, <2>8, <2>9 DEF CacheCore
<1>2. ASSUME NEW p \in User, NEW k \in Block, BgetHit(p, k) \/ BgetMiss(p, k)  PROVE CacheCore'
  BY Zenon, <1>2, BgetHitKeeps, BgetMissKeeps
<1>3. ASSUME NEW p \in User, LockBuf(p) \/ DiskTransfer(p)  PROVE CacheCore'
  BY Zenon, <1>3, LockBufKeeps, DiskTransferKeeps
<1>4. ASSUME NEW p \in User, ReadDone(p) \/ WriteDone(p)  PROVE CacheCore'
  BY Zenon, <1>4, ReadDoneKeeps, WriteDoneKeeps
<1>5. ASSUME NEW p \in User, NEW v \in Value, Change(p, v)  PROVE CacheCore'
  BY Zenon, <1>5, ChangeKeeps
<1>6. ASSUME NEW p \in User, Bwrite(p) \/ Bpin(p) \/ Bunpin(p)  PROVE CacheCore'
  BY Zenon, <1>6, BwriteKeeps, BpinKeeps, BunpinKeeps
<1>7. ASSUME NEW p \in User, Brelse(p) \/ Drop(p)  PROVE CacheCore'
  BY Zenon, <1>7, BrelseKeeps, DropKeeps
<1> QED  BY Zenon, <1>1, <1>2, <1>3, <1>4, <1>5, <1>6, <1>7 DEF BcNext

(* The rest of CacheInv: who holds a block reads the latest contents, and a
   change is kept until it is on disk. *)
LEMMA CacheRest == CacheCore => CacheInv
<1> SUFFICES ASSUME CacheCore  PROVE ReadsLatest /\ ChangesKept
  BY Zenon DEF CacheCore, CacheInv, CacheSafe
<1>1. ReadsLatest
  <2> SUFFICES ASSUME NEW p \in User, HoldsBuf(p)  PROVE data[cur[p]] = latest[blockno[cur[p]]]
    BY Zenon DEF ReadsLatest
  <2>1. cur[p] \in Buf  BY Zenon, CurFacts DEF HoldsBuf
  <2> QED  BY Zenon, <2>1 DEF CacheCore, ContentsInv
<1>2. ChangesKept
  <2> SUFFICES ASSUME NEW k \in Block, disk[k] # latest[k]
               PROVE  \E b \in Buf : /\ blockno[b] = k /\ data[b] = latest[k]
                                     /\ k \in pinned \/ block_lock[b] # Unlocked
    BY Zenon DEF ChangesKept
  <2>1. CASE k \in pinned  BY <2>1 DEF CacheCore, PinsInv, ContentsInv
  <2>2. CASE k \notin pinned
    <3>1. PICK p \in User : bpc[p] \in {"changed", "writing"} /\ blockno[cur[p]] = k
      BY Zenon, <2>2 DEF CacheCore, ContentsInv
    <3>2. cur[p] \in Buf  BY Zenon, <3>1, CurFacts
    <3>3. HoldsBuf(p) /\ Locks(p)  BY Zenon, <3>1 DEF HoldsBuf, Locks
    <3>4. block_lock[cur[p]] = p  BY Zenon, <3>2, <3>3 DEF CacheCore, UsersInv
    <3>5. data[cur[p]] = latest[k]  BY Zenon, <3>1, <3>2, <3>3 DEF CacheCore, ContentsInv
    <3> QED  BY Zenon, <3>1, <3>2, <3>4, <3>5, BuffersAssumption
  <2> QED  BY Zenon, <2>1, <2>2
<1> QED  BY Zenon, <1>1, <1>2

(* bio.c keeps CacheInv: whatever processes read, change, write through and
   leave to the log, and in whatever order the disk answers. *)
THEOREM CacheInvariant == BcSpec => []CacheInv
<1>1. BcSpec => []CacheCore  BY CacheStarts, CacheSteps, PTL DEF BcSpec
<1> QED  BY <1>1, CacheRest, PTL

(* The buffer cache is a cache: one buffer per block, the latest contents for
   every holder, no change lost, and no panic in bget() when NBUF is at least
   the number of buffers that processes hold at a time, two for each of them, and
   of blocks in the log. *)
THEOREM CacheIsSafe == BcSpec => []CacheSafe
<1>1. CacheInv => CacheSafe  BY DEF CacheInv
<1> QED  BY <1>1, CacheInvariant, PTL
=============================================================================
