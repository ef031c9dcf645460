------------------------------- MODULE Virtio -------------------------------
(***************************************************************************)
(* The disk driver, kernel/virtio_disk.c, and the device it talks to.      *)
(*                                                                         *)
(* Processes call virtio_disk_rw(), each with a buffer that it holds       *)
(* locked, so process p's buffer is called p.  The device fetches requests *)
(* in the order of the avail ring, finishes them in any order and posts    *)
(* them in the used ring; virtio_disk_intr() wakes the callers.            *)
(* A step is a critical section of vdisk_lock up to a sleep().  The device *)
(* does not take the lock, so the handler, which holds it for its whole    *)
(* loop, takes one step per turn; hpc is "loop" meanwhile.                 *)
(* An entry of a ring or of ops[] that has been consumed is never read     *)
(* again, and is set to None here to keep the states few.                  *)
(*                                                                         *)
(* vpc[p]: "out"     not in the driver                                     *)
(*         "start"   is about to allocate descriptors                      *)
(*         "nodesc"  sleeps on &disk.free[0]                               *)
(*         "wait"    is about to test b->disk                              *)
(*         "asleep"  sleeps on b                                           *)
(***************************************************************************)
EXTENDS Naturals

CONSTANTS Proc, Block, Value,
          NUM,        \* descriptors, and entries of each ring
          IDX,        \* 2^16: ring indices count modulo IDX
          Load,       \* the calls the processes make: [p, k, w, v]
          None

ASSUME VirtioAssumption ==
  /\ NUM \in Nat /\ NUM >= 3
  /\ IDX \in Nat /\ IDX >= NUM /\ IDX % NUM = 0
  /\ Load \subseteq [p : Proc, k : Block, w : BOOLEAN, v : Value]
  /\ Block \subseteq Nat /\ None \notin Block /\ 0 \in Value

VARIABLES
  blockno, data, bdisk,   \* struct buf: blockno, data, disk
  free, desc, ops, info,  \* struct disk
  avail, used, used_idx,
  vpc, write, chain,      \* the calls of virtio_disk_rw(): argument and idx[0]
  hpc, irq,               \* the handler, and the interrupt line
  fetched, devidx,        \* the device: requests it works on, its place in avail
  disk                    \* the blocks of the disk

bufVars == <<blockno, data, bdisk>>
callVars == <<vpc, write, chain>>
devVars == <<irq, fetched, devidx, disk>>
ringVars == <<avail, used, used_idx>>
vioVars == <<bufVars, free, desc, ops, info, ringVars, callVars, hpc, devVars>>

Desc == 0..(NUM - 1)
SPB == 2                  \* BSIZE / 512, sectors per block
Blank == [addr |-> None, more |-> FALSE, next |-> 0]
NoInfo == [b |-> None, status |-> 0]

VioTypeOK ==
  /\ blockno \in [Proc -> Block \cup {None}]
  /\ data \in [Proc -> Value] /\ disk \in [Block -> Value]
  /\ bdisk \in [Proc -> BOOLEAN]
  /\ free \in SUBSET Desc /\ fetched \in SUBSET Desc
  /\ desc \in [Desc -> [addr : Desc \cup Proc \cup {None}, more : BOOLEAN, next : Desc]]
  /\ ops \in [Desc -> [write : BOOLEAN, sector : Nat] \cup {None}]
  /\ info \in [Desc -> [b : Proc \cup {None}, status : {0, 255}]]
  /\ {avail, used} \subseteq [idx : 0..(IDX - 1), ring : [Desc -> Desc \cup {None}]]
  /\ {used_idx, devidx} \subseteq 0..(IDX - 1)
  /\ vpc \in [Proc -> {"out", "start", "nodesc", "wait", "asleep"}]
  /\ write \in [Proc -> BOOLEAN] /\ chain \in [Proc -> Desc \cup {None}]
  /\ hpc \in {"idle", "loop"} /\ irq \in BOOLEAN

(* virtio_disk_init(): the queue is all zero, and every descriptor free. *)
VioInit ==
  /\ blockno = [p \in Proc |-> None] /\ bdisk = [p \in Proc |-> FALSE]
  /\ data = [p \in Proc |-> 0] /\ disk = [k \in Block |-> 0]
  /\ free = Desc
  /\ desc = [i \in Desc |-> Blank]
  /\ ops = [i \in Desc |-> None]
  /\ info = [i \in Desc |-> NoInfo]
  /\ avail = [idx |-> 0, ring |-> [i \in Desc |-> None]]
  /\ used = [idx |-> 0, ring |-> [i \in Desc |-> None]]
  /\ used_idx = 0
  /\ vpc = [p \in Proc |-> "out"]
  /\ write = [p \in Proc |-> FALSE] /\ chain = [p \in Proc |-> None]
  /\ hpc = "idle" /\ irq = FALSE
  /\ fetched = {} /\ devidx = 0
-----------------------------------------------------------------------------
(* The cache calls virtio_disk_rw(b, w) for a block of which it has no other
   buffer; b->data is what it was or what the process stored. *)
Rw(p, k, w, v) ==
  /\ vpc[p] = "out" /\ \A q \in Proc : blockno[q] # k
  /\ blockno' = [blockno EXCEPT ![p] = k]
  /\ data' = [data EXCEPT ![p] = v]
  /\ write' = [write EXCEPT ![p] = w]
  /\ vpc' = [vpc EXCEPT ![p] = "start"]
  /\ UNCHANGED <<bdisk, free, desc, ops, info, ringVars, chain, hpc, devVars>>

(* wakeup(&disk.free[0]), and p goes to l. *)
WakeNodesc(p, l) ==
  vpc' = [r \in Proc |-> IF r = p THEN l ELSE IF vpc[r] = "nodesc" THEN "start" ELSE vpc[r]]

(* Mutant: a sleeper is not woken for the descriptors that come back. *)
WakeNobody(p, l) == vpc' = [vpc EXCEPT ![p] = l]

(* free_desc() ends in wakeup(). *)
FreeDesc(p, l) == WakeNodesc(p, l)

(* alloc3_desc() finds three descriptors in S. *)
Different(i, j, k) == i # j /\ i # k /\ j # k
HasThree(S) == \E i, j, k \in S : Different(i, j, k)

(* alloc3_desc() fails: it frees again what it took, if it took any. *)
NoDescriptors(p) ==
  /\ hpc = "idle"
  /\ vpc[p] = "start" /\ ~HasThree(free)
  /\ IF free = {} THEN vpc' = [vpc EXCEPT ![p] = "nodesc"] ELSE FreeDesc(p, "nodesc")
  /\ UNCHANGED <<bufVars, free, desc, ops, info, ringVars, write, chain, hpc, devVars>>

(* The three descriptors: the request, the data, the status byte. *)
Format(p, i0, i1, i2) ==
  /\ ops' = [ops EXCEPT ![i0] = [write |-> write[p], sector |-> SPB * blockno[p]]]
  /\ desc' = [desc EXCEPT ![i0] = [addr |-> i0, more |-> TRUE, next |-> i1],
                          ![i1] = [addr |-> p, more |-> TRUE, next |-> i2],
                          ![i2] = [addr |-> i0, more |-> FALSE, next |-> 0]]
  /\ info' = [info EXCEPT ![i0] = [b |-> p, status |-> 255]]

(* The indices of the rings are uint16. *)
Succ(i) == (i + 1) % IDX

(* alloc_desc() takes the lowest descriptor i of those free, S. *)
Lowest(i, S) == i \in S /\ \A j \in S : i <= j

Start(p) ==
  /\ hpc = "idle"
  /\ vpc[p] = "start"
  /\ \E i0, i1, i2 \in free :
       /\ Lowest(i0, free) /\ Lowest(i1, free \ {i0}) /\ Lowest(i2, free \ {i0, i1})
       /\ free' = free \ {i0, i1, i2}
       /\ Format(p, i0, i1, i2)
       /\ avail' = [idx |-> Succ(avail.idx),
                    ring |-> [avail.ring EXCEPT ![avail.idx % NUM] = i0]]
       /\ chain' = [chain EXCEPT ![p] = i0]
  /\ bdisk' = [bdisk EXCEPT ![p] = TRUE]
  /\ vpc' = [vpc EXCEPT ![p] = "wait"]
  /\ UNCHANGED <<blockno, data, used, used_idx, write, hpc, devVars>>

Wait(p) ==
  /\ hpc = "idle"
  /\ vpc[p] = "wait" /\ bdisk[p]
  /\ vpc' = [vpc EXCEPT ![p] = "asleep"]
  /\ UNCHANGED <<bufVars, free, desc, ops, info, ringVars, write, chain, hpc, devVars>>

(* The descriptors that free_chain(i) visits. *)
ChainOf(i) ==
  {i} \cup IF ~desc[i].more THEN {} ELSE
  LET j == desc[i].next IN {j} \cup IF ~desc[j].more THEN {} ELSE {desc[j].next}

(* Mutant: the woken process does not test b->disk again. *)
DoneAnyway(p) == vpc[p] = "wait"

Done(p) == vpc[p] = "wait" /\ ~bdisk[p]

(* The request is done: free_chain(), and virtio_disk_rw() returns. *)
Finish(p) ==
  /\ hpc = "idle" /\ Done(p)
  /\ info' = [info EXCEPT ![chain[p]] = NoInfo]
  /\ ops' = [ops EXCEPT ![chain[p]] = None]
  /\ free' = free \cup ChainOf(chain[p])
  /\ desc' = [i \in Desc |-> IF i \in ChainOf(chain[p]) THEN Blank ELSE desc[i]]
  /\ FreeDesc(p, "out")
  /\ chain' = [chain EXCEPT ![p] = None]
  /\ blockno' = [blockno EXCEPT ![p] = None]
  /\ UNCHANGED <<data, bdisk, ringVars, write, hpc, devVars>>

(* kill() wakes a sleeper, whatever it sleeps on. *)
KillWakes(p) ==
  /\ vpc[p] \in {"nodesc", "asleep"}
  /\ vpc' = [vpc EXCEPT ![p] = IF @ = "nodesc" THEN "start" ELSE "wait"]
  /\ UNCHANGED <<bufVars, free, desc, ops, info, ringVars, write, chain, hpc, devVars>>
-----------------------------------------------------------------------------
(* virtio_disk_intr(): the acknowledgement comes first, ... *)
IntrAck ==
  /\ hpc = "idle" /\ irq
  /\ irq' = FALSE
  /\ hpc' = "loop"
  /\ UNCHANGED <<bufVars, free, desc, ops, info, ringVars, callVars, fetched, devidx, disk>>

(* ... then one turn per used entry. *)
IntrOne ==
  /\ hpc = "loop" /\ used_idx # used.idx
  /\ LET p == info[used.ring[used_idx % NUM]].b
     IN  /\ bdisk' = [bdisk EXCEPT ![p] = FALSE]
         /\ vpc' = [vpc EXCEPT ![p] = IF @ = "asleep" THEN "wait" ELSE @]
  /\ used' = [used EXCEPT !.ring[used_idx % NUM] = None]
  /\ used_idx' = Succ(used_idx)
  /\ UNCHANGED <<blockno, data, free, desc, ops, info, avail, write, chain, hpc, devVars>>

(* Mutant: the ring is not looked at again before the return. *)
IntrReturnEarly ==
  /\ hpc = "loop"
  /\ hpc' = "idle"
  /\ UNCHANGED <<bufVars, free, desc, ops, info, ringVars, callVars, devVars>>

IntrReturn ==
  /\ hpc = "loop" /\ used_idx = used.idx
  /\ hpc' = "idle"
  /\ UNCHANGED <<bufVars, free, desc, ops, info, ringVars, callVars, devVars>>
-----------------------------------------------------------------------------
(* The device fetches the next head from the avail ring, ... *)
DevFetch ==
  /\ devidx # avail.idx
  /\ fetched' = fetched \cup {avail.ring[devidx % NUM]}
  /\ avail' = [avail EXCEPT !.ring[devidx % NUM] = None]
  /\ devidx' = Succ(devidx)
  /\ UNCHANGED <<bufVars, free, desc, ops, info, used, used_idx, callVars, hpc, irq, disk>>

(* ... and does any of its requests: the transfer, the status, the used entry,
   the interrupt. *)
DevDone(h) ==
  /\ h \in fetched
  /\ LET k == ops[h].sector \div SPB
         b == desc[desc[h].next].addr
     IN  IF ops[h].write
           THEN disk' = [disk EXCEPT ![k] = data[b]] /\ UNCHANGED data
           ELSE data' = [data EXCEPT ![b] = disk[k]] /\ UNCHANGED disk
  /\ info' = [info EXCEPT ![desc[desc[desc[h].next].next].addr].status = 0]
  /\ used' = [idx |-> Succ(used.idx), ring |-> [used.ring EXCEPT ![used.idx % NUM] = h]]
  /\ fetched' = fetched \ {h}
  /\ irq' = TRUE
  /\ UNCHANGED <<blockno, bdisk, free, desc, ops, avail, used_idx, callVars, hpc, devidx>>

Intr == IntrAck \/ IntrOne \/ IntrReturn

VioNext ==
  \/ \E p \in Proc :
       \/ \E c \in Load : c.p = p /\ Rw(p, c.k, c.w, c.v)
       \/ NoDescriptors(p) \/ Start(p) \/ Wait(p) \/ Finish(p) \/ KillWakes(p)
  \/ Intr \/ DevFetch \/ \E h \in Desc : DevDone(h)

(* The device works, interrupts are taken, and a process that may return is
   not starved by the others for vdisk_lock. *)
VioFairness ==
  /\ WF_vioVars(Intr) /\ WF_vioVars(DevFetch)
  /\ \A h \in Desc : WF_vioVars(DevDone(h))
  /\ \A p \in Proc : SF_vioVars(Finish(p))
-----------------------------------------------------------------------------
InRw(p) == vpc[p] \in {"wait", "asleep"}

(* The entries of a ring from index i up to index j. *)
Ahead(i, j) == (j + IDX - i) % IDX
Between(ring, i, j) == {ring[(i + n) % NUM] : n \in 0..(Ahead(i, j) - 1)}

Available == Between(avail.ring, devidx, avail.idx)
Used == Between(used.ring, used_idx, used.idx)

(* Every descriptor is free or in the chain of exactly one request in
   progress: alloc3_desc() and free_chain() lose none and free none twice,
   which free_desc() would answer with a panic. *)
DescriptorsConserved ==
  /\ \A p \in Proc : InRw(p) =>
       \E i, j, k \in Desc : Different(i, j, k) /\ ChainOf(chain[p]) = {i, j, k}
  /\ \A p, q \in Proc : p # q /\ InRw(p) /\ InRw(q) => ChainOf(chain[p]) \cap ChainOf(chain[q]) = {}
  /\ free = Desc \ UNION {ChainOf(chain[p]) : p \in {q \in Proc : InRw(q)}}

(* A process that waits for its transfer will be woken: the request is still
   ahead of the device, or in the device, or posted in the used ring with the
   interrupt pending or the handler in its loop.  virtio_disk_intr()
   acknowledges before it looks at the ring for this reason. *)
NoLostCompletion ==
  \A p \in Proc : InRw(p) /\ bdisk[p] =>
    \/ chain[p] \in Available \cup fetched
    \/ chain[p] \in Used /\ (irq \/ hpc = "loop")

(* A process sleeps for descriptors only while there are fewer than three, and
   on its buffer only while b->disk says that the transfer is outstanding. *)
SleepsForReason ==
  \A p \in Proc : /\ vpc[p] = "nodesc" => ~HasThree(free)
                  /\ vpc[p] = "asleep" => bdisk[p]

(* A transfer that was handed to the device ends, and virtio_disk_rw() returns. *)
TransfersEnd == \A p \in Proc : InRw(p) ~> vpc[p] = "out"

(* A request counts as done when the device has cleared its status byte. *)
portOf ==
  [p \in Proc |->
     IF vpc[p] = "out" THEN [at |-> "out"]
     ELSE [at |-> IF InRw(p) /\ info[chain[p]].status = 0 THEN "done" ELSE "pending",
           buf |-> p, block |-> blockno[p], write |-> write[p]]]

Port == INSTANCE DiskPort WITH User <- Proc, Buf <- Proc, port <- portOf

(* The driver and the device do what the cache expects of virtio_disk_rw():
   one transfer per call, of the right block, before the return. *)
ImplementsPort == Port!PortSpec

(* The bookkeeping of the driver is sound: virtio_disk_rw() and
   virtio_disk_intr() lose no descriptor, no completion and no wakeup. *)
VioSafe == VioTypeOK /\ DescriptorsConserved /\ NoLostCompletion /\ SleepsForReason
-----------------------------------------------------------------------------
VioSpec == VioInit /\ [][VioNext]_vioVars

(* A request is three descriptors that describe the call and its buffer. *)
Second(p) == desc[chain[p]].next
Third(p) == desc[Second(p)].next
Trio(p) == {chain[p], Second(p), Third(p)}

Formatted(p) ==
  /\ chain[p] \in Desc
  /\ chain[p] # Second(p) /\ chain[p] # Third(p) /\ Second(p) # Third(p)
  /\ desc[chain[p]].addr = chain[p] /\ desc[chain[p]].more
  /\ desc[Second(p)].addr = p /\ desc[Second(p)].more
  /\ desc[Third(p)].addr = chain[p] /\ ~desc[Third(p)].more
  /\ ops[chain[p]] = [write |-> write[p], sector |-> SPB * blockno[p]]
  /\ info[chain[p]].b = p

RequestsInv ==
  /\ \A p \in Proc : InRw(p) => Formatted(p)
  /\ \A p, q \in Proc : p # q /\ InRw(p) /\ InRw(q) => Trio(p) \cap Trio(q) = {}
  /\ \A d \in Desc : d \in free <=> \A p \in Proc : InRw(p) => d \notin Trio(p)

(* A request is in one place: on its way to the device or in it until the device
   has cleared the status byte, then in the used ring until virtio_disk_intr()
   clears b->disk.  What the handler finds there has a status of 0: it does not
   panic. *)
PlaceInv ==
  /\ \A h \in Available \cup fetched \cup Used : \E p \in Proc : InRw(p) /\ chain[p] = h
  /\ Available \cap fetched = {}
  /\ \A p \in Proc : InRw(p) =>
       /\ chain[p] \in Available \cup fetched <=> info[chain[p]].status = 255
       /\ chain[p] \in Used <=> info[chain[p]].status = 0 /\ bdisk[p]
       /\ info[chain[p]].status = 255 => bdisk[p]
  /\ Used # {} => irq \/ hpc = "loop"

(* A ring never holds a request twice, nor more than it has room for. *)
RingOK(ring, i, j) ==
  /\ Ahead(i, j) <= NUM - 2
  /\ \A m, n \in 0..(Ahead(i, j) - 1) : m # n => ring[(i + m) % NUM] # ring[(i + n) % NUM]

RingsInv == RingOK(avail.ring, devidx, avail.idx) /\ RingOK(used.ring, used_idx, used.idx)

(* No two calls are for one block. *)
BlocksInv ==
  /\ \A p \in Proc : vpc[p] = "out" <=> blockno[p] = None
  /\ \A p, q \in Proc : blockno[p] = blockno[q] /\ blockno[p] # None => p = q

(* The driver is sound, as VioSafe says, and the reasons: what the descriptors of
   a request say, and where the request is. *)
VioInv == VioSafe /\ RequestsInv /\ PlaceInv /\ RingsInv /\ BlocksInv
=============================================================================
