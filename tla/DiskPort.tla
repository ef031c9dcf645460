------------------------------ MODULE DiskPort ------------------------------
(***************************************************************************)
(* What virtio_disk_rw() promises the buffer cache: between the call and   *)
(* the return the block is transferred, once, and nothing else is.  A      *)
(* buffer in a transfer is left alone by the cache, its lock is held.      *)
(***************************************************************************)
CONSTANTS User,     \* the callers
          Buf, Block, Value

VARIABLES disk,     \* the blocks
          data,     \* b->data
          port      \* the call each of them is in

portVars == <<disk, data, port>>

Idle == [at |-> "out"]
Transfer(b, k, w, s) == [at |-> s, buf |-> b, block |-> k, write |-> w]
Busy(b) == \E p \in User : port[p] # Idle /\ port[p].buf = b

(* virtio_disk_rw(b, write) is called for block k, ... *)
PortCall(p, b, k, w) ==
  /\ port[p] = Idle /\ ~Busy(b)
  /\ port' = [port EXCEPT ![p] = Transfer(b, k, w, "pending")]

(* ... the transfer takes place, ... *)
PortTransfer(p) ==
  /\ port[p].at = "pending"
  /\ LET b == port[p].buf
         k == port[p].block
     IN  IF port[p].write THEN disk' = [disk EXCEPT ![k] = data[b]] /\ UNCHANGED data
                          ELSE data' = [data EXCEPT ![b] = disk[k]] /\ UNCHANGED disk
  /\ port' = [port EXCEPT ![p].at = "done"]

(* ... and the call returns. *)
PortReturn(p) ==
  /\ port[p].at = "done"
  /\ port' = [port EXCEPT ![p] = Idle]

(* The cache stores into a buffer, possibly as it makes the call. *)
PortStore(b, v) == ~Busy(b) /\ data' = [data EXCEPT ![b] = v]

PortInit ==
  /\ disk \in [Block -> Value] /\ data \in [Buf -> Value]
  /\ port = [p \in User |-> Idle]

PortNext ==
  \E p \in User :
    \/ \E b \in Buf, k \in Block, w \in BOOLEAN :
         PortCall(p, b, k, w) /\ UNCHANGED disk /\ \E v \in Value : PortStore(b, v)
    \/ PortTransfer(p)
    \/ PortReturn(p) /\ UNCHANGED <<disk, data>>

PortSpec == PortInit /\ [][PortNext]_portVars
=============================================================================
