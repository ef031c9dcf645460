------------------------------- MODULE TxDisk -------------------------------
(***************************************************************************)
(* What the logging layer promises its callers: a disk on which the writes *)
(* of file-system calls take effect in whole transactions.  current is     *)
(* what the running system reads, durable what a reboot would find.        *)
(***************************************************************************)
CONSTANTS Proc, Block, Value, InitVal

VARIABLES durable, current, ops

TxInit ==
  /\ durable = [b \in Block |-> InitVal]
  /\ current = durable
  /\ ops = {}

Begin(p) == ops' = ops \cup {p} /\ UNCHANGED <<durable, current>>

Write(p, b, v) ==
  /\ p \in ops
  /\ current' = [current EXCEPT ![b] = v]
  /\ UNCHANGED <<durable, ops>>

End(p) == ops' = ops \ {p} /\ UNCHANGED <<durable, current>>

(* Everything written so far becomes durable at once, between operations. *)
Commit == ops = {} /\ durable' = current /\ UNCHANGED <<current, ops>>

(* The machine stops; it comes back with the last committed state. *)
Crash == ops' = {} /\ current' = durable /\ UNCHANGED durable

TxNext ==
  \/ \E p \in Proc : Begin(p) \/ End(p)
  \/ \E p \in Proc, b \in Block, v \in Value : Write(p, b, v)
  \/ Commit
  \/ Crash

TxSpec == TxInit /\ [][TxNext]_<<durable, current, ops>>
=============================================================================
