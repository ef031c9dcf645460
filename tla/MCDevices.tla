----------------------------- MODULE MCDevices -----------------------------
(***************************************************************************)
(* The disk driver and console output.  They share no state and are        *)
(* checked side by side: unit says which of them a behaviour runs.         *)
(***************************************************************************)
EXTENDS Virtio, Uart, TLC

CONSTANTS p1, p2, p3

VARIABLE unit

(* p1 writes block 1 and p2 reads it, or another; p3 reads a third. *)
MCLoad ==
  {[p |-> p1, k |-> 1, w |-> TRUE, v |-> 1]}
    \cup {[p |-> p2, k |-> n, w |-> FALSE, v |-> 0] : n \in {1, 2}}
    \cup {[p |-> p3, k |-> 3, w |-> FALSE, v |-> 0]}

Init ==
  /\ unit \in {"disk", "uart"}
  /\ VioInit /\ UartInit

Next ==
  \/ unit = "disk" /\ VioNext /\ UNCHANGED <<unit, uartVars>>
  \/ unit = "uart" /\ UartNext /\ UNCHANGED <<unit, vioVars>>

(* A unit that does not run never enables an action of its fairness condition. *)
Spec ==
  /\ Init /\ [][Next]_<<unit, vioVars, uartVars>>
  /\ VioFairness /\ UartFairness
=============================================================================
