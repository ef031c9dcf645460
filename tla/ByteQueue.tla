------------------------------ MODULE ByteQueue ------------------------------
(***************************************************************************)
(* What a pipe promises: a queue of at most Capacity bytes with two ends.  *)
(* Bytes come out in the order they went in, each at most once, and none   *)
(* appears that was not put in.  An end that is closed stays closed, and   *)
(* takes part in nothing any more.                                         *)
(***************************************************************************)
EXTENDS Naturals, Sequences

CONSTANTS Byte, Capacity

VARIABLES q, ropen, wopen

vars == <<q, ropen, wopen>>

Init == q = <<>> /\ ropen = TRUE /\ wopen = TRUE

Put(b) ==
  /\ wopen /\ ropen
  /\ Len(q) < Capacity
  /\ q' = Append(q, b)
  /\ UNCHANGED <<ropen, wopen>>

Get ==
  /\ ropen
  /\ q # <<>>
  /\ q' = Tail(q)
  /\ UNCHANGED <<ropen, wopen>>

CloseRead == ropen /\ ropen' = FALSE /\ UNCHANGED <<q, wopen>>
CloseWrite == wopen /\ wopen' = FALSE /\ UNCHANGED <<q, ropen>>

Next == (\E b \in Byte : Put(b)) \/ Get \/ CloseRead \/ CloseWrite

Spec == Init /\ [][Next]_vars
=============================================================================
