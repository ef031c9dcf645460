------------------------------ MODULE MCKernel ------------------------------
(***************************************************************************)
(* The process table and the buffer cache.  The models share no state and  *)
(* are checked side by side; unit says which of them a behaviour runs.     *)
(***************************************************************************)
EXTENDS Proc, Bcache, TLC

CONSTANTS u1, u2, u3,      \* two buffer pointers of a process, and one of another
          home             \* the block that is changed, and held while others are read

VARIABLE unit

MCOwner == u1 :> 1 @@ u2 :> 1 @@ u3 :> 2
MCNested == {home} \X (Block \ {home})

Symmetry == Permutations(CPU) \cup Permutations({u1, u2}) \cup Permutations(Block \ {home})

MCInit ==
  /\ unit \in {"proc", "cache"}
  /\ Init /\ BcInit

MCNext ==
  \/ unit = "proc" /\ Next /\ UNCHANGED <<unit, bcVars>>
  \/ unit = "cache" /\ BcNext /\ UNCHANGED <<unit, vars>>

MCSpec == MCInit /\ [][MCNext]_<<unit, vars, bcVars>>
=============================================================================
