------------------------------ MODULE MCUnits ------------------------------
(***************************************************************************)
(* Parts that share no state, checked side by side: threads, the console,  *)
(* traps, the clock, memory, and the programs of the user's side.  unit    *)
(* says which of them a behaviour runs.                                    *)
(***************************************************************************)
EXTENDS MCThreads, Console, Trap, Ticks, Vm, ArrayList, Shell, Grep, Mkfs, Text

VARIABLE unit

MCNaps == {-1, 0, 1, 2}

Seg(v, m, f, s) == [vaddr |-> v, memsz |-> m, filesz |-> f, perm |-> {"X"}, short |-> s]
Image(s) == [header |-> TRUE, segments |-> s]

(* A program of one page; one whose second segment begins below its first; a
   file that is too short; a segment that wraps; no program at all. *)
MCImages ==
  {Image(<<Seg(0, 3, 3, FALSE)>>),
   Image(<<Seg(8, 6, 2, FALSE), Seg(0, 4, 4, FALSE)>>),
   Image(<<Seg(0, 9, 9, TRUE)>>),
   Image(<<Seg(248, 16, 1, FALSE)>>),
   [header |-> FALSE, segments |-> <<>>]}

(* The last are too many; a bad pointer. *)
MCArguments ==
  {[len |-> l, fault |-> FALSE] : l \in {<<>>, <<4>>, <<3, 2>>, <<0, 0, 0>>}}
    \cup {[len |-> <<1>>, fault |-> TRUE]}

MCDeltas == {-100, -12, 4, 16}
MCRequests == {1, 3}

UnitInit ==
  /\ unit \in {"threads", "console", "trap", "clock", "memory", "heap", "shell", "grep", "mkfs", "text"}
  /\ Init /\ (unit = "threads" \/ load = TwoThreads)
  /\ ConInit /\ TrInit /\ TkInit /\ VmInit /\ AlInit /\ ShInit /\ GrInit /\ MkInit /\ TxInit

user == <<alVars, shVars, grVars, mkVars, call>>
kernel == <<vars, conVars, trapVars, tkVars, vmVars>>

UserNext ==
  \/ unit = "heap" /\ AlNext /\ UNCHANGED <<shVars, grVars, mkVars, call>>
  \/ unit = "shell" /\ ShNext /\ UNCHANGED <<alVars, grVars, mkVars, call>>
  \/ unit = "grep" /\ GrNext /\ UNCHANGED <<alVars, shVars, mkVars, call>>
  \/ unit = "mkfs" /\ MkNext /\ UNCHANGED <<alVars, shVars, grVars, call>>
  \/ unit = "text" /\ TxNext /\ UNCHANGED <<alVars, shVars, grVars, mkVars>>

KernelNext ==
  \/ unit = "threads" /\ Next /\ UNCHANGED <<conVars, trapVars, tkVars, vmVars>>
  \/ unit = "console" /\ ConNext /\ UNCHANGED <<vars, trapVars, tkVars, vmVars>>
  \/ unit = "trap" /\ TrNext /\ UNCHANGED <<vars, conVars, tkVars, vmVars>>
  \/ unit = "clock" /\ TkNext /\ UNCHANGED <<vars, conVars, trapVars, vmVars>>
  \/ unit = "memory" /\ VmNext /\ UNCHANGED <<vars, conVars, trapVars, tkVars>>

UnitNext == (UserNext /\ UNCHANGED <<unit, kernel>>) \/ (KernelNext /\ UNCHANGED <<unit, user>>)

UnitSpec == UnitInit /\ [][UnitNext]_<<unit, kernel, user>>
=============================================================================
