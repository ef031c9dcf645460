------------------------------ MODULE MCFiles ------------------------------
(***************************************************************************)
(* The upper layers of the file system: open files, names and inodes, on   *)
(* two disks, and the blocks of a file.  The models share no state and are *)
(* checked side by side; unit says which of them a behaviour runs.         *)
(***************************************************************************)
EXTENDS MCFileSys, FileData, Ftable

VARIABLE unit

MCWrites == {<<0, 2>>, <<1, 4>>, <<4, 3>>}

Init ==
  /\ unit \in {"flat", "deep", "data", "open"}
  /\ durable = IF unit = "deep" THEN Deep ELSE Flat
  /\ FsInit /\ FdInit /\ FtInit

Next ==
  \/ unit = "flat" /\ FsNext /\ Only(FlatCalls) /\ UNCHANGED <<unit, fdVars, ftVars>>
  \/ unit = "deep" /\ FsNext /\ Only(DeepCalls) /\ UNCHANGED <<unit, fdVars, ftVars>>
  \/ unit = "data" /\ FdNext /\ UNCHANGED <<unit, fsVars, ftVars>>
  \/ unit = "open" /\ FtNext /\ UNCHANGED <<unit, fsVars, fdVars>>

Spec == Init /\ [][Next]_<<unit, fsVars, fdVars, ftVars>>
=============================================================================
