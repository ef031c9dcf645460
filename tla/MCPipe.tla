------------------------------- MODULE MCPipe -------------------------------
EXTENDS Pipe, TLC

(* The processes of one end are alike, and so are the bytes. *)
Symmetry == Permutations(Writers) \cup Permutations(Readers) \cup Permutations(Byte)
=============================================================================
