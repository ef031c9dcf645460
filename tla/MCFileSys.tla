----------------------------- MODULE MCFileSys -----------------------------
EXTENDS FileSys

CONSTANTS p1, p2

(* The disk with the directories of e, and links as they name them. *)
DiskOf(e, nlink) ==
  << [i \in Inum |-> CASE i \in DOMAIN e -> [type |-> "dir", nlink |-> nlink[i]]
                       [] i \notin DOMAIN e /\ i \in DOMAIN nlink -> [type |-> "file", nlink |-> nlink[i]]
                       [] OTHER -> [type |-> "none", nlink |-> 0]],
     [i \in Inum |-> IF i \in DOMAIN e THEN e[i] @@ NoEntries ELSE NoEntries] >>
Dir(i, up) == "." :> i @@ ".." :> up

(* A directory "a" and a file "b"; and a directory "a" with a directory "b". *)
Flat == DiskOf(1 :> ("a" :> 2 @@ "b" :> 3 @@ Dir(1, 1)) @@ 2 :> Dir(2, 1), <<2, 1, 1>>)
Deep == DiskOf(1 :> ("a" :> 2 @@ Dir(1, 1)) @@ 2 :> ("b" :> 3 @@ Dir(2, 1)) @@ 3 :> Dir(3, 2),
               <<2, 2, 1>>)
OneImage == {Flat}
MCImages == {Flat, Deep}

C(o, q) == [op |-> o, path |-> q, here |-> FALSE]
Here(o, q) == [op |-> o, path |-> q, here |-> TRUE]
Ln(q, r) == [op |-> "link", path |-> q, new |-> r, here |-> FALSE]

FlatCalls ==
  (p1 :> {C("chdir", <<"a">>), C("unlink", <<"a">>), Here("unlink", <<"b">>)})
  @@ (p2 :> {Ln(<<"b">>, <<"a", "b">>), Ln(<<"a">>, <<"b">>), C("unlink", <<"a", "b">>),
             C("unlink", <<"a", ".">>), C("chdir", <<"b">>), C("dir", <<"a", "a">>),
             C("open", <<"b">>), C("file", <<"b">>)})

(* Both directories are removed, and a process in the inner one makes another there. *)
DeepCalls ==
  (p1 :> {C("chdir", <<"a", "b">>), Here("dir", <<"a">>), Here("file", <<"b">>)})
  @@ (p2 :> {C("unlink", <<"a", "b">>), C("unlink", <<"a">>), C("dir", <<"a", "a">>)})

MCCalls == [p \in Process |-> FlatCalls[p] \cup DeepCalls[p]]
Only(c) == \A p \in Process : st'[p].call.op = "none" \/ st'[p].call \in c[p]

(* One process: a directory in a directory, both removed while it is in the inner one. *)
UpCalls ==
  p1 :> {C("dir", <<"a", "b">>), C("chdir", <<"a", "b">>), C("unlink", <<"a", "b">>),
         C("unlink", <<"a">>), Here("chdir", <<"..">>)}
=============================================================================
