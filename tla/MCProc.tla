------------------------------- MODULE MCProc -------------------------------
EXTENDS Proc

(* A bound: the second process has a CPU to itself, the others share one. *)
Home(p) == {c \in CPU : c % 2 = p % 2}
Stays == \A c \in CPU : curr'[c] # NoProc => c \in Home(curr'[c])

MCFairness ==
  /\ \A c \in CPU : WF_vars(Deschedule(c))
  /\ \A p \in Proc : FairProc(p, Home(p))

MCLiveSpec == Init /\ [][LiveNext /\ Stays]_vars /\ MCFairness
=============================================================================
