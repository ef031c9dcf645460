----------------------------- MODULE MCThreads ------------------------------
EXTENDS Threads

Quiet == [mains |-> {2}, forkers |-> {}, growers |-> {}, shrinkers |-> {}, owed |-> 2]

(* One program with two threads at a time, and nobody forks. *)
TwoThreads == [Quiet EXCEPT !.growers = 1..NPROC, !.shrinkers = {1}]

(* One thread at a time, while slot 1 forks into the slots that come free. *)
OneThread == [Quiet EXCEPT !.forkers = {1}, !.growers = {1, 3}, !.shrinkers = {1}, !.owed = 1]

(* Two threads at a time, while slot 1 forks. *)
Reuse == [Quiet EXCEPT !.forkers = {1}]

(* Two programs that create threads at the same time. *)
TwoPrograms == [Quiet EXCEPT !.mains = {2, 3}]

(* Everybody asks for memory. *)
Hungry == [Quiet EXCEPT !.growers = 1..NPROC]

Supported == {TwoThreads, OneThread}
Forking == {Reuse}
Racing == {TwoPrograms}
Starving == {Hungry}
=============================================================================
