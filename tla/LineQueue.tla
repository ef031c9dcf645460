----------------------------- MODULE LineQueue -----------------------------
(***************************************************************************)
(* What the console promises: typed characters form a line that can still  *)
(* be edited; the end of a line, end-of-file and a full buffer make it     *)
(* ready; reads take ready characters in order, at most one line each.  An *)
(* end-of-file ends a read, and is used up by one that has got nothing.    *)
(***************************************************************************)
EXTENDS Naturals, Sequences

CONSTANTS Reader, Nobody, Plain, Capacity     \* ordinary characters; INPUT_BUF_SIZE

VARIABLES ready, line,
          taken,          \* what the last read of each reader has got
          turn            \* the reader at the queue

lqVars == <<ready, line, taken, turn>>

LqInit == ready = <<>> /\ line = <<>> /\ taken = [p \in Reader |-> <<>>] /\ turn = Nobody

Type(c) ==
  /\ Len(ready) + Len(line) < Capacity
  /\ IF c \in {"nl", "eof"} \/ Len(ready) + Len(line) + 1 = Capacity
       THEN ready' = ready \o Append(line, c) /\ line' = <<>>
       ELSE line' = Append(line, c) /\ UNCHANGED ready
  /\ UNCHANGED <<taken, turn>>

Erase(n) ==
  /\ n <= Len(line)
  /\ line' = SubSeq(line, 1, Len(line) - n)
  /\ UNCHANGED <<ready, taken, turn>>

BeginRead(p) == taken' = [taken EXCEPT ![p] = <<>>] /\ UNCHANGED <<ready, line, turn>>

Pass == turn' \in Reader \cup {Nobody} /\ UNCHANGED <<ready, line, taken>>

(* The character is lost if the reader's memory cannot be written. *)
Take(p) ==
  /\ turn = p /\ turn' \in {p, Nobody}
  /\ ready # <<>> /\ ready' = Tail(ready)
  /\ IF Head(ready) = "eof"
       THEN taken[p] = <<>> /\ UNCHANGED taken
       ELSE /\ \A i \in 1..Len(taken[p]) : taken[p][i] # "nl"
            /\ taken' \in {taken, [taken EXCEPT ![p] = Append(@, Head(ready))]}
  /\ UNCHANGED line

LqNext ==
  \/ \E c \in Plain \cup {"nl", "eof"} : Type(c)
  \/ \E n \in {1, Len(line)} : Erase(n)
  \/ Pass
  \/ \E p \in Reader : BeginRead(p) \/ Take(p)

LqSpec == LqInit /\ [][LqNext]_lqVars
=============================================================================
