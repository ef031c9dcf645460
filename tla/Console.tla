------------------------------ MODULE Console ------------------------------
(***************************************************************************)
(* Console input: consoleread() and consoleintr() of kernel/console.c.     *)
(* Everything is done under cons.lock; a step is a critical section, cut   *)
(* where consoleread() sleeps and at every character it takes.             *)
(* conslock names the reader that holds it between two characters.         *)
(*                                                                         *)
(* rpc[p]: "out", "enter" (before acquire), "take" (in the loop, with the  *)
(*         lock), "asleep", "woken" (before sleep() takes the lock again)  *)
(***************************************************************************)
EXTENDS Naturals, Sequences

CONSTANTS Reader, Plain,
          INPUT_BUF_SIZE,
          CUINT,              \* 2^32, a multiple of INPUT_BUF_SIZE
          MaxRead             \* the longest read, a bound

ASSUME ConsoleAssumption ==
  /\ INPUT_BUF_SIZE \in Nat \ {0}
  /\ CUINT \in Nat /\ CUINT % INPUT_BUF_SIZE = 0 /\ CUINT > INPUT_BUF_SIZE
  /\ MaxRead \in Nat

VARIABLES buf, r, w, e,       \* struct cons
          rpc, want, target,  \* the calls of consoleread(): n, and target
          got,                \* what each has delivered
          conslock, rkilled

conVars == <<buf, r, w, e, rpc, want, target, got, conslock, rkilled>>
readVars == <<rpc, want, target, got, conslock, rkilled>>

Keys == Plain \cup {"nl", "cr", "eof", "bs", "kill", "nul"}
Unlocked == "free"
ASSUME ReaderAssumption == Unlocked \notin Reader

ConTypeOK ==
  /\ buf \in [0..(INPUT_BUF_SIZE - 1) -> Keys]
  /\ r \in 0..(CUINT - 1) /\ w \in 0..(CUINT - 1) /\ e \in 0..(CUINT - 1)
  /\ want \in [Reader -> 0..MaxRead] /\ target \in [Reader -> 0..MaxRead]
  /\ got \in [Reader -> Seq(Keys)]
  /\ rpc \in [Reader -> {"out", "enter", "take", "asleep", "woken"}]
  /\ conslock \in Reader \cup {Unlocked} /\ rkilled \in SUBSET Reader

ConInit ==
  /\ buf = [i \in 0..(INPUT_BUF_SIZE - 1) |-> "nul"]
  /\ r = 0 /\ w = 0 /\ e = 0
  /\ rpc = [p \in Reader |-> "out"]
  /\ want = [p \in Reader |-> 0] /\ target = [p \in Reader |-> 0]
  /\ got = [p \in Reader |-> <<>>]
  /\ conslock = Unlocked /\ rkilled = {}
-----------------------------------------------------------------------------
(* uint arithmetic *)
Minus(a, b) == (a + CUINT - b) % CUINT
Plus1(a) == (a + 1) % CUINT

CharAt(i) == buf[i % INPUT_BUF_SIZE]

(* wakeup(&cons.r) *)
WakeReaders == [p \in Reader |-> IF rpc[p] = "asleep" THEN "woken" ELSE rpc[p]]

(* Mutant: only a line or end-of-file is handed over. *)
CompleteLine(c) == c \in {"nl", "eof"}

(* A whole line, end-of-file or a full buffer. *)
Complete(c) == c \in {"nl", "eof"} \/ Minus(Plus1(e), r) = INPUT_BUF_SIZE

(* consoleintr(), the default case. *)
Store(k) ==
  LET c == IF k = "cr" THEN "nl" ELSE k IN
  /\ conslock = Unlocked
  /\ k \in Plain \cup {"nl", "cr", "eof"}
  /\ Minus(e, r) < INPUT_BUF_SIZE
  /\ buf' = [buf EXCEPT ![e % INPUT_BUF_SIZE] = c]
  /\ e' = Plus1(e)
  /\ IF Complete(c) THEN w' = e' /\ rpc' = WakeReaders ELSE UNCHANGED <<w, rpc>>
  /\ UNCHANGED <<r, want, target, got, conslock, rkilled>>

CanErase == e # w

(* Backspace and delete. *)
Backspace ==
  /\ conslock = Unlocked /\ CanErase
  /\ e' = Minus(e, 1)
  /\ UNCHANGED <<buf, r, w, readVars>>

(* Kill line: the characters back to w, or to the end of a line before it. *)
KillLine ==
  /\ conslock = Unlocked /\ e # w
  /\ \E n \in 0..Minus(e, w) :
       /\ \A m \in 1..n : CharAt(Minus(e, m)) # "nl"
       /\ n = Minus(e, w) \/ CharAt(Minus(e, n + 1)) = "nl"
       /\ e' = Minus(e, n)
  /\ UNCHANGED <<buf, r, w, readVars>>

ConsoleIntr == Backspace \/ KillLine \/ \E k \in Keys : Store(k)
-----------------------------------------------------------------------------
RGoto(p, l) == rpc' = [rpc EXCEPT ![p] = l]

Read(p, n) ==
  /\ rpc[p] = "out"
  /\ want' = [want EXCEPT ![p] = n] /\ target' = [target EXCEPT ![p] = n]
  /\ got' = [got EXCEPT ![p] = <<>>]
  /\ RGoto(p, "enter")
  /\ UNCHANGED <<buf, r, w, e, conslock, rkilled>>

(* acquire(), or the return from sleep(). *)
ReadEnter(p) ==
  /\ rpc[p] \in {"enter", "woken"} /\ conslock = Unlocked
  /\ conslock' = p
  /\ RGoto(p, "take")
  /\ UNCHANGED <<buf, r, w, e, want, target, got, rkilled>>

Leave(p) == RGoto(p, "out") /\ conslock' = Unlocked

(* There is nothing: killed processes return, others sleep. *)
ReadSleeps(p) ==
  /\ rpc[p] = "take" /\ want[p] > 0 /\ r = w
  /\ IF p \in rkilled THEN Leave(p) ELSE RGoto(p, "asleep") /\ conslock' = Unlocked
  /\ UNCHANGED <<buf, r, w, e, want, target, got, rkilled>>

(* Mutant: end-of-file is used up by the read that it ends. *)
EofTake(p) == Plus1(r)

(* After characters, end-of-file is left for the next read. *)
AfterEof(p) == IF want[p] < target[p] THEN r ELSE Plus1(r)

EndsRead(c) == c = "nl"

(* One turn of the loop; ok is FALSE when either_copyout() fails. *)
ReadTake(p, ok) ==
  LET c == CharAt(r) IN
  /\ rpc[p] = "take" /\ want[p] > 0 /\ r # w
  /\ IF c = "eof"
       THEN r' = AfterEof(p) /\ Leave(p) /\ UNCHANGED <<want, got>>
       ELSE /\ r' = Plus1(r)
            /\ IF ok THEN /\ want' = [want EXCEPT ![p] = @ - 1]
                          /\ got' = [got EXCEPT ![p] = Append(@, c)]
                     ELSE UNCHANGED <<want, got>>
            /\ IF ~ok \/ EndsRead(c) THEN Leave(p) ELSE UNCHANGED <<rpc, conslock>>
  /\ UNCHANGED <<buf, w, e, target, rkilled>>

ReadFull(p) ==
  /\ rpc[p] = "take" /\ want[p] = 0
  /\ Leave(p)
  /\ UNCHANGED <<buf, r, w, e, want, target, got, rkilled>>

(* kill(): the flag, and a wakeup. *)
KillReader(p) ==
  /\ rpc[p] # "out" /\ p \notin rkilled
  /\ rkilled' = rkilled \cup {p}
  /\ rpc' = [rpc EXCEPT ![p] = IF @ = "asleep" THEN "woken" ELSE @]
  /\ UNCHANGED <<buf, r, w, e, want, target, got, conslock>>

ConReaderStep(p) == ReadEnter(p) \/ ReadSleeps(p) \/ ReadFull(p) \/ \E ok \in BOOLEAN : ReadTake(p, ok)

ConNext ==
  \/ ConsoleIntr
  \/ \E p \in Reader : (\E n \in 1..MaxRead : Read(p, n)) \/ ConReaderStep(p) \/ KillReader(p)

ConSpec == ConInit /\ [][ConNext]_conVars
-----------------------------------------------------------------------------
(* A reader does not sleep while there is input: every change of cons.w wakes
   the readers, and the end-of-file that a read gives back finds none asleep. *)
NoInputAsleep == (\E p \in Reader : rpc[p] = "asleep") => r = w

(* A full buffer is readable.  Nothing more can be typed then, and no newline
   would ever come to wake the readers. *)
FullIsReadable == Minus(e, r) <= INPUT_BUF_SIZE /\ (Minus(e, r) = INPUT_BUF_SIZE => w = e)

(* The two together: input that is there can be read, and is. *)
ConSafe == ConTypeOK /\ NoInputAsleep /\ FullIsReadable

(* Why: the reader in the loop has cons.lock; r, w and e follow each other round
   the ring; what is still edited holds no end of a line; a read has got as many
   characters as it wants less, and goes on only while none of them ends it. *)
ConHolder == \A p \in Reader : conslock = p <=> rpc[p] = "take"
ConOrder == Minus(w, r) + Minus(e, w) = Minus(e, r)
ConLine == \A n \in 1..Minus(e, w) : CharAt(w + n - 1) # "nl"
ConGot ==
  \A p \in Reader : /\ want[p] + Len(got[p]) = target[p]
                    /\ rpc[p] # "out" => \A n \in 1..Len(got[p]) : got[p][n] # "nl"
ConInv == ConSafe /\ ConHolder /\ ConOrder /\ ConLine /\ ConGot

Segment(i, j) == [n \in 1..Minus(j, i) |-> CharAt(i + n - 1)]
Lines == INSTANCE LineQueue WITH Capacity <- INPUT_BUF_SIZE, Nobody <- Unlocked,
                                 taken <- got, turn <- conslock,
                                 ready <- Segment(r, w), line <- Segment(w, e)

(* The ring with its three wrapping indices is a queue of edited lines: erased
   characters are not read, handed over ones are not erased, and none is
   overwritten, duplicated or reordered.  consoleread() never takes part of a
   second line, and end-of-file is used up only by a read that returns no
   characters: "Save ^D for next time, to make sure caller gets a 0-byte
   result." *)
ImplementsLines == Lines!LqSpec
=============================================================================
