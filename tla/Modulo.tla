------------------------------- MODULE Modulo -------------------------------
(***************************************************************************)
(* Arithmetic of counters that wrap: the indices of rings (kernel/pipe.c,  *)
(* kernel/console.c, kernel/virtio_disk.c) and the clock count modulo the  *)
(* size of their type, and are taken modulo the size of the ring.          *)
(***************************************************************************)
EXTENDS Integers, TLAPS

(* A counter below its bound, and one that has passed it once. *)
LEMMA ModSmall ==
  ASSUME NEW N \in Nat \ {0}, NEW x \in 0..(N - 1)
  PROVE  x % N = x
OBVIOUS

LEMMA ModOnce ==
  ASSUME NEW N \in Nat \ {0}, NEW x \in Nat, N <= x, x < 2 * N
  PROVE  x % N = x - N
OBVIOUS

LEMMA ModRange ==
  ASSUME NEW N \in Nat \ {0}, NEW x \in Int
  PROVE  x % N \in 0..(N - 1)
OBVIOUS

(* The distance between two counters. *)
LEMMA ModDistance ==
  ASSUME NEW N \in Nat \ {0}, NEW x \in 0..(N - 1), NEW y \in 0..(N - 1)
  PROVE  (x + N - y) % N = IF y <= x THEN x - y ELSE x + N - y
<1>1. CASE y <= x
  <2>1. PICK d \in Nat : d = x + N - y /\ N <= d /\ d < 2 * N /\ d - N = x - y
    BY <1>1
  <2>2. d % N = d - N
    BY <2>1, ModOnce
  <2> QED
    BY Zenon, <1>1, <2>1, <2>2
<1>2. CASE ~(y <= x)
  <2>1. PICK d \in 0..(N - 1) : d = x + N - y
    BY <1>2
  <2>2. d % N = d
    BY Zenon, <2>1, ModSmall
  <2> QED
    BY Zenon, <1>2, <2>1, <2>2
<1> QED
  BY <1>1, <1>2

(* Fewer than N steps never lead back to the same place. *)
LEMMA ModDistinct ==
  ASSUME NEW N \in Nat \ {0}, NEW a \in Nat, NEW b \in Nat, a < b, b < a + N
  PROVE  a % N # b % N
<1> SUFFICES ASSUME a % N = b % N PROVE FALSE
  OBVIOUS
<1> DEFINE q == a \div N
           r == b \div N
<1>1. q \in Int /\ r \in Int /\ a = q * N + (a % N) /\ b = r * N + (b % N)
  OBVIOUS
<1>2. b - a = (r - q) * N
  BY <1>1
<1> HIDE DEF q, r
<1>3. CASE r - q <= 0
  BY <1>1, <1>2, <1>3
<1>4. CASE r - q >= 1
  BY <1>1, <1>2, <1>4
<1> QED
  BY <1>1, <1>3, <1>4

(* A bound that is a multiple of N is not noticed modulo N. *)
LEMMA ModMultiple ==
  ASSUME NEW N \in Nat \ {0}, NEW U \in Nat, U % N = 0, NEW x \in Nat
  PROVE  (U + x) % N = x % N
<1> DEFINE q == U \div N
           r == x \div N
<1>1. q \in Int /\ r \in Int /\ U = q * N /\ x = r * N + (x % N) /\ x % N \in 0..(N - 1)
  OBVIOUS
<1>2. U + x = (q + r) * N + (x % N)
  BY <1>1
<1> HIDE DEF q, r
<1>3. ASSUME NEW k \in Int, NEW d \in 0..(N - 1) PROVE (k * N + d) % N = d
  OBVIOUS
<1>4. q + r \in Int
  BY <1>1
<1> QED
  BY ZenonT(60), <1>1, <1>2, <1>3, <1>4
=============================================================================
