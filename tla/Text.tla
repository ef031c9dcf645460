-------------------------------- MODULE Text --------------------------------
(***************************************************************************)
(* Bytes, strings and numbers: memmove(), strncmp(), strncpy() and         *)
(* safestrcpy() of kernel/string.c, memmove() and atoi() of user/ulib.c,   *)
(* and printint(), which both printf.c have.  Memory is a function from    *)
(* addresses to bytes, and the loops go byte by byte.  call is the last    *)
(* call, with its arguments and its result.                                *)
(***************************************************************************)
EXTENDS Integers, SequencesExt, FiniteSetsExt

CONSTANTS NMEM,                \* bytes of memory for memmove()
          NAMELEN, Letters,    \* DIRSIZ, and what names consist of
          UINTS, NumBase,      \* the number of uints; the base numbers are printed in
          NUMBUF               \* buf[] of printint()

VARIABLE call

(* The int with the bits of the uint x *)
Signed(x) == IF x < UINTS \div 2 THEN x ELSE x - UINTS

(* NUMBUF is large enough, as 16 is for 32 bits in base 10. *)
ASSUME BufferIsLarge == NumBase ^ (NUMBUF - 1) > UINTS \div 2 /\ NumBase > 1
-----------------------------------------------------------------------------
(* while(n-- > 0) *d++ = *s++;  and  *--d = *--s; *)
RECURSIVE Upward(_, _, _, _), Downward(_, _, _, _)
Upward(mem, d, s, n) == IF n = 0 THEN mem ELSE Upward([mem EXCEPT ![d] = mem[s]], d + 1, s + 1, n - 1)
Downward(mem, d, s, n) ==
  IF n = 0 THEN mem ELSE Downward([mem EXCEPT ![d + n - 1] = mem[s + n - 1]], d, s, n - 1)

(* Mutant: the test for an overlap forgets its length. *)
MemmoveNear(mem, d, s, n) ==
  IF s < d /\ s + 1 >= d THEN Downward(mem, d, s, n) ELSE Upward(mem, d, s, n)

(* memmove() of the kernel *)
Memmove(mem, d, s, n) ==
  IF s < d /\ s + n > d THEN Downward(mem, d, s, n) ELSE Upward(mem, d, s, n)

(* memmove() of the user library *)
UserMemmove(mem, d, s, n) == IF s > d THEN Upward(mem, d, s, n) ELSE Downward(mem, d, s, n)

(* A string as memory has it: t[k] is 0 from its end on. *)
ByteAt(t, k) == IF k <= Len(t) THEN t[k] ELSE 0

(* strncmp(p, q, n) == 0, from position k on *)
RECURSIVE Strncmp(_, _, _, _)
Strncmp(p, q, n, k) ==
  IF n > 0 /\ ByteAt(p, k) # 0 /\ ByteAt(p, k) = ByteAt(q, k) THEN Strncmp(p, q, n - 1, k + 1)
  ELSE n = 0 \/ ByteAt(p, k) = ByteAt(q, k)

(* The loop that copies while n-- > 0 and the byte it has copied is no NUL; s is
   what has been written.  n is counted down by the test that ends it too. *)
RECURSIVE CopyLoop(_, _, _), PadLoop(_, _)
CopyLoop(t, n, s) ==
  LET c == ByteAt(t, Len(s) + 1)
  IN  IF n > 0 /\ c # 0 THEN CopyLoop(t, n - 1, Append(s, c))
      ELSE [s |-> IF n > 0 THEN Append(s, c) ELSE s, n |-> n - 1]

(* while(n-- > 0) *s++ = 0; *)
PadLoop(s, n) == IF n > 0 THEN PadLoop(Append(s, 0), n - 1) ELSE s

(* strncpy(): the bytes that are written *)
Strncpy(t, n) == LET r == CopyLoop(t, n, <<>>) IN PadLoop(r.s, r.n)

(* safestrcpy(), which tests --n; its last store follows the NUL of a short
   string, and is the NUL of a long one. *)
Safestrcpy(t, n) == IF n <= 0 THEN <<>> ELSE Append(CopyLoop(t, n - 1, <<>>).s, 0)

(* dirlink() stores a name with strncpy(); dirlookup() compares with namecmp(). *)
Stored(t) == Strncpy(t, NAMELEN)

(* namecmp() == 0 *)
Namecmp(s, t) == Strncmp(s, t, NAMELEN, 1)

(* do buf[i++] = digits[x % base]; while((x /= base) != 0); *)
RECURSIVE Digits(_)
Digits(x) == <<x % NumBase>> \o (IF x \div NumBase = 0 THEN <<>> ELSE Digits(x \div NumBase))

(* x = -xx, as a uint, which the least int also has *)
Magnitude(xx) == IF xx < 0 THEN (-xx) % UINTS ELSE xx

MinusSign == -1              \* the character, among digits

(* printint(xx, base, 1): buf[], whose last byte is printed first *)
Printint(xx) == Digits(Magnitude(xx)) \o (IF xx < 0 THEN <<MinusSign>> ELSE <<>>)

(* atoi(): n*10 + digit, in an int *)
Atoi(s) == Signed(FoldLeft(LAMBDA n, c : (n * NumBase + c) % UINTS, 0, s))
-----------------------------------------------------------------------------
NoCall == [f |-> "none"]
Names == UNION {[1..n -> Letters] : n \in 0..(NAMELEN + 1)}

TxInit == call = NoCall

CallMemmove(d, s, n) ==
  LET mem == [k \in 1..NMEM |-> k] IN
  /\ call = NoCall /\ d + n - 1 <= NMEM /\ s + n - 1 <= NMEM
  /\ call' = [f |-> "memmove", d |-> d, s |-> s, n |-> n,
              mem |-> Memmove(mem, d, s, n), umem |-> UserMemmove(mem, d, s, n)]

CallPrint(x) == call = NoCall /\ call' = [f |-> "print", x |-> x, buf |-> Printint(x)]

CallCopy(t, n) == call = NoCall /\ call' = [f |-> "copy", t |-> t, n |-> n, to |-> Safestrcpy(t, n)]

CallNames(s, t) == call = NoCall /\ call' = [f |-> "names", s |-> s, t |-> t, same |-> Namecmp(s, Stored(t))]

Return == call # NoCall /\ call' = NoCall

TxNext ==
  \/ Return
  \/ \E d, s \in 1..NMEM, n \in 0..NMEM : CallMemmove(d, s, n)
  \/ \E x \in 0..(UINTS - 1) : CallPrint(Signed(x))
  \/ \E t \in Names, n \in 0..(NAMELEN + 1) : CallCopy(t, n)
  \/ \E s, t \in Names : CallNames(s, t)
-----------------------------------------------------------------------------
(* However source and destination overlap, both memmove()s copy what was there
   before, and touch nothing else. *)
MemmoveExact ==
  call.f = "memmove" =>
    \A k \in 1..NMEM :
      LET want == IF k \in call.d..(call.d + call.n - 1) THEN call.s + k - call.d ELSE k
      IN  call.mem[k] = want /\ call.umem[k] = want

(* printint() prints every int, the least one included, in the buffer it has,
   without leading zeros, and atoi() reads it back. *)
PrintExact ==
  call.f = "print" =>
    LET neg == Last(call.buf) = MinusSign
        ds == Reverse(IF neg THEN Front(call.buf) ELSE call.buf)
    IN  /\ Len(call.buf) <= NUMBUF
        /\ neg <=> call.x < 0
        /\ (IF neg THEN -call.x ELSE call.x) = FoldLeft(LAMBDA n, c : n * NumBase + c, 0, ds)
        /\ Len(ds) > 1 => Head(ds) # 0
        /\ ~neg => Atoi(ds) = call.x

(* safestrcpy() writes at most n bytes, and what is read from there up to the
   first NUL is the string, cut only where n leaves no room for more. *)
CopyTerminated ==
  call.f = "copy" =>
    /\ Len(call.to) <= call.n
    /\ call.n > 0 => \E z \in DOMAIN call.to :
                       /\ call.to[z] = 0 /\ z - 1 = Min({call.n - 1, Len(call.t)})
                       /\ \A k \in 1..(z - 1) : call.to[k] # 0 /\ call.to[k] = call.t[k]

(* A name of NAMELEN bytes or more is stored without a NUL; dirlookup() finds
   it all the same, and no other name but those cut to the same bytes. *)
NamesCompare ==
  call.f = "names" =>
    (call.same <=> SubSeq(call.s, 1, Min({NAMELEN, Len(call.s)})) = SubSeq(call.t, 1, Min({NAMELEN, Len(call.t)})))

(* The routines of string.c, ulib.c and printf.c do what their callers rely on. *)
TextRight == MemmoveExact /\ PrintExact /\ CopyTerminated /\ NamesCompare
=============================================================================
