------------------------------ MODULE Umalloc ------------------------------
(***************************************************************************)
(* malloc() and free() of user/umalloc.c, on memory itself: a header takes *)
(* U cells, its ptr is in the first and its size, in headers, in the       *)
(* second; h = [mem, freep, brk] is what a program has of it.              *)
(***************************************************************************)
EXTENDS Integers, FiniteSetsExt

CONSTANTS U, MINCORE,     \* cells of a header; the units of an sbrk(), 4096
          LIMIT           \* where sbrk() fails

Base == U                 \* &base; 0 is the null pointer
HeapStart == 2 * U

Ptr(h, p) == h.mem[p]
Size(h, p) == h.mem[p + 1]
SetPtr(h, p, v) == [h EXCEPT !.mem[p] = v]
SetSize(h, p, v) == [h EXCEPT !.mem[p + 1] = v]
End(h, p) == p + U * Size(h, p)

(* Mutant: a block above the last one is not looked for. *)
BetweenOnly(h, bp, p) == (bp > p /\ bp < Ptr(h, p)) \/ p >= Ptr(h, p)

(* bp belongs between p and the next, or p is the last and bp beyond an end. *)
Between(h, bp, p) ==
  \/ bp > p /\ bp < Ptr(h, p)
  \/ p >= Ptr(h, p) /\ (bp > p \/ bp < Ptr(h, p))

(* The loop of free(): the block that bp goes after *)
RECURSIVE Spot(_, _, _)
Spot(h, bp, p) == IF Between(h, bp, p) THEN p ELSE Spot(h, bp, Ptr(h, p))

(* p + p->s.size == bp: they become one. *)
JoinLower(h, bp, p) ==
  IF End(h, p) = bp THEN SetPtr(SetSize(h, p, Size(h, p) + Size(h, bp)), p, Ptr(h, bp))
  ELSE SetPtr(h, p, bp)

JoinUpper(h, bp, next) ==
  IF End(h, bp) = next THEN SetPtr(SetSize(h, bp, Size(h, bp) + Size(h, next)), bp, Ptr(h, next))
  ELSE SetPtr(h, bp, next)

(* free(): bp is the header *)
FreeBlock(h, bp) ==
  LET p == Spot(h, bp, h.freep)
  IN  [JoinLower(JoinUpper(h, bp, Ptr(h, p)), bp, p) EXCEPT !.freep = p]

(* morecore(): freep is 0 in the result when sbrk() fails. *)
Morecore(h, nu) ==
  LET n == Max({nu, MINCORE}) IN
  IF h.brk + U * n > LIMIT THEN [h EXCEPT !.freep = 0]
  ELSE FreeBlock([SetSize(h, h.brk, n) EXCEPT !.brk = @ + U * n], h.brk)

Units(ncells) == ((ncells + U - 1) \div U) + 1

(* The loop of malloc(), at p with prevp before it. *)
RECURSIVE Search(_, _, _, _)
Search(h, prevp, p, n) ==
  IF Size(h, p) = n THEN [heap |-> [SetPtr(h, prevp, Ptr(h, p)) EXCEPT !.freep = prevp], at |-> p]
  ELSE IF Size(h, p) > n THEN
    LET rest == Size(h, p) - n
        q == p + U * rest
    IN  [heap |-> [SetSize(SetSize(h, p, rest), q, n) EXCEPT !.freep = prevp], at |-> q]
  ELSE IF p = h.freep THEN
    LET more == Morecore(h, n)
    IN  IF more.freep = 0 THEN [heap |-> h, at |-> 0] ELSE Search(more, more.freep, Ptr(more, more.freep), n)
  ELSE Search(h, p, Ptr(h, p), n)

(* malloc(): the header of the block, or 0 *)
Malloc(h, ncells) ==
  LET g == IF h.freep = 0 THEN [SetSize(SetPtr(h, Base, Base), Base, 0) EXCEPT !.freep = Base] ELSE h
  IN  Search(g, g.freep, Ptr(g, g.freep), Units(ncells))

NoHeap == [mem |-> [a \in 0..(LIMIT - 1) |-> 0], freep |-> 0, brk |-> HeapStart]
=============================================================================
