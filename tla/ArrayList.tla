----------------------------- MODULE ArrayList -----------------------------
(***************************************************************************)
(* A program that uses malloc() and free() directly and through the array  *)
(* list of user/arraylist.c.  An int takes a cell; the fields of struct    *)
(* arraylist are kept in al, the block they take is not.  al_new() and     *)
(* al_resize() do not test what malloc() returns: the access that follows  *)
(* faults, the kernel kills the program, and another begins.               *)
(***************************************************************************)
EXTENDS Umalloc, SequencesExt

CONSTANTS CAPACITY,            \* DEF_ARRAY_LIST_CAPACITY
          STRUCT,              \* cells of a struct arraylist
          Requests, MaxBlocks

VARIABLES heap, blocks,        \* blocks: the blocks of the program, by header, and their cells
          al, appended         \* appended: history, what was appended to the list

alVars == <<heap, blocks, al, appended>>
NoList == [size |-> 0, capacity |-> 0, list |-> 0, self |-> 0]

AlTypeOK ==
  /\ heap.freep \in 0..(LIMIT - 1) /\ heap.brk \in HeapStart..LIMIT
  /\ \A b \in DOMAIN blocks : b \in HeapStart..(heap.brk - 1)
  /\ al.size \in 0..al.capacity

AlInit == heap = NoHeap /\ blocks = <<>> /\ al = NoList /\ appended = <<>>

Killed == heap' = NoHeap /\ blocks' = <<>> /\ al' = NoList /\ appended' = <<>>

(* The headers on the free list, from base round to base. *)
RECURSIVE Ring(_, _, _)
Ring(h, p, seen) == IF p \in seen THEN seen ELSE Ring(h, Ptr(h, p), seen \cup {p})

(* What a cell holds that is neither in a header on the list, nor the size of
   a block, nor an element of the array list, no one reads: call it 0. *)
Scrubbed(h, bs, a) ==
  LET ring == IF h.freep = 0 THEN {} ELSE Ring(h, Base, {})
      kept == ring \cup {p + 1 : p \in ring \cup DOMAIN bs} \cup {a.list + k : k \in 0..(a.size - 1)}
  IN  [h EXCEPT !.mem = [c \in DOMAIN @ |-> IF c \in kept THEN @[c] ELSE 0]]

Owning(f, b, n) == [x \in DOMAIN f \cup {b} |-> IF x = b THEN n ELSE f[x]]
Lists == {al.list - U, al.self - U}

UserMalloc(n) ==
  LET m == Malloc(heap, n) IN
  /\ Cardinality(DOMAIN blocks \ Lists) < MaxBlocks
  /\ blocks' = IF m.at = 0 THEN blocks ELSE Owning(blocks, m.at, n)
  /\ heap' = Scrubbed(m.heap, blocks', al)
  /\ UNCHANGED <<al, appended>>

UserFree(b) ==
  /\ b \in DOMAIN blocks \ Lists
  /\ blocks' = [x \in DOMAIN blocks \ {b} |-> blocks[x]]
  /\ heap' = Scrubbed(FreeBlock(heap, b), blocks', al)
  /\ UNCHANGED <<al, appended>>

(* al_new() *)
AlNew ==
  LET s == Malloc(heap, STRUCT)
      l == Malloc(s.heap, CAPACITY)
  IN  /\ al = NoList
      /\ \/ s.at = 0 /\ Killed
         \/ /\ s.at # 0
            /\ al' = [size |-> 0, capacity |-> CAPACITY, list |-> IF l.at = 0 THEN 0 ELSE l.at + U, self |-> s.at + U]
            /\ blocks' = LET o == Owning(blocks, s.at, STRUCT)
                         IN  IF l.at = 0 THEN o ELSE Owning(o, l.at, CAPACITY)
            /\ heap' = Scrubbed(l.heap, blocks', al')
            /\ appended' = <<>>

(* al_resize(): the new list, with a copy of the old one, which is freed. *)
Resized(a) ==
  LET m == Malloc(heap, 2 * a.capacity)
      copy == [m.heap EXCEPT !.mem = [c \in DOMAIN @ |->
                 IF c - (m.at + U) \in 0..(a.size - 1) THEN @[a.list + (c - m.at - U)] ELSE @[c]]]
  IN  IF m.at = 0 THEN m ELSE [heap |-> FreeBlock(copy, a.list - U), at |-> m.at]

Full(a) == a.size = a.capacity

(* al_append() *)
AlAppend(v) ==
  LET full == Full(al)
      m == IF full THEN Resized(al) ELSE [heap |-> heap, at |-> al.list - U]
      list == m.at + U
  IN  /\ al # NoList
      /\ \/ (al.list = 0 \/ m.at = 0) /\ Killed
         \/ /\ al.list # 0 /\ m.at # 0
            /\ al' = [al EXCEPT !.size = @ + 1, !.list = list, !.capacity = IF full THEN 2 * @ ELSE @]
            /\ blocks' = IF full THEN Owning([x \in DOMAIN blocks \ {al.list - U} |-> blocks[x]], m.at, 2 * al.capacity)
                         ELSE blocks
            /\ heap' = Scrubbed([m.heap EXCEPT !.mem[list + al.size] = v], blocks', al')
            /\ appended' = Append(appended, v)

(* al_free().  A list that al_new() got no memory for is given to free() as a
   null pointer: what free() reads below it faults. *)
AlFree ==
  /\ al # NoList
  /\ \/ al.list = 0 /\ Killed
     \/ /\ al.list # 0
        /\ blocks' = [x \in DOMAIN blocks \ Lists |-> blocks[x]]
        /\ al' = NoList /\ appended' = <<>>
        /\ heap' = Scrubbed(FreeBlock(FreeBlock(heap, al.list - U), al.self - U), blocks', al')

AlNext ==
  \/ AlNew \/ AlFree
  \/ AlAppend(Len(appended) + 1)      \* what is appended does not matter: numbers that differ
  \/ \E n \in Requests : UserMalloc(n)
  \/ \E b \in DOMAIN blocks : UserFree(b)
-----------------------------------------------------------------------------
FreeBlocks == IF heap.freep = 0 THEN {} ELSE Ring(heap, Base, {}) \ {Base}
Cells(b) == b..(End(heap, b) - 1)

(* free() joins neighbours and malloc() splits: the blocks on the list and
   those handed out, each with room for what was asked, tile the heap; no two
   free ones touch. *)
HeapTiled ==
  /\ FreeBlocks \cap DOMAIN blocks = {}
  /\ \A b \in DOMAIN blocks : End(heap, b) - b - U >= blocks[b]
  /\ \A b, c \in FreeBlocks \cup DOMAIN blocks : b # c => Cells(b) \cap Cells(c) = {}
  /\ UNION {Cells(b) : b \in FreeBlocks \cup DOMAIN blocks} = HeapStart..(heap.brk - 1)
  /\ \A b, c \in FreeBlocks : End(heap, b) # c

(* The list goes up in memory and round once, which free() relies on to find
   the place of a block, and freep is on it. *)
RingSorted ==
  heap.freep # 0 =>
    /\ heap.freep \in FreeBlocks \cup {Base}
    /\ \A p \in FreeBlocks \cup {Base} :
         Ptr(heap, p) = LET above == {q \in FreeBlocks : q > p} IN IF above = {} THEN Base ELSE Min(above)

(* al_append() and al_resize() keep what was appended, whatever else the
   program allocates and frees, inside the block of the list. *)
ListKept ==
  al # NoList /\ al.list # 0 =>
    /\ al.size = Len(appended)
    /\ \A k \in 1..al.size : heap.mem[al.list + k - 1] = appended[k]
    /\ al.list - U \in DOMAIN blocks /\ al.size <= blocks[al.list - U]

(* malloc() and free() keep the heap in order, and the array list its elements. *)
HeapSafe == AlTypeOK /\ HeapTiled /\ RingSorted /\ ListKept
=============================================================================
