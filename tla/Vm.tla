--------------------------------- MODULE Vm ---------------------------------
(***************************************************************************)
(* Memory: kalloc.c, the page tables of vm.c, and the system calls that    *)
(* build and tear down address spaces (fork, exec, sbrk, exit), with every *)
(* way of running out of memory.  kmem.lock is all that two processes      *)
(* share here, so that a call is one step.                                 *)
(*                                                                         *)
(* Pages are interchangeable, so that a page is what it is used for: free  *)
(* counts those on kmem.freelist; in a page table, tab is the tables it    *)
(* consists of, by level and prefix of the address, and map gives the      *)
(* permissions of the leaves, by page number.  Operations thread a record  *)
(* [free, tab, map, ok, ...] through the calls they make; ok is what the   *)
(* last call returned, sz the size of the image that exec() builds.        *)
(***************************************************************************)
EXTENDS Integers, SequencesExt, FiniteSetsExt

CONSTANTS VmProc, NFRAMES,
          PGSIZE, FAN, LEVELS,     \* 4096, 512 and 2 in the code
          UINT64, ALIGN, WORD, MAXARG,
          Deltas,                  \* arguments of sbrk()
          Images, Arguments        \* what exec() may find: see Exec

VARIABLES free,      \* kmem.freelist
          space,     \* p->pagetable
          vsz,       \* p->sz
          framed,    \* the processes with a trap frame, the slots in use
          args,      \* history: where the last exec() of p put its arguments
          vmPanic

vmVars == <<free, space, vsz, framed, args, vmPanic>>

MAXPG == FAN ^ (LEVELS + 1)
TRAMPOLINE == MAXPG - 1
TRAPFRAME == MAXPG - 2
InitProc == Min(VmProc)
Root == <<LEVELS + 1, 0>>
NoSpace == [tab |-> {}, map |-> <<>>]
NoArgs == [sp |-> 0, at |-> <<>>, len |-> <<>>]

(* A process runs out of memory before it runs out of addresses. *)
ASSUME MemoryIsSmall == NFRAMES <= TRAPFRAME

PGROUNDDOWN(a) == a - (a % PGSIZE)
PGROUNDUP(a) == PGROUNDDOWN(a + PGSIZE - 1)
PagesOf(a, b) == [k \in 1..((b - a) \div PGSIZE) |-> (a \div PGSIZE) + k - 1]

On(f, t) == [free |-> f, tab |-> t.tab, map |-> t.map, ok |-> TRUE, panic |-> FALSE, sz |-> 0]
Without(f, k) == [x \in DOMAIN f \ {k} |-> f[x]]
With(f, k, v) == [x \in DOMAIN f \cup {k} |-> IF x = k THEN v ELSE f[x]]
Panics(r) == [r EXCEPT !.panic = TRUE]
Fails(r) == [r EXCEPT !.ok = FALSE]

(* What follows a call that succeeded, and the undo of one that failed. *)
Then(r, f(_)) == IF r.ok /\ ~r.panic THEN f(r) ELSE r
OrElse(r, f(_)) == IF r.ok \/ r.panic THEN r ELSE f(r)

(* f(r, k) for every k of s in turn, until one fails. *)
Each(f(_, _), r, s) == FoldLeft(LAMBDA acc, k : Then(acc, LAMBDA q : f(q, k)), r, s)
-----------------------------------------------------------------------------
(* kalloc() and kfree(); the former fails when the list is empty. *)
KallocFrom(r) == IF r.free = 0 THEN Fails(r) ELSE [r EXCEPT !.free = @ - 1]
KfreeTo(r) == [r EXCEPT !.free = @ + 1]

(* The tables walk() goes through below the root, from the top. *)
Route(va) == [i \in 1..LEVELS |-> <<LEVELS + 1 - i, va \div (FAN ^ (LEVELS + 1 - i))>>]

(* walk(pagetable, va, 0) # 0 *)
Walk(t, va) == \A i \in 1..LEVELS : Route(va)[i] \in t.tab

(* walk(pagetable, va, 1): the tables it makes stay when it fails later. *)
WalkAlloc(r, va) ==
  LET Down(s, k) ==
        IF k \in s.tab THEN s
        ELSE Then(KallocFrom(s), LAMBDA a : [a EXCEPT !.tab = @ \cup {k}])
  IN  IF va >= MAXPG THEN Panics(r) ELSE Each(Down, r, Route(va))

(* mappages() of one page *)
Mappages(r, va, perm) ==
  Then(WalkAlloc(r, va), LAMBDA w : IF va \in DOMAIN w.map THEN Panics(w)
                                    ELSE [w EXCEPT !.map = With(@, va, perm)])

(* uvmunmap() *)
Uvmunmap(r, s, doFree) ==
  LET One(q, va) ==
        IF ~Walk(q, va) \/ va \notin DOMAIN q.map THEN Panics(q)
        ELSE [q EXCEPT !.map = Without(@, va), !.free = IF doFree THEN @ + 1 ELSE @]
  IN  [Each(One, [r EXCEPT !.ok = TRUE], s) EXCEPT !.ok = r.ok]

(* freewalk(): every table goes, and no leaf may be left. *)
Freewalk(r) ==
  IF r.map # <<>> THEN Panics(r)
  ELSE [r EXCEPT !.free = @ + Cardinality(r.tab), !.tab = {}]

Uvmfree(r, sz) == Freewalk(Uvmunmap(r, PagesOf(0, PGROUNDUP(sz)), TRUE))

(* Mutant: the page that newsz is in goes too. *)
UvmdeallocDown(r, oldsz, newsz) ==
  IF newsz >= oldsz THEN r ELSE Uvmunmap(r, PagesOf(PGROUNDDOWN(newsz), PGROUNDUP(oldsz)), TRUE)

(* uvmdealloc() *)
Uvmdealloc(r, oldsz, newsz) ==
  IF newsz >= oldsz THEN r ELSE Uvmunmap(r, PagesOf(PGROUNDUP(newsz), PGROUNDUP(oldsz)), TRUE)

(* What is done with a page that could not be mapped. *)
Unmapped(r) == KfreeTo(r)

(* kalloc() and mappages() at va; undone when the latter fails. *)
NewPage(r, va, perm) ==
  Then(KallocFrom(r), LAMBDA a : OrElse(Mappages(a, va, perm), Unmapped))

(* How many of the pages of s were mapped before one failed. *)
Got(r, w, s) == Cardinality(DOMAIN w.map) - Cardinality(DOMAIN r.map)

(* uvmalloc(): the pages from oldsz to newsz.  When one is missing, those
   already mapped are given back. *)
Uvmalloc(r, oldsz, newsz, xperm) ==
  LET s == PagesOf(PGROUNDUP(oldsz), PGROUNDUP(newsz))
  IN  IF newsz < oldsz THEN r
      ELSE OrElse(Each(LAMBDA q, va : NewPage(q, va, {"R", "U"} \cup xperm), r, s),
                  LAMBDA w : Uvmunmap(w, SubSeq(s, 1, Got(r, w, s)), TRUE))

(* uvmcopy(): a copy of every page below sz, with its permissions. *)
Uvmcopy(r, old, sz) ==
  LET s == PagesOf(0, PGROUNDUP(sz))
      One(q, va) == IF ~Walk(old, va) \/ va \notin DOMAIN old.map THEN Panics(q)
                    ELSE NewPage(q, va, old.map[va])
  IN  OrElse(Each(One, r, s), LAMBDA w : Uvmunmap(w, SubSeq(s, 1, Got(r, w, s)), TRUE))

(* uvmclear() *)
Uvmclear(r, va) == IF ~Walk(r, va) THEN Panics(r) ELSE [r EXCEPT !.map[va] = @ \ {"U"}]

(* proc_pagetable(): the trampoline, then the trap frame. *)
ProcPagetable(r) ==
  LET Trampoline(a) == OrElse(Mappages([a EXCEPT !.tab = {Root}], TRAMPOLINE, {"R", "X"}), Freewalk)
      Trapframe(a) == OrElse(Mappages(a, TRAPFRAME, {"R", "W"}),
                             LAMBDA w : Freewalk(Uvmunmap(w, <<TRAMPOLINE>>, FALSE)))
  IN  Then(Then(KallocFrom(r), Trampoline), Trapframe)

(* proc_freepagetable() *)
ProcFreepagetable(r, sz) ==
  Uvmfree(Uvmunmap(r, <<TRAMPOLINE, TRAPFRAME>>, FALSE), sz)
-----------------------------------------------------------------------------
SpaceOf(r) == [tab |-> r.tab, map |-> r.map]

VmTypeOK ==
  /\ free \in 0..NFRAMES /\ framed \subseteq VmProc /\ vmPanic \in BOOLEAN
  /\ vsz \in [VmProc -> 0..(TRAPFRAME * PGSIZE)]
  /\ \A p \in VmProc :
       /\ DOMAIN space[p].map \subseteq 0..TRAMPOLINE
       /\ \A va \in DOMAIN space[p].map : space[p].map[va] \subseteq {"R", "W", "X", "U"}

(* kinit() *)
VmInit ==
  /\ free = NFRAMES /\ vmPanic = FALSE /\ framed = {}
  /\ space = [p \in VmProc |-> NoSpace] /\ vsz = [p \in VmProc |-> 0]
  /\ args = [p \in VmProc |-> NoArgs]

Live(p) == p \in framed /\ ~vmPanic

(* userinit(): allocproc() and uvmfirst(), one process with one page. *)
Userinit ==
  \E r \in {NewPage(ProcPagetable(KallocFrom(On(free, NoSpace))), 0, {"R", "W", "X", "U"})} :
    /\ framed = {} /\ framed' = {InitProc}
    /\ free' = r.free /\ space' = [space EXCEPT ![InitProc] = SpaceOf(r)]
    /\ vsz' = [vsz EXCEPT ![InitProc] = PGSIZE]
    /\ UNCHANGED <<args, vmPanic>>

Break(p, n) == (vsz[p] + n) % UINT64

(* sbrk(n): growproc() *)
Regrown(p, n) ==
  IF n > 0 THEN Uvmalloc(On(free, space[p]), vsz[p], Break(p, n), {"W"})
  ELSE Uvmdealloc(On(free, space[p]), vsz[p], Break(p, n))
Growproc(p, n) ==
  /\ Live(p)
  /\ \E r \in {Regrown(p, n)} :
       /\ free' = r.free /\ space' = [space EXCEPT ![p] = SpaceOf(r)]
       /\ vsz' = [vsz EXCEPT ![p] = IF r.ok /\ (n > 0 \/ Break(p, n) < @) THEN Break(p, n) ELSE @]
       /\ vmPanic' = r.panic
  /\ args' = [args EXCEPT ![p] = NoArgs]      \* the program does what it likes
  /\ UNCHANGED framed

(* freeproc() of a process without a thread: the trap frame and the rest. *)
Freeproc(r, sz) == ProcFreepagetable(KfreeTo(r), sz)

(* fork(): allocproc(), then uvmcopy(); np->sz is 0 until that succeeds. *)
Forked(p) ==
  LET Table(a) == OrElse(ProcPagetable(a), KfreeTo)
      Copied(t) == OrElse(Uvmcopy(t, space[p], vsz[p]), LAMBDA c : Freeproc(c, 0))
  IN  Then(Then(KallocFrom(On(free, NoSpace)), Table), Copied)
VmFork(p, q) ==
  /\ Live(p) /\ q \notin framed
  /\ \E r \in {Forked(p)} :
       /\ free' = r.free /\ vmPanic' = r.panic
       /\ space' = [space EXCEPT ![q] = SpaceOf(r)]
       /\ vsz' = [vsz EXCEPT ![q] = IF r.ok THEN vsz[p] ELSE 0]
       /\ framed' = IF r.ok THEN framed \cup {q} ELSE framed
       /\ args' = [args EXCEPT ![q] = IF r.ok THEN args[p] ELSE NoArgs]

(* exit(), and freeproc() by the wait() that reaps the process; initproc stays. *)
VmExit(p) ==
  /\ Live(p) /\ p # InitProc
  /\ \E r \in {Freeproc(On(free, space[p]), vsz[p])} :
       free' = r.free /\ vmPanic' = r.panic /\ space' = [space EXCEPT ![p] = SpaceOf(r)]
  /\ vsz' = [vsz EXCEPT ![p] = 0] /\ framed' = framed \ {p}
  /\ args' = [args EXCEPT ![p] = NoArgs]
-----------------------------------------------------------------------------
(* sys_exec(): a page for every argument, until one is missing, a pointer is
   bad or argv[] is full. *)
FetchArgs(r, a) ==
  Then(Each(LAMBDA q, k : KallocFrom(q), r, [k \in 1..Min({Len(a.len), MAXARG}) |-> k]),
       LAMBDA w : [w EXCEPT !.ok = ~a.fault /\ Len(a.len) < MAXARG])

(* One segment of the program: uvmalloc() up to its end, then loadseg(), which
   finds the file shorter than the header says when g.short.  sz is stored when
   uvmalloc() has succeeded. *)
LoadSegment(r, g) ==
  LET end == (g.vaddr + g.memsz) % UINT64
      Present(w, k) == LET va == (g.vaddr + k) \div PGSIZE IN va \in DOMAIN w.map /\ "U" \in w.map[va]
      Loadseg(w) == IF w.sz = 0 THEN Fails(w)
                    ELSE IF \E k \in 0..(g.filesz - 1) : ~Present(w, k) THEN Panics(w)
                    ELSE [w EXCEPT !.ok = ~g.short]
  IN  IF g.memsz < g.filesz \/ end < g.vaddr \/ g.vaddr % PGSIZE # 0 THEN Fails(r)
      ELSE Then(Uvmalloc(r, r.sz, end, g.perm), LAMBDA w : Loadseg([w EXCEPT !.sz = Max({r.sz, end})]))

(* The guard page and the stack, above the program. *)
MakeStack(r) ==
  LET base == PGROUNDUP(r.sz)
      top == base + 2 * PGSIZE
  IN  Then(Uvmalloc([r EXCEPT !.sz = base], base, top, {"W"}),
           LAMBDA w : Uvmclear([w EXCEPT !.sz = top], base \div PGSIZE))

Aligned(sp) == sp - (sp % ALIGN)

Room(sp, n, stackbase) == Aligned(sp - n) >= stackbase

(* Space of n bytes below sp. *)
Push(a, n, stackbase) ==
  [a EXCEPT !.sp = Aligned(@ - n), !.at = Append(@, Aligned(a.sp - n)), !.len = Append(@, n),
            !.ok = @ /\ Room(a.sp, n, stackbase)]

(* The argument strings, with their NULs, and the array of their addresses. *)
PushArgs(sz, lens) ==
  LET strings == FoldLeft(LAMBDA a, n : IF a.ok THEN Push(a, n + 1, sz - PGSIZE) ELSE a,
                          [sp |-> sz, at |-> <<>>, len |-> <<>>, ok |-> TRUE], lens)
  IN  IF strings.ok THEN Push(strings, (Len(lens) + 1) * WORD, sz - PGSIZE) ELSE strings

(* sys_exec() and exec(), after the arguments f were fetched: an image is built
   beside the old one, which goes when nothing can fail any more.  argv[] is
   freed in any case. *)
Begun(f, image) == IF image.header THEN Then(f, ProcPagetable) ELSE Fails(f)
Built(t, image) == Then(Each(LoadSegment, t, image.segments), MakeStack)
Undone(t, e) == IF t.ok THEN ProcFreepagetable(e, e.sz) ELSE t

Exec(p, image, a) ==
  /\ Live(p)
  /\ \E f \in {FetchArgs(On(free, NoSpace), a)} :
     \E t \in {Begun(f, image)} :
     \E e \in {Built(t, image)} :
     \E u \in {PushArgs(e.sz, a.len)} :
       LET done == e.ok /\ ~e.panic /\ u.ok IN
       /\ \E z \in {IF done THEN ProcFreepagetable(On(e.free, space[p]), vsz[p]) ELSE Undone(t, e)} :
            /\ free' = z.free + (free - f.free)
            /\ vmPanic' = (e.panic \/ z.panic)
       /\ space' = [space EXCEPT ![p] = IF done THEN SpaceOf(e) ELSE @]
       /\ vsz' = [vsz EXCEPT ![p] = IF done THEN e.sz ELSE @]
       /\ args' = [args EXCEPT ![p] = IF done THEN [sp |-> u.sp, at |-> u.at, len |-> u.len] ELSE @]
  /\ UNCHANGED framed

VmNext ==
  \/ Userinit
  \/ \E p \in VmProc :
       \/ VmExit(p)
       \/ \E n \in Deltas : Growproc(p, n)
       \/ \E q \in VmProc : VmFork(p, q)
       \/ \E image \in Images, a \in Arguments : Exec(p, image, a)
-----------------------------------------------------------------------------
(* walkaddr() # 0: only pages the user may touch *)
Walkaddr(t, a) ==
  LET va == a \div PGSIZE IN va < MAXPG /\ Walk(t, va) /\ va \in DOMAIN t.map /\ "U" \in t.map[va]

(* How much of a copy lies in the page of a. *)
Piece(a, len) == Min({PGSIZE - (a - PGROUNDDOWN(a)), len})

(* copyin() and copyout(): the bytes of memory that are touched, in order, and
   whether the copy was complete. *)
RECURSIVE Copy(_, _, _)
Copy(t, a, len) ==
  IF len = 0 THEN [bytes |-> <<>>, ok |-> TRUE]
  ELSE IF ~Walkaddr(t, a) THEN [bytes |-> <<>>, ok |-> FALSE]
  ELSE LET n == Piece(a, len)
           here == [k \in 1..n |-> <<a \div PGSIZE, (a % PGSIZE) + k - 1>>]
           rest == Copy(t, PGROUNDDOWN(a) + PGSIZE, len - n)
       IN  [bytes |-> here \o rest.bytes, ok |-> rest.ok]

(* copyinstr(): the length of the string at a, or -1.  nuls are the bytes of
   memory that are 0. *)
RECURSIVE Copyinstr(_, _, _, _)
Copyinstr(t, a, max, nuls) ==
  IF max = 0 \/ ~Walkaddr(t, a) THEN -1
  ELSE LET n == Piece(a, max)
           hits == {k \in 0..(n - 1) : <<a \div PGSIZE, (a % PGSIZE) + k>> \in nuls}
           rest == Copyinstr(t, PGROUNDDOWN(a) + PGSIZE, max - n, nuls)
       IN  IF hits # {} THEN Min(hits) ELSE IF rest = -1 THEN -1 ELSE n + rest
-----------------------------------------------------------------------------
UserVas(p) == DOMAIN space[p].map \ {TRAMPOLINE, TRAPFRAME}

(* Whatever calls failed half way, every page is on the free list or has one
   use, as a table, as a page of a process or as a trap frame: none is lost,
   and none is freed twice. *)
PagesConserved ==
  NFRAMES = free + Cardinality(framed)
           + MapThenSumSet(LAMBDA p : Cardinality(space[p].tab) + Cardinality(UserVas(p)), VmProc)

(* uvmunmap(), uvmcopy() and freewalk() panic on holes and on leftovers: the
   pages of a process are those below p->sz, all of them, and the two on top. *)
SizeIsMapped ==
  \A p \in framed :
    /\ UserVas(p) = 0..((PGROUNDUP(vsz[p]) \div PGSIZE) - 1)
    /\ {TRAMPOLINE, TRAPFRAME} \subseteq DOMAIN space[p].map

(* None of walk, remap, uvmunmap, uvmcopy, uvmclear, freewalk and loadseg
   panics. *)
VmNoPanic == ~vmPanic

(* What exec() hands to main(): aligned strings and argv[], one below the
   other, inside the stack page, with a page below it that the user cannot
   touch, also in a child. *)
ArgumentsIntact ==
  \A p \in VmProc : args[p] # NoArgs =>
    LET a == args[p]
        base == vsz[p] - PGSIZE
    IN  /\ \A k \in DOMAIN a.at :
             /\ a.at[k] % ALIGN = 0 /\ a.at[k] >= base
             /\ a.at[k] + a.len[k] <= (IF k = 1 THEN vsz[p] ELSE a.at[k - 1])
        /\ a.sp = Last(a.at) /\ Len(a.at) <= MAXARG
        /\ Walkaddr(space[p], base) /\ ~Walkaddr(space[p], base - PGSIZE)

(* copyin(), copyout() and copyinstr() go page by page; they touch exactly the
   bytes of the range, and succeed if all of them are in pages of the user.
   copyout() does not ask for PTE_W: it also stores into a page that the user may
   only read. *)
CopyIsExact ==
  \A p \in framed :
    LET t == space[p]
        at(a) == <<a \div PGSIZE, a % PGSIZE>>
        tops == {PGROUNDUP(vsz[p]) - 1, TRAPFRAME * PGSIZE - 1}
    IN  \A a \in (0..(PGSIZE + 1)) \cup tops, len \in {0, 1, 2, PGSIZE, PGSIZE + 2} :
          LET c == Copy(t, a, len)
              can == \A k \in 0..(len - 1) : Walkaddr(t, a + k)
          IN  /\ c.ok = can
              /\ can => c.bytes = [k \in 1..len |-> at(a + k - 1)]
              /\ can => \A k \in 0..(len - 1) :
                          Copyinstr(t, a, len, {at(a + k)}) = k /\ Copyinstr(t, a, k, {at(a + k)}) = -1

(* Memory stays sound through sbrk(), fork(), exec() and exit(), and through
   their failures half way; what exec() and the copies promise, they do. *)
MemorySafe ==
  /\ VmTypeOK /\ PagesConserved /\ SizeIsMapped /\ VmNoPanic
  /\ ArgumentsIntact /\ CopyIsExact
=============================================================================
