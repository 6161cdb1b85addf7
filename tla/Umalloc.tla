-------------------------------- MODULE Umalloc --------------------------------
(***************************************************************************)
(* The memory allocator of user programs, user/umalloc.c.  Addresses count *)
(* in units of sizeof(Header).  The free blocks are a circular list in the *)
(* order of their addresses, with the static header base, which lies below *)
(* the heap, as a member of size 0.                                        *)
(***************************************************************************)
EXTENDS Integers, FiniteSets

CONSTANTS Units,      \* the nunits that programs ask for, header included
          MINUNITS,   \* what morecore() asks for at least, 4096 in the code
          HEAP,       \* first address of the heap
          LIMIT,      \* the kernel's sbrk() fails beyond this address
          Gaps        \* what a program may take from the heap by calling sbrk() itself

base == 0
Null == -1

UmallocAssumption ==
  /\ MINUNITS \in Nat \ {0} /\ HEAP > base + 1 /\ LIMIT >= HEAP
  /\ \A u \in Units : u >= 2
  /\ \A g \in Gaps : g > 0

VARIABLES
  ptr, siz,   \* s.ptr and s.size of the header at each address
  freep,      \* 0 (here Null) until the first malloc()
  brk,        \* end of the heap
  live,       \* the blocks that malloc() has returned and free() has not got back
  gap         \* the units that the program took with sbrk()

vars == <<ptr, siz, freep, brk, live, gap>>

Init ==
  /\ ptr = [a \in base..LIMIT |-> Null] /\ siz = [a \in base..LIMIT |-> 0]
  /\ freep = Null
  /\ brk = HEAP
  /\ live = {} /\ gap = {}

\* What the functions work on, and their result.
Heap == [ptr |-> ptr, siz |-> siz, freep |-> freep, brk |-> brk, ret |-> Null]

-------------------------------------------------------------------------------
MutHere(h, bp, p) ==
  \/ bp > p /\ bp < h.ptr[p]
  \/ p >= h.ptr[p]

\* The place of the block bp is after p: between two blocks, or at the end of the
\* list where the addresses start again.
Here(h, bp, p) ==
  \/ bp > p /\ bp < h.ptr[p]
  \/ p >= h.ptr[p] /\ (bp > p \/ bp < h.ptr[p])

\* The loop of free(), from freep on.
RECURSIVE Place(_, _, _)
Place(h, bp, p) == IF Here(h, bp, p) THEN p ELSE Place(h, bp, h.ptr[p])

\* free(): the block joins the list, and its neighbours if they are adjacent.
free(h, bp) ==
  LET p == Place(h, bp, h.freep)
      nxt == h.ptr[p]
      up == bp + h.siz[bp] = nxt
      size == h.siz[bp] + (IF up THEN h.siz[nxt] ELSE 0)
      after == IF up THEN h.ptr[nxt] ELSE nxt
  IN IF p + h.siz[p] = bp
     THEN [h EXCEPT !.siz = [@ EXCEPT ![bp] = size, ![p] = @ + size],
                    !.ptr = [@ EXCEPT ![bp] = after, ![p] = after], !.freep = p]
     ELSE [h EXCEPT !.siz[bp] = size, !.ptr = [@ EXCEPT ![bp] = after, ![p] = bp], !.freep = p]

\* morecore(): nothing, if sbrk() fails; else the new memory as a free block.
morecore(h, nu) ==
  LET n == IF nu < MINUNITS THEN MINUNITS ELSE nu
  IN IF h.brk + n > LIMIT THEN h
     ELSE free([h EXCEPT !.brk = @ + n, !.siz[h.brk] = n], h.brk)

\* A block p, found after prevp, is large enough: all of it or its tail is returned.
Take(h, prevp, p, nunits) ==
  IF h.siz[p] = nunits
  THEN [h EXCEPT !.ptr[prevp] = h.ptr[p], !.freep = prevp, !.ret = p]
  ELSE LET q == p + h.siz[p] - nunits
       IN [h EXCEPT !.siz = [@ EXCEPT ![p] = @ - nunits, ![q] = nunits],
                    !.freep = prevp, !.ret = q]

\* The loop of malloc(): first fit from freep on, and morecore() once around; its free
\* block is looked at after it, as the loop goes on behind freep.
RECURSIVE Search(_, _, _, _)
Search(h, prevp, p, nunits) ==
  IF h.siz[p] >= nunits THEN Take(h, prevp, p, nunits)
  ELSE IF p # h.freep THEN Search(h, p, h.ptr[p], nunits)
  ELSE LET g == morecore(h, nunits)
       IN IF g.brk = h.brk THEN h ELSE Search(g, g.freep, g.ptr[g.freep], nunits)

-------------------------------------------------------------------------------
\* The members of the free list.
RECURSIVE From(_, _, _)
From(h, a, seen) == IF a \in seen THEN seen ELSE From(h, h.ptr[a], seen \cup {a})
Members(h) == IF h.freep = Null THEN {} ELSE From(h, h.freep, {})

\* The new state.  A unit that is no header (any more) is the program's, and what it
\* holds is not tracked.
Set(h) ==
  /\ ptr' = [a \in DOMAIN ptr |-> IF a \in Members(h) THEN h.ptr[a] ELSE Null]
  /\ siz' = [a \in DOMAIN siz |-> IF a \in Members(h) \cup live' THEN h.siz[a] ELSE 0]
  /\ freep' = h.freep /\ brk' = h.brk

malloc(nunits) ==
  LET h0 == IF freep # Null THEN Heap ELSE [Heap EXCEPT !.ptr[base] = base, !.freep = base]
      h == Search(h0, h0.freep, h0.ptr[h0.freep], nunits)
  IN /\ live' = IF h.ret = Null THEN live ELSE live \cup {h.ret}
     /\ Set(h)
     /\ UNCHANGED gap

release(bp) ==
  /\ live' = live \ {bp}
  /\ Set(free(Heap, bp))
  /\ UNCHANGED gap

\* The program calls sbrk() itself: the next block of morecore() is not adjacent.
sbrk(n) ==
  /\ brk + n <= LIMIT
  /\ brk' = brk + n
  /\ gap' = gap \cup brk..(brk + n - 1)
  /\ UNCHANGED <<ptr, siz, freep, live>>

Next ==
  \/ \E u \in Units : malloc(u)
  \/ \E bp \in live : release(bp)
  \/ \E n \in Gaps : sbrk(n)

Spec == Init /\ [][Next]_vars

-------------------------------------------------------------------------------
(* Properties                                                                *)

FreeList == Members(Heap)
Block(a) == a..(a + siz[a] - 1)

\* Every unit of the heap is in exactly one block, one that malloc() returned or one of
\* the free list, which has no two adjacent blocks: malloc() never returns memory that is
\* in use, free() loses none, and what is free is not left in pieces.
HeapPartition ==
  LET free_ == FreeList \ {base}
  IN /\ UNION {Block(a) : a \in live \cup free_} = (HEAP..(brk - 1)) \ gap
     /\ \A a, b \in live \cup free_ : a # b => Block(a) \cap Block(b) = {}
     /\ live \cap free_ = {}
     /\ \A a, b \in free_ : a + siz[a] # b
===============================================================================
