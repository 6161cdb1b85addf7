---------------------------------- MODULE Vm ----------------------------------
(***************************************************************************)
(* Physical pages and who has them: the allocator of kernel/kalloc.c, the  *)
(* page tables of kernel/vm.c, and the calls of kernel/proc.c,             *)
(* kernel/exec.c and kernel/sysfile.c that take memory step by step and    *)
(* have to give it back when the next step fails: fork(), exec(), sbrk(),  *)
(* and exit() with wait().  kalloc() is one step; giving back is one step, *)
(* since the free list only grows meanwhile.  All pages are alike, so that *)
(* the free list is a number, and a page in use is the place where it is.  *)
(***************************************************************************)
EXTENDS Integers, Sequences, FiniteSetsExt

CONSTANTS Proc,      \* slots of the process table
          initproc,  \* the first process
          NPAGES,    \* pages between the kernel's end and PHYSTOP
          PGSIZE,    \* bytes in a page
          MAXSZ,     \* bound: sizes of processes that are modelled
          WRAP,      \* sizes are numbers modulo this, 2^64 in the code
          Node,      \* page-table pages below the root
          Walk,      \* those that walk() goes through for each page, from the root down
          Deltas,    \* arguments of sbrk()
          Programs,  \* executables: where each of their segments ends
          ARGC,      \* arguments of exec()
          None

VPN  == 0..((MAXSZ - 1) \div PGSIZE)
Top  == MAXSZ  \* stands for the pages of the trampoline and the trapframe

ASSUME VmAssumption ==
  /\ initproc \in Proc /\ None \notin Proc /\ "root" \notin Node
  /\ NPAGES \in Nat /\ PGSIZE \in Nat \ {0} /\ ARGC \in Nat
  /\ MAXSZ \in Nat /\ WRAP \in Nat /\ WRAP > 2 * MAXSZ
  /\ Walk \in [VPN \cup {Top} -> Seq(Node)]
  /\ Deltas \subseteq Int
  /\ Programs \subseteq Seq(0..(MAXSZ - 3 * PGSIZE))

VARIABLES
  free,       \* pages on kmem.freelist
  state,      \* p->state; the states between fork and exit are one
  trapframe,  \* the processes with a p->trapframe
  sz,         \* p->sz
  pt,         \* p->pagetable ("cur"), and the one that exec() builds ("new")
  call, pc,   \* the system call of each process, and how far it is
  kid,        \* np of fork()
  argv,       \* pages in sys_exec()'s argv[]
  prog,       \* segments that exec() has not loaded yet
  nsz,        \* sz of exec()
  start, a, goal, after,  \* loop of uvmalloc() and uvmcopy(), and where they return
  mem         \* the processes that have a page at hand in such a loop

vars == <<free, state, trapframe, sz, pt, call, pc, kid, argv, prog, nsz,
          start, a, goal, after, mem>>
loop == <<start, goal, after>>
exe  == <<argv, prog, nsz>>
proc == <<state, trapframe, sz>>

Set(f, p, v) == [f EXCEPT ![p] = v]
Goto(p, l) == pc' = Set(pc, p, l)

Empty == [tables |-> {}, leaf |-> {}]

PGROUNDUP(x) == ((x + PGSIZE - 1) \div PGSIZE) * PGSIZE

\* The pages of [lo, hi), which is page-aligned below.
Vpns(lo, hi) == {v \in VPN : lo <= v * PGSIZE /\ v * PGSIZE < hi}

\* userinit() has begun, with the whole memory to take from: the first process has its
\* trapframe and its root table.
Init ==
  /\ state = [p \in Proc |-> IF p = initproc THEN "USED" ELSE "UNUSED"]
  /\ trapframe = {initproc}
  /\ sz = [p \in Proc |-> 0]
  /\ pt = [h \in Proc \X {"cur", "new"} |->
              IF h = <<initproc, "cur">> THEN [Empty EXCEPT !.tables = {"root"}] ELSE Empty]
  /\ free = NPAGES - 2
  /\ call = [p \in Proc |-> IF p = initproc THEN "userinit" ELSE "none"]
  /\ pc = [p \in Proc |-> IF p = initproc THEN "tables" ELSE "user"]
  /\ kid = [p \in Proc |-> None]
  /\ argv = [p \in Proc |-> 0]
  /\ prog = [p \in Proc |-> <<>>]
  /\ nsz = [p \in Proc |-> 0]
  /\ start = [p \in Proc |-> 0] /\ a = [p \in Proc |-> 0] /\ goal = [p \in Proc |-> 0]
  /\ mem = {}
  /\ after = [p \in Proc |-> "user"]

\* p is in user space, in memory that is still there.
InUser(p) == pc[p] = "user" /\ state[p] = "live" /\ sz[p] > 0

\* The page table that p works on.
H(p) == CASE call[p] = "fork" -> <<kid[p], "cur">>
          [] call[p] = "exec" -> <<p, "new">>
          [] OTHER -> <<p, "cur">>

-------------------------------------------------------------------------------
(* kalloc() and the loops that call it                                       *)

\* kalloc() returns a page.
kalloc == free > 0 /\ free' = free - 1

\* uvmalloc(h, from, to), or the loop of uvmcopy(); it returns to l.
Grow(p, from, to, l) ==
  /\ start' = Set(start, p, PGROUNDUP(from)) /\ a' = Set(a, p, PGROUNDUP(from))
  /\ goal' = Set(goal, p, to) /\ after' = Set(after, p, l)
  /\ Goto(p, "grow")

\* One page of user memory.
grow_page(p) ==
  /\ pc[p] = "grow" /\ a[p] < goal[p]
  /\ kalloc
  /\ mem' = mem \cup {p}
  /\ Goto(p, "map")
  /\ UNCHANGED <<proc, pt, call, kid, exe, a, loop>>

\* The tables that walk() has to add for the page p maps next, or for the trampoline
\* and the trapframe, which are in one leaf table.
Missing(p) ==
  SelectSeq(Walk[IF pc[p] = "tables" THEN Top ELSE a[p] \div PGSIZE],
            LAMBDA n : n \notin pt[H(p)].tables)

\* walk() adds the first of them.
walk(p) ==
  /\ pc[p] \in {"tables", "map"} /\ Missing(p) # <<>>
  /\ kalloc
  /\ pt' = [pt EXCEPT ![H(p)].tables = @ \cup {Missing(p)[1]}]
  /\ UNCHANGED <<proc, call, pc, kid, exe, a, loop, mem>>

\* mappages() of the page.
map(p) ==
  /\ pc[p] = "map" /\ Missing(p) = <<>>
  /\ pt' = [pt EXCEPT ![H(p)].leaf = @ \cup {a[p] \div PGSIZE}]
  /\ mem' = mem \ {p}
  /\ a' = Set(a, p, a[p] + PGSIZE)
  /\ Goto(p, "grow")
  /\ UNCHANGED <<free, proc, call, kid, exe, loop>>

\* The loop is over; to exec() a new size of 0 is uvmalloc()'s error value.
grow_done(p) ==
  /\ pc[p] = "grow" /\ a[p] >= goal[p]
  /\ nsz' = IF call[p] = "exec" THEN Set(nsz, p, goal[p]) ELSE nsz
  /\ Goto(p, IF call[p] = "exec" /\ goal[p] = 0 THEN "bad" ELSE after[p])
  /\ UNCHANGED <<free, proc, pt, call, kid, argv, prog, a, loop, mem>>

MutKeepMem(p) == Cardinality(Vpns(start[p], a[p]))

\* The number of pages that a failing uvmalloc() or uvmcopy() gives back.
Unwound(p) == Cardinality(Vpns(start[p], a[p])) + (IF p \in mem THEN 1 ELSE 0)

\* kalloc() returns 0 to uvmalloc(), uvmcopy(), or to walk() under them.
grow_nomem(p) ==
  /\ free = 0
  /\ \/ pc[p] = "grow" /\ a[p] < goal[p]
     \/ pc[p] = "map" /\ Missing(p) # <<>>
  /\ free' = free + Unwound(p)
  /\ pt' = [pt EXCEPT ![H(p)].leaf = @ \ Vpns(start[p], a[p])]
  /\ mem' = mem \ {p}
  /\ Goto(p, "bad")
  /\ UNCHANGED <<proc, call, kid, exe, a, loop>>

-------------------------------------------------------------------------------
(* proc_pagetable(), for fork() and exec()                                   *)

uvmcreate(p) ==
  /\ pc[p] = "uvmcreate"
  /\ kalloc
  /\ pt' = [pt EXCEPT ![H(p)].tables = {"root"}]
  /\ Goto(p, "tables")
  /\ UNCHANGED <<proc, call, kid, exe, a, loop, mem>>

\* Trampoline and trapframe are mapped: uvmcopy(), the segments, or uvmfirst().
proc_pagetable(p) ==
  /\ pc[p] = "tables" /\ Missing(p) = <<>>
  /\ CASE call[p] = "fork" -> Grow(p, 0, sz[p], "fork_done")
       [] call[p] = "exec" -> Goto(p, "seg") /\ UNCHANGED <<a, loop>>
       [] OTHER -> Grow(p, 0, PGSIZE, "userinit_done")
  /\ UNCHANGED <<free, proc, pt, call, kid, exe, mem>>

\* No page for the root; or none for the tables: uvmfree(pagetable, 0).
pagetable_nomem(p) ==
  /\ free = 0
  /\ \/ pc[p] = "uvmcreate"
     \/ pc[p] = "tables" /\ Missing(p) # <<>>
  /\ free' = free + Cardinality(pt[H(p)].tables)
  /\ pt' = Set(pt, H(p), Empty)
  /\ Goto(p, "bad")
  /\ UNCHANGED <<proc, call, kid, exe, a, loop, mem>>

\* The number of pages that proc_freepagetable(h, s) frees: memory up to s, and the
\* tables.  It is not called for a page table that was not made.
FreedPages(h, s) ==
  IF pt[h].tables = {} THEN 0 ELSE Cardinality(Vpns(0, s)) + Cardinality(pt[h].tables)

-------------------------------------------------------------------------------
(* fork(), exit(), wait()                                                    *)

\* A free slot for the child; without one, fork() returns -1 at once.
fork(p, q) ==
  /\ InUser(p)
  /\ state[q] = "UNUSED"
  /\ state' = Set(state, q, "USED")
  /\ call' = Set(call, p, "fork") /\ kid' = Set(kid, p, q)
  /\ Goto(p, "trapframe")
  /\ UNCHANGED <<free, trapframe, sz, pt, exe, a, loop, mem>>

allocproc(p) ==
  /\ pc[p] = "trapframe"
  /\ kalloc
  /\ trapframe' = trapframe \cup {kid[p]}
  /\ Goto(p, "uvmcreate")
  /\ UNCHANGED <<state, sz, pt, call, kid, exe, a, loop, mem>>

allocproc_nomem(p) ==
  /\ pc[p] = "trapframe" /\ free = 0
  /\ Goto(p, "bad")
  /\ UNCHANGED <<free, proc, pt, call, kid, exe, a, loop, mem>>

SizeCleared(q) == Set(sz, q, 0)

freeproc(q) ==
  /\ free' = free + FreedPages(<<q, "cur">>, sz[q]) + (IF q \in trapframe THEN 1 ELSE 0)
  /\ trapframe' = trapframe \ {q}
  /\ pt' = Set(pt, <<q, "cur">>, Empty)
  /\ sz' = SizeCleared(q)
  /\ state' = Set(state, q, "UNUSED")

\* The call returns to user space, and its variables are gone.
Return(p) ==
  /\ Goto(p, "user") /\ call' = Set(call, p, "none") /\ kid' = Set(kid, p, None)
  /\ argv' = Set(argv, p, 0) /\ prog' = Set(prog, p, <<>>) /\ nsz' = Set(nsz, p, 0)
  /\ start' = Set(start, p, 0) /\ a' = Set(a, p, 0) /\ goal' = Set(goal, p, 0)
  /\ after' = Set(after, p, "user")

\* The first process is ready.
userinit(p) ==
  /\ pc[p] = "userinit_done"
  /\ sz' = Set(sz, p, PGSIZE)
  /\ state' = Set(state, p, "live")
  /\ Return(p)
  /\ UNCHANGED <<free, trapframe, pt, mem>>

fork_done(p) ==
  /\ pc[p] = "fork_done"
  /\ sz' = Set(sz, kid[p], sz[p])
  /\ state' = Set(state, kid[p], "live")
  /\ Return(p)
  /\ UNCHANGED <<free, trapframe, pt, mem>>

fork_bad(p) ==
  /\ pc[p] = "bad" /\ call[p] = "fork"
  /\ freeproc(kid[p])
  /\ Return(p)
  /\ UNCHANGED mem

exit(p) ==
  /\ pc[p] = "user" /\ state[p] = "live" /\ p # initproc
  /\ state' = Set(state, p, "ZOMBIE")
  /\ UNCHANGED <<free, trapframe, sz, pt, call, pc, kid, exe, a, loop, mem>>

\* A parent's wait() finds q; module Proc is about who that is.
wait(q) ==
  /\ state[q] = "ZOMBIE"
  /\ freeproc(q)
  /\ UNCHANGED <<call, pc, kid, exe, a, loop, mem>>

-------------------------------------------------------------------------------
(* sys_sbrk()                                                                *)

\* The size that uvmdealloc() returns; newsz is unsigned.
uvmdealloc(oldsz, newsz) == IF newsz % WRAP >= oldsz THEN oldsz ELSE newsz % WRAP

MutRoundDown(p, newsz) == Vpns((newsz \div PGSIZE) * PGSIZE, sz[p])

\* The pages that uvmdealloc(p->pagetable, p->sz, newsz) unmaps.
Cut(p, newsz) == Vpns(PGROUNDUP(newsz), sz[p])

\* growproc(n) of less memory.
shrink(p, n) ==
  LET newsz == uvmdealloc(sz[p], sz[p] + n) IN
  /\ InUser(p) /\ n < 0
  /\ free' = free + Cardinality(Cut(p, newsz))
  /\ pt' = [pt EXCEPT ![<<p, "cur">>].leaf = @ \ Cut(p, newsz)]
  /\ sz' = Set(sz, p, newsz)
  /\ UNCHANGED <<state, trapframe, call, pc, kid, exe, a, loop, mem>>

\* growproc(n) of more memory.
grow(p, n) ==
  /\ InUser(p) /\ n > 0 /\ sz[p] + n <= MAXSZ
  /\ call' = Set(call, p, "sbrk")
  /\ Grow(p, sz[p], sz[p] + n, "sbrk_done")
  /\ UNCHANGED <<free, proc, pt, kid, exe, mem>>

sbrk_done(p) ==
  /\ pc[p] = "sbrk_done"
  /\ sz' = Set(sz, p, goal[p])
  /\ Return(p)
  /\ UNCHANGED <<free, state, trapframe, pt, mem>>

sbrk_bad(p) ==
  /\ pc[p] = "bad" /\ call[p] = "sbrk"
  /\ Return(p)
  /\ UNCHANGED <<free, proc, pt, mem>>

-------------------------------------------------------------------------------
(* sys_exec() and exec()                                                     *)

sys_exec(p, w) ==
  /\ InUser(p)
  /\ call' = Set(call, p, "exec") /\ prog' = Set(prog, p, w)
  /\ Goto(p, "argv")
  /\ UNCHANGED <<free, proc, pt, kid, argv, nsz, a, loop, mem>>

\* One page for each argument.
exec_argv(p) ==
  /\ pc[p] = "argv" /\ argv[p] < ARGC
  /\ kalloc
  /\ argv' = Set(argv, p, argv[p] + 1)
  /\ UNCHANGED <<proc, pt, call, pc, kid, prog, nsz, a, loop, mem>>

exec_start(p) ==
  /\ pc[p] = "argv" /\ argv[p] = ARGC
  /\ Goto(p, "uvmcreate")
  /\ UNCHANGED <<free, proc, pt, call, kid, exe, a, loop, mem>>

\* No page or a bad address for an argument; no such file, or no executable; a bad
\* segment; arguments that do not fit on the stack.
exec_reject(p) ==
  /\ pc[p] \in {"argv", "seg", "args"}
  /\ Goto(p, "bad")
  /\ UNCHANGED <<free, proc, pt, call, kid, exe, a, loop, mem>>

\* uvmalloc() for the next segment, which may end below the ones before.
exec_segment(p) ==
  /\ pc[p] = "seg" /\ prog[p] # <<>>
  /\ prog' = Set(prog, p, Tail(prog[p]))
  /\ Grow(p, nsz[p], IF prog[p][1] < nsz[p] THEN nsz[p] ELSE prog[p][1], "load")
  /\ UNCHANGED <<free, proc, pt, call, kid, argv, nsz, mem>>

\* The segment is read into its pages, or the file is too short.
loadseg(p) ==
  /\ pc[p] = "load"
  /\ \E l \in {"seg", "bad"} : Goto(p, l)
  /\ UNCHANGED <<free, proc, pt, call, kid, exe, a, loop, mem>>

\* The guard page and the stack.
exec_stack(p) ==
  /\ pc[p] = "seg" /\ prog[p] = <<>>
  /\ nsz' = Set(nsz, p, PGROUNDUP(nsz[p]))
  /\ Grow(p, nsz'[p], nsz'[p] + 2 * PGSIZE, "args")
  /\ UNCHANGED <<free, proc, pt, call, kid, argv, prog, mem>>

\* "Commit to the user image", and the old one goes.
exec_commit(p) ==
  /\ pc[p] = "args"
  /\ pt' = [pt EXCEPT ![<<p, "cur">>] = pt[<<p, "new">>], ![<<p, "new">>] = Empty]
  /\ sz' = Set(sz, p, nsz[p])
  /\ free' = free + FreedPages(<<p, "cur">>, sz[p]) + argv[p]
  /\ Return(p)
  /\ UNCHANGED <<state, trapframe, mem>>

exec_bad(p) ==
  /\ pc[p] = "bad" /\ call[p] = "exec"
  /\ free' = free + FreedPages(<<p, "new">>, nsz[p]) + argv[p]
  /\ pt' = Set(pt, <<p, "new">>, Empty)
  /\ Return(p)
  /\ UNCHANGED <<proc, mem>>

-------------------------------------------------------------------------------
Next == \E p \in Proc :
  \/ grow_page(p) \/ walk(p) \/ map(p) \/ grow_done(p) \/ grow_nomem(p)
  \/ uvmcreate(p) \/ proc_pagetable(p) \/ pagetable_nomem(p)
  \/ \E q \in Proc : fork(p, q)
  \/ userinit(p) \/ allocproc(p) \/ allocproc_nomem(p) \/ fork_done(p) \/ fork_bad(p)
  \/ exit(p) \/ wait(p)
  \/ \E n \in Deltas : shrink(p, n) \/ grow(p, n)
  \/ sbrk_done(p) \/ sbrk_bad(p)
  \/ \E w \in Programs : sys_exec(p, w)
  \/ exec_argv(p) \/ exec_start(p) \/ exec_reject(p) \/ exec_segment(p)
  \/ loadseg(p) \/ exec_stack(p) \/ exec_commit(p) \/ exec_bad(p)

Spec == Init /\ [][Next]_vars

-------------------------------------------------------------------------------
(* Properties                                                                *)

\* The type invariant; in particular a size is a number of bytes below the bound.
TypeOK ==
  /\ free \in 0..NPAGES
  /\ state \in [Proc -> {"UNUSED", "USED", "live", "ZOMBIE"}]
  /\ trapframe \subseteq Proc /\ mem \subseteq Proc
  /\ sz \in [Proc -> 0..MAXSZ] /\ nsz \in [Proc -> 0..MAXSZ]
  /\ pt \in [Proc \X {"cur", "new"} ->
              [tables : SUBSET (Node \cup {"root"}), leaf : SUBSET VPN]]
  /\ argv \in [Proc -> 0..ARGC] /\ kid \in [Proc -> Proc \cup {None}]

InTable(h) == Cardinality(pt[h].tables) + Cardinality(pt[h].leaf)

\* Every page is free or in one place, wherever fork(), exec() and sbrk() fail: none is
\* lost and none is freed twice.
PagesPartition ==
  free + Cardinality(trapframe) + Cardinality(mem) + MapThenSumSet(LAMBDA p : argv[p], Proc)
       + MapThenSumSet(InTable, DOMAIN pt) = NPAGES

\* A process has exactly the pages of [0, p->sz), but while it grows, and so has the
\* image that exec() builds when it is given up: uvmunmap() never meets "not mapped",
\* uvmcopy() never "page not present", mappages() never "remap", loadseg() never
\* "address should exist", and freewalk() never a leaf.
MappedIsSize == \A p \in Proc :
  /\ state[p] \in {"live", "ZOMBIE"} /\ (call[p] = "sbrk" => pc[p] = "bad")
       => pt[<<p, "cur">>].leaf = Vpns(0, sz[p])
  /\ call[p] = "exec" /\ pc[p] \in {"argv", "uvmcreate", "tables", "seg", "load", "args", "bad"}
       => pt[<<p, "new">>].leaf = Vpns(0, nsz[p])
  /\ call[p] = "fork" /\ pc[p] = "bad" => pt[<<kid[p], "cur">>].leaf = {}

\* A slot that is not in use has no memory and no size: what fork() finds in it is
\* what freeproc() left, on each of the ways that lead there.
UnusedIsEmpty == \A p \in Proc : state[p] = "UNUSED" =>
  p \notin trapframe /\ sz[p] = 0 /\ pt[<<p, "cur">>] = Empty
===============================================================================
