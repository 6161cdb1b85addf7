-------------------------------- MODULE UserCopy --------------------------------
(***************************************************************************)
(* Copies between the kernel and a process: copyout, copyin and copyinstr  *)
(* of kernel/vm.c and their callers in kernel/syscall.c.  An address is a  *)
(* number below WRAP; a page table says of each page whether it is mapped  *)
(* for the process, mapped without PTE_U (the guard page below the stack), *)
(* or not at all.  Adjacent pages need not be adjacent in memory.          *)
(***************************************************************************)
EXTENDS Integers, Sequences

CONSTANTS NPAGES,    \* MAXVA / PGSIZE
          PGSIZE,
          WRAP,      \* addresses are computed modulo this, 2^64 in the code
          Frame,     \* the physical page of each virtual one
          Byte,      \* what memory holds; 0 is the NUL
          Lens,      \* the len and the max of a call
          WORD,      \* sizeof(uint64)
          Sizes      \* the p->sz of a process

VPN == 0..(NPAGES - 1)
MAXVA == NPAGES * PGSIZE
Kernel(k) == 100 + k      \* the k-th byte of a kernel buffer

UserCopyAssumption ==
  /\ PGSIZE \in Nat \ {0} /\ WRAP > MAXVA /\ WRAP % PGSIZE = 0
  /\ \A v, w \in VPN : Frame[v] = Frame[w] => v = w
  /\ 0 \in Byte

VARIABLES pte,    \* of each page: "none" | "guard" | "user"
          sz,     \* p->sz
          mem,    \* physical memory
          was,    \* the memory before the call
          call,   \* the call and its arguments
          dst,    \* the kernel buffer that was copied to
          ret     \* the result

vars == <<pte, sz, mem, was, call, dst, ret>>

NoCall == [op |-> "none", va |-> 0, n |-> 0]

Init ==
  /\ pte = [v \in VPN |-> "none"] /\ sz = 0
  /\ mem = [f \in {Frame[v] : v \in VPN} |-> [k \in 0..(PGSIZE - 1) |-> 0]]
  /\ was = mem /\ call = NoCall /\ dst = <<>> /\ ret = 0

-------------------------------------------------------------------------------
PGROUNDDOWN(va) == va - (va % PGSIZE)

MutWalkNoUser(va) ==
  IF va >= MAXVA THEN {}
  ELSE {Frame[v] : v \in {x \in VPN : x = va \div PGSIZE /\ pte[x] # "none"}}

\* The physical page of a user page: one, or none.
walkaddr(va) ==
  IF va >= MAXVA THEN {}
  ELSE {Frame[v] : v \in {x \in VPN : x = va \div PGSIZE /\ pte[x] = "user"}}

Least(x, y) == IF x < y THEN x ELSE y

\* The loop of copyout(): i bytes of len are copied, m is the memory.
RECURSIVE copyout(_, _, _, _)
copyout(m, va, i, len) ==
  LET va0 == PGROUNDDOWN(va)
      o == va - va0
      n == Least(PGSIZE - o, len - i)
      Moved(f) == [m EXCEPT ![f] = [k \in DOMAIN @ |-> IF k \in o..(o + n - 1) THEN Kernel(i + k - o) ELSE @[k]]]
  IN IF i = len THEN [ret |-> 0, mem |-> m]
     ELSE IF walkaddr(va0) = {} THEN [ret |-> -1, mem |-> m]
     ELSE copyout(Moved(CHOOSE f \in walkaddr(va0) : TRUE), (va0 + PGSIZE) % WRAP, i + n, len)

\* The bytes o..(o + n - 1) of page f.
Bytes(f, o, n) == [k \in 1..n |-> mem[f][o + k - 1]]

RECURSIVE copyin(_, _, _)
copyin(d, va, len) ==
  LET va0 == PGROUNDDOWN(va)
      n == Least(PGSIZE - (va - va0), len)
  IN IF len = 0 THEN [ret |-> 0, dst |-> d]
     ELSE IF walkaddr(va0) = {} THEN [ret |-> -1, dst |-> d]
     ELSE copyin(d \o Bytes(CHOOSE f \in walkaddr(va0) : TRUE, va - va0, n),
                 (va0 + PGSIZE) % WRAP, len - n)

\* s up to and with its first NUL, or all of it.
ToNul(s) ==
  LET nul == {k \in DOMAIN s : s[k] = 0}
  IN IF nul = {} THEN s ELSE SubSeq(s, 1, CHOOSE k \in nul : \A j \in nul : k <= j)
EndsInNul(s) == s # <<>> /\ s[Len(s)] = 0

RECURSIVE copyinstr(_, _, _)
copyinstr(d, va, max) ==
  LET va0 == PGROUNDDOWN(va)
      n == Least(PGSIZE - (va - va0), max)
  IN IF EndsInNul(d) THEN [ret |-> 0, dst |-> d]
     ELSE IF max = 0 \/ walkaddr(va0) = {} THEN [ret |-> -1, dst |-> d]
     ELSE copyinstr(d \o ToNul(Bytes(CHOOSE f \in walkaddr(va0) : TRUE, va - va0, n)),
                    (va0 + PGSIZE) % WRAP, max - n)

-------------------------------------------------------------------------------
\* A process with some memory.
start ==
  /\ call = NoCall
  /\ pte' \in [VPN -> {"none", "guard", "user"}]
  /\ sz' \in Sizes
  /\ mem' \in [DOMAIN mem -> [0..(PGSIZE - 1) -> Byte]]
  /\ was' = mem' /\ call' = [NoCall EXCEPT !.op = "started"]
  /\ UNCHANGED <<dst, ret>>

Call(op, va, n) ==
  /\ call.op = "started"
  /\ call' = [op |-> op, va |-> va, n |-> n]
  /\ UNCHANGED <<pte, sz, was>>

\* either_copyout() with a user address.
either_copyout(va, n) ==
  /\ Call("copyout", va, n)
  /\ LET r == copyout(mem, va, 0, n) IN mem' = r.mem /\ ret' = r.ret
  /\ UNCHANGED dst

either_copyin(va, n) ==
  /\ Call("copyin", va, n)
  /\ LET r == copyin(<<>>, va, n) IN dst' = r.dst /\ ret' = r.ret
  /\ UNCHANGED mem

\* The range test of fetchaddr(): the end of the word may wrap around.
OutOfRange(va) == va >= sz \/ (va + WORD) % WRAP > sz

fetchaddr(va) ==
  /\ Call("fetchaddr", va, WORD)
  /\ LET r == IF OutOfRange(va) THEN [ret |-> -1, dst |-> <<>>] ELSE copyin(<<>>, va, WORD)
     IN dst' = r.dst /\ ret' = r.ret
  /\ UNCHANGED mem

fetchstr(va, max) ==
  /\ Call("fetchstr", va, max)
  /\ LET r == copyinstr(<<>>, va, max)
     IN dst' = r.dst /\ ret' = IF r.ret = 0 THEN Len(r.dst) - 1 ELSE -1
  /\ UNCHANGED mem

Next ==
  \/ start
  \/ \E va \in 0..(WRAP - 1) :
       \/ fetchaddr(va)
       \/ \E n \in Lens : either_copyout(va, n) \/ either_copyin(va, n) \/ fetchstr(va, n)

Spec == Init /\ [][Next]_vars

-------------------------------------------------------------------------------
(* What they promise, byte by byte                                             *)

\* The process itself can access the byte at address x, which then holds Load(m, x).
Accessible(x) == x < MAXVA /\ pte[x \div PGSIZE] = "user"
Load(m, x) == m[Frame[x \div PGSIZE]][x % PGSIZE]
AllAccessible(va, n) == \A k \in 0..(n - 1) : Accessible(va + k)

\* A copy succeeds exactly when the process itself could make it, and then it has copied
\* every byte to its place, across pages that are apart in memory; a failing copyout()
\* has written a part of the range and no other byte; a string is read up to its NUL and
\* no page behind it is touched; a word lies below p->sz.
CopiesAreExact ==
  LET va == call.va
      n == call.n
      In(x) == x \in va..(va + n - 1)
      Nul(k) == k < n /\ AllAccessible(va, k + 1) /\ Load(mem, va + k) = 0
      Got(k) == dst = [j \in 1..k |-> Load(mem, va + j - 1)]
  IN /\ call.op = "copyout" =>
          /\ ret = 0 <=> AllAccessible(va, n)
          /\ \A x \in 0..(MAXVA - 1) :
               IF In(x) /\ (\A y \in va..x : Accessible(y))
               THEN Load(mem, x) = Kernel(x - va) ELSE Load(mem, x) = Load(was, x)
     /\ call.op = "copyin" =>
          /\ ret = 0 <=> AllAccessible(va, n)
          /\ ret = 0 => Got(n)
     /\ call.op = "fetchaddr" =>
          /\ ret = 0 <=> va + n <= sz /\ AllAccessible(va, n)
          /\ ret = 0 => Got(n)
     /\ call.op = "fetchstr" =>
          /\ ret >= 0 <=> \E k \in 0..n : Nul(k)
          /\ ret >= 0 => Nul(ret) /\ (\A k \in 0..(ret - 1) : ~Nul(k)) /\ Got(ret + 1)
===============================================================================
