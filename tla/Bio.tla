----------------------------------- MODULE Bio -----------------------------------
(***************************************************************************)
(* The buffer cache, kernel/bio.c, and the sleep-locks of its buffers,     *)
(* kernel/sleeplock.c.  What is done under bcache.lock, or under the       *)
(* spinlock inside a sleep-lock, is one step; what a process does between  *)
(* bread() and brelse() is external: it changes the data and either writes *)
(* them with bwrite() or pins the buffer, as log_write() does, until the   *)
(* log installs it.                                                        *)
(***************************************************************************)
EXTENDS Integers, Sequences, SequencesExt

CONSTANTS Proc,
          Buf,      \* the buffers, in the order of bcache.buf[]
          Block,    \* block numbers
          Data,     \* what a block may hold
          Zero,     \* what it holds at first
          head, None

Bufs == {Buf[k] : k \in DOMAIN Buf}

BioAssumption ==
  /\ IsInjective(Buf) /\ Buf # <<>> /\ head \notin Bufs
  /\ Zero \in Data /\ None \notin Block \cup Proc \cup Bufs

VARIABLES
  next, prev,             \* the ring through bcache.head
  blockno, valid, refcnt, data,
  holder,                 \* lk->pid of each buffer's sleep-lock, None if it is not locked
  pinned,                 \* the buffers that the log has pinned
  disk,
  pc, want, b,            \* of each process: where it is, the block it asked for, its buffer
  latest, used            \* history: what was last stored in each block; the order of releases

ring == <<next, prev>>
buf == <<blockno, valid, refcnt, data>>
vars == <<ring, buf, holder, pinned, disk, pc, want, b, latest, used>>

\* binit() puts each buffer behind the head.
Init ==
  /\ used = Reverse(Buf)
  /\ next = [x \in Bufs \cup {head} |->
               IF x = head THEN used[1] ELSE IF x = Last(used) THEN head ELSE used[SelectInSeq(used, LAMBDA y : y = x) + 1]]
  /\ prev = [x \in Bufs \cup {head} |-> CHOOSE y \in Bufs \cup {head} : next[y] = x]
  /\ blockno = [x \in Bufs |-> None] /\ valid = [x \in Bufs |-> FALSE]
  /\ refcnt = [x \in Bufs |-> 0] /\ data = [x \in Bufs |-> Zero]
  /\ holder = [x \in Bufs |-> None]
  /\ pinned = {}
  /\ disk = [n \in Block |-> Zero] /\ latest = disk
  /\ pc = [p \in Proc |-> "idle"] /\ want = [p \in Proc |-> None] /\ b = [p \in Proc |-> None]

Goto(p, l) == pc' = [pc EXCEPT ![p] = l]

-------------------------------------------------------------------------------
(* bget() and bread()                                                          *)

Cached(n) == {x \in Bufs : blockno[x] = n}

MutNoRef(p, n, x) ==
  /\ pc[p] = "idle" /\ x \in Cached(n)
  /\ want' = [want EXCEPT ![p] = n] /\ b' = [b EXCEPT ![p] = x]
  /\ Goto(p, "acquire")
  /\ UNCHANGED <<ring, buf, holder, pinned, disk, latest, used>>

bget_cached(p, n, x) ==
  /\ pc[p] = "idle" /\ x \in Cached(n)
  /\ refcnt' = [refcnt EXCEPT ![x] = @ + 1]
  /\ want' = [want EXCEPT ![p] = n] /\ b' = [b EXCEPT ![p] = x]
  /\ Goto(p, "acquire")
  /\ UNCHANGED <<ring, blockno, valid, data, holder, pinned, disk, latest, used>>

\* The first buffer without references from x on, backwards; head if there is none.
RECURSIVE Unused(_)
Unused(x) == IF x = head \/ refcnt[x] = 0 THEN x ELSE Unused(prev[x])

\* Recycle the least recently used buffer; if all are in use bget() panics.
bget_recycle(p, n) ==
  LET x == Unused(prev[head])
  IN /\ pc[p] = "idle" /\ Cached(n) = {} /\ x # head
     /\ blockno' = [blockno EXCEPT ![x] = n]
     /\ valid' = [valid EXCEPT ![x] = FALSE]
     /\ refcnt' = [refcnt EXCEPT ![x] = 1]
     /\ want' = [want EXCEPT ![p] = n] /\ b' = [b EXCEPT ![p] = x]
     /\ Goto(p, "acquire")
     /\ UNCHANGED <<ring, data, holder, pinned, disk, latest, used>>

\* acquiresleep(): take the lock, or sleep until it is released.
acquiresleep(p) ==
  /\ pc[p] = "acquire"
  /\ IF holder[b[p]] # None THEN Goto(p, "sleep") /\ UNCHANGED holder
     ELSE Goto(p, "bread") /\ holder' = [holder EXCEPT ![b[p]] = p]
  /\ UNCHANGED <<ring, buf, pinned, disk, want, b, latest, used>>

\* virtio_disk_rw(b, 0) unless the buffer is valid.
bread(p) ==
  LET x == b[p]
  IN /\ pc[p] = "bread"
     /\ data' = [data EXCEPT ![x] = IF valid[x] THEN @ ELSE disk[blockno[x]]]
     /\ valid' = [valid EXCEPT ![x] = TRUE]
     /\ Goto(p, "use")
     /\ UNCHANGED <<ring, blockno, refcnt, holder, pinned, disk, want, b, latest, used>>

-------------------------------------------------------------------------------
(* The user of the buffer                                                      *)

store(p, d) ==
  /\ pc[p] = "use" /\ data[b[p]] # d
  /\ data' = [data EXCEPT ![b[p]] = d]
  /\ latest' = [latest EXCEPT ![want[p]] = d]
  /\ Goto(p, IF b[p] \in pinned THEN "use" ELSE "dirty")
  /\ UNCHANGED <<ring, blockno, valid, refcnt, holder, pinned, disk, want, b, used>>

\* bwrite(), whose panic is for a caller without the lock.
bwrite(p) ==
  /\ pc[p] = "dirty" /\ holder[b[p]] = p
  /\ disk' = [disk EXCEPT ![blockno[b[p]]] = data[b[p]]]
  /\ Goto(p, "use")
  /\ UNCHANGED <<ring, buf, holder, pinned, want, b, latest, used>>

\* bpin(), of log_write().
bpin(p) ==
  /\ pc[p] = "dirty"
  /\ refcnt' = [refcnt EXCEPT ![b[p]] = @ + 1]
  /\ pinned' = pinned \cup {b[p]}
  /\ Goto(p, "use")
  /\ UNCHANGED <<ring, blockno, valid, data, holder, disk, want, b, latest, used>>

\* install_trans() writes a pinned buffer home and calls bunpin().
bunpin(p) ==
  /\ pc[p] = "use" /\ b[p] \in pinned
  /\ disk' = [disk EXCEPT ![blockno[b[p]]] = data[b[p]]]
  /\ refcnt' = [refcnt EXCEPT ![b[p]] = @ - 1]
  /\ pinned' = pinned \ {b[p]}
  /\ UNCHANGED <<ring, blockno, valid, data, holder, pc, want, b, latest, used>>

-------------------------------------------------------------------------------
(* brelse()                                                                    *)

\* releasesleep(): unlock, and wake the sleepers.
releasesleep(p) ==
  /\ pc[p] = "use" /\ holder[b[p]] = p
  /\ holder' = [holder EXCEPT ![b[p]] = None]
  /\ pc' = [q \in Proc |-> IF q = p THEN "brelse"
                           ELSE IF pc[q] = "sleep" /\ b[q] = b[p] THEN "acquire" ELSE pc[q]]
  /\ UNCHANGED <<ring, buf, pinned, disk, want, b, latest, used>>

\* The assignments of brelse(), one after the other.
Unlink(r, x) ==
  [next |-> [r.next EXCEPT ![r.prev[x]] = r.next[x]], prev |-> [r.prev EXCEPT ![r.next[x]] = r.prev[x]]]
MutAtHead(r, x) ==
  [next |-> [r.next EXCEPT ![x] = r.next[head], ![head] = x],
   prev |-> [r.prev EXCEPT ![x] = head]]
AtHead(r, x) ==
  [next |-> [r.next EXCEPT ![x] = r.next[head], ![head] = x],
   prev |-> [[r.prev EXCEPT ![x] = head] EXCEPT ![r.next[head]] = x]]

\* The last reference is gone: the buffer moves to the head of the ring.
brelse(p) ==
  LET x == b[p]
      r == AtHead(Unlink([next |-> next, prev |-> prev], x), x)
  IN /\ pc[p] = "brelse"
     /\ refcnt' = [refcnt EXCEPT ![x] = @ - 1]
     /\ IF refcnt[x] = 1
        THEN /\ next' = r.next /\ prev' = r.prev
             /\ used' = <<x>> \o SelectSeq(used, LAMBDA y : y # x)
        ELSE UNCHANGED <<next, prev, used>>
     /\ want' = [want EXCEPT ![p] = None] /\ b' = [b EXCEPT ![p] = None]
     /\ Goto(p, "idle")
     /\ UNCHANGED <<blockno, valid, data, holder, pinned, disk, latest>>

Next ==
  \E p \in Proc :
    \/ \E n \in Block : bget_recycle(p, n) \/ \E x \in Bufs : bget_cached(p, n, x)
    \/ acquiresleep(p) \/ bread(p)
    \/ (\E d \in Data : store(p, d)) \/ bwrite(p) \/ bpin(p) \/ bunpin(p)
    \/ releasesleep(p) \/ brelse(p)

Spec == Init /\ [][Next]_vars

-------------------------------------------------------------------------------
Has(p) == pc[p] \in {"use", "dirty"}

\* A process that bread() has returned to has the block it asked for, has it alone, in
\* the only buffer that caches it, and finds in it what was last stored there, by whomever
\* and however often the buffers were recycled since; and who sleeps for a buffer sleeps
\* for one that is locked.
OneCopyOfABlock ==
  /\ \A p \in Proc : Has(p) =>
       /\ Cached(want[p]) = {b[p]}
       /\ data[b[p]] = latest[want[p]]
       /\ \A q \in Proc \ {p} : Has(q) => want[q] # want[p]
  /\ \A p \in Proc : pc[p] = "sleep" => holder[b[p]] # None

\* The n nodes after x.
RECURSIVE From(_, _, _)
From(f, x, n) == IF n = 0 THEN <<>> ELSE <<f[x]>> \o From(f, f[x], n - 1)

\* The ring is whole in both directions and in the order of last use: bget() finds every
\* buffer, and recycles the one that was released longest ago.
RingIsInOrder ==
  /\ From(next, head, Len(Buf) + 1) = Append(used, head)
  /\ From(prev, head, Len(Buf) + 1) = Append(Reverse(used), head)
===============================================================================
