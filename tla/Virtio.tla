-------------------------------- MODULE Virtio --------------------------------
(***************************************************************************)
(* The virtio disk driver, kernel/virtio_disk.c: descriptors, the avail and *)
(* used rings it shares with the device, and the completion interrupt.     *)
(* The caller of virtio_disk_rw(b) holds b->lock, so a request is named    *)
(* after its buffer, and each buffer stands for the block it holds and for *)
(* that block's contents.  The device is external: it may complete         *)
(* requests in any order.                                                  *)
(***************************************************************************)
EXTENDS Integers, Sequences

CONSTANTS Buf,     \* struct bufs that processes read and write
          NUM,     \* descriptors
          RING,    \* entries of the rings: NUM in the code, fewer is harder
          WRAP,    \* ring indices count modulo this, 2^16 in the code
          None

ASSUME VirtioAssumption ==
  /\ NUM \in Nat /\ NUM >= 3
  /\ RING \in Nat /\ RING * 3 >= NUM - 2
  /\ WRAP \in Nat /\ WRAP > RING /\ WRAP % RING = 0
  /\ None \notin Buf /\ "intr" \notin Buf /\ None # "intr"

Desc == 0..(NUM - 1)
Slot == 0..(RING - 1)
Data == Buf \cup {None}   \* contents; None is what a recycled buffer holds

VARIABLES
  disk, data,              \* contents of the blocks, and of the buffers
  free,                    \* disk.free, as the set of free descriptors
  addr, next,              \* disk.desc: what each points to, and its successor
  type, sector,            \* disk.ops
  info, status,            \* disk.info[].b and disk.info[].status
  avail, avail_idx,        \* disk.avail
  used, used_idx,          \* disk.used, written by the device
  seen,                    \* disk.used_idx: how far the driver has looked
  io,                      \* b->disk
  lock,                    \* vdisk_lock: a buffer's process, or "intr"
  pc, write, idx,          \* virtio_disk_rw(): place, argument, descriptors
  fetched, flight, served, \* the device: how far it has looked, and its requests
  irq                      \* VIRTIO_MMIO_INTERRUPT_STATUS

store == <<disk, data>>
descs == <<free, addr, next, type, sector, info>>
rings == <<avail, avail_idx>>
dev   == <<used, used_idx, fetched, flight, served>>
args  == <<write, idx>>
vars == <<store, descs, status, rings, dev, seen, io, lock, pc, args, irq>>

\* virtio_disk_init(): all descriptors free, rings empty.
Init ==
  /\ disk = [b \in Buf |-> b] /\ data = [b \in Buf |-> None]
  /\ free = Desc
  /\ addr = [i \in Desc |-> None] /\ next = [i \in Desc |-> None]
  /\ type = [i \in Desc |-> None] /\ sector = [i \in Desc |-> None]
  /\ info = [i \in Desc |-> None] /\ status = [i \in Desc |-> 0]
  /\ avail = [i \in Slot |-> 0] /\ avail_idx = 0
  /\ used = [i \in Slot |-> 0] /\ used_idx = 0 /\ seen = 0
  /\ io = [b \in Buf |-> 0]
  /\ lock = None
  /\ pc = [b \in Buf |-> "idle"]
  /\ write = [b \in Buf |-> None]
  /\ idx = [b \in Buf |-> <<>>]
  /\ fetched = 0 /\ flight = {} /\ served = {}
  /\ irq = 0

Goto(b, l) == pc' = [pc EXCEPT ![b] = l]

\* b moves to l, and wakeup() sends the sleepers S to acquire vdisk_lock again.
WakeAnd(S, b, l) ==
  pc' = [c \in Buf |-> IF c = b THEN l
                       ELSE IF c \notin S THEN pc[c]
                       ELSE IF pc[c] = "sleep_desc" THEN "lock" ELSE "lock_io"]

\* The processes asleep on &disk.free[0].
ForDesc == {c \in Buf : pc[c] = "sleep_desc"}

-------------------------------------------------------------------------------
(* virtio_disk_rw()                                                          *)

\* bwrite() of the block's contents, or bread() into a buffer without them.
call(b, k) ==
  /\ pc[b] = "idle"
  /\ data' = [data EXCEPT ![b] = IF k = "write" THEN b ELSE None]
  /\ write' = [write EXCEPT ![b] = k]
  /\ Goto(b, "lock")
  /\ UNCHANGED <<disk, descs, status, rings, dev, seen, io, lock, idx, irq>>

acquire(b) ==
  /\ pc[b] \in {"lock", "lock_io"} /\ lock = None
  /\ lock' = b
  /\ Goto(b, IF pc[b] = "lock" THEN "alloc" ELSE "wait")
  /\ UNCHANGED <<store, descs, status, rings, dev, seen, io, args, irq>>

\* alloc3_desc(): alloc_desc() takes the lowest free descriptor, three times.
alloc3_desc(i, j, k) == i < j /\ j < k /\ \A l \in free : l <= k => l \in {i, j, k}

\* alloc3_desc() does not find three: it frees those it took, which wakes the
\* processes that wait for descriptors, and virtio_disk_rw() sleeps.
rw_sleep(b) ==
  /\ pc[b] = "alloc"
  /\ ~\E i, j, k \in free : alloc3_desc(i, j, k)
  /\ lock' = None
  /\ WakeAnd(IF free = {} THEN {} ELSE ForDesc, b, "sleep_desc")
  /\ UNCHANGED <<store, descs, status, rings, dev, seen, io, args, irq>>

\* The record for virtio_disk_intr() of the buffer whose chain starts at i.
Recorded(i, b) == [info EXCEPT ![i] = b]

\* Three descriptors: the header, the data, the status; and the book-keeping.
rw_format(b) ==
  /\ pc[b] = "alloc"
  /\ \E i, j, k \in free :
       /\ alloc3_desc(i, j, k)
       /\ free' = free \ {i, j, k}
       /\ type' = [type EXCEPT ![i] = write[b]]
       /\ sector' = [sector EXCEPT ![i] = b]
       /\ addr' = [addr EXCEPT ![i] = i, ![j] = b, ![k] = i]
       /\ next' = [next EXCEPT ![i] = j, ![j] = k, ![k] = None]
       /\ status' = [status EXCEPT ![i] = 255]
       /\ info' = Recorded(i, b)
       /\ idx' = [idx EXCEPT ![b] = <<i, j, k>>]
  /\ io' = [io EXCEPT ![b] = 1]
  /\ Goto(b, "ring")
  /\ UNCHANGED <<store, rings, dev, seen, lock, write, irq>>

rw_ring(b) ==
  /\ pc[b] = "ring"
  /\ avail' = [avail EXCEPT ![avail_idx % RING] = idx[b][1]]
  /\ Goto(b, "notify")
  /\ UNCHANGED <<store, descs, status, avail_idx, dev, seen, io, lock, args, irq>>

\* After the fence, the index that shows the entry to the device.
rw_notify(b) ==
  /\ pc[b] = "notify"
  /\ avail_idx' = (avail_idx + 1) % WRAP
  /\ Goto(b, "wait")
  /\ UNCHANGED <<store, descs, status, avail, dev, seen, io, lock, args, irq>>

MutNoWait(b) == FALSE

Pending(b) == io[b] = 1

rw_wait(b) ==
  /\ pc[b] = "wait" /\ Pending(b)
  /\ lock' = None
  /\ Goto(b, "sleep_io")
  /\ UNCHANGED <<store, descs, status, rings, dev, seen, io, args, irq>>

MutFreeHead(h) == {h}

\* The descriptors free_chain() reaches from the head h.
Chain(h) == {h, next[h], next[next[h]]}

\* The request is over: free_chain(), which wakes the processes that wait for
\* descriptors.
rw_done(b) ==
  LET h == idx[b][1] IN
  /\ pc[b] = "wait" /\ ~Pending(b)
  /\ free' = free \cup Chain(h)
  /\ info' = [info EXCEPT ![h] = None]
  /\ addr' = [i \in Desc |-> IF i \in Chain(h) THEN None ELSE addr[i]]
  /\ next' = [i \in Desc |-> IF i \in Chain(h) THEN None ELSE next[i]]
  /\ write' = [write EXCEPT ![b] = None] /\ idx' = [idx EXCEPT ![b] = <<>>]
  /\ lock' = None
  /\ WakeAnd(ForDesc, b, "idle")
  /\ UNCHANGED <<store, type, sector, status, rings, dev, seen, io, irq>>

-------------------------------------------------------------------------------
(* virtio_disk_intr()                                                        *)

\* The interrupt is acknowledged before the used ring is read.
intr_enter ==
  /\ irq = 1 /\ lock = None
  /\ lock' = "intr"
  /\ irq' = 0
  /\ UNCHANGED <<store, descs, status, rings, dev, seen, io, pc, args>>

\* One completed request: its buffer's process is woken.
intr_entry ==
  LET b == info[used[seen % RING]] IN
  /\ lock = "intr" /\ seen # used_idx
  /\ io' = [io EXCEPT ![b] = 0]
  /\ pc' = [pc EXCEPT ![b] = IF @ = "sleep_io" THEN "lock_io" ELSE @]
  /\ seen' = (seen + 1) % WRAP
  /\ UNCHANGED <<store, descs, status, rings, dev, lock, args, irq>>

MutLeaveEarly == TRUE

\* The loop ends when the driver has caught up with the device.
CaughtUp == seen = used_idx

intr_leave ==
  /\ lock = "intr" /\ CaughtUp
  /\ lock' = None
  /\ UNCHANGED <<store, descs, status, rings, dev, seen, io, pc, args, irq>>

-------------------------------------------------------------------------------
(* The device                                                                *)

dev_fetch ==
  /\ fetched # avail_idx
  /\ flight' = flight \cup {avail[fetched % RING]}
  /\ fetched' = (fetched + 1) % WRAP
  /\ UNCHANGED <<store, descs, status, rings, used, used_idx, served, seen, io, lock, pc, args, irq>>

\* The transfer that the chain of h describes, and its status byte.
dev_serve(h) ==
  LET j == next[h] IN
  /\ h \in flight
  /\ disk' = IF type[h] = "write" THEN [disk EXCEPT ![sector[h]] = data[addr[j]]] ELSE disk
  /\ data' = IF type[h] = "read" THEN [data EXCEPT ![addr[j]] = disk[sector[h]]] ELSE data
  /\ status' = [status EXCEPT ![addr[next[j]]] = 0]
  /\ flight' = flight \ {h} /\ served' = served \cup {h}
  /\ UNCHANGED <<descs, rings, used, used_idx, fetched, seen, io, lock, pc, args, irq>>

\* The used ring, and the interrupt.
dev_used(h) ==
  /\ h \in served
  /\ used' = [used EXCEPT ![used_idx % RING] = h]
  /\ used_idx' = (used_idx + 1) % WRAP
  /\ served' = served \ {h}
  /\ irq' = 1
  /\ UNCHANGED <<store, descs, status, rings, fetched, flight, seen, io, lock, pc, args>>

-------------------------------------------------------------------------------
\* The steps of a request after its call.
Request(b) ==
  \/ acquire(b)
  \/ rw_sleep(b) \/ rw_format(b) \/ rw_ring(b) \/ rw_notify(b) \/ rw_wait(b) \/ rw_done(b)

Intr == intr_enter \/ intr_entry \/ intr_leave

Device == dev_fetch \/ \E h \in Desc : dev_serve(h) \/ dev_used(h)

Next ==
  \/ \E b \in Buf, k \in {"read", "write"} : call(b, k)
  \/ \E b \in Buf : Request(b)
  \/ Intr \/ Device

Spec == Init /\ [][Next]_vars

-------------------------------------------------------------------------------
(* Properties                                                                *)

\* The type invariant of the driver.
TypeOK ==
  /\ disk \in [Buf -> Data] /\ data \in [Buf -> Data]
  /\ free \subseteq Desc
  /\ addr \in [Desc -> Desc \cup Buf \cup {None}] /\ next \in [Desc -> Desc \cup {None}]
  /\ type \in [Desc -> {"read", "write", None}] /\ sector \in [Desc -> Buf \cup {None}]
  /\ info \in [Desc -> Buf \cup {None}] /\ status \in [Desc -> {0, 255}]
  /\ avail \in [Slot -> Desc] /\ avail_idx \in 0..(WRAP - 1)
  /\ used \in [Slot -> Desc] /\ used_idx \in 0..(WRAP - 1) /\ seen \in 0..(WRAP - 1)
  /\ io \in [Buf -> {0, 1}]
  /\ lock \in Buf \cup {None, "intr"}
  /\ pc \in [Buf -> {"idle", "lock", "alloc", "sleep_desc", "ring", "notify", "wait",
                     "sleep_io", "lock_io"}]
  /\ write \in [Buf -> {"read", "write", None}] /\ idx \in [Buf -> Seq(Desc)]
  /\ fetched \in 0..(WRAP - 1) /\ flight \subseteq Desc /\ served \subseteq Desc
  /\ irq \in {0, 1}

\* The descriptors of a request.
Own(b) == {idx[b][k] : k \in 1..Len(idx[b])}

\* Every descriptor is free or belongs to one request, and each request in
\* progress has three: free_desc() never meets "free_desc 2", none leaks, and no
\* descriptor that the device may read is handed out again.
DescriptorsPartition ==
  /\ free = Desc \ UNION {Own(b) : b \in Buf}
  /\ \A b, c \in Buf : b # c => Own(b) \cap Own(c) = {}
  /\ \A h \in flight \cup served : \E b \in Buf : idx[b] # <<>> /\ idx[b][1] = h

\* Completions are not lost: a used entry that the driver has not seen has its
\* interrupt still pending or its handler still in the loop.
NoLostCompletion == seen # used_idx => irq = 1 \/ lock = "intr"

\* The device has carried out the request of b.
Served(b) == idx[b] # <<>> /\ status[idx[b][1]] = 0

Blocks == INSTANCE BlockDevice WITH
  req <- [b \in Buf |-> IF pc[b] = "idle" THEN "none" ELSE IF Served(b) THEN "done" ELSE write[b]]

\* The driver implements the block device: each request is carried out once, on its
\* own buffer and block, before virtio_disk_rw() returns.
OncePerRequest == Blocks!Spec
===============================================================================
