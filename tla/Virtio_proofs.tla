----------------------------- MODULE Virtio_proofs -----------------------------
(***************************************************************************)
(* Proofs about the disk driver, for any number of buffers, descriptors    *)
(* and ring entries: no completion is lost, every descriptor is free or    *)
(* belongs to one request, and the driver and the device together          *)
(* implement BlockDevice.                                                  *)
(***************************************************************************)
EXTENDS Virtio, RingBuffer, FiniteSets, Functions, TLAPS

\* The entries of the avail ring that the device has not fetched, and those of the used
\* ring that the driver has not seen.
Avail == Held(avail, fetched, avail_idx, RING, WRAP)
Used  == Held(used, seen, used_idx, RING, WRAP)

Waiting   == {"wait", "sleep_io", "lock_io"}
Active(b) == pc[b] \in {"ring", "notify"} \cup Waiting
Sent(b)   == pc[b] \in Waiting /\ io[b] = 1

\* The three descriptors of a request.
Hd(b) == idx[b][1]
Md(b) == idx[b][2]
Tl(b) == idx[b][3]
Parts(b) == {Hd(b), Md(b), Tl(b)}

\* Who is between acquire() and release() in virtio_disk_rw() has vdisk_lock.
LockInv ==
  /\ pc \in [Buf -> {"idle", "lock", "alloc", "sleep_desc", "ring", "notify"} \cup Waiting]
  /\ \A b \in Buf : pc[b] \in {"alloc", "ring", "notify", "wait"} <=> lock = b

\* What virtio_disk_rw() has written in the descriptors stays there until free_chain().
Chained(b) ==
  /\ idx[b] = <<Hd(b), Md(b), Tl(b)>>
  /\ Hd(b) \in Desc /\ Md(b) \in Desc /\ Tl(b) \in Desc
  /\ Hd(b) # Md(b) /\ Md(b) # Tl(b) /\ Hd(b) # Tl(b)
  /\ next[Hd(b)] = Md(b) /\ next[Md(b)] = Tl(b)
  /\ addr[Md(b)] = b /\ addr[Tl(b)] = Hd(b)
  /\ type[Hd(b)] = write[b] /\ sector[Hd(b)] = b /\ info[Hd(b)] = b

ChainInv == \A b \in Buf :
  /\ pc[b] # "idle" => write[b] \in {"read", "write"}
  /\ Active(b) => Chained(b)
  /\ ~Active(b) => idx[b] = <<>>

\* A descriptor is free or part of one chain.
PartInv ==
  /\ \A d \in Desc : d \in free <=> \A b \in Buf : Active(b) => d \notin Parts(b)
  /\ \A b, c \in Buf : Active(b) /\ Active(c) /\ b # c => Parts(b) \cap Parts(c) = {}

\* The head of a request that is under way is in one place: announced in the avail ring,
\* with the device before or after the transfer, or in the used ring.
Announced == Range(Avail)
Completed == Range(Used)

PlaceInv ==
  /\ IsInjective(Avail) /\ IsInjective(Used)
  /\ Announced \cap flight = {} /\ Announced \cap served = {}
  /\ Announced \cap Completed = {} /\ flight \cap served = {}
  /\ flight \cap Completed = {} /\ served \cap Completed = {}
  /\ \A h \in Announced \cup flight \cup served \cup Completed :
       \E b \in Buf : Sent(b) /\ Hd(b) = h

\* The status byte tells whether the transfer was made.
StatusInv ==
  /\ \A h \in Announced \cup flight : status[h] = 255
  /\ \A h \in served \cup Completed : status[h] = 0
  /\ \A b \in Buf :
       /\ pc[b] \in {"ring", "notify"} => io[b] = 1 /\ status[Hd(b)] = 255
       /\ pc[b] \in Waiting /\ io[b] = 0 => status[Hd(b)] = 0
       /\ pc[b] = "notify" => avail[avail_idx % RING] = Hd(b)

DataInv == ChainInv /\ PartInv /\ PlaceInv /\ StatusInv

IInv == TypeOK /\ LockInv /\ DataInv

-------------------------------------------------------------------------------
(* The lock, and completions                                                   *)

(* Every step leaves vdisk_lock with the one request that is between acquire() and
   release(), or with the handler. *)
LEMMA LockStep ==
  ASSUME LockInv, [Next]_vars
  PROVE  LockInv'
<1> USE VirtioAssumption DEF LockInv, Waiting
<1>1. ASSUME NEW b \in Buf, NEW k \in {"read", "write"}, call(b, k) PROVE LockInv'
  BY <1>1 DEF call, Goto
<1>2. ASSUME NEW b \in Buf, acquire(b) PROVE LockInv'
  BY <1>2 DEF acquire, Goto
<1>3. ASSUME NEW b \in Buf, rw_sleep(b) PROVE LockInv'
  BY <1>3 DEF rw_sleep, WakeAnd, ForDesc
<1>4. ASSUME NEW b \in Buf, rw_format(b) PROVE LockInv'
  BY <1>4 DEF rw_format, Goto
<1>5. ASSUME NEW b \in Buf, rw_ring(b) PROVE LockInv'
  BY <1>5 DEF rw_ring, Goto
<1>6. ASSUME NEW b \in Buf, rw_notify(b) PROVE LockInv'
  BY <1>6 DEF rw_notify, Goto
<1>7. ASSUME NEW b \in Buf, rw_wait(b) PROVE LockInv'
  BY <1>7 DEF rw_wait, Goto
<1>8. ASSUME NEW b \in Buf, rw_done(b) PROVE LockInv'
  BY <1>8, Zenon DEF rw_done, WakeAnd, ForDesc
<1>9. ASSUME Intr PROVE LockInv'
  BY <1>9, Zenon DEF Intr, intr_enter, intr_entry, intr_leave
<1>10. ASSUME Device PROVE LockInv'
  BY <1>10 DEF Device, dev_fetch, dev_serve, dev_used
<1>11. CASE UNCHANGED vars
  BY <1>11 DEF vars
<1> HIDE DEF LockInv
<1> QED BY <1>1, <1>2, <1>3, <1>4, <1>5, <1>6, <1>7, <1>8, <1>9, <1>10, <1>11 DEF Next, Request

(* A completion that the driver has not seen has its interrupt pending, or the handler is
   still in its loop: virtio_disk_intr() acknowledges before it looks. *)
THEOREM CompletionsAreSeen == Spec => []NoLostCompletion
<1>1. Init => LockInv /\ NoLostCompletion
  BY VirtioAssumption DEF Init, LockInv, NoLostCompletion
<1>2. LockInv /\ NoLostCompletion /\ [Next]_vars => (LockInv /\ NoLostCompletion)'
  <2> SUFFICES ASSUME LockInv, NoLostCompletion, [Next]_vars PROVE NoLostCompletion'
    BY LockStep
  <2> USE VirtioAssumption DEF NoLostCompletion
  <2>1. ASSUME NEW b \in Buf, NEW k \in {"read", "write"}, call(b, k) PROVE NoLostCompletion'
    BY <2>1, Zenon DEF call, dev
  <2>2. ASSUME NEW b \in Buf, Request(b) PROVE NoLostCompletion'
    BY <2>2, Zenon DEF LockInv, Request, acquire, rw_sleep, rw_format, rw_ring, rw_notify, rw_wait,
                rw_done, dev
  <2>3. ASSUME Intr PROVE NoLostCompletion'
    BY <2>3 DEF Intr, intr_enter, intr_entry, intr_leave, CaughtUp, dev
  <2>4. ASSUME Device PROVE NoLostCompletion'
    BY <2>4 DEF Device, dev_fetch, dev_serve, dev_used
  <2>5. CASE UNCHANGED vars
    BY <2>5 DEF vars, dev
  <2> HIDE DEF NoLostCompletion
  <2> QED BY <2>1, <2>2, <2>3, <2>4, <2>5 DEF Next
<1> QED BY <1>1, <1>2, PTL DEF Spec

-------------------------------------------------------------------------------
(* Rings                                                                       *)

(* One more entry, different from the others. *)
LEMMA AddedEntry ==
  ASSUME NEW q \in Seq(Desc), NEW h \in Desc, IsInjective(q), h \notin Range(q)
  PROVE  /\ Range(Added(q, h)) = Range(q) \cup {h}
         /\ IsInjective(Added(q, h))
<1> DEFINE a == Append(q, h)
           n == Len(q)
<1>1. /\ n \in Nat /\ DOMAIN q = 1..n /\ DOMAIN a = 1..(n + 1)
      /\ \A k \in 1..n : a[k] = q[k] /\ k \in 1..(n + 1)
      /\ \A k \in 1..(n + 1) : k = n + 1 \/ k \in 1..n
      /\ n + 1 \in 1..(n + 1) /\ n + 1 \notin 1..n /\ a[n + 1] = h
  OBVIOUS
<1> HIDE DEF a, n
<1>2. Range(a) = Range(q) \cup {h}
  BY <1>1, Zenon DEF Range
<1>3. ASSUME NEW k \in 1..(n + 1), NEW l \in 1..(n + 1), a[k] = a[l] PROVE k = l
  <2>1. \A m \in 1..n : q[m] # h
    BY <1>1 DEF Range
  <2>2. \A m \in 1..n : a[m] # h
    BY <1>1, <2>1
  <2>3. CASE k \in 1..n /\ l \in 1..n
    BY <1>1, <1>3, <2>3 DEF IsInjective
  <2> QED BY <1>1, <1>3, <2>2, <2>3
<1>4. IsInjective(a)
  BY <1>1, <1>3 DEF IsInjective
<1> QED BY <1>2, <1>4 DEF a, Added

(* The first entry is taken. *)
LEMMA TakenEntry ==
  ASSUME NEW q \in Seq(Desc), q # <<>>, IsInjective(q)
  PROVE  /\ Head(q) \in Range(q)
         /\ Range(Tail(q)) = Range(q) \ {Head(q)}
         /\ IsInjective(Tail(q))
<1> DEFINE t == Tail(q)
           n == Len(q)
<1>1. /\ n \in Nat \ {0} /\ DOMAIN q = 1..n /\ DOMAIN t = 1..(n - 1)
      /\ \A k \in 1..(n - 1) : t[k] = q[k + 1] /\ k + 1 \in 1..n
      /\ 1 \in 1..n /\ q[1] = Head(q)
      /\ \A k \in 1..n : k = 1 \/ (k - 1 \in 1..(n - 1) /\ t[k - 1] = q[k])
  OBVIOUS
<1> HIDE DEF t, n
<1>2. Head(q) \in Range(q)
  BY <1>1 DEF Range
<1>3. IsInjective(t)
  <2>1. ASSUME NEW k \in 1..(n - 1), NEW l \in 1..(n - 1), t[k] = t[l] PROVE k = l
    <3>1. k + 1 \in 1..n /\ l + 1 \in 1..n /\ q[k + 1] = q[l + 1]
      BY <1>1, <2>1
    <3>2. k + 1 = l + 1
      BY <1>1, <3>1, Zenon DEF IsInjective
    <3> QED BY <3>2
  <2> QED BY <1>1, <2>1 DEF IsInjective
<1>4. Range(t) = Range(q) \ {Head(q)}
  <2>1. ASSUME NEW h \in Range(t) PROVE h \in Range(q) /\ h # Head(q)
    <3>1. PICK k \in 1..(n - 1) : h = t[k]
      BY <1>1 DEF Range
    <3>2. h = q[k + 1] /\ k + 1 \in 1..n /\ k + 1 # 1
      BY <1>1, <3>1
    <3> QED BY <1>1, <3>2, Zenon DEF Range, IsInjective
  <2>2. ASSUME NEW h \in Range(q), h # Head(q) PROVE h \in Range(t)
    <3>1. PICK k \in 1..n : h = q[k]
      BY <1>1 DEF Range
    <3>2. k - 1 \in 1..(n - 1) /\ t[k - 1] = h
      BY <1>1, <2>2, <3>1
    <3> QED BY <1>1, <3>2 DEF Range
  <2> QED BY <2>1, <2>2
<1> QED BY <1>2, <1>3, <1>4 DEF t

(* The assumptions on the sizes, as the facts about ring buffers use them. *)
LEMMA Sizes ==
  /\ RING \in Nat \ {0} /\ WRAP \in Nat \ {0} /\ WRAP > RING /\ Divides(RING, WRAP)
  /\ Slot = 0..(RING - 1)
BY VirtioAssumption DEF Divides, Slot

(* What the rings hold. *)
LEMMA RingTypes ==
  ASSUME TypeOK
  PROVE  /\ Avail \in Seq(Desc) /\ Len(Avail) = Dist(fetched, avail_idx, WRAP)
         /\ fetched = avail_idx <=> Avail = <<>>
         /\ Used \in Seq(Desc) /\ Len(Used) = Dist(seen, used_idx, WRAP)
         /\ seen = used_idx <=> Used = <<>>
<1>1. /\ RING \in Nat \ {0} /\ WRAP \in Nat \ {0}
      /\ avail \in [0..(RING - 1) -> Desc] /\ used \in [0..(RING - 1) -> Desc]
      /\ fetched \in 0..(WRAP - 1) /\ avail_idx \in 0..(WRAP - 1)
      /\ seen \in 0..(WRAP - 1) /\ used_idx \in 0..(WRAP - 1)
  BY Sizes DEF TypeOK
<1>2. /\ Held(avail, fetched, avail_idx, RING, WRAP) \in Seq(Desc)
      /\ Held(used, seen, used_idx, RING, WRAP) \in Seq(Desc)
  BY <1>1, HeldSeq, Zenon
<1>3. /\ fetched = avail_idx <=> Dist(fetched, avail_idx, WRAP) = 0
      /\ seen = used_idx <=> Dist(seen, used_idx, WRAP) = 0
  BY <1>1, DistStep, Zenon
<1>4. Length(Avail) = Dist(fetched, avail_idx, WRAP) /\ Length(Used) = Dist(seen, used_idx, WRAP)
  BY <1>1, HeldLength DEF Avail, Used
<1> QED BY <1>2, <1>3, <1>4 DEF Length, Avail, Used

(* rw_ring: an entry that the device does not see yet. *)
LEMMA StoreAvail ==
  ASSUME TypeOK, NEW h \in Desc, Len(Avail) < RING,
         avail' = [avail EXCEPT ![avail_idx % RING] = h],
         UNCHANGED <<fetched, avail_idx>>
  PROVE  Avail' = Avail /\ avail'[avail_idx % RING] = h
<1>1. /\ RING \in Nat \ {0} /\ WRAP \in Nat \ {0} /\ WRAP > RING /\ Divides(RING, WRAP)
      /\ avail \in [0..(RING - 1) -> Desc]
      /\ fetched \in 0..(WRAP - 1) /\ avail_idx \in 0..(WRAP - 1)
      /\ avail' = Stored(avail, avail_idx % RING, h)
  BY Sizes DEF TypeOK, Stored
<1>2. Dist(fetched, avail_idx, WRAP) < RING
  BY RingTypes
<1>3. avail_idx % RING \in 0..(RING - 1)
  <2>1. avail_idx \in Int
    BY <1>1
  <2> QED BY <1>1, <2>1, Division, Zenon
<1>4. Dist(fetched, avail_idx, WRAP) <= Dist(fetched, avail_idx, WRAP)
  BY <1>1, DistType
<1>5. Held(Stored(avail, avail_idx % RING, h), fetched, avail_idx, RING, WRAP)
        = Held(avail, fetched, avail_idx, RING, WRAP)
  BY <1>1, <1>2, <1>4, HeldKept
<1>6. Avail' = Avail
  BY <1>1, <1>5, Zenon DEF Avail
<1> QED BY <1>1, <1>3, <1>6

(* rw_notify: now it does. *)
LEMMA Announce ==
  ASSUME TypeOK, NEW h \in Desc, Len(Avail) < RING, avail[avail_idx % RING] = h,
         avail_idx' = (avail_idx + 1) % WRAP, UNCHANGED <<avail, fetched>>
  PROVE  Avail' = Added(Avail, h)
<1>1. /\ RING \in Nat \ {0} /\ WRAP \in Nat \ {0} /\ WRAP > RING /\ Divides(RING, WRAP)
      /\ avail \in [0..(RING - 1) -> Desc]
      /\ fetched \in 0..(WRAP - 1) /\ avail_idx \in 0..(WRAP - 1)
      /\ avail = Stored(avail, avail_idx % RING, h)
  BY Sizes DEF TypeOK, Stored
<1>2. Dist(fetched, avail_idx, WRAP) < RING
  BY RingTypes
<1>3. Held(Stored(avail, avail_idx % RING, h), fetched, (avail_idx + 1) % WRAP, RING, WRAP)
        = Added(Held(avail, fetched, avail_idx, RING, WRAP), h)
  BY <1>1, <1>2, HeldPut
<1> QED BY <1>1, <1>3 DEF Avail

(* dev_fetch: the device takes the oldest entry. *)
LEMMA Fetch ==
  ASSUME TypeOK, fetched # avail_idx, fetched' = (fetched + 1) % WRAP,
         UNCHANGED <<avail, avail_idx>>
  PROVE  Avail' = Tail(Avail) /\ Head(Avail) = avail[fetched % RING]
<1>1. /\ RING \in Nat \ {0} /\ WRAP \in Nat \ {0} /\ WRAP > RING /\ Divides(RING, WRAP)
      /\ avail \in [0..(RING - 1) -> Desc]
      /\ fetched \in 0..(WRAP - 1) /\ avail_idx \in 0..(WRAP - 1)
  BY Sizes DEF TypeOK
<1>2. Held(avail, (fetched + 1) % WRAP, avail_idx, RING, WRAP)
        = Tail(Held(avail, fetched, avail_idx, RING, WRAP))
  BY <1>1, HeldGet, ZenonT(60)
<1>3. Head(Held(avail, fetched, avail_idx, RING, WRAP)) = avail[fetched % RING]
  BY <1>1, HeldHead, ZenonT(60)
<1> QED BY <1>2, <1>3 DEF Avail

(* dev_used: the device adds an entry to the used ring. *)
LEMMA Complete ==
  ASSUME TypeOK, NEW h \in Desc, Len(Used) < RING,
         used' = [used EXCEPT ![used_idx % RING] = h],
         used_idx' = (used_idx + 1) % WRAP, UNCHANGED seen
  PROVE  Used' = Added(Used, h)
<1>1. /\ RING \in Nat \ {0} /\ WRAP \in Nat \ {0} /\ WRAP > RING /\ Divides(RING, WRAP)
      /\ used \in [0..(RING - 1) -> Desc]
      /\ seen \in 0..(WRAP - 1) /\ used_idx \in 0..(WRAP - 1)
      /\ used' = Stored(used, used_idx % RING, h)
  BY Sizes DEF TypeOK, Stored
<1>2. Dist(seen, used_idx, WRAP) < RING
  BY RingTypes
<1>3. Held(Stored(used, used_idx % RING, h), seen, (used_idx + 1) % WRAP, RING, WRAP)
        = Added(Held(used, seen, used_idx, RING, WRAP), h)
  BY <1>1, <1>2, HeldPut
<1> QED BY <1>1, <1>3, Zenon DEF Used

(* intr_entry: the driver takes the oldest entry. *)
LEMMA See ==
  ASSUME TypeOK, seen # used_idx, seen' = (seen + 1) % WRAP, UNCHANGED <<used, used_idx>>
  PROVE  Used' = Tail(Used) /\ Head(Used) = used[seen % RING]
<1>1. /\ RING \in Nat \ {0} /\ WRAP \in Nat \ {0} /\ WRAP > RING /\ Divides(RING, WRAP)
      /\ used \in [0..(RING - 1) -> Desc]
      /\ seen \in 0..(WRAP - 1) /\ used_idx \in 0..(WRAP - 1)
  BY Sizes DEF TypeOK
<1>2. Held(used, (seen + 1) % WRAP, used_idx, RING, WRAP)
        = Tail(Held(used, seen, used_idx, RING, WRAP))
  BY <1>1, HeldGet, ZenonT(60)
<1>3. Head(Held(used, seen, used_idx, RING, WRAP)) = used[seen % RING]
  BY <1>1, HeldHead, ZenonT(60)
<1> QED BY <1>2, <1>3 DEF Used

-------------------------------------------------------------------------------
(* Requests                                                                    *)

(* A head has one owner. *)
LEMMA OneOwner ==
  ASSUME PartInv, NEW b \in Buf, NEW c \in Buf, Active(b), Active(c), Hd(b) = Hd(c)
  PROVE  b = c
BY Zenon DEF PartInv, Parts

(* A request that is not under way is nowhere. *)
LEMMA Nowhere ==
  ASSUME PartInv, PlaceInv, NEW b \in Buf, Active(b), ~Sent(b)
  PROVE  Hd(b) \notin Announced \cup flight \cup served \cup Completed
<1> SUFFICES ASSUME Hd(b) \in Announced \cup flight \cup served \cup Completed PROVE FALSE
  OBVIOUS
<1>1. PICK c \in Buf : Sent(c) /\ Hd(c) = Hd(b)
  BY DEF PlaceInv
<1>2. Active(c)
  BY <1>1 DEF Sent, Active
<1> QED BY <1>1, <1>2, OneOwner

(* Steps that take no request from one stage to another. *)
LEMMA StillStep ==
  ASSUME DataInv, UNCHANGED <<descs, status, rings, dev, seen, io, idx>>,
         \A b \in Buf : /\ pc'[b] \in Waiting <=> pc[b] \in Waiting
                        /\ pc'[b] = "ring" <=> pc[b] = "ring"
                        /\ pc'[b] = "notify" <=> pc[b] = "notify"
                        /\ Active(b) => write'[b] = write[b]
                        /\ pc'[b] # "idle" => write'[b] \in {"read", "write"}
  PROVE  DataInv'
<1>1. /\ UNCHANGED <<free, addr, next, type, sector, info, status, avail, avail_idx, used,
                     used_idx, fetched, flight, served, seen, io, idx>>
      /\ Avail' = Avail /\ Used' = Used
  BY DEF descs, rings, dev, Avail, Used
<1>2. \A b \in Buf : /\ Active(b)' <=> Active(b)
                     /\ Sent(b)' <=> Sent(b)
                     /\ Hd(b)' = Hd(b) /\ Parts(b)' = Parts(b)
  BY <1>1, Zenon DEF Active, Sent, Hd, Md, Tl, Parts
<1>3. ChainInv'
  <2>1. ChainInv /\ UNCHANGED <<addr, next, type, sector, info, idx>>
    BY <1>1, Zenon DEF DataInv
  <2>2. \A b \in Buf : /\ Active(b)' <=> Active(b)
                       /\ Hd(b)' = Hd(b) /\ Md(b)' = Md(b) /\ Tl(b)' = Tl(b)
    BY <1>1, <1>2, Zenon DEF Hd, Md, Tl
  <2>3. ASSUME NEW b \in Buf, Active(b) PROVE Chained(b) => Chained(b)'
    BY <2>1, <2>2, <2>3, Zenon DEF Chained
  <2> QED BY <2>1, <2>2, <2>3, Zenon DEF ChainInv
<1>4. PartInv'
  <2>1. PartInv /\ free' = free
    BY <1>1, Zenon DEF DataInv
  <2>2. \A b \in Buf : (Active(b)' <=> Active(b)) /\ Parts(b)' = Parts(b)
    BY <1>2, Zenon
  <2> QED BY <2>1, <2>2 DEF PartInv
<1>5. Announced' = Announced /\ Completed' = Completed
  BY <1>1 DEF Announced, Completed
<1>6. PlaceInv'
  BY <1>1, <1>2, <1>5, Zenon DEF DataInv, PlaceInv
<1>7. StatusInv'
  <2>1. StatusInv /\ UNCHANGED <<flight, served, status, io, avail, avail_idx>>
    BY <1>1, Zenon DEF DataInv
  <2> QED BY <1>2, <1>5, <2>1 DEF StatusInv
<1> QED BY <1>3, <1>4, <1>6, <1>7 DEF DataInv

(* The head of an active request is a descriptor. *)
LEMMA HeadType ==
  ASSUME ChainInv, NEW b \in Buf, Active(b)
  PROVE  Hd(b) \in Desc
BY DEF ChainInv, Chained

(* The heads of the requests that are under way are descriptors. *)
LEMMA Heads ==
  ASSUME IInv
  PROVE  /\ \A c \in Buf : Active(c) => Hd(c) \in Desc
         /\ \A h \in Announced \cup flight \cup served \cup Completed : h \in Desc
<1>1. ChainInv /\ PlaceInv
  BY Zenon DEF IInv, DataInv
<1>2. \A c \in Buf : Active(c) => Hd(c) \in Desc
  BY <1>1, HeadType, Zenon
<1>3. \A c \in Buf : Sent(c) => Active(c)
  BY Zenon DEF Sent, Active
<1> QED BY <1>1, <1>2, <1>3, Zenon DEF PlaceInv

(* rw_format(): three free descriptors become the chain of the request. *)
LEMMA FormatStep ==
  ASSUME IInv, NEW b \in Buf, rw_format(b)
  PROVE  DataInv'
<1>1. PICK i \in free, j \in free, k \in free :
        /\ alloc3_desc(i, j, k)
        /\ free' = free \ {i, j, k}
        /\ type' = [type EXCEPT ![i] = write[b]]
        /\ sector' = [sector EXCEPT ![i] = b]
        /\ addr' = [addr EXCEPT ![i] = i, ![j] = b, ![k] = i]
        /\ next' = [next EXCEPT ![i] = j, ![j] = k, ![k] = None]
        /\ status' = [status EXCEPT ![i] = 255]
        /\ info' = [info EXCEPT ![i] = b]
        /\ idx' = [idx EXCEPT ![b] = <<i, j, k>>]
  BY Zenon DEF rw_format, Recorded
<1>2. i \in Desc /\ j \in Desc /\ k \in Desc /\ i # j /\ j # k /\ i # k
  <2>1. i \in Desc /\ j \in Desc /\ k \in Desc
    BY Zenon DEF IInv, TypeOK
  <2> QED BY <1>1, <2>1, VirtioAssumption DEF alloc3_desc, Desc
<1>3. /\ pc[b] = "alloc" /\ pc' = [pc EXCEPT ![b] = "ring"] /\ io' = [io EXCEPT ![b] = 1]
      /\ pc \in [Buf -> {"idle", "lock", "alloc", "sleep_desc", "ring", "notify"} \cup Waiting]
      /\ io \in [Buf -> {0, 1}]
      /\ UNCHANGED <<avail, avail_idx, used, used_idx, fetched, flight, served, seen, write>>
  BY DEF rw_format, Goto, IInv, TypeOK, LockInv, rings, dev
<1>4. /\ ~Active(b) /\ Active(b)' /\ ~Sent(b)
      /\ \A c \in Buf : c # b => /\ Active(c)' <=> Active(c)
                                 /\ Sent(c)' <=> Sent(c)
                                 /\ pc'[c] = pc[c] /\ io'[c] = io[c]
  BY <1>3 DEF Active, Sent, Waiting
<1>5. /\ idx'[b] = <<i, j, k>>
      /\ \A c \in Buf : c # b => idx'[c] = idx[c]
  <2>1. idx \in [Buf -> Seq(Desc)]
    BY DEF IInv, TypeOK
  <2> QED BY <1>1, <2>1
<1>6. \A c \in Buf :
       c # b => Hd(c)' = Hd(c) /\ Md(c)' = Md(c) /\ Tl(c)' = Tl(c) /\ Parts(c)' = Parts(c)
  BY <1>5 DEF Hd, Md, Tl, Parts
<1>7. /\ Hd(b)' = i /\ Md(b)' = j /\ Tl(b)' = k /\ Parts(b)' = {i, j, k}
  BY <1>5 DEF Hd, Md, Tl, Parts
<1>8. \A c \in Buf : Active(c) => Parts(c) \cap {i, j, k} = {}
  BY <1>2 DEF IInv, DataInv, PartInv
<1>9. ChainInv'
  <2>1. Chained(b)'
    BY <1>1, <1>2, <1>3, <1>5, <1>7, Zenon DEF Chained, IInv, TypeOK
  <2>2. ASSUME NEW c \in Buf, c # b, Active(c) PROVE Chained(c)'
    <3>1. Chained(c)
      BY <2>2 DEF IInv, DataInv, ChainInv
    <3>2. /\ Hd(c) \notin {i, j, k} /\ Md(c) \notin {i, j, k} /\ Tl(c) \notin {i, j, k}
      BY <1>8, <2>2, Zenon DEF Parts
    <3>3. \A d \in Desc : d \notin {i, j, k} => /\ next'[d] = next[d] /\ addr'[d] = addr[d]
                                                /\ type'[d] = type[d] /\ sector'[d] = sector[d]
                                                /\ info'[d] = info[d]
      BY <1>1, <1>2 DEF IInv, TypeOK
    <3>4. /\ idx'[c] = idx[c] /\ write' = write
          /\ Hd(c)' = Hd(c) /\ Md(c)' = Md(c) /\ Tl(c)' = Tl(c)
      BY <1>3, <1>5, <1>6, <2>2, Zenon
    <3> QED BY <3>1, <3>2, <3>3, <3>4, Zenon DEF Chained
  <2>3. write[b] \in {"read", "write"}
    BY <1>3, Zenon DEF IInv, DataInv, ChainInv
  <2> QED BY <1>3, <1>4, <1>5, <2>1, <2>2, <2>3, Zenon DEF ChainInv, IInv, DataInv
<1>10. PartInv'
  <2>1. PartInv /\ free' = free \ {i, j, k}
    BY <1>1, Zenon DEF IInv, DataInv
  <2> QED BY <1>4, <1>6, <1>7, <1>8, <2>1 DEF PartInv
<1>11. Avail' = Avail /\ Used' = Used /\ Announced' = Announced /\ Completed' = Completed
  BY <1>3, Zenon DEF Avail, Used, Announced, Completed
<1>12. PlaceInv'
  BY <1>3, <1>4, <1>6, <1>11 DEF PlaceInv, IInv, DataInv
<1>13. StatusInv'
  <2>1. \A c \in Buf : Active(c) => Hd(c) # i
    BY <1>8, Zenon DEF Parts
  <2>2. \A h \in Announced \cup flight \cup served \cup Completed : h # i
    BY <2>1, Zenon DEF IInv, DataInv, PlaceInv, Sent, Active
  <2>3. /\ status'[i] = 255 /\ io'[b] = 1 /\ pc'[b] = "ring"
        /\ \A h \in Desc : h # i => status'[h] = status[h]
    BY <1>1, <1>2, <1>3 DEF IInv, TypeOK
  <2>4. \A c \in Buf : Active(c) => status'[Hd(c)] = status[Hd(c)]
    BY <2>1, <2>3, Heads
  <2>5. \A h \in Announced \cup flight \cup served \cup Completed : status'[h] = status[h]
    BY <2>2, <2>3, Heads
  <2>6. StatusInv /\ UNCHANGED <<flight, served>>
    BY <1>3, Zenon DEF IInv, DataInv
  <2> QED BY <1>3, <1>4, <1>6, <1>7, <1>11, <2>3, <2>4, <2>5, <2>6
          DEF StatusInv, Active, Waiting
<1> QED BY <1>9, <1>10, <1>12, <1>13 DEF DataInv

(* Steps between the writing of a chain and its freeing. *)
LEMMA ChainsKept ==
  ASSUME ChainInv, PartInv, UNCHANGED <<descs, args>>,
         \A b \in Buf : (Active(b)' <=> Active(b)) /\ (pc'[b] # "idle" => pc[b] # "idle")
  PROVE  ChainInv' /\ PartInv' /\ \A b \in Buf : Hd(b)' = Hd(b)
<1>1. UNCHANGED <<free, addr, next, type, sector, info, write, idx>>
  BY DEF descs, args
<1>2. \A b \in Buf : Hd(b)' = Hd(b) /\ Parts(b)' = Parts(b)
  BY <1>1, Zenon DEF Hd, Md, Tl, Parts
<1>3. ChainInv'
  BY <1>1, Zenon DEF ChainInv, Chained, Hd, Md, Tl
<1>4. PartInv'
  BY <1>1, <1>2 DEF PartInv
<1> QED BY <1>2, <1>3, <1>4

(* rw_ring() *)
LEMMA RingStep ==
  ASSUME IInv, NEW b \in Buf, rw_ring(b), Len(Avail) < RING
  PROVE  DataInv'
<1>1. /\ pc[b] = "ring" /\ pc' = [pc EXCEPT ![b] = "notify"]
      /\ pc \in [Buf -> {"idle", "lock", "alloc", "sleep_desc", "ring", "notify"} \cup Waiting]
      /\ avail' = [avail EXCEPT ![avail_idx % RING] = Hd(b)]
      /\ UNCHANGED <<descs, args, status, avail_idx, used, used_idx, fetched, flight, served>>
      /\ UNCHANGED <<seen, io>>
  BY DEF rw_ring, Goto, IInv, LockInv, Hd, dev
<1>2. /\ Active(b) /\ ~Sent(b)
      /\ \A c \in Buf : /\ Active(c)' <=> Active(c)
                        /\ Sent(c)' <=> Sent(c)
                        /\ pc'[c] # "idle" => pc[c] # "idle"
                        /\ c # b => pc'[c] = pc[c]
  BY <1>1 DEF Active, Sent, Waiting
<1>3. ChainInv' /\ PartInv' /\ \A c \in Buf : Hd(c)' = Hd(c)
  BY <1>1, <1>2, ChainsKept DEF IInv, DataInv
<1>4. Len(Avail) < RING /\ Hd(b) \in Desc
  BY <1>2, HeadType DEF IInv, DataInv
<1>5. Avail' = Avail /\ avail'[avail_idx % RING] = Hd(b)
  BY <1>1, <1>4, StoreAvail, Zenon DEF IInv
<1>6. Used' = Used /\ Announced' = Announced /\ Completed' = Completed
  BY <1>1, <1>5 DEF Used, Announced, Completed
<1>7. PlaceInv'
  BY <1>1, <1>2, <1>3, <1>5, <1>6 DEF PlaceInv, IInv, DataInv
<1>8. \A c \in Buf : c # b => pc[c] # "notify"
  BY <1>1, Zenon DEF IInv, LockInv
<1>9. StatusInv'
  BY <1>1, <1>2, <1>3, <1>5, <1>6, <1>8 DEF StatusInv, IInv, DataInv, Waiting
<1> QED BY <1>3, <1>7, <1>9 DEF DataInv

(* rw_notify() *)
LEMMA NotifyStep ==
  ASSUME IInv, NEW b \in Buf, rw_notify(b), Len(Avail) < RING
  PROVE  DataInv'
<1>1. /\ pc[b] = "notify" /\ pc' = [pc EXCEPT ![b] = "wait"]
      /\ pc \in [Buf -> {"idle", "lock", "alloc", "sleep_desc", "ring", "notify"} \cup Waiting]
      /\ avail_idx' = (avail_idx + 1) % WRAP
      /\ UNCHANGED <<descs, args, status, avail, used, used_idx, fetched, flight, served, seen, io>>
  BY DEF rw_notify, Goto, IInv, LockInv, dev
<1>2. io[b] = 1 /\ status[Hd(b)] = 255 /\ avail[avail_idx % RING] = Hd(b)
  BY <1>1 DEF IInv, DataInv, StatusInv
<1>3. /\ Active(b) /\ ~Sent(b) /\ Sent(b)'
      /\ \A c \in Buf : /\ Active(c)' <=> Active(c)
                        /\ Sent(c) => Sent(c)'
                        /\ pc'[c] # "idle" => pc[c] # "idle"
                        /\ c # b => pc'[c] = pc[c] /\ pc[c] # "notify"
  BY <1>1, <1>2 DEF Active, Sent, Waiting, IInv, LockInv
<1>4. ChainInv' /\ PartInv' /\ \A c \in Buf : Hd(c)' = Hd(c)
  BY <1>1, <1>3, ChainsKept DEF IInv, DataInv
<1>5. Len(Avail) < RING /\ Hd(b) \in Desc
  BY <1>3, HeadType DEF IInv, DataInv
<1>6. Avail' = Added(Avail, Hd(b))
  BY <1>1, <1>2, <1>5, Announce DEF IInv
<1>7. Hd(b) \notin Announced \cup flight \cup served \cup Completed
  BY <1>3, Nowhere DEF IInv, DataInv
<1>8. Announced' = Announced \cup {Hd(b)} /\ IsInjective(Avail)'
  <2>1. Avail \in Seq(Desc) /\ IsInjective(Avail) /\ Hd(b) \notin Range(Avail)
    BY <1>7, RingTypes DEF IInv, DataInv, PlaceInv, Announced
  <2> QED BY <1>5, <1>6, <2>1, AddedEntry DEF Announced
<1>9. Used' = Used /\ Completed' = Completed
  BY <1>1 DEF Used, Completed
<1>10. PlaceInv'
  <2>1. ASSUME NEW h \in (Announced \cup flight \cup served \cup Completed)'
        PROVE  \E c \in Buf : Sent(c)' /\ Hd(c)' = h
    <3>1. CASE h = Hd(b)
      BY <1>3, <1>4, <3>1, Zenon
    <3>2. CASE h # Hd(b)
      BY <1>1, <1>3, <1>4, <1>8, <1>9, <3>2, Zenon DEF PlaceInv, IInv, DataInv
    <3> QED BY <3>1, <3>2
  <2> QED BY <1>1, <1>7, <1>8, <1>9, <2>1 DEF PlaceInv, IInv, DataInv
<1>11. StatusInv'
  <2>1. StatusInv /\ UNCHANGED <<flight, served, status, io>>
    BY <1>1, Zenon DEF IInv, DataInv
  <2>2. /\ \A h \in (Announced \cup flight)' : status'[h] = 255
        /\ \A h \in (served \cup Completed)' : status'[h] = 0
    <3>1. /\ \A h \in Announced \cup flight \cup {Hd(b)} : status[h] = 255
          /\ \A h \in served \cup Completed : status[h] = 0
      BY <1>2, <2>1, Zenon DEF StatusInv
    <3> QED BY <1>8, <1>9, <2>1, <3>1, Zenon
  <2>3. ASSUME NEW c \in Buf
        PROVE  /\ pc'[c] \notin {"ring", "notify"} \/ (c # b /\ pc'[c] = pc[c])
               /\ pc'[c] \in Waiting => c = b \/ pc[c] \in Waiting
               /\ pc'[c] # "notify"
    BY <1>1, <1>3 DEF Waiting, IInv, TypeOK
  <2> QED BY <1>2, <1>4, <2>1, <2>2, <2>3 DEF StatusInv
<1> QED BY <1>4, <1>10, <1>11 DEF DataInv

(* rw_done(): the chain is given back. *)
LEMMA DoneStep ==
  ASSUME IInv, NEW b \in Buf, rw_done(b)
  PROVE  DataInv'
<1>1. /\ pc[b] = "wait" /\ io[b] = 0
      /\ UNCHANGED <<type, sector, status, avail, avail_idx, used, used_idx, fetched, flight,
                     served, seen, io>>
  BY Zenon DEF rw_done, Pending, rings, dev, IInv, TypeOK
<1>2. /\ pc'[b] = "idle"
      /\ \A c \in Buf : c # b => pc'[c] = IF pc[c] = "sleep_desc" THEN "lock" ELSE pc[c]
  BY Zenon DEF rw_done, WakeAnd, ForDesc
<1>3. /\ Active(b) /\ ~Active(b)' /\ ~Sent(b)
      /\ \A c \in Buf : c # b => (Active(c)' <=> Active(c)) /\ (Sent(c)' <=> Sent(c))
  BY <1>1, <1>2 DEF Active, Sent, Waiting
<1>4. Chained(b)
  BY <1>3, Zenon DEF IInv, DataInv, ChainInv
<1>5. Chain(Hd(b)) = Parts(b)
  BY <1>4, Zenon DEF Chained, Chain, Parts
<1>6. /\ free' = free \cup Parts(b)
      /\ info' = [info EXCEPT ![Hd(b)] = None]
      /\ addr' = [i \in Desc |-> IF i \in Parts(b) THEN None ELSE addr[i]]
      /\ next' = [i \in Desc |-> IF i \in Parts(b) THEN None ELSE next[i]]
      /\ write' = [write EXCEPT ![b] = None] /\ idx' = [idx EXCEPT ![b] = <<>>]
  BY <1>5, Zenon DEF rw_done, Hd
<1>7. /\ idx'[b] = <<>> /\ \A c \in Buf : c # b => idx'[c] = idx[c] /\ write'[c] = write[c]
  BY <1>6 DEF IInv, TypeOK
<1>8. \A c \in Buf :
       c # b => Hd(c)' = Hd(c) /\ Md(c)' = Md(c) /\ Tl(c)' = Tl(c) /\ Parts(c)' = Parts(c)
  BY <1>7 DEF Hd, Md, Tl, Parts
<1>9. \A c \in Buf : Active(c) /\ c # b => Parts(c) \cap Parts(b) = {}
  BY <1>3, Zenon DEF IInv, DataInv, PartInv
<1>10. ChainInv'
  <2>1. ASSUME NEW c \in Buf, c # b, Active(c) PROVE Chained(c)'
    <3>1. Chained(c)
      BY <2>1 DEF IInv, DataInv, ChainInv
    <3>2. /\ Hd(c) \notin Parts(b) /\ Md(c) \notin Parts(b) /\ Tl(c) \notin Parts(b)
          /\ Hd(c) # Hd(b)
      BY <1>9, <2>1, Zenon DEF Parts
    <3>3. info'[Hd(c)] = info[Hd(c)]
      BY <1>6, <3>2, HeadType, <2>1 DEF IInv, DataInv, TypeOK
    <3>4. \A d \in Desc : d \notin Parts(b) => next'[d] = next[d] /\ addr'[d] = addr[d]
      BY <1>6
    <3> QED BY <1>1, <1>7, <1>8, <2>1, <3>1, <3>2, <3>3, <3>4, Zenon DEF Chained
  <2> QED BY <1>2, <1>3, <1>7, <2>1, Zenon DEF ChainInv, IInv, DataInv
<1>11. PartInv'
  <2>1. ASSUME NEW d \in Desc PROVE d \in free' <=> \A c \in Buf : Active(c)' => d \notin Parts(c)'
    <3>1. d \in free' <=> d \in free \/ d \in Parts(b)
      BY <1>6
    <3>2. d \in free <=> \A c \in Buf : Active(c) => d \notin Parts(c)
      BY DEF IInv, DataInv, PartInv
    <3>3. (\A c \in Buf : Active(c)' => d \notin Parts(c)')
            <=> \A c \in Buf : Active(c) /\ c # b => d \notin Parts(c)
      BY <1>3, <1>8, Zenon
    <3> QED BY <1>3, <1>9, <3>1, <3>2, <3>3
  <2> QED BY <1>3, <1>8, <2>1 DEF PartInv, IInv, DataInv
<1>12. Avail' = Avail /\ Used' = Used /\ Announced' = Announced /\ Completed' = Completed
  BY <1>1, Zenon DEF Avail, Used, Announced, Completed
<1>13. PlaceInv'
  <2>1. PlaceInv /\ UNCHANGED <<flight, served>>
    BY <1>1, Zenon DEF IInv, DataInv
  <2> QED BY <1>3, <1>8, <1>12, <2>1 DEF PlaceInv
<1>14. StatusInv'
  <2>1. StatusInv /\ UNCHANGED <<flight, served, status, io, avail, avail_idx>>
    BY <1>1, Zenon DEF IInv, DataInv
  <2>2. \A c \in Buf : /\ pc'[c] \in {"ring", "notify"} \cup Waiting => c # b /\ pc'[c] = pc[c]
                       /\ c # b => Hd(c)' = Hd(c)
    BY <1>2, <1>8 DEF Waiting
  <2>3. ASSUME NEW c \in Buf
        PROVE  /\ pc'[c] \in {"ring", "notify"} => io'[c] = 1 /\ status'[Hd(c)'] = 255
               /\ pc'[c] \in Waiting' /\ io'[c] = 0 => status'[Hd(c)'] = 0
               /\ pc'[c] = "notify" => avail'[avail_idx' % RING] = Hd(c)'
    <3>1. /\ pc[c] \in {"ring", "notify"} => io[c] = 1 /\ status[Hd(c)] = 255
          /\ pc[c] \in Waiting /\ io[c] = 0 => status[Hd(c)] = 0
          /\ pc[c] = "notify" => avail[avail_idx % RING] = Hd(c)
      BY <2>1, Zenon DEF StatusInv
    <3>2. UNCHANGED <<status, io, avail, avail_idx>>
      BY <2>1, Zenon
    <3> QED BY <2>2, <3>1, <3>2 DEF Waiting
  <2>4. /\ \A d \in (Announced \cup flight)' : status'[d] = 255
        /\ \A d \in (served \cup Completed)' : status'[d] = 0
    BY <1>12, <2>1, Zenon DEF StatusInv
  <2> QED BY <2>3, <2>4, Zenon DEF StatusInv
<1> QED BY <1>10, <1>11, <1>13, <1>14, Zenon DEF DataInv

(* intr_entry: the request whose head is next in the used ring is done. *)
LEMMA EntryStep ==
  ASSUME IInv, intr_entry
  PROVE  DataInv'
<1>1. Used' = Tail(Used) /\ Head(Used) = used[seen % RING]
  BY See, Zenon DEF intr_entry, dev, IInv
<1>2. Used \in Seq(Desc) /\ Used # <<>> /\ IsInjective(Used)
  BY RingTypes DEF intr_entry, IInv, DataInv, PlaceInv
<1>3. /\ Head(Used) \in Completed /\ Completed' = Completed \ {Head(Used)}
      /\ IsInjective(Used)'
  BY <1>1, <1>2, TakenEntry DEF Completed
<1>4. PICK b \in Buf : Sent(b) /\ Hd(b) = Head(Used)
  BY <1>3, Zenon DEF IInv, DataInv, PlaceInv
<1>5. Active(b) /\ info[Head(Used)] = b
  BY <1>4 DEF IInv, DataInv, ChainInv, Chained, Sent, Active
<1>6. /\ io' = [io EXCEPT ![b] = 0] /\ io \in [Buf -> {0, 1}]
      /\ pc' = [pc EXCEPT ![b] = IF @ = "sleep_io" THEN "lock_io" ELSE @]
      /\ pc \in [Buf -> {"idle", "lock", "alloc", "sleep_desc", "ring", "notify"} \cup Waiting]
      /\ UNCHANGED <<descs, args, status, avail, avail_idx, fetched, flight, served>>
  BY <1>1, <1>5, Zenon DEF intr_entry, rings, dev, IInv, TypeOK, LockInv
<1>7. /\ pc[b] \in Waiting /\ pc'[b] \in Waiting /\ io'[b] = 0
      /\ \A c \in Buf : c # b => pc'[c] = pc[c] /\ io'[c] = io[c]
  BY <1>4, <1>6, Zenon DEF Sent, Waiting
<1>8. /\ \A c \in Buf : /\ Active(c)' <=> Active(c)
                        /\ pc'[c] # "idle" => pc[c] # "idle"
                        /\ Sent(c) /\ c # b => Sent(c)'
  BY <1>7 DEF Active, Sent, Waiting
<1>9. ChainInv' /\ PartInv' /\ \A c \in Buf : Hd(c)' = Hd(c)
  BY <1>6, <1>8, ChainsKept DEF IInv, DataInv
<1>10. Avail' = Avail /\ Announced' = Announced
  BY <1>6, Zenon DEF Avail, Announced
<1>11. PlaceInv'
  <2>1. ASSUME NEW h \in (Announced \cup flight \cup served \cup Completed)'
        PROVE  \E c \in Buf : Sent(c)' /\ Hd(c)' = h
    <3>1. h \in Announced \cup flight \cup served \cup Completed /\ h # Hd(b)
      BY <1>3, <1>4, <1>6, <1>10 DEF IInv, DataInv, PlaceInv
    <3>2. PICK c \in Buf : Sent(c) /\ Hd(c) = h
      BY <3>1 DEF IInv, DataInv, PlaceInv
    <3> QED BY <1>8, <1>9, <3>1, <3>2, Zenon
  <2> QED BY <1>3, <1>6, <1>10, <2>1, Zenon DEF PlaceInv, IInv, DataInv
<1>12. status[Hd(b)] = 0
  BY <1>3, <1>4 DEF IInv, DataInv, StatusInv
<1>13. StatusInv'
  <2>1. StatusInv /\ UNCHANGED <<flight, served, status, avail, avail_idx>>
    BY <1>6, Zenon DEF IInv, DataInv
  <2> QED BY <1>3, <1>7, <1>9, <1>10, <1>12, <2>1 DEF StatusInv, Waiting
<1> QED BY <1>9, <1>11, <1>13, Zenon DEF DataInv

-------------------------------------------------------------------------------
(* The device                                                                  *)

(* The device moves heads from place to place and leaves requests and chains alone. *)
LEMMA DeviceKeeps ==
  ASSUME ChainInv, PartInv, UNCHANGED <<descs, args, pc, io>>
  PROVE  /\ ChainInv' /\ PartInv'
         /\ \A b \in Buf : Hd(b)' = Hd(b) /\ (Sent(b)' <=> Sent(b))
<1>1. \A b \in Buf : /\ Active(b)' <=> Active(b)
                     /\ pc'[b] # "idle" => pc[b] # "idle"
                     /\ Sent(b)' <=> Sent(b)
  BY DEF Active, Sent
<1> QED BY <1>1, ChainsKept

(* dev_fetch *)
LEMMA FetchStep ==
  ASSUME IInv, dev_fetch
  PROVE  DataInv'
<1>1. /\ fetched # avail_idx /\ flight' = flight \cup {avail[fetched % RING]}
      /\ fetched' = (fetched + 1) % WRAP
      /\ UNCHANGED <<descs, args, pc, io, status, avail, avail_idx, used, used_idx, served, seen>>
  BY DEF dev_fetch, rings
<1>2. ChainInv' /\ PartInv' /\ \A b \in Buf : Hd(b)' = Hd(b) /\ (Sent(b)' <=> Sent(b))
  BY <1>1, DeviceKeeps DEF IInv, DataInv
<1>3. Avail' = Tail(Avail) /\ Head(Avail) = avail[fetched % RING]
  BY <1>1, Fetch, Zenon DEF IInv
<1>4. Avail \in Seq(Desc) /\ Avail # <<>> /\ IsInjective(Avail)
  BY <1>1, RingTypes DEF IInv, DataInv, PlaceInv
<1>5. /\ Head(Avail) \in Announced /\ Announced' = Announced \ {Head(Avail)}
      /\ IsInjective(Avail)'
  BY <1>3, <1>4, TakenEntry DEF Announced
<1>6. Used' = Used /\ Completed' = Completed /\ flight' = flight \cup {Head(Avail)}
  BY <1>1, <1>3, Zenon DEF Used, Completed
<1>7. PlaceInv'
  <2>1. PlaceInv /\ UNCHANGED <<served, Used>>
    BY <1>1, <1>6, Zenon DEF IInv, DataInv
  <2> QED BY <1>2, <1>5, <1>6, <2>1 DEF PlaceInv
<1>8. StatusInv'
  <2>1. StatusInv /\ UNCHANGED <<served, status, pc, io, avail, avail_idx>>
    BY <1>1, Zenon DEF IInv, DataInv
  <2>2. flight' = flight \cup {avail[fetched % RING]}
    BY <1>1, Zenon
  <2> QED BY <1>2, <1>5, <1>6, <2>1, <2>2 DEF StatusInv
<1> QED BY <1>2, <1>7, <1>8 DEF DataInv

(* What the chain of a head in flight tells the device. *)
LEMMA InFlight ==
  ASSUME IInv, NEW h \in flight
  PROVE  \E b \in Buf :
           /\ Sent(b) /\ Active(b) /\ Hd(b) = h /\ h \in Desc
           /\ write[b] \in {"read", "write"} /\ idx[b] # <<>>
           /\ type[h] = write[b] /\ sector[h] = b
           /\ addr[next[h]] = b /\ addr[next[next[h]]] = h
<1>1. PICK b \in Buf : Sent(b) /\ Hd(b) = h
  BY DEF IInv, DataInv, PlaceInv
<1>2. Active(b) /\ pc[b] # "idle"
  BY <1>1 DEF Sent, Active, Waiting
<1>3. Chained(b) /\ write[b] \in {"read", "write"}
  BY <1>2 DEF IInv, DataInv, ChainInv
<1>4. idx[b] # <<>>
  BY <1>3 DEF Chained
<1> QED BY <1>1, <1>2, <1>3, <1>4, Zenon DEF Chained

(* dev_serve *)
LEMMA ServeStep ==
  ASSUME IInv, NEW h \in Desc, dev_serve(h)
  PROVE  DataInv'
<1>1. /\ h \in flight /\ flight' = flight \ {h} /\ served' = served \cup {h}
      /\ status' = [status EXCEPT ![addr[next[next[h]]]] = 0]
      /\ UNCHANGED <<descs, args, pc, io, avail, avail_idx, used, used_idx, fetched, seen>>
  BY Zenon DEF dev_serve, rings
<1>2. ChainInv' /\ PartInv' /\ \A b \in Buf : Hd(b)' = Hd(b) /\ (Sent(b)' <=> Sent(b))
  BY <1>1, DeviceKeeps, Zenon DEF IInv, DataInv
<1>3. PICK b \in Buf : Sent(b) /\ Active(b) /\ Hd(b) = h /\ addr[next[next[h]]] = h
  BY <1>1, InFlight, Zenon
<1>4. status'[h] = 0 /\ \A d \in Desc : d # h => status'[d] = status[d]
  BY <1>1, <1>3 DEF IInv, TypeOK
<1>5. /\ Avail' = Avail /\ Used' = Used /\ Announced' = Announced /\ Completed' = Completed
  BY <1>1, Zenon DEF Avail, Used, Announced, Completed
<1>6. PlaceInv'
  BY <1>1, <1>2, <1>5, Zenon DEF PlaceInv, IInv, DataInv
<1>7. h \notin Announced \cup served \cup Completed
  BY <1>1, Zenon DEF IInv, DataInv, PlaceInv
<1>8. \A c \in Buf : Active(c) /\ c # b => Hd(c) # h
  BY <1>3, OneOwner, Zenon DEF IInv, DataInv
<1>9. \A c \in Buf : c # b => status'[Hd(c)] = status[Hd(c)] \/ ~Active(c)
  BY <1>4, <1>8, Heads, Zenon
<1>10. StatusInv'
  <2>0. StatusInv /\ flight' = flight \ {h} /\ served' = served \cup {h}
    BY <1>1, Zenon DEF IInv, DataInv
  <2>1. /\ \A g \in (Announced \cup flight)' : status'[g] = 255
        /\ \A g \in (served \cup Completed)' : status'[g] = 0
    <3>1. /\ \A g \in Announced \cup flight : status[g] = 255
          /\ \A g \in served \cup Completed : status[g] = 0
      BY <2>0, Zenon DEF StatusInv
    <3>2. \A g \in Announced \cup flight \cup served \cup Completed :
            g # h => status'[g] = status[g]
      BY <1>4, Heads, Zenon
    <3> QED BY <1>4, <1>5, <1>7, <2>0, <3>1, <3>2
  <2>2. ASSUME NEW c \in Buf
        PROVE  /\ pc[c] \in {"ring", "notify"} => io[c] = 1 /\ status'[Hd(c)] = 255
               /\ pc[c] \in Waiting /\ io[c] = 0 => status'[Hd(c)] = 0
               /\ pc[c] = "notify" => avail[avail_idx % RING] = Hd(c)
    <3>1. CASE c = b
      <4>0. pc[c] \in {"wait", "sleep_io", "lock_io"} /\ io[c] = 1
        BY <1>3, <3>1, Zenon DEF Sent, Waiting
      <4>1. /\ pc[c] \in {"wait", "sleep_io", "lock_io"} /\ io[c] # 0
        <5>1. 1 # 0
          OBVIOUS
        <5> QED BY <4>0, <5>1, Zenon
      <4>2. pc[c] # "ring" /\ pc[c] # "notify"
        BY <4>1
      <4> QED BY <4>1, <4>2, Zenon
    <3>2. CASE c # b
      <4>1. /\ pc[c] \in {"ring", "notify"} => io[c] = 1 /\ status[Hd(c)] = 255
            /\ pc[c] \in Waiting /\ io[c] = 0 => status[Hd(c)] = 0
            /\ pc[c] = "notify" => avail[avail_idx % RING] = Hd(c)
        BY <2>0, Zenon DEF StatusInv
      <4>2. status'[Hd(c)] = status[Hd(c)] \/ ~Active(c)
        BY <1>9, <3>2, Zenon
      <4> QED BY <4>1, <4>2 DEF Active, Waiting
    <3> QED BY <3>1, <3>2, Zenon
  <2>3. UNCHANGED <<pc, io, avail, avail_idx>> /\ \A c \in Buf : Hd(c)' = Hd(c)
    BY <1>1, <1>2, Zenon
  <2>4. ASSUME NEW c \in Buf
        PROVE  /\ pc'[c] \in {"ring", "notify"} => io'[c] = 1 /\ status'[Hd(c)'] = 255
               /\ pc'[c] \in Waiting' /\ io'[c] = 0 => status'[Hd(c)'] = 0
               /\ pc'[c] = "notify" => avail'[avail_idx' % RING] = Hd(c)'
    BY <2>2, <2>3 DEF Waiting
  <2> QED BY <2>1, <2>4, Zenon DEF StatusInv
<1> QED BY <1>2, <1>6, <1>10 DEF DataInv

(* dev_used *)
LEMMA UsedStep ==
  ASSUME IInv, NEW h \in Desc, dev_used(h), Len(Used) < RING
  PROVE  DataInv'
<1>1. /\ h \in served /\ served' = served \ {h}
      /\ used' = [used EXCEPT ![used_idx % RING] = h] /\ used_idx' = (used_idx + 1) % WRAP
      /\ UNCHANGED <<descs, args, pc, io, status, avail, avail_idx, fetched, flight, seen>>
  BY DEF dev_used, rings
<1>2. ChainInv' /\ PartInv' /\ \A b \in Buf : Hd(b)' = Hd(b) /\ (Sent(b)' <=> Sent(b))
  BY <1>1, DeviceKeeps, Zenon DEF IInv, DataInv
<1>3. Used \in Seq(Desc) /\ IsInjective(Used) /\ h \notin Range(Used)
  BY <1>1, RingTypes DEF IInv, DataInv, PlaceInv, Completed
<1>7. Used' = Added(Used, h)
  BY <1>1, Complete, Zenon DEF IInv
<1>8. Completed' = Completed \cup {h} /\ IsInjective(Used)'
  BY <1>3, <1>7, AddedEntry DEF Completed
<1>9. Avail' = Avail /\ Announced' = Announced
  BY <1>1, Zenon DEF Avail, Announced
<1>10. PlaceInv'
  BY <1>1, <1>2, <1>8, <1>9, Zenon DEF PlaceInv, IInv, DataInv
<1>11. StatusInv'
  <2>1. StatusInv /\ UNCHANGED <<flight, status, pc, io, avail, avail_idx>>
    BY <1>1, Zenon DEF IInv, DataInv
  <2>2. h \in served /\ served' = served \ {h}
    BY <1>1, Zenon
  <2>3. /\ \A d \in Announced \cup flight : status[d] = 255
        /\ \A d \in served \cup Completed : status[d] = 0
    BY <2>1, Zenon DEF StatusInv
  <2>4. UNCHANGED <<flight, status>> /\ Completed' = Completed \cup {h} /\ Announced' = Announced
    BY <1>8, <1>9, <2>1, Zenon
  <2>5. /\ \A d \in (Announced \cup flight)' : status'[d] = 255
        /\ \A d \in (served \cup Completed)' : status'[d] = 0
    BY <2>2, <2>3, <2>4
  <2> QED BY <1>2, <2>1, <2>5 DEF StatusInv
<1> QED BY <1>2, <1>10, <1>11 DEF DataInv

-------------------------------------------------------------------------------
(* The invariant                                                               *)

(* Ring indices stay in range. *)
LEMMA IndexType ==
  ASSUME NEW w \in 0..(WRAP - 1)
  PROVE  (w + 1) % WRAP \in 0..(WRAP - 1)
<1>1. WRAP \in Nat \ {0}
  BY Sizes
<1> QED BY <1>1, NextIndex, Zenon

(* Every step keeps the types; what the device transfers is the contents of a block. *)
LEMMA TypeStep ==
  ASSUME IInv, [Next]_vars
  PROVE  TypeOK'
<1>0. TypeOK /\ LockInv'
  BY LockStep, Zenon DEF IInv
<1> USE VirtioAssumption
<1>1. ASSUME NEW b \in Buf, NEW k \in {"read", "write"}, call(b, k) PROVE TypeOK'
  BY <1>0, <1>1, Zenon DEF call, Goto, TypeOK, Data, descs, rings, dev
<1>2. ASSUME NEW b \in Buf, acquire(b) \/ rw_wait(b) PROVE TypeOK'
  <2>1. /\ lock' \in Buf \cup {None, "intr"}
        /\ \E l \in {"alloc", "wait", "sleep_io"} : pc' = [pc EXCEPT ![b] = l]
    BY <1>2, Zenon DEF acquire, rw_wait, Goto
  <2>0. pc' \in [Buf -> {"idle", "lock", "alloc", "sleep_desc", "ring", "notify", "wait",
                         "sleep_io", "lock_io"}]
    BY <1>0, <2>1, Zenon DEF TypeOK
  <2>2. UNCHANGED <<store, descs, status, rings, dev, seen, io, args, irq>>
    BY <1>2, Zenon DEF acquire, rw_wait
  <2> QED BY <1>0, <2>0, <2>1, <2>2, Zenon DEF TypeOK, store, descs, rings, dev, args
<1>3. ASSUME NEW b \in Buf, rw_sleep(b) PROVE TypeOK'
  BY <1>0, <1>3, Zenon DEF rw_sleep, WakeAnd, TypeOK, store, descs, rings, dev, args
<1>4. ASSUME NEW b \in Buf, rw_format(b) PROVE TypeOK'
  <2>1. PICK i \in free, j \in free, k \in free :
          /\ alloc3_desc(i, j, k)
          /\ free' = free \ {i, j, k}
          /\ type' = [type EXCEPT ![i] = write[b]]
          /\ sector' = [sector EXCEPT ![i] = b]
          /\ addr' = [addr EXCEPT ![i] = i, ![j] = b, ![k] = i]
          /\ next' = [next EXCEPT ![i] = j, ![j] = k, ![k] = None]
          /\ status' = [status EXCEPT ![i] = 255]
          /\ info' = [info EXCEPT ![i] = b]
          /\ idx' = [idx EXCEPT ![b] = <<i, j, k>>]
    BY <1>4, Zenon DEF rw_format, Recorded
  <2>2. i \in Desc /\ j \in Desc /\ k \in Desc
    BY <1>0, Zenon DEF TypeOK
  <2>3. <<i, j, k>> \in Seq(Desc)
    BY <2>2
  <2>4. idx' \in [Buf -> Seq(Desc)]
    BY <1>0, <2>1, <2>3 DEF TypeOK
  <2>5. /\ addr' \in [Desc -> Desc \cup Buf \cup {None}] /\ next' \in [Desc -> Desc \cup {None}]
        /\ type' \in [Desc -> {"read", "write", None}] /\ sector' \in [Desc -> Buf \cup {None}]
        /\ info' \in [Desc -> Buf \cup {None}] /\ status' \in [Desc -> {0, 255}]
        /\ free' \subseteq Desc
    BY <1>0, <2>1, <2>2, Zenon DEF TypeOK
  <2> QED BY <1>0, <1>4, <2>4, <2>5, Zenon DEF rw_format, Goto, TypeOK, store, rings, dev
<1>5. ASSUME NEW b \in Buf, rw_ring(b) PROVE TypeOK'
  <2>1. idx[b][1] \in Desc
    BY <1>5, HeadType, Zenon DEF rw_ring, Active, Hd, IInv, DataInv
  <2> QED BY <1>0, <1>5, <2>1, Zenon DEF rw_ring, Goto, TypeOK, store, descs, dev, args
<1>6. ASSUME NEW b \in Buf, rw_notify(b) PROVE TypeOK'
  BY <1>0, <1>6, IndexType, Zenon DEF rw_notify, Goto, TypeOK, store, descs, dev, args
<1>7. ASSUME NEW b \in Buf, rw_done(b) PROVE TypeOK'
  <2>1. Active(b)
    BY <1>7, Zenon DEF rw_done, Active, Waiting
  <2>2. Chain(idx[b][1]) \subseteq Desc
    <3>1. Chained(b)
      BY <2>1, Zenon DEF IInv, DataInv, ChainInv
    <3> QED BY <3>1, Zenon DEF Chained, Chain, Hd
  <2>3. <<>> \in Seq(Desc)
    OBVIOUS
  <2>4. idx' \in [Buf -> Seq(Desc)] /\ write' \in [Buf -> {"read", "write", None}]
    BY <1>0, <1>7, <2>3 DEF rw_done, TypeOK
  <2>5. /\ addr' \in [Desc -> Desc \cup Buf \cup {None}] /\ next' \in [Desc -> Desc \cup {None}]
        /\ info' \in [Desc -> Buf \cup {None}] /\ free' \subseteq Desc
    BY <1>0, <1>7, <2>2, ZenonT(60) DEF rw_done, TypeOK
  <2> QED BY <1>0, <1>7, <2>4, <2>5, Zenon DEF rw_done, WakeAnd, TypeOK, store, rings, dev
<1>8. ASSUME intr_enter \/ intr_leave PROVE TypeOK'
  <2>1. lock' \in {None, "intr"} /\ irq' \in {0, irq}
    BY <1>8, Zenon DEF intr_enter, intr_leave
  <2>2. UNCHANGED <<store, descs, status, rings, dev, seen, io, pc, args>>
    BY <1>8, Zenon DEF intr_enter, intr_leave
  <2> QED BY <1>0, <2>1, <2>2, Zenon DEF TypeOK, store, descs, rings, dev, args
<1>9. ASSUME intr_entry PROVE TypeOK'
  BY <1>0, <1>9, IndexType, Zenon DEF intr_entry, TypeOK, store, descs, rings, dev, args
<1>10. ASSUME dev_fetch PROVE TypeOK'
  <2>1. fetched % RING \in Slot
    <3>1. fetched \in Int /\ RING \in Nat \ {0} /\ Slot = 0..(RING - 1)
      BY <1>0, Sizes DEF TypeOK
    <3> QED BY <3>1, Division, Zenon
  <2>2. avail[fetched % RING] \in Desc
    BY <1>0, <2>1 DEF TypeOK
  <2> QED BY <1>0, <1>10, <2>2, IndexType DEF dev_fetch, TypeOK, store, descs, rings, args
<1>11. ASSUME NEW h \in Desc, dev_serve(h) PROVE TypeOK'
  <2>1. PICK b \in Buf : sector[h] = b /\ addr[next[h]] = b
    BY <1>11, InFlight, Zenon DEF dev_serve
  <2>2. disk' \in [Buf -> Data] /\ data' \in [Buf -> Data]
    <3>1. disk \in [Buf -> Data] /\ data \in [Buf -> Data]
      BY <1>0, Zenon DEF TypeOK
    <3>2. /\ disk' \in {disk, [disk EXCEPT ![b] = data[b]]}
          /\ data' \in {data, [data EXCEPT ![b] = disk[b]]}
      BY <1>11, <2>1, Zenon DEF dev_serve
    <3> QED BY <3>1, <3>2
  <2>3. /\ status' \in [Desc -> {0, 255}]
        /\ flight' \subseteq Desc /\ served' \subseteq Desc
    BY <1>0, <1>11, Zenon DEF dev_serve, TypeOK
  <2> QED BY <1>0, <1>11, <2>2, <2>3, Zenon DEF dev_serve, TypeOK, descs, rings, args
<1>12. ASSUME NEW h \in Desc, dev_used(h) PROVE TypeOK'
  BY <1>0, <1>12, IndexType, Zenon DEF dev_used, TypeOK, store, descs, rings, args
<1>13. CASE UNCHANGED vars
  BY <1>0, <1>13, Zenon DEF vars, TypeOK, store, descs, rings, dev, args
<1> QED BY <1>1, <1>2, <1>3, <1>4, <1>5, <1>6, <1>7, <1>8, <1>9, <1>10, <1>11, <1>12, <1>13
        DEF Next, Request, Intr, Device

\* What the block device sees of a request.
ReqOf(b) == IF pc[b] = "idle" THEN "none" ELSE IF Served(b) THEN "done" ELSE write[b]
Reqs == [b \in Buf |-> ReqOf(b)]

(* The request of one buffer changes. *)
LEMMA OneReq ==
  ASSUME NEW b \in Buf, NEW v, ReqOf(b)' = v, \A c \in Buf : c # b => ReqOf(c)' = ReqOf(c)
  PROVE  Reqs' = [Reqs EXCEPT ![b] = v]
BY Zenon DEF Reqs

(* Steps that neither begin nor end a request, nor carry it out. *)
LEMMA SameReqs ==
  ASSUME UNCHANGED <<disk, data, status, idx, write>>,
         \A c \in Buf : pc'[c] = "idle" <=> pc[c] = "idle"
  PROVE  UNCHANGED <<disk, data>> /\ Reqs' = Reqs
BY DEF Reqs, ReqOf, Served

(* Every step is one of the block device, or none. *)
LEMMA Simulation ==
  ASSUME IInv, [Next]_vars
  PROVE  [Blocks!Next]_(Blocks!vars)
<1>0. /\ pc \in [Buf -> {"idle", "lock", "alloc", "sleep_desc", "ring", "notify"} \cup Waiting]
      /\ TypeOK /\ DataInv
      /\ \A b \in Buf : Active(b) <=> idx[b] # <<>>
      /\ \A b \in Buf : pc[b] # "idle" => write[b] \in {"read", "write"}
  <2>1. /\ pc \in [Buf -> {"idle", "lock", "alloc", "sleep_desc", "ring", "notify"} \cup Waiting]
        /\ TypeOK /\ DataInv /\ ChainInv
    BY Zenon DEF IInv, LockInv, DataInv
  <2>2. ASSUME NEW b \in Buf, Active(b) PROVE idx[b] # <<>>
    <3>1. idx[b] = <<Hd(b), Md(b), Tl(b)>>
      BY <2>1, <2>2, Zenon DEF ChainInv, Chained
    <3> QED BY <3>1
  <2> QED BY <2>1, <2>2, Zenon DEF ChainInv
<1>1. ASSUME UNCHANGED <<disk, data>>, Reqs' = Reqs PROVE UNCHANGED Blocks!vars
  BY <1>1 DEF Blocks!vars, Reqs, ReqOf
<1>2. ASSUME NEW b \in Buf, NEW k \in {"read", "write"}, call(b, k) PROVE Blocks!Next
  <2> DEFINE v == IF k = "write" THEN b ELSE None
  <2>1. /\ pc[b] = "idle" /\ pc' = [pc EXCEPT ![b] = "lock"]
        /\ write' = [write EXCEPT ![b] = k] /\ data' = [data EXCEPT ![b] = v] /\ disk' = disk
        /\ UNCHANGED <<status, idx>>
    BY <1>2 DEF call, Goto
  <2>2. ~Served(b)' /\ ReqOf(b) = "none"
    BY <1>0, <2>1, Zenon DEF Served, ReqOf, Active, Waiting
  <2>3. ReqOf(b)' = k /\ \A c \in Buf : c # b => ReqOf(c)' = ReqOf(c)
    BY <1>0, <2>1, <2>2 DEF ReqOf, Served, TypeOK
  <2>4. Reqs' = [Reqs EXCEPT ![b] = k]
    BY <2>3, OneReq
  <2>5. v \in Data
    BY DEF Data
  <2>6. Blocks!Ask(b, k, v)
    BY <2>1, <2>2, <2>4 DEF Blocks!Ask, Reqs, ReqOf
  <2> QED BY <2>5, <2>6 DEF Blocks!Next
<1>3. ASSUME NEW b \in Buf, acquire(b) \/ rw_ring(b) \/ rw_notify(b) \/ rw_wait(b)
      PROVE  UNCHANGED Blocks!vars
  <2>1. /\ UNCHANGED <<disk, data, status, idx, write>>
        /\ \A c \in Buf : pc'[c] = "idle" <=> pc[c] = "idle"
    BY <1>0, <1>3, Zenon DEF acquire, rw_ring, rw_notify, rw_wait, Goto, store, args
  <2> QED BY <1>1, <2>1, SameReqs, Zenon
<1>4. ASSUME NEW b \in Buf, rw_sleep(b) PROVE UNCHANGED Blocks!vars
  <2>1. /\ UNCHANGED <<disk, data, status, idx, write>>
        /\ \A c \in Buf : pc'[c] = "idle" <=> pc[c] = "idle"
    BY <1>0, <1>4 DEF rw_sleep, WakeAnd, ForDesc, store, args
  <2> QED BY <1>1, <2>1, SameReqs
<1>5. ASSUME NEW b \in Buf, rw_format(b) PROVE UNCHANGED Blocks!vars
  <2>1. PICK i \in free, j \in free, k \in free :
          /\ alloc3_desc(i, j, k)
          /\ free' = free \ {i, j, k}
          /\ type' = [type EXCEPT ![i] = write[b]]
          /\ sector' = [sector EXCEPT ![i] = b]
          /\ addr' = [addr EXCEPT ![i] = i, ![j] = b, ![k] = i]
          /\ next' = [next EXCEPT ![i] = j, ![j] = k, ![k] = None]
          /\ status' = [status EXCEPT ![i] = 255]
          /\ info' = [info EXCEPT ![i] = b]
          /\ idx' = [idx EXCEPT ![b] = <<i, j, k>>]
    BY <1>5, Zenon DEF rw_format, Recorded
  <2>2. /\ pc[b] = "alloc" /\ pc' = [pc EXCEPT ![b] = "ring"]
        /\ UNCHANGED <<disk, data, write>>
    BY <1>5, Zenon DEF rw_format, Goto, store
  <2>3. /\ idx'[b][1] = i /\ status'[i] = 255 /\ i \in Desc
        /\ \A c \in Buf : c # b => idx'[c] = idx[c]
        /\ \A d \in Desc : d # i => status'[d] = status[d]
    <3>1. idx \in [Buf -> Seq(Desc)] /\ DOMAIN status = Desc /\ free \subseteq Desc
      BY <1>0, Zenon DEF TypeOK
    <3>2. /\ i \in free /\ status' = [status EXCEPT ![i] = 255]
          /\ idx' = [idx EXCEPT ![b] = <<i, j, k>>]
      BY <2>1, Zenon
    <3> HIDE <2>1
    <3> QED BY <3>1, <3>2
  <2>4. \A c \in Buf : Active(c) => idx[c][1] # i
    <3>1. i \in free /\ PartInv
      BY <1>0, <2>1, Zenon DEF DataInv
    <3>2. i \in Desc
      BY <2>3, Zenon
    <3>3. \A c \in Buf : Active(c) => i \notin Parts(c)
      BY <3>1, <3>2 DEF PartInv
    <3> QED BY <3>3 DEF Parts, Hd
  <2>5. ~Active(b)
    BY <2>2, Zenon DEF Active, Waiting
  <2>6. ~Served(b) /\ ~Served(b)' /\ \A c \in Buf : c # b => Served(c)' = Served(c)
    BY <1>0, <2>3, <2>4, <2>5, Heads DEF Served, Hd
  <2>7. \A c \in Buf : ReqOf(c)' = ReqOf(c)
    BY <1>0, <2>2, <2>6 DEF ReqOf
  <2> QED BY <1>1, <2>2, <2>7 DEF Reqs
<1>6. ASSUME NEW b \in Buf, rw_done(b) PROVE Blocks!Next
  <2>1. /\ pc[b] = "wait" /\ io[b] = 0 /\ pc'[b] = "idle"
        /\ \A c \in Buf : c # b => pc'[c] = IF pc[c] = "sleep_desc" THEN "lock" ELSE pc[c]
        /\ UNCHANGED <<disk, data, status>>
    BY <1>0, <1>6, Zenon DEF rw_done, Pending, WakeAnd, ForDesc, store, TypeOK
  <2>0. \A c \in Buf : c # b => idx'[c] = idx[c] /\ write'[c] = write[c]
    BY <1>0, <1>6, Zenon DEF rw_done, TypeOK
  <2>2. Active(b) /\ status[idx[b][1]] = 0
    <3>1. pc[b] \in Waiting /\ Active(b)
      BY <2>1, Zenon DEF Active, Waiting
    <3>2. status[Hd(b)] = 0
      BY <1>0, <2>1, <3>1, ZenonT(60) DEF DataInv, StatusInv
    <3> QED BY <3>1, <3>2, Zenon DEF Hd
  <2>3. ReqOf(b) = "done" /\ ReqOf(b)' = "none"
    BY <1>0, <2>1, <2>2, Zenon DEF ReqOf, Served
  <2>4. \A c \in Buf : c # b => ReqOf(c)' = ReqOf(c)
    BY <2>0, <2>1, Zenon DEF ReqOf, Served
  <2>5. Reqs' = [Reqs EXCEPT ![b] = "none"]
    BY <2>3, <2>4, OneReq
  <2>6. Blocks!Return(b)
    BY <2>1, <2>3, <2>5, Zenon DEF Blocks!Return, Reqs, ReqOf
  <2> QED BY <2>6, Zenon DEF Blocks!Next
<1>7. ASSUME Intr PROVE UNCHANGED Blocks!vars
  <2>1. /\ UNCHANGED <<disk, data, status, idx, write>>
        /\ \A c \in Buf : pc'[c] = "idle" <=> pc[c] = "idle"
    BY <1>0, <1>7 DEF Intr, intr_enter, intr_entry, intr_leave, store, args
  <2> QED BY <1>1, <2>1, SameReqs
<1>8. ASSUME dev_fetch \/ \E h \in Desc : dev_used(h) PROVE UNCHANGED Blocks!vars
  <2>1. /\ UNCHANGED <<disk, data, status, idx, write>>
        /\ \A c \in Buf : pc'[c] = "idle" <=> pc[c] = "idle"
    BY <1>8, Zenon DEF dev_fetch, dev_used, store, args
  <2> QED BY <1>1, <2>1, SameReqs
<1>9. ASSUME NEW h \in Desc, dev_serve(h) PROVE Blocks!Next
  <2>1. PICK b \in Buf :
           /\ Sent(b) /\ Active(b) /\ Hd(b) = h
           /\ write[b] \in {"read", "write"} /\ idx[b] # <<>>
           /\ type[h] = write[b] /\ sector[h] = b
           /\ addr[next[h]] = b /\ addr[next[next[h]]] = h
    BY <1>9, InFlight, Zenon DEF dev_serve
  <2>2. /\ h \in flight
        /\ disk' = IF write[b] = "write" THEN [disk EXCEPT ![b] = data[b]] ELSE disk
        /\ data' = IF write[b] = "read" THEN [data EXCEPT ![b] = disk[b]] ELSE data
        /\ status' = [status EXCEPT ![h] = 0]
        /\ UNCHANGED <<pc, idx, write>>
    BY <1>9, <2>1, Zenon DEF dev_serve, args
  <2>3. status[h] = 255 /\ status'[h] = 0 /\ \A d \in Desc : d # h => status'[d] = status[d]
    <3>1. status[h] = 255 /\ DOMAIN status = Desc /\ h \in Desc
      <4>1. (\A d \in Announced \cup flight : status[d] = 255) /\ status \in [Desc -> {0, 255}]
        BY <1>0, Zenon DEF DataInv, StatusInv, TypeOK
      <4> QED BY <2>1, <2>2, <4>1, Zenon
    <3>2. status' = [status EXCEPT ![h] = 0]
      BY <2>2, Zenon
    <3> QED BY <3>1, <3>2, Zenon
  <2>4. pc[b] # "idle"
    BY <2>1, Zenon DEF Active, Waiting
  <2>5. ReqOf(b) = write[b] /\ ReqOf(b)' = "done"
    <3>1. 255 # 0
      OBVIOUS
    <3>2. idx[b][1] = h /\ idx[b] # <<>> /\ status[h] # 0
      BY <2>1, <2>3, <3>1, Zenon DEF Hd
    <3> QED BY <2>2, <2>3, <2>4, <3>2, Zenon DEF ReqOf, Served
  <2>6. \A c \in Buf : c # b /\ Active(c) => idx[c][1] # h
    BY <1>0, <2>1, OneOwner, Zenon DEF DataInv, Hd
  <2>7. \A c \in Buf : c # b => ReqOf(c)' = ReqOf(c)
    <3>1. ASSUME NEW c \in Buf, c # b PROVE Served(c)' <=> Served(c)
      <4>1. idx[c] # <<>> => status'[idx[c][1]] = status[idx[c][1]]
        <5>1. idx[c] # <<>> => idx[c][1] # h /\ idx[c][1] \in Desc
          BY <1>0, <2>6, <3>1, Heads, Zenon DEF Hd
        <5>2. \A d \in Desc : d # h => status'[d] = status[d]
          BY <2>3, Zenon
        <5> QED BY <5>1, <5>2, Zenon
      <4> QED BY <2>2, <4>1, Zenon DEF Served
    <3> QED BY <2>2, <3>1, Zenon DEF ReqOf
  <2>8. Reqs' = [Reqs EXCEPT ![b] = "done"]
    BY <2>5, <2>7, OneReq, Zenon
  <2>9. Blocks!Carry(b)
    BY <2>1, <2>2, <2>5, <2>8, Zenon DEF Blocks!Carry, Reqs, ReqOf
  <2> QED BY <2>9 DEF Blocks!Next
<1>10. CASE UNCHANGED vars
  <2>1. /\ UNCHANGED <<disk, data, status, idx, write>>
        /\ \A c \in Buf : pc'[c] = "idle" <=> pc[c] = "idle"
    BY <1>10 DEF vars, store, args
  <2> QED BY <1>1, <2>1, SameReqs
<1> QED BY <1>2, <1>3, <1>4, <1>5, <1>6, <1>7, <1>8, <1>9, <1>10, Zenon DEF Next, Request, Device

-------------------------------------------------------------------------------
(* The first state, and the descriptors                                        *)

(* The invariant holds after virtio_disk_init(). *)
LEMMA InitInv ==
  ASSUME Init
  PROVE  IInv
<1> USE VirtioAssumption
<1>1. TypeOK
  <2>1. 0 \in 0..(WRAP - 1) /\ 0 \in Desc /\ <<>> \in Seq(Desc)
    BY Sizes DEF Desc
  <2> QED BY <2>1, Zenon DEF Init, TypeOK, Data
<1>2. Avail = <<>> /\ Used = <<>> /\ Announced = {} /\ Completed = {}
  <2>1. Avail = <<>> /\ Used = <<>>
    BY <1>1, RingTypes DEF Init
  <2>2. Range(<<>>) = {}
    BY DEF Range
  <2> QED BY <2>1, <2>2, Zenon DEF Announced, Completed
<1>3. LockInv
  BY Zenon DEF Init, LockInv
<1>4. ChainInv /\ PartInv
  BY Zenon DEF Init, ChainInv, PartInv, Active, Waiting
<1>5. PlaceInv
  BY <1>2 DEF Init, PlaceInv, IsInjective
<1>6. StatusInv
  BY <1>2 DEF Init, StatusInv, Waiting
<1> QED BY <1>1, <1>3, <1>4, <1>5, <1>6, Zenon DEF IInv, DataInv

(* The descriptors of a request, counted out. *)
LEMMA OwnIs ==
  ASSUME ChainInv, NEW b \in Buf
  PROVE  /\ Active(b) => Own(b) = Parts(b)
         /\ ~Active(b) => Own(b) = {}
<1>1. ASSUME Active(b) PROVE Own(b) = Parts(b)
  <2>1. idx[b] = <<Hd(b), Md(b), Tl(b)>>
    BY <1>1, Zenon DEF ChainInv, Chained
  <2>2. Len(idx[b]) = 3 /\ 1..3 = {1, 2, 3}
    BY <2>1
  <2> QED BY <2>2, Zenon DEF Own, Parts, Hd, Md, Tl
<1>2. ASSUME ~Active(b) PROVE Own(b) = {}
  <2>1. idx[b] = <<>>
    BY <1>2 DEF ChainInv
  <2>2. Len(idx[b]) = 0 /\ 1..0 = {}
    BY <2>1
  <2> QED BY <2>2 DEF Own
<1> QED BY <1>1, <1>2

(* Chains partition the descriptors that are not free. *)
LEMMA ChainsPartition ==
  ASSUME IInv
  PROVE  DescriptorsPartition
<1>1. \A b \in Buf : (Active(b) => Own(b) = Parts(b)) /\ (~Active(b) => Own(b) = {})
  BY OwnIs, Zenon DEF IInv, DataInv
<1>2. free = Desc \ UNION {Own(b) : b \in Buf}
  <2>1. free \subseteq Desc
    BY DEF IInv, TypeOK
  <2>2. \A d \in Desc : d \in free <=> \A b \in Buf : d \notin Own(b)
    BY <1>1 DEF IInv, DataInv, PartInv
  <2> QED BY <2>1, <2>2, Zenon
<1>3. \A b, c \in Buf : b # c => Own(b) \cap Own(c) = {}
  BY <1>1 DEF IInv, DataInv, PartInv
<1>4. ASSUME NEW h \in flight \cup served
      PROVE  \E b \in Buf : idx[b] # <<>> /\ idx[b][1] = h
  <2>1. PICK b \in Buf : Sent(b) /\ Hd(b) = h
    BY DEF IInv, DataInv, PlaceInv
  <2>2. Active(b)
    BY <2>1, Zenon DEF Sent, Active
  <2>3. idx[b] # <<>>
    <3>1. Chained(b)
      BY <2>2, Zenon DEF IInv, DataInv, ChainInv
    <3> QED BY <3>1 DEF Chained
  <2> QED BY <2>1, <2>3 DEF Hd
<1> QED BY <1>2, <1>3, <1>4 DEF DescriptorsPartition

-------------------------------------------------------------------------------
(* Rings never overflow                                                        *)

\* The entries of a ring are the heads of requests under way, each of another one, and none
\* of them is that of b.
Others(q, b) ==
  /\ q \in Seq(Desc)
  /\ \A k, l \in 1..Len(q) : q[k] = q[l] => k = l
  /\ \A k \in 1..Len(q) : q[k] # Hd(b) /\ \E c \in Buf : Active(c) /\ Hd(c) = q[k]

(* Distinct entries, given as a set. *)
LEMMA SetOfOthers ==
  ASSUME NEW q \in Seq(Desc), IsInjective(q), NEW b \in Buf, Hd(b) \notin Range(q),
         \A h \in Range(q) : \E c \in Buf : Active(c) /\ Hd(c) = h
  PROVE  Others(q, b)
<1>1. DOMAIN q = 1..Len(q) /\ \A k \in 1..Len(q) : q[k] \in Range(q)
  BY DEF Range
<1>2. \A k, l \in 1..Len(q) : q[k] = q[l] => k = l
  BY <1>1, Zenon DEF IsInjective
<1> QED BY <1>1, <1>2 DEF Others

(* In the avail ring are other requests than the one that rw_ring() adds. *)
LEMMA AvailOthers ==
  ASSUME IInv, NEW b \in Buf, Active(b), ~Sent(b)
  PROVE  Others(Avail, b)
<1>1. Hd(b) \notin Range(Avail)
  BY Nowhere DEF IInv, DataInv, Announced
<1>2. \A h \in Range(Avail) : \E c \in Buf : Active(c) /\ Hd(c) = h
  BY DEF IInv, DataInv, PlaceInv, Announced, Sent, Active
<1>3. Avail \in Seq(Desc) /\ IsInjective(Avail)
  BY RingTypes DEF IInv, DataInv, PlaceInv
<1> QED BY <1>1, <1>2, <1>3, SetOfOthers

(* In the used ring are other requests than the one that dev_used() adds. *)
LEMMA UsedOthers ==
  ASSUME IInv, NEW h \in served
  PROVE  \E b \in Buf : Active(b) /\ Others(Used, b)
<1>1. PICK b \in Buf : Active(b) /\ Hd(b) = h
  BY Zenon DEF IInv, DataInv, PlaceInv, Sent, Active
<1>2. \A g \in Range(Used) : \E c \in Buf : Active(c) /\ Hd(c) = g
  BY DEF IInv, DataInv, PlaceInv, Completed, Sent, Active
<1>3. Used \in Seq(Desc) /\ IsInjective(Used) /\ h \notin Range(Used)
  BY RingTypes DEF IInv, DataInv, PlaceInv, Completed
<1>4. Others(Used, b)
  BY <1>1, <1>2, <1>3, SetOfOthers
<1> QED BY <1>1, <1>4

\* Facts about finite sets, for what follows.
LOCAL INSTANCE FiniteSetTheorems

(* The requests that are under way have three descriptors each, so that a ring is never
   full when one of them adds its head. *)
LEMMA RoomInRing ==
  ASSUME ChainInv, PartInv, NEW q, NEW b \in Buf, Active(b), Others(q, b)
  PROVE  Len(q) < RING
<1> DEFINE n == Len(q)
           Owner(k) == IF k = 0 THEN b ELSE CHOOSE c \in Buf : Active(c) /\ Hd(c) = q[k]
           D == (0..n) \X (1..3)
           F == [x \in D |-> idx[Owner(x[1])][x[2]]]
<1>1. /\ n \in Nat /\ q \in Seq(Desc)
      /\ \A k \in 1..n : q[k] # Hd(b) /\ \E c \in Buf : Active(c) /\ Hd(c) = q[k]
      /\ \A k, l \in 1..n : q[k] = q[l] => k = l
  BY DEF Others
<1>2. ASSUME NEW k \in 0..n
      PROVE  /\ Owner(k) \in Buf /\ Active(Owner(k))
             /\ k # 0 => Hd(Owner(k)) = q[k]
             /\ k = 0 => Owner(k) = b
  <2>1. CASE k = 0
    BY <2>1
  <2>2. CASE k # 0
    <3>1. k \in 1..n
      BY <1>1, <2>2
    <3>2. \E c \in Buf : Active(c) /\ Hd(c) = q[k]
      BY <1>1, <3>1
    <3> QED BY <2>2, <3>2
  <2> QED BY <2>1, <2>2
<1> HIDE DEF Owner
<1>3. ASSUME NEW k \in 0..n, NEW l \in 0..n, Owner(k) = Owner(l) PROVE k = l
  <2>1. CASE k = 0 \/ l = 0
    BY <1>1, <1>2, <1>3, <2>1
  <2>2. CASE k # 0 /\ l # 0
    <3>1. k \in 1..n /\ l \in 1..n /\ q[k] = q[l]
      BY <1>1, <1>2, <1>3, <2>2
    <3> QED BY <1>1, <3>1
  <2> QED BY <2>1, <2>2
<1>4. ASSUME NEW c \in Buf, Active(c), NEW i \in 1..3
      PROVE  /\ idx[c][i] \in Desc /\ idx[c][i] \in Parts(c)
             /\ \A j \in 1..3 : idx[c][i] = idx[c][j] => i = j
  <2>1. Chained(c)
    BY <1>4 DEF ChainInv
  <2>2. \A j \in 1..3 : j = 1 \/ j = 2 \/ j = 3
    OBVIOUS
  <2> QED BY <2>1, <2>2, Zenon DEF Chained, Parts, Hd, Md, Tl
<1>5. F \in [D -> Desc]
  BY <1>2, <1>4
<1>6. ASSUME NEW x \in D, NEW y \in D, F[x] = F[y] PROVE x = y
  <2>1. /\ x = <<x[1], x[2]>> /\ y = <<y[1], y[2]>>
        /\ x[1] \in 0..n /\ y[1] \in 0..n /\ x[2] \in 1..3 /\ y[2] \in 1..3
        /\ idx[Owner(x[1])][x[2]] = idx[Owner(y[1])][y[2]]
    BY <1>6
  <2>2. /\ Owner(x[1]) \in Buf /\ Active(Owner(x[1]))
        /\ Owner(y[1]) \in Buf /\ Active(Owner(y[1]))
    BY <1>2, <2>1, Zenon
  <2>3. /\ idx[Owner(x[1])][x[2]] \in Parts(Owner(x[1]))
        /\ idx[Owner(y[1])][y[2]] \in Parts(Owner(y[1]))
    BY <1>4, <2>1, <2>2, Zenon
  <2>4. Owner(x[1]) = Owner(y[1])
    BY <2>1, <2>2, <2>3, Zenon DEF PartInv
  <2>5. x[1] = y[1]
    BY <1>3, <2>1, <2>4, Zenon
  <2>6. x[2] = y[2]
    BY <1>4, <2>1, <2>2, <2>4
  <2> QED BY <2>1, <2>5, <2>6, Zenon
<1>7. F \in Injection(D, Desc)
  <2> HIDE DEF F, D
  <2> QED BY <1>5, <1>6 DEF Injection, IsInjective
<1> HIDE DEF F, n
<1>8. /\ IsFiniteSet(0..n) /\ Cardinality(0..n) = n + 1
      /\ IsFiniteSet(1..3) /\ Cardinality(1..3) = 3
      /\ IsFiniteSet(Desc) /\ Cardinality(Desc) = NUM
  <2>1. IsFiniteSet(0..n) /\ Cardinality(0..n) = IF 0 > n THEN 0 ELSE n - 0 + 1
    BY <1>1, FS_Interval
  <2>2. IsFiniteSet(1..3) /\ Cardinality(1..3) = IF 1 > 3 THEN 0 ELSE 3 - 1 + 1
    <3>1. 1 \in Int /\ 3 \in Int
      OBVIOUS
    <3> QED BY <3>1, FS_Interval, Zenon
  <2> DEFINE m == NUM - 1
  <2>3. m \in Nat
    BY VirtioAssumption
  <2> HIDE DEF m
  <2>4. IsFiniteSet(0..m) /\ Cardinality(0..m) = IF 0 > m THEN 0 ELSE m - 0 + 1
    BY <2>3, FS_Interval
  <2>5. Desc = 0..m /\ NUM = m + 1
    BY VirtioAssumption DEF Desc, m
  <2> QED BY <1>1, <2>1, <2>2, <2>3, <2>4, <2>5
<1>9. Cardinality(D) = (n + 1) * 3
  <2>1. Cardinality(D) = Cardinality(0..n) * Cardinality(1..3)
    BY <1>8, FS_Product, Zenon
  <2> QED BY <1>8, <2>1
<1> HIDE DEF D
<1>10. Cardinality(D) <= Cardinality(Desc)
  BY <1>7, <1>8, FS_Injection
<1>11. n < RING
  BY <1>1, <1>8, <1>9, <1>10, VirtioAssumption
<1> QED BY <1>11 DEF n

-------------------------------------------------------------------------------
(* The invariant, and what follows from it                                     *)

(* Every step keeps chains, places and status bytes right. *)
LEMMA DataStep ==
  ASSUME IInv, [Next]_vars
  PROVE  DataInv'
<1>0. /\ pc \in [Buf -> {"idle", "lock", "alloc", "sleep_desc", "ring", "notify"} \cup Waiting]
      /\ write \in [Buf -> {"read", "write", None}]
      /\ \A b \in Buf : pc[b] # "idle" => write[b] \in {"read", "write"}
      /\ DataInv
  BY Zenon DEF IInv, TypeOK, LockInv, DataInv, ChainInv
<1>1. ASSUME NEW b \in Buf, NEW k \in {"read", "write"}, call(b, k) PROVE DataInv'
  BY <1>0, <1>1, StillStep, Zenon DEF call, Goto, Active, Waiting
<1>2. ASSUME NEW b \in Buf, acquire(b) \/ rw_wait(b) PROVE DataInv'
  BY <1>0, <1>2, StillStep DEF acquire, rw_wait, Goto, args, Waiting
<1>3. ASSUME NEW b \in Buf, rw_sleep(b) PROVE DataInv'
  <2>1. /\ pc[b] = "alloc" /\ pc'[b] = "sleep_desc"
        /\ \A c \in Buf : c # b => pc'[c] = pc[c] \/ (pc[c] = "sleep_desc" /\ pc'[c] = "lock")
        /\ UNCHANGED <<descs, status, rings, dev, seen, io, write, idx>>
    BY <1>3, Zenon DEF rw_sleep, WakeAnd, ForDesc, args
  <2> QED BY <1>0, <2>1, StillStep, Zenon DEF Waiting
<1>4. ASSUME intr_enter \/ intr_leave PROVE DataInv'
  BY <1>0, <1>4, StillStep, Zenon DEF intr_enter, intr_leave, args
<1>5. CASE UNCHANGED vars
  BY <1>0, <1>5, StillStep, Zenon DEF vars, args
<1>6. ASSUME NEW b \in Buf, rw_ring(b) \/ rw_notify(b) PROVE DataInv'
  <2>1. Active(b) /\ ~Sent(b)
    BY <1>6 DEF rw_ring, rw_notify, Active, Sent, Waiting
  <2> QED BY <1>6, <2>1, AvailOthers, RoomInRing, RingStep, NotifyStep, Zenon DEF IInv, DataInv
<1>7. ASSUME NEW h \in Desc, dev_used(h) PROVE DataInv'
  <2>1. h \in served
    BY <1>7 DEF dev_used
  <2> QED BY <1>7, <2>1, UsedOthers, RoomInRing, UsedStep DEF IInv, DataInv
<1> QED BY <1>1, <1>2, <1>3, <1>4, <1>5, <1>6, <1>7, FormatStep, DoneStep, EntryStep, FetchStep,
           ServeStep, Zenon
        DEF Next, Request, Intr, Device

(* The invariant holds of every behaviour. *)
LEMMA Invariance == Spec => []IInv
<1>1. Init => IInv
  BY InitInv
<1>2. IInv /\ [Next]_vars => IInv'
  BY TypeStep, LockStep, DataStep DEF IInv
<1> QED BY <1>1, <1>2, PTL DEF Spec

(* alloc3_desc() and free_chain() keep every descriptor free or in the chain of one request,
   and what the device works on is the head of a request in progress: free_desc() never
   panics, none leaks, and none is handed out again under the device. *)
THEOREM DescriptorsAreKept == Spec => []DescriptorsPartition
<1>1. IInv => DescriptorsPartition
  BY ChainsPartition
<1> QED BY <1>1, Invariance, PTL

(* The driver and the device together implement BlockDevice: every request of
   virtio_disk_rw() is carried out once, on its own buffer and block, before it returns. *)
THEOREM RequestsAreCarriedOut == Spec => OncePerRequest
<1>1. Init => Blocks!Init
  BY VirtioAssumption DEF Init, Blocks!Init, Data
<1>2. IInv /\ [Next]_vars => [Blocks!Next]_(Blocks!vars)
  BY Simulation
<1> QED BY <1>1, <1>2, Invariance, PTL DEF Spec, OncePerRequest, Blocks!Spec
===============================================================================
