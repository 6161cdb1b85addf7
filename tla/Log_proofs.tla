------------------------------ MODULE Log_proofs ------------------------------
(***************************************************************************)
(* Proofs about Log: its type invariant, that commits happen only while no *)
(* system call is active, that the cache never loses a logged block, that  *)
(* the log implements TransactionDisk, and that it never overflows.        *)
(***************************************************************************)
EXTENDS Log, FiniteSetTheorems, TLAPS

\* The log never outgrows its header, and the loop counter is a valid index
\* wherever a loop body reads lh[tail].
LenInv == Len(lh) <= LOGSIZE /\ Len(hdr) <= LOGSIZE

TailInv ==
  \A p \in Proc : pc[p] \in {"write_log", "write_head", "install"} => tail \in 1..Len(lh)

BootTailInv == boot = "install" => tail \in 1..Len(lh)

\* The bookkeeping of begin_op() and end_op().
QuietInv ==
  /\ outstanding = Cardinality(Running)
  /\ \A p \in Proc : pc[p] \in CommitPC => committing = 1 /\ Running = {}
  /\ \A p, q \in Proc : pc[p] \in CommitPC /\ pc[q] \in CommitPC => p = q
  /\ committing = 1 => \E p \in Proc : pc[p] \in CommitPC
  /\ boot # "up" => \A p \in Proc : pc[p] = "idle"

\* What is where on disk, in the log and in the cache, phase by phase.
Injective(s) == \A i, j \in 1..Len(s) : s[i] = s[j] => i = j

DiskInv ==
  /\ Injective(hdr)
  /\ \A i \in 1..Len(hdr) : dlog[i] \in Data
  /\ \A b \in Block : b \notin Elems(hdr) => disk[b] \in Data

BootInv ==
  /\ boot # "up" => pinned = {} /\ \A b \in Block : cache[b] \in {NoBuf, disk[b]}
  /\ boot = "read_head" => \A b \in Block : cache[b] = NoBuf
  /\ boot \in {"install", "erase"} => lh = hdr
  /\ boot = "install" => \A i \in 1..(tail - 1) : disk[hdr[i]] = dlog[i]
  /\ boot = "erase" => \A i \in 1..Len(hdr) : disk[hdr[i]] = dlog[i]

Installed(p) == pc[p] \in {"install", "erase"}

CacheInv ==
  /\ Injective(lh)
  /\ \A b \in pinned : cache[b] \in Data
  /\ \A b \in Block : b \notin pinned => cache[b] \in {NoBuf, disk[b]}
  /\ (\A p \in Proc : ~Installed(p)) => hdr = <<>> /\ pinned = Elems(lh)

CommitAt(p) ==
  /\ pc[p] = "write_log"  => \A i \in 1..(tail - 1) : dlog[i] = cache[lh[i]]
  /\ pc[p] = "write_head" => tail = 1 /\ \A i \in 1..Len(lh) : dlog[i] = cache[lh[i]]
  /\ Installed(p) => hdr = lh
  /\ pc[p] = "install" =>
       /\ pinned = {lh[i] : i \in tail..Len(lh)}
       /\ \A i \in 1..(tail - 1) : disk[lh[i]] = dlog[i]
       /\ \A i \in tail..Len(lh) : dlog[i] = cache[lh[i]]
  /\ pc[p] = "erase" => pinned = {} /\ \A i \in 1..Len(lh) : disk[lh[i]] = dlog[i]
  /\ pc[p] = "end_op" => lh = <<>>

CommitInv == \A p \in Proc : CommitAt(p)

IdleInv == outstanding = 0 /\ committing = 0 /\ boot = "up" => lh = <<>>

DataInv ==
  /\ DiskInv
  /\ BootInv
  /\ boot = "up" => CacheInv /\ CommitInv
  /\ IdleInv

TypeInv == TypeOK /\ LenInv /\ TailInv /\ BootTailInv

IInv == TypeInv /\ QuietInv /\ DataInv

-------------------------------------------------------------------------------
\* LOGSIZE (param.h:10) is a positive number.
LEMMA LogSizeNat == LOGSIZE \in Nat /\ LOGSIZE >= 3
BY LogAssumption DEF LOGSIZE

\* The empty log header is a sequence of blocks.
LEMMA EmptySeq == <<>> \in Seq(Block) /\ Len(<<>>) = 0
OBVIOUS

\* Each entry of a log header is a block.
LEMMA SeqIndex ==
  ASSUME NEW s \in Seq(Block)
  PROVE  Len(s) \in Nat /\ \A i \in 1..Len(s) : s[i] \in Block
OBVIOUS

\* What appending one block to the header gives.
LEMMA AppendIs ==
  ASSUME NEW s \in Seq(Block), NEW b \in Block
  PROVE  /\ Append(s, b) \in Seq(Block)
         /\ Len(Append(s, b)) = Len(s) + 1
         /\ \A i \in 1..Len(s) : Append(s, b)[i] = s[i]
         /\ Append(s, b)[Len(s) + 1] = b
OBVIOUS

\* Switching the machine on gives well-typed memory.
LEMMA RebootType ==
  ASSUME IInv, Reboot,
         disk' \in [Block -> Contents], dlog' \in [Slot -> Contents], hdr' = hdr
  PROVE  TypeOK' /\ LenInv'
BY LogSizeNat, EmptySeq DEF IInv, TypeInv, TypeOK, LenInv, Reboot

\* Every step keeps the types and the length of the log.
LEMMA TypeStep ==
  ASSUME IInv, [Next]_vars
  PROVE  TypeOK' /\ LenInv'
<1> USE LogSizeNat, EmptySeq DEF IInv, TypeInv, TypeOK, LenInv, Contents, Slot
<1>0. /\ Len(lh) \in Nat /\ \A i \in 1..Len(lh) : lh[i] \in Block
      /\ \A p \in Proc : pc[p] \in {"write_log", "install"} => tail \in 1..Len(lh)
      /\ boot = "install" => tail \in 1..Len(lh)
  BY SeqIndex DEF TailInv, BootTailInv
<1>1. ASSUME NEW p \in Proc, begin_op_sleep(p) PROVE TypeOK' /\ LenInv'
  BY <1>0, <1>1 DEF begin_op_sleep, MustWait, dev
<1>2. ASSUME NEW p \in Proc, begin_op(p) PROVE TypeOK' /\ LenInv'
  BY <1>0, <1>2 DEF begin_op, MustWait, dev
<1>3. ASSUME NEW p \in Proc, NEW b \in Block, NEW v \in Data, log_write(p, b, v)
      PROVE  TypeOK' /\ LenInv'
  <2>1. CASE b \in Elems(lh)
    BY <1>3, <2>1 DEF log_write, Absorbed, dev
  <2>2. CASE b \notin Elems(lh)
    <3>1. Append(lh, b) \in Seq(Block) /\ Len(Append(lh, b)) <= LOGSIZE
      BY <1>0, <1>3, AppendIs DEF log_write, Absorbed, TooBig
    <3> QED BY <1>3, <2>2, <3>1, Zenon DEF log_write, Absorbed, dev, bpin
  <2> QED BY <2>1, <2>2
<1>4. ASSUME NEW p \in Proc, end_op_first(p) PROVE TypeOK' /\ LenInv'
  BY <1>0, <1>4 DEF end_op_first, dev, WakeupAnd
<1>5. ASSUME NEW p \in Proc, end_op_last(p) PROVE TypeOK' /\ LenInv'
  BY <1>0, <1>5 DEF end_op_last, dev
<1>6. ASSUME NEW p \in Proc, commit(p) PROVE TypeOK' /\ LenInv'
  BY <1>0, <1>6 DEF commit, dev, CommitEntry
<1>7. ASSUME NEW p \in Proc, write_log(p) PROVE TypeOK' /\ LenInv'
  <2>1. Read(lh[tail]) \in Contents BY <1>0, <1>7 DEF write_log, Read
  <2>2. CASE tail < Len(lh) BY <1>0, <1>7, <2>1, <2>2 DEF write_log
  <2>3. CASE ~(tail < Len(lh))
    <3>1. dlog' \in [Slot -> Contents] /\ cache' \in [Block -> Contents \cup {NoBuf}]
      BY <1>7, <2>1, Zenon DEF write_log
    <3>2. tail' \in 0..LOGSIZE BY <1>7, <2>3 DEF write_log
    <3> QED BY <1>7, <2>3, <3>1, <3>2 DEF write_log
  <2> QED BY <2>2, <2>3
<1>8. ASSUME NEW p \in Proc, write_head(p) PROVE TypeOK' /\ LenInv'
  BY <1>0, <1>8 DEF write_head
<1>9. ASSUME NEW p \in Proc, install_trans(p) PROVE TypeOK' /\ LenInv'
  BY <1>0, <1>9 DEF install_trans, InstallBlock, NextTail
<1>10. ASSUME NEW p \in Proc, commit_erase(p) PROVE TypeOK' /\ LenInv'
  BY <1>0, <1>10 DEF commit_erase
<1>11. ASSUME NEW p \in Proc, end_op_done(p) PROVE TypeOK' /\ LenInv'
  BY <1>0, <1>11 DEF end_op_done, WakeupAnd, dev
<1>12. ASSUME NEW b \in Block, bread(b) PROVE TypeOK' /\ LenInv'
  BY <1>0, <1>12 DEF bread, dev
<1>13. ASSUME NEW b \in Block, bget_recycle(b) PROVE TypeOK' /\ LenInv'
  BY <1>0, <1>13 DEF bget_recycle, dev
<1>14. CASE read_head
  BY <1>0, <1>14 DEF read_head, dev
<1>15. CASE recover_install
  BY <1>0, <1>15 DEF recover_install, InstallBlock, NextTail
<1>16. CASE recover_erase
  BY <1>0, <1>16 DEF recover_erase
<1>17. CASE crash
  BY <1>17, RebootType DEF crash, dev
<1>18. CASE crash_torn_home
  BY <1>18, RebootType, Zenon DEF crash_torn_home
<1>19. CASE crash_torn_log
  BY <1>19, RebootType, Zenon DEF crash_torn_log
<1>20. CASE UNCHANGED vars
  BY <1>0, <1>20 DEF vars
<1> QED
  BY <1>1, <1>2, <1>3, <1>4, <1>5, <1>6, <1>7, <1>8, <1>9, <1>10,
     <1>11, <1>12, <1>13, <1>14, <1>15, <1>16, <1>17, <1>18, <1>19, <1>20, Zenon
  DEF Next, ProcStep, Recover

\* Every step keeps the loop counter inside the log.
LEMMA TailStep ==
  ASSUME IInv, [Next]_vars
  PROVE  TailInv' /\ BootTailInv'
<1> USE EmptySeq DEF IInv, TypeInv, TypeOK, TailInv, BootTailInv, CommitPC
<1>0. /\ Len(lh) \in Nat /\ Len(hdr) \in Nat /\ tail \in Nat
      /\ \A p, q \in Proc : pc[p] \in CommitPC /\ pc[q] \in CommitPC => p = q
  BY SeqIndex, LogSizeNat DEF TypeOK, QuietInv
<1>1. ASSUME NEW p \in Proc, begin_op_sleep(p) PROVE TailInv' /\ BootTailInv'
  BY <1>0, <1>1 DEF begin_op_sleep, MustWait, dev
<1>2. ASSUME NEW p \in Proc, begin_op(p) PROVE TailInv' /\ BootTailInv'
  BY <1>0, <1>2 DEF begin_op, MustWait, dev
<1>3. ASSUME NEW p \in Proc, NEW b \in Block, NEW v \in Data, log_write(p, b, v)
      PROVE  TailInv' /\ BootTailInv'
  <2>1. Running # {} /\ boot = "up" BY <1>3 DEF Running, log_write, QuietInv
  <2> QED BY <1>3, <2>1 DEF log_write, dev, QuietInv
<1>4. ASSUME NEW p \in Proc, end_op_first(p) PROVE TailInv' /\ BootTailInv'
  BY <1>0, <1>4 DEF end_op_first, dev, WakeupAnd
<1>5. ASSUME NEW p \in Proc, end_op_last(p) PROVE TailInv' /\ BootTailInv'
  BY <1>0, <1>5 DEF end_op_last, dev
<1>6. ASSUME NEW p \in Proc, commit(p) PROVE TailInv' /\ BootTailInv'
  BY <1>0, <1>6 DEF commit, dev, CommitEntry
<1>7. ASSUME NEW p \in Proc, write_log(p) PROVE TailInv' /\ BootTailInv'
  BY <1>0, <1>7 DEF write_log, Read
<1>8. ASSUME NEW p \in Proc, write_head(p) PROVE TailInv' /\ BootTailInv'
  BY <1>0, <1>8 DEF write_head
<1>9. ASSUME NEW p \in Proc, install_trans(p) PROVE TailInv' /\ BootTailInv'
  <2>1. boot = "up" /\ \A q \in Proc : q # p => pc[q] \notin CommitPC
    BY <1>0, <1>9 DEF install_trans, QuietInv
  <2>2. CASE tail < Len(lh) BY <1>0, <1>9, <2>1, <2>2 DEF install_trans, InstallBlock, NextTail
  <2>3. CASE ~(tail < Len(lh)) BY <1>0, <1>9, <2>1, <2>3 DEF install_trans
  <2> QED BY <2>2, <2>3
<1>10. ASSUME NEW p \in Proc, commit_erase(p) PROVE TailInv' /\ BootTailInv'
  <2>1. boot = "up" /\ \A q \in Proc : q # p => pc[q] \notin CommitPC
    BY <1>0, <1>10 DEF commit_erase, QuietInv
  <2>2. boot' = "up" /\ \A q \in Proc : pc'[q] \notin {"write_log", "write_head", "install"}
    BY <1>10, <2>1 DEF commit_erase
  <2> QED BY <2>2
<1>11. ASSUME NEW p \in Proc, end_op_done(p) PROVE TailInv' /\ BootTailInv'
  BY <1>0, <1>11 DEF end_op_done, WakeupAnd, dev
<1>12. ASSUME NEW b \in Block, bread(b) PROVE TailInv' /\ BootTailInv'
  BY <1>0, <1>12 DEF bread, dev
<1>13. ASSUME NEW b \in Block, bget_recycle(b) PROVE TailInv' /\ BootTailInv'
  BY <1>0, <1>13 DEF bget_recycle, dev
<1>14. CASE read_head
  <2>1. boot # "up" /\ \A p \in Proc : pc'[p] = "idle" BY <1>14 DEF read_head, QuietInv
  <2>2. BootTailInv' BY <1>0, <1>14 DEF read_head, dev
  <2> QED BY <2>1, <2>2
<1>15. CASE recover_install
  <2>1. boot # "up" /\ \A p \in Proc : pc'[p] = "idle" BY <1>15 DEF recover_install, QuietInv
  <2>2. BootTailInv' BY <1>0, <1>15 DEF recover_install, InstallBlock, NextTail
  <2> QED BY <2>1, <2>2
<1>16. CASE recover_erase
  <2>1. boot' = "up" /\ \A p \in Proc : pc'[p] = "idle" BY <1>16 DEF recover_erase, QuietInv
  <2> QED BY <2>1
<1>17. CASE crash
  <2>1. boot' = "read_head" /\ \A p \in Proc : pc'[p] = "idle" BY <1>17 DEF crash, Reboot
  <2> QED BY <2>1
<1>18. CASE crash_torn_home
  <2>1. boot' = "read_head" /\ \A p \in Proc : pc'[p] = "idle" BY <1>18 DEF crash_torn_home, Reboot
  <2> QED BY <2>1
<1>19. CASE crash_torn_log
  <2>1. boot' = "read_head" /\ \A p \in Proc : pc'[p] = "idle" BY <1>19 DEF crash_torn_log, Reboot
  <2> QED BY <2>1
<1>20. CASE UNCHANGED vars
  BY <1>0, <1>20 DEF vars
<1> QED
  BY <1>1, <1>2, <1>3, <1>4, <1>5, <1>6, <1>7, <1>8, <1>9, <1>10,
     <1>11, <1>12, <1>13, <1>14, <1>15, <1>16, <1>17, <1>18, <1>19, <1>20
  DEF Next, ProcStep, Recover
\* Every step keeps the bookkeeping of begin_op() and end_op().
LEMMA QuietStep ==
  ASSUME IInv, [Next]_vars
  PROVE  QuietInv'
<1> USE DEF IInv, TypeInv, TypeOK, CommitPC
<1>0. IsFiniteSet(Running) /\ Cardinality(Running) \in Nat
  BY LogAssumption, FS_Subset, FS_CardinalityType DEF Running
<1>1. ASSUME NEW p \in Proc, begin_op_sleep(p) PROVE QuietInv'
  <2>1. Running' = Running
    BY <1>1 DEF begin_op_sleep, Running
  <2>2. \A q \in Proc : pc'[q] \in CommitPC <=> pc[q] \in CommitPC
    BY <1>1 DEF begin_op_sleep
  <2> QED BY <1>1, <2>1, <2>2 DEF begin_op_sleep, QuietInv
<1>2. ASSUME NEW p \in Proc, begin_op(p) PROVE QuietInv'
  <2>1. Running' = Running \cup {p} /\ p \notin Running
    BY <1>2 DEF begin_op, Running
  <2>2. Cardinality(Running') = outstanding'
    BY <1>0, <1>2, <2>1, FS_AddElement, Zenon DEF begin_op, QuietInv
  <2>3. \A q \in Proc : pc'[q] \notin CommitPC
    BY <1>2 DEF begin_op, MustWait, QuietInv
  <2> QED BY <1>2, <2>2, <2>3 DEF begin_op, MustWait, QuietInv
<1>3. ASSUME NEW p \in Proc, NEW b \in Block, NEW v \in Data, log_write(p, b, v)
      PROVE  QuietInv'
  <2>1. Running' = Running BY <1>3 DEF log_write, Running
  <2> QED BY <1>3, <2>1 DEF log_write, Absorbed, dev, bpin, TooBig, QuietInv
<1>4. ASSUME NEW p \in Proc, end_op_first(p) PROVE QuietInv'
  <2>1. Running' = Running \ {p} /\ p \in Running
    BY <1>4 DEF end_op_first, WakeupAnd, Running
  <2>2. Cardinality(Running') = outstanding'
    BY <1>0, <1>4, <2>1, FS_RemoveElement, Zenon DEF end_op_first, QuietInv
  <2>3. boot = "up" /\ \A q \in Proc : pc[q] \notin CommitPC
    BY <1>4, <2>1 DEF end_op_first, QuietInv
  <2>4. \A q \in Proc : pc'[q] \notin CommitPC
    BY <1>4, <2>3 DEF end_op_first, WakeupAnd
  <2> QED BY <1>4, <2>2, <2>3, <2>4 DEF end_op_first, QuietInv
<1>5. ASSUME NEW p \in Proc, end_op_last(p) PROVE QuietInv'
  <2>1. Running' = Running \ {p} /\ p \in Running
    BY <1>5 DEF end_op_last, Running
  <2>2. Cardinality(Running') = 0 /\ IsFiniteSet(Running')
    <3>1. Cardinality(Running) = 1 BY <1>5 DEF end_op_last, QuietInv
    <3>2. /\ IsFiniteSet(Running \ {p})
          /\ Cardinality(Running \ {p}) = Cardinality(Running) - 1
      BY <1>0, <2>1, FS_RemoveElement
    <3> QED BY <2>1, <3>1, <3>2
  <2>3. Running' = {}
    BY <2>2, FS_EmptySet
  <2>4. boot = "up" /\ \A q \in Proc : pc[q] \notin CommitPC
    BY <1>5, <2>1 DEF end_op_last, QuietInv
  <2>5. \A q \in Proc : pc'[q] \in CommitPC => q = p
    BY <1>5, <2>4 DEF end_op_last
  <2> QED BY <1>5, <2>2, <2>3, <2>4, <2>5 DEF end_op_last, QuietInv
<1>6. ASSUME NEW p \in Proc, commit(p) PROVE QuietInv'
  <2>1. Running' = Running
    BY <1>6 DEF commit, CommitEntry, Running
  <2>2. boot = "up" /\ \A q \in Proc : pc'[q] \in CommitPC <=> pc[q] \in CommitPC
    BY <1>6 DEF commit, dev, CommitEntry, QuietInv
  <2> QED BY <1>6, <2>1, <2>2 DEF commit, QuietInv
<1>7. ASSUME NEW p \in Proc, write_log(p) PROVE QuietInv'
  <2>1. Running' = Running
    BY <1>7 DEF write_log, Running
  <2>2. boot = "up" /\ \A q \in Proc : pc'[q] \in CommitPC <=> pc[q] \in CommitPC
    BY <1>7 DEF write_log, Read, QuietInv
  <2> QED BY <1>7, <2>1, <2>2 DEF write_log, QuietInv
<1>8. ASSUME NEW p \in Proc, write_head(p) PROVE QuietInv'
  <2>1. Running' = Running
    BY <1>8 DEF write_head, Running
  <2>2. boot = "up" /\ \A q \in Proc : pc'[q] \in CommitPC <=> pc[q] \in CommitPC
    BY <1>8 DEF write_head, QuietInv
  <2> QED BY <1>8, <2>1, <2>2 DEF write_head, QuietInv
<1>9. ASSUME NEW p \in Proc, install_trans(p) PROVE QuietInv'
  <2>1. Running' = Running
    BY <1>9 DEF install_trans, Running
  <2>2. boot = "up" /\ \A q \in Proc : pc'[q] \in CommitPC <=> pc[q] \in CommitPC
    BY <1>9 DEF install_trans, InstallBlock, NextTail, QuietInv
  <2> QED BY <1>9, <2>1, <2>2 DEF install_trans, QuietInv
<1>10. ASSUME NEW p \in Proc, commit_erase(p) PROVE QuietInv'
  <2>1. Running' = Running
    BY <1>10 DEF commit_erase, Running
  <2>2. boot = "up" /\ \A q \in Proc : pc'[q] \in CommitPC <=> pc[q] \in CommitPC
    BY <1>10 DEF commit_erase, QuietInv
  <2> QED BY <1>10, <2>1, <2>2 DEF commit_erase, QuietInv
<1>11. ASSUME NEW p \in Proc, end_op_done(p) PROVE QuietInv'
  <2>1. Running' = Running
    BY <1>11 DEF end_op_done, WakeupAnd, Running
  <2>2. boot = "up" /\ \A q \in Proc : q # p => pc[q] \notin CommitPC
    BY <1>11 DEF end_op_done, QuietInv
  <2>3. \A q \in Proc : pc'[q] \notin CommitPC
    BY <1>11, <2>2 DEF end_op_done, WakeupAnd
  <2> QED BY <1>11, <2>1, <2>2, <2>3 DEF end_op_done, QuietInv
<1>12. ASSUME NEW b \in Block, bread(b) PROVE QuietInv'
  <2>1. Running' = Running BY <1>12 DEF bread, Running
  <2> QED BY <1>12, <2>1 DEF bread, dev, QuietInv
<1>13. ASSUME NEW b \in Block, bget_recycle(b) PROVE QuietInv'
  <2>1. Running' = Running BY <1>13 DEF bget_recycle, Running
  <2> QED BY <1>13, <2>1 DEF bget_recycle, dev, QuietInv
<1>14. CASE read_head
  <2>1. Running' = Running BY <1>14 DEF read_head, Running
  <2> QED BY <1>14, <2>1 DEF read_head, dev, QuietInv
<1>15. CASE recover_install
  <2>1. Running' = Running BY <1>15 DEF recover_install, Running
  <2> QED BY <1>15, <2>1 DEF recover_install, InstallBlock, NextTail, QuietInv
<1>16. CASE recover_erase
  <2>1. Running' = Running BY <1>16 DEF recover_erase, Running
  <2> QED BY <1>16, <2>1 DEF recover_erase, QuietInv
<1>17. CASE crash
  <2>1. Running' = {} /\ outstanding' = 0 /\ committing' = 0
    BY <1>17 DEF crash, Reboot, Running
  <2>2. \A q \in Proc : pc'[q] = "idle"
    BY <1>17 DEF crash, Reboot
  <2> QED BY <2>1, <2>2, FS_EmptySet DEF QuietInv
<1>18. CASE crash_torn_home
  <2>1. Running' = {} /\ outstanding' = 0 /\ committing' = 0
    BY <1>18 DEF crash_torn_home, Reboot, Running
  <2>2. \A q \in Proc : pc'[q] = "idle"
    BY <1>18 DEF crash_torn_home, Reboot
  <2> QED BY <2>1, <2>2, FS_EmptySet DEF QuietInv
<1>19. CASE crash_torn_log
  <2>1. Running' = {} /\ outstanding' = 0 /\ committing' = 0
    BY <1>19 DEF crash_torn_log, Reboot, Running
  <2>2. \A q \in Proc : pc'[q] = "idle"
    BY <1>19 DEF crash_torn_log, Reboot
  <2> QED BY <2>1, <2>2, FS_EmptySet DEF QuietInv
<1>20. CASE UNCHANGED vars
  <2>1. Running' = Running BY <1>20 DEF vars, Running
  <2> QED BY <1>20, <2>1 DEF vars, QuietInv
<1> QED
  BY <1>1, <1>2, <1>3, <1>4, <1>5, <1>6, <1>7, <1>8, <1>9, <1>10,
     <1>11, <1>12, <1>13, <1>14, <1>15, <1>16, <1>17, <1>18, <1>19, <1>20
  DEF Next, ProcStep, Recover

\* While process p is in commit() the machine is up, p is alone there and no
\* system call is running.
LEMMA Alone ==
  ASSUME IInv, NEW p \in Proc, pc[p] \in CommitPC
  PROVE  /\ boot = "up" /\ committing = 1
         /\ \A q \in Proc : q # p => pc[q] \notin CommitPC
         /\ \A q \in Proc : pc[q] # "op"
BY DEF IInv, QuietInv, CommitPC, Running

\* While a system call is running nobody is in commit(): the log on disk is
\* empty and exactly the logged blocks are pinned.
LEMMA NobodyCommits ==
  ASSUME IInv, NEW p \in Proc, pc[p] = "op"
  PROVE  /\ boot = "up"
         /\ \A q \in Proc : pc[q] \notin CommitPC
         /\ hdr = <<>> /\ pinned = Elems(lh)
<1>1. boot = "up" /\ \A q \in Proc : pc[q] \notin CommitPC
  BY DEF IInv, QuietInv, Running
<1> QED BY <1>1 DEF IInv, DataInv, CacheInv, Installed, CommitPC

\* The parts of the inductive invariant.
LEMMA Parts ==
  ASSUME IInv
  PROVE  /\ TypeOK /\ LenInv /\ TailInv /\ BootTailInv
         /\ QuietInv /\ DiskInv /\ BootInv /\ IdleInv
         /\ boot = "up" => CacheInv /\ CommitInv
BY DEF IInv, TypeInv, DataInv

\* The index and type facts that the steps below use.
LEMMA Facts ==
  ASSUME IInv
  PROVE  /\ Len(lh) \in Nat /\ Len(hdr) \in Nat /\ tail \in Nat
         /\ \A i \in 1..Len(lh) : lh[i] \in Block
         /\ \A i \in 1..Len(hdr) : hdr[i] \in Block
         /\ Len(lh) = 0 => lh = <<>>
         /\ \A b \in Block : disk[b] \in Contents
         /\ NoBuf \notin Data /\ NoBuf \notin Contents
BY SeqIndex, LogSizeNat, LogAssumption DEF IInv, TypeInv, TypeOK, Contents

\* Steps that only move processes between labels outside commit().
LEMMA DataSame ==
  ASSUME IInv, UNCHANGED <<dev, cache, pinned, lh, tail, boot>>, IdleInv',
         \A q \in Proc : pc'[q] = pc[q] \/ pc'[q] \in {"idle", "begin", "asleep", "op", "commit"},
         \A q \in Proc : Installed(q) => pc'[q] = pc[q]
  PROVE  DataInv'
<1>1. DiskInv' /\ BootInv'
  BY Parts, ZenonT(60) DEF DiskInv, BootInv, Injective, Elems, dev
<1>2. CacheInv' = CacheInv
  BY DEF CacheInv, Injective, Installed, Elems, dev
<1>3. CommitInv => CommitInv'
  BY DEF CommitInv, CommitAt, Installed, dev
<1> QED BY <1>1, <1>2, <1>3, Parts, Zenon DEF DataInv

\* log_write() keeps the data invariant: the new block is pinned and cached.
LEMMA DataLogWrite ==
  ASSUME IInv, NEW p \in Proc, NEW b \in Block, NEW v \in Data, log_write(p, b, v)
  PROVE  DataInv'
<1>1. /\ boot = "up" /\ \A q \in Proc : pc[q] \notin CommitPC
      /\ hdr = <<>> /\ pinned = Elems(lh)
  BY NobodyCommits, Zenon DEF log_write
<1>2. outstanding # 0
  <2>1. p \in Running BY Zenon DEF log_write, Running
  <2>2. IsFiniteSet(Running) BY LogAssumption, FS_Subset, Zenon DEF Running
  <2> QED BY <2>1, <2>2, FS_EmptySet, Parts, Zenon DEF QuietInv
<1>3. UNCHANGED <<disk, hdr, dlog, outstanding, pc, tail, boot>>
  BY Zenon DEF log_write, dev
<1>4. DiskInv' /\ BootInv' /\ IdleInv' /\ CommitInv'
  <2>1. DiskInv' BY <1>3, Parts, Zenon DEF DiskInv, Injective, Elems
  <2>2. BootInv' BY <1>1, <1>3, Zenon DEF BootInv
  <2>3. IdleInv' BY <1>2, <1>3, Zenon DEF IdleInv
  <2>4. CommitInv' BY <1>1, <1>3, Zenon DEF CommitInv, CommitAt, Installed, CommitPC
  <2> QED BY <2>1, <2>2, <2>3, <2>4, Zenon
<1>5. cache' = [cache EXCEPT ![b] = v] BY Zenon DEF log_write
<1>6. Injective(lh') /\ pinned' = Elems(lh') /\ Elems(lh') = Elems(lh) \cup {b}
  <2>1. CASE b \in Elems(lh)
    BY <1>1, <2>1, Parts, Zenon DEF log_write, Absorbed, CacheInv
  <2>2. CASE b \notin Elems(lh)
    <3>1. lh' = Append(lh, b) /\ pinned' = pinned \cup {b}
      BY <2>2, Zenon DEF log_write, Absorbed, bpin
    <3>2. lh \in Seq(Block) /\ Len(lh) \in Nat /\ Injective(lh)
      BY <1>1, Facts, Parts, Zenon DEF TypeOK, CacheInv
    <3>3. /\ Len(lh') = Len(lh) + 1
          /\ \A i \in 1..Len(lh) : lh'[i] = lh[i]
          /\ lh'[Len(lh) + 1] = b
      BY <3>1, <3>2, AppendIs, Zenon
    <3>4. Injective(lh')
      <4>1. \A i \in 1..Len(lh) : lh[i] # b BY <2>2, Zenon DEF Elems
      <4>2. \A i \in 1..Len(lh') : i \in 1..Len(lh) \/ i = Len(lh) + 1
        <5>1. Len(lh) \in Nat BY <3>2, Zenon
        <5>2. Len(lh') = Len(lh) + 1 BY <3>3, Zenon
        <5> QED BY ONLY <5>1, <5>2
      <4>3. Injective(lh) BY <3>2, Zenon
      <4> QED BY <3>2, <3>3, <4>1, <4>2, <4>3, Zenon DEF Injective
    <3>5. Elems(lh') = Elems(lh) \cup {b}
      BY <3>2, <3>3 DEF Elems
    <3> QED BY <1>1, <3>1, <3>4, <3>5, Zenon
  <2> QED BY <2>1, <2>2, Zenon
<1>7. CacheInv'
  <2>1. \A c \in pinned' : cache'[c] \in Data
    BY <1>1, <1>5, <1>6, Parts, Zenon DEF TypeOK, CacheInv
  <2>2. \A c \in Block : c \notin pinned' => cache'[c] \in {NoBuf, disk'[c]}
    BY <1>1, <1>3, <1>5, <1>6, Parts, Zenon DEF TypeOK, CacheInv
  <2> QED BY <1>1, <1>3, <1>6, <2>1, <2>2, Zenon DEF CacheInv
<1> QED BY <1>4, <1>7, Zenon DEF DataInv

\* commit() and write_log() keep the data invariant: the log data blocks
\* written so far are the cached contents of the logged blocks.
LEMMA DataWriteLog ==
  ASSUME IInv, NEW p \in Proc, commit(p) \/ write_log(p)
  PROVE  DataInv'
<1> USE Facts
<1>1. pc[p] \in CommitPC /\ ~Installed(p)
  BY Zenon DEF commit, write_log, CommitPC, Installed
<1>2. /\ boot = "up" /\ committing = 1
      /\ \A q \in Proc : q # p => pc[q] \notin CommitPC
  BY <1>1, Alone, Zenon
<1>3. hdr = <<>> /\ pinned = Elems(lh) /\ \A q \in Proc : ~Installed(q)
  BY <1>1, <1>2, Parts, Zenon DEF CacheInv, CommitPC, Installed
<1>4. cache' = cache
  <2>1. CASE commit(p) BY <2>1, Zenon DEF commit
  <2>2. CASE write_log(p)
    <3>1. tail \in 1..Len(lh) BY <2>2, Parts, Zenon DEF write_log, TailInv
    <3>2. lh[tail] \in pinned BY <1>3, <3>1, Zenon DEF Elems
    <3>3. Read(lh[tail]) = cache[lh[tail]]
      BY <1>2, <3>2, Parts, Zenon DEF Read, CacheInv
    <3> QED BY <2>2, <3>3, Parts, Zenon DEF write_log, TypeOK
  <2> QED BY <2>1, <2>2, Zenon
<1>5. UNCHANGED <<disk, hdr, pinned, lh, outstanding, committing, boot>>
  BY Zenon DEF commit, write_log, dev
<1>6. \A q \in Proc : q # p => pc'[q] = pc[q]
  BY Parts DEF commit, write_log, TypeOK
<1>7. DiskInv' /\ BootInv' /\ IdleInv'
  <2>1. hdr' = <<>> /\ Len(hdr') = 0 /\ Elems(hdr) = {} /\ Elems(hdr)' = {}
    BY <1>3, <1>5, EmptySeq DEF Elems
  <2>2. \A b \in Block : disk'[b] \in Data BY <1>5, <2>1, Parts, Zenon DEF DiskInv
  <2>3. DiskInv' BY <2>1, <2>2 DEF DiskInv, Injective
  <2>4. BootInv' BY <1>2, <1>5, Zenon DEF BootInv
  <2>5. IdleInv' BY <1>2, <1>5 DEF IdleInv
  <2> QED BY <2>3, <2>4, <2>5, Zenon
<1>8. pc'[p] \in {"end_op", "write_log", "write_head"}
  BY Parts DEF commit, write_log, CommitEntry, TypeOK
<1>9. CacheInv'
  <2>1. Injective(lh)' BY <1>2, <1>5, Parts, ZenonT(60) DEF CacheInv, Injective
  <2>2. hdr' = <<>> /\ pinned' = Elems(lh)' BY <1>3, <1>5, Zenon DEF Elems
  <2>3. /\ \A b \in pinned' : cache'[b] \in Data
        /\ \A b \in Block : b \notin pinned' => cache'[b] \in {NoBuf, disk'[b]}
    BY <1>2, <1>4, <1>5, Parts, Zenon DEF CacheInv
  <2> QED BY <2>1, <2>2, <2>3, Zenon DEF CacheInv
<1>10. CommitInv'
  <2>1. \A q \in Proc : q # p => pc'[q] \notin CommitPC BY <1>2, <1>6, Zenon
  <2>2. CASE commit(p)
    <3>1. tail' = 1 /\ pc'[p] \in {"end_op", "write_log"} /\ (pc'[p] = "end_op" => lh = <<>>)
      BY <2>2, Parts, Zenon DEF commit, CommitEntry, TypeOK
    <3>2. ASSUME NEW i \in 1..(tail' - 1) PROVE FALSE BY <3>1
    <3>3. \A q \in Proc : pc'[q] \notin {"write_head", "install", "erase"}
      BY <2>1, <3>1, Zenon DEF CommitPC
    <3>4. \A q \in Proc : pc'[q] = "end_op" => lh' = <<>>
      BY <1>5, <2>1, <3>1, Zenon DEF CommitPC
    <3> QED BY <3>2, <3>3, <3>4, Zenon DEF CommitInv, CommitAt, Installed
  <2>3. CASE write_log(p)
    <3>1. tail \in 1..Len(lh) BY <2>3, Parts, Zenon DEF write_log, TailInv
    <3>2. lh[tail] \in pinned BY <1>3, <3>1, Zenon DEF Elems
    <3>3. Read(lh[tail]) = cache[lh[tail]]
      BY <1>2, <3>2, Parts, Zenon DEF Read, CacheInv
    <3>4. \A i \in 1..(tail - 1) : dlog[i] = cache[lh[i]]
      BY <1>2, <2>3, Parts, Zenon DEF write_log, CommitInv, CommitAt
    <3>5. tail \in Slot /\ dlog' = [dlog EXCEPT ![tail] = cache[lh[tail]]]
      BY <2>3, <3>1, <3>3, LogSizeNat, Parts DEF write_log, Slot, LenInv
    <3>6. \A i \in 1..tail : dlog'[i] = cache[lh[i]]
      BY <3>1, <3>4, <3>5, LogSizeNat, Parts DEF TypeOK, LenInv, Slot
    <3>7. CASE tail < Len(lh)
      <4>1. tail' = tail + 1 /\ pc'[p] = "write_log"
        BY <2>3, <3>7, Zenon DEF write_log
      <4> QED BY <1>4, <1>5, <2>1, <3>6, <4>1 DEF CommitInv, CommitAt, CommitPC, Installed
    <3>8. CASE ~(tail < Len(lh))
      <4>1. tail' = 1 /\ pc'[p] = "write_head" /\ tail = Len(lh)
        BY <2>3, <3>1, <3>8, Parts DEF write_log, TypeOK
      <4> QED BY <1>4, <1>5, <2>1, <3>6, <4>1, Zenon DEF CommitInv, CommitAt, CommitPC, Installed
    <3> QED BY <3>7, <3>8, Zenon
  <2> QED BY <2>2, <2>3, Zenon
<1> QED BY <1>7, <1>9, <1>10, Zenon DEF DataInv

\* write_head() keeps the data invariant: what the header names is in the log.
LEMMA DataWriteHead ==
  ASSUME IInv, NEW p \in Proc, write_head(p)
  PROVE  DataInv'
<1> USE Facts
<1>1. pc[p] \in CommitPC /\ ~Installed(p)
  BY Zenon DEF write_head, CommitPC, Installed
<1>2. /\ boot = "up" /\ committing = 1
      /\ \A q \in Proc : q # p => pc[q] \notin CommitPC
  BY <1>1, Alone, Zenon
<1>3. hdr = <<>> /\ pinned = Elems(lh) /\ Injective(lh)
  BY <1>1, <1>2, Parts, Zenon DEF CacheInv, CommitPC, Installed
<1>4. tail = 1 /\ \A i \in 1..Len(lh) : dlog[i] = cache[lh[i]]
  BY <1>2, Parts, Zenon DEF write_head, CommitInv, CommitAt
<1>5. UNCHANGED <<disk, dlog, cache, pinned, lh, outstanding, committing, tail, boot>> /\ hdr' = lh
  BY Zenon DEF write_head
<1>6. pc'[p] = "install" /\ \A q \in Proc : q # p => pc'[q] = pc[q]
  BY Parts, Zenon DEF write_head, TypeOK
<1>7. DiskInv'
  <2>1. \A i \in 1..Len(lh) : lh[i] \in pinned BY <1>3, Zenon DEF Elems
  <2>2. \A i \in 1..Len(lh) : dlog[i] \in Data
    BY <1>2, <1>4, <2>1, Parts, Zenon DEF CacheInv
  <2>3. \A b \in Block : disk[b] \in Data
    BY <1>3, EmptySeq, Parts DEF DiskInv, Elems
  <2>4. Injective(hdr)'
    <3>1. hdr' = lh /\ Injective(lh)
      BY <1>3, <1>5, Zenon
    <3> QED BY <3>1 DEF Injective
  <2>5. \A i \in 1..Len(hdr') : dlog'[i] \in Data
    BY <1>5, <2>2, Zenon
  <2> QED BY <1>5, <2>3, <2>4, <2>5, Zenon DEF DiskInv
<1>8. BootInv' /\ IdleInv'
  BY <1>2, <1>5 DEF BootInv, IdleInv
<1>9. CacheInv'
  <2>1. CacheInv /\ Installed(p)'
    BY <1>2, <1>6, Parts, Zenon DEF Installed
  <2>2. Injective(lh)'
    <3>1. lh' = lh /\ Injective(lh)
      BY <1>3, <1>5, Zenon
    <3> QED BY <3>1 DEF Injective
  <2> QED BY <1>5, <2>1, <2>2, Zenon DEF CacheInv
<1>10. CommitInv'
  <2>1. \A q \in Proc : q # p => pc'[q] \notin CommitPC BY <1>2, <1>6, Zenon
  <2>2. pinned = {lh[i] : i \in tail..Len(lh)} BY <1>3, <1>4, Zenon DEF Elems
  <2> QED BY <1>4, <1>5, <1>6, <2>1, <2>2 DEF CommitInv, CommitAt, CommitPC, Installed
<1> QED BY <1>7, <1>8, <1>9, <1>10, Zenon DEF DataInv

\* install_trans() in commit() keeps the data invariant: a block is unpinned
\* exactly when its home location has it.
LEMMA DataInstall ==
  ASSUME IInv, NEW p \in Proc, install_trans(p)
  PROVE  DataInv'
<1> USE Facts
<1>1. pc[p] = "install" /\ pc[p] \in CommitPC /\ Installed(p)
  BY Zenon DEF install_trans, CommitPC, Installed
<1>2. /\ boot = "up" /\ committing = 1
      /\ \A q \in Proc : q # p => pc[q] \notin CommitPC
  BY <1>1, Alone, Zenon
<1>3. tail \in 1..Len(lh) BY <1>1, Parts, Zenon DEF TailInv
<1>4. /\ hdr = lh /\ Injective(lh)
      /\ pinned = {lh[i] : i \in tail..Len(lh)}
      /\ \A i \in 1..(tail - 1) : disk[lh[i]] = dlog[i]
      /\ \A i \in tail..Len(lh) : dlog[i] = cache[lh[i]]
  BY <1>1, <1>2, Parts, Zenon DEF CommitInv, CommitAt, CacheInv
<1>5. /\ disk' = [disk EXCEPT ![lh[tail]] = dlog[tail]]
      /\ cache' = [cache EXCEPT ![lh[tail]] = dlog[tail]]
      /\ pinned' = pinned \ {lh[tail]}
      /\ UNCHANGED <<hdr, dlog, lh, outstanding, committing, boot>>
  BY Zenon DEF install_trans, InstallBlock
<1>6. /\ \A q \in Proc : q # p => pc'[q] = pc[q]
      /\ pc'[p] = IF tail < Len(lh) THEN "install" ELSE "erase"
      /\ tail' = IF tail < Len(lh) THEN tail + 1 ELSE 0
  BY Parts, Zenon DEF install_trans, InstallBlock, NextTail, TypeOK
<1>7. /\ \A b \in Block : disk'[b] = IF b = lh[tail] THEN dlog[tail] ELSE disk[b]
      /\ \A b \in Block : cache'[b] = IF b = lh[tail] THEN dlog[tail] ELSE cache[b]
  BY <1>5, Parts, Zenon DEF TypeOK
<1>8. DiskInv'
  <2>1. Injective(hdr)' BY <1>5, Parts, Zenon DEF DiskInv, Injective
  <2>2. \A i \in 1..Len(hdr') : dlog'[i] \in Data BY <1>5, Parts, Zenon DEF DiskInv
  <2>3. \A b \in Block : b \notin Elems(hdr) => disk'[b] \in Data
    BY <1>3, <1>4, <1>5, <1>7, Parts, Zenon DEF DiskInv, Elems
  <2> QED BY <1>5, <2>1, <2>2, <2>3, Zenon DEF DiskInv, Elems
<1>9. BootInv' /\ IdleInv'
  BY <1>2, <1>5 DEF BootInv, IdleInv
<1>10. CacheInv'
  <2>1. \A b \in pinned' : cache'[b] \in Data
    BY <1>2, <1>5, <1>7, Parts DEF TypeOK, CacheInv
  <2>2. \A b \in Block : b \notin pinned' => cache'[b] \in {NoBuf, disk'[b]}
    BY <1>2, <1>5, <1>7, Parts, Zenon DEF CacheInv
  <2>3. \E q \in Proc : Installed(q)'
    BY <1>6, Zenon DEF Installed
  <2> QED BY <1>4, <1>5, <2>1, <2>2, <2>3 DEF CacheInv, Injective
<1>11. CommitInv'
  <2>1. \A q \in Proc : q # p => pc'[q] \notin CommitPC BY <1>2, <1>6, Zenon
  <2>2. pinned' = {lh[i] : i \in (tail + 1)..Len(lh)}
    BY <1>3, <1>4, <1>5 DEF Injective
  <2>3. \A i \in 1..tail : disk'[lh[i]] = dlog[i]
    BY <1>3, <1>4, <1>7 DEF Injective
  <2>4. \A i \in (tail + 1)..Len(lh) : dlog[i] = cache'[lh[i]]
    BY <1>3, <1>4, <1>7 DEF Injective
  <2>5. CASE tail < Len(lh)
    <3>1. pc'[p] = "install" /\ tail' = tail + 1 BY <1>6, <2>5, Zenon
    <3>2. pinned' = {lh'[i] : i \in tail'..Len(lh')}
      BY <1>5, <2>2, <3>1, Zenon
    <3>3. \A i \in 1..(tail' - 1) : disk'[lh'[i]] = dlog'[i]
      BY <1>5, <2>3, <3>1
    <3>4. \A i \in tail'..Len(lh') : dlog'[i] = cache'[lh'[i]]
      BY <1>5, <2>4, <3>1, Zenon
    <3> QED BY <1>4, <1>5, <2>1, <3>1, <3>2, <3>3, <3>4, Zenon
            DEF CommitInv, CommitAt, CommitPC, Installed
  <2>6. CASE ~(tail < Len(lh))
    <3>1. pc'[p] = "erase" /\ tail = Len(lh) BY <1>3, <1>6, <2>6
    <3>2. (tail + 1)..Len(lh) = {} BY <3>1
    <3>3. pinned' = {} BY <2>2, <3>2, Zenon
    <3> QED BY <1>4, <1>5, <2>1, <2>3, <3>1, <3>3, ZenonT(60)
            DEF CommitInv, CommitAt, CommitPC, Installed
  <2> QED BY <2>5, <2>6, Zenon
<1> QED BY <1>8, <1>9, <1>10, <1>11, Zenon DEF DataInv

\* Erasing the header keeps the data invariant: all of it is installed.
LEMMA DataErase ==
  ASSUME IInv, NEW p \in Proc, commit_erase(p)
  PROVE  DataInv'
<1> USE Facts, EmptySeq
<1>1. pc[p] = "erase" /\ pc[p] \in CommitPC /\ Installed(p)
  BY Zenon DEF commit_erase, CommitPC, Installed
<1>2. /\ boot = "up" /\ committing = 1
      /\ \A q \in Proc : q # p => pc[q] \notin CommitPC
  BY <1>1, Alone, Zenon
<1>3. hdr = lh /\ pinned = {} /\ \A i \in 1..Len(lh) : disk[lh[i]] = dlog[i]
  BY <1>1, <1>2, Parts, Zenon DEF CommitInv, CommitAt
<1>4. /\ UNCHANGED <<disk, dlog, cache, pinned, outstanding, committing, boot>>
      /\ lh' = <<>> /\ hdr' = <<>>
  BY Zenon DEF commit_erase
<1>5. pc'[p] = "end_op" /\ \A q \in Proc : q # p => pc'[q] = pc[q]
  BY Parts, Zenon DEF commit_erase, TypeOK
<1>6. DiskInv'
  <2>1. \A b \in Block : disk[b] \in Data
    BY <1>3, Parts, Zenon DEF DiskInv, Elems
  <2>2. hdr' = <<>> /\ Len(hdr') = 0 BY <1>4, EmptySeq, Zenon
  <2>3. Injective(hdr)' BY <2>2 DEF Injective
  <2> QED BY <1>4, <2>1, <2>2, <2>3 DEF DiskInv
<1>7. BootInv' /\ IdleInv'
  BY <1>2, <1>4, Zenon DEF BootInv, IdleInv
<1>8. CacheInv'
  BY <1>2, <1>3, <1>4, Parts DEF CacheInv, Injective, Elems
<1>9. CommitInv'
  <2>1. \A q \in Proc : q # p => pc'[q] \notin CommitPC BY <1>2, <1>5, Zenon
  <2> QED BY <1>4, <1>5, <2>1, Zenon DEF CommitInv, CommitAt, CommitPC, Installed
<1> QED BY <1>6, <1>7, <1>8, <1>9, Zenon DEF DataInv

\* Reading a block in and recycling a buffer without references keep the data
\* invariant: what is dropped is on disk.
LEMMA DataCache ==
  ASSUME IInv, NEW b \in Block, bread(b) \/ bget_recycle(b)
  PROVE  DataInv'
<1> USE Facts
<1>1. UNCHANGED <<disk, hdr, dlog, pinned, lh, outstanding, committing, pc, tail, boot>>
  BY Zenon DEF bread, bget_recycle, dev
<1>2. \A c \in Block : c # b => cache'[c] = cache[c]
  BY Parts DEF bread, bget_recycle, TypeOK
<1>3. cache'[b] \in {NoBuf, disk[b]} /\ (boot = "read_head" => cache'[b] = NoBuf)
  BY Parts DEF bread, bget_recycle, TypeOK
<1>4. boot = "up" => b \notin pinned
  BY Parts, Zenon DEF bread, bget_recycle, CacheInv
<1>5. DiskInv' /\ IdleInv'
  BY <1>1, Parts, Zenon DEF DiskInv, IdleInv, Injective, Elems
<1>6. BootInv'
  BY <1>1, <1>2, <1>3, Parts, Zenon DEF BootInv
<1>7. boot = "up" => CacheInv'
  <2>1. \A c \in pinned : c \in Block BY Parts, Zenon DEF TypeOK
  <2>2. (\A q \in Proc : ~Installed(q)') <=> (\A q \in Proc : ~Installed(q)) BY <1>1, Zenon
                                                                             DEF Installed
  <2>3. ASSUME boot = "up" PROVE Injective(lh)' BY <1>1, <2>3, Parts, ZenonT(60) DEF CacheInv, Injective
  <2>4. ASSUME boot = "up" PROVE \A c \in pinned' : cache'[c] \in Data
    BY <1>1, <1>2, <1>4, <2>1, <2>4, Parts, Zenon DEF CacheInv
  <2>5. ASSUME boot = "up"
        PROVE  \A c \in Block : c \notin pinned' => cache'[c] \in {NoBuf, disk'[c]}
    BY <1>1, <1>2, <1>3, <2>5, Parts, Zenon DEF CacheInv
  <2>6. ASSUME boot = "up", \A q \in Proc : ~Installed(q)' PROVE hdr' = <<>> /\ pinned' = Elems(lh)'
    BY <1>1, <2>2, <2>6, Parts, Zenon DEF CacheInv, Elems
  <2> QED BY <2>3, <2>4, <2>5, <2>6, Zenon DEF CacheInv
<1>8. ASSUME boot = "up" PROVE CommitInv'
  <2>1. ASSUME NEW q \in Proc, pc[q] \in {"write_log", "write_head"}
        PROVE  \A i \in 1..Len(lh) : lh[i] \in pinned
    <3>1. \A r \in Proc : ~Installed(r)
      BY <2>1, Alone, Zenon DEF CommitPC, Installed
    <3> QED BY <1>8, <3>1, Parts, Zenon DEF CacheInv, Elems
  <2>2. ASSUME NEW q \in Proc, pc[q] = "install"
        PROVE  \A i \in tail..Len(lh) : lh[i] \in pinned
    <3>1. pinned = {lh[i] : i \in tail..Len(lh)}
      BY <1>8, <2>2, Parts, Zenon DEF CommitInv, CommitAt
    <3> QED BY <3>1, Zenon
  <2>3. \A c \in pinned : cache'[c] = cache[c]
    BY <1>2, <1>4, <1>8, Parts, Zenon DEF TypeOK
  <2>4. ASSUME NEW q \in Proc, pc[q] = "write_log"
        PROVE  \A i \in 1..(tail - 1) : dlog[i] = cache'[lh[i]]
    <3>1. tail \in 1..Len(lh) BY <2>4, Parts, Zenon DEF TailInv
    <3>2. \A i \in 1..(tail - 1) : dlog[i] = cache[lh[i]]
      BY <1>8, <2>4, Parts, Zenon DEF CommitInv, CommitAt
    <3>3. \A i \in 1..(tail - 1) : lh[i] \in pinned BY <2>1, <2>4, <3>1
    <3> QED BY <2>3, <3>2, <3>3, Zenon
  <2>5. ASSUME NEW q \in Proc, pc[q] = "write_head"
        PROVE  \A i \in 1..Len(lh) : dlog[i] = cache'[lh[i]]
    BY <1>8, <2>1, <2>3, <2>5, Parts, Zenon DEF CommitInv, CommitAt
  <2>6. ASSUME NEW q \in Proc, pc[q] = "install"
        PROVE  \A i \in tail..Len(lh) : dlog[i] = cache'[lh[i]]
    BY <1>8, <2>2, <2>3, <2>6, Parts, Zenon DEF CommitInv, CommitAt
  <2>7. ASSUME NEW q \in Proc
        PROVE  /\ pc[q] = "write_head" => tail = 1
               /\ Installed(q) => hdr = lh
               /\ pc[q] = "install" => /\ pinned = {lh[i] : i \in tail..Len(lh)}
                                       /\ \A i \in 1..(tail - 1) : disk[lh[i]] = dlog[i]
               /\ pc[q] = "erase" => pinned = {} /\ \A i \in 1..Len(lh) : disk[lh[i]] = dlog[i]
               /\ pc[q] = "end_op" => lh = <<>>
    BY <1>8, Parts, Zenon DEF CommitInv, CommitAt
  <2> SUFFICES ASSUME NEW q \in Proc PROVE CommitAt(q)' BY Zenon DEF CommitInv
  <2>8. pc' = pc /\ tail' = tail /\ dlog' = dlog /\ lh' = lh /\ hdr' = hdr
    BY <1>1, Zenon
  <2>9. pinned' = pinned /\ disk' = disk BY <1>1, Zenon
  <2>10. (pc[q] = "write_log"  => \A i \in 1..(tail - 1) : dlog[i] = cache[lh[i]])'
    BY ONLY <2>4, <2>8, Zenon
  <2>11. (pc[q] = "write_head" => tail = 1 /\ \A i \in 1..Len(lh) : dlog[i] = cache[lh[i]])'
    BY ONLY <2>5, <2>7, <2>8, Zenon
  <2>12. (Installed(q) => hdr = lh)' BY ONLY <2>7, <2>8, Zenon DEF Installed
  <2>13. (pc[q] = "install" => /\ pinned = {lh[i] : i \in tail..Len(lh)}
                               /\ \A i \in 1..(tail - 1) : disk[lh[i]] = dlog[i])'
    BY ONLY <2>7, <2>8, <2>9, Zenon
  <2>14. (pc[q] = "install" => \A i \in tail..Len(lh) : dlog[i] = cache[lh[i]])'
    BY ONLY <2>6, <2>8, Zenon
  <2>15. (pc[q] = "erase" => pinned = {} /\ \A i \in 1..Len(lh) : disk[lh[i]] = dlog[i])'
    BY ONLY <2>7, <2>8, <2>9, Zenon
  <2>16. (pc[q] = "end_op" => lh = <<>>)' BY ONLY <2>7, <2>8, Zenon
  <2> QED BY ONLY <2>10, <2>11, <2>12, <2>13, <2>14, <2>15, <2>16, Zenon DEF CommitAt
<1> QED BY <1>1, <1>5, <1>6, <1>7, <1>8, Zenon DEF DataInv

\* The steps of recover_from_log() keep the data invariant.
LEMMA DataRecover ==
  ASSUME IInv, Recover
  PROVE  DataInv'
<1> USE Facts, EmptySeq
<1>1. boot # "up" /\ \A q \in Proc : pc'[q] = "idle"
  BY Parts, Zenon DEF Recover, read_head, recover_install, recover_erase, QuietInv
<1>2. pinned = {} /\ \A b \in Block : cache[b] \in {NoBuf, disk[b]}
  BY <1>1, Parts, Zenon DEF BootInv
<1>3. CASE read_head
  <2>1. UNCHANGED <<disk, hdr, dlog, cache, pinned>> /\ lh' = hdr /\ tail' = 1
    BY <1>3, Zenon DEF read_head, dev
  <2>2. boot' # "up" /\ boot' # "read_head" /\ (boot' = "erase" => Len(hdr) = 0)
    BY <1>3, Zenon DEF read_head
  <2>3. DiskInv' BY <2>1, Parts, Zenon DEF DiskInv, Injective, Elems
  <2>4. BootInv' BY <1>2, <2>1, <2>2 DEF BootInv
  <2> QED BY <2>2, <2>3, <2>4, Zenon DEF DataInv, IdleInv
<1>4. CASE recover_install
  <2>1. lh = hdr /\ \A i \in 1..(tail - 1) : disk[hdr[i]] = dlog[i]
    BY <1>4, Parts, Zenon DEF recover_install, BootInv
  <2>2. tail \in 1..Len(hdr) /\ Injective(hdr)
    BY <1>4, <2>1, Parts, Zenon DEF recover_install, BootTailInv, DiskInv
  <2>3. /\ \A b \in Block : disk'[b] = IF b = hdr[tail] THEN dlog[tail] ELSE disk[b]
        /\ \A b \in Block : cache'[b] = IF b = hdr[tail] THEN dlog[tail] ELSE cache[b]
    BY <1>4, <2>1, Parts, Zenon DEF recover_install, InstallBlock, TypeOK
  <2>4. /\ UNCHANGED <<hdr, dlog, lh, pinned>>
        /\ boot' = IF tail < Len(hdr) THEN "install" ELSE "erase"
        /\ tail' = IF tail < Len(hdr) THEN tail + 1 ELSE 0
    BY <1>2, <1>4, <2>1 DEF recover_install, InstallBlock, NextTail
  <2>5. DiskInv'
    <3>1. Injective(hdr)' BY <2>2, <2>4, Zenon DEF Injective
    <3>2. \A i \in 1..Len(hdr') : dlog'[i] \in Data BY <2>4, Parts, Zenon DEF DiskInv
    <3>3. \A b \in Block : b \notin Elems(hdr) => disk'[b] \in Data
      BY <2>2, <2>3, Parts, Zenon DEF DiskInv, Elems
    <3> QED BY <2>4, <3>1, <3>2, <3>3, Zenon DEF DiskInv, Elems
  <2>6. \A i \in 1..tail : disk'[hdr[i]] = dlog[i]
    BY <2>1, <2>2, <2>3 DEF Injective
  <2>7. BootInv'
    <3>1. CASE tail < Len(hdr)
      <4>1. boot' = "install" /\ tail' = tail + 1 BY <2>4, <3>1, Zenon
      <4>2. \A i \in 1..(tail' - 1) : disk'[hdr'[i]] = dlog'[i] BY <2>4, <2>6, <4>1
      <4> QED BY <1>2, <2>1, <2>3, <2>4, <4>1, <4>2, Zenon DEF BootInv
    <3>2. CASE ~(tail < Len(hdr))
      <4>1. boot' = "erase" /\ tail = Len(hdr) BY <2>2, <2>4, <3>2
      <4> QED BY <1>2, <2>1, <2>3, <2>4, <2>6, <4>1, Zenon DEF BootInv
    <3> QED BY <3>1, <3>2, Zenon
  <2> QED BY <2>4, <2>5, <2>7, Zenon DEF DataInv, IdleInv
<1>5. CASE recover_erase
  <2>1. \A i \in 1..Len(hdr) : disk[hdr[i]] = dlog[i]
    BY <1>5, Parts, Zenon DEF recover_erase, BootInv
  <2>2. UNCHANGED <<disk, dlog, cache, pinned>> /\ lh' = <<>> /\ hdr' = <<>> /\ boot' = "up"
    BY <1>5, Zenon DEF recover_erase
  <2>3. \A b \in Block : disk[b] \in Data
    BY <2>1, Parts, Zenon DEF DiskInv, Elems
  <2>4. DiskInv' BY <2>2, <2>3 DEF DiskInv, Injective
  <2>5. CacheInv' BY <1>2, <2>2 DEF CacheInv, Injective, Elems
  <2>6. CommitInv' BY <1>1, Zenon DEF CommitInv, CommitAt, Installed
  <2> QED BY <2>2, <2>4, <2>5, <2>6, Zenon DEF DataInv, BootInv, IdleInv
<1> QED BY <1>3, <1>4, <1>5, Zenon DEF Recover

\* A crash keeps the data invariant: a torn block is either one that the
\* committed header covers or one of a log that is not committed.
LEMMA DataCrash ==
  ASSUME IInv, Crashes
  PROVE  DataInv'
<1> USE Facts, EmptySeq
<1>1. /\ boot' = "read_head" /\ pinned' = {} /\ hdr' = hdr
      /\ \A b \in Block : cache'[b] = NoBuf
  BY Zenon DEF Crashes, crash, crash_torn_home, crash_torn_log, Reboot, dev
<1>2. BootInv' /\ IdleInv' BY <1>1, Zenon DEF BootInv, IdleInv
<1>3. DiskInv'
  <2>1. CASE crash
    BY <1>1, <2>1, Parts DEF crash, dev, DiskInv, Injective, Elems
  <2>2. CASE crash_torn_home
    <3>1. lh = hdr /\ tail \in 1..Len(lh)
      <4>1. CASE boot = "install"
        BY <4>1, Parts, Zenon DEF BootTailInv, BootInv
      <4>2. ASSUME NEW p \in Proc, pc[p] = "install" PROVE lh = hdr /\ tail \in 1..Len(lh)
        BY <4>2, Alone, Parts, Zenon DEF CommitPC, Installed, TailInv, CommitInv, CommitAt
      <4> QED BY <2>2, <4>1, <4>2, Zenon DEF crash_torn_home, Installing
    <3>2. dlog' = dlog /\ \A b \in Block : b # lh[tail] => disk'[b] = disk[b]
      BY <2>2, Parts, Zenon DEF crash_torn_home, TypeOK
    <3> QED BY <1>1, <3>1, <3>2, Parts, ZenonT(60) DEF DiskInv, Injective, Elems
  <2>3. CASE crash_torn_log
    <3>1. PICK p \in Proc : pc[p] = "write_log" BY <2>3, Zenon DEF crash_torn_log, Logging
    <3>2. hdr = <<>>
      BY <3>1, Alone, Parts, Zenon DEF CommitPC, Installed, CacheInv
    <3>3. hdr' = <<>> /\ disk' = disk /\ Elems(hdr) = {}
      BY <2>3, <3>2, EmptySeq DEF crash_torn_log, Elems
    <3>4. Injective(hdr)' /\ \A i \in 1..Len(hdr') : dlog'[i] \in Data
      BY <3>3, EmptySeq DEF Injective
    <3>5. \A b \in Block : disk'[b] \in Data BY <3>3, Parts, Zenon DEF DiskInv
    <3> QED BY <3>4, <3>5, Zenon DEF DiskInv
  <2> QED BY <2>1, <2>2, <2>3, Zenon DEF Crashes
<1> QED BY <1>1, <1>2, <1>3, Zenon DEF DataInv

\* Every step keeps the data invariant.
LEMMA DataStep ==
  ASSUME IInv, [Next]_vars
  PROVE  DataInv'
<1> USE DEF IInv, TypeInv, TypeOK
<1>1. ASSUME NEW p \in Proc, begin_op_sleep(p) PROVE DataInv'
  <2>1. IdleInv' BY <1>1, Zenon DEF begin_op_sleep, DataInv, IdleInv
  <2> QED BY <1>1, <2>1, DataSame, Zenon DEF begin_op_sleep, Installed, dev
<1>2. ASSUME NEW p \in Proc, begin_op(p) PROVE DataInv'
  <2>1. IdleInv' BY <1>2 DEF begin_op, IdleInv
  <2> QED BY <1>2, <2>1, DataSame, Zenon DEF begin_op, Installed, dev
<1>3. ASSUME NEW p \in Proc, end_op_first(p) PROVE DataInv'
  <2>1. IdleInv' BY <1>3 DEF end_op_first, IdleInv
  <2> QED BY <1>3, <2>1, DataSame, Zenon DEF end_op_first, WakeupAnd, Installed, dev
<1>4. ASSUME NEW p \in Proc, end_op_last(p) PROVE DataInv'
  <2>1. IdleInv' BY <1>4 DEF end_op_last, IdleInv
  <2> QED BY <1>4, <2>1, DataSame, Zenon DEF end_op_last, Installed, dev
<1>5. ASSUME NEW p \in Proc, end_op_done(p) PROVE DataInv'
  <2>1. boot = "up" BY <1>5, Alone, Zenon DEF end_op_done, CommitPC
  <2>2. IdleInv' BY <1>5, <2>1, Zenon DEF end_op_done, IdleInv, DataInv, CommitInv, CommitAt
  <2> QED BY <1>5, <2>2, DataSame, Zenon DEF end_op_done, WakeupAnd, Installed, dev
<1>6. CASE UNCHANGED vars
  <2>1. IdleInv' BY <1>6, Zenon DEF vars, DataInv, IdleInv
  <2> QED BY <1>6, <2>1, DataSame, Zenon DEF vars, Installed, dev
<1> QED
  BY <1>1, <1>2, <1>3, <1>4, <1>5, <1>6, DataLogWrite, DataWriteLog, DataWriteHead,
     DataInstall, DataErase, DataCache, DataRecover, DataCrash, Zenon
  DEF Next, ProcStep, Crashes

-------------------------------------------------------------------------------
\* A machine switched on with a freshly made disk satisfies the invariant.
LEMMA InitIInv == Init => IInv
<1> SUFFICES ASSUME Init PROVE IInv OBVIOUS
<1> USE LogSizeNat, EmptySeq DEF Init
<1>1. TypeOK BY DEF TypeOK, Contents
<1>2. LenInv /\ TailInv /\ BootTailInv BY DEF LenInv, TailInv, BootTailInv
<1>3. QuietInv
  <2>1. Running = {} BY Zenon DEF Running
  <2> QED BY <2>1, FS_EmptySet DEF QuietInv, CommitPC
<1>4. DataInv BY DEF DataInv, DiskInv, BootInv, IdleInv, Injective
<1> QED BY <1>1, <1>2, <1>3, <1>4, Zenon DEF IInv, TypeInv

\* Every step keeps the inductive invariant.
LEMMA StepIInv == IInv /\ [Next]_vars => IInv'
BY TypeStep, TailStep, QuietStep, DataStep, Zenon DEF IInv, TypeInv

\* The inductive invariant holds in every reachable state.
THEOREM Invariance == Spec => []IInv
BY InitIInv, StepIInv, PTL DEF Spec

\* Type correctness, for every set of processes and blocks and every log size.
THEOREM TypeCorrect == Spec => []TypeOK
<1>1. IInv => TypeOK BY Zenon DEF IInv, TypeInv
<1> QED BY <1>1, Invariance, PTL

\* Commits happen only while no file-system call is active (log.c:13): one
\* process at a time is in commit(), log.outstanding counts the running calls,
\* and end_op() never meets panic("log.committing").
THEOREM QuietCommits == Spec => []CommitsOnlyWhenQuiet
<1>1. IInv => CommitsOnlyWhenQuiet
  <2> SUFFICES ASSUME IInv PROVE CommitsOnlyWhenQuiet OBVIOUS
  <2> DEFINE C == {p \in Proc : pc[p] \in CommitPC}
  <2>1. committing = 1 => Running = {} BY Zenon DEF IInv, QuietInv
  <2>2. CASE committing = 1
    <3>1. PICK p \in Proc : pc[p] \in CommitPC BY <2>2, Zenon DEF IInv, QuietInv
    <3>2. C = {p} BY <3>1, Zenon DEF IInv, QuietInv
    <3> QED BY <2>1, <2>2, <3>2, FS_Singleton, Zenon DEF IInv, QuietInv, CommitsOnlyWhenQuiet
  <2>3. CASE committing = 0
    <3>1. C = {} BY <2>3 DEF IInv, QuietInv
    <3> QED BY <2>3, <3>1, FS_EmptySet, Zenon DEF IInv, QuietInv, CommitsOnlyWhenQuiet
  <2> QED BY <2>2, <2>3, Zenon DEF IInv, TypeInv, TypeOK
<1> QED BY <1>1, Invariance, PTL

\* bget() recycles only buffers whose contents are on disk: log_write()'s pin
\* protects a block until install_trans() has written it home.
THEOREM RecyclingLosesNothing == Spec => []RecyclableIsClean
<1>1. IInv => RecyclableIsClean BY Zenon DEF IInv, DataInv, CacheInv, RecyclableIsClean
<1> QED BY <1>1, Invariance, PTL

\* With no call running and no commit under way, all writes are on disk.
THEOREM QuiescenceIsDurable == Spec => []QuiescentIsDurable
<1>1. IInv => QuiescentIsDurable
  <2> SUFFICES ASSUME IInv, boot = "up", outstanding = 0, committing = 0
               PROVE  hdr = <<>> /\ lh = <<>> /\ \A b \in Block : Read(b) = disk[b]
    BY Zenon DEF QuiescentIsDurable
  <2>1. lh = <<>> BY Zenon DEF IInv, DataInv, IdleInv
  <2>2. hdr = <<>> /\ pinned = Elems(lh)
    BY DEF IInv, QuietInv, DataInv, CacheInv, Installed, CommitPC
  <2>3. pinned = {} BY <2>1, <2>2, EmptySeq DEF Elems
  <2> QED BY <2>1, <2>2, <2>3, Zenon DEF IInv, DataInv, CacheInv, Read
<1> QED BY <1>1, Invariance, PTL

-------------------------------------------------------------------------------
\* What recovery would find, spelled out: the log where the header has the
\* block, the home location elsewhere.
LEMMA RecoveredIs ==
  ASSUME IInv
  PROVE  /\ \A i \in 1..Len(hdr) : Recovered[hdr[i]] = dlog[i]
         /\ \A b \in Block : b \notin Elems(hdr) => Recovered[b] = disk[b]
<1>1. ASSUME NEW i \in 1..Len(hdr) PROVE Recovered[hdr[i]] = dlog[i]
  <2>1. hdr[i] \in Block BY Facts, Zenon
  <2> DEFINE j == CHOOSE k \in 1..Len(hdr) : hdr[k] = hdr[i]
  <2>2. j \in 1..Len(hdr) /\ hdr[j] = hdr[i] OBVIOUS
  <2>3. j = i BY <2>2, Parts, Zenon DEF DiskInv, Injective
  <2> HIDE DEF j
  <2>4. Recovered[hdr[i]] = dlog[j] BY <2>1, Zenon DEF Recovered, j
  <2> QED BY <2>3, <2>4, Zenon
<1>2. ASSUME NEW b \in Block, b \notin Elems(hdr) PROVE Recovered[b] = disk[b]
  BY <1>2, Zenon DEF Recovered, Elems
<1> QED BY <1>1, <1>2, Zenon

\* The committed state changes only when the header, or a block that the header
\* does not cover, does.
LEMMA RecoveredSame ==
  ASSUME hdr' = hdr,
         \A i \in 1..Len(hdr) : dlog'[i] = dlog[i],
         \A b \in Block : b \notin Elems(hdr) => disk'[b] = disk[b]
  PROVE  Recovered' = Recovered
<1>1. ASSUME NEW b \in Block PROVE Recovered'[b] = Recovered[b]
  <2>1. CASE b \in Elems(hdr)
    <3> DEFINE k == CHOOSE i \in 1..Len(hdr) : hdr[i] = b
    <3>1. k \in 1..Len(hdr) BY <2>1, Zenon DEF Elems
    <3> HIDE DEF k
    <3>2. Recovered[b] = dlog[k] BY <2>1, Zenon DEF Recovered, Elems, k
    <3>3. Recovered'[b] = dlog'[k] BY <2>1, Zenon DEF Recovered, Elems, k
    <3> QED BY <3>1, <3>2, <3>3, Zenon
  <2>2. CASE b \notin Elems(hdr)
    BY <2>2, Zenon DEF Recovered, Elems
  <2> QED BY <2>1, <2>2, Zenon
<1> QED BY <1>1, Zenon DEF Recovered

\* The file system's view changes only with the cache, or with the disk under a
\* block that is not cached.
LEMMA VolatileSame ==
  ASSUME boot = "up", boot' = "up", \A b \in Block : Read(b)' = Read(b)
  PROVE  Volatile' = Volatile
BY Zenon DEF Volatile

\* After the header is erased, recovery finds the home blocks.
LEMMA AfterErase ==
  ASSUME hdr' = <<>>, disk' = disk
  PROVE  Recovered' = [b \in Block |-> disk[b]]
<1>1. \A b \in Block : ~\E i \in 1..Len(hdr') : hdr'[i] = b BY EmptySeq
<1> QED BY <1>1, Zenon DEF Recovered, Elems

\* When every home block already holds the committed value, recovery changes none.
LEMMA AllHome ==
  ASSUME \A b \in Block : Recovered[b] = disk[b]
  PROVE  Recovered = [b \in Block |-> disk[b]]
<1>1. Recovered = [b \in Block |-> Recovered[b]] BY Zenon DEF Recovered
<1> HIDE DEF Recovered
<1> QED BY <1>1, Zenon

\* Some process has written the header, and not yet erased it.
SomeInstalled == \E p \in Proc : Installed(p)
\* The committed state is what the file system reads.
CommittedView == \A b \in Block : Recovered[b] = Read(b)

\* From the header write to its erasure, the committed state is what is read.
LEMMA InstalledView == IInv /\ SomeInstalled => CommittedView
<1> SUFFICES ASSUME IInv, NEW p \in Proc, Installed(p)
             PROVE  \A b \in Block : Recovered[b] = Read(b)
  BY Zenon DEF SomeInstalled, CommittedView
<1> USE Facts
<1>1. boot = "up" /\ hdr = lh
  BY Alone, Parts, Zenon DEF Installed, CommitPC, CommitInv, CommitAt
<1>2. \A b \in Block : b \notin pinned => Read(b) = disk[b]
  BY <1>1, Parts, Zenon DEF Read, CacheInv
<1>3. ASSUME NEW b \in Block PROVE Recovered[b] = Read(b)
  <2>1. CASE b \notin Elems(hdr)
    <3>1. b \notin pinned
      <4>1. CASE pc[p] = "erase"
        BY <1>1, <4>1, Parts, Zenon DEF CommitInv, CommitAt
      <4>2. CASE pc[p] = "install"
        <5>1. pinned = {lh[i] : i \in tail..Len(lh)} /\ tail \in 1..Len(lh)
          BY <1>1, <4>2, Parts, Zenon DEF CommitInv, CommitAt, TailInv
        <5>2. \A i \in tail..Len(lh) : i \in 1..Len(lh)
          BY <5>1
        <5> QED BY <1>1, <2>1, <5>1, <5>2, Zenon DEF Elems
      <4> QED BY <4>1, <4>2, Zenon DEF Installed
    <3> QED BY <1>2, <2>1, <3>1, RecoveredIs, Zenon
  <2>2. ASSUME NEW i \in 1..Len(hdr), b = hdr[i] PROVE Recovered[b] = Read(b)
    <3>1. Recovered[b] = dlog[i] BY <2>2, RecoveredIs, Zenon
    <3>2. CASE pc[p] = "erase"
      BY <1>1, <1>2, <2>2, <3>1, <3>2, Parts, Zenon DEF CommitInv, CommitAt
    <3>3. CASE pc[p] = "install"
      <4>1. tail \in 1..Len(lh) BY <3>3, Parts, Zenon DEF TailInv
      <4>4. /\ pinned = {lh[j] : j \in tail..Len(lh)}
            /\ \A j \in 1..(tail - 1) : disk[lh[j]] = dlog[j]
            /\ \A j \in tail..Len(lh) : dlog[j] = cache[lh[j]]
        BY <1>1, <3>3, Parts, Zenon DEF CommitInv, CommitAt
      <4>5. Injective(lh) BY <1>1, Parts, Zenon DEF CacheInv
      <4>2. CASE i < tail
        <5>1. disk[b] = dlog[i] BY <1>1, <2>2, <4>1, <4>2, <4>4
        <5>2. b \notin pinned BY <1>1, <2>2, <4>1, <4>2, <4>4, <4>5 DEF Injective
        <5> QED BY <1>2, <2>2, <3>1, <5>1, <5>2, Zenon
      <4>3. CASE i >= tail
        <5>1. b \in pinned /\ dlog[i] = cache[b] BY <1>1, <2>2, <4>1, <4>3, <4>4
        <5>2. cache[b] # NoBuf BY <1>1, <5>1, Parts, Zenon DEF CacheInv
        <5> QED BY <3>1, <5>1, <5>2, Zenon DEF Read
      <4> QED BY <4>1, <4>2, <4>3
    <3> QED BY <3>2, <3>3, Zenon DEF Installed
  <2> QED BY <2>1, <2>2, Zenon DEF Elems
<1> QED BY <1>3, Zenon

\* Steps that leave disk, log, cache and boot alone change at most who is
\* running.
LEMMA OnlyRunningMoves ==
  ASSUME UNCHANGED <<dev, cache, boot>>
  PROVE  UNCHANGED <<Recovered, Volatile>>
<1>1. Recovered' = Recovered BY RecoveredSame, Zenon DEF dev
<1> QED BY <1>1, Zenon DEF Volatile, Read, dev

\* Every step of the log is a step of the transactional disk or a stutter.
LEMMA Simulation ==
  ASSUME IInv, [Next]_vars
  PROVE  [Abstract!Next]_(Abstract!vars)
<1> USE DEF IInv, TypeInv, TypeOK, Abstract!vars, Abstract!Next
<1>0. \A b \in Block : \A i \in 1..Len(lh) : lh[i] \in Block BY Facts, Zenon
<1>1. ASSUME NEW p \in Proc, begin_op_sleep(p) PROVE UNCHANGED Abstract!vars
  <2>1. Running' = Running BY <1>1, Zenon DEF begin_op_sleep, Running
  <2> QED BY <1>1, <2>1, OnlyRunningMoves, Zenon DEF begin_op_sleep
<1>2. ASSUME NEW p \in Proc, begin_op(p) PROVE Abstract!Begin(p)
  <2>1. Running' = Running \cup {p} BY <1>2, Zenon DEF begin_op, Running
  <2> QED BY <1>2, <2>1, OnlyRunningMoves, Zenon DEF begin_op, Abstract!Begin
<1>3. ASSUME NEW p \in Proc, NEW b \in Block, NEW v \in Data, log_write(p, b, v)
      PROVE  Abstract!Write(p, b, v)
  <2>1. boot = "up" /\ boot' = "up"
    BY <1>3, NobodyCommits, Zenon DEF log_write
  <2>2. Recovered' = Recovered BY <1>3, RecoveredSame, Zenon DEF log_write, dev
  <2>3. Running' = Running /\ p \in Running BY <1>3, Zenon DEF log_write, Running
  <2>4. Volatile' = [Volatile EXCEPT ![b] = v]
    <3>1. v # NoBuf BY LogAssumption, Zenon
    <3> QED BY <1>3, <2>1, <3>1, Zenon DEF log_write, Absorbed, Volatile, Read, dev
  <2> QED BY <2>2, <2>3, <2>4, Zenon DEF Abstract!Write
<1>4. ASSUME NEW p \in Proc, end_op_first(p) PROVE Abstract!End(p)
  <2>1. Running' = Running \ {p} /\ p \in Running
    BY <1>4, Zenon DEF end_op_first, WakeupAnd, Running
  <2> QED BY <1>4, <2>1, OnlyRunningMoves, Zenon DEF end_op_first, Abstract!End
<1>5. ASSUME NEW p \in Proc, end_op_last(p) PROVE Abstract!End(p)
  <2>1. Running' = Running \ {p} /\ p \in Running
    BY <1>5, Zenon DEF end_op_last, Running
  <2> QED BY <1>5, <2>1, OnlyRunningMoves, Zenon DEF end_op_last, Abstract!End
<1>6. ASSUME NEW p \in Proc, commit(p) PROVE UNCHANGED Abstract!vars
  <2>1. Running' = Running BY <1>6, Zenon DEF commit, CommitEntry, Running
  <2> QED BY <1>6, <2>1, OnlyRunningMoves, Zenon DEF commit
<1>7. ASSUME NEW p \in Proc, write_log(p) PROVE UNCHANGED Abstract!vars
  <2>1. boot = "up" /\ hdr = <<>>
    BY <1>7, Alone, Zenon DEF write_log, CommitPC, Installed, DataInv, CacheInv
  <2>2. Recovered' = Recovered BY <1>7, <2>1, EmptySeq, RecoveredSame DEF write_log
  <2>3. \A b \in Block : Read(b)' = Read(b)
    <3>1. tail \in 1..Len(lh) BY <1>7, Zenon DEF write_log, TailInv
    <3>2. Read(lh[tail]) \in Contents BY <1>0, <3>1, Facts, Zenon DEF Read
    <3> QED BY <1>7, <3>2, Facts, Zenon DEF write_log, Read
  <2>4. Volatile' = Volatile BY <1>7, <2>1, <2>3, VolatileSame, Zenon DEF write_log
  <2>5. Running' = Running BY <1>7, Zenon DEF write_log, Running
  <2> QED BY <2>2, <2>4, <2>5, Zenon
<1>8. ASSUME NEW p \in Proc, write_head(p) PROVE Abstract!Commit
  <2>1. boot = "up" /\ Running = {}
    BY <1>8, Alone, Zenon DEF write_head, CommitPC, Running
  <2>2. Volatile' = Volatile
    BY <1>8, <2>1, VolatileSame, Zenon DEF write_head, Read
  <2>3. Running' = Running BY <1>8, Zenon DEF write_head, Running
  <2>4. IInv' /\ SomeInstalled'
    BY <1>8, StepIInv, Zenon DEF write_head, Installed, SomeInstalled
  <2>5. CommittedView'
    <3> HIDE DEF IInv
    <3> QED BY <2>4, InstalledView, PTL
  <2>6. Recovered' = Volatile'
    <3>1. boot' = "up"
      BY <1>8, <2>1, Zenon DEF write_head
    <3>2. \A b \in Block : Recovered'[b] = Read(b)'
      BY <2>5, Zenon DEF CommittedView
    <3> QED BY <3>1, <3>2, Zenon DEF Volatile, Recovered
  <2> QED BY <2>1, <2>2, <2>3, <2>6, Zenon DEF Abstract!Commit
<1>9. ASSUME NEW p \in Proc, install_trans(p) PROVE UNCHANGED Abstract!vars
  <2>1. Installed(p) /\ pc[p] = "install" BY <1>9, Zenon DEF install_trans, Installed
  <2>2. boot = "up" /\ hdr = lh /\ tail \in 1..Len(lh)
    BY <2>1, Alone, Zenon DEF CommitPC, DataInv, CommitInv, CommitAt, TailInv
  <2>3. dlog[tail] = Recovered[lh[tail]] BY <2>2, RecoveredIs, Zenon
  <2>4. dlog[tail] = Read(lh[tail])
    <3>1. SomeInstalled /\ lh[tail] \in Block BY <2>1, <2>2, Facts, Zenon DEF SomeInstalled
    <3>2. CommittedView BY <1>0, <3>1, InstalledView, Zenon
    <3> QED BY <2>3, <3>1, <3>2, Zenon DEF CommittedView
  <2>5. Recovered' = Recovered
    BY <1>9, <2>2, RecoveredSame, Zenon DEF install_trans, InstallBlock, Elems
  <2>6. \A b \in Block : Read(b)' = Read(b)
    <3>1. dlog[tail] # NoBuf BY <2>2, Facts, Zenon DEF DataInv, DiskInv
    <3> QED BY <1>9, <2>4, <3>1, Zenon DEF install_trans, InstallBlock, Read
  <2>7. Volatile' = Volatile BY <1>9, <2>2, <2>6, VolatileSame, Zenon DEF install_trans
  <2>8. Running' = Running BY <1>9, Zenon DEF install_trans, Running
  <2> QED BY <2>5, <2>7, <2>8, Zenon
<1>10. ASSUME NEW p \in Proc, commit_erase(p) PROVE UNCHANGED Abstract!vars
  <2>1. Installed(p) /\ pc[p] = "erase" BY <1>10, Zenon DEF commit_erase, Installed
  <2>2. boot = "up" /\ pinned = {} BY <2>1, Alone, Zenon DEF CommitPC, DataInv, CommitInv, CommitAt
  <2>3. \A b \in Block : Recovered[b] = Read(b)
    BY <2>1, InstalledView, Zenon DEF SomeInstalled, CommittedView
  <2>4. \A b \in Block : Read(b) = disk[b] BY <2>2, Zenon DEF Read, DataInv, CacheInv
  <2>5. Recovered' = [b \in Block |-> disk[b]] BY <1>10, AfterErase, Zenon DEF commit_erase
  <2>6. Recovered' = Recovered BY <2>3, <2>4, <2>5, AllHome, Zenon
  <2>7. Volatile' = Volatile BY <1>10, <2>2, VolatileSame, Zenon DEF commit_erase, Read
  <2>8. Running' = Running BY <1>10, Zenon DEF commit_erase, Running
  <2> QED BY <2>6, <2>7, <2>8, Zenon
<1>11. ASSUME NEW p \in Proc, end_op_done(p) PROVE UNCHANGED Abstract!vars
  <2>1. Running' = Running BY <1>11, Zenon DEF end_op_done, WakeupAnd, Running
  <2> QED BY <1>11, <2>1, OnlyRunningMoves, Zenon DEF end_op_done
<1>12. ASSUME NEW b \in Block, bread(b) \/ bget_recycle(b) PROVE UNCHANGED Abstract!vars
  <2>1. UNCHANGED <<disk, hdr, dlog, boot, pc>> BY <1>12, Zenon DEF bread, bget_recycle, dev
  <2>2. Recovered' = Recovered BY <2>1, RecoveredSame, Zenon
  <2>3. ASSUME boot = "up" PROVE \A c \in Block : Read(c)' = Read(c)
    <3>1. cache[b] \in {NoBuf, disk[b]}
      BY <1>12, <2>3, Zenon DEF bread, bget_recycle, DataInv, CacheInv
    <3> QED BY <1>12, <2>1, <3>1, Zenon DEF bread, bget_recycle, Read
  <2>4. Volatile' = Volatile BY <2>1, <2>2, <2>3, Zenon DEF Volatile
  <2> QED BY <2>1, <2>2, <2>4, Zenon DEF Running
<1>13. CASE Recover
  <2>1. boot # "up" /\ pc' = pc /\ Volatile = Recovered
    BY <1>13, Zenon DEF Recover, read_head, recover_install, recover_erase, Volatile
  <2>2. Recovered' = Recovered
    <3>1. CASE read_head BY <3>1, RecoveredSame, Zenon DEF read_head, dev
    <3>2. CASE recover_install
      <4>1. lh = hdr /\ tail \in 1..Len(hdr)
        BY <3>2, Zenon DEF recover_install, BootTailInv, DataInv, BootInv
      <4> QED BY <3>2, <4>1, RecoveredSame, Zenon DEF recover_install, InstallBlock, Elems
    <3>3. CASE recover_erase
      <4>1. \A i \in 1..Len(hdr) : disk[hdr[i]] = dlog[i]
        BY <3>3, Zenon DEF recover_erase, DataInv, BootInv
      <4>2. ASSUME NEW b \in Block PROVE Recovered[b] = disk[b]
        <5>1. CASE b \notin Elems(hdr) BY <5>1, RecoveredIs, Zenon
        <5>2. ASSUME NEW i \in 1..Len(hdr), b = hdr[i] PROVE Recovered[b] = disk[b]
          BY <4>1, <5>2, RecoveredIs, Zenon
        <5> QED BY <5>1, <5>2, Zenon DEF Elems
      <4>3. Recovered' = [b \in Block |-> disk[b]] BY <3>3, AfterErase, Zenon DEF recover_erase
      <4> QED BY <4>2, <4>3, AllHome, Zenon
    <3> QED BY <1>13, <3>1, <3>2, <3>3, Zenon DEF Recover
  <2>3. Volatile' = Volatile
    <3>1. CASE boot' # "up" BY <2>1, <2>2, <3>1, Zenon DEF Volatile
    <3>2. CASE boot' = "up"
      <4>1. recover_erase
        BY <1>13, <3>2, Zenon DEF Recover, read_head, recover_install
      <4>2. /\ UNCHANGED <<disk, cache>> /\ hdr' = <<>>
            /\ \A b \in Block : cache[b] \in {NoBuf, disk[b]}
        BY <4>1, Zenon DEF recover_erase, DataInv, BootInv
      <4>3. Recovered' = [b \in Block |-> disk[b]] BY <4>2, AfterErase, Zenon
      <4>4. Volatile' = [b \in Block |-> disk[b]] BY <3>2, <4>2, Zenon DEF Volatile, Read
      <4> QED BY <2>1, <2>2, <4>3, <4>4, Zenon
    <3> QED BY <3>1, <3>2, Zenon
  <2> QED BY <2>1, <2>2, <2>3, Zenon DEF Running
<1>14. CASE Crashes
  <2>1. boot' = "read_head" /\ Running' = {}
    BY <1>14, Zenon DEF Crashes, crash, crash_torn_home, crash_torn_log, Reboot, Running
  <2>2. Recovered' = Recovered
    <3>1. CASE crash BY <3>1, RecoveredSame, Zenon DEF crash, dev
    <3>2. CASE crash_torn_home
      <4>1. lh = hdr /\ tail \in 1..Len(lh)
        <5>1. CASE boot = "install" BY <5>1, Zenon DEF BootTailInv, DataInv, BootInv
        <5>2. ASSUME NEW p \in Proc, pc[p] = "install" PROVE lh = hdr /\ tail \in 1..Len(lh)
          BY <5>2, Alone, Zenon DEF CommitPC, Installed, TailInv, DataInv, CommitInv, CommitAt
        <5> QED BY <3>2, <5>1, <5>2, Zenon DEF crash_torn_home, Installing
      <4> QED BY <3>2, <4>1, RecoveredSame, Zenon DEF crash_torn_home, Elems
    <3>3. CASE crash_torn_log
      <4>1. PICK p \in Proc : pc[p] = "write_log" BY <3>3, Zenon DEF crash_torn_log, Logging
      <4>2. hdr = <<>> BY <4>1, Alone, Zenon DEF CommitPC, Installed, DataInv, CacheInv
      <4> QED BY <3>3, <4>2, EmptySeq, RecoveredSame DEF crash_torn_log
    <3> QED BY <1>14, <3>1, <3>2, <3>3, Zenon DEF Crashes
  <2> QED BY <2>1, <2>2, Zenon DEF Volatile, Abstract!Crash
<1>15. CASE UNCHANGED vars
  BY <1>15, OnlyRunningMoves, Zenon DEF vars, Running, dev
<1> QED
  BY <1>1, <1>2, <1>3, <1>4, <1>5, <1>6, <1>7, <1>8, <1>9, <1>10, <1>11, <1>12,
     <1>13, <1>14, <1>15, Zenon
  DEF Next, ProcStep, Crashes

\* The log implements the transactional disk: whatever the interleaving of the
\* system calls and wherever the machine crashes, each group of calls is
\* committed as a whole by the header write of commit(), or not at all.
THEOREM Atomicity == Spec => CrashAtomic
<1>1. Init => Abstract!Init
  <2> SUFFICES ASSUME Init PROVE Abstract!Init OBVIOUS
  <2>1. Recovered = disk BY EmptySeq DEF Init, Recovered
  <2> QED BY <2>1, Zenon DEF Init, Abstract!Init, Volatile, Running
<1>2. IInv /\ [Next]_vars => [Abstract!Next]_(Abstract!vars) BY Simulation, Zenon
<1> QED BY <1>1, <1>2, Invariance, PTL DEF Spec, CrashAtomic, Abstract!Spec

-------------------------------------------------------------------------------
(* The space that begin_op() reserves: log_write() never panics.  The argument  *)
(* counts the blocks that the running calls may still log.                     *)

\* Which running call wrote which block.
Written == {w \in Running \X Block : w[2] \in wrote[w[1]]}

\* A call logs at most OPBLOCKS blocks, and each of them is in the log.
WroteInv == \A p \in Proc :
  /\ IsFiniteSet(wrote[p]) /\ Cardinality(wrote[p]) <= OPBLOCKS
  /\ wrote[p] \subseteq Elems(lh)
  /\ pc[p] # "op" => wrote[p] = {}

\* The log and what the running calls may still add fit, with a block to spare.
FitsInv == Running # {} =>
  Len(lh) + outstanding * OPBLOCKS - Cardinality(Written) <= LOGSIZE - 2

SpaceInv == WroteInv /\ FitsInv

-------------------------------------------------------------------------------
\* Pairs of one of finitely many things and one of at most k things that belong to it.
LEMMA PairsBounded ==
  ASSUME NEW R, IsFiniteSet(R), NEW S, NEW f, NEW k \in Nat,
         \A r \in R : IsFiniteSet(f[r]) /\ Cardinality(f[r]) <= k
  PROVE  LET W == {w \in R \X S : w[2] \in f[w[1]]}
         IN  IsFiniteSet(W) /\ Cardinality(W) <= Cardinality(R) * k
<1> DEFINE W == {w \in R \X S : w[2] \in f[w[1]]}
           Enum(r) == CHOOSE g : g \in Bijection(1..Cardinality(f[r]), f[r])
           Rank(r, b) == CHOOSE i \in 1..Cardinality(f[r]) : Enum(r)[i] = b
           F == [w \in W |-> <<w[1], Rank(w[1], w[2])>>]
<1>1. ASSUME NEW r \in R
      PROVE  Enum(r) \in Bijection(1..Cardinality(f[r]), f[r]) /\ Cardinality(f[r]) \in Nat
  <2>1. ExistsBijection(1..Cardinality(f[r]), f[r]) /\ Cardinality(f[r]) \in Nat
    BY FS_CardinalityType, Zenon
  <2> QED BY <2>1, Zenon DEF ExistsBijection
<1>2. ASSUME NEW r \in R, NEW b \in f[r]
      PROVE  Rank(r, b) \in 1..k /\ Enum(r)[Rank(r, b)] = b
  <2> HIDE DEF Enum
  <2>1. \E i \in 1..Cardinality(f[r]) : Enum(r)[i] = b
    BY <1>1, Zenon DEF Bijection, Surjection
  <2>2. Rank(r, b) \in 1..Cardinality(f[r]) /\ Enum(r)[Rank(r, b)] = b
    BY <2>1, Zenon
  <2> QED BY <1>1, <2>2
<1> HIDE DEF Rank, Enum
<1>3. F \in [W -> R \X (1..k)]
  BY <1>2, Zenon
<1>4. ASSUME NEW w \in W, NEW v \in W, F[w] = F[v] PROVE w = v
  <2>1. w[1] = v[1] /\ Rank(w[1], w[2]) = Rank(w[1], v[2])
    BY <1>4, Zenon
  <2>2. w[2] = v[2]
    BY <1>2, <2>1
  <2> QED BY <2>1, <2>2
<1>5. F \in Injection(W, R \X (1..k))
  <2> HIDE DEF F, W
  <2> QED BY <1>3, <1>4, Zenon DEF Injection, IsInjective
<1>6. IsFiniteSet(1..k) /\ Cardinality(1..k) = k
  BY FS_Interval
<1>7. IsFiniteSet(R \X (1..k)) /\ Cardinality(R \X (1..k)) = Cardinality(R) * k
  BY <1>6, FS_Product, Zenon
<1> HIDE DEF F, W
<1>8. IsFiniteSet(W) /\ Cardinality(W) <= Cardinality(R) * k
  BY <1>5, <1>7, FS_Injection
<1> QED BY <1>8, Zenon DEF W

\* The blocks that the running calls wrote are at most as many as they may write.
LEMMA WrittenBound ==
  ASSUME IInv, WroteInv
  PROVE  /\ IsFiniteSet(Running) /\ outstanding \in Nat
         /\ IsFiniteSet(Written) /\ Cardinality(Written) \in Nat
         /\ Cardinality(Written) <= outstanding * OPBLOCKS
<1>1. IsFiniteSet(Running) /\ outstanding = Cardinality(Running)
  BY LogAssumption, FS_Subset, Zenon DEF IInv, QuietInv, Running
<1>2. \A p \in Running : IsFiniteSet(wrote[p]) /\ Cardinality(wrote[p]) <= OPBLOCKS
  BY Zenon DEF WroteInv, Running
<1>3. OPBLOCKS \in Nat
  BY LogAssumption
<1>4. IsFiniteSet(Written) /\ Cardinality(Written) <= Cardinality(Running) * OPBLOCKS
  BY <1>1, <1>2, <1>3, PairsBounded, Zenon DEF Written
<1> QED BY <1>1, <1>4, FS_CardinalityType, Zenon

\* Steps that change neither the log, nor who is running, nor what they wrote.
LEMMA SpaceSame ==
  ASSUME IInv, SpaceInv, UNCHANGED <<wrote, lh, outstanding>>,
         \A p \in Proc : pc'[p] = "op" <=> pc[p] = "op"
  PROVE  SpaceInv'
<1>1. Running' = Running
  BY Zenon DEF Running
<1>2. Written' = Written
  BY <1>1, Zenon DEF Written
<1> QED BY <1>1, <1>2, Zenon DEF SpaceInv, WroteInv, FitsInv, Elems

\* Steps after which no call is running.
LEMMA SpaceQuiet ==
  ASSUME \A p \in Proc : pc'[p] # "op" /\ wrote'[p] = {}
  PROVE  SpaceInv'
<1>1. Running' = {}
  BY Zenon DEF Running
<1> QED BY <1>1, FS_EmptySet, LogAssumption DEF SpaceInv, WroteInv, FitsInv

\* begin_op(): the log has room for all calls, or it is empty.
LEMMA SpaceBegin ==
  ASSUME IInv, SpaceInv, NEW p \in Proc, begin_op(p)
  PROVE  SpaceInv'
<1> DEFINE n == outstanding
<1>1. /\ n \in Nat /\ Len(lh) \in Nat /\ LOGSIZE = MAXOPBLOCKS * 3
      /\ MAXOPBLOCKS \in Nat /\ OPBLOCKS \in Nat /\ OPBLOCKS + 1 <= MAXOPBLOCKS
  BY LogAssumption, SpaceAssumption DEF IInv, TypeInv, TypeOK, LOGSIZE
<1>2. /\ Running' = Running \cup {p} /\ outstanding' = n + 1
      /\ wrote' = wrote /\ lh' = lh /\ p \notin Running
  BY Zenon DEF begin_op, Running, IInv, TypeInv, TypeOK
<1>3. WroteInv'
  <2>1. WroteInv
    BY Zenon DEF SpaceInv
  <2>2. \A q \in Proc : pc'[q] # "op" => pc[q] # "op"
    <3>1. pc' = [pc EXCEPT ![p] = "op"] /\ DOMAIN pc = Proc
      BY Zenon DEF begin_op, IInv, TypeInv, TypeOK
    <3> QED BY <3>1, Zenon
  <2>3. wrote' = wrote /\ lh' = lh
    BY <1>2, Zenon
  <2>4. ASSUME NEW q \in Proc
        PROVE  /\ IsFiniteSet(wrote'[q]) /\ Cardinality(wrote'[q]) <= OPBLOCKS
               /\ wrote'[q] \subseteq Elems(lh') /\ (pc'[q] # "op" => wrote'[q] = {})
    <3>1. /\ IsFiniteSet(wrote[q]) /\ Cardinality(wrote[q]) <= OPBLOCKS
          /\ wrote[q] \subseteq Elems(lh) /\ (pc[q] # "op" => wrote[q] = {})
      BY <2>1, Zenon DEF WroteInv
    <3> QED BY <2>2, <2>3, <3>1, Zenon
  <2> QED BY <2>4, Zenon DEF WroteInv, Elems
<1>4. Written' = Written
  BY <1>2, Zenon DEF Written, SpaceInv, WroteInv, begin_op
<1>5. Cardinality(Written) \in Nat
  BY WrittenBound, Zenon DEF SpaceInv
<1>6. Len(lh) + (n + 1) * OPBLOCKS <= LOGSIZE - 2
  <2>1. CASE n = 0
    <3>1. lh = <<>>
      BY <2>1, Zenon DEF begin_op, MustWait, IInv, DataInv, IdleInv, TypeInv, TypeOK
    <3> QED BY <1>1, <2>1, <3>1
  <2>2. CASE n > 0
    <3>1. Len(lh) + (n + 1) * MAXOPBLOCKS <= LOGSIZE
      BY <1>1 DEF begin_op, MustWait, NoSpace
    <3>2. (n + 1) * OPBLOCKS + (n + 1) <= (n + 1) * MAXOPBLOCKS
      BY <1>1
    <3>3. (n + 1) * OPBLOCKS \in Nat /\ (n + 1) * MAXOPBLOCKS \in Nat
      BY <1>1
    <3> HIDE DEF n
    <3> QED BY <1>1, <2>2, <3>1, <3>2, <3>3
  <2> QED BY <1>1, <2>1, <2>2
<1>7. FitsInv'
  BY <1>1, <1>2, <1>4, <1>5, <1>6 DEF FitsInv
<1> QED BY <1>3, <1>7, Zenon DEF SpaceInv

\* log_write(): a block that is new in the log is new for the call.
LEMMA SpaceWrite ==
  ASSUME IInv, SpaceInv, NEW p \in Proc, NEW b \in Block, NEW v \in Data, log_write(p, b, v)
  PROVE  SpaceInv'
<1>1. /\ p \in Running /\ Running' = Running /\ outstanding' = outstanding
      /\ wrote' = [wrote EXCEPT ![p] = @ \cup {b}] /\ wrote \in [Proc -> SUBSET Block]
      /\ Len(lh) \in Nat /\ lh \in Seq(Block)
  BY DEF log_write, Running, IInv, TypeInv, TypeOK
<1>2. /\ \A q \in Proc : wrote'[q] = IF q = p THEN wrote[p] \cup {b} ELSE wrote[q]
      /\ pc' = pc
  BY <1>1, Zenon DEF log_write
<1>3. Elems(lh) \cup {b} = Elems(lh')
  <2>1. CASE b \in Elems(lh)
    BY <2>1, Zenon DEF log_write, Absorbed, Elems
  <2>2. CASE b \notin Elems(lh)
    <3>1. lh' = Append(lh, b)
      BY <2>2, Zenon DEF log_write, Absorbed
    <3> DEFINE n == Len(lh)
               a == Append(lh, b)
    <3>2. /\ Len(a) = n + 1 /\ a[n + 1] = b /\ \A i \in 1..n : a[i] = lh[i]
      BY <1>1, AppendIs, Zenon
    <3>3. n + 1 \in 1..(n + 1) /\ \A i \in 1..(n + 1) : i = n + 1 \/ i \in 1..n
      BY <1>1
    <3>4. \A i \in 1..n : i \in 1..(n + 1)
      BY <1>1
    <3> HIDE DEF n, a
    <3>5. lh' = a /\ Elems(lh) = {lh[i] : i \in 1..n}
      BY <3>1, Zenon DEF a, n, Elems
    <3>6. Elems(lh') = {a[i] : i \in 1..(n + 1)}
      BY <3>2, <3>5, Zenon DEF Elems
    <3> QED BY <3>2, <3>3, <3>4, <3>5, <3>6, Zenon
  <2> QED BY <2>1, <2>2, Zenon
<1>4. IsFiniteSet(wrote[p] \cup {b}) /\ Cardinality(wrote[p] \cup {b}) <= OPBLOCKS
  BY FS_AddElement, Zenon DEF log_write, SpaceInv, WroteInv
<1>5. WroteInv'
  BY <1>1, <1>2, <1>3, <1>4, Zenon DEF WroteInv, SpaceInv, Running
<1>6. Written' = Written \cup {<<p, b>>}
  BY <1>1, <1>2 DEF Written, Running
<1>7. /\ IsFiniteSet(Written) /\ Cardinality(Written) \in Nat
      /\ outstanding \in Nat /\ OPBLOCKS \in Nat /\ LOGSIZE \in Nat
  BY WrittenBound, LogAssumption, LogSizeNat DEF SpaceInv
<1>8. Cardinality(Written') = IF <<p, b>> \in Written THEN Cardinality(Written)
                                                    ELSE Cardinality(Written) + 1
  BY <1>6, <1>7, FS_AddElement, Zenon
<1>9. /\ Len(lh') = IF b \in Elems(lh) THEN Len(lh) ELSE Len(lh) + 1
      /\ <<p, b>> \in Written => b \in Elems(lh)
  <2>1. <<p, b>> \in Written => b \in Elems(lh)
    BY Zenon DEF Written, SpaceInv, WroteInv
  <2> QED BY <1>1, <2>1, AppendIs, Zenon DEF log_write, Absorbed
<1>10. Len(lh') - Cardinality(Written') <= Len(lh) - Cardinality(Written)
  BY <1>1, <1>7, <1>8, <1>9
<1>11. outstanding * OPBLOCKS \in Nat
  BY <1>7
<1>12. /\ Len(lh') \in Nat /\ Cardinality(Written') \in Nat
       /\ Len(lh) + outstanding * OPBLOCKS - Cardinality(Written) <= LOGSIZE - 2
  <2>1. Len(lh) + outstanding * OPBLOCKS - Cardinality(Written) <= LOGSIZE - 2
    BY <1>1, Zenon DEF SpaceInv, FitsInv
  <2>2. Len(lh) \in Nat /\ Cardinality(Written) \in Nat
    BY <1>1, <1>7, Zenon
  <2> QED BY <1>8, <1>9, <2>1, <2>2
<1>13. Len(lh') + outstanding * OPBLOCKS - Cardinality(Written') <= LOGSIZE - 2
  BY <1>1, <1>7, <1>10, <1>11, <1>12
<1>14. FitsInv'
  BY <1>1, <1>13, Zenon DEF FitsInv, LOGSIZE
<1> QED BY <1>5, <1>14, Zenon DEF SpaceInv

\* end_op() of a call that is not the last one: it gives back at most what it wrote.
LEMMA SpaceEnd ==
  ASSUME IInv, SpaceInv, NEW p \in Proc, end_op_first(p)
  PROVE  SpaceInv'
<1> DEFINE Own == {p} \X wrote[p]
<1>1. /\ p \in Running /\ Running' = Running \ {p} /\ lh' = lh
      /\ outstanding' = outstanding - 1
      /\ \A q \in Proc : wrote'[q] = IF q = p THEN {} ELSE wrote[q]
      /\ wrote[p] \subseteq Block
  BY Zenon DEF end_op_first, WakeupAnd, Running, IInv, TypeInv, TypeOK
<1>2. WroteInv'
  <2>1. WroteInv /\ IsFiniteSet({}) /\ Cardinality({}) <= OPBLOCKS
    BY FS_EmptySet, LogAssumption DEF SpaceInv
  <2>2. \A q \in Proc : q # p /\ pc'[q] # "op" => pc[q] # "op"
    BY DEF end_op_first, WakeupAnd
  <2> QED BY <1>1, <2>1, <2>2 DEF WroteInv, Elems
<1>3. Written' = Written \ Own
  BY <1>1, Zenon DEF Written, Running
<1>4. /\ IsFiniteSet(Written) /\ Cardinality(Written) \in Nat
      /\ outstanding \in Nat /\ OPBLOCKS \in Nat /\ LOGSIZE \in Nat /\ Len(lh) \in Nat
  BY WrittenBound, LogAssumption, LogSizeNat DEF SpaceInv, IInv, TypeInv, TypeOK
<1>5. IsFiniteSet(wrote[p]) /\ Cardinality(wrote[p]) \in Nat /\ Cardinality(wrote[p]) <= OPBLOCKS
  BY FS_CardinalityType, Zenon DEF SpaceInv, WroteInv
<1>6. IsFiniteSet(Own) /\ Cardinality(Own) <= OPBLOCKS
  <2>1. IsFiniteSet({p}) /\ Cardinality({p}) = 1
    BY FS_Singleton, Zenon
  <2>2. IsFiniteSet(Own) /\ Cardinality(Own) = 1 * Cardinality(wrote[p])
    BY <1>5, <2>1, FS_Product, Zenon
  <2> QED BY <1>5, <2>2
<1>7. /\ IsFiniteSet(Written') /\ Cardinality(Written') \in Nat
      /\ Cardinality(Written') >= Cardinality(Written) - OPBLOCKS
  <2> HIDE DEF Own
  <2>1. /\ IsFiniteSet(Written \ Own)
        /\ Cardinality(Written \ Own) = Cardinality(Written) - Cardinality(Written \cap Own)
    BY <1>4, FS_Difference, Zenon
  <2>2. /\ IsFiniteSet(Written \cap Own)
        /\ Cardinality(Written \cap Own) <= Cardinality(Own)
    BY <1>6, FS_Intersection, Zenon
  <2>3. Cardinality(Written \cap Own) \in Nat /\ Cardinality(Own) \in Nat /\ Cardinality(Written \ Own) \in Nat
    BY <1>6, <2>1, <2>2, FS_CardinalityType, Zenon
  <2> QED BY <1>3, <1>4, <1>6, <2>1, <2>2, <2>3
<1>8. (outstanding - 1) * OPBLOCKS = outstanding * OPBLOCKS - OPBLOCKS /\ outstanding * OPBLOCKS \in Nat
  BY <1>4
<1>9. Len(lh) + outstanding * OPBLOCKS - Cardinality(Written) <= LOGSIZE - 2
  BY <1>1, Zenon DEF SpaceInv, FitsInv
<1>10. Len(lh) + (outstanding - 1) * OPBLOCKS - Cardinality(Written') <= LOGSIZE - 2
  BY <1>4, <1>7, <1>8, <1>9
<1>11. FitsInv'
  BY <1>1, <1>10, Zenon DEF FitsInv, LOGSIZE
<1> QED BY <1>2, <1>11, Zenon DEF SpaceInv

\* Every step keeps the reservation sufficient.
LEMMA SpaceStep ==
  ASSUME IInv, SpaceInv, [Next]_vars
  PROVE  SpaceInv'
<1>0. /\ pc \in [Proc -> {"idle", "begin", "asleep", "op", "commit", "write_log",
                          "write_head", "install", "erase", "end_op"}]
      /\ wrote \in [Proc -> SUBSET Block]
      /\ \A p \in Proc : pc[p] # "op" => wrote[p] = {}
  BY Zenon DEF IInv, TypeInv, TypeOK, SpaceInv, WroteInv
<1>1. ASSUME NEW p \in Proc, begin_op_sleep(p) PROVE SpaceInv'
  BY <1>0, <1>1, SpaceSame, Zenon DEF begin_op_sleep
<1>2. ASSUME NEW p \in Proc, begin_op(p) PROVE SpaceInv'
  BY <1>2, SpaceBegin, Zenon
<1>3. ASSUME NEW p \in Proc, NEW b \in Block, NEW v \in Data, log_write(p, b, v)
      PROVE  SpaceInv'
  BY <1>3, SpaceWrite, Zenon
<1>4. ASSUME NEW p \in Proc, end_op_first(p) PROVE SpaceInv'
  BY <1>4, SpaceEnd, Zenon
<1>5. ASSUME NEW p \in Proc, end_op_last(p) PROVE SpaceInv'
  <2>1. IsFiniteSet(Running) /\ Cardinality(Running) = 1 /\ p \in Running
    BY <1>5, LogAssumption, FS_Subset, Zenon DEF IInv, QuietInv, Running, end_op_last
  <2>2. \A q \in Proc : q # p => pc[q] # "op"
    BY <2>1, FS_Singleton DEF Running
  <2> QED BY <1>0, <1>5, <2>2, SpaceQuiet, Zenon DEF end_op_last
<1>6. ASSUME NEW p \in Proc, commit(p) PROVE SpaceInv'
  BY <1>0, <1>6, SpaceSame, Zenon DEF commit, CommitEntry
<1>7. ASSUME NEW p \in Proc, write_log(p) PROVE SpaceInv'
  BY <1>0, <1>7, SpaceSame, Zenon DEF write_log
<1>8. ASSUME NEW p \in Proc, write_head(p) PROVE SpaceInv'
  BY <1>0, <1>8, SpaceSame, Zenon DEF write_head
<1>9. ASSUME NEW p \in Proc, install_trans(p) PROVE SpaceInv'
  BY <1>0, <1>9, SpaceSame, Zenon DEF install_trans
<1>10. ASSUME NEW p \in Proc, commit_erase(p) PROVE SpaceInv'
  <2>1. \A q \in Proc : pc[q] # "op"
    BY <1>10, Zenon DEF commit_erase, IInv, QuietInv, CommitPC, Running
  <2> QED BY <1>0, <1>10, <2>1, SpaceQuiet, Zenon DEF commit_erase
<1>11. ASSUME NEW p \in Proc, end_op_done(p) PROVE SpaceInv'
  BY <1>0, <1>11, SpaceSame, Zenon DEF end_op_done, WakeupAnd
<1>12. ASSUME NEW b \in Block, bread(b) \/ bget_recycle(b) PROVE SpaceInv'
  BY <1>12, SpaceSame, Zenon DEF bread, bget_recycle
<1>13. CASE Recover
  <2>1. \A q \in Proc : pc[q] # "op"
    BY <1>13, Zenon DEF Recover, read_head, recover_install, recover_erase, IInv, QuietInv
  <2> QED BY <1>0, <1>13, <2>1, SpaceQuiet, Zenon
          DEF Recover, read_head, recover_install, recover_erase
<1>14. CASE Reboot
  BY <1>14, SpaceQuiet, Zenon DEF Reboot
<1>15. CASE UNCHANGED vars
  BY <1>15, SpaceSame, Zenon DEF vars
<1> QED BY <1>1, <1>2, <1>3, <1>4, <1>5, <1>6, <1>7, <1>8, <1>9, <1>10, <1>11, <1>12,
           <1>13, <1>14, <1>15, Zenon
        DEF Next, ProcStep, crash, crash_torn_home, crash_torn_log

\* Nobody is running when the machine is switched on.
LEMMA SpaceInit == Init => SpaceInv
BY FS_EmptySet, LogAssumption DEF Init, SpaceInv, WroteInv, FitsInv, Running

\* With calls that write fewer blocks than begin_op() reserves for them, log_write()
\* never meets "too big a transaction" (log.c:220), however many calls overlap and
\* whatever the sizes of the log and of the disk are.
THEOREM ReservationSuffices == Spec => []LogWriteNeverPanics
<1>1. IInv /\ SpaceInv => LogWriteNeverPanics
  <2> SUFFICES ASSUME IInv, SpaceInv, Running # {} PROVE ~TooBig
    BY Zenon DEF LogWriteNeverPanics
  <2>1. /\ Cardinality(Written) \in Nat /\ outstanding \in Nat
        /\ Cardinality(Written) <= outstanding * OPBLOCKS
    BY WrittenBound, Zenon DEF SpaceInv
  <2>2. Len(lh) \in Nat /\ LOGSIZE \in Nat /\ NLOG \in Nat /\ NLOG >= LOGSIZE /\ OPBLOCKS \in Nat
    BY LogSizeNat, LogAssumption, SpaceAssumption DEF IInv, TypeInv, TypeOK
  <2>3. outstanding * OPBLOCKS \in Nat
    BY <2>1, <2>2
  <2>4. Len(lh) <= LOGSIZE - 2
    BY <2>1, <2>2, <2>3 DEF SpaceInv, FitsInv
  <2> QED BY <2>2, <2>4 DEF TooBig
<1>2. SpaceInv /\ IInv /\ [Next]_vars => SpaceInv'
  BY SpaceStep, Zenon
<1> QED BY <1>1, <1>2, SpaceInit, Invariance, PTL DEF Spec
===============================================================================
