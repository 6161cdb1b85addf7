--------------------------------- MODULE Log ---------------------------------
(***************************************************************************)
(* The write-ahead log of kernel/log.c over the buffer cache of            *)
(* kernel/bio.c and a disk that survives crashes.  Each critical section   *)
(* of log.lock and each disk write is one step; a crash may come between   *)
(* any two of them, or in the middle of a block write.                     *)
(***************************************************************************)
EXTENDS Integers, Sequences, FiniteSets

CONSTANTS Proc,         \* processes that run file-system system calls
          Block,        \* home block numbers
          Data,         \* contents of a block
          MAXOPBLOCKS,  \* blocks begin_op() reserves for one system call
          OPBLOCKS,     \* distinct blocks one system call really writes
          NLOG,         \* sb.nlog: blocks of the on-disk log, header included
          NoBuf,        \* "not in the buffer cache"
          Torn          \* a block whose two sectors are not of the same write

LOGSIZE == MAXOPBLOCKS * 3

ASSUME LogAssumption ==
  /\ MAXOPBLOCKS \in Nat \ {0}
  /\ OPBLOCKS \in 1..MAXOPBLOCKS
  /\ NLOG \in Nat
  /\ IsFiniteSet(Proc)
  /\ NoBuf \notin Data \cup {Torn}
  /\ Torn \notin Data

\* filewrite() and the other calls leave a part of their reservation unused, and mkfs
\* makes a log of LOGSIZE blocks.
ASSUME SpaceAssumption == OPBLOCKS < MAXOPBLOCKS /\ NLOG >= LOGSIZE

VARIABLES
  disk,         \* home blocks on disk
  hdr,          \* on-disk log header: the blocks of the committed transaction
  dlog,         \* on-disk log data blocks
  cache,        \* buffer cache contents by block number
  pinned,       \* blocks whose buffer carries the reference of bpin()
  lh,           \* log.lh in memory
  outstanding,  \* log.outstanding
  committing,   \* log.committing
  pc,           \* where each process is
  wrote,        \* blocks the process's current system call has written
  tail,         \* loop counter of write_log() and install_trans()
  boot          \* progress of recover_from_log()

vars == <<disk, hdr, dlog, cache, pinned, lh, outstanding, committing, pc,
          wrote, tail, boot>>
dev == <<disk, hdr, dlog>>

Contents == Data \cup {Torn}
Slot     == 1..LOGSIZE
Elems(s) == {s[i] : i \in 1..Len(s)}

Init ==
  /\ disk \in [Block -> Data]
  /\ hdr = <<>>
  /\ dlog \in [Slot -> {Torn}]
  /\ cache = [b \in Block |-> NoBuf]
  /\ pinned = {}
  /\ lh = <<>>
  /\ outstanding = 0
  /\ committing = 0
  /\ pc = [p \in Proc |-> "idle"]
  /\ wrote = [p \in Proc |-> {}]
  /\ tail = 0
  /\ boot = "read_head"

\* What bread() returns for block b: the cached buffer, or else the disk's.
Read(b) == IF cache[b] = NoBuf THEN disk[b] ELSE cache[b]

\* wakeup(&log), and process p moves to l.
MutNoWakeup(p, l) == pc' = [pc EXCEPT ![p] = l]

WakeupAnd(p, l) ==
  pc' = [q \in Proc |-> IF q = p THEN l
                        ELSE IF pc[q] = "asleep" THEN "begin" ELSE pc[q]]

NoSpace == Len(lh) + (outstanding + 1) * MAXOPBLOCKS > LOGSIZE
TooBig == Len(lh) >= LOGSIZE \/ Len(lh) >= NLOG - 1

MustWait == committing = 1 \/ NoSpace

begin_op_sleep(p) ==
  /\ boot = "up"
  /\ pc[p] \in {"idle", "begin"}
  /\ MustWait
  /\ pc' = [pc EXCEPT ![p] = "asleep"]
  /\ UNCHANGED <<dev, cache, pinned, lh, outstanding, committing, wrote, tail, boot>>

begin_op(p) ==
  /\ boot = "up"
  /\ pc[p] \in {"idle", "begin"}
  /\ ~MustWait
  /\ outstanding' = outstanding + 1
  /\ pc' = [pc EXCEPT ![p] = "op"]
  /\ UNCHANGED <<dev, cache, pinned, lh, committing, wrote, tail, boot>>

bpin(b) == pinned' = pinned \cup {b}

MutNeverAbsorbed(b) == FALSE

\* Log absorption: the block is in the log already.
Absorbed(b) == b \in Elems(lh)

\* bread(b), the modification, log_write() and brelse() of one buffer.
log_write(p, b, v) ==
  /\ pc[p] = "op"
  /\ Cardinality(wrote[p] \cup {b}) <= OPBLOCKS
  /\ ~TooBig
  /\ cache' = [cache EXCEPT ![b] = v]
  /\ wrote' = [wrote EXCEPT ![p] = @ \cup {b}]
  /\ IF Absorbed(b) THEN UNCHANGED <<lh, pinned>>
                    ELSE lh' = Append(lh, b) /\ bpin(b)
  /\ UNCHANGED <<dev, outstanding, committing, pc, tail, boot>>

\* end_op() of an operation that leaves others running.
end_op_first(p) ==
  /\ pc[p] = "op"
  /\ outstanding > 1
  /\ outstanding' = outstanding - 1
  /\ wrote' = [wrote EXCEPT ![p] = {}]
  /\ WakeupAnd(p, "idle")
  /\ UNCHANGED <<dev, cache, pinned, lh, committing, tail, boot>>

\* end_op() of the last operation, which commits.
end_op_last(p) ==
  /\ pc[p] = "op"
  /\ outstanding = 1
  /\ outstanding' = 0
  /\ committing' = 1
  /\ wrote' = [wrote EXCEPT ![p] = {}]
  /\ pc' = [pc EXCEPT ![p] = "commit"]
  /\ UNCHANGED <<dev, cache, pinned, lh, tail, boot>>

MutHeadFirst == IF Len(lh) = 0 THEN "end_op" ELSE "write_head"

CommitEntry == IF Len(lh) = 0 THEN "end_op" ELSE "write_log"

commit(p) ==
  /\ pc[p] = "commit"
  /\ tail' = 1
  /\ pc' = [pc EXCEPT ![p] = CommitEntry]
  /\ UNCHANGED <<dev, cache, pinned, lh, outstanding, committing, wrote, boot>>

\* One iteration of write_log().
write_log(p) ==
  /\ pc[p] = "write_log"
  /\ dlog' = [dlog EXCEPT ![tail] = Read(lh[tail])]
  /\ cache' = [cache EXCEPT ![lh[tail]] = Read(lh[tail])]
  /\ IF tail < Len(lh) THEN tail' = tail + 1 /\ UNCHANGED pc
                       ELSE tail' = 1 /\ pc' = [pc EXCEPT ![p] = "write_head"]
  /\ UNCHANGED <<disk, hdr, pinned, lh, outstanding, committing, wrote, boot>>

\* write_head() with the transaction in lh: the commit point.
write_head(p) ==
  /\ pc[p] = "write_head"
  /\ hdr' = lh
  /\ pc' = [pc EXCEPT ![p] = "install"]
  /\ UNCHANGED <<disk, dlog, cache, pinned, lh, outstanding, committing, wrote, tail, boot>>

MutStuckTail == tail

NextTail == IF tail < Len(lh) THEN tail + 1 ELSE 0

\* One iteration of install_trans(): the copy, the write and the bunpin().
InstallBlock(unpinned) ==
  /\ disk' = [disk EXCEPT ![lh[tail]] = dlog[tail]]
  /\ cache' = [cache EXCEPT ![lh[tail]] = dlog[tail]]
  /\ pinned' = pinned \ unpinned
  /\ tail' = NextTail

install_trans(p) ==
  /\ pc[p] = "install"
  /\ InstallBlock({lh[tail]})
  /\ pc' = [pc EXCEPT ![p] = IF tail < Len(lh) THEN "install" ELSE "erase"]
  /\ UNCHANGED <<hdr, dlog, lh, outstanding, committing, wrote, boot>>

\* log.lh.n = 0; write_head() of commit().
commit_erase(p) ==
  /\ pc[p] = "erase"
  /\ lh' = <<>>
  /\ hdr' = <<>>
  /\ pc' = [pc EXCEPT ![p] = "end_op"]
  /\ UNCHANGED <<disk, dlog, cache, pinned, outstanding, committing, wrote, tail, boot>>

\* The second critical section of end_op(), after commit() has returned.
end_op_done(p) ==
  /\ pc[p] = "end_op"
  /\ committing' = 0
  /\ WakeupAnd(p, "idle")
  /\ UNCHANGED <<dev, cache, pinned, lh, outstanding, wrote, tail, boot>>

\* bread() of a block that is not cached, and the recycling of a buffer that
\* bget() may choose: one without references.
bread(b) ==
  /\ boot = "up"
  /\ cache[b] = NoBuf
  /\ cache' = [cache EXCEPT ![b] = disk[b]]
  /\ UNCHANGED <<dev, pinned, lh, outstanding, committing, pc, wrote, tail, boot>>

bget_recycle(b) ==
  /\ cache[b] # NoBuf
  /\ b \notin pinned
  /\ cache' = [cache EXCEPT ![b] = NoBuf]
  /\ UNCHANGED <<dev, pinned, lh, outstanding, committing, pc, wrote, tail, boot>>

read_head ==
  /\ boot = "read_head"
  /\ lh' = hdr
  /\ tail' = 1
  /\ boot' = IF Len(hdr) = 0 THEN "erase" ELSE "install"
  /\ UNCHANGED <<dev, cache, pinned, outstanding, committing, pc, wrote>>

recover_install ==
  /\ boot = "install"
  /\ InstallBlock({})
  /\ boot' = IF tail < Len(lh) THEN "install" ELSE "erase"
  /\ UNCHANGED <<hdr, dlog, lh, outstanding, committing, pc, wrote>>

recover_erase ==
  /\ boot = "erase"
  /\ lh' = <<>>
  /\ hdr' = <<>>
  /\ boot' = "up"
  /\ UNCHANGED <<disk, dlog, cache, pinned, outstanding, committing, pc, wrote, tail>>

\* The memory of a machine that has just been switched on.
Reboot ==
  /\ cache' = [b \in Block |-> NoBuf]
  /\ pinned' = {}
  /\ lh' = <<>>
  /\ outstanding' = 0
  /\ committing' = 0
  /\ pc' = [p \in Proc |-> "idle"]
  /\ wrote' = [p \in Proc |-> {}]
  /\ tail' = 0
  /\ boot' = "read_head"

Installing == boot = "install" \/ \E p \in Proc : pc[p] = "install"
Logging    == \E p \in Proc : pc[p] = "write_log"

crash == Reboot /\ UNCHANGED dev

\* A crash in the middle of bwrite() of a home block or of a log block.
crash_torn_home ==
  /\ Installing
  /\ disk' = [disk EXCEPT ![lh[tail]] = Torn]
  /\ Reboot
  /\ UNCHANGED <<hdr, dlog>>

crash_torn_log ==
  /\ Logging
  /\ dlog' = [dlog EXCEPT ![tail] = Torn]
  /\ Reboot
  /\ UNCHANGED <<disk, hdr>>

Recover == read_head \/ recover_install \/ recover_erase

ProcStep(p) ==
  \/ begin_op_sleep(p) \/ begin_op(p)
  \/ \E b \in Block, v \in Data : log_write(p, b, v)
  \/ end_op_first(p) \/ end_op_last(p)
  \/ commit(p) \/ write_log(p) \/ write_head(p) \/ install_trans(p)
  \/ commit_erase(p) \/ end_op_done(p)

Next ==
  \/ \E p \in Proc : ProcStep(p)
  \/ \E b \in Block : bread(b) \/ bget_recycle(b)
  \/ Recover
  \/ crash \/ crash_torn_home \/ crash_torn_log

Spec == Init /\ [][Next]_vars

-------------------------------------------------------------------------------
\* Every variable keeps its type; the loop counter stays inside the log while
\* write_log() or install_trans() is using it (log.c:73, log.c:183).
TypeOK ==
  /\ disk \in [Block -> Contents]
  /\ hdr \in Seq(Block)
  /\ dlog \in [Slot -> Contents]
  /\ cache \in [Block -> Contents \cup {NoBuf}]
  /\ pinned \in SUBSET Block
  /\ lh \in Seq(Block)
  /\ outstanding \in Nat
  /\ committing \in {0, 1}
  /\ pc \in [Proc -> {"idle", "begin", "asleep", "op", "commit", "write_log",
                      "write_head", "install", "erase", "end_op"}]
  /\ wrote \in [Proc -> SUBSET Block]
  /\ tail \in 0..LOGSIZE
  /\ boot \in {"read_head", "install", "erase", "up"}

\* The contents a reboot would find after recover_from_log(): the home blocks
\* overlaid with the committed log.
Recovered ==
  [b \in Block |-> IF \E i \in 1..Len(hdr) : hdr[i] = b
                   THEN dlog[CHOOSE i \in 1..Len(hdr) : hdr[i] = b]
                   ELSE disk[b]]

\* What the file system reads: the cache, once the log is recovered.
Volatile == IF boot = "up" THEN [b \in Block |-> Read(b)] ELSE Recovered

\* The processes between begin_op() and end_op(), and the places in commit().
Running  == {p \in Proc : pc[p] = "op"}
CommitPC == {"commit", "write_log", "write_head", "install", "erase", "end_op"}

\* log_write() never meets its panic "too big a transaction" (log.c:220): what
\* begin_op() reserves is enough for every system call that is running, also
\* when the next write would be absorbed.
LogWriteNeverPanics == Running # {} => ~TooBig

\* "The logging system only commits when there are no FS system calls active"
\* (log.c:13): end_op() never finds log.committing set (log.c:153), one process
\* at a time runs commit(), and log.outstanding counts the running calls.
CommitsOnlyWhenQuiet ==
  /\ outstanding = Cardinality(Running)
  /\ committing = 1 => Running = {}
  /\ Cardinality({p \in Proc : pc[p] \in CommitPC}) = committing

\* A buffer that may be recycled holds what is on disk, so recycling it loses
\* nothing: bpin() in log_write() keeps a block until install_trans() wrote it.
RecyclableIsClean ==
  boot = "up" => \A b \in Block : b \notin pinned => cache[b] \in {NoBuf, disk[b]}

\* When no call is running and no commit is under way, every completed system
\* call is on disk and the log is empty: nothing waits for a later commit.
QuiescentIsDurable ==
  boot = "up" /\ outstanding = 0 /\ committing = 0
    => hdr = <<>> /\ lh = <<>> /\ \A b \in Block : Read(b) = disk[b]

\* The log implements the transactional disk: the header write is the commit
\* point of all the calls of the group, and a crash at any point, also while
\* recovering, falls back to the last commit (log.c:100, log.c:116).
Abstract == INSTANCE TransactionDisk WITH
  durable  <- Recovered,
  volatile <- Volatile,
  active   <- Running

CrashAtomic == Abstract!Spec

\* Processes run until their system call is over, and so does the recovery;
\* nothing makes a process start a call, read a block or recycle a buffer.
Fairness ==
  /\ WF_vars(Recover)
  /\ \A p \in Proc : WF_vars(/\ pc[p] # "idle"
                             /\ \/ begin_op_sleep(p) \/ begin_op(p)
                                \/ end_op_first(p) \/ end_op_last(p)
                                \/ commit(p) \/ write_log(p) \/ write_head(p)
                                \/ install_trans(p) \/ commit_erase(p)
                                \/ end_op_done(p))

Crashes == crash \/ crash_torn_home \/ crash_torn_log

FairSpec == Spec /\ Fairness

\* A process asleep in begin_op() is woken again and again, until it gets in:
\* no wakeup(&log) is lost, and commits terminate (log.c:162, log.c:172).
WaitersAreWoken ==
  <>[][~Crashes]_vars => \A p \in Proc : pc[p] = "asleep" ~> pc[p] # "asleep"

\* Once the machine stops crashing, recovery completes however many times it
\* was interrupted (log.c:117).
RecoveryCompletes == <>[][~Crashes]_vars => <>[](boot = "up")
==============================================================================
