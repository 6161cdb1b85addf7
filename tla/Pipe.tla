--------------------------------- MODULE Pipe ---------------------------------
(***************************************************************************)
(* One pipe of kernel/pipe.c and the two struct files of kernel/file.c that *)
(* are its ends, shared by processes that fork, read, write, close and are *)
(* killed.  pi->lock is held across the steps of pipewrite() and           *)
(* piperead(); one byte is one step.  sleep() and wakeup() are atomic here: *)
(* module Proc is about how they are.                                      *)
(***************************************************************************)
EXTENDS Integers, Sequences, FiniteSets

CONSTANTS Proc,      \* processes
          creator,   \* the one that called sys_pipe()
          Byte,      \* contents of a byte
          PIPESIZE,
          WRAP,      \* nread and nwrite count modulo this, 2^32 in the code
          Counts,    \* the n of read() and write()
          Victims,   \* processes that may be killed
          None       \* pi->lock is free

ASSUME PipeAssumption ==
  /\ creator \in Proc
  /\ None \notin Proc
  /\ PIPESIZE \in Nat \ {0}
  /\ WRAP \in Nat /\ WRAP > PIPESIZE /\ WRAP % PIPESIZE = 0
  /\ Counts \subseteq Nat
  /\ Victims \subseteq Proc

VARIABLES
  data, nread, nwrite,   \* the ring
  readopen, writeopen,   \* pi->readopen, pi->writeopen
  freed,                 \* kfree(pi) was called
  lock,                  \* the process that holds pi->lock
  rd, wr,                \* processes with the read end, the write end, open
  killed,                \* processes that were killed
  pc,                    \* where each process is
  n, i                   \* the n and the i of its pipewrite() or piperead()

vars == <<data, nread, nwrite, readopen, writeopen, freed, lock, rd, wr, killed,
          pc, n, i>>
ring  == <<data, nread, nwrite>>
ends  == <<readopen, writeopen, freed>>
files == <<rd, wr, killed>>

\* pipealloc() and sys_pipe(): the creator has both ends open; kalloc() has filled
\* the page with one byte.
Init ==
  /\ data \in [0..(PIPESIZE - 1) -> {CHOOSE b \in Byte : TRUE}]
  /\ nread = 0 /\ nwrite = 0
  /\ readopen = 1 /\ writeopen = 1 /\ freed = 0
  /\ lock = None
  /\ rd = {creator} /\ wr = {creator} /\ killed = {}
  /\ pc = [p \in Proc |-> "user"]
  /\ n = [p \in Proc |-> 0]
  /\ i = [p \in Proc |-> 0]

MutFullEarly == nwrite = (nread + PIPESIZE + 1) % WRAP

Full  == nwrite = (nread + PIPESIZE) % WRAP
Empty == nread = nwrite

Goto(p, l) == pc' = [pc EXCEPT ![p] = l]

MutNoWake(s, p, l) == Goto(p, l)

\* wakeup() of the processes that sleep at label s, and p moves to l; the woken
\* ones go on by acquiring pi->lock again.
Wake(s, p, l) ==
  pc' = [q \in Proc |-> IF q = p THEN l
                        ELSE IF pc[q] # s THEN pc[q]
                        ELSE IF s = "sleep_read" THEN "lock_read" ELSE "lock_write"]

\* release(&pi->lock), and the call returns; its n and i are gone.
return(p) ==
  /\ lock' = None
  /\ n' = [n EXCEPT ![p] = 0]
  /\ i' = [i EXCEPT ![p] = 0]

-------------------------------------------------------------------------------
(* read() and write()                                                        *)

\* sys_write() or sys_read() of k bytes; a killed process exits instead.
call(p, k, l) ==
  /\ pc[p] = "user" /\ p \notin killed
  /\ p \in IF l = "lock_write" THEN wr ELSE rd
  /\ n' = [n EXCEPT ![p] = k]
  /\ Goto(p, l)
  /\ UNCHANGED <<ring, ends, lock, files, i>>

acquire(p) ==
  /\ pc[p] \in {"lock_write", "lock_read"}
  /\ lock = None
  /\ lock' = p
  /\ Goto(p, IF pc[p] = "lock_write" THEN "write" ELSE "read_wait")
  /\ UNCHANGED <<ring, ends, files, n, i>>

\* pipewrite(): no reader, or killed.
write_fail(p) ==
  /\ pc[p] = "write" /\ i[p] < n[p]
  /\ readopen = 0 \/ p \in killed
  /\ return(p)
  /\ Goto(p, "user")
  /\ UNCHANGED <<ring, ends, files>>

Writing(p) == pc[p] = "write" /\ i[p] < n[p] /\ readopen = 1 /\ p \notin killed

\* The ring is full: wake the readers and sleep.
write_sleep(p) ==
  /\ Writing(p) /\ Full
  /\ lock' = None
  /\ Wake("sleep_read", p, "sleep_write")
  /\ UNCHANGED <<ring, ends, files, n, i>>

write_byte(p, b) ==
  /\ Writing(p) /\ ~Full
  /\ data' = [data EXCEPT ![nwrite % PIPESIZE] = b]
  /\ nwrite' = (nwrite + 1) % WRAP
  /\ i' = [i EXCEPT ![p] = @ + 1]
  /\ UNCHANGED <<nread, ends, lock, files, pc, n>>

\* All is written, or copyin() failed: wake the readers and return.
write_done(p) ==
  /\ \/ pc[p] = "write" /\ i[p] = n[p]
     \/ Writing(p) /\ ~Full
  /\ return(p)
  /\ Wake("sleep_read", p, "user")
  /\ UNCHANGED <<ring, ends, files>>

\* The condition of the waiting loop of piperead().
MustWait == Empty /\ writeopen = 1

read_killed(p) ==
  /\ pc[p] = "read_wait" /\ MustWait /\ p \in killed
  /\ return(p)
  /\ Goto(p, "user")
  /\ UNCHANGED <<ring, ends, files>>

read_sleep(p) ==
  /\ pc[p] = "read_wait" /\ MustWait /\ p \notin killed
  /\ lock' = None
  /\ Goto(p, "sleep_read")
  /\ UNCHANGED <<ring, ends, files, n, i>>

read_start(p) ==
  /\ pc[p] = "read_wait" /\ ~MustWait
  /\ Goto(p, "read")
  /\ UNCHANGED <<ring, ends, lock, files, n, i>>

\* One byte; when copyout() fails (ok = 0) it is lost and the loop ends.
read_byte(p, ok) ==
  /\ pc[p] = "read" /\ i[p] < n[p] /\ ~Empty
  /\ nread' = (nread + 1) % WRAP
  /\ i' = [i EXCEPT ![p] = @ + ok]
  /\ Goto(p, IF ok = 1 THEN "read" ELSE "read_done")
  /\ UNCHANGED <<data, nwrite, ends, lock, files, n>>

read_done(p) ==
  /\ \/ pc[p] = "read_done"
     \/ pc[p] = "read" /\ (i[p] = n[p] \/ Empty)
  /\ return(p)
  /\ Wake("sleep_write", p, "user")
  /\ UNCHANGED <<ring, ends, files>>

-------------------------------------------------------------------------------
(* fork(), close() and kill()                                                *)

\* fork(): filedup() of the open ends for the child q.
filedup(p, q) ==
  /\ pc[p] = "user" /\ p \in rd \cup wr /\ p \notin killed
  /\ pc[q] = "user" /\ q \notin rd \cup wr \cup killed
  /\ rd' = IF p \in rd THEN rd \cup {q} ELSE rd
  /\ wr' = IF p \in wr THEN wr \cup {q} ELSE wr
  /\ UNCHANGED <<ring, ends, lock, killed, pc, n, i>>

MutCloseEarly(s) == Cardinality(s) <= 2

\* --f->ref reaches 0: the last process with this end closes it.
LastRef(s) == Cardinality(s) = 1

\* fileclose() of one end, also by exit(); the last reference goes to pipeclose().
fileclose_read(p) ==
  /\ pc[p] = "user" /\ p \in rd
  /\ rd' = rd \ {p}
  /\ Goto(p, IF LastRef(rd) THEN "close_read" ELSE "user")
  /\ UNCHANGED <<ring, ends, lock, wr, killed, n, i>>

fileclose_write(p) ==
  /\ pc[p] = "user" /\ p \in wr
  /\ wr' = wr \ {p}
  /\ Goto(p, IF LastRef(wr) THEN "close_write" ELSE "user")
  /\ UNCHANGED <<ring, ends, lock, rd, killed, n, i>>

\* Both ends are closed when this one is.
BothClosed(other) == other = 0

\* pipeclose(): the second end to be closed frees the pipe.
pipeclose_read(p) ==
  /\ pc[p] = "close_read" /\ lock = None
  /\ readopen' = 0
  /\ Wake("sleep_write", p, "user")
  /\ freed' = IF BothClosed(writeopen) THEN freed + 1 ELSE freed
  /\ UNCHANGED <<ring, writeopen, lock, files, n, i>>

pipeclose_write(p) ==
  /\ pc[p] = "close_write" /\ lock = None
  /\ writeopen' = 0
  /\ Wake("sleep_read", p, "user")
  /\ freed' = IF BothClosed(readopen) THEN freed + 1 ELSE freed
  /\ UNCHANGED <<ring, readopen, lock, files, n, i>>

\* kill(): the flag, and out of sleep.
kill(p) ==
  /\ p \in (rd \cup wr) \cap Victims /\ p \notin killed
  /\ killed' = killed \cup {p}
  /\ Goto(p, IF pc[p] = "sleep_read" THEN "lock_read"
             ELSE IF pc[p] = "sleep_write" THEN "lock_write" ELSE pc[p])
  /\ UNCHANGED <<ring, ends, lock, rd, wr, n, i>>

\* The steps a process takes inside a call.
Inside(p) ==
  \/ acquire(p)
  \/ write_fail(p) \/ write_sleep(p) \/ write_done(p) \/ \E b \in Byte : write_byte(p, b)
  \/ read_killed(p) \/ read_sleep(p) \/ read_start(p) \/ read_done(p)
  \/ \E ok \in {0, 1} : read_byte(p, ok)
  \/ pipeclose_read(p) \/ pipeclose_write(p)

Next == \E p \in Proc :
  \/ Inside(p)
  \/ \E k \in Counts, l \in {"lock_write", "lock_read"} : call(p, k, l)
  \/ \E q \in Proc : filedup(p, q)
  \/ fileclose_read(p) \/ fileclose_write(p)
  \/ kill(p)

Spec == Init /\ [][Next]_vars

-------------------------------------------------------------------------------
(* Properties                                                                *)

\* The type invariant of the pipe.
TypeOK ==
  /\ data \in [0..(PIPESIZE - 1) -> Byte]
  /\ nread \in 0..(WRAP - 1) /\ nwrite \in 0..(WRAP - 1)
  /\ readopen \in {0, 1} /\ writeopen \in {0, 1} /\ freed \in {0, 1}
  /\ lock \in Proc \cup {None}
  /\ rd \in SUBSET Proc /\ wr \in SUBSET Proc /\ killed \in SUBSET Proc
  /\ pc \in [Proc -> {"user", "lock_write", "write", "sleep_write", "lock_read",
                      "read_wait", "sleep_read", "read", "read_done",
                      "close_read", "close_write"}]
  /\ n \in [Proc -> Counts \cup {0}] /\ i \in [Proc -> Nat]

\* The bytes in the ring, oldest first.
Queue == [k \in 1..((nwrite - nread) % WRAP) |-> data[(nread + k - 1) % PIPESIZE]]

Stream == INSTANCE ByteStream WITH Size <- PIPESIZE, queue <- Queue, ropen <- readopen,
                                   wopen <- writeopen

\* The pipe is a bounded byte queue: whatever readers and writers interleave, the
\* bytes come out once, in the order they went in, also when the counters wrap.
FirstInFirstOut == Stream!Spec

\* pipeclose() frees the pipe only when no process is in the pipe code and none
\* can enter it again.
NoUseAfterFree ==
  freed > 0 => rd = {} /\ wr = {} /\ \A p \in Proc : pc[p] = "user"

\* With pi->lock free, a reader sleeps only on an empty pipe with a writer
\* ("pipe-empty"), and a writer only on a full one with a reader ("pipewrite-full"):
\* no wakeup() is missing or lost.
SleepersMustWait ==
  lock = None => \A p \in Proc :
    /\ pc[p] = "sleep_read" => Empty /\ writeopen = 1
    /\ pc[p] = "sleep_write" => Full /\ readopen = 1

\* That, as long as no process was killed; and whoever is killed, no writer sleeps
\* beside room in the ring, and nobody sleeps when the other end is closed.
NoMissedWakeup ==
  /\ killed = {} => SleepersMustWait
  /\ lock = None => \A p \in Proc :
       /\ pc[p] = "sleep_read" => writeopen = 1
       /\ pc[p] = "sleep_write" => Full /\ readopen = 1
===============================================================================
