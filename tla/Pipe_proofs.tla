----------------------------- MODULE Pipe_proofs -----------------------------
(***************************************************************************)
(* Proofs about pipes, for any number of processes and any size of the     *)
(* ring: a pipe is freed only when nobody can use it, no wakeup is missed, *)
(* and it implements ByteStream.                                           *)
(***************************************************************************)
EXTENDS Pipe, RingBuffer, FiniteSetTheorems, TLAPS

InWrite == {"lock_write", "write", "sleep_write"}
InRead  == {"lock_read", "read_wait", "sleep_read", "read", "read_done"}
Locked  == {"write", "read_wait", "read", "read_done"}
PCs     == {"user", "close_read", "close_write"} \cup InWrite \cup InRead

\* Who is inside the critical sections holds the lock.
LockInv ==
  /\ pc \in [Proc -> PCs]
  /\ lock \in Proc \cup {None}
  /\ \A p \in Proc : pc[p] \in Locked <=> lock = p

\* A process in a call has that end open; the last one to close an end finds it open
\* and is alone; an end is open as long as somebody has it or is closing it; and the
\* pipe is freed when both are closed.
EndsInv ==
  /\ rd \in SUBSET Proc /\ wr \in SUBSET Proc
  /\ IsFiniteSet(rd) /\ IsFiniteSet(wr)
  /\ readopen \in {0, 1} /\ writeopen \in {0, 1} /\ freed \in Nat
  /\ \A p \in Proc : /\ pc[p] \in InWrite => p \in wr
                     /\ pc[p] \in InRead => p \in rd
                     /\ pc[p] = "close_read" => rd = {}
                     /\ pc[p] = "close_write" => wr = {}
  /\ \A p, q \in Proc : /\ pc[p] = "close_read" /\ pc[q] = "close_read" => p = q
                        /\ pc[p] = "close_write" /\ pc[q] = "close_write" => p = q
  /\ readopen = 1 <=> rd # {} \/ \E p \in Proc : pc[p] = "close_read"
  /\ writeopen = 1 <=> wr # {} \/ \E p \in Proc : pc[p] = "close_write"
  /\ freed > 0 => readopen = 0 /\ writeopen = 0

\* The conditions of NoMissedWakeup also while the lock is held: a sleeper may have been
\* overtaken only by the one that has the lock, which has its wakeup() still to make.
WakeInv ==
  \A p \in Proc :
    /\ pc[p] = "sleep_read" => writeopen = 1
    /\ pc[p] = "sleep_read" /\ killed = {} => Empty \/ (lock \in Proc /\ pc[lock] = "write")
    /\ pc[p] = "sleep_write" => readopen = 1
    /\ pc[p] = "sleep_write" => Full \/ (lock \in Proc /\ pc[lock] \in {"read", "read_done"})

\* The last reference to an end is the one process that has it.
LEMMA LastIsAlone ==
  ASSUME NEW s, IsFiniteSet(s), NEW p \in s
  PROVE  LastRef(s) <=> s \ {p} = {}
<1>1. ASSUME LastRef(s) PROVE s \ {p} = {}
  BY <1>1, FS_Singleton DEF LastRef
<1>2. ASSUME s \ {p} = {} PROVE LastRef(s)
  <2>1. s = {p}
    BY <1>2
  <2> QED BY <2>1, FS_Singleton DEF LastRef
<1> QED BY <1>1, <1>2

(* Every step of a process leaves pi->lock with the one call, if any, that is between
   acquire() and release(). *)
LEMMA LockStep ==
  ASSUME PipeAssumption, LockInv, [Next]_vars
  PROVE  LockInv'
<1> USE DEF PipeAssumption, LockInv, PCs, InWrite, InRead, Locked
<1>1. CASE UNCHANGED vars
  BY <1>1 DEF vars
<1>2. ASSUME NEW p \in Proc, acquire(p) PROVE LockInv'
  BY <1>2 DEF acquire, Goto
<1>3. ASSUME NEW p \in Proc, write_fail(p) PROVE LockInv'
  BY <1>3 DEF write_fail, return, Goto
<1>4. ASSUME NEW p \in Proc, write_sleep(p) PROVE LockInv'
  BY <1>4 DEF write_sleep, Writing, Wake
<1>5. ASSUME NEW p \in Proc, write_done(p) PROVE LockInv'
  BY <1>5 DEF write_done, Writing, return, Wake
<1>6. ASSUME NEW p \in Proc, NEW b \in Byte, write_byte(p, b) PROVE LockInv'
  BY <1>6 DEF write_byte
<1>7. ASSUME NEW p \in Proc, read_killed(p) PROVE LockInv'
  BY <1>7 DEF read_killed, return, Goto
<1>8. ASSUME NEW p \in Proc, read_sleep(p) PROVE LockInv'
  BY <1>8 DEF read_sleep, Goto
<1>9. ASSUME NEW p \in Proc, read_start(p) PROVE LockInv'
  BY <1>9 DEF read_start, Goto
<1>10. ASSUME NEW p \in Proc, NEW ok \in {0, 1}, read_byte(p, ok) PROVE LockInv'
  BY <1>10 DEF read_byte, Goto
<1>11. ASSUME NEW p \in Proc, read_done(p) PROVE LockInv'
  BY <1>11 DEF read_done, return, Wake
<1>12. ASSUME NEW p \in Proc, pipeclose_read(p) PROVE LockInv'
  BY <1>12 DEF pipeclose_read, Wake
<1>13. ASSUME NEW p \in Proc, pipeclose_write(p) PROVE LockInv'
  BY <1>13 DEF pipeclose_write, Wake
<1>14. ASSUME NEW p \in Proc, NEW k \in Counts, NEW l \in {"lock_write", "lock_read"}, call(p, k, l)
       PROVE  LockInv'
  BY <1>14 DEF call, Goto
<1>15. ASSUME NEW p \in Proc, NEW q \in Proc, filedup(p, q) PROVE LockInv'
  BY <1>15 DEF filedup
<1>16. ASSUME NEW p \in Proc, fileclose_read(p) \/ fileclose_write(p) PROVE LockInv'
  BY <1>16 DEF fileclose_read, fileclose_write, Goto
<1>17. ASSUME NEW p \in Proc, kill(p) PROVE LockInv'
  BY <1>17 DEF kill, Goto
<1> QED
  BY <1>1, <1>2, <1>3, <1>4, <1>5, <1>6, <1>7, <1>8, <1>9, <1>10, <1>11, <1>12, <1>13, <1>14,
     <1>15, <1>16, <1>17
  DEF Next, Inside

\* The two ends, and the free of the pipe.
LEMMA EndsStep ==
  ASSUME PipeAssumption, LockInv, EndsInv, [Next]_vars
  PROVE  EndsInv'
<1> USE DEF PipeAssumption, LockInv, EndsInv, PCs, InWrite, InRead, Locked
<1>1. CASE UNCHANGED vars
  BY <1>1 DEF vars, ends, files
<1>2. ASSUME NEW p \in Proc, acquire(p) PROVE EndsInv'
  BY <1>2 DEF acquire, Goto, ends, files
<1>3. ASSUME NEW p \in Proc, write_fail(p) PROVE EndsInv'
  BY <1>3 DEF write_fail, return, Goto, ends, files
<1>4. ASSUME NEW p \in Proc, write_sleep(p) PROVE EndsInv'
  BY <1>4 DEF write_sleep, Writing, Wake, ends, files
<1>5. ASSUME NEW p \in Proc, write_done(p) PROVE EndsInv'
  BY <1>5 DEF write_done, Writing, return, Wake, ends, files
<1>6. ASSUME NEW p \in Proc, NEW b \in Byte, write_byte(p, b) PROVE EndsInv'
  BY <1>6 DEF write_byte, Writing, ends, files
<1>7. ASSUME NEW p \in Proc, read_killed(p) PROVE EndsInv'
  BY <1>7 DEF read_killed, return, Goto, ends, files
<1>8. ASSUME NEW p \in Proc, read_sleep(p) PROVE EndsInv'
  BY <1>8 DEF read_sleep, Goto, ends, files
<1>9. ASSUME NEW p \in Proc, read_start(p) PROVE EndsInv'
  BY <1>9 DEF read_start, Goto, ends, files
<1>10. ASSUME NEW p \in Proc, NEW ok \in {0, 1}, read_byte(p, ok) PROVE EndsInv'
  BY <1>10 DEF read_byte, Goto, ends, files
<1>11. ASSUME NEW p \in Proc, read_done(p) PROVE EndsInv'
  BY <1>11 DEF read_done, return, Wake, ends, files
<1>12. ASSUME NEW p \in Proc, pipeclose_read(p) PROVE EndsInv'
  BY <1>12 DEF pipeclose_read, Wake, BothClosed, ends, files
<1>13. ASSUME NEW p \in Proc, pipeclose_write(p) PROVE EndsInv'
  BY <1>13 DEF pipeclose_write, Wake, BothClosed, ends, files
<1>14. ASSUME NEW p \in Proc, NEW k \in Counts, NEW l \in {"lock_write", "lock_read"}, call(p, k, l)
       PROVE EndsInv'
  BY <1>14 DEF call, Goto, ends, files
<1>15. ASSUME NEW p \in Proc, NEW q \in Proc, filedup(p, q) PROVE EndsInv'
  <2>1. IsFiniteSet(rd \cup {q}) /\ IsFiniteSet(wr \cup {q})
    BY FS_AddElement
  <2>2. IsFiniteSet(rd') /\ IsFiniteSet(wr')
    BY <1>15, <2>1 DEF filedup
  <2> QED BY <1>15, <2>2 DEF filedup, ends, files
<1>16. ASSUME NEW p \in Proc, fileclose_read(p) PROVE EndsInv'
  <2>1. IsFiniteSet(rd \ {p})
    BY FS_RemoveElement
  <2>2. LastRef(rd) <=> rd \ {p} = {}
    BY <1>16, LastIsAlone DEF fileclose_read
  <2> QED BY <1>16, <2>1, <2>2 DEF fileclose_read, Goto, ends, files
<1>17. ASSUME NEW p \in Proc, fileclose_write(p) PROVE EndsInv'
  <2>1. IsFiniteSet(wr \ {p})
    BY FS_RemoveElement
  <2>2. LastRef(wr) <=> wr \ {p} = {}
    BY <1>17, LastIsAlone DEF fileclose_write
  <2> QED BY <1>17, <2>1, <2>2 DEF fileclose_write, Goto, ends, files
<1>18. ASSUME NEW p \in Proc, kill(p) PROVE EndsInv'
  BY <1>18 DEF kill, Goto, ends, files
<1> HIDE DEF EndsInv
<1> QED
  BY <1>1, <1>2, <1>3, <1>4, <1>5, <1>6, <1>7, <1>8, <1>9,
     <1>10, <1>11, <1>12, <1>13, <1>14, <1>15, <1>16, <1>17, <1>18
  DEF Next, Inside

\* Who sleeps has been overtaken by nobody but the holder of the lock.
LEMMA WakeStep ==
  ASSUME PipeAssumption, LockInv, EndsInv, WakeInv, [Next]_vars
  PROVE  WakeInv'
<1> USE DEF PipeAssumption, LockInv, EndsInv, WakeInv, PCs, InWrite, InRead, Locked, Full, Empty
<1>1. CASE UNCHANGED vars
  BY <1>1 DEF vars, ends, files, ring
<1>2. ASSUME NEW p \in Proc, acquire(p) PROVE WakeInv'
  BY <1>2 DEF acquire, Goto, ends, files, ring
<1>3. ASSUME NEW p \in Proc, write_fail(p) PROVE WakeInv'
  BY <1>3 DEF write_fail, return, Goto, ends, files, ring
<1>4. ASSUME NEW p \in Proc, write_sleep(p) PROVE WakeInv'
  BY <1>4 DEF write_sleep, Writing, Wake, ends, files, ring
<1>5. ASSUME NEW p \in Proc, write_done(p) PROVE WakeInv'
  BY <1>5 DEF write_done, Writing, return, Wake, ends, files, ring
<1>6. ASSUME NEW p \in Proc, NEW b \in Byte, write_byte(p, b) PROVE WakeInv'
  BY <1>6 DEF write_byte, Writing, ends, files, ring
<1>7. ASSUME NEW p \in Proc, read_killed(p) PROVE WakeInv'
  BY <1>7 DEF read_killed, return, Goto, ends, files, ring
<1>8. ASSUME NEW p \in Proc, read_sleep(p) PROVE WakeInv'
  BY <1>8 DEF read_sleep, Goto, MustWait, ends, files, ring
<1>9. ASSUME NEW p \in Proc, read_start(p) PROVE WakeInv'
  BY <1>9 DEF read_start, Goto, ends, files, ring
<1>10. ASSUME NEW p \in Proc, NEW ok \in {0, 1}, read_byte(p, ok) PROVE WakeInv'
  BY <1>10 DEF read_byte, Goto, ends, files, ring
<1>11. ASSUME NEW p \in Proc, read_done(p) PROVE WakeInv'
  BY <1>11 DEF read_done, return, Wake, ends, files, ring
<1>12. ASSUME NEW p \in Proc, pipeclose_read(p) PROVE WakeInv'
  BY <1>12 DEF pipeclose_read, Wake, ends, files, ring
<1>13. ASSUME NEW p \in Proc, pipeclose_write(p) PROVE WakeInv'
  BY <1>13 DEF pipeclose_write, Wake, ends, files, ring
<1>14. ASSUME NEW p \in Proc, NEW k \in Counts, NEW l \in {"lock_write", "lock_read"}, call(p, k, l)
       PROVE WakeInv'
  BY <1>14 DEF call, Goto, ends, files, ring
<1>15. ASSUME NEW p \in Proc, NEW q \in Proc, filedup(p, q) PROVE WakeInv'
  BY <1>15 DEF filedup, ends, files, ring
<1>16. ASSUME NEW p \in Proc, fileclose_read(p) PROVE WakeInv'
  BY <1>16 DEF fileclose_read, Goto, ends, files, ring
<1>17. ASSUME NEW p \in Proc, fileclose_write(p) PROVE WakeInv'
  BY <1>17 DEF fileclose_write, Goto, ends, files, ring
<1>18. ASSUME NEW p \in Proc, kill(p) PROVE WakeInv'
  BY <1>18 DEF kill, Goto, ends, files, ring
<1> HIDE DEF WakeInv
<1> QED
  BY <1>1, <1>2, <1>3, <1>4, <1>5, <1>6, <1>7, <1>8, <1>9,
     <1>10, <1>11, <1>12, <1>13, <1>14, <1>15, <1>16, <1>17, <1>18
  DEF Next, Inside
\* The invariant of a pipe's locks and ends holds from pipealloc() on.
LEMMA PipeInv ==
  Spec => [](LockInv /\ EndsInv /\ WakeInv)
<1>1. Init => LockInv /\ EndsInv /\ WakeInv
  <2> SUFFICES ASSUME Init PROVE LockInv /\ EndsInv /\ WakeInv
    OBVIOUS
  <2>1. LockInv
    BY PipeAssumption DEF Init, PipeAssumption, LockInv, PCs, Locked, InWrite, InRead
  <2>2. EndsInv
    <3>1. IsFiniteSet({creator})
      BY FS_Singleton
    <3> QED BY <3>1, PipeAssumption DEF Init, PipeAssumption, EndsInv, InWrite, InRead
  <2>3. WakeInv
    BY DEF Init, WakeInv
  <2> QED BY <2>1, <2>2, <2>3
<1>2. LockInv /\ EndsInv /\ WakeInv /\ [Next]_vars => (LockInv /\ EndsInv /\ WakeInv)'
  BY PipeAssumption, LockStep, EndsStep, WakeStep
<1> QED BY <1>1, <1>2, PTL DEF Spec

\* For any processes that fork, close and are killed: when pipeclose() calls kfree(pi)
\* nobody is in the pipe's code and nobody has an end of it left to enter it by.
THEOREM FreedWhenUnused ==
  Spec => []NoUseAfterFree
<1>1. LockInv /\ EndsInv => NoUseAfterFree
  BY DEF LockInv, EndsInv, NoUseAfterFree, PCs, InWrite, InRead
<1> QED BY <1>1, PipeInv, PTL

\* For any number of readers and writers: sleep() and wakeup() in pipewrite(), piperead()
\* and pipeclose() leave nobody asleep on a condition that has changed.
THEOREM SleepersAreWoken ==
  Spec => []NoMissedWakeup
<1>1. LockInv /\ EndsInv /\ WakeInv => NoMissedWakeup
  BY PipeAssumption
  DEF PipeAssumption, WakeInv, NoMissedWakeup, SleepersMustWait
<1> QED BY <1>1, PipeInv, PTL

-------------------------------------------------------------------------------
(* The ring                                                                    *)

Contents == Byte \cup {CHOOSE b \in Byte : TRUE}

\* The counters are never further apart than the ring is long.
RingInv ==
  /\ data \in [0..(PIPESIZE - 1) -> Contents]
  /\ nread \in 0..(WRAP - 1) /\ nwrite \in 0..(WRAP - 1)
  /\ Dist(nread, nwrite, WRAP) <= PIPESIZE

\* The assumption on the sizes, as the lemmas about rings want it.
LEMMA Sizes ==
  /\ PIPESIZE \in Nat \ {0} /\ WRAP \in Nat \ {0}
  /\ WRAP > PIPESIZE /\ Divides(PIPESIZE, WRAP)
BY PipeAssumption DEF PipeAssumption, Divides

\* The queue of a pipe is what its ring holds.
LEMMA QueueIsHeld ==
  Queue = Held(data, nread, nwrite, PIPESIZE, WRAP)
BY DEF Queue, Held, Dist

\* A byte of pipewrite() goes to the end of the queue.
LEMMA PutStep ==
  ASSUME LockInv, EndsInv, RingInv, NEW p \in Proc, NEW b \in Byte, write_byte(p, b)
  PROVE  RingInv' /\ Stream!Put(b)
<1> DEFINE S == PIPESIZE
           V == Contents
           d == Dist(nread, nwrite, WRAP)
<1>1. /\ S \in Nat \ {0} /\ WRAP \in Nat \ {0} /\ WRAP > S /\ Divides(S, WRAP)
      /\ data \in [0..(S - 1) -> V] /\ b \in V
      /\ nread \in 0..(WRAP - 1) /\ nwrite \in 0..(WRAP - 1)
  BY Sizes DEF RingInv, Contents
<1>2. d \in 0..(WRAP - 1) /\ d <= S
  BY <1>1, DistType, Zenon DEF RingInv
<1>3. d # S
  <2>1. ~Full
    BY DEF write_byte
  <2>2. nwrite = (nread + S) % WRAP <=> d = S
    BY <1>1, FullRing, Zenon
  <2> QED BY <2>1, <2>2 DEF Full
<1>4. d < S /\ d + 1 < WRAP /\ d + 1 <= S
  <2> HIDE DEF d, S
  <2> QED BY <1>1, <1>2, <1>3
<1>5. /\ data' = [data EXCEPT ![nwrite % S] = b]
      /\ nwrite' = (nwrite + 1) % WRAP
      /\ nread' = nread
  BY DEF write_byte
<1>6. Queue' = Append(Queue, b)
  <2>1. Queue' = Held(data', nread', nwrite', S, WRAP)
    BY DEF Queue, Held, Dist
  <2> HIDE DEF d, S, V
  <2>2. Dist(nread, nwrite, WRAP) < S
    BY <1>4 DEF d
  <2>3. Held(Stored(data, nwrite % S, b), nread, (nwrite + 1) % WRAP, S, WRAP)
          = Added(Held(data, nread, nwrite, S, WRAP), b)
    BY <1>1, <2>2, HeldPut
  <2> QED BY <1>5, <2>1, <2>3, QueueIsHeld DEF S, Stored, Added
<1>7. Len(Queue) = d
  <2>1. Queue = [k \in 1..d |-> data[(nread + k - 1) % S]]
    BY DEF Queue, Dist
  <2> HIDE DEF d, S
  <2> QED BY <1>2, <2>1
<1>8. RingInv'
  <2>1. data' \in [0..(S - 1) -> V]
    <3> HIDE DEF S, V
    <3>1. nwrite \in Int
      BY <1>1
    <3>2. nwrite % S \in 0..(S - 1)
      BY <1>1, <3>1, Division
    <3> QED BY <1>1, <1>5, <3>2
  <2>2. nwrite' \in 0..(WRAP - 1)
    BY <1>1, <1>5, NextIndex, Zenon
  <2>3. Dist(nread', nwrite', WRAP) = d + 1
    BY <1>1, <1>4, <1>5, DistStep, Zenon
  <2> HIDE DEF d
  <2> QED BY <1>1, <1>4, <1>5, <2>1, <2>2, <2>3 DEF RingInv, Contents
<1>9. readopen = 1 /\ writeopen = 1 /\ UNCHANGED <<readopen, writeopen>>
  BY DEF write_byte, Writing, ends, EndsInv, InWrite
<1> QED
  <2> HIDE DEF d
  <2> QED BY <1>4, <1>6, <1>7, <1>8, <1>9 DEF Stream!Put

\* piperead() takes the oldest byte.
LEMMA GetStep ==
  ASSUME LockInv, EndsInv, RingInv, NEW p \in Proc, NEW ok \in {0, 1}, read_byte(p, ok)
  PROVE  RingInv' /\ Stream!Get
<1> DEFINE S == PIPESIZE
           V == Contents
           d == Dist(nread, nwrite, WRAP)
<1>1. /\ S \in Nat \ {0} /\ WRAP \in Nat \ {0} /\ WRAP > S /\ Divides(S, WRAP)
      /\ data \in [0..(S - 1) -> V]
      /\ nread \in 0..(WRAP - 1) /\ nwrite \in 0..(WRAP - 1)
      /\ nread # nwrite
  BY Sizes DEF RingInv, read_byte, Empty
<1>2. d \in Nat \ {0} /\ d <= S
  BY <1>1, DistType, Zenon DEF RingInv
<1>3. data' = data /\ nwrite' = nwrite /\ nread' = (nread + 1) % WRAP
  BY DEF read_byte
<1>4. Queue' = Tail(Queue)
  <2>1. Queue' = Held(data', nread', nwrite', S, WRAP)
    BY DEF Queue, Held, Dist
  <2> HIDE DEF d, S, V
  <2>2. Held(data, (nread + 1) % WRAP, nwrite, S, WRAP) = Tail(Held(data, nread, nwrite, S, WRAP))
    BY <1>1, HeldGet, ZenonT(60)
  <2>3. Queue' = Tail(Held(data, nread, nwrite, S, WRAP))
    BY <1>3, <2>1, <2>2, Zenon
  <2> QED BY <2>3, QueueIsHeld DEF S
<1>5. Len(Queue) = d
  <2>1. Queue = [k \in 1..d |-> data[(nread + k - 1) % S]]
    BY DEF Queue, Dist
  <2> HIDE DEF d, S
  <2> QED BY <1>2, <2>1
<1>6. RingInv'
  <2>1. nread' \in 0..(WRAP - 1)
    BY <1>1, <1>3, NextIndex, Zenon
  <2>2. Dist(nread', nwrite', WRAP) = d - 1
    BY <1>1, <1>3, DistStep, Zenon
  <2> HIDE DEF d
  <2> QED BY <1>1, <1>2, <1>3, <2>1, <2>2 DEF RingInv, Contents
<1>7. readopen = 1 /\ UNCHANGED <<readopen, writeopen>>
  BY DEF read_byte, ends, EndsInv, InRead
<1> QED
  <2> HIDE DEF d
  <2> QED BY <1>2, <1>4, <1>5, <1>6, <1>7 DEF Stream!Get

\* A pipe implements the bounded queue of ByteStream, for any number of processes that share
\* its ends, any size of the ring and any modulus of nread and nwrite: no byte is lost,
\* duplicated or reordered, nothing is written after the read end is closed, and each end is
\* closed once.
THEOREM PipeIsAQueue ==
  Spec => FirstInFirstOut
<1> DEFINE Inv == LockInv /\ EndsInv /\ WakeInv
<1>1. Init => RingInv /\ Stream!Init
  <2> SUFFICES ASSUME Init PROVE RingInv /\ Stream!Init
    OBVIOUS
  <2>1. Dist(nread, nwrite, WRAP) = 0
    <3>1. WRAP \in Nat \ {0} /\ 0 \in 0..(WRAP - 1)
      BY PipeAssumption DEF PipeAssumption
    <3>2. Dist(0, 0, WRAP) = 0
      BY <3>1, DistStep
    <3> QED BY <3>2 DEF Init
  <2>2. RingInv
    BY <2>1, PipeAssumption DEF PipeAssumption, Init, RingInv, Contents
  <2>3. Queue = <<>>
    BY <2>1 DEF Queue, Dist
  <2> QED BY <2>2, <2>3 DEF Stream!Init, Init
<1>2. Inv /\ RingInv /\ [Next]_vars => RingInv' /\ [Stream!Next]_(Stream!vars)
  <2> SUFFICES ASSUME Inv, RingInv, [Next]_vars
               PROVE  RingInv' /\ [Stream!Next]_(Stream!vars)
    OBVIOUS
  <2>1. ASSUME NEW p \in Proc, NEW b \in Byte, write_byte(p, b)
        PROVE  RingInv' /\ Stream!Next
    BY <2>1, PutStep DEF Stream!Next
  <2>2. ASSUME NEW p \in Proc, NEW ok \in {0, 1}, read_byte(p, ok)
        PROVE  RingInv' /\ Stream!Next
    BY <2>2, GetStep DEF Stream!Next
  <2>3. ASSUME UNCHANGED ring
        PROVE  RingInv' /\ UNCHANGED Queue
    BY <2>3 DEF ring, RingInv, Queue, Contents
  <2>4. ASSUME NEW p \in Proc, pipeclose_read(p) \/ pipeclose_write(p)
        PROVE  RingInv' /\ Stream!Next
    <3>1. UNCHANGED ring
      BY <2>4 DEF pipeclose_read, pipeclose_write
    <3>2. \/ readopen = 1 /\ readopen' = 0 /\ UNCHANGED writeopen
          \/ writeopen = 1 /\ writeopen' = 0 /\ UNCHANGED readopen
      BY <2>4 DEF EndsInv, pipeclose_read, pipeclose_write
    <3> QED BY <2>3, <3>1, <3>2 DEF Stream!Next, Stream!CloseRead, Stream!CloseWrite
  <2>5. ASSUME UNCHANGED ring, UNCHANGED ends
        PROVE  RingInv' /\ UNCHANGED Stream!vars
    BY <2>3, <2>5 DEF ends, Stream!vars
  <2>6. CASE UNCHANGED vars
    BY <2>5, <2>6 DEF vars, ring, ends
  <2>7. ASSUME NEW p \in Proc,
               \/ acquire(p) \/ write_fail(p) \/ write_sleep(p) \/ write_done(p)
               \/ read_killed(p) \/ read_sleep(p) \/ read_start(p) \/ read_done(p)
               \/ \E k \in Counts, l \in {"lock_write", "lock_read"} : call(p, k, l)
               \/ \E q \in Proc : filedup(p, q)
               \/ fileclose_read(p) \/ fileclose_write(p) \/ kill(p)
        PROVE  RingInv' /\ UNCHANGED Stream!vars
    BY <2>5, <2>7
    DEF acquire, write_fail, write_sleep, write_done, read_killed, read_sleep, read_start,
        read_done, call, filedup, fileclose_read, fileclose_write, kill
  <2> QED
    BY <2>1, <2>2, <2>4, <2>6, <2>7 DEF Next, Inside
<1> QED
  BY <1>1, <1>2, PipeInv, PTL DEF Spec, FirstInFirstOut, Stream!Spec

===============================================================================
