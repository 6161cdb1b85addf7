------------------------------ MODULE Proc_proofs ------------------------------
(***************************************************************************)
(* Proofs about processes, for any number of slots and CPUs: who executes  *)
(* where, that sched() never panics, that wait() neither frees a stack     *)
(* that is in use nor misses an exit, and that nobody is without a parent. *)
(***************************************************************************)
EXTENDS Proc, TLAPS

Off == {"RUNNABLE", "SLEEPING", "ZOMBIE"}

\* The labels and states are those of the code.
LEMMA TypeStep ==
  ASSUME TypeOK, [Next]_vars
  PROVE  TypeOK'
<1> USE ProcAssumption
    DEF ProcAssumption, TypeOK, States, Labels, Unlocked, Waiting, Goto, table, cpus
<1>1. CASE UNCHANGED vars
  BY <1>1 DEF vars
<1>2. ASSUME NEW c \in Cpu, scheduler_back(c) PROVE TypeOK'
  BY <1>2 DEF scheduler_back
<1>3. ASSUME NEW c \in Cpu, NEW p \in Slot, scheduler_run(c, p) PROVE TypeOK'
  BY <1>3 DEF scheduler_run, RunLock
<1>4. ASSUME NEW c \in Cpu, NEW p \in Slot, sched(c, p) PROVE TypeOK'
  BY <1>4 DEF sched
<1>5. ASSUME NEW c \in Cpu, NEW p \in Slot, resume(c, p) PROVE TypeOK'
  BY <1>5 DEF resume
<1>6. ASSUME NEW c \in Cpu, NEW p \in Slot, yield(c, p) PROVE TypeOK'
  BY <1>6 DEF yield
<1>7. ASSUME NEW c \in Cpu, NEW p \in Slot, NEW call \in Calls \cup {"exit"}, usertrap(c, p, call)
       PROVE  TypeOK'
  BY <1>7 DEF usertrap
<1>8. ASSUME NEW c \in Cpu, NEW p \in Slot, syscall(c, p) PROVE TypeOK'
  BY <1>8 DEF syscall
<1>9. ASSUME NEW c \in Cpu, NEW p \in Slot, NEW np \in Slot, allocproc(c, p, np) PROVE TypeOK'
  BY <1>9 DEF allocproc
<1>10. ASSUME NEW c \in Cpu, NEW p \in Slot, fork_nospace(c, p) PROVE TypeOK'
  BY <1>10 DEF fork_nospace
<1>11. ASSUME NEW c \in Cpu, NEW p \in Slot, fork_nomem(c, p) PROVE TypeOK'
  BY <1>11 DEF fork_nomem, freeproc
<1>12. ASSUME NEW c \in Cpu, NEW p \in Slot, fork_copy(c, p) PROVE TypeOK'
  BY <1>12 DEF fork_copy
<1>13. ASSUME NEW c \in Cpu, NEW p \in Slot, fork_parent(c, p) PROVE TypeOK'
  BY <1>13 DEF fork_parent
<1>14. ASSUME NEW c \in Cpu, NEW p \in Slot, fork_ready(c, p) PROVE TypeOK'
  BY <1>14 DEF fork_ready
<1>15. ASSUME NEW c \in Cpu, NEW p \in Slot, acquire_wait_lock(c, p) PROVE TypeOK'
  BY <1>15 DEF acquire_wait_lock
<1>16. ASSUME NEW c \in Cpu, NEW p \in Slot, reparent(c, p) PROVE TypeOK'
  BY <1>16 DEF reparent, Adopted, wakeup, Sleepers
<1>17. ASSUME NEW c \in Cpu, NEW p \in Slot, exit_wakeup(c, p) PROVE TypeOK'
  BY <1>17 DEF exit_wakeup, wakeup, Sleepers
<1>18. ASSUME NEW c \in Cpu, NEW p \in Slot, exit_zombie(c, p) PROVE TypeOK'
  BY <1>18 DEF exit_zombie
<1>19. ASSUME NEW c \in Cpu, NEW p \in Slot, NEW q \in Slot, wait_reap(c, p, q) PROVE TypeOK'
  BY <1>19 DEF wait_reap, Zombies, Children, ReapLock, freeproc, wait_return
<1>20. ASSUME NEW c \in Cpu, NEW p \in Slot, NEW q \in Slot, wait_fault(c, p, q) PROVE TypeOK'
  BY <1>20 DEF wait_fault, wait_return
<1>21. ASSUME NEW c \in Cpu, NEW p \in Slot, wait_none(c, p) PROVE TypeOK'
  BY <1>21 DEF wait_none, wait_return
<1>22. ASSUME NEW c \in Cpu, NEW p \in Slot, wait_sleep(c, p) PROVE TypeOK'
  BY <1>22 DEF wait_sleep, sleep, ReleaseLk
<1>23. ASSUME NEW c \in Cpu, NEW p \in Slot, NEW q \in Slot, kill(c, p, q) PROVE TypeOK'
  BY <1>23 DEF kill, MarkKilled
<1>24. ASSUME NEW c \in Cpu, NEW p \in Slot, kill_none(c, p) PROVE TypeOK'
  BY <1>24 DEF kill_none
<1> HIDE DEF TypeOK
<1> QED
  BY <1>1, <1>2, <1>3, <1>4, <1>5, <1>6, <1>7, <1>8, <1>9, <1>10, <1>11, <1>12,
     <1>13, <1>14, <1>15, <1>16, <1>17, <1>18, <1>19, <1>20, <1>21, <1>22, <1>23, <1>24
  DEF Next, ThreadStep

\* Where the threads are: c->proc is the thread on c, also while the scheduler is only about
\* to forget it; p->lock is held from the change of p->state to the other side of swtch();
\* and a thread that no CPU has is inside of swtch() too.
SchedInv ==
  /\ \A c \in Cpu : on[c] # None => proc[c] = on[c]
  /\ \A c, d \in Cpu : proc[c] # None /\ proc[c] = proc[d] => c = d
  /\ \A c \in Cpu, p \in Slot : proc[c] = p =>
       /\ on[c] = p /\ pc[p] # "sched" => state[p] = "RUNNING"
       /\ on[c] = p /\ pc[p] = "sched" => state[p] \in Off
       /\ on[c] = None => pc[p] = "resume" /\ state[p] \in Off
       /\ on[c] = None \/ pc[p] \in {"sched", "resume"} => lock[p] = c
  /\ \A p \in Slot : (\A c \in Cpu : proc[c] # p) => pc[p] = "resume" /\ state[p] # "RUNNING"
  /\ \A p \in Slot : child[p] # None => state[child[p]] = "USED"
  /\ \A p, q \in Slot : child[p] # None /\ child[p] = child[q] => p = q

\* One case for each action.
LEMMA SchedStep ==
  ASSUME TypeOK, SchedInv, [Next]_vars
  PROVE  SchedInv'
<1> USE ProcAssumption
    DEF ProcAssumption, TypeOK, States, Labels, Unlocked, Waiting, Goto, cpus, SchedInv, Off
<1>1. CASE UNCHANGED vars
  BY <1>1 DEF vars
<1>2. ASSUME NEW c \in Cpu, scheduler_back(c) PROVE SchedInv'
  BY <1>2 DEF scheduler_back
<1>3. ASSUME NEW c \in Cpu, NEW p \in Slot, scheduler_run(c, p) PROVE SchedInv'
  BY <1>3 DEF scheduler_run, RunLock
<1>4. ASSUME NEW c \in Cpu, NEW p \in Slot, sched(c, p) PROVE SchedInv'
  BY <1>4 DEF sched
<1>5. ASSUME NEW c \in Cpu, NEW p \in Slot, resume(c, p) PROVE SchedInv'
  BY <1>5 DEF resume
<1>6. ASSUME NEW c \in Cpu, NEW p \in Slot, yield(c, p) PROVE SchedInv'
  BY <1>6 DEF yield
<1>7. ASSUME NEW c \in Cpu, NEW p \in Slot, NEW call \in Calls \cup {"exit"}, usertrap(c, p, call)
       PROVE  SchedInv'
  BY <1>7 DEF usertrap
<1>8. ASSUME NEW c \in Cpu, NEW p \in Slot, syscall(c, p) PROVE SchedInv'
  BY <1>8 DEF syscall
<1>9. ASSUME NEW c \in Cpu, NEW p \in Slot, NEW np \in Slot, allocproc(c, p, np)
       PROVE  SchedInv'
  BY <1>9 DEF allocproc
<1>10. ASSUME NEW c \in Cpu, NEW p \in Slot, fork_nospace(c, p) PROVE SchedInv'
  BY <1>10 DEF fork_nospace
<1>11. ASSUME NEW c \in Cpu, NEW p \in Slot, fork_nomem(c, p) PROVE SchedInv'
  BY <1>11 DEF fork_nomem, freeproc
<1>12. ASSUME NEW c \in Cpu, NEW p \in Slot, fork_copy(c, p) PROVE SchedInv'
  BY <1>12 DEF fork_copy
<1>13. ASSUME NEW c \in Cpu, NEW p \in Slot, fork_parent(c, p) PROVE SchedInv'
  BY <1>13 DEF fork_parent
<1>14. ASSUME NEW c \in Cpu, NEW p \in Slot, fork_ready(c, p) PROVE SchedInv'
  BY <1>14 DEF fork_ready
<1>15. ASSUME NEW c \in Cpu, NEW p \in Slot, acquire_wait_lock(c, p) PROVE SchedInv'
  BY <1>15 DEF acquire_wait_lock
<1>16. ASSUME NEW c \in Cpu, NEW p \in Slot, reparent(c, p) PROVE SchedInv'
  BY <1>16 DEF reparent, Adopted, wakeup, Sleepers
<1>17. ASSUME NEW c \in Cpu, NEW p \in Slot, exit_wakeup(c, p) PROVE SchedInv'
  BY <1>17 DEF exit_wakeup, wakeup, Sleepers
<1>18. ASSUME NEW c \in Cpu, NEW p \in Slot, exit_zombie(c, p) PROVE SchedInv'
  BY <1>18 DEF exit_zombie
<1>19. ASSUME NEW c \in Cpu, NEW p \in Slot, NEW q \in Slot, wait_reap(c, p, q) PROVE SchedInv'
  BY <1>19 DEF wait_reap, Zombies, Children, ReapLock, freeproc, wait_return
<1>20. ASSUME NEW c \in Cpu, NEW p \in Slot, NEW q \in Slot, wait_fault(c, p, q) PROVE SchedInv'
  BY <1>20 DEF wait_fault, wait_return
<1>21. ASSUME NEW c \in Cpu, NEW p \in Slot, wait_none(c, p) PROVE SchedInv'
  BY <1>21 DEF wait_none, wait_return
<1>22. ASSUME NEW c \in Cpu, NEW p \in Slot, wait_sleep(c, p) PROVE SchedInv'
  BY <1>22 DEF wait_sleep, sleep, ReleaseLk
<1>23. ASSUME NEW c \in Cpu, NEW p \in Slot, NEW q \in Slot, kill(c, p, q) PROVE SchedInv'
  BY <1>23 DEF kill, MarkKilled
<1>24. ASSUME NEW c \in Cpu, NEW p \in Slot, kill_none(c, p) PROVE SchedInv'
  BY <1>24 DEF kill_none
<1> HIDE DEF SchedInv
<1> QED
  BY <1>1, <1>2, <1>3, <1>4, <1>5, <1>6, <1>7, <1>8, <1>9, <1>10, <1>11, <1>12,
     <1>13, <1>14, <1>15, <1>16, <1>17, <1>18, <1>19, <1>20, <1>21, <1>22, <1>23, <1>24
  DEF Next, ThreadStep

\* A CPU holds no p->lock but the one of its own thread and, in fork(), the child's; and
\* wait_lock only where wait() and exit() have it.
LocksInv ==
  /\ \A c \in Cpu, q \in Slot : lock[q] = c =>
       \/ proc[c] = q
       \/ on[c] # None /\ pc[on[c]] = "fork_copy" /\ child[on[c]] = q
  /\ \A p \in Slot : pc[p] \in Waiting => wait_lock \in Cpu /\ on[wait_lock] = p
  /\ wait_lock # None => on[wait_lock] # None /\ pc[on[wait_lock]] \in Waiting

\* One case for each action.
LEMMA LocksStep ==
  ASSUME TypeOK, SchedInv, LocksInv, [Next]_vars
  PROVE  LocksInv'
<1> USE ProcAssumption
    DEF ProcAssumption, TypeOK, States, Labels, Unlocked, Waiting, Goto, cpus, SchedInv, Off,
        LocksInv
<1>1. CASE UNCHANGED vars
  BY <1>1 DEF vars
<1>2. ASSUME NEW c \in Cpu, scheduler_back(c) PROVE LocksInv'
  BY <1>2 DEF scheduler_back
<1>3. ASSUME NEW c \in Cpu, NEW p \in Slot, scheduler_run(c, p) PROVE LocksInv'
  BY <1>3 DEF scheduler_run, RunLock
<1>4. ASSUME NEW c \in Cpu, NEW p \in Slot, sched(c, p) PROVE LocksInv'
  BY <1>4 DEF sched
<1>5. ASSUME NEW c \in Cpu, NEW p \in Slot, resume(c, p) PROVE LocksInv'
  BY <1>5 DEF resume
<1>6. ASSUME NEW c \in Cpu, NEW p \in Slot, yield(c, p) PROVE LocksInv'
  BY <1>6 DEF yield
<1>7. ASSUME NEW c \in Cpu, NEW p \in Slot, NEW call \in Calls \cup {"exit"}, usertrap(c, p, call)
       PROVE  LocksInv'
  BY <1>7 DEF usertrap
<1>8. ASSUME NEW c \in Cpu, NEW p \in Slot, syscall(c, p) PROVE LocksInv'
  BY <1>8 DEF syscall
<1>9. ASSUME NEW c \in Cpu, NEW p \in Slot, NEW np \in Slot, allocproc(c, p, np)
       PROVE  LocksInv'
  BY <1>9 DEF allocproc
<1>10. ASSUME NEW c \in Cpu, NEW p \in Slot, fork_nospace(c, p) PROVE LocksInv'
  BY <1>10 DEF fork_nospace
<1>11. ASSUME NEW c \in Cpu, NEW p \in Slot, fork_nomem(c, p) PROVE LocksInv'
  BY <1>11 DEF fork_nomem, freeproc
<1>12. ASSUME NEW c \in Cpu, NEW p \in Slot, fork_copy(c, p) PROVE LocksInv'
  BY <1>12 DEF fork_copy
<1>13. ASSUME NEW c \in Cpu, NEW p \in Slot, fork_parent(c, p) PROVE LocksInv'
  BY <1>13 DEF fork_parent
<1>14. ASSUME NEW c \in Cpu, NEW p \in Slot, fork_ready(c, p) PROVE LocksInv'
  BY <1>14 DEF fork_ready
<1>15. ASSUME NEW c \in Cpu, NEW p \in Slot, acquire_wait_lock(c, p) PROVE LocksInv'
  BY <1>15 DEF acquire_wait_lock
<1>16. ASSUME NEW c \in Cpu, NEW p \in Slot, reparent(c, p) PROVE LocksInv'
  BY <1>16 DEF reparent, Adopted, wakeup, Sleepers
<1>17. ASSUME NEW c \in Cpu, NEW p \in Slot, exit_wakeup(c, p) PROVE LocksInv'
  BY <1>17 DEF exit_wakeup, wakeup, Sleepers
<1>18. ASSUME NEW c \in Cpu, NEW p \in Slot, exit_zombie(c, p) PROVE LocksInv'
  BY <1>18 DEF exit_zombie
<1>19. ASSUME NEW c \in Cpu, NEW p \in Slot, NEW q \in Slot, wait_reap(c, p, q) PROVE LocksInv'
  BY <1>19 DEF wait_reap, Zombies, Children, ReapLock, freeproc, wait_return
<1>20. ASSUME NEW c \in Cpu, NEW p \in Slot, NEW q \in Slot, wait_fault(c, p, q) PROVE LocksInv'
  BY <1>20 DEF wait_fault, wait_return
<1>21. ASSUME NEW c \in Cpu, NEW p \in Slot, wait_none(c, p) PROVE LocksInv'
  BY <1>21 DEF wait_none, wait_return
<1>22. ASSUME NEW c \in Cpu, NEW p \in Slot, wait_sleep(c, p) PROVE LocksInv'
  BY <1>22 DEF wait_sleep, sleep, ReleaseLk
<1>23. ASSUME NEW c \in Cpu, NEW p \in Slot, NEW q \in Slot, kill(c, p, q) PROVE LocksInv'
  BY <1>23 DEF kill, MarkKilled
<1>24. ASSUME NEW c \in Cpu, NEW p \in Slot, kill_none(c, p) PROVE LocksInv'
  BY <1>24 DEF kill_none
<1> HIDE DEF LocksInv
<1> QED
  BY <1>1, <1>2, <1>3, <1>4, <1>5, <1>6, <1>7, <1>8, <1>9, <1>10, <1>11, <1>12,
     <1>13, <1>14, <1>15, <1>16, <1>17, <1>18, <1>19, <1>20, <1>21, <1>22, <1>23, <1>24
  DEF Next, ThreadStep

Alive == {"RUNNABLE", "SLEEPING", "RUNNING"}
Exiting == {"exit", "exit_reparent", "exit_wakeup", "exit_zombie"}

\* Where a thread is, or will be when it is back from swtch().
At(p) == IF pc[p] \in {"sched", "resume"} THEN ret[p] ELSE pc[p]

\* init never exits; who has children is alive; a process that is about to exit has given
\* its children away; and a child that fork() is about to start has a parent.
ParentInv ==
  /\ state[initproc] \in Alive /\ killed[initproc] = 0 /\ pid[initproc] = 1
  /\ pc[initproc] \notin Exiting /\ ret[initproc] \notin Exiting
  /\ \A q \in Slot : parent[q] # None => state[parent[q]] \in Alive
  /\ \A q \in Slot : state[q] \in Alive \cup {"ZOMBIE"} /\ q # initproc => parent[q] # None
  /\ \A p, q \in Slot : pc[p] \in {"exit_wakeup", "exit_zombie"} => parent[q] # p
  /\ \A p \in Slot : child[p] # None =>
       /\ state[p] \in Alive
       /\ At(p) \in {"fork_copy", "fork_parent", "fork_ready"}
       /\ At(p) = "fork_ready" => parent[child[p]] = p

\* One case for each action.
LEMMA ParentStep ==
  ASSUME TypeOK, SchedInv, ParentInv, [Next]_vars
  PROVE  ParentInv'
<1> USE ProcAssumption
    DEF ProcAssumption, TypeOK, States, Labels, Unlocked, Waiting, Goto, table, cpus, SchedInv, Off,
        ParentInv, Alive, Exiting, At
<1>1. CASE UNCHANGED vars
  BY <1>1 DEF vars
<1>2. ASSUME NEW c \in Cpu, scheduler_back(c) PROVE ParentInv'
  BY <1>2 DEF scheduler_back
<1>3. ASSUME NEW c \in Cpu, NEW p \in Slot, scheduler_run(c, p) PROVE ParentInv'
  BY <1>3 DEF scheduler_run, RunLock
<1>4. ASSUME NEW c \in Cpu, NEW p \in Slot, sched(c, p) PROVE ParentInv'
  BY <1>4 DEF sched
<1>5. ASSUME NEW c \in Cpu, NEW p \in Slot, resume(c, p) PROVE ParentInv'
  BY <1>5 DEF resume
<1>6. ASSUME NEW c \in Cpu, NEW p \in Slot, yield(c, p) PROVE ParentInv'
  BY <1>6 DEF yield
<1>7. ASSUME NEW c \in Cpu, NEW p \in Slot, NEW call \in Calls \cup {"exit"}, usertrap(c, p, call)
       PROVE  ParentInv'
  BY <1>7 DEF usertrap, InitCalls
<1>8. ASSUME NEW c \in Cpu, NEW p \in Slot, syscall(c, p) PROVE ParentInv'
  BY <1>8 DEF syscall
<1>9. ASSUME NEW c \in Cpu, NEW p \in Slot, NEW np \in Slot, allocproc(c, p, np)
       PROVE  ParentInv'
  BY <1>9 DEF allocproc
<1>10. ASSUME NEW c \in Cpu, NEW p \in Slot, fork_nospace(c, p) PROVE ParentInv'
  BY <1>10 DEF fork_nospace
<1>11. ASSUME NEW c \in Cpu, NEW p \in Slot, fork_nomem(c, p) PROVE ParentInv'
  BY <1>11 DEF fork_nomem, freeproc
<1>12. ASSUME NEW c \in Cpu, NEW p \in Slot, fork_copy(c, p) PROVE ParentInv'
  BY <1>12 DEF fork_copy
<1>13. ASSUME NEW c \in Cpu, NEW p \in Slot, fork_parent(c, p) PROVE ParentInv'
  BY <1>13 DEF fork_parent
<1>14. ASSUME NEW c \in Cpu, NEW p \in Slot, fork_ready(c, p) PROVE ParentInv'
  BY <1>14 DEF fork_ready
<1>15. ASSUME NEW c \in Cpu, NEW p \in Slot, acquire_wait_lock(c, p) PROVE ParentInv'
  BY <1>15 DEF acquire_wait_lock
<1>16. ASSUME NEW c \in Cpu, NEW p \in Slot, reparent(c, p) PROVE ParentInv'
  BY <1>16 DEF reparent, Adopted, wakeup, Sleepers
<1>17. ASSUME NEW c \in Cpu, NEW p \in Slot, exit_wakeup(c, p) PROVE ParentInv'
  BY <1>17 DEF exit_wakeup, wakeup, Sleepers
<1>18. ASSUME NEW c \in Cpu, NEW p \in Slot, exit_zombie(c, p) PROVE ParentInv'
  BY <1>18 DEF exit_zombie
<1>19. ASSUME NEW c \in Cpu, NEW p \in Slot, NEW q \in Slot, wait_reap(c, p, q) PROVE ParentInv'
  BY <1>19 DEF wait_reap, Zombies, Children, ReapLock, freeproc, wait_return
<1>20. ASSUME NEW c \in Cpu, NEW p \in Slot, NEW q \in Slot, wait_fault(c, p, q)
       PROVE  ParentInv'
  BY <1>20 DEF wait_fault, wait_return
<1>21. ASSUME NEW c \in Cpu, NEW p \in Slot, wait_none(c, p) PROVE ParentInv'
  BY <1>21 DEF wait_none, wait_return
<1>22. ASSUME NEW c \in Cpu, NEW p \in Slot, wait_sleep(c, p) PROVE ParentInv'
  BY <1>22 DEF wait_sleep, sleep, ReleaseLk
<1>23. ASSUME NEW c \in Cpu, NEW p \in Slot, NEW q \in Slot, kill(c, p, q) PROVE ParentInv'
  BY <1>23 DEF kill, MarkKilled
<1>24. ASSUME NEW c \in Cpu, NEW p \in Slot, kill_none(c, p) PROVE ParentInv'
  BY <1>24 DEF kill_none
<1> HIDE DEF ParentInv
<1> QED
  BY <1>1, <1>2, <1>3, <1>4, <1>5, <1>6, <1>7, <1>8, <1>9, <1>10, <1>11, <1>12,
     <1>13, <1>14, <1>15, <1>16, <1>17, <1>18, <1>19, <1>20, <1>21, <1>22, <1>23, <1>24
  DEF Next, ThreadStep

\* wait_lock is held from the scan of wait() to its sleep(), and from the wakeup() of exit()
\* to the change of p->state: neither can come in between the two steps of the other.
WaitInv ==
  /\ \A p, q \in Slot : pc[p] = "wait_sleep" /\ parent[q] = p => state[q] # "ZOMBIE"
  /\ \A p, q \in Slot : pc[q] = "exit_zombie" /\ parent[q] = p =>
       ~(state[p] = "SLEEPING" /\ chan[p] = p)
  /\ \A p, q \in Slot : state[p] = "SLEEPING" /\ chan[p] = p /\ parent[q] = p =>
       state[q] # "ZOMBIE"

\* One case for each action.
LEMMA WaitStep ==
  ASSUME TypeOK, SchedInv, LocksInv, ParentInv, WaitInv, [Next]_vars
  PROVE  WaitInv'
<1> USE ProcAssumption
    DEF ProcAssumption, TypeOK, States, Labels, Unlocked, Waiting, Goto, table, cpus, SchedInv, Off,
        LocksInv, ParentInv, Alive, Exiting, At, WaitInv
<1>1. CASE UNCHANGED vars
  BY <1>1 DEF vars
<1>2. ASSUME NEW c \in Cpu, scheduler_back(c) PROVE WaitInv'
  BY <1>2 DEF scheduler_back
<1>3. ASSUME NEW c \in Cpu, NEW p \in Slot, scheduler_run(c, p) PROVE WaitInv'
  BY <1>3 DEF scheduler_run, RunLock
<1>4. ASSUME NEW c \in Cpu, NEW p \in Slot, sched(c, p) PROVE WaitInv'
  BY <1>4 DEF sched
<1>5. ASSUME NEW c \in Cpu, NEW p \in Slot, resume(c, p) PROVE WaitInv'
  <2>1. \A q \in Slot : pc'[q] \in {"wait_sleep", "exit_zombie"} => pc[q] = pc'[q]
    BY <1>5, SMTT(30) DEF resume
  <2>2. \A q \in Slot : chan'[q] = q => chan[q] = q
    BY <1>5 DEF resume
  <2> QED BY <1>5, <2>1, <2>2 DEF resume
<1>6. ASSUME NEW c \in Cpu, NEW p \in Slot, yield(c, p) PROVE WaitInv'
  BY <1>6, SMTT(30) DEF yield
<1>7. ASSUME NEW c \in Cpu, NEW p \in Slot, NEW call \in Calls \cup {"exit"}, usertrap(c, p, call)
       PROVE  WaitInv'
  BY <1>7 DEF usertrap
<1>8. ASSUME NEW c \in Cpu, NEW p \in Slot, syscall(c, p) PROVE WaitInv'
  BY <1>8 DEF syscall
<1>9. ASSUME NEW c \in Cpu, NEW p \in Slot, NEW np \in Slot, allocproc(c, p, np) PROVE WaitInv'
  BY <1>9 DEF allocproc
<1>10. ASSUME NEW c \in Cpu, NEW p \in Slot, fork_nospace(c, p) PROVE WaitInv'
  BY <1>10 DEF fork_nospace
<1>11. ASSUME NEW c \in Cpu, NEW p \in Slot, fork_nomem(c, p) PROVE WaitInv'
  BY <1>11 DEF fork_nomem, freeproc
<1>12. ASSUME NEW c \in Cpu, NEW p \in Slot, fork_copy(c, p) PROVE WaitInv'
  BY <1>12 DEF fork_copy
<1>13. ASSUME NEW c \in Cpu, NEW p \in Slot, fork_parent(c, p) PROVE WaitInv'
  BY <1>13 DEF fork_parent
<1>14. ASSUME NEW c \in Cpu, NEW p \in Slot, fork_ready(c, p) PROVE WaitInv'
  BY <1>14 DEF fork_ready
<1>15. ASSUME NEW c \in Cpu, NEW p \in Slot, acquire_wait_lock(c, p) PROVE WaitInv'
  BY <1>15 DEF acquire_wait_lock
<1>16. ASSUME NEW c \in Cpu, NEW p \in Slot, reparent(c, p) PROVE WaitInv'
  BY <1>16 DEF reparent, Adopted, wakeup, Sleepers, Children
<1>17. ASSUME NEW c \in Cpu, NEW p \in Slot, exit_wakeup(c, p) PROVE WaitInv'
  BY <1>17 DEF exit_wakeup, wakeup, Sleepers
<1>18. ASSUME NEW c \in Cpu, NEW p \in Slot, exit_zombie(c, p) PROVE WaitInv'
  BY <1>18 DEF exit_zombie
<1>19. ASSUME NEW c \in Cpu, NEW p \in Slot, NEW q \in Slot, wait_reap(c, p, q) PROVE WaitInv'
  BY <1>19, SMTT(30) DEF wait_reap, Zombies, Children, ReapLock, freeproc, wait_return
<1>20. ASSUME NEW c \in Cpu, NEW p \in Slot, NEW q \in Slot, wait_fault(c, p, q) PROVE WaitInv'
  BY <1>20 DEF wait_fault, wait_return
<1>21. ASSUME NEW c \in Cpu, NEW p \in Slot, wait_none(c, p) PROVE WaitInv'
  BY <1>21, SMTT(30) DEF wait_none, wait_return, Zombies, Children
<1>22. ASSUME NEW c \in Cpu, NEW p \in Slot, wait_sleep(c, p) PROVE WaitInv'
  BY <1>22 DEF wait_sleep, sleep, ReleaseLk
<1>23. ASSUME NEW c \in Cpu, NEW p \in Slot, NEW q \in Slot, kill(c, p, q) PROVE WaitInv'
  BY <1>23, SMTT(30) DEF kill, MarkKilled
<1>24. ASSUME NEW c \in Cpu, NEW p \in Slot, kill_none(c, p) PROVE WaitInv'
  BY <1>24 DEF kill_none
<1> HIDE DEF WaitInv
<1> QED
  BY <1>1, <1>2, <1>3, <1>4, <1>5, <1>6, <1>7, <1>8, <1>9, <1>10, <1>11, <1>12,
     <1>13, <1>14, <1>15, <1>16, <1>17, <1>18, <1>19, <1>20, <1>21, <1>22, <1>23, <1>24
  DEF Next, ThreadStep

-------------------------------------------------------------------------------
(* The theorems                                                                *)

IInv == TypeOK /\ SchedInv /\ LocksInv /\ ParentInv /\ WaitInv

\* The invariant holds from userinit() on.
LEMMA ProcInv ==
  Spec => []IInv
<1>1. Init => IInv
  BY ProcAssumption
  DEF ProcAssumption, Init, IInv, TypeOK, States, Labels, Unlocked, Waiting, SchedInv, Off,
      LocksInv, ParentInv, Alive, Exiting, At, WaitInv
<1>2. IInv /\ [Next]_vars => IInv'
  BY TypeStep, SchedStep, LocksStep, ParentStep, WaitStep DEF IInv
<1> QED BY <1>1, <1>2, PTL DEF Spec

\* scheduler() (proc.c:514) on any number of CPUs runs a process on one of them at a time.
THEOREM ThreadsRunOnce ==
  Spec => []OneCpuPerThread
<1>1. IInv => OneCpuPerThread
  BY DEF IInv, TypeOK, SchedInv, OneCpuPerThread
<1> QED BY <1>1, ProcInv, PTL

\* wait() and fork() (proc.c:460, proc.c:350) leave a kernel stack alone as long as some
\* CPU is on it.
THEOREM StacksAreNotReused ==
  Spec => []NoStackReuse
<1>1. IInv => NoStackReuse
  BY DEF IInv, TypeOK, SchedInv, NoStackReuse, Off
<1> QED BY <1>1, ProcInv, PTL

\* The checks of sched() for locks and state (proc.c:551) never fail, whoever calls it.
THEOREM SchedChecks ==
  Spec => []SchedNeverPanics
<1>1. IInv => SchedNeverPanics
  BY ProcAssumption
  DEF ProcAssumption, IInv, TypeOK, SchedInv, LocksInv, Waiting, SchedNeverPanics, Off
<1> QED BY <1>1, ProcInv, PTL

\* exit(), reparent() and wait() (proc.c:416, proc.c:400, proc.c:460) lose no wakeup: whoever
\* sleeps in wait() has no child to reap, init and the orphans it was given included.
THEOREM ExitsAreSeen ==
  Spec => []NoLostExit
<1>1. IInv => NoLostExit
  BY DEF IInv, WaitInv, NoLostExit, Sleepers, Zombies, Children
<1> QED BY <1>1, ProcInv, PTL

\* fork(), exit() and reparent() (proc.c:350, proc.c:416, proc.c:400) leave no process
\* without a parent that can wait for it.
THEOREM ParentsAreAlive ==
  Spec => []ParentIsAlive
<1>1. IInv => ParentIsAlive
  BY DEF IInv, TypeOK, States, ParentInv, Alive, ParentIsAlive
<1> QED BY <1>1, ProcInv, PTL

===============================================================================
