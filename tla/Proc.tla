--------------------------------- MODULE Proc ---------------------------------
(***************************************************************************)
(* Processes of kernel/proc.c: the process table, fork(), exit(), wait(),  *)
(* kill(), sleep(), wakeup(), and the scheduler of every CPU.              *)
(*                                                                         *)
(* A slot of the table is also the kernel thread that runs on its stack;   *)
(* pc is where that thread is.  p->lock and wait_lock are held by a CPU,   *)
(* as struct spinlock records it.  A critical section of p->lock with no   *)
(* other acquire() inside is one step that needs the lock free; the locks  *)
(* held across other steps, wait_lock and the p->lock that is handed over  *)
(* by swtch(), are variables.                                              *)
(***************************************************************************)
EXTENDS Integers, FiniteSets

CONSTANTS Slot,      \* proc[NPROC]
          initproc,  \* the slot of the first process
          Cpu,       \* cpus[NCPU]
          MaxPid,    \* bound on nextpid, so on the number of forks
          Calls,     \* system calls that processes make
          KillPids,  \* arguments given to kill()
          None       \* 0 as a pointer or as a lock's holder

ASSUME ProcAssumption ==
  /\ initproc \in Slot
  /\ None \notin Slot \cup Cpu
  /\ MaxPid \in Nat
  /\ Calls \subseteq {"fork", "wait", "exit", "kill", "syscall"}
  /\ KillPids \subseteq Nat \ {1}

VARIABLES
  state,      \* p->state
  pid,        \* p->pid
  parent,     \* p->parent
  chan,       \* p->chan
  killed,     \* p->killed
  lock,       \* p->lock: the CPU that holds it
  wait_lock,  \* the CPU that holds it
  nextpid,
  proc,       \* c->proc
  on,         \* the thread CPU c executes, None for its scheduler
  pc,         \* where each kernel thread is
  ret,        \* where it goes on after sched()
  child       \* np of fork()

vars == <<state, pid, parent, chan, killed, lock, wait_lock, nextpid, proc, on,
          pc, ret, child>>
table == <<pid, parent, killed>>    \* fields that only fork, wait, exit, kill change
cpus  == <<proc, on>>

States == {"UNUSED", "USED", "SLEEPING", "RUNNABLE", "RUNNING", "ZOMBIE"}

\* Labels at which a thread holds no spinlock, so that interrupts are on.
Unlocked == {"user", "fork", "fork_parent", "fork_ready", "wait", "exit", "kill",
             "syscall"}
\* Labels at which it holds wait_lock.
Waiting  == {"wait_scan", "wait_sleep", "exit_reparent", "exit_wakeup", "exit_zombie"}
Labels   == Unlocked \cup Waiting \cup {"fork_copy", "sched", "resume"}

Children(p) == {q \in Slot : parent[q] = p}
Zombies(p)  == {q \in Children(p) : state[q] = "ZOMBIE"}

\* procinit() and userinit().
Init ==
  /\ state = [p \in Slot |-> IF p = initproc THEN "RUNNABLE" ELSE "UNUSED"]
  /\ pid = [p \in Slot |-> IF p = initproc THEN 1 ELSE 0]
  /\ parent = [p \in Slot |-> None]
  /\ chan = [p \in Slot |-> None]
  /\ killed = [p \in Slot |-> 0]
  /\ lock = [p \in Slot |-> None]
  /\ wait_lock = None
  /\ nextpid = 2
  /\ proc = [c \in Cpu |-> None]
  /\ on = [c \in Cpu |-> None]
  /\ pc = [p \in Slot |-> "resume"]
  /\ ret = [p \in Slot |-> "user"]
  /\ child = [p \in Slot |-> None]

Goto(p, l) == pc' = [pc EXCEPT ![p] = l]

-------------------------------------------------------------------------------
(* The scheduler and the switch to and from it.                             *)

MutNoRunLock(p) == TRUE

\* scheduler() acquires p->lock before it looks at p->state.
RunLock(p) == lock[p] = None

\* scheduler() finds p RUNNABLE and switches to it, p->lock held.
scheduler_run(c, p) ==
  /\ on[c] = None /\ proc[c] = None
  /\ RunLock(p)
  /\ state[p] = "RUNNABLE"
  /\ state' = [state EXCEPT ![p] = "RUNNING"]
  /\ lock' = [lock EXCEPT ![p] = c]
  /\ proc' = [proc EXCEPT ![c] = p]
  /\ on' = [on EXCEPT ![c] = p]
  /\ UNCHANGED <<table, chan, wait_lock, nextpid, pc, ret, child>>

\* The process switched back: scheduler() forgets it and releases p->lock.
scheduler_back(c) ==
  /\ on[c] = None /\ proc[c] # None
  /\ lock' = [lock EXCEPT ![proc[c]] = None]
  /\ proc' = [proc EXCEPT ![c] = None]
  /\ UNCHANGED <<state, table, chan, wait_lock, nextpid, on, pc, ret, child>>

\* sched(): swtch() to the scheduler of this CPU, p->lock held.
sched(c, p) ==
  /\ on[c] = p /\ pc[p] = "sched"
  /\ on' = [on EXCEPT ![c] = None]
  /\ Goto(p, "resume")
  /\ UNCHANGED <<state, table, chan, lock, wait_lock, nextpid, proc, ret, child>>

\* The rest of yield(), of sleep() or of forkret(), after swtch() came back.
resume(c, p) ==
  /\ on[c] = p /\ pc[p] = "resume"
  /\ lock' = [lock EXCEPT ![p] = None]
  /\ chan' = [chan EXCEPT ![p] = None]
  /\ Goto(p, ret[p])
  /\ UNCHANGED <<state, table, wait_lock, nextpid, cpus, ret, child>>

\* A timer interrupt: usertrap() checks p->killed first, kerneltrap() does not.
yield(c, p) ==
  /\ on[c] = p /\ pc[p] \in Unlocked
  /\ pc[p] = "user" => killed[p] = 0
  /\ lock[p] = None
  /\ lock' = [lock EXCEPT ![p] = c]
  /\ state' = [state EXCEPT ![p] = "RUNNABLE"]
  /\ ret' = [ret EXCEPT ![p] = pc[p]]
  /\ Goto(p, "sched")
  /\ UNCHANGED <<table, chan, wait_lock, nextpid, cpus, child>>

\* release(lk) of sleep().
ReleaseLk == wait_lock' = None

\* sleep(ch, &wait_lock), and p goes on at l when it is woken.
sleep(c, p, ch, l) ==
  /\ lock[p] = None
  /\ lock' = [lock EXCEPT ![p] = c]
  /\ ReleaseLk
  /\ chan' = [chan EXCEPT ![p] = ch]
  /\ state' = [state EXCEPT ![p] = "SLEEPING"]
  /\ ret' = [ret EXCEPT ![p] = l]
  /\ Goto(p, "sched")
  /\ UNCHANGED <<table, nextpid, cpus, child>>

Sleepers(ch) == {q \in Slot : state[q] = "SLEEPING" /\ chan[q] = ch}

MutNoWakeup(ch) == UNCHANGED state

\* wakeup(ch), whose acquire() waits for a process on its way into sched().
wakeup(ch) ==
  /\ \A q \in Sleepers(ch) : lock[q] = None
  /\ state' = [q \in Slot |-> IF q \in Sleepers(ch) THEN "RUNNABLE" ELSE state[q]]

-------------------------------------------------------------------------------
(* usertrap() and the system calls.                                         *)

\* init.c forks one shell, and waits while it has children.
InitCalls == IF Children(initproc) = {} THEN {"fork"} ELSE {"wait"}

\* usertrap(): a killed process exits, another makes a system call.
usertrap(c, p, call) ==
  /\ on[c] = p /\ pc[p] = "user"
  /\ IF killed[p] = 1 THEN call = "exit"
                      ELSE call \in IF p = initproc THEN InitCalls ELSE Calls
  /\ Goto(p, call)
  /\ UNCHANGED <<state, table, chan, lock, wait_lock, nextpid, cpus, ret, child>>

\* A system call that leaves the process table alone.
syscall(c, p) ==
  /\ on[c] = p /\ pc[p] = "syscall"
  /\ Goto(p, "user")
  /\ UNCHANGED <<state, table, chan, lock, wait_lock, nextpid, cpus, ret, child>>

freeproc(q) ==
  /\ pid' = [pid EXCEPT ![q] = 0]
  /\ parent' = [parent EXCEPT ![q] = None]
  /\ chan' = [chan EXCEPT ![q] = None]
  /\ killed' = [killed EXCEPT ![q] = 0]
  /\ state' = [state EXCEPT ![q] = "UNUSED"]

\* allocproc() takes an UNUSED slot, whose thread will start at forkret().
allocproc(c, p, np) ==
  /\ on[c] = p /\ pc[p] = "fork"
  /\ state[np] = "UNUSED" /\ lock[np] = None
  /\ nextpid <= MaxPid
  /\ pid' = [pid EXCEPT ![np] = nextpid]
  /\ nextpid' = nextpid + 1
  /\ state' = [state EXCEPT ![np] = "USED"]
  /\ lock' = [lock EXCEPT ![np] = c]
  /\ child' = [child EXCEPT ![p] = np]
  /\ ret' = [ret EXCEPT ![np] = "user"]
  /\ pc' = [pc EXCEPT ![p] = "fork_copy", ![np] = "resume"]
  /\ UNCHANGED <<parent, chan, killed, wait_lock, cpus>>

\* allocproc() finds no slot.  It looks at one slot at a time, so it may miss one
\* that is freed behind it.  init.c would exit: its fork() is assumed to succeed.
fork_nospace(c, p) ==
  /\ on[c] = p /\ pc[p] = "fork"
  /\ p # initproc
  /\ Goto(p, "user")
  /\ UNCHANGED <<state, table, chan, lock, wait_lock, nextpid, cpus, ret, child>>

\* No memory for the trapframe, the page table or the copy of the parent's.
fork_nomem(c, p) ==
  /\ on[c] = p /\ pc[p] = "fork_copy"
  /\ p # initproc
  /\ freeproc(child[p])
  /\ lock' = [lock EXCEPT ![child[p]] = None]
  /\ child' = [child EXCEPT ![p] = None]
  /\ Goto(p, "user")
  /\ UNCHANGED <<wait_lock, nextpid, cpus, ret>>

\* The child has its memory, its registers and its files.
fork_copy(c, p) ==
  /\ on[c] = p /\ pc[p] = "fork_copy"
  /\ lock' = [lock EXCEPT ![child[p]] = None]
  /\ Goto(p, "fork_parent")
  /\ UNCHANGED <<state, table, chan, wait_lock, nextpid, cpus, ret, child>>

fork_parent(c, p) ==
  /\ on[c] = p /\ pc[p] = "fork_parent"
  /\ wait_lock = None
  /\ parent' = [parent EXCEPT ![child[p]] = p]
  /\ Goto(p, "fork_ready")
  /\ UNCHANGED <<state, pid, killed, chan, lock, wait_lock, nextpid, cpus, ret, child>>

fork_ready(c, p) ==
  /\ on[c] = p /\ pc[p] = "fork_ready"
  /\ lock[child[p]] = None
  /\ state' = [state EXCEPT ![child[p]] = "RUNNABLE"]
  /\ child' = [child EXCEPT ![p] = None]
  /\ Goto(p, "user")
  /\ UNCHANGED <<table, chan, lock, wait_lock, nextpid, cpus, ret>>

\* acquire(&wait_lock) of wait() and of exit(), which closed its files before.
acquire_wait_lock(c, p) ==
  /\ on[c] = p /\ pc[p] \in {"wait", "exit"}
  /\ wait_lock = None
  /\ wait_lock' = c
  /\ Goto(p, IF pc[p] = "wait" THEN "wait_scan" ELSE "exit_reparent")
  /\ UNCHANGED <<state, table, chan, lock, nextpid, cpus, ret, child>>

MutAdoptZombies(p) ==
  [q \in Slot |-> IF q \in Zombies(p) THEN initproc ELSE parent[q]]

\* The parents after reparent(p).
Adopted(p) == [q \in Slot |-> IF parent[q] = p THEN initproc ELSE parent[q]]

\* Give the children to init and wake it.
reparent(c, p) ==
  /\ on[c] = p /\ pc[p] = "exit_reparent"
  /\ parent' = Adopted(p)
  /\ IF Children(p) = {} THEN UNCHANGED state ELSE wakeup(initproc)
  /\ Goto(p, "exit_wakeup")
  /\ UNCHANGED <<pid, killed, chan, lock, wait_lock, nextpid, cpus, ret, child>>

exit_wakeup(c, p) ==
  /\ on[c] = p /\ pc[p] = "exit_wakeup"
  /\ wakeup(parent[p])
  /\ Goto(p, "exit_zombie")
  /\ UNCHANGED <<table, chan, lock, wait_lock, nextpid, cpus, ret, child>>

\* ZOMBIE, with p->lock held until the scheduler is off this stack.
exit_zombie(c, p) ==
  /\ on[c] = p /\ pc[p] = "exit_zombie"
  /\ lock[p] = None
  /\ lock' = [lock EXCEPT ![p] = c]
  /\ state' = [state EXCEPT ![p] = "ZOMBIE"]
  /\ wait_lock' = None
  /\ Goto(p, "sched")
  /\ UNCHANGED <<table, chan, nextpid, cpus, ret, child>>

MutNoReapLock(q) == TRUE

\* The scan of wait() for an exited child acquires its lock before it looks.
ReapLock(q) == lock[q] = None

MutReturnLocked(p) == UNCHANGED wait_lock /\ Goto(p, "user")

\* wait() returns.
wait_return(p) == wait_lock' = None /\ Goto(p, "user")

\* wait() found an exited child.
wait_reap(c, p, q) ==
  /\ on[c] = p /\ pc[p] = "wait_scan"
  /\ q \in Zombies(p)
  /\ ReapLock(q)
  /\ freeproc(q)
  /\ wait_return(p)
  /\ UNCHANGED <<lock, nextpid, cpus, ret, child>>

\* wait() found one, but the address for its status is not mapped; init.c gives none.
wait_fault(c, p, q) ==
  /\ on[c] = p /\ pc[p] = "wait_scan"
  /\ p # initproc
  /\ q \in Zombies(p) /\ ReapLock(q)
  /\ wait_return(p)
  /\ UNCHANGED <<state, table, chan, lock, nextpid, cpus, ret, child>>

\* wait() found no exited child: return -1, or go to sleep.
wait_none(c, p) ==
  /\ on[c] = p /\ pc[p] = "wait_scan"
  /\ Zombies(p) = {}
  /\ IF Children(p) = {} \/ killed[p] = 1
       THEN wait_return(p)
       ELSE UNCHANGED wait_lock /\ Goto(p, "wait_sleep")
  /\ UNCHANGED <<state, table, chan, lock, nextpid, cpus, ret, child>>

wait_sleep(c, p) ==
  /\ on[c] = p /\ pc[p] = "wait_sleep"
  /\ sleep(c, p, p, "wait")

MarkKilled(q) == killed' = [killed EXCEPT ![q] = 1]

\* kill(n): the slot with that pid; a sleeping victim is made RUNNABLE.
kill(c, p, q) ==
  /\ on[c] = p /\ pc[p] = "kill"
  /\ pid[q] \in KillPids
  /\ lock[q] = None
  /\ MarkKilled(q)
  /\ state' = [state EXCEPT ![q] = IF @ = "SLEEPING" THEN "RUNNABLE" ELSE @]
  /\ Goto(p, "user")
  /\ UNCHANGED <<pid, parent, chan, lock, wait_lock, nextpid, cpus, ret, child>>

\* kill(): no process has that pid.
kill_none(c, p) ==
  /\ on[c] = p /\ pc[p] = "kill"
  /\ Goto(p, "user")
  /\ UNCHANGED <<state, table, chan, lock, wait_lock, nextpid, cpus, ret, child>>

ThreadStep(c, p) ==
  \/ \E call \in Calls \cup {"exit"} : usertrap(c, p, call)
  \/ syscall(c, p)
  \/ \E np \in Slot : allocproc(c, p, np)
  \/ fork_nospace(c, p) \/ fork_nomem(c, p)
  \/ fork_copy(c, p) \/ fork_parent(c, p) \/ fork_ready(c, p)
  \/ acquire_wait_lock(c, p)
  \/ reparent(c, p) \/ exit_wakeup(c, p) \/ exit_zombie(c, p)
  \/ \E q \in Slot : wait_reap(c, p, q) \/ wait_fault(c, p, q) \/ kill(c, p, q)
  \/ wait_none(c, p) \/ wait_sleep(c, p)
  \/ kill_none(c, p)

Next == \E c \in Cpu :
  \/ scheduler_back(c)
  \/ \E p \in Slot : \/ scheduler_run(c, p) \/ sched(c, p) \/ resume(c, p)
                     \/ yield(c, p) \/ ThreadStep(c, p)

Spec == Init /\ [][Next]_vars

-------------------------------------------------------------------------------
(* Properties                                                                *)

\* The type invariant of the process table, the CPUs and the threads.
TypeOK ==
  /\ state \in [Slot -> States]
  /\ pid \in [Slot -> Nat]
  /\ parent \in [Slot -> Slot \cup {None}]
  /\ chan \in [Slot -> Slot \cup {None}]
  /\ killed \in [Slot -> {0, 1}]
  /\ lock \in [Slot -> Cpu \cup {None}]
  /\ wait_lock \in Cpu \cup {None}
  /\ nextpid \in Nat
  /\ proc \in [Cpu -> Slot \cup {None}]
  /\ on \in [Cpu -> Slot \cup {None}]
  /\ pc \in [Slot -> Labels]
  /\ ret \in [Slot -> Unlocked]
  /\ child \in [Slot -> Slot \cup {None}]

\* scheduler() never runs one process on two CPUs, and myproc() of a running
\* thread is that thread: c->proc is set and cleared around swtch().
OneCpuPerThread ==
  \A c \in Cpu : on[c] # None =>
    /\ proc[c] = on[c]
    /\ \A d \in Cpu : on[d] = on[c] => d = c

\* wait() never frees a child whose CPU still executes on its kernel stack
\* ("make sure the child isn't still in exit() or swtch()"), so that fork()
\* cannot give the stack to a new process meanwhile.
NoStackReuse == \A c \in Cpu : proc[c] # None => state[proc[c]] \notin {"UNUSED", "USED"}

\* sched() never panics: its caller holds p->lock and no other lock, and has
\* left the state RUNNING.
SchedNeverPanics ==
  \A c \in Cpu, p \in Slot : on[c] = p /\ pc[p] = "sched" =>
    /\ lock[p] = c
    /\ wait_lock # c
    /\ \A q \in Slot : lock[q] = c => q = p
    /\ state[p] # "RUNNING"

\* A parent asleep in wait() has no exited child: exit() and reparent() wake it
\* under wait_lock before it could miss them.
NoLostExit == \A p \in Slot : p \in Sleepers(p) => Zombies(p) = {}

\* Every process but init has a parent that has not exited, hence one that can
\* wait() for it: reparent() finds all the children, also those being forked.
ParentIsAlive ==
  \A p \in Slot :
    /\ parent[p] # None => state[parent[p]] \notin {"UNUSED", "USED", "ZOMBIE"}
    /\ state[p] \notin {"UNUSED", "USED"} /\ p # initproc => parent[p] # None

\* A process that nobody passed to kill() is not killed: a slot comes back from
\* freeproc() clean ("If non-zero, have been killed").
BornUnkilled == \A p \in Slot : state[p] = "UNUSED" => killed[p] = 0

\* A CPU always executes something.  The timer interrupt stays pending until it
\* is taken, but a thread executes between two of them; scheduler() visits every
\* slot again and again; acquire() gets a lock that is free again and again.
Fairness ==
  /\ \A c \in Cpu :
       WF_vars(scheduler_back(c) \/ \E p \in Slot : sched(c, p) \/ resume(c, p))
  /\ \A p \in Slot :
       /\ SF_vars(\E c \in Cpu : scheduler_run(c, p))
       /\ SF_vars(\E c \in Cpu : yield(c, p))
       /\ SF_vars(\E c \in Cpu : ThreadStep(c, p))

FairSpec == Spec /\ Fairness

\* Whoever takes wait_lock gives it back: wait() and exit() acquire the p->locks
\* under it, and no holder of those waits for wait_lock.
WaitLockIsReleased == wait_lock # None ~> wait_lock = None

\* Orphans do not stay zombies: reparent() hands them to init, which is woken
\* and reaps them.
OrphansAreReaped ==
  \A q \in Slot \ {initproc} :
    state[q] = "ZOMBIE" /\ parent[q] = initproc ~> state[q] = "UNUSED"
===============================================================================
