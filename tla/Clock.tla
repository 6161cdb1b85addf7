---------------------------------- MODULE Clock ----------------------------------
(***************************************************************************)
(* Clock ticks and the spinlock that protects them: acquire(), release(),  *)
(* push_off() and pop_off() of kernel/spinlock.c, the timer interrupt      *)
(* (devintr() and clockintr() of kernel/trap.c), and sys_sleep() and       *)
(* sys_uptime() of kernel/sysproc.c.  Each CPU has one process, in its     *)
(* user program, in a system call or asleep, and the interrupt handler,    *)
(* which runs on the process's CPU whenever interrupts are enabled there.  *)
(***************************************************************************)
EXTENDS Integers

CONSTANTS Cpu,
          boot,      \* the CPU with cpuid() 0
          Naps,      \* the n of sleep()
          WRAP,      \* ticks counts modulo this, 2^32 in the code
          MAXTICKS,  \* bound: the ticks that are counted while a call runs
          None

ClockAssumption ==
  /\ boot \in Cpu /\ None \notin Cpu
  /\ WRAP \in Nat /\ MAXTICKS \in 0..(WRAP - 1) /\ \A n \in Naps : n \in 0..MAXTICKS

VARIABLES
  ticks,
  lock,            \* the CPU that has tickslock (lk->locked and lk->cpu)
  intr,            \* interrupts are enabled on each CPU
  noff, intena,    \* of each struct cpu
  pc, n, ticks0,   \* of each process, n = 0 for sys_uptime()
  handler,         \* where the handler of each CPU is
  saved,           \* intena in sched(), while the process is off its CPU
  killed,
  past             \* history: ticks since the process read ticks0

cpu == <<intr, noff, intena>>
call == <<n, ticks0, killed, past>>
vars == <<ticks, lock, cpu, pc, call, handler, saved>>

Init ==
  /\ ticks = 0 /\ lock = None
  /\ intr = [c \in Cpu |-> TRUE] /\ noff = [c \in Cpu |-> 0] /\ intena = [c \in Cpu |-> FALSE]
  /\ pc = [c \in Cpu |-> "user"] /\ handler = [c \in Cpu |-> "none"]
  /\ n = [c \in Cpu |-> 0] /\ ticks0 = [c \in Cpu |-> 0] /\ past = [c \in Cpu |-> 0]
  /\ saved = [c \in Cpu |-> FALSE] /\ killed = {}

Goto(c, l) == pc' = [pc EXCEPT ![c] = l]
Runs(c, l) == handler[c] = "none" /\ pc[c] = l

-------------------------------------------------------------------------------
(* spinlock.c                                                                  *)

MutPushOff(c) ==
  /\ UNCHANGED <<intr, intena>>
  /\ noff' = [noff EXCEPT ![c] = @ + 1]

push_off(c) ==
  /\ intr' = [intr EXCEPT ![c] = FALSE]
  /\ intena' = [intena EXCEPT ![c] = IF noff[c] = 0 THEN intr[c] ELSE @]
  /\ noff' = [noff EXCEPT ![c] = @ + 1]

pop_off(c) ==
  /\ noff' = [noff EXCEPT ![c] = @ - 1]
  /\ intr' = [intr EXCEPT ![c] = @ \/ (noff[c] = 1 /\ intena[c])]
  /\ UNCHANGED intena

\* The atomic swap of acquire(), after push_off().
Swap(c) == lock = None /\ lock' = c

\* release().
Release(c) == lock' = None /\ pop_off(c)

-------------------------------------------------------------------------------
(* System calls                                                                *)

\* syscall() runs with interrupts enabled.
sleep_call(c, k) ==
  /\ Runs(c, "user") /\ c \notin killed
  /\ n' = [n EXCEPT ![c] = k]
  /\ Goto(c, "acquire")
  /\ UNCHANGED <<ticks, lock, cpu, ticks0, killed, past, handler, saved>>

acquire(c) ==
  /\ pc[c] \in {"acquire", "reacquire"} /\ handler[c] = "none"
  /\ push_off(c)
  /\ Goto(c, IF pc[c] = "acquire" THEN "swap" ELSE "reswap")
  /\ UNCHANGED <<ticks, lock, call, handler, saved>>

\* ticks0 = ticks, the first time.
swap(c) ==
  /\ pc[c] \in {"swap", "reswap"} /\ handler[c] = "none"
  /\ Swap(c)
  /\ IF pc[c] = "swap"
     THEN ticks0' = [ticks0 EXCEPT ![c] = ticks] /\ past' = [past EXCEPT ![c] = 0]
     ELSE UNCHANGED <<ticks0, past>>
  /\ Goto(c, "check")
  /\ UNCHANGED <<ticks, cpu, n, killed, handler, saved>>

MutNapping(c) == ticks < (ticks0[c] + n[c]) % WRAP

Napping(c) == (ticks - ticks0[c]) % WRAP < n[c]

\* Enough ticks have passed, or the process was killed: release() and return.
sleep_return(c) ==
  /\ Runs(c, "check") /\ (~Napping(c) \/ c \in killed)
  /\ Release(c)
  /\ Goto(c, IF Napping(c) THEN "failed" ELSE "done")
  /\ UNCHANGED <<ticks, call, handler, saved>>

\* The result is seen by the user program, which may call again.
user(c) ==
  /\ pc[c] \in {"failed", "done"} /\ handler[c] = "none"
  /\ Goto(c, "user")
  /\ n' = [n EXCEPT ![c] = 0] /\ ticks0' = [ticks0 EXCEPT ![c] = 0] /\ past' = [past EXCEPT ![c] = 0]
  /\ UNCHANGED <<ticks, lock, cpu, killed, handler, saved>>

\* sleep(): p->lock is taken (one more push_off()) before tickslock is released, and
\* sched() keeps intena for the process; the scheduler releases p->lock and runs with
\* interrupts on.
sleep(c) ==
  /\ Runs(c, "check") /\ Napping(c) /\ c \notin killed
  /\ lock' = None
  /\ saved' = [saved EXCEPT ![c] = intena[c]]
  /\ noff' = [noff EXCEPT ![c] = 0] /\ intr' = [intr EXCEPT ![c] = TRUE]
  /\ Goto(c, "asleep")
  /\ UNCHANGED <<ticks, intena, call, handler>>

\* The scheduler runs the process again: it comes back under p->lock with its own
\* intena, releases p->lock, and goes on to acquire tickslock.
resume(c) ==
  /\ Runs(c, "runnable")
  /\ intena' = [intena EXCEPT ![c] = saved[c]]
  /\ intr' = [intr EXCEPT ![c] = saved[c]]
  /\ Goto(c, "reacquire")
  /\ UNCHANGED <<ticks, lock, noff, call, handler, saved>>

kill(c) ==
  /\ c \notin killed
  /\ killed' = killed \cup {c}
  /\ Goto(c, IF pc[c] = "asleep" THEN "runnable" ELSE pc[c])
  /\ UNCHANGED <<ticks, lock, cpu, n, ticks0, past, handler, saved>>

-------------------------------------------------------------------------------
(* The timer interrupt                                                         *)

\* The hardware disables interrupts; only the boot CPU calls clockintr().
devintr(c) ==
  /\ handler[c] = "none" /\ intr[c] /\ \A p \in Cpu : past[p] < MAXTICKS
  /\ intr' = [intr EXCEPT ![c] = FALSE]
  /\ handler' = [handler EXCEPT ![c] = IF c = boot THEN "acquire" ELSE "return"]
  /\ UNCHANGED <<ticks, lock, noff, intena, pc, call, saved>>

tick_acquire(c) ==
  /\ handler[c] = "acquire"
  /\ push_off(c)
  /\ handler' = [handler EXCEPT ![c] = "swap"]
  /\ UNCHANGED <<ticks, lock, pc, call, saved>>

tick_swap(c) ==
  /\ handler[c] = "swap"
  /\ Swap(c)
  /\ handler' = [handler EXCEPT ![c] = "tick"]
  /\ UNCHANGED <<ticks, cpu, pc, call, saved>>

\* Where a process is between its test and the next one.
Napper == {"asleep", "runnable", "reacquire", "reswap"}

\* ticks++, wakeup(&ticks), release().
clockintr(c) ==
  /\ handler[c] = "tick"
  /\ ticks' = (ticks + 1) % WRAP
  /\ past' = [p \in Cpu |-> IF pc[p] \in Napper THEN past[p] + 1 ELSE past[p]]
  /\ pc' = [p \in Cpu |-> IF pc[p] = "asleep" THEN "runnable" ELSE pc[p]]
  /\ Release(c)
  /\ handler' = [handler EXCEPT ![c] = "return"]
  /\ UNCHANGED <<n, ticks0, killed, saved>>

\* sret enables interrupts again.
intr_return(c) ==
  /\ handler[c] = "return"
  /\ intr' = [intr EXCEPT ![c] = TRUE]
  /\ handler' = [handler EXCEPT ![c] = "none"]
  /\ UNCHANGED <<ticks, lock, noff, intena, pc, call, saved>>

-------------------------------------------------------------------------------
Step(c) == acquire(c) \/ swap(c) \/ sleep_return(c) \/ user(c) \/ sleep(c) \/ resume(c)
Timer(c) == tick_acquire(c) \/ tick_swap(c) \/ clockintr(c) \/ intr_return(c)

Next == \E c \in Cpu : Step(c) \/ kill(c) \/ devintr(c) \/ Timer(c) \/ \E k \in Naps : sleep_call(c, k)

Spec == Init /\ [][Next]_vars

-------------------------------------------------------------------------------
Spins(c) == handler[c] = "swap" \/ Runs(c, "swap") \/ Runs(c, "reswap")
Outside == {"user", "acquire", "reacquire", "failed", "done", "asleep", "runnable"}

\* No CPU waits for the lock that it has itself, where acquire() would panic: interrupts
\* are off as long as it is held, on every path from acquire() to release(); and out of
\* the critical sections they are on again, also for a process that slept in one and
\* came back.
InterruptsAreOffUnderLocks ==
  \A c \in Cpu :
    /\ Spins(c) => lock # c
    /\ intr[c] => noff[c] = 0 /\ lock # c
    /\ handler[c] = "none" /\ pc[c] \in Outside => intr[c] /\ noff[c] = 0

\* sleep(n) returns 0 only when n ticks have passed, and a process that is still asleep
\* waits for one that has not come yet: no tick was missed between the test and the
\* sleep, also when ticks wraps around.
SleepsItsTicks ==
  \A c \in Cpu :
    /\ pc[c] = "done" => past[c] >= n[c]
    /\ pc[c] = "asleep" => past[c] < n[c]
===============================================================================
