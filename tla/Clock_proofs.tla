----------------------------- MODULE Clock_proofs -----------------------------
(***************************************************************************)
(* Proofs about the clock and the spinlock that protects it, for any       *)
(* number of CPUs: interrupts are off while the lock is held or waited     *)
(* for, and sleep() counts the ticks that pass, also when ticks wraps.     *)
(***************************************************************************)
EXTENDS Clock, RingBuffer, TLAPS

Inside   == {"swap", "reswap", "check"}
Handlers == {"none", "acquire", "swap", "tick", "return"}

CpuType ==
  /\ lock \in Cpu \cup {None}
  /\ intr \in [Cpu -> BOOLEAN] /\ intena \in [Cpu -> BOOLEAN] /\ saved \in [Cpu -> BOOLEAN]
  /\ noff \in [Cpu -> Nat]
  /\ pc \in [Cpu -> Outside \cup Inside]
  /\ handler \in [Cpu -> Handlers]

\* What struct cpu holds at every place of the process and of the handler: one push_off()
\* is open inside of the critical sections, and it will restore what was there before; and
\* the handler runs only on top of a process that is outside.
CpuInv ==
  /\ CpuType
  /\ \A c \in Cpu :
       /\ handler[c] = "none" /\ pc[c] \in Outside => intr[c] = TRUE /\ noff[c] = 0
       /\ handler[c] = "none" /\ pc[c] \in Inside => intr[c] = FALSE /\ noff[c] = 1 /\ intena[c] = TRUE
       /\ handler[c] # "none" => intr[c] = FALSE /\ pc[c] \in Outside
       /\ handler[c] \in {"acquire", "return"} => noff[c] = 0
       /\ handler[c] \in {"swap", "tick"} => noff[c] = 1 /\ intena[c] = FALSE
       /\ handler[c] \in {"acquire", "swap", "tick"} => c = boot
       /\ pc[c] \in {"asleep", "runnable"} => saved[c] = TRUE
       /\ lock = c <=> handler[c] = "tick" \/ Runs(c, "check")

\* One case for each action.
LEMMA CpuStep ==
  ASSUME ClockAssumption, CpuInv, [Next]_vars
  PROVE  CpuInv'
<1> USE DEF ClockAssumption, CpuInv, CpuType, Inside, Outside, Handlers, Runs, Goto, cpu
<1>1. CASE UNCHANGED vars
  BY <1>1 DEF vars
<1>2. ASSUME NEW c \in Cpu, NEW k \in Naps, sleep_call(c, k) PROVE CpuInv'
  BY <1>2 DEF sleep_call
<1>3. ASSUME NEW c \in Cpu, acquire(c) PROVE CpuInv'
  BY <1>3 DEF acquire, push_off
<1>4. ASSUME NEW c \in Cpu, swap(c) PROVE CpuInv'
  BY <1>4 DEF swap, Swap
<1>5. ASSUME NEW c \in Cpu, sleep_return(c) PROVE CpuInv'
  BY <1>5 DEF sleep_return, Release, pop_off
<1>6. ASSUME NEW c \in Cpu, user(c) PROVE CpuInv'
  BY <1>6 DEF user
<1>7. ASSUME NEW c \in Cpu, sleep(c) PROVE CpuInv'
  BY <1>7 DEF sleep
<1>8. ASSUME NEW c \in Cpu, resume(c) PROVE CpuInv'
  BY <1>8 DEF resume
<1>9. ASSUME NEW c \in Cpu, kill(c) PROVE CpuInv'
  BY <1>9 DEF kill
<1>10. ASSUME NEW c \in Cpu, devintr(c) PROVE CpuInv'
  BY <1>10 DEF devintr
<1>11. ASSUME NEW c \in Cpu, tick_acquire(c) PROVE CpuInv'
  BY <1>11 DEF tick_acquire, push_off
<1>12. ASSUME NEW c \in Cpu, tick_swap(c) PROVE CpuInv'
  BY <1>12 DEF tick_swap, Swap
<1>13. ASSUME NEW c \in Cpu, clockintr(c) PROVE CpuInv'
  BY <1>13 DEF clockintr, Release, pop_off
<1>14. ASSUME NEW c \in Cpu, intr_return(c) PROVE CpuInv'
  BY <1>14 DEF intr_return
<1> HIDE DEF CpuInv
<1> QED
  BY <1>1, <1>2, <1>3, <1>4, <1>5, <1>6, <1>7, <1>8, <1>9, <1>10, <1>11, <1>12, <1>13, <1>14
  DEF Next, Step, Timer

\* The invariant holds when the CPUs start.
LEMMA CpuInit ==
  ASSUME ClockAssumption, Init
  PROVE  CpuInv
BY DEF ClockAssumption, Init, CpuInv, CpuType, Inside, Outside, Handlers, Runs

\* acquire(), release(), push_off() and pop_off() (spinlock.c:22) keep interrupts off under
\* the lock and bring them back after it, on any number of CPUs: no CPU waits for the lock
\* it has itself.
THEOREM LocksDisableInterrupts ==
  ASSUME ClockAssumption
  PROVE  Spec => []InterruptsAreOffUnderLocks
<1>1. Init => CpuInv
  BY CpuInit
<1>2. CpuInv /\ [Next]_vars => CpuInv'
  BY CpuStep
<1>3. CpuInv => InterruptsAreOffUnderLocks
  BY DEF CpuInv, CpuType, InterruptsAreOffUnderLocks, Spins, Runs, Inside, Outside, Handlers
<1> QED BY <1>1, <1>2, <1>3, PTL DEF Spec

-------------------------------------------------------------------------------
(* Ticks                                                                       *)

Counted == Napper \cup {"check"}

\* Between the first test of sys_sleep() and its return, ticks is as many ticks ahead of
\* ticks0 as have passed, fewer than the counter's range; who sleeps has some to wait for.
TicksInv ==
  /\ ticks \in 0..(WRAP - 1) /\ ticks0 \in [Cpu -> 0..(WRAP - 1)]
  /\ past \in [Cpu -> 0..MAXTICKS] /\ n \in [Cpu -> Nat]
  /\ \A c \in Cpu :
       /\ pc[c] \in Counted => Dist(ticks0[c], ticks, WRAP) = past[c]
       /\ pc[c] = "done" => past[c] >= n[c]
       /\ pc[c] = "asleep" => past[c] < n[c]
       /\ handler[c] \in {"acquire", "swap", "tick"} => \A p \in Cpu : past[p] < MAXTICKS

\* The tick itself: the counter moves on for everybody who counts.
LEMMA TickStep ==
  ASSUME ClockAssumption, CpuInv, TicksInv, NEW c \in Cpu, clockintr(c)
  PROVE  TicksInv'
<1>1. /\ WRAP \in Nat \ {0} /\ MAXTICKS \in 0..(WRAP - 1)
      /\ ticks \in 0..(WRAP - 1) /\ ticks' = (ticks + 1) % WRAP
      /\ ticks0 \in [Cpu -> 0..(WRAP - 1)] /\ ticks0' = ticks0 /\ n' = n
      /\ past \in [Cpu -> 0..MAXTICKS] /\ pc \in [Cpu -> Outside \cup Inside]
  BY DEF ClockAssumption, TicksInv, clockintr, CpuInv, CpuType
<1>2. ticks' \in 0..(WRAP - 1)
  BY <1>1, NextIndex, Zenon
<1>3. \A p \in Cpu : past[p] < MAXTICKS /\ pc[p] # "check"
  BY DEF clockintr, TicksInv, CpuInv, CpuType, Runs, Outside
<1>4. /\ past' = [p \in Cpu |-> IF pc[p] \in Napper THEN past[p] + 1 ELSE past[p]]
      /\ pc' = [p \in Cpu |-> IF pc[p] = "asleep" THEN "runnable" ELSE pc[p]]
      /\ handler' = [handler EXCEPT ![c] = "return"]
  BY DEF clockintr
<1>5. past' \in [Cpu -> 0..MAXTICKS]
  BY <1>1, <1>3, <1>4
<1>6. ASSUME NEW p \in Cpu, pc'[p] \in Counted
      PROVE  Dist(ticks0[p], ticks', WRAP) = past'[p]
  <2>1. pc[p] \in Napper
    BY <1>3, <1>4, <1>6 DEF Counted, Napper
  <2> DEFINE t == ticks0[p]
             d == past[p]
  <2>2. t \in 0..(WRAP - 1) /\ d \in 0..MAXTICKS /\ d < MAXTICKS
    BY <1>1, <1>3
  <2>3. Dist(t, ticks, WRAP) = d
    BY <2>1 DEF TicksInv, Counted
  <2>4. past'[p] = d + 1
    BY <1>4, <2>1
  <2> HIDE DEF t, d
  <2>5. d + 1 < WRAP
    BY <1>1, <2>2
  <2>6. Dist(t, (ticks + 1) % WRAP, WRAP) = d + 1
    BY <1>1, <2>2, <2>3, <2>5, DistStep, Zenon
  <2> QED BY <1>1, <2>4, <2>6 DEF t
<1>7. ASSUME NEW p \in Cpu, pc'[p] = "done" PROVE past'[p] >= n'[p]
  BY <1>1, <1>4, <1>7 DEF TicksInv, Napper
<1>8. ASSUME NEW p \in Cpu PROVE pc'[p] # "asleep"
  BY <1>4
<1>9. ASSUME NEW p \in Cpu PROVE handler'[p] \notin {"acquire", "swap", "tick"}
  BY <1>4 DEF CpuInv, CpuType, clockintr
<1> QED
  BY <1>1, <1>2, <1>5, <1>6, <1>7, <1>8, <1>9 DEF TicksInv

\* The other actions.
LEMMA TicksStep ==
  ASSUME ClockAssumption, CpuInv, TicksInv, [Next]_vars
  PROVE  TicksInv'
<1> USE DEF ClockAssumption, CpuInv, CpuType, TicksInv, Inside, Outside, Handlers, Counted, Napper,
            Runs, Goto, call
<1>1. CASE UNCHANGED vars
  BY <1>1 DEF vars
<1>2. ASSUME NEW c \in Cpu, NEW k \in Naps, sleep_call(c, k) PROVE TicksInv'
  BY <1>2 DEF sleep_call
<1>3. ASSUME NEW c \in Cpu, acquire(c) PROVE TicksInv'
  BY <1>3 DEF acquire
<1>4. ASSUME NEW c \in Cpu, swap(c) PROVE TicksInv'
  <2>1. WRAP \in Nat \ {0}
    OBVIOUS
  <2>2. Dist(ticks, ticks, WRAP) = 0
    BY <2>1, DistStep
  <2> QED BY <1>4, <2>2 DEF swap
<1>5. ASSUME NEW c \in Cpu, sleep_return(c) PROVE TicksInv'
  BY <1>5 DEF sleep_return, Napping, Dist
<1>6. ASSUME NEW c \in Cpu, user(c) PROVE TicksInv'
  BY <1>6 DEF user
<1>7. ASSUME NEW c \in Cpu, sleep(c) PROVE TicksInv'
  BY <1>7 DEF sleep, Napping, Dist
<1>8. ASSUME NEW c \in Cpu, resume(c) PROVE TicksInv'
  BY <1>8 DEF resume
<1>9. ASSUME NEW c \in Cpu, kill(c) PROVE TicksInv'
  BY <1>9 DEF kill
<1>10. ASSUME NEW c \in Cpu, devintr(c) PROVE TicksInv'
  BY <1>10 DEF devintr
<1>11. ASSUME NEW c \in Cpu, tick_acquire(c) PROVE TicksInv'
  BY <1>11 DEF tick_acquire
<1>12. ASSUME NEW c \in Cpu, tick_swap(c) PROVE TicksInv'
  BY <1>12 DEF tick_swap
<1>13. ASSUME NEW c \in Cpu, intr_return(c) PROVE TicksInv'
  BY <1>13 DEF intr_return
<1> HIDE DEF CpuInv, TicksInv, ClockAssumption
<1>14. ASSUME NEW c \in Cpu, clockintr(c) PROVE TicksInv'
  BY <1>14, TickStep
<1> QED
  BY <1>1, <1>2, <1>3, <1>4, <1>5, <1>6, <1>7, <1>8, <1>9, <1>10, <1>11, <1>12, <1>13, <1>14
  DEF Next, Step, Timer

\* sys_sleep() (sysproc.c:52) returns 0 only when its ticks have passed, and no tick is lost
\* between its test and sleep(), for any number of CPUs and any range of the counter that
\* the ticks of one call stay below.
THEOREM SleepCountsTicks ==
  ASSUME ClockAssumption
  PROVE  Spec => []SleepsItsTicks
<1>1. Init => CpuInv /\ TicksInv
  BY CpuInit DEF ClockAssumption, Init, TicksInv, Counted, Napper
<1>2. CpuInv /\ TicksInv /\ [Next]_vars => (CpuInv /\ TicksInv)'
  BY CpuStep, TicksStep
<1>3. TicksInv => SleepsItsTicks
  BY DEF TicksInv, SleepsItsTicks
<1> QED BY <1>1, <1>2, <1>3, PTL DEF Spec

===============================================================================
