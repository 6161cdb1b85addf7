---------------------------------- MODULE Ps ----------------------------------
(***************************************************************************)
(* The system calls of the lab, over the process table of Proc: sys_year() *)
(* copies out the pids of the table without any lock, and sys_state() and  *)
(* sys_procname() look a pid up under wait_lock.  user/ps.c calls the      *)
(* first, then the two others for every pid it got.                        *)
(***************************************************************************)
EXTENDS Proc

VARIABLES
  viewer,  \* the process that runs ps
  phase,   \* how far it is
  todo,    \* slots that sys_year() has not looked at
  look,    \* the slot whose p->state was read, and whose p->pid is read next
  list     \* pid_array of ps.c

psvars == <<viewer, phase, todo, look, list>>

Quiet == viewer' = None /\ phase' = "none" /\ todo' = {} /\ look' = None /\ list' = {}

PsInit ==
  /\ Init
  /\ viewer = None /\ phase = "none" /\ todo = {} /\ look = None /\ list = {}

\* The viewer runs in the kernel, on CPU c.
InKernel(c, ph) == viewer # None /\ on[c] = viewer /\ pc[viewer] = "syscall" /\ phase = ph

year_start(c, p) ==
  /\ viewer = None
  /\ on[c] = p /\ pc[p] = "syscall"
  /\ viewer' = p /\ phase' = "year" /\ todo' = Slot
  /\ UNCHANGED <<vars, look, list>>

\* p->state != UNUSED, read without p->lock.
Listed(q) == state[q] # "UNUSED"

year_look(c, q) ==
  /\ InKernel(c, "year")
  /\ look = None /\ q \in todo
  /\ todo' = todo \ {q}
  /\ look' = IF Listed(q) THEN q ELSE None
  /\ UNCHANGED <<vars, viewer, phase, list>>

\* copyout() of p->pid, read without p->lock.
year_copy(c) ==
  /\ InKernel(c, "year")
  /\ look # None
  /\ list' = list \cup {pid[look]}
  /\ look' = None
  /\ UNCHANGED <<vars, viewer, phase, todo>>

\* sys_year() returns to ps.c.
year_done(c) ==
  /\ InKernel(c, "year")
  /\ look = None /\ todo = {}
  /\ phase' = "listed"
  /\ UNCHANGED <<vars, viewer, todo, look, list>>

\* state(n) or name(n): the slot with pid n, under wait_lock, or a null pointer.
state_lookup(c, n) ==
  /\ InKernel(c, "listed")
  /\ n \in list
  /\ wait_lock = None
  /\ \/ \E q \in Slot : pid[q] = n /\ look' = q /\ phase' = "found"
     \/ ~(\E q \in Slot : pid[q] = n) /\ look' = None /\ phase' = "null"
  /\ UNCHANGED <<vars, viewer, todo, list>>

\* pp->state or pp->name is copied out, wait_lock released.
state_copy(c) ==
  /\ InKernel(c, "found")
  /\ phase' = "listed" /\ look' = None
  /\ UNCHANGED <<vars, viewer, todo, list>>

\* A step of the process table; the viewer stays in its system call until the
\* call is done, and an exiting viewer ends ps.
ProcStep ==
  /\ Next
  /\ viewer # None /\ pc[viewer] = "syscall" /\ pc'[viewer] = "user" => phase = "listed"
  /\ phase # "null"
  /\ IF viewer # None /\ pc'[viewer] = "exit" THEN Quiet ELSE UNCHANGED psvars

\* After a null pointer strlen() faults in the kernel, and kerneltrap() panics.
PsNext ==
  \/ ProcStep
  \/ \E c \in Cpu :
       \/ year_copy(c) \/ year_done(c) \/ state_copy(c)
       \/ \E p \in Slot : year_start(c, p) \/ year_look(c, p)
       \/ \E n \in list : state_lookup(c, n)

PsSpec == PsInit /\ [][PsNext]_<<vars, psvars>>

-------------------------------------------------------------------------------
\* state() and name() return a pointer for every pid that sys_year() gave out
\* ("return a pointer to the state"), never the null that strlen() cannot read.
LookupFinds == phase # "null"
===============================================================================
