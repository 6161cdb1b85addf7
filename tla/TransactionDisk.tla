--------------------------- MODULE TransactionDisk ---------------------------
(***************************************************************************)
(* What kernel/log.c promises to the file system: a disk whose blocks are  *)
(* updated in groups.  The writes of a set of overlapping file-system      *)
(* system calls reach the durable state in one step, only while none of    *)
(* them is running, and a crash falls back to the durable state.           *)
(***************************************************************************)

CONSTANTS Proc,     \* processes that run file-system system calls
          Block,    \* home block numbers
          Data      \* contents of a block

VARIABLES durable,  \* what a reboot finds
          volatile, \* what bread() returns
          active    \* processes between begin_op() and end_op()

vars == <<durable, volatile, active>>

Init ==
  /\ durable \in [Block -> Data]
  /\ volatile = durable
  /\ active = {}

Begin(p) ==
  /\ active' = active \cup {p}
  /\ UNCHANGED <<durable, volatile>>

Write(p, b, v) ==
  /\ p \in active
  /\ volatile' = [volatile EXCEPT ![b] = v]
  /\ UNCHANGED <<durable, active>>

End(p) ==
  /\ p \in active
  /\ active' = active \ {p}
  /\ UNCHANGED <<durable, volatile>>

Commit ==
  /\ active = {}
  /\ durable' = volatile
  /\ UNCHANGED <<volatile, active>>

Crash ==
  /\ volatile' = durable
  /\ active' = {}
  /\ UNCHANGED durable

Next ==
  \/ \E p \in Proc : Begin(p) \/ End(p)
  \/ \E p \in Proc, b \in Block, v \in Data : Write(p, b, v)
  \/ Commit
  \/ Crash

Spec == Init /\ [][Next]_vars
==============================================================================
