------------------------------ MODULE BlockDevice ------------------------------
(* What bio.c expects of the disk: a buffer's request is carried out once, on   *)
(* that buffer's block and data, before virtio_disk_rw() returns.               *)
CONSTANTS Buf,    \* buffers; each holds a block of its own
          Data    \* contents of a block

VARIABLES disk,   \* the block of each buffer, on disk
          data,   \* its copy in the buffer
          req     \* "none", "read", "write", or "done"

vars == <<disk, data, req>>

Init == /\ disk \in [Buf -> Data]
        /\ data \in [Buf -> Data]
        /\ req = [b \in Buf |-> "none"]

\* The buffer holds v: what is to be written, or what a read will overwrite.
Ask(b, k, v) == /\ req[b] = "none"
                /\ req' = [req EXCEPT ![b] = k]
                /\ data' = [data EXCEPT ![b] = v]
                /\ UNCHANGED disk

Carry(b) == /\ req[b] \in {"read", "write"}
            /\ req' = [req EXCEPT ![b] = "done"]
            /\ disk' = IF req[b] = "write" THEN [disk EXCEPT ![b] = data[b]] ELSE disk
            /\ data' = IF req[b] = "read" THEN [data EXCEPT ![b] = disk[b]] ELSE data

Return(b) == /\ req[b] = "done"
             /\ req' = [req EXCEPT ![b] = "none"]
             /\ UNCHANGED <<disk, data>>

Next == \E b \in Buf : \/ Carry(b) \/ Return(b)
                       \/ \E k \in {"read", "write"}, v \in Data : Ask(b, k, v)

Spec == Init /\ [][Next]_vars
===============================================================================
