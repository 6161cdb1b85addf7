------------------------------ MODULE ByteStream ------------------------------
(* What a pipe promises: a bounded queue of bytes between the processes that   *)
(* hold its write end and those that hold its read end.                        *)
EXTENDS Integers, Sequences

CONSTANTS Byte,   \* what is sent
          Size    \* how many bytes fit

VARIABLES queue,  \* bytes written and not yet read
          ropen,  \* the read end is open
          wopen   \* the write end is open

vars == <<queue, ropen, wopen>>

Init == queue = <<>> /\ ropen = 1 /\ wopen = 1

Put(b) == /\ ropen = 1 /\ wopen = 1
          /\ Len(queue) < Size
          /\ queue' = Append(queue, b)
          /\ UNCHANGED <<ropen, wopen>>

Get == /\ ropen = 1
       /\ Len(queue) > 0
       /\ queue' = Tail(queue)
       /\ UNCHANGED <<ropen, wopen>>

CloseRead  == ropen = 1 /\ ropen' = 0 /\ UNCHANGED <<queue, wopen>>
CloseWrite == wopen = 1 /\ wopen' = 0 /\ UNCHANGED <<queue, ropen>>

Next == Get \/ CloseRead \/ CloseWrite \/ \E b \in Byte : Put(b)

Spec == Init /\ [][Next]_vars
===============================================================================
