-------------------------------- MODULE MCProc --------------------------------
(* Instances of Proc for TLC. *)
EXTENDS Proc, TLC

\* All slots but init's, and all CPUs, are alike.
Symmetry == Permutations(Slot \ {initproc}) \cup Permutations(Cpu)
===============================================================================
