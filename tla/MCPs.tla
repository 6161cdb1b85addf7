--------------------------------- MODULE MCPs ---------------------------------
(* Instances of Ps for TLC. *)
EXTENDS Ps, TLC

\* All slots but init's, and all CPUs, are alike.
Symmetry == Permutations(Slot \ {initproc}) \cup Permutations(Cpu)
===============================================================================
