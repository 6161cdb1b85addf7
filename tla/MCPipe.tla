-------------------------------- MODULE MCPipe --------------------------------
(* Instances of Pipe for TLC. *)
EXTENDS Pipe, TLC

\* All processes but the creator are alike.  Bytes are not: Init chooses one.
Symmetry == Permutations(Proc \ {creator})
===============================================================================
