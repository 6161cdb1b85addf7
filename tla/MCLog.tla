-------------------------------- MODULE MCLog --------------------------------
(* A small instance of the log: see the configuration file. *)
EXTENDS Log
==============================================================================
