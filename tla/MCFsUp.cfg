\* One process in a directory that it removes.
CONSTANTS
  Proc = {1}
  NINODES = 3
  Name = {"a", "b"}
  Paths <- Up
  Starts = {"root", "cwd"}
  Calls <- All
  MAXLINK = 2
SPECIFICATION Spec
INVARIANTS HeldIsAllocated
