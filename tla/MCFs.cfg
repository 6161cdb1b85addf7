\* Two processes, the root and two more inodes, paths of one and two names.
CONSTANTS
  Proc = {1, 2}
  NINODES = 3
  Name = {"a", "b"}
  Paths <- Flat
  Starts = {"root"}
  Calls <- Roles
  MAXLINK = 2
SPECIFICATION Spec
INVARIANTS RefsCounted MemoryIsCurrent LinksCovered IputNeverBlocks HeldIsAllocated
