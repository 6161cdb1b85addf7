SPECIFICATION All
CONSTANTS
  Proc = {init, p1, p2}
  initproc = init
  NPAGES = 20
  PGSIZE = 2
  MAXSZ = 10
  WRAP = 32
  Node <- Tab
  Walk <- WalkTab
  Deltas <- Change
  Programs <- ElfFiles
  ARGC = 1
  None = None
INVARIANTS PagesPartition MappedIsSize  BlocksPartition 
  FitsReservation
\* A first process that gave back all its memory can do nothing more.
CHECK_DEADLOCK FALSE
