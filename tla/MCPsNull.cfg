\* ps beside a process that exits and is reaped.  A kernel panic stops the machine.
CONSTANTS
  Slot = {i, s1, s2}
  initproc = i
  Cpu = {c1, c2}
  MaxPid = 3
  Calls = {"fork", "wait", "exit", "syscall"}
  KillPids = {}
  None = None
SYMMETRY Symmetry
SPECIFICATION PsSpec
CHECK_DEADLOCK FALSE
INVARIANTS LookupFinds
