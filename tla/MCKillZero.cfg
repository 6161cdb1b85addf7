\* kill() with the arguments KillPids.
CONSTANTS
  Slot = {i, s1, s2}
  initproc = i
  Cpu = {c1, c2}
  MaxPid = 3
  Calls = {"fork", "wait", "exit", "kill"}
  KillPids = {0}
  None = None
SYMMETRY Symmetry
SPECIFICATION Spec
INVARIANTS BornUnkilled
