\* Three processes on two CPUs, three forks.
CONSTANTS
  Slot = {i, s1, s2}
  initproc = i
  Cpu = {c1, c2}
  MaxPid = 4
  Calls = {"fork", "wait", "exit", "kill", "syscall"}
  KillPids = {2, 3, 4}
  None = None
SYMMETRY Symmetry
SPECIFICATION Spec
INVARIANTS OneCpuPerThread NoStackReuse NoLostExit ParentIsAlive
