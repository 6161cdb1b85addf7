\* Fairness: two children, so that one can be orphaned.
CONSTANTS
  Slot = {i, s1, s2}
  initproc = i
  Cpu = {c1}
  MaxPid = 3
  Calls = {"fork", "wait", "exit"}
  KillPids = {}
  None = None
SPECIFICATION FairSpec
PROPERTIES  OrphansAreReaped
