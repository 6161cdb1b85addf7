\* A process may be killed inside a call.
\* Nothing happens any more once the pipe is freed, or once all wait for each other.
CONSTANTS
  Proc = {p1, p2, p3}
  creator = p1
  Byte = {0}
  PIPESIZE = 2
  WRAP = 4
  Counts = {2}
  Victims = {p1, p2, p3}
  None = None
SYMMETRY Symmetry
SPECIFICATION Spec
CHECK_DEADLOCK FALSE
INVARIANTS SleepersMustWait
