\* Three requests on eight descriptors: two fit, and the third has to wait.
CONSTANTS
  Buf = {b1, b2, b3}
  NUM = 8
  RING = 2
  WRAP = 4
  None = None
SPECIFICATION All
SYMMETRY Symmetry
INVARIANTS DescriptorsPartition NoLostCompletion
  OneCopyOfABlock RingIsInOrder InterruptsAreOffUnderLocks SleepsItsTicks
PROPERTIES OncePerRequest
