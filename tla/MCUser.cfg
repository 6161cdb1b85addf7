\* Input: every line fills the ring, and a read of two takes it in pieces.
CONSTANTS
  Reader = {"r1"}
  Victims = {"r1"}
  Key = {"a", "cr", "D", "H", "U"}
  Counts = {2}
  INPUT_BUF_SIZE = 2
  WRAP = 4
  intr = "intr"
  None = "none"
SPECIFICATION All
INVARIANTS ReadersMustWait OutputIsDriven HeapPartition 
  ParsesAsWritten FilesAsWritten
PROPERTIES LinesInOrder BytesInOrder PromptReturns
CHECK_DEADLOCK FALSE
