\* Three processes whose transactions of one block each are committed as groups of up to
\* two blocks; the last has to wait for log space when a block is already logged.
SPECIFICATION FairSpec
CONSTANTS
  Proc = {p1, p2, p3}
  Block = {b1, b2}
  Data = {d1, d2}
  MAXOPBLOCKS = 2
  OPBLOCKS = 1
  NLOG = 6
  NoBuf = NoBuf
  Torn = Torn
 
PROPERTIES CrashAtomic WaitersAreWoken RecoveryCompletes
