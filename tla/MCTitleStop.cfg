CONSTANTS
  Sessions = {s1, s2}
  Media = {nand, sd}
  FirstMedia = nand
  Mays <- LateStart
INIT Init
NEXT Next
INVARIANT NoWritesAfterStop
