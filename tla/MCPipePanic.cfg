CONSTANTS
  Sessions = {s1}
  MaxImports = 2
  Mays <- OverlapOnly
INIT Init
NEXT Next
\* The number of imports is bounded, so the system stops.
CHECK_DEADLOCK FALSE
INVARIANT NeverPanics
