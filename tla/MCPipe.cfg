CONSTANTS
  Sessions = {s1, s2}
  MaxImports = 2
  Mays <- Overlapping
SYMMETRY Perms
INIT Init
NEXT Next
\* The number of imports is bounded, so the system stops.
CHECK_DEADLOCK FALSE
INVARIANT OneImport
PROPERTY OnePipeThread
