CONSTANTS
  Sessions = {s1}
  MaxImports = 1
  Mays <- Nothing
INIT Init
NEXT Next
\* The number of imports is bounded, so the system stops.
CHECK_DEADLOCK FALSE
INVARIANT CommandsNeverFault
