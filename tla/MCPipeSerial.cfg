CONSTANTS
  Sessions = {s1, s2}
  MaxImports = 2
  Mays <- OneByOne
SPECIFICATION Spec
\* The number of imports is bounded, so the system stops.
CHECK_DEADLOCK FALSE
INVARIANT NothingLeft
INVARIANT PipeThreadNeverPanics
PROPERTY CommandsReturn
PROPERTY TeardownCompletes
PROPERTY ImplementsPipe
