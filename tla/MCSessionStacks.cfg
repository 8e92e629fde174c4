CONSTANTS
  MaxTotal = 2
  MaxSessions = 3
  MaxOpen = 3
INIT Init
NEXT Next
\* The number of sessions is bounded, and the module ends.
CHECK_DEADLOCK FALSE
INVARIANT PipeStackIsItsOwn
