CONSTANTS
  Waiters = {w1, w2, w3}
  Signalers = {s1, s2}
  memSize = 11
  MaxNum = 4
  MaxTotal = 2
  MaxSessions = 4
  MaxOpen = 4
SPECIFICATION RuntimeSpec
\* The number of sessions is bounded, and the module ends.
CHECK_DEADLOCK FALSE
INVARIANT BlocksTileMemory
INVARIANT SessionStacksDisjoint
INVARIANT OwnSession
PROPERTY ImplementsEvent
PROPERTY SignalLetsOneReturn
PROPERTY ImplementsHeap
PROPERTY ShutdownCompletes
