CONSTANTS
  Threads = {t1, t2, t3}
  NoThread = none
  MaxDepth = 2
SPECIFICATION RSpec
INVARIANT MutualExclusion
INVARIANT LockWord
INVARIANT NoLostWakeup
INVARIANT TagReadIsOwn
PROPERTY LockProgress
PROPERTY ImplementsReentrant
