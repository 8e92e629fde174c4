CONSTANTS
  a = a
  b = b
  c = c
  Titles = {a, b, c}
  NoTitle = none
  Threads = {t1, t2}
  Limit <- Limits
  MaxEntries = 2
  CountMod = 3
  BufSize = 1
  MaxCalls = 5
  MaxCrashes = 1
SYMMETRY Perms
INIT Init
NEXT Next
\* The numbers of commands and crashes are bounded, so the system stops.
CHECK_DEADLOCK FALSE
INVARIANT LimitRespected
INVARIANT DatabaseIsWhole
INVARIANT GrantIsDurable
