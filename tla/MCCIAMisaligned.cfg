CONSTANTS
  CIAs <- Files
  Block = 4
  Align = 8
  MaxWrite = 8
  BatchMax = 2
  MaxChunk = 13
  AnyTMDChunk = TRUE
  AM9Fails = FALSE
INIT Init
NEXT Next
\* An install that was finished or cancelled is over.
CHECK_DEADLOCK FALSE
INVARIANT InstalledExactly
