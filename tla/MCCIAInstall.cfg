CONSTANTS
  CIAs <- Files
  Block = 4
  Align = 8
  MaxWrite = 8
  BatchMax = 2
  MaxChunk = 13
  AnyTMDChunk = FALSE
  AM9Fails = TRUE
SPECIFICATION Spec
\* An install that was finished or cancelled is over.
CHECK_DEADLOCK FALSE
INVARIANT InstalledExactly
INVARIANT WritesAligned
INVARIANT FlagsMatchAM9
INVARIANT ContentHasContext
INVARIANT FileEndInstallsAll
PROPERTY WriteReturns
