CONSTANTS
  Backups <- TheBackups
  ExportTypes = {0, 2, 4, 5, 7, 9, 10, 11}
  Buffers = {131071, 131080}
  Garbage = {0, 4096}
  FaultSets <- TheFaultSets
  FirmSessions = {s1, s2}
  TitleIds <- TheTitles
  Versions <- TheVersions
  FirstFirm <- Native
  FirstVersion <- First
  MaxTitles = 2
  FirmMays <- TheFirmMays
  Readers = {r1, r2}
  CIAFile <- TheFiles
  DLC <- TheDLC
  Questions <- TheQuestions
  U32 = 1048576
  IndexMax = 3
  ManyContents = 3
  ContextBatch = 2
  MaxQuestions = 3
  ReadFaults <- TheReadFaults
  Sessions = {s1, s2}
  Media = {nand, sd}
  FirstMedia = nand
  Mays <- Environments
SPECIFICATION CommandsSpec
\* An import of a backup and the questions come to an end, and so does a client of
\* titles whose command has faulted.
CHECK_DEADLOCK FALSE
INVARIANT AllOrNothing
INVARIANT BackupsAreAccepted
INVARIANT FirmIsCurrent
INVARIANT AnswersAreOwn
INVARIANT FlagMeansOwnTitle
INVARIANT NothingOrphaned
INVARIANT WritesReachOpenPart
PROPERTY OthersTitleStays
PROPERTY FirmOnlyUpgraded
PROPERTY ReadersReturn
PROPERTY TitlesEnd
