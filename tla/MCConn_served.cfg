CONSTANTS
  AuthRequired = TRUE
  Requests <- Served
  SysResults <- Answerable
  RefuseAt <- NoRefusal
  FsFails = TRUE
  HangUp = "never"
  OutputFirst = TRUE
  MaxPieces = 4
  MaxOutput = 2
SPECIFICATION FairSpec
INVARIANTS
  NoUseAfterFree
  ResponseFramed
  EndedWhenComplete
  NotForgotten
  OneOperation
  CopiedWhole
  UploadStored
  OutputComplete
  FileReleased
PROPERTIES
  StreamKept
  Answered
\* A connection ends, and with it everything in the instance.
CHECK_DEADLOCK FALSE
