CONSTANTS
  AuthRequired = TRUE
  Requests <- Refused
  SysResults <- NoFailure
  RefuseAt <- NoRefusal
  FsFails = FALSE
  HangUp = "never"
  OutputFirst = TRUE
  MaxPieces = 4
  MaxOutput = 2
SPECIFICATION Spec
INVARIANTS
  ResponseFramed
\* A connection ends, and with it everything in the instance.
CHECK_DEADLOCK FALSE
