CONSTANTS
  AuthRequired = TRUE
  Requests <- Everything
  SysResults <- AnyFailure
  RefuseAt <- Refusals
  FsFails = TRUE
  HangUp = "any"
  OutputFirst = FALSE
  MaxPieces = 4
  MaxOutput = 2
SPECIFICATION Spec
INVARIANTS
  TypeOK
  ToWriteExact
  ClosedFlushed
\* A connection ends, and with it everything in the instance.
CHECK_DEADLOCK FALSE
