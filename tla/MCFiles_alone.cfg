CONSTANTS
  Clients = {"c1", "c2"}
  Paths <- SomePaths
  Requests <- Careful
  OldFiles <- OldFile
  DiskFails = {"copy", "sum"}
  Alone = TRUE
SPECIFICATION Spec
INVARIANTS
  BodyAsSummed
PROPERTIES
  StoreKept
  ErrorHasReason
\* Every request is answered once, and nothing happens after that.
CHECK_DEADLOCK FALSE
