CONSTANTS
  Clients = {"c1", "c2"}
  Paths <- SomePaths
  Requests <- Mixed
  OldFiles <- Nothing
  DiskFails = {"copy", "sum", "send"}
  Alone = FALSE
SPECIFICATION FairSpec
PROPERTIES
  EveryoneAnswered
\* Every request is answered once, and nothing happens after that.
CHECK_DEADLOCK FALSE
