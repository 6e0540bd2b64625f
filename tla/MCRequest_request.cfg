CONSTANTS
  Inputs <- SomeInputs
  Talks <- SomeTalks
  Writes <- AllWrites
  Leftovers <- SomeLeftovers
  ULLONG_MAX = 63
  HTTP_MAX_HEADER_SIZE = 32
  MaxBuffers = 3
  ContentLength <- Length
  ContentType <- Type
  Expect <- Expecting
  Form <- FormType
  Continue <- OneHundred
  atoi <- Number
SPECIFICATION Spec
INVARIANTS
  Framed
  Accepted
  StoredWhole
  DispatchedAsSent
  AssertsHold
PROPERTIES
  HeadersKept
\* The input ends, or the connection is closed.
CHECK_DEADLOCK FALSE
