CONSTANTS
  Messages <- SomeMessages
  ContentLength <- Length
  Expect <- Expecting
  Continue <- OneHundred
  atoi <- Number
SPECIFICATION Spec
INVARIANTS
  LengthAgrees
  LastValueFound
  ExpectAsSent
\* The headers end.
CHECK_DEADLOCK FALSE
