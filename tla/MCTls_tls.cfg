CONSTANTS
  Scripts <- SomeScripts
  Limit = 2
  Room = 9
SPECIFICATION FairSpec
INVARIANTS
  InOrder
  GentleDefined
PROPERTIES
  GentleDelivered
\* A connection ends.
CHECK_DEADLOCK FALSE
