CONSTANTS
  Scripts <- LongRecord
  Limit = 2
  Room = 9
SPECIFICATION FairSpec
PROPERTIES
  Delivered
\* A connection ends.
CHECK_DEADLOCK FALSE
