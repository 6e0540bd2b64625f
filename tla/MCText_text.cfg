CONSTANTS
  Alphabets <- SomeAlphabets
  MaxText <- SomeLengths
  Codes <- SomeCodes
SPECIFICATION Spec
INVARIANTS FormUndone UrlRead OnlyTheRight PathClean CrcAsDivided
CHECK_DEADLOCK FALSE
