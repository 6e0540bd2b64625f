CONSTANTS
  Args <- OddArgs
  Files <- SomeFiles
  Exe <- SomeExe
  Home <- SomeHome
  SIZE = 12
  atoi <- SomeNumbers
SPECIFICATION Spec
INVARIANTS AsWritten TalksAsTold
CHECK_DEADLOCK FALSE
