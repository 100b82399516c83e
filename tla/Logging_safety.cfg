\* Two threads, nested records, a buffer that a few characters fill before the tail.
CONSTANTS
  main = main
  worker = worker
  Threads = {main, worker}
  TidDigits <- FiveDigits
  Times = {1, 2}
  Levels <- MCLevels
  ArgLens = {1, 3}
  BaseLen = 1
  LineDigits = 2
  ErrnoDigits = 1
  Size = 12
  MaxNumeric = 4
  IntMax = 127
  MaxNesting = 2
  MaxRecords = 2
SPECIFICATION Spec
\* abort() ends the process, and so does the bound on records.
CHECK_DEADLOCK FALSE
SYMMETRY Symmetry
INVARIANTS TypeOK StampsAreTrue TailUnlessFull FatalIsFlushed
