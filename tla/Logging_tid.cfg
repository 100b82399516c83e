\* A thread id of six digits.
CONSTANTS
  main = main
  worker = worker
  Threads = {main, worker}
  TidDigits <- SixDigits
  Times = {1, 2}
  Levels <- MCLevels
  ArgLens = {1}
  BaseLen = 1
  LineDigits = 2
  ErrnoDigits = 1
  Size = 12
  MaxNumeric = 4
  IntMax = 127
  MaxNesting = 2
  MaxRecords = 2
SPECIFICATION Spec
\* abort() ends the process, and so does the bound on records.
CHECK_DEADLOCK FALSE
INVARIANTS TidFitsField
