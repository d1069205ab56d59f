SPECIFICATION HSpec
CONSTANTS
  a = a
  b = b
  c = c
  Files <- MCFiles
  Volatile <- MCVolatile
  MaxRuns = 3
  MaxReloads = 1
  MaxDepth = 5
  HandlersRegister = FALSE
INVARIANT PersistKept
CHECK_DEADLOCK FALSE
