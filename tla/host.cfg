SPECIFICATION HSpec
CONSTANTS
  a = a
  b = b
  c = c
  Files <- MCFiles
  Volatile <- MCVolatile
  MaxRuns = 3
  MaxReloads = 1
  MaxDepth = 5
  HandlersRegister = FALSE
INVARIANTS RunningStack LoadedOnce StorageReused ReloadComplete
  NamesKept
SYMMETRY Alike
CHECK_DEADLOCK FALSE
