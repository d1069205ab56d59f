CONSTANTS
  Keys = {0, 3, 4, 8}
  StringKeys = {}
  Vals = {Null}
  Null = Null
  Free = Free
  Hash <- MCHash
  Addr <- MCAddr
  TypedNodes = 32
  NotFound = NotFound
  InitSizes = {1, 4}
  MaxNodes = 8
SPECIFICATION FSpec
INVARIANTS
  VisitedOnce
PROPERTY
  NoneMissed
