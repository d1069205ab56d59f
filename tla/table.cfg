CONSTANTS
  Keys = {0, 2, 3, 4, 6, 8}
  StringKeys = {}
  Vals = {Null}
  Null = Null
  Free = Free
  Hash <- MCHash
  Addr <- MCAddr
  TypedNodes = 32
  NotFound = NotFound
  InitSizes = {1, 2, 4}
  MaxNodes = 16
SPECIFICATION Spec
INVARIANTS
  TypeOK
  NodesInv
  FoundInv
  UsedExact
  RehashHasRoom
