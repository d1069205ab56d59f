CONSTANTS
  Keys = {0, 3, 8}
  StringKeys = {}
  Vals = {Null, v1}
  Null = Null
  Free = Free
  Hash <- MCHash
  Addr <- MCAddr
  TypedNodes = 32
  NotFound = NotFound
  InitSizes = {1, 2, 4}
  MaxNodes = 16
SPECIFICATION Spec
PROPERTY
  ImplementsMap
