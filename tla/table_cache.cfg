CONSTANTS
  s0 = s0
  s3 = s3
  s4 = s4
  s7 = s7
  i1 = i1
  Keys = {s0, s3, s4, s7, i1}
  StringKeys = {s0, s3, s4, s7}
  Vals = {Null}
  Null = Null
  Free = Free
  Hash <- MCHash
  Addr <- MCAddr
  TypedNodes = 4
  NotFound = NotFound
  InitSizes = {1, 4}
  MaxNodes = 8
SPECIFICATION CSpec
INVARIANTS
  HintIsRight
