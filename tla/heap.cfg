CONSTANTS
  Objects = {1, 2, 3}
  None = None
  Kind <- MCKind
  Owns <- MCOwns
  HasFixed = {2}
  MaxStack = 2
SPECIFICATION FairSpec
CHECK_DEADLOCK FALSE
INVARIANTS
  CountsExact
  ChainsSound
PROPERTIES
  CollectorEnds
  ReachableKept
  GarbageGone
