CONSTANTS
  Objects <- FiveObjects
  HashObj <- ObjectHash
  MaxRefs <- HandleRefs
  MaxSlots = 8
  NoObject = NoObject
  NoAnswer = NoAnswer
SPECIFICATION Spec
INVARIANTS
  EveryNodeInOneList
PROPERTY
  ImplementsBag
