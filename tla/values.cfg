CONSTANTS
  Texts <- FiveTexts
  HashStr <- TextHash
  MaxRefs <- StringRefs
  NoText = 0
  MaxStrings = 5
  Types <- ValueTypes
  MaxTop = 3
  StackGrows = FALSE
SPECIFICATION VSpec
INVARIANTS
  OneObjectPerText
  StackAsDocumented
