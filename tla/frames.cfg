CONSTANTS
  Vars = {1, 2}
  Gens = {g1}
  None = None
  FrameSize = 2
  MaxFrames = 3
  MaxScopes = 2
  TryInForeach = FALSE
  SharedGenerators = FALSE
SPECIFICATION Spec
INVARIANTS
  TypeOK
  TrapsSound
  OuterOfItsVariable
  GeneratorFrames
PROPERTIES
  CapturedShared
