SPECIFICATION FairSpec
CONSTANTS
  NearJump = 3
  StackSize = 60
  Programs <- AllPrograms
  Compile <- CompiledProgram
INVARIANTS MeansTheSame InFrame TrapsBalanced MemoOnce
PROPERTIES Ends
