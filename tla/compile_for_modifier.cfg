INIT Init
NEXT Next
CONSTANTS
  NearJump = 127
  StackSize = 40
  Programs <- ForModifierPrograms
  Compile <- CompiledProgram
INVARIANTS MeansTheSame
