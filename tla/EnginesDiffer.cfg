SPECIFICATION Spec
CONSTANT
  Programs <- LoopProgram
INVARIANT
  SameMeaning
CHECK_DEADLOCK FALSE
