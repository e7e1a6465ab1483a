SPECIFICATION Spec
CONSTANTS
  Instructions <- AllInstructions
INVARIANTS
  WordMeansInstruction
CHECK_DEADLOCK FALSE
