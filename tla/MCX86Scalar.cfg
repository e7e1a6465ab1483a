SPECIFICATION Spec
CONSTANTS
  Instructions <- AllInstructions
  Bits <- BitsOf
  Capacity = 16
INVARIANTS
  ScalarSourcesAreXmm
CHECK_DEADLOCK FALSE
