SPECIFICATION Spec
CONSTANTS
  Instructions <- AllInstructions
  Bits <- BitsOf
  Capacity = 16
INVARIANTS
  EncodingMeansInstruction
  RelocationCoversField
CHECK_DEADLOCK FALSE
