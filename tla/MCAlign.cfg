SPECIFICATION Spec
CONSTANTS
  WordBits = 5
INVARIANTS
  LeastMultiple
  PaddingIsSmall
