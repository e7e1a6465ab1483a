SPECIFICATION Spec
CONSTANTS
  Objects <- MCObjects
  MaxSymbols = 3
  Hidden <- MCHidden
  FixedName <- MCFixedName
  WordSpan = 1024
  SectionSpan = 4
  SymbolSpan = 3
  NameSize <- MCNameSize
  Capacities <- MCCapacities
  MaxBuffer = 2048
  AlignUp <- MCAlignUp
  MCWordBits = 12
INVARIANTS
  TypeOK
  RangesCounted
  PromisesKept
PROPERTIES
  ImplementsObjectFile
