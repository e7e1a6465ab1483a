SPECIFICATION FairSpec
CONSTANTS
  Objects <- MCObjects
  MaxSymbols = 3
  Hidden <- MCHidden
  DotNames <- MCDotNames
  NameSize <- MCNameSize
  StaleSizes = {1, 70}
  WordSpan = 512
  HalfSpan = 16
  LoReserve = 14
  Capacities <- MCCapacities
  MaxBuffer = 2048
  AlignUp <- MCAlignUp
  MCWordBits = 12
INVARIANTS
  TypeOK
  LocalsPrecedeGlobals
  BufferInBounds
  SectionsLaidOut
PROPERTIES
  ImplementsObjectFile
  Terminates
