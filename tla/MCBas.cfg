SPECIFICATION FairSpec
CONSTANTS
  Programs <- SmallPrograms
  Root = "main"
  Hidden <- SmallHidden
  StringLabel <- LiteralName
  ByteBits = 3
  DefaultOrigin = 2560
  MaxOpen = 4
INVARIANTS
  TypeOK
  LayoutHolds
  ReferencesResolved
  IncludesAreAcyclic
  OutputIsComplete
PROPERTIES
  Terminates
