SPECIFICATION FairSpec
CONSTANTS
  Arch = "arm64"
  Names <- MCNames
  Hidden <- MCHidden
  SectionNames <- MCSectionNames
  Alignments = {3, 4, 255}
  MaxSectionSize = 20
  SizeWord <- MCSizeWord
  AlignUp <- MCAlignUp
  MCWordBits = 8
  Imm26Span = 8
  Imm19Span = 4
  Alphabet <- Arm64Alphabet
  MaxLength = 3
  MaxBranches = 5
  Programs <- MCPrograms
INVARIANTS
  TypeOK
  NamesUnique
  RelocationsNameTheirTarget
  SlotsIntact
  LabelsMarkTheirPlace
  ReferencesResolved
  OutputIsComplete
  BranchesReachTheirLabel
PROPERTIES
  LayoutFrozen
  ImplementsContract
  Terminates
