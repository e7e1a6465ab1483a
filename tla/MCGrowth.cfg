SPECIFICATION FairSpec
CONSTANTS
  Arch = "arm64"
  Names <- MCNames
  Hidden <- MCHidden
  SectionNames <- MCSectionNames
  Alignments = {3, 4, 255}
  MaxSectionSize = 20
  SizeWord <- MCSizeWord
  AlignUp <- MCAlignUp
  MCWordBits = 8
  Imm26Span = 8
  Imm19Span = 4
  Alphabet <- GrowthAlphabet
  MaxLength = 3
  MaxBranches = 0
  Programs <- MCPrograms
PROPERTIES
  GrowthIsRefused
