SPECIFICATION Spec
CONSTANTS
  Arch = "x86_64"
  Names <- MCNames
  Hidden <- MCHidden
  SectionNames <- MCSectionNames
  Alignments = {4}
  MaxSectionSize = 40
  SizeWord <- MCSizeWord
  AlignUp <- MCAlignUp
  MCWordBits = 8
  Imm26Span = 8
  Imm19Span = 4
  Alphabet <- X86Alphabet
  MaxLength = 3
  MaxBranches = 0
  Programs <- MCPrograms
PROPERTIES
  ImplementsContract
