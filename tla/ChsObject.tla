------------------------------ MODULE ChsObject ------------------------------
(***************************************************************************)
(* The relocatable object under construction (ChsObject, ChsSection,       *)
(* ChsSymbol and ChsRelocation of include/chs/assembler.h) and the         *)
(* operations of src/object.c on it, as pure operators.                    *)
(*                                                                         *)
(* Sections and symbols are sequences, as in the code; an index is the     *)
(* code's index plus one, and None stands for (size_t) -1.  The byte       *)
(* values of a section are abstracted to what the properties tell apart:   *)
(* which source statement wrote the byte last, and as what.                *)
(***************************************************************************)
EXTENDS Integers, Sequences

CONSTANTS
  Names,            \* symbol names
  SectionNames,     \* (segment, section) name pairs
  Alignments,       \* operands of .p2align (as 2^n), .balign and .align
  MaxSectionSize,   \* realloc refuses to grow a section beyond this size
  SizeWord,         \* number of values of a size_t (2^64)
  AlignUp(_, _)     \* chs_align_up_u64, given by module ChsAlign

(* Memory ends, with room for a slot, below half of what size_t counts.    *)
ASSUME SizeAssumption ==
  /\ MaxSectionSize \in Nat /\ SizeWord \in Nat
  /\ 2 * (MaxSectionSize + 16) <= SizeWord

(* The sum inside AlignUp may wrap around, and the result be any size_t.   *)
ASSUME AlignAssumption ==
  /\ Alignments \subseteq Nat \ {0}
  /\ \A v \in 0 .. MaxSectionSize, a \in Alignments :
       AlignUp(v, a) \in 0 .. SizeWord - 1

None == 0

RelocationKinds ==
  {"BRANCH26", "PAGE21", "PAGEOFF12", "BRANCH32", "SIGNED32", "ABS64"}

(* Bytes patched by the linker: 8 for .quad, one 32-bit field otherwise.   *)
Width(kind) == IF kind = "ABS64" THEN 8 ELSE 4

(* by: the statement that wrote the byte; imm: the displacement field of   *)
(* the instruction the byte belongs to (0 where there is none).            *)
Byte       == [by : Nat, is : {"data", "zero", "code", "fill"}, imm : Int]
Relocation == [offset : Nat, kind : RelocationKinds, symbol : Nat]
Section    == [name : SectionNames, align : Nat, data : Seq(Byte),
               relocations : Seq(Relocation)]
Symbol     == [name : Names, defined : BOOLEAN, global : BOOLEAN,
               external : BOOLEAN, section : Nat, value : Nat]

-----------------------------------------------------------------------------
(* The first element of a table with that name, or None.                   *)
Find(table, name) ==
  IF \E i \in DOMAIN table : table[i].name = name
  THEN CHOOSE i \in DOMAIN table :
         /\ table[i].name = name
         /\ \A j \in 1 .. i - 1 : table[j].name # name
  ELSE None

UniqueNames(table) ==
  \A i, j \in DOMAIN table : table[i].name = table[j].name => i = j

NewSection(name) ==
  [name |-> name, align |-> 1, data |-> << >>, relocations |-> << >>]

NewSymbol(name) ==
  [name |-> name, defined |-> FALSE, global |-> FALSE, external |-> FALSE,
   section |-> None, value |-> 0]

(* Wrong variants, which the properties must tell from the code: the index *)
(* of a new section taken after the count went up, and a symbol created    *)
(* without the search for an entry of its name.                            *)
GetOrCreateSectionLate(sections, name) ==
  LET i == Find(sections, name)
  IN  IF i # None
      THEN [table |-> sections, index |-> i]
      ELSE [table |-> Append(sections, NewSection(name)),
            index |-> Len(sections) + 2]
CreateSymbol(symbols, name) ==
  [table |-> Append(symbols, NewSymbol(name)), index |-> Len(symbols) + 1]

GetOrCreateSection(sections, name) ==
  LET i == Find(sections, name)
  IN  IF i # None
      THEN [table |-> sections, index |-> i]
      ELSE [table |-> Append(sections, NewSection(name)),
            index |-> Len(sections) + 1]

GetOrCreateSymbol(symbols, name) ==
  LET i == Find(symbols, name)
  IN  IF i # None
      THEN [table |-> symbols, index |-> i]
      ELSE [table |-> Append(symbols, NewSymbol(name)),
            index |-> Len(symbols) + 1]

-----------------------------------------------------------------------------
(* n copies of byte b at the end of a section, if memory allows.           *)
Fits(section, n) == Len(section.data) + n <= MaxSectionSize

(* What chs_section_append_zeros, once it has grown by one byte, does for  *)
(* a run of n zeros that does not fit.  It doubles the capacity until it   *)
(* reaches size + n, a sum of size_t: no power of two is above half of     *)
(* them, so that the doubling comes to zero and stays there; and where the *)
(* sum wraps around it grows nothing and clears n bytes all the same.      *)
Needed(section, n) == (Len(section.data) + n) % SizeWord

DoublesForever(section, n) ==
  Fits(section, 1) /\ Needed(section, n) > SizeWord \div 2

Overruns(section, n) ==
  Fits(section, 1) /\ Needed(section, n) < Len(section.data)

Extended(data, n, b) ==
  [i \in 1 .. Len(data) + n |-> IF i <= Len(data) THEN data[i] ELSE b]

AppendBytes(section, n, b) ==
  [section EXCEPT !.data = Extended(section.data, n, b)]

(* How much padding chs_section_align adds, as a size_t.                   *)
Padding(section, alignment) ==
  (AlignUp(Len(section.data), alignment) - Len(section.data)) % SizeWord

AlignSection(section, alignment, b) ==
  [section EXCEPT
     !.align = IF alignment > section.align THEN alignment ELSE section.align,
     !.data  = Extended(section.data, Padding(section, alignment), b)]

(* Wrong variant: the relocation lands where the section now ends.         *)
AddRelocationAtEnd(section, offset, kind, symbol) ==
  [section EXCEPT !.relocations =
     Append(section.relocations,
            [offset |-> Len(section.data), kind |-> kind, symbol |-> symbol])]

AddRelocation(section, offset, kind, symbol) ==
  [section EXCEPT !.relocations =
     Append(section.relocations,
            [offset |-> offset, kind |-> kind, symbol |-> symbol])]
=============================================================================
