----------------------------- MODULE ChsElfWriter ----------------------------
(***************************************************************************)
(* chs_write_elf64_object (src/format_elf64.c), step by step: the visible  *)
(* symbols collected and sorted locals first, the symbol and string        *)
(* tables, the sections, their relocation sections, and the section        *)
(* headers appended to one buffer that is written at the end.              *)
(*                                                                         *)
(* Sizes and offsets are the real ones; bytes are the pieces of ChsBuffer. *)
(* Numbers are cut to the width of the field they are put in, as the code  *)
(* does without a word.  Section types are kept where a reader needs them; *)
(* flags, the machine and addends are left out.                            *)
(***************************************************************************)
EXTENDS ChsBuffer, FiniteSets

CONSTANTS
  Objects,          \* the objects the assembler hands over
  Hidden,           \* names that start with "L"
  DotNames,         \* section names that start with "."
  NameSize(_),      \* strlen + 1
  StaleSizes,       \* strlen + 1 of an uninitialised buffer
  WordSpan,         \* how many values a uint32_t has
  HalfSpan,         \* how many values a uint16_t has
  LoReserve         \* SHN_LORESERVE: section numbers from here on are codes

RelocationTypes ==
  [arm64  |-> [ABS64 |-> 257, PAGE21 |-> 275, PAGEOFF12 |-> 277,
               BRANCH26 |-> 283],
   x86_64 |-> [ABS64 |-> 1, SIGNED32 |-> 2, BRANCH32 |-> 4, ABS32 |-> 10],
   bslash |-> [ABS8 |-> 1, ABS16 |-> 2, ABS32 |-> 3, ABS64 |-> 4, REL8 |-> 5,
               REL32 |-> 6]]

(* What the assembler hands over (ChsObject): every relocation is of a     *)
(* kind of its architecture and has its symbol; indices count from one.    *)
SymbolOf(o) ==
  [name : STRING, defined : BOOLEAN, global : BOOLEAN, external : BOOLEAN,
   section : 0 .. Len(o.sections), value : Nat]

RelocationOf(o) ==
  [offset : Nat, kind : DOMAIN RelocationTypes[o.arch],
   symbol : DOMAIN o.symbols]

SectionOf(o) ==
  [name : STRING, align : Nat, size : Nat,
   relocations : Seq(RelocationOf(o))]

ASSUME ObjectsAssumption ==
  \A o \in Objects :
    /\ o.arch \in DOMAIN RelocationTypes
    /\ o.sections \in Seq(SectionOf(o))
    /\ o.symbols \in Seq(SymbolOf(o))

(* A string takes one byte at least, its end.                              *)
FixedNames == {".text", ".symtab", ".strtab", ".shstrtab"}

ASSUME NameSizeAssumption ==
  /\ \A name \in FixedNames : NameSize(name) \in Nat \ {0}
  /\ \A o \in Objects :
       /\ \A i \in DOMAIN o.sections :
            NameSize(o.sections[i].name) \in Nat \ {0}
       /\ \A i \in DOMAIN o.symbols :
            NameSize(o.symbols[i].name) \in Nat \ {0}
  /\ StaleSizes \subseteq Nat \ {0}

ASSUME WidthAssumption ==
  /\ WordSpan \in Nat \ {0} /\ HalfSpan \in Nat \ {0}
  /\ LoReserve \in 1 .. HalfSpan /\ HalfSpan <= WordSpan

VARIABLES
  object,      \* the object being written
  pc,          \* the step the writer is at
  k,           \* the loop index of that step
  rank,        \* the inner index of the insertion sort
  order,       \* symbol_order: visible symbols, in file order
  map,         \* symbol_index_map
  symtab,      \* symbols, without the null entry
  locals,      \* local_symbol_count
  strtab,      \* the symbol names
  shstrtab,    \* the section names
  headers,     \* section_headers, from index 0
  buffer,      \* the file in memory
  shoff,       \* section_header_offset
  output       \* what became of the output file

vars == <<object, pc, k, rank, order, map, symtab, locals, strtab, shstrtab,
          headers, buffer, shoff, output>>

-----------------------------------------------------------------------------
ElfHeaderSize     == 64
SectionHeaderSize == 64
RecordSize        == 24    \* Elf64_Sym and Elf64_Rela

uint32(n) == n % WordSpan
uint16(n) == n % HalfSpan

Unmapped == WordSpan - 1    \* UINT32_MAX

Sections == object.sections
Symbols  == object.symbols

HideSymbol(s) == s.name \in Hidden

(* Wrong variant: symbols nobody defines are ranked with the locals.       *)
RankDefined(s) == IF s.global \/ s.external THEN 1 ELSE 0

Rank(s) == IF s.global \/ s.external \/ ~s.defined THEN 1 ELSE 0

WithRelocations == {i \in DOMAIN Sections : Sections[i].relocations # << >>}

(* The null header, the sections, their relocations and three tables.      *)
Total == 1 + Len(Sections) + Cardinality(WithRelocations) + 3
SymtabIndex   == Total - 3
StrtabIndex   == Total - 2
ShstrtabIndex == Total - 1

(* The header index of a section's relocation section.                     *)
RelaIndex(i) ==
  Len(Sections) + Cardinality({j \in WithRelocations : j <= i})

RelocationType(kind) == RelocationTypes[object.arch][kind]

NullHeader ==
  [is |-> "header", type |-> "NULL", name |-> 0, offset |-> 0, size |-> 0,
   link |-> 0, info |-> 0, align |-> 0]

String(prefix, name) == [is |-> "string", prefix |-> prefix, name |-> name]

PutName(b, name) == Put(b, String("", name), NameSize(name))

(* ".rela" and the section's name, or ".text" when that has no dot.  The   *)
(* arguments of the call that appends it fill the name's buffer and take   *)
(* its length, in an order C leaves open: the length may be that of what   *)
(* the buffer held before.                                                 *)
RelaSuffix(section) ==
  IF section.name \in DotNames THEN section.name ELSE ".text"
RelaNameSize(section) == 5 + NameSize(RelaSuffix(section))
RelaNameSizes(section) == {RelaNameSize(section)} \cup StaleSizes

RelaName(section, n) ==
  IF n < RelaNameSize(section) THEN [is |-> "cut"]
  ELSE String(".rela", RelaSuffix(section))

-----------------------------------------------------------------------------
Init ==
  /\ object \in Objects
  /\ pc = "collect"
  /\ k = 1
  /\ rank = 1
  /\ order = << >>
  /\ map = [i \in DOMAIN Symbols |-> Unmapped]
  /\ symtab = << >>
  /\ locals = 1
  /\ strtab = Put(EmptyBuffer, Zeros, 1)
  /\ shstrtab = Put(EmptyBuffer, Zeros, 1)
  /\ headers = [i \in 0 .. Total - 1 |-> NullHeader]
  /\ buffer = EmptyBuffer
  /\ shoff = 0
  /\ output = "untouched"

Goto(step) == pc' = step /\ k' = 1

(* A visible symbol's index follows those before it.                       *)
Collect ==
  /\ pc = "collect"
  /\ k <= Len(Symbols)
  /\ order' = IF HideSymbol(Symbols[k]) THEN order ELSE Append(order, k)
  /\ k' = k + 1
  /\ UNCHANGED <<object, pc, rank, map, symtab, locals, strtab, shstrtab,
                 headers, buffer, shoff, output>>

EndCollect ==
  /\ pc = "collect"
  /\ k > Len(Symbols)
  /\ pc' = "sort"
  /\ k' = 2
  /\ rank' = 2
  /\ UNCHANGED <<object, order, map, symtab, locals, strtab, shstrtab, headers,
                 buffer, shoff, output>>

(* Wrong variant: equal ranks change places too.                           *)
NotAfter(p) ==
  p > 1 /\ Rank(Symbols[order[p - 1]]) >= Rank(Symbols[order[p]])

OutOfPlace(p) ==
  p > 1 /\ Rank(Symbols[order[p - 1]]) > Rank(Symbols[order[p]])

(* The symbol moves one place down.                                        *)
Swap ==
  /\ pc = "sort"
  /\ k <= Len(order)
  /\ OutOfPlace(rank)
  /\ order' = [order EXCEPT ![rank] = order[rank - 1],
                            ![rank - 1] = order[rank]]
  /\ rank' = rank - 1
  /\ UNCHANGED <<object, pc, k, map, symtab, locals, strtab, shstrtab,
                 headers, buffer, shoff, output>>

(* Wrong variant: the outer index is not advanced.                         *)
InPlaceAgain ==
  /\ pc = "sort"
  /\ k <= Len(order)
  /\ ~OutOfPlace(rank)
  /\ rank' = k
  /\ UNCHANGED <<object, pc, k, order, map, symtab, locals, strtab, shstrtab,
                 headers, buffer, shoff, output>>

(* It is in place: on to the next one.                                     *)
InPlace ==
  /\ pc = "sort"
  /\ k <= Len(order)
  /\ ~OutOfPlace(rank)
  /\ k' = k + 1
  /\ rank' = k + 1
  /\ UNCHANGED <<object, pc, order, map, symtab, locals, strtab, shstrtab,
                 headers, buffer, shoff, output>>

EndSort ==
  /\ pc = "sort"
  /\ k > Len(order)
  /\ Goto("symbols")
  /\ UNCHANGED <<object, rank, order, map, symtab, locals, strtab, shstrtab,
                 headers, buffer, shoff, output>>

-----------------------------------------------------------------------------
(* The symbol and string tables.                                           *)

Entry(s) ==
  [is      |-> "symbol",
   name    |-> uint32(strtab.length),
   binding |-> IF Rank(s) = 0 THEN "local" ELSE "global",
   shndx   |-> IF s.defined THEN uint16(s.section) ELSE 0,
   value   |-> IF s.defined THEN s.value ELSE 0]

(* Wrong variant: the symbol's place in the object is its place in the     *)
(* file, as it would be without sorting and hiding.                        *)
FileIndexUnsorted(p) == order[p]

(* Index 0 of the file is the null symbol.                                 *)
FileIndex(p) == p

AddSymbol ==
  /\ pc = "symbols"
  /\ k <= Len(order)
  /\ LET s == Symbols[order[k]]
     IN  /\ HasRoom(strtab, NameSize(s.name))
         /\ map' = [map EXCEPT ![order[k]] = uint32(FileIndex(k))]
         /\ symtab' = Append(symtab, Entry(s))
         /\ strtab' = PutName(strtab, s.name)
         /\ locals' = IF Rank(s) = 0 THEN locals + 1 ELSE locals
  /\ k' = k + 1
  /\ UNCHANGED <<object, pc, rank, order, shstrtab, headers, buffer, shoff,
                 output>>

(* The ELF header, with the number of section headers and the index of     *)
(* the one for their names; its e_shoff field is filled in at the end.     *)
Ident ==
  [is |-> "ident", shnum |-> uint16(Total),
   shstrndx |-> uint16(ShstrtabIndex)]

PutIdent ==
  /\ pc = "symbols"
  /\ k > Len(order)
  /\ HasRoom(buffer, ElfHeaderSize)
  /\ buffer' = Put(buffer, Ident, ElfHeaderSize)
  /\ Goto("sections")
  /\ UNCHANGED <<object, rank, order, map, symtab, locals, strtab, shstrtab,
                 headers, shoff, output>>

-----------------------------------------------------------------------------
(* Sections and their relocations.                                         *)

AlignOf(section) == IF section.align = 0 THEN 1 ELSE section.align

PutSection ==
  /\ pc = "sections"
  /\ k <= Len(Sections)
  /\ LET section == Sections[k]
         padded  == Pad(buffer, AlignOf(section))
     IN  /\ HasRoom(shstrtab, NameSize(section.name))
         /\ HasRoom(buffer, Gap(buffer, AlignOf(section)) + section.size)
         /\ headers' = [headers EXCEPT ![k] =
              [is |-> "header", type |-> "PROGBITS",
               name |-> uint32(shstrtab.length), offset |-> padded.length,
               size |-> section.size,
               link |-> 0, info |-> 0, align |-> section.align]]
         /\ shstrtab' = PutName(shstrtab, section.name)
         /\ buffer' = Put(padded, [is |-> "data", index |-> k], section.size)
  /\ k' = k + 1
  /\ UNCHANGED <<object, pc, rank, order, map, symtab, locals, strtab, shoff,
                 output>>

EndSections ==
  /\ pc = "sections"
  /\ k > Len(Sections)
  /\ Goto("relas")
  /\ UNCHANGED <<object, rank, order, map, symtab, locals, strtab, shstrtab,
                 headers, buffer, shoff, output>>

Rela(rel) ==
  [is |-> "rela", offset |-> rel.offset, symbol |-> map[rel.symbol],
   type |-> RelocationType(rel.kind)]

Relas(section) ==
  [r \in DOMAIN section.relocations |-> Rela(section.relocations[r])]

RefersToHidden(section) ==
  \E r \in DOMAIN section.relocations :
    map[section.relocations[r].symbol] = Unmapped

SkipSection ==
  /\ pc = "relas"
  /\ k <= Len(Sections)
  /\ Sections[k].relocations = << >>
  /\ k' = k + 1
  /\ UNCHANGED <<object, pc, rank, order, map, symtab, locals, strtab,
                 shstrtab, headers, buffer, shoff, output>>

(* The length is moved to a multiple of eight by hand; the loop that would *)
(* append zeros finds nothing left to do.  The header's link is the index  *)
(* the code computes, which is that of the string table.                   *)
PutRelas ==
  /\ pc = "relas"
  /\ k <= Len(Sections)
  /\ Sections[k].relocations # << >>
  /\ ~RefersToHidden(Sections[k])
  /\ LET section == Sections[k]
         skipped == Skip(buffer)
         size    == RecordSize * Len(section.relocations)
     IN  /\ \E n \in RelaNameSizes(section) :
              /\ HasRoom(shstrtab, n)
              /\ shstrtab' = Put(shstrtab, RelaName(section, n), n)
         /\ HasRoom(skipped, size)
         /\ headers' = [headers EXCEPT ![RelaIndex(k)] =
              [is |-> "header", type |-> "RELA",
               name |-> uint32(shstrtab.length), offset |-> skipped.length,
               size |-> size, link |-> uint32(Total - 2), info |-> uint32(k),
               align |-> 8]]
         /\ buffer' = PutAll(skipped, Relas(section), RecordSize)
  /\ k' = k + 1
  /\ UNCHANGED <<object, pc, rank, order, map, symtab, locals, strtab, shoff,
                 output>>

Fail ==
  /\ pc' = "failed"
  /\ UNCHANGED <<object, k, rank, order, map, symtab, locals, strtab,
                 shstrtab, headers, buffer, shoff, output>>

RejectHidden ==
  /\ pc = "relas"
  /\ k <= Len(Sections)
  /\ RefersToHidden(Sections[k])
  /\ Fail

-----------------------------------------------------------------------------
(* The three tables, the section headers and the file.                     *)

NullSymbol ==
  [is |-> "symbol", name |-> 0, binding |-> "local", shndx |-> 0, value |-> 0]

PutSymtab ==
  /\ pc = "relas"
  /\ k > Len(Sections)
  /\ LET padded == Pad(buffer, 8)
         size   == RecordSize * (Len(symtab) + 1)
     IN  /\ HasRoom(shstrtab, NameSize(".symtab"))
         /\ HasRoom(buffer, Gap(buffer, 8) + size)
         /\ headers' = [headers EXCEPT ![SymtabIndex] =
              [is |-> "header", type |-> "SYMTAB",
               name |-> uint32(shstrtab.length), offset |-> padded.length,
               size |-> size, link |-> uint32(Total - 2),
               info |-> uint32(locals), align |-> 8]]
         /\ shstrtab' = PutName(shstrtab, ".symtab")
         /\ buffer' = PutAll(padded, <<NullSymbol>> \o symtab, RecordSize)
  /\ Goto("strtab")
  /\ UNCHANGED <<object, rank, order, map, symtab, locals, strtab, shoff,
                 output>>

StringHeader(name, table) ==
  [is |-> "header", type |-> "STRTAB", name |-> uint32(name),
   offset |-> buffer.length, size |-> table.length,
   link |-> 0, info |-> 0, align |-> 1]

PutStrtab ==
  /\ pc = "strtab"
  /\ HasRoom(shstrtab, NameSize(".strtab"))
  /\ HasRoom(buffer, strtab.length)
  /\ headers' = [headers EXCEPT ![StrtabIndex] =
                   StringHeader(shstrtab.length, strtab)]
  /\ shstrtab' = PutName(shstrtab, ".strtab")
  /\ buffer' = PutCopy(buffer, strtab)
  /\ Goto("shstrtab")
  /\ UNCHANGED <<object, rank, order, map, symtab, locals, strtab, shoff,
                 output>>

(* The table holds its own name before its size and bytes are taken.       *)
NamesWithOwn == PutName(shstrtab, ".shstrtab")

PutShstrtab ==
  /\ pc = "shstrtab"
  /\ HasRoom(shstrtab, NameSize(".shstrtab"))
  /\ HasRoom(buffer, NamesWithOwn.length)
  /\ headers' = [headers EXCEPT ![ShstrtabIndex] =
                   StringHeader(shstrtab.length, NamesWithOwn)]
  /\ shstrtab' = NamesWithOwn
  /\ buffer' = PutCopy(buffer, NamesWithOwn)
  /\ Goto("headers")
  /\ UNCHANGED <<object, rank, order, map, symtab, locals, strtab, shoff,
                 output>>

PutHeaders ==
  /\ pc = "headers"
  /\ LET padded == Pad(buffer, 8)
     IN  /\ HasRoom(buffer, Gap(buffer, 8) + SectionHeaderSize * Total)
         /\ shoff' = padded.length
         /\ buffer' = PutAll(padded, [i \in 1 .. Total |-> headers[i - 1]],
                             SectionHeaderSize)
  /\ Goto("write")
  /\ UNCHANGED <<object, rank, order, map, symtab, locals, strtab, shstrtab,
                 headers, output>>

WriteFile ==
  /\ pc = "write"
  /\ output' = "written"
  /\ Goto("done")
  /\ UNCHANGED <<object, rank, order, map, symtab, locals, strtab, shstrtab,
                 headers, buffer, shoff>>

(* fopen fails, fwrite comes up short, or fclose loses the last bytes      *)
(* without anybody noticing.                                               *)
WriteFails ==
  /\ pc = "write"
  /\ \/ output' \in {"untouched", "partial"} /\ Goto("failed")
     \/ output' = "partial" /\ Goto("done")
  /\ UNCHANGED <<object, rank, order, map, symtab, locals, strtab, shstrtab,
                 headers, buffer, shoff>>

(* Tables and buffers are allocated all the way to the headers, but not    *)
(* while the symbols are collected and sorted.                             *)
OutOfMemory ==
  /\ pc \notin {"sort", "write", "done", "failed"}
  /\ pc = "collect" => k = 1
  /\ Fail

Terminated ==
  /\ pc \in {"done", "failed"}
  /\ UNCHANGED vars

Progress ==
  \/ Collect \/ EndCollect \/ Swap \/ InPlace \/ EndSort \/ AddSymbol \/ PutIdent
  \/ PutSection \/ EndSections \/ SkipSection \/ PutRelas \/ RejectHidden
  \/ PutSymtab \/ PutStrtab \/ PutShstrtab \/ PutHeaders \/ WriteFile

Next == Progress \/ WriteFails \/ OutOfMemory \/ Terminated

Spec == Init /\ [][Next]_vars

(* A sequential function that nothing blocks keeps going.                  *)
FairSpec == Spec /\ WF_vars(Progress)

-----------------------------------------------------------------------------
(* Reading the file back, as a linker does: from the header table at       *)
(* e_shoff through offsets, indices and name offsets, knowing nothing of   *)
(* the tables in memory.  Each step yields the set of what lies there.     *)

Holding(at, is) ==
  {p.holds : p \in {q \in {buffer.pieces[i] : i \in DOMAIN buffer.pieces} :
                      q.at = at /\ q.holds.is = is}}

HeaderAt(i) == Holding(shoff + SectionHeaderSize * i, "header")

HeaderNumbers == UNION {0 .. e.shnum - 1 : e \in Holding(0, "ident")}

StringsAt(table, name) ==
  {s.name : s \in UNION {Holding(h.offset + name, "string") :
                           h \in HeaderAt(table)}}

SectionNames(h) ==
  UNION {StringsAt(e.shstrndx, h.name) : e \in Holding(0, "ident")}

HasData(i, h) ==
  \/ h.size = 0
  \/ \E p \in DOMAIN buffer.pieces :
       buffer.pieces[p] = [at |-> h.offset, size |-> h.size,
                           holds |-> [is |-> "data", index |-> i]]

ReadSections ==
  UNION {UNION {{[index |-> i, name |-> n, size |-> h.size] :
                   n \in SectionNames(h)} :
                h \in {g \in HeaderAt(i) : g.type = "PROGBITS" /\ HasData(i, g)}} :
         i \in HeaderNumbers}

HeadersOf(type) ==
  {h \in UNION {HeaderAt(i) : i \in HeaderNumbers} : h.type = type}

(* Entry i of the symbol table, with its name and a section to count from. *)
ReadSymbol(i) ==
  UNION {UNION {{[name     |-> n,
                  exported |-> e.binding = "global",
                  section  |-> e.shndx,
                  value    |-> e.value] : n \in StringsAt(h.link, e.name)} :
                e \in {x \in Holding(h.offset + RecordSize * i, "symbol") :
                         x.shndx < LoReserve}} :
         h \in HeadersOf("SYMTAB")}

ReadSymbols ==
  UNION {UNION {ReadSymbol(i) : i \in 1 .. (h.size \div RecordSize) - 1} :
         h \in HeadersOf("SYMTAB")}

(* A linker knows the architecture from the ELF header.                    *)
KindOfType(type) ==
  CHOOSE kind \in DOMAIN RelocationTypes[object.arch] :
    RelocationType(kind) = type

(* Symbols are looked up in the one symbol table, as linkers do: the link  *)
(* of a relocation section is not the symbol table here (see PutRelas).    *)
ReadRelocations ==
  UNION {UNION {UNION {{[section |-> h.info, offset |-> e.offset,
                         kind |-> KindOfType(e.type), name |-> s.name] :
                          s \in ReadSymbol(e.symbol)} :
                       e \in Holding(h.offset + RecordSize * r, "rela")} :
                r \in 0 .. (h.size \div RecordSize) - 1} :
         h \in HeadersOf("RELA")}

ReadBack ==
  [sections |-> ReadSections, symbols |-> ReadSymbols,
   relocations |-> ReadRelocations]

-----------------------------------------------------------------------------
(* Properties.                                                             *)

(* What the format's fields can tell apart: section numbers of 16 bits,    *)
(* below the reserved ones, and symbol numbers and offsets of names of 32  *)
(* bits.  The writer cuts what is beyond and says nothing.                 *)
SymbolsCount == Len(order) + 1 < WordSpan

FieldsFit ==
  /\ Total < LoReserve
  /\ SymbolsCount
  /\ strtab.length <= WordSpan
  /\ shstrtab.length <= WordSpan

TypeOK ==
  /\ pc \in {"collect", "sort", "symbols", "sections", "relas", "strtab",
             "shstrtab", "headers", "write", "done", "failed"}
  /\ k \in Nat \ {0}
  /\ rank \in Nat
  /\ order \in Seq(DOMAIN Symbols)
  /\ map \in [DOMAIN Symbols -> (0 .. Len(order)) \cup {Unmapped}]
  /\ locals \in 1 .. Len(symtab) + 1
  /\ DOMAIN headers = 0 .. Total - 1
  /\ shoff \in Nat
  /\ output \in {"untouched", "partial", "written"}

(* What the sort leaves is the visible symbols with the locals in front,   *)
(* both halves in object order, and sh_info of the symbol table names the  *)
(* first entry that is not local: linkers take every entry below it as     *)
(* local and every other as global.  (Of a table of 2^32 symbols sh_info   *)
(* cannot count them.)                                                     *)
LocalsPrecedeGlobals ==
  /\ pc \notin {"collect", "sort", "failed"} =>
       \A p, q \in DOMAIN order :
         p < q => \/ Rank(Symbols[order[p]]) < Rank(Symbols[order[q]])
                  \/ /\ Rank(Symbols[order[p]]) = Rank(Symbols[order[q]])
                     /\ order[p] < order[q]
  /\ pc \in {"strtab", "shstrtab", "headers", "write", "done"}
       /\ SymbolsCount =>
       \A p \in DOMAIN symtab :
         symtab[p].binding = "local" <=> p < headers[SymtabIndex].info

(* The length never passes the capacity, although PutRelas moves it        *)
(* without asking for room: a later append reserves from the length and    *)
(* the file is written up to it, so bytes beyond the capacity would be     *)
(* bytes of somebody else.                                                 *)
BufferInBounds ==
  \A b \in {buffer, strtab, shstrtab} : b.length <= b.capacity

(* The pieces in [offset, offset + size) follow each other without a gap   *)
(* from its first to its last byte.                                        *)
Covered(offset, size) ==
  LET end    == offset + size
      pieces == {p \in {buffer.pieces[i] : i \in DOMAIN buffer.pieces} :
                   p.size > 0 /\ p.at >= offset /\ p.at < end}
  IN  /\ size > 0 => \E p \in pieces : p.at = offset
      /\ \A p \in pieces :
           \/ p.at + p.size = end
           \/ p.at + p.size < end /\ \E q \in pieces : q.at = p.at + p.size

(* Every section of the finished file starts at a multiple of its          *)
(* alignment, lies before the header table, holds only bytes that were     *)
(* written (never the ones the length skipped) and shares none with        *)
(* another section.                                                        *)
SectionsLaidOut ==
  pc \in {"write", "done"} =>
    \A i \in 1 .. Total - 1 :
      LET h == headers[i]
      IN  /\ h.align # 0 => h.offset % h.align = 0
          /\ ElfHeaderSize <= h.offset
          /\ h.offset + h.size <= shoff
          /\ Covered(h.offset, h.size)
          /\ \A j \in 1 .. i - 1 :
               \/ h.offset + h.size <= headers[j].offset
               \/ headers[j].offset + headers[j].size <= h.offset

(* The writer implements the contract of an object file: what a linker     *)
(* reads from the finished file is the object, if its numbers fit the      *)
(* fields, and a run that cannot finish, or has to refuse a relocation,    *)
(* leaves the output as it was.  Relocations are resolved in the one       *)
(* symbol table: their sections' sh_link says the string table, so this    *)
(* says nothing of a reader that follows it.                               *)
Result ==
  CASE pc = "done" /\ FieldsFit  -> "ok"
    [] pc = "done" /\ ~FieldsFit -> "unfit"
    [] pc = "failed"             -> "failed"
    [] OTHER                     -> "running"

Contract ==
  INSTANCE ObjectFile WITH
    result <- Result,
    file   <- IF output = "written" THEN {ReadBack} ELSE {}

ImplementsObjectFile == Contract!Spec

(* The writer ends: the insertion sort and every loop run out.             *)
Terminates == <>(pc \in {"done", "failed"})
=============================================================================
