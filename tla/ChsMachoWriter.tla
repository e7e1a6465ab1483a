---------------------------- MODULE ChsMachoWriter ---------------------------
(***************************************************************************)
(* chs_write_macho_object (src/format_macho.c), step by step.  The writer  *)
(* computes every file offset first, writes header and load commands that  *)
(* promise them, and then appends section data, relocations, symbols and   *)
(* names, trusting that they land where the commands say.                  *)
(*                                                                         *)
(* Sizes and places are the real ones; bytes are the pieces of ChsBuffer.  *)
(* Numbers are cut to the width of the field or the variable they are put  *)
(* in, as the code does without a word.  Segment names, addresses,         *)
(* flags, the CPU type and versions are left out.                          *)
(***************************************************************************)
EXTENDS ChsBuffer

CONSTANTS
  Objects,          \* the objects the assembler hands over
  Hidden,           \* names that start with "L"
  NameSize(_),      \* strlen + 1
  FixedName(_),     \* the 16 bytes that are kept of a section's name
  WordSpan,         \* how many values a uint32_t has
  SectionSpan,      \* 2^8: section ordinals are kept in a byte
  SymbolSpan        \* 2^24: symbol numbers are kept in 24 bits

RelocationTypes ==
  [arm64  |-> [ABS64 |-> 0, BRANCH26 |-> 2, PAGE21 |-> 3, PAGEOFF12 |-> 4],
   x86_64 |-> [ABS32 |-> 0, ABS64 |-> 0, SIGNED32 |-> 1, BRANCH32 |-> 2],
   bslash |-> [ABS8 |-> 0, ABS16 |-> 1, ABS32 |-> 2, ABS64 |-> 3, REL8 |-> 4,
               REL32 |-> 5]]

(* What the assembler hands over (ChsObject): every relocation is of a     *)
(* kind of its architecture and has its symbol; indices count from one.    *)
SymbolOf(o) ==
  [name : STRING, defined : BOOLEAN, global : BOOLEAN, external : BOOLEAN,
   section : 0 .. Len(o.sections), value : Nat]

RelocationOf(o) ==
  [offset : Nat, kind : DOMAIN RelocationTypes[o.arch],
   symbol : DOMAIN o.symbols]

SectionOf(o) ==
  [name : STRING, align : Nat, size : Nat,
   relocations : Seq(RelocationOf(o))]

ASSUME ObjectsAssumption ==
  \A o \in Objects :
    /\ o.arch \in DOMAIN RelocationTypes
    /\ o.sections \in Seq(SectionOf(o))
    /\ o.symbols \in Seq(SymbolOf(o))
    /\ \A i \in DOMAIN o.sections : \A r \in DOMAIN o.sections[i].relocations :
         o.sections[i].relocations[r].offset < o.sections[i].size
    /\ \A i \in DOMAIN o.symbols : NameSize(o.symbols[i].name) \in Nat \ {0}

(* A name of up to 16 bytes is kept as it is.                              *)
ASSUME NamesAssumption ==
  \A o \in Objects : \A i \in DOMAIN o.sections :
    LET name == o.sections[i].name
    IN  NameSize(name) <= 17 => FixedName(name) = name

ASSUME WidthAssumption ==
  WordSpan \in Nat \ {0} /\ SectionSpan \in Nat \ {0} /\ SymbolSpan \in Nat \ {0}

VARIABLES
  object,      \* the object being written
  pc,          \* the step the writer is at
  k,           \* the loop index of that step
  order,       \* sort_entries: visible symbols, in file order
  map,         \* symbol_index_map
  symbols,     \* the symbol table
  counts,      \* local_count, extdef_count and undef_count
  strings,     \* string_table
  buffer,      \* the file in memory
  output       \* what became of the output file

vars == <<object, pc, k, order, map, symbols, counts, strings, buffer, output>>

-----------------------------------------------------------------------------
uint32(n) == n % WordSpan

Unmapped == WordSpan - 1    \* UINT32_MAX

Sections == object.sections
Symbols  == object.symbols

HideSymbol(s) == s.name \in Hidden

Rank(s) ==
  IF ~s.defined THEN 2 ELSE IF s.global \/ s.external THEN 1 ELSE 0

RankAt(p) == Rank(Symbols[order[p]])

(* The power of two that is not below the alignment, up to 2^15.           *)
Log2Align(alignment) ==
  LET enough == {p \in 0 .. 15 : 2 ^ p >= alignment}
  IN  IF enough = {} THEN 15
      ELSE CHOOSE p \in enough : \A q \in enough : p <= q

RelocationType(kind) == RelocationTypes[object.arch][kind]

(* log2 of the bytes a relocation patches.                                 *)
RelocationWidth(kind) ==
  IF kind \in {"ABS8", "REL8"} THEN 0
  ELSE IF kind = "ABS16" THEN 1
  ELSE IF kind = "ABS64" THEN 3 ELSE 2

-----------------------------------------------------------------------------
(* The layout, computed before anything is written.                        *)

HeaderSize     == 32
SegmentSize    == 72
SectionSize    == 80
SymtabSize     == 24
DysymtabSize   == 80
BuildSize      == IF object.build THEN 24 ELSE 0
RelocationSize == 8
SymbolSize     == 16

Bytes == [i \in DOMAIN Sections |-> Sections[i].size]

RelocationBytes ==
  [i \in DOMAIN Sections |-> RelocationSize * Len(Sections[i].relocations)]

(* The bytes of the sections up to number n.                               *)
SumTo(n, bytes) ==
  LET sum[i \in 0 .. n] == IF i = 0 THEN 0 ELSE sum[i - 1] + bytes[i]
  IN  sum[n]

CommandsSize ==
  SegmentSize + SectionSize * Len(Sections) + SymtabSize + DysymtabSize
    + BuildSize

(* Where the four parts of the file start, and how long it gets.           *)
DataPlace       == HeaderSize + CommandsSize
RelocationPlace == DataPlace + SumTo(Len(Sections), Bytes)
SymbolPlace     == RelocationPlace + SumTo(Len(Sections), RelocationBytes)
StringPlace     == SymbolPlace + SymbolSize * Len(order)
FileSize        == StringPlace + strings.length

(* Wrong variant: the commands without the build version.                  *)
DataOffsetUnversioned(i) ==
  uint32(DataPlace - BuildSize + SumTo(i - 1, Bytes))

(* What the load commands say: sums of uint32_t.  (Cutting every summand   *)
(* and every sum is cutting the whole.)                                    *)
DataOffset(i)       == uint32(DataPlace + SumTo(i - 1, Bytes))
RelocationOffset(i) == uint32(RelocationPlace + SumTo(i - 1, RelocationBytes))
SymbolOffset        == uint32(SymbolPlace)
StringOffset        == uint32(StringPlace)

-----------------------------------------------------------------------------
Init ==
  /\ object \in Objects
  /\ pc = "collect"
  /\ k = 1
  /\ order = << >>
  /\ map = [i \in DOMAIN Symbols |-> Unmapped]
  /\ symbols = << >>
  /\ counts = [local |-> 0, extdef |-> 0, undef |-> 0]
  /\ strings = EmptyBuffer
  /\ buffer = EmptyBuffer
  /\ output = "untouched"

Goto(step) == pc' = step /\ k' = 1

Advance == k' = k + 1 /\ UNCHANGED pc

Collect ==
  /\ pc = "collect"
  /\ k <= Len(Symbols)
  /\ order' = IF HideSymbol(Symbols[k]) THEN order ELSE Append(order, k)
  /\ Advance
  /\ UNCHANGED <<object, map, symbols, counts, strings, buffer, output>>

EndCollect ==
  /\ pc = "collect"
  /\ k > Len(Symbols)
  /\ Goto("sort")
  /\ UNCHANGED <<object, order, map, symbols, counts, strings, buffer, output>>

(* Where the insertion sort puts entry k: before the run of entries of     *)
(* higher rank that ends at k - 1.                                         *)
PlaceOf(p) ==
  CHOOSE q \in 1 .. p :
    /\ \A r \in q .. p - 1 : RankAt(r) > RankAt(p)
    /\ q > 1 => RankAt(q - 1) <= RankAt(p)

Insert ==
  /\ pc = "sort"
  /\ k <= Len(order)
  /\ LET q == PlaceOf(k)
     IN  order' = [p \in DOMAIN order |->
                     IF p = q THEN order[k]
                     ELSE IF p \in q + 1 .. k THEN order[p - 1] ELSE order[p]]
  /\ Advance
  /\ UNCHANGED <<object, map, symbols, counts, strings, buffer, output>>

(* The string table starts with a zero byte.                               *)
EndSort ==
  /\ pc = "sort"
  /\ k > Len(order)
  /\ HasRoom(strings, 1)
  /\ strings' = Put(strings, Zeros, 1)
  /\ Goto("symbols")
  /\ UNCHANGED <<object, order, map, symbols, counts, buffer, output>>

(* In the model as in the file sections are counted from one.              *)
SectionNumber(s) == s.section % SectionSpan

Entry(s) ==
  [is      |-> "symbol",
   name    |-> uint32(strings.length),
   type    |-> IF ~s.defined THEN "undf ext"
               ELSE IF s.global \/ s.external THEN "sect ext" ELSE "sect",
   section |-> IF s.defined THEN SectionNumber(s) ELSE 0,
   value   |-> IF s.defined THEN s.value ELSE 0]

(* Wrong variant: external symbols are not told apart.                     *)
CountedByDefinition(s) ==
  IF s.defined THEN [counts EXCEPT !.local = @ + 1]
  ELSE [counts EXCEPT !.undef = @ + 1]

Counted(s) ==
  IF ~s.defined THEN [counts EXCEPT !.undef = @ + 1]
  ELSE IF s.global \/ s.external THEN [counts EXCEPT !.extdef = @ + 1]
  ELSE [counts EXCEPT !.local = @ + 1]

(* Indices count from zero, and there is no null symbol.                   *)
AddSymbol ==
  /\ pc = "symbols"
  /\ k <= Len(order)
  /\ LET s == Symbols[order[k]]
     IN  /\ HasRoom(strings, NameSize(s.name))
         /\ map' = [map EXCEPT ![order[k]] = uint32(k - 1)]
         /\ symbols' = Append(symbols, Entry(s))
         /\ strings' = Put(strings, [is |-> "string", name |-> s.name],
                           NameSize(s.name))
         /\ counts' = Counted(s)
  /\ Advance
  /\ UNCHANGED <<object, order, buffer, output>>

-----------------------------------------------------------------------------
(* Header and load commands.                                               *)

(* The header and the segment command, without its sections.               *)
PutHeader ==
  /\ pc = "symbols"
  /\ k > Len(order)
  /\ HasRoom(buffer, HeaderSize + SegmentSize)
  /\ buffer' = Put(Put(buffer,
                       [is |-> "mach", sizeofcmds |-> uint32(CommandsSize)],
                       HeaderSize),
                   [is |-> "segment", nsects |-> uint32(Len(Sections))],
                   SegmentSize)
  /\ Goto("sections")
  /\ UNCHANGED <<object, order, map, symbols, counts, strings, output>>

(* The data and relocation offsets run along with the sections.            *)
SectionHeader(i) ==
  [is     |-> "section",
   name   |-> FixedName(Sections[i].name),
   size   |-> Sections[i].size,
   offset |-> DataOffset(i),
   align  |-> Log2Align(Sections[i].align),
   reloff |-> RelocationOffset(i),
   nreloc |-> uint32(Len(Sections[i].relocations))]

PutSectionHeader ==
  /\ pc = "sections"
  /\ k <= Len(Sections)
  /\ HasRoom(buffer, SectionSize)
  /\ buffer' = Put(buffer, SectionHeader(k), SectionSize)
  /\ Advance
  /\ UNCHANGED <<object, order, map, symbols, counts, strings, output>>

Symtab ==
  [is |-> "symtab", symoff |-> SymbolOffset, nsyms |-> uint32(Len(order)),
   stroff |-> StringOffset, strsize |-> uint32(strings.length)]

Dysymtab ==
  [is |-> "dysymtab", ilocalsym |-> 0, nlocalsym |-> uint32(counts.local),
   iextdefsym |-> uint32(counts.local), nextdefsym |-> uint32(counts.extdef),
   iundefsym |-> uint32(counts.local + counts.extdef),
   nundefsym |-> uint32(counts.undef)]

PutTables ==
  /\ pc = "sections"
  /\ k > Len(Sections)
  /\ HasRoom(buffer, SymtabSize + DysymtabSize)
  /\ buffer' = Put(Put(buffer, Symtab, SymtabSize), Dysymtab, DysymtabSize)
  /\ Goto(IF object.build THEN "build" ELSE "data")
  /\ UNCHANGED <<object, order, map, symbols, counts, strings, output>>

PutBuildVersion ==
  /\ pc = "build"
  /\ HasRoom(buffer, BuildSize)
  /\ buffer' = Put(buffer, [is |-> "build"], BuildSize)
  /\ Goto("data")
  /\ UNCHANGED <<object, order, map, symbols, counts, strings, output>>

-----------------------------------------------------------------------------
(* What the commands announced.                                            *)

PutData ==
  /\ pc = "data"
  /\ k <= Len(Sections)
  /\ HasRoom(buffer, Sections[k].size)
  /\ buffer' = Put(buffer, [is |-> "data", index |-> k], Sections[k].size)
  /\ Advance
  /\ UNCHANGED <<object, order, map, symbols, counts, strings, output>>

EndData ==
  /\ pc = "data"
  /\ k > Len(Sections)
  /\ Goto("relocations")
  /\ UNCHANGED <<object, order, map, symbols, counts, strings, buffer, output>>

(* Wrong variant: the symbol's index in the object.                        *)
ObjectIndex(rel) == (rel.symbol - 1) % SymbolSpan

SymbolNumber(rel) == map[rel.symbol] % SymbolSpan

Packed(rel) ==
  [is |-> "relocation", offset |-> uint32(rel.offset),
   symbol |-> SymbolNumber(rel), length |-> RelocationWidth(rel.kind),
   type |-> RelocationType(rel.kind)]

RefersToHidden(section) ==
  \E r \in DOMAIN section.relocations :
    map[section.relocations[r].symbol] = Unmapped

PutRelocations ==
  /\ pc = "relocations"
  /\ k <= Len(Sections)
  /\ ~RefersToHidden(Sections[k])
  /\ HasRoom(buffer, RelocationBytes[k])
  /\ buffer' = PutAll(buffer,
                      [r \in DOMAIN Sections[k].relocations |->
                         Packed(Sections[k].relocations[r])],
                      RelocationSize)
  /\ Advance
  /\ UNCHANGED <<object, order, map, symbols, counts, strings, output>>

Fail ==
  /\ pc' = "failed"
  /\ UNCHANGED <<object, k, order, map, symbols, counts, strings, buffer,
                 output>>

RejectHidden ==
  /\ pc = "relocations"
  /\ k <= Len(Sections)
  /\ RefersToHidden(Sections[k])
  /\ Fail

PutSymbols ==
  /\ pc = "relocations"
  /\ k > Len(Sections)
  /\ HasRoom(buffer, SymbolSize * Len(symbols))
  /\ buffer' = PutAll(buffer, symbols, SymbolSize)
  /\ Goto("strings")
  /\ UNCHANGED <<object, order, map, symbols, counts, strings, output>>

PutStrings ==
  /\ pc = "strings"
  /\ HasRoom(buffer, strings.length)
  /\ buffer' = PutCopy(buffer, strings)
  /\ Goto("write")
  /\ UNCHANGED <<object, order, map, symbols, counts, strings, output>>

WriteFile ==
  /\ pc = "write"
  /\ output' = "written"
  /\ Goto("done")
  /\ UNCHANGED <<object, order, map, symbols, counts, strings, buffer>>

(* fopen fails, fwrite comes up short, or fclose loses the last bytes      *)
(* without anybody noticing.                                               *)
WriteFails ==
  /\ pc = "write"
  /\ \/ output' \in {"untouched", "partial"} /\ Goto("failed")
     \/ output' = "partial" /\ Goto("done")
  /\ UNCHANGED <<object, order, map, symbols, counts, strings, buffer>>

(* Tables and buffers are allocated all the way, but not while the symbols *)
(* are collected and sorted.                                               *)
OutOfMemory ==
  /\ pc \notin {"write", "done", "failed"}
  /\ pc = "collect" => k = 1
  /\ pc = "sort" => k > Len(order)
  /\ Fail

Terminated ==
  /\ pc \in {"done", "failed"}
  /\ UNCHANGED vars

Next ==
  \/ Collect \/ EndCollect \/ Insert \/ EndSort \/ AddSymbol \/ PutHeader
  \/ PutSectionHeader \/ PutTables \/ PutBuildVersion \/ PutData \/ EndData
  \/ PutRelocations \/ RejectHidden \/ PutSymbols \/ PutStrings \/ WriteFile
  \/ WriteFails \/ OutOfMemory \/ Terminated

Spec == Init /\ [][Next]_vars

-----------------------------------------------------------------------------
(* Reading the file back, as a linker does: from the load commands through *)
(* the offsets and indices they promise.                                   *)

Holding(at, is) ==
  {p.holds : p \in {q \in {buffer.pieces[i] : i \in DOMAIN buffer.pieces} :
                      q.at = at /\ q.holds.is = is}}

Segments == Holding(HeaderSize, "segment")

SectionHeaders ==
  UNION {UNION {{[index |-> i, header |-> h] :
                   h \in Holding(HeaderSize + SegmentSize
                                   + SectionSize * (i - 1), "section")} :
                i \in 1 .. g.nsects} : g \in Segments}

TableAt(is, distance) ==
  UNION {Holding(HeaderSize + SegmentSize + SectionSize * g.nsects + distance,
                 is) : g \in Segments}

SymtabsRead   == TableAt("symtab", 0)
DysymtabsRead == TableAt("dysymtab", SymtabSize)

HasData(i, h) ==
  \/ h.size = 0
  \/ \E p \in DOMAIN buffer.pieces :
       buffer.pieces[p] = [at |-> h.offset, size |-> h.size,
                           holds |-> [is |-> "data", index |-> i]]

ReadSections ==
  {[index |-> s.index, name |-> s.header.name, size |-> s.header.size] :
     s \in {t \in SectionHeaders : HasData(t.index, t.header)}}

(* Entry i of the symbol table, with its name.                             *)
ReadSymbol(i) ==
  UNION {UNION {{[name     |-> n.name,
                  exported |-> e.type # "sect",
                  section  |-> e.section,
                  value    |-> e.value] :
                   n \in Holding(t.stroff + e.name, "string")} :
                e \in Holding(t.symoff + SymbolSize * i, "symbol")} :
         t \in SymtabsRead}

ReadSymbols ==
  UNION {UNION {ReadSymbol(i) : i \in 0 .. t.nsyms - 1} : t \in SymtabsRead}

KindOf(entry) ==
  CHOOSE kind \in DOMAIN RelocationTypes[object.arch] :
    /\ RelocationType(kind) = entry.type
    /\ RelocationWidth(kind) = entry.length

ReadRelocations ==
  UNION {UNION {UNION {{[section |-> s.index, offset |-> e.offset,
                         kind |-> KindOf(e), name |-> n.name] :
                          n \in ReadSymbol(e.symbol)} :
                       e \in Holding(s.header.reloff + RelocationSize * r,
                                     "relocation")} :
                r \in 0 .. s.header.nreloc - 1} :
         s \in SectionHeaders}

ReadBack ==
  [sections |-> ReadSections, symbols |-> ReadSymbols,
   relocations |-> ReadRelocations]

-----------------------------------------------------------------------------
(* Properties.                                                             *)

(* What the format's fields can tell apart: a file of less than 4 GiB,     *)
(* section ordinals of 8 bits, symbol numbers of 24 bits and section names *)
(* of 16 bytes.  The writer cuts what is beyond and says nothing.          *)
OffsetsFit == FileSize < WordSpan

FieldsFit ==
  /\ OffsetsFit
  /\ Len(Sections) < SectionSpan
  /\ Len(order) <= SymbolSpan
  /\ \A i \in DOMAIN Sections : NameSize(Sections[i].name) <= 17

TypeOK ==
  /\ pc \in {"collect", "sort", "symbols", "sections", "build", "data",
             "relocations", "strings", "write", "done", "failed"}
  /\ k \in Nat \ {0}
  /\ order \in Seq(DOMAIN Symbols)
  /\ map \in [DOMAIN Symbols -> 0 .. WordSpan - 1]
  /\ Len(symbols) <= Len(order)
  /\ counts \in [local : Nat, extdef : Nat, undef : Nat]
  /\ buffer.length <= buffer.capacity /\ strings.length <= strings.capacity
  /\ output \in {"untouched", "partial", "written"}

(* The three ranges that LC_DYSYMTAB announces follow each other without a *)
(* gap, end with the table, and every entry of the finished file lies in   *)
(* the range of its own type: the ranges are computed from counts, the     *)
(* entries from the sort.  (Behind 4 GiB the table is not found.)          *)
RangesCounted ==
  pc = "done" /\ OffsetsFit =>
    \A t \in SymtabsRead, d \in DysymtabsRead :
      /\ d.ilocalsym + d.nlocalsym = d.iextdefsym
      /\ d.iextdefsym + d.nextdefsym = d.iundefsym
      /\ d.iundefsym + d.nundefsym = t.nsyms
      /\ \A i \in 0 .. t.nsyms - 1 :
           \A e \in Holding(t.symoff + SymbolSize * i, "symbol") :
             e.type = IF i < d.iextdefsym THEN "sect"
                      ELSE IF i < d.iundefsym THEN "sect ext" ELSE "undf ext"

(* When the writer gets to the data, the relocations, the symbols and the  *)
(* names, the file is as long as the commands already in it say, if it     *)
(* stays below 4 GiB: nothing between the computed offsets and the         *)
(* appended bytes is missing, or counted that is not written.  Of a longer *)
(* file the offsets are right in their 32 bits.                            *)
PromisesKept ==
  LET says(offset) == /\ uint32(buffer.length) = offset
                      /\ OffsetsFit => buffer.length = offset
  IN  /\ pc = "data" => says(DataOffset(k))
      /\ pc = "relocations" => says(RelocationOffset(k))
      /\ pc = "strings" => says(StringOffset)
      /\ pc \in {"write", "done"} => buffer.length = FileSize

(* The writer implements the contract of an object file: what a linker     *)
(* reads from the finished file is the object, if its numbers fit the      *)
(* fields, and a run that cannot finish, or has to refuse a relocation,    *)
(* leaves the output as it was.                                            *)
Result ==
  CASE pc = "done" /\ FieldsFit  -> "ok"
    [] pc = "done" /\ ~FieldsFit -> "unfit"
    [] pc = "failed"             -> "failed"
    [] OTHER                     -> "running"

Contract ==
  INSTANCE ObjectFile WITH
    result <- Result,
    file   <- IF output = "written" THEN {ReadBack} ELSE {}

ImplementsObjectFile == Contract!Spec
=============================================================================
