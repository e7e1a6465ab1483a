-------------------------- MODULE ChsAssembler_proofs -------------------------
(***************************************************************************)
(* The invariants of ChsAssembler hold of every source file and of both    *)
(* architectures.                                                          *)
(*                                                                         *)
(* IInv is inductive.  Pass one is treated once for all of its actions:    *)
(* PassOneEffect says what any step of it may do to the object, each       *)
(* action is shown to have that effect, and the effect to preserve IInv.   *)
(*                                                                         *)
(* The second half shows that the two passes implement AssemblerContract.  *)
(* AInv adds to IInv what the tables mean: the object built from the       *)
(* statements read so far is the one the contract reads off the source.    *)
(*                                                                         *)
(* The last part is about the encodings the assembler copies: what         *)
(* IsSource assumes of an x86_64 one is true of what X86Encoder accepts.   *)
(***************************************************************************)
EXTENDS ChsAssembler, ChsLemmas

-----------------------------------------------------------------------------
(* What the operators of ChsObject return and preserve.                    *)

(* In a table without duplicate names, Find returns the entry of that name *)
(* or, when there is none, None.                                           *)
LEMMA FindFacts ==
  ASSUME NEW T, NEW table \in Seq(T), UniqueNames(table), NEW name
  PROVE  \/ /\ Find(table, name) = None
            /\ \A j \in DOMAIN table : table[j].name # name
         \/ /\ Find(table, name) \in DOMAIN table
            /\ table[Find(table, name)].name = name
<1>1. DOMAIN table = 1 .. Len(table) /\ Len(table) \in Nat
  OBVIOUS
<1>2. CASE \E i \in DOMAIN table : table[i].name = name
  <2>1. PICK i \in DOMAIN table : table[i].name = name
    BY <1>2
  <2>2. \A j \in 1 .. i - 1 : table[j].name # name
    BY <1>1, <2>1 DEF UniqueNames
  <2>3. QED
    BY <1>2, <2>1, <2>2 DEF Find
<1>3. CASE ~\E i \in DOMAIN table : table[i].name = name
  BY <1>3 DEF Find
<1>4. QED
  BY <1>2, <1>3

(* The symbol table after a mention of a name: well formed, still without  *)
(* duplicates, an extension of the old one, and the index is the name's.   *)
LEMMA GetOrCreateSymbolFacts ==
  ASSUME NEW table \in Seq(Symbol), UniqueNames(table), NEW name \in Names
  PROVE  LET got == GetOrCreateSymbol(table, name)
         IN  /\ got.table \in Seq(Symbol)
             /\ UniqueNames(got.table)
             /\ got.index \in 1 .. Len(got.table)
             /\ got.table[got.index].name = name
             /\ Len(table) <= Len(got.table)
             /\ Len(got.table) <= Len(table) + 1
             /\ \A i \in 1 .. Len(table) : got.table[i] = table[i]
             /\ \A i \in 1 .. Len(got.table) :
                  i > Len(table) => got.table[i] = NewSymbol(name)
<1>1. NewSymbol(name) \in Symbol /\ NewSymbol(name).name = name
  BY DEF NewSymbol, Symbol, None
<1>2. CASE Find(table, name) # None
  <2>1. /\ Find(table, name) \in DOMAIN table
        /\ table[Find(table, name)].name = name
    BY <1>2, FindFacts
  <2>2. GetOrCreateSymbol(table, name)
          = [table |-> table, index |-> Find(table, name)]
    BY <1>2 DEF GetOrCreateSymbol
  <2>3. QED
    BY <2>1, <2>2
<1>3. CASE Find(table, name) = None
  <2>1. \A j \in DOMAIN table : table[j].name # name
    BY <1>3, FindFacts DEF None
  <2>2. GetOrCreateSymbol(table, name)
          = [table |-> Append(table, NewSymbol(name)),
             index |-> Len(table) + 1]
    BY <1>3 DEF GetOrCreateSymbol
  <2> DEFINE new == Append(table, NewSymbol(name))
  <2>3. /\ new \in Seq(Symbol)
        /\ Len(new) = Len(table) + 1
        /\ \A i \in 1 .. Len(table) : new[i] = table[i]
        /\ new[Len(table) + 1] = NewSymbol(name)
    BY <1>1
  <2>4. UniqueNames(new)
    BY <1>1, <2>1, <2>3 DEF UniqueNames
  <2> HIDE DEF new
  <2>5. QED
    BY <1>1, <2>2, <2>3, <2>4 DEF new
<1>4. QED
  BY <1>2, <1>3

(* The same for the section table: an active section is always a valid one.*)
LEMMA GetOrCreateSectionFacts ==
  ASSUME NEW table \in Seq(Section), UniqueNames(table),
         NEW name \in SectionNames
  PROVE  LET got == GetOrCreateSection(table, name)
         IN  /\ got.table \in Seq(Section)
             /\ UniqueNames(got.table)
             /\ got.index \in 1 .. Len(got.table)
             /\ Len(table) <= Len(got.table)
             /\ \A i \in 1 .. Len(table) : got.table[i] = table[i]
             /\ \A i \in 1 .. Len(got.table) :
                  i > Len(table) =>
                    /\ got.table[i].data = << >>
                    /\ got.table[i].relocations = << >>
<1>1. /\ NewSection(name) \in Section
      /\ NewSection(name).name = name
      /\ NewSection(name).data = << >>
      /\ NewSection(name).relocations = << >>
  BY DEF NewSection, Section
<1>2. CASE Find(table, name) # None
  <2>1. Find(table, name) \in DOMAIN table
    BY <1>2, FindFacts
  <2>2. GetOrCreateSection(table, name)
          = [table |-> table, index |-> Find(table, name)]
    BY <1>2 DEF GetOrCreateSection
  <2>3. QED
    BY <2>1, <2>2
<1>3. CASE Find(table, name) = None
  <2>1. \A j \in DOMAIN table : table[j].name # name
    BY <1>3, FindFacts DEF None
  <2>2. GetOrCreateSection(table, name)
          = [table |-> Append(table, NewSection(name)),
             index |-> Len(table) + 1]
    BY <1>3 DEF GetOrCreateSection
  <2> DEFINE new == Append(table, NewSection(name))
  <2>3. /\ new \in Seq(Section)
        /\ Len(new) = Len(table) + 1
        /\ \A i \in 1 .. Len(table) : new[i] = table[i]
        /\ new[Len(table) + 1] = NewSection(name)
    BY <1>1
  <2>4. UniqueNames(new)
    BY <1>1, <2>1, <2>3 DEF UniqueNames
  <2> HIDE DEF new
  <2>5. QED
    BY <1>1, <2>2, <2>3, <2>4 DEF new
<1>4. QED
  BY <1>2, <1>3

(* Growing a section keeps the bytes it has and adds n copies of b.        *)
LEMMA ExtendedFacts ==
  ASSUME NEW data \in Seq(Byte), NEW n \in Nat, NEW b \in Byte
  PROVE  /\ Extended(data, n, b) \in Seq(Byte)
         /\ Len(Extended(data, n, b)) = Len(data) + n
         /\ \A i \in 1 .. Len(data) + n :
              Extended(data, n, b)[i] = IF i <= Len(data) THEN data[i] ELSE b
<1>1. Len(data) \in Nat /\ \A i \in 1 .. Len(data) : data[i] \in Byte
  OBVIOUS
<1>2. \A i \in 1 .. Len(data) + n :
        (IF i <= Len(data) THEN data[i] ELSE b) \in Byte
  BY <1>1
<1>3. Extended(data, n, b) \in [1 .. Len(data) + n -> Byte]
  BY <1>2 DEF Extended
<1>4. Len(data) + n \in Nat
  BY <1>1
<1>5. Extended(data, n, b) \in Seq(Byte)
  BY <1>3, <1>4, SeqDef
<1>6. QED
  BY <1>3, <1>4, <1>5 DEF Extended

(* Padding is a size_t, and padding that fits did not wrap around.         *)
LEMMA PaddingFacts ==
  ASSUME NEW section \in Section, NEW alignment \in Alignments,
         Len(section.data) <= MaxSectionSize
  PROVE  /\ Padding(section, alignment) \in Nat
         /\ Fits(section, Padding(section, alignment)) =>
              Padding(section, alignment)
                = AlignUp(Len(section.data), alignment) - Len(section.data)
<1> DEFINE size    == Len(section.data)
           aligned == AlignUp(size, alignment)
           d       == aligned - size
           padding == d % SizeWord
           q       == d \div SizeWord
<1>1. size \in 0 .. MaxSectionSize
  BY SizeAssumption DEF Section
<1>2. aligned \in 0 .. SizeWord - 1
  BY <1>1, AlignAssumption
<1> HIDE DEF size, aligned
<1>3. /\ SizeWord \in Nat \ {0} /\ MaxSectionSize < SizeWord
      /\ MaxSectionSize \in Nat
  BY SizeAssumption
<1>d. d \in Int /\ d = aligned - size
  BY <1>1, <1>2, <1>3
<1> HIDE DEF d
<1>4. /\ padding \in 0 .. SizeWord - 1 /\ q \in Int
      /\ aligned - size = SizeWord * q + padding
  BY <1>3, <1>d, IntDivision
<1> HIDE DEF padding, q
<1>5. ASSUME size + padding <= MaxSectionSize
      PROVE  padding = aligned - size
  <2>1. aligned < SizeWord * q + SizeWord /\ aligned >= SizeWord * q
    BY <1>1, <1>2, <1>3, <1>4, <1>5
  <2>2. q = 0
    <3>1. q >= 1 => SizeWord * q >= SizeWord
      BY <1>3, <1>4
    <3>2. q <= -1 => SizeWord * q + SizeWord <= 0
      BY <1>3, <1>4
    <3> QED
      BY <1>2, <1>3, <1>4, <2>1, <3>1, <3>2
  <2> QED
    BY <1>1, <1>2, <1>3, <1>4, <2>2
<1>6. Padding(section, alignment) = padding
  BY DEF Padding, padding, d, aligned, size
<1> QED
  BY <1>4, <1>5, <1>6 DEF Fits, size, aligned

-----------------------------------------------------------------------------
(* The effect of a step of pass one.                                       *)

ReadsOn ==
  /\ phase = "pass1" /\ phase' = "pass1"
  /\ cursor <= Len(source) /\ cursor' = cursor + 1
  /\ source' = source /\ next' = next /\ output' = output
  /\ current' \in 0 .. Len(sections')

(* Sections keep their bytes; new bytes belong to the statement read.      *)
SectionsGrow ==
  /\ sections' \in Seq(Section)
  /\ UniqueNames(sections')
  /\ Len(sections) <= Len(sections')
  /\ \A s \in 1 .. Len(sections) :
       /\ Len(sections[s].data) <= Len(sections'[s].data)
       /\ \A i \in 1 .. Len(sections[s].data) :
            sections'[s].data[i] = sections[s].data[i]
       /\ \A i \in 1 .. Len(sections'[s].data) :
            i > Len(sections[s].data) => sections'[s].data[i].by = cursor
  /\ \A s \in 1 .. Len(sections') :
       /\ Len(sections'[s].data) <= MaxSectionSize
       /\ s > Len(sections) => sections'[s].data = << >>

SymbolsGrow ==
  /\ symbols' \in Seq(Symbol)
  /\ UniqueNames(symbols')
  /\ Len(symbols) <= Len(symbols')
  /\ \A i \in 1 .. Len(symbols) : symbols'[i].name = symbols[i].name

(* A label is either as it was, and not the one read, or the one read.     *)
LabelsFollow ==
  \A i \in 1 .. Len(symbols') :
    symbols'[i].defined =>
      \/ /\ i <= Len(symbols)
         /\ symbols[i].defined
         /\ symbols'[i].section = symbols[i].section
         /\ symbols'[i].value = symbols[i].value
         /\ source[cursor] # [op |-> "label", name |-> symbols[i].name]
      \/ /\ source[cursor] = [op |-> "label", name |-> symbols'[i].name]
         /\ sections' = sections
         /\ symbols'[i].section \in 1 .. Len(sections)
         /\ symbols'[i].value = Len(sections[symbols'[i].section].data)

(* A relocation is either as it was or the one of the .quad read.          *)
RelocationsFollow ==
  \A s \in 1 .. Len(sections') :
    \A r \in 1 .. Len(sections'[s].relocations) :
      LET rel == sections'[s].relocations[r]
      IN  \/ /\ s <= Len(sections)
             /\ r <= Len(sections[s].relocations)
             /\ rel = sections[s].relocations[r]
          \/ /\ source[cursor].op = "quad"
             /\ rel.symbol \in 1 .. Len(symbols')
             /\ symbols'[rel.symbol].name = source[cursor].name
             /\ rel.offset + Width(rel.kind) <= Len(sections'[s].data)
             /\ \A i \in Bytes(rel.offset, Width(rel.kind)) :
                  sections'[s].data[i].by = cursor

(* A pending instruction is either as it was or the one read.              *)
SlotsFollow ==
  \/ pending' = pending
  \/ \E p \in Pending :
       /\ pending' = Append(pending, p)
       /\ p.line = cursor
       /\ source[cursor].op = "instruction"
       /\ p.section \in 1 .. Len(sections')
       /\ p.offset + SlotSize <= Len(sections'[p.section].data)
       /\ \A i \in Bytes(p.offset, SlotSize) :
            /\ sections'[p.section].data[i].by = cursor
            /\ sections'[p.section].data[i].is = "zero"

PassOneEffect ==
  /\ ReadsOn /\ SectionsGrow /\ SymbolsGrow
  /\ LabelsFollow /\ RelocationsFollow /\ SlotsFollow

-----------------------------------------------------------------------------
(* SlotSize is a positive number of bytes.                                 *)
LEMMA SlotSizeFacts == SlotSize \in Nat /\ SlotSize > 0
  BY DEF SlotSize

(* Sequences have their length for domain; tables hold what their types    *)
(* say.                                                                    *)
LEMMA TypeFacts ==
  ASSUME TypeOK
  PROVE  /\ DOMAIN source = 1 .. Len(source) /\ Len(source) \in Nat
         /\ DOMAIN sections = 1 .. Len(sections) /\ Len(sections) \in Nat
         /\ DOMAIN symbols = 1 .. Len(symbols) /\ Len(symbols) \in Nat
         /\ DOMAIN pending = 1 .. Len(pending) /\ Len(pending) \in Nat
         /\ \A k \in 1 .. Len(source) : source[k] \in Statement
         /\ \A s \in 1 .. Len(sections) : sections[s] \in Section
         /\ \A i \in 1 .. Len(symbols) : symbols[i] \in Symbol
         /\ \A n \in 1 .. Len(pending) : pending[n] \in Pending
<1>1. source \in Seq(Statement)
  BY DEF TypeOK, IsSource
<1>2. QED
  BY <1>1 DEF TypeOK

(* The sequences inside a section.                                         *)
LEMMA SectionFacts ==
  ASSUME NEW section \in Section
  PROVE  /\ section.data \in Seq(Byte)
         /\ Len(section.data) \in Nat
         /\ DOMAIN section.data = 1 .. Len(section.data)
         /\ \A i \in 1 .. Len(section.data) : section.data[i] \in Byte
         /\ section.relocations \in Seq(Relocation)
         /\ Len(section.relocations) \in Nat
         /\ DOMAIN section.relocations = 1 .. Len(section.relocations)
         /\ \A r \in 1 .. Len(section.relocations) :
              section.relocations[r] \in Relocation
<1>1. section.data \in Seq(Byte) /\ section.relocations \in Seq(Relocation)
  BY DEF Section
<1>2. QED
  BY <1>1

(* The sequences inside the sections of the object.                        *)
LEMMA DataFacts ==
  ASSUME TypeOK
  PROVE  \A s \in 1 .. Len(sections) :
           /\ Len(sections[s].data) \in Nat
           /\ DOMAIN sections[s].data = 1 .. Len(sections[s].data)
           /\ Len(sections[s].relocations) \in Nat
           /\ DOMAIN sections[s].relocations
                = 1 .. Len(sections[s].relocations)
           /\ \A r \in 1 .. Len(sections[s].relocations) :
                sections[s].relocations[r] \in Relocation
BY TypeFacts, SectionFacts

-----------------------------------------------------------------------------
(* The effect of a step of pass one preserves the invariant.               *)
LEMMA PassOnePreserves ==
  ASSUME IInv, PassOneEffect
  PROVE  IInv'
<1>1. /\ TypeOK /\ NamesUnique /\ Bookkeeping /\ RelocationsNameTheirTarget
      /\ SlotsIntact /\ LabelsMarkTheirPlace
  BY DEF IInv
<1>2. /\ SectionsGrow /\ SymbolsGrow /\ LabelsFollow /\ RelocationsFollow
      /\ SlotsFollow /\ ReadsOn
  BY DEF PassOneEffect
<1>d. \A s \in 1 .. Len(sections) :
        /\ Len(sections[s].data) \in Nat
        /\ DOMAIN sections[s].data = 1 .. Len(sections[s].data)
        /\ Len(sections[s].relocations) \in Nat
        /\ DOMAIN sections[s].relocations = 1 .. Len(sections[s].relocations)
        /\ \A r \in 1 .. Len(sections[s].relocations) :
             sections[s].relocations[r] \in Relocation
  BY <1>1, DataFacts
<1>u. /\ DOMAIN sections = 1 .. Len(sections) /\ Len(sections) \in Nat
      /\ DOMAIN symbols = 1 .. Len(symbols) /\ Len(symbols) \in Nat
      /\ DOMAIN pending = 1 .. Len(pending) /\ Len(pending) \in Nat
      /\ \A i \in 1 .. Len(symbols) : symbols[i] \in Symbol
      /\ \A n \in 1 .. Len(pending) : pending[n] \in Pending
  BY <1>1, TypeFacts
<1>3. TypeOK'
  <2>1. pending' \in Seq(Pending)
    <3>1. CASE pending' = pending
      BY <1>1, <3>1 DEF TypeOK
    <3>2. CASE pending' # pending
      <4>1. PICK p \in Pending : pending' = Append(pending, p)
        BY <1>2, <3>2 DEF SlotsFollow
      <4>2. pending \in Seq(Pending)
        BY <1>1 DEF TypeOK
      <4>3. QED
        BY <4>1, <4>2
    <3>3. QED
      BY <3>1, <3>2
  <2>2. QED
    BY <1>1, <1>2, <2>1 DEF TypeOK, SectionsGrow, SymbolsGrow, ReadsOn
<1>4. NamesUnique'
  BY <1>2 DEF SectionsGrow, SymbolsGrow, NamesUnique
<1>t. /\ DOMAIN sections' = 1 .. Len(sections') /\ Len(sections') \in Nat
      /\ DOMAIN symbols' = 1 .. Len(symbols')
      /\ DOMAIN pending' = 1 .. Len(pending')
      /\ \A s \in 1 .. Len(sections') :
           /\ Len(sections'[s].data) \in Nat
           /\ DOMAIN sections'[s].data = 1 .. Len(sections'[s].data)
           /\ DOMAIN sections'[s].relocations
                = 1 .. Len(sections'[s].relocations)
  BY <1>3, TypeFacts, DataFacts
<1>l. /\ Len(sections) \in Nat /\ Len(sections') \in Nat
      /\ Len(symbols) \in Nat /\ Len(symbols') \in Nat
      /\ Len(pending) \in Nat /\ Len(pending') \in Nat
      /\ Len(sections) <= Len(sections') /\ Len(symbols) <= Len(symbols')
  BY <1>2, <1>3, <1>u DEF TypeOK, SectionsGrow, SymbolsGrow
<1>s. \A s \in 1 .. Len(sections) :
        /\ s \in 1 .. Len(sections')
        /\ Len(sections[s].data) \in Nat
        /\ Len(sections'[s].data) \in Nat
        /\ Len(sections[s].data) <= Len(sections'[s].data)
  <2>1. \A s \in 1 .. Len(sections) : s \in 1 .. Len(sections')
    BY <1>l
  <2>2. \A s \in 1 .. Len(sections) :
          Len(sections[s].data) <= Len(sections'[s].data)
    BY <1>2 DEF SectionsGrow
  <2>3. QED
    BY <1>d, <1>t, <2>1, <2>2
<1>b. \A s \in 1 .. Len(sections) :
        \A i \in 1 .. Len(sections[s].data) :
          sections'[s].data[i] = sections[s].data[i]
  BY <1>2 DEF SectionsGrow
<1>c. /\ cursor' = cursor + 1 /\ cursor \in Nat \ {0}
      /\ source' = source /\ cursor <= Len(source)
      /\ next' = 1 /\ next = 1 /\ phase' = "pass1" /\ output' = "untouched"
  BY <1>1, <1>2 DEF ReadsOn, Bookkeeping, TypeOK
<1>5. Bookkeeping'
  <2>1. ASSUME NEW n \in 1 .. Len(pending')
        PROVE  \/ n \in 1 .. Len(pending) /\ pending'[n] = pending[n]
               \/ /\ n = Len(pending) + 1
                  /\ pending'[n].line = cursor
                  /\ source[cursor].op = "instruction"
    <3>1. CASE pending' = pending
      BY <3>1
    <3>2. CASE pending' # pending
      <4>1. PICK p \in Pending : /\ pending' = Append(pending, p)
                                 /\ p.line = cursor
                                 /\ source[cursor].op = "instruction"
        BY <1>2, <3>2 DEF SlotsFollow
      <4>2. pending \in Seq(Pending)
        BY <1>1 DEF TypeOK
      <4>3. QED
        BY <4>1, <4>2
    <3>3. QED
      BY <3>1, <3>2
  <2>2. \A n \in 1 .. Len(pending) :
          /\ pending[n].line \in 1 .. cursor - 1
          /\ source[pending[n].line].op = "instruction"
    BY <1>1, <1>u DEF Bookkeeping
  <2>3. \A m, n \in 1 .. Len(pending) :
          pending[m].line = pending[n].line => m = n
    BY <1>1, <1>u DEF Bookkeeping
  <2>4. \A n \in DOMAIN pending' :
          /\ pending'[n].line \in 1 .. cursor' - 1
          /\ source'[pending'[n].line].op = "instruction"
    <3> SUFFICES ASSUME NEW n \in 1 .. Len(pending')
                 PROVE  /\ pending'[n].line \in 1 .. cursor
                        /\ source[pending'[n].line].op = "instruction"
      BY <1>t, <1>c
    <3>1. CASE n \in 1 .. Len(pending) /\ pending'[n] = pending[n]
      BY <1>c, <2>2, <3>1
    <3>2. CASE pending'[n].line = cursor /\ source[cursor].op = "instruction"
      BY <1>c, <3>2
    <3>3. QED
      BY <2>1, <3>1, <3>2
  <2>5. \A m, n \in DOMAIN pending' :
          pending'[m].line = pending'[n].line => m = n
    <3> SUFFICES ASSUME NEW m \in 1 .. Len(pending'),
                        NEW n \in 1 .. Len(pending'),
                        pending'[m].line = pending'[n].line
                 PROVE  m = n
      BY <1>t
    <3>1. CASE m \in 1 .. Len(pending) /\ n \in 1 .. Len(pending)
      <4>1. m # Len(pending) + 1 /\ n # Len(pending) + 1
        BY <1>l, <3>1
      <4>2. pending'[m] = pending[m] /\ pending'[n] = pending[n]
        BY <2>1, <4>1
      <4>3. QED
        BY <2>3, <3>1, <4>2
    <3>2. \A q \in 1 .. Len(pending') :
            \/ /\ q \in 1 .. Len(pending)
               /\ pending'[q].line \in 1 .. cursor - 1
            \/ q = Len(pending) + 1 /\ pending'[q].line = cursor
      BY <2>1, <2>2
    <3>3. \A q \in 1 .. cursor - 1 : q # cursor
      BY <1>c
    <3>4. QED
      BY <3>1, <3>2, <3>3
  <2>6. ASSUME NEW s \in DOMAIN sections'
        PROVE  /\ Len(sections'[s].data) <= MaxSectionSize
               /\ \A i \in DOMAIN sections'[s].data :
                    sections'[s].data[i].by \in 1 .. cursor' - 1
    <3>1. s \in 1 .. Len(sections')
      BY <1>t
    <3>2. Len(sections'[s].data) <= MaxSectionSize
      BY <1>2, <3>1 DEF SectionsGrow
    <3>3. ASSUME NEW i \in 1 .. Len(sections'[s].data)
          PROVE  sections'[s].data[i].by \in 1 .. cursor
      <4>1. CASE s > Len(sections)
        <5>1. sections'[s].data = << >>
          BY <1>2, <3>1, <4>1 DEF SectionsGrow
        <5>2. 1 .. Len(sections'[s].data) = {}
          BY <5>1
        <5>3. QED
          BY <5>2
      <4>2. CASE s \in 1 .. Len(sections)
        <5>1. CASE i \in 1 .. Len(sections[s].data)
          <6>1. sections[s].data[i].by \in 1 .. cursor - 1
            BY <1>1, <1>u, <1>d, <4>2, <5>1 DEF Bookkeeping
          <6>2. QED
            BY <1>b, <1>c, <4>2, <5>1, <6>1
        <5>2. CASE i > Len(sections[s].data)
          <6>1. sections'[s].data[i].by = cursor
            BY <1>2, <4>2, <5>2 DEF SectionsGrow
          <6>2. QED
            BY <1>c, <6>1
        <5>3. QED
          BY <1>s, <4>2, <5>1, <5>2
      <4>3. QED
        BY <1>l, <3>1, <4>1, <4>2
    <3>4. DOMAIN sections'[s].data = 1 .. Len(sections'[s].data)
      BY <1>t, <3>1
    <3>5. cursor' - 1 = cursor
      BY <1>c
    <3>6. QED
      BY <3>2, <3>3, <3>4, <3>5
  <2>7. QED
    BY <1>c, <1>l, <2>4, <2>5, <2>6, <1>1 DEF Bookkeeping
<1>6. RelocationsNameTheirTarget'
  <2> SUFFICES ASSUME NEW s \in 1 .. Len(sections'),
                      NEW r \in 1 .. Len(sections'[s].relocations)
               PROVE  LET rel  == sections'[s].relocations[r]
                          data == sections'[s].data
                      IN  /\ rel.symbol \in DOMAIN symbols'
                          /\ rel.offset + Width(rel.kind) <= Len(data)
                          /\ \E k \in 1 .. cursor' - 1 :
                               /\ source'[k].op \in {"quad", "instruction"}
                               /\ Mentions(source'[k])
                                    = symbols'[rel.symbol].name
                               /\ \A i \in Bytes(rel.offset, Width(rel.kind)) :
                                    data[i].by = k
    BY ZenonT(60), <1>t DEF RelocationsNameTheirTarget
  <2> DEFINE rel == sections'[s].relocations[r]
             data == sections'[s].data
  <2>2. CASE /\ s <= Len(sections)
             /\ r <= Len(sections[s].relocations)
             /\ rel = sections[s].relocations[r]
    <3>0. s \in 1 .. Len(sections)
      BY <1>l, <2>2
    <3>1. r \in 1 .. Len(sections[s].relocations) /\ rel \in Relocation
      BY <1>d, <2>2, <3>0
    <3>2. /\ rel.symbol \in 1 .. Len(symbols)
          /\ rel.offset + Width(rel.kind) <= Len(sections[s].data)
          /\ \E k \in 1 .. cursor - 1 :
               /\ source[k].op \in {"quad", "instruction"}
               /\ Mentions(source[k]) = symbols[rel.symbol].name
               /\ \A i \in Bytes(rel.offset, Width(rel.kind)) :
                    sections[s].data[i].by = k
      <4>1. \A t \in 1 .. Len(sections) :
              \A q \in 1 .. Len(sections[t].relocations) :
                LET old == sections[t].relocations[q]
                IN  /\ old.symbol \in 1 .. Len(symbols)
                    /\ old.offset + Width(old.kind) <= Len(sections[t].data)
                    /\ \E k \in 1 .. cursor - 1 :
                         /\ source[k].op \in {"quad", "instruction"}
                         /\ Mentions(source[k]) = symbols[old.symbol].name
                         /\ \A i \in Bytes(old.offset, Width(old.kind)) :
                              sections[t].data[i].by = k
        BY ZenonT(60), <1>1, <1>u, <1>d DEF RelocationsNameTheirTarget
      <4>2. QED
        BY SMTT(30), <2>2, <3>0, <3>1, <4>1
    <3> HIDE DEF rel, data
    <3>3. PICK k \in 1 .. cursor - 1 :
            /\ source[k].op \in {"quad", "instruction"}
            /\ Mentions(source[k]) = symbols[rel.symbol].name
            /\ \A i \in Bytes(rel.offset, Width(rel.kind)) :
                 sections[s].data[i].by = k
      BY <3>2
    <3>4. rel.offset \in Nat /\ Width(rel.kind) \in Nat
      BY <3>1 DEF Relocation, Width
    <3>5. rel.symbol \in 1 .. Len(symbols')
      BY <1>l, <3>2
    <3>6. symbols'[rel.symbol].name = symbols[rel.symbol].name
      BY <1>2, <3>2 DEF SymbolsGrow
    <3>7. rel.offset + Width(rel.kind) <= Len(data)
      BY SMTT(30), <1>s, <3>0, <3>2, <3>4 DEF data
    <3>8. ASSUME NEW i \in Bytes(rel.offset, Width(rel.kind))
          PROVE  data[i].by = k
      <4>1. i \in 1 .. Len(sections[s].data)
        BY SMTT(30), <1>s, <3>0, <3>2, <3>4 DEF Bytes
      <4>2. data[i] = sections[s].data[i]
        BY <1>b, <3>0, <4>1 DEF data
      <4>3. QED
        BY <3>3, <4>2
    <3>9. k \in 1 .. cursor' - 1
      BY <1>c
    <3>10. QED
      BY <1>t, <1>c, <3>3, <3>5, <3>6, <3>7, <3>8, <3>9 DEF rel, data
  <2>3. CASE /\ source[cursor].op = "quad"
             /\ rel.symbol \in 1 .. Len(symbols')
             /\ symbols'[rel.symbol].name = source[cursor].name
             /\ rel.offset + Width(rel.kind) <= Len(sections'[s].data)
             /\ \A i \in Bytes(rel.offset, Width(rel.kind)) :
                  sections'[s].data[i].by = cursor
    <3>1. cursor \in 1 .. cursor' - 1
      BY <1>c
    <3>2. Mentions(source'[cursor]) = source[cursor].name
      BY <1>c, <2>3 DEF Mentions
    <3>3. QED
      BY <1>t, <1>c, <2>3, <3>1, <3>2
  <2>4. QED
    BY <1>2, <2>2, <2>3 DEF RelocationsFollow
<1>7. SlotsIntact'
  <2> SUFFICES ASSUME NEW n \in 1 .. Len(pending')
               PROVE  LET p == pending'[n]
                      IN  /\ p.section \in DOMAIN sections'
                          /\ p.offset + SlotSize
                               <= Len(sections'[p.section].data)
                          /\ \A i \in Bytes(p.offset, SlotSize) :
                               LET byte == sections'[p.section].data[i]
                               IN  /\ byte.by = p.line
                                   /\ byte.is \in IF n < next'
                                                   THEN {"code", "fill"}
                                                   ELSE {"zero"}
    BY <1>t DEF SlotsIntact
  <2>1. ~(n < next') /\ next' = 1
    BY <1>c
  <2>2. CASE n \in 1 .. Len(pending) /\ pending'[n] = pending[n]
    <3> DEFINE p == pending[n]
    <3>0. p \in Pending /\ ~(n < next)
      BY <1>u, <1>c, <2>2
    <3>1. /\ p.section \in 1 .. Len(sections)
          /\ p.offset + SlotSize <= Len(sections[p.section].data)
          /\ \A i \in Bytes(p.offset, SlotSize) :
               /\ sections[p.section].data[i].by = p.line
               /\ sections[p.section].data[i].is = "zero"
      BY <1>1, <1>u, <2>2, <3>0 DEF SlotsIntact
    <3> HIDE DEF p
    <3>2. p.offset \in Nat /\ SlotSize \in Nat
      BY <3>0, SlotSizeFacts DEF Pending
    <3>3. ASSUME NEW i \in Bytes(p.offset, SlotSize)
          PROVE  i \in 1 .. Len(sections[p.section].data)
      BY SMTT(30), <1>s, <3>1, <3>2 DEF Bytes
    <3>4. \A i \in Bytes(p.offset, SlotSize) :
            sections'[p.section].data[i] = sections[p.section].data[i]
      BY <1>b, <3>1, <3>3
    <3>5. /\ p.section \in DOMAIN sections'
          /\ p.offset + SlotSize <= Len(sections'[p.section].data)
      BY SMTT(30), <1>s, <1>t, <3>1, <3>2
    <3>6. pending'[n] = p
      BY <2>2 DEF p
    <3>7. QED
      BY <2>1, <3>1, <3>4, <3>5, <3>6
  <2>3. CASE pending' # pending /\ n \notin 1 .. Len(pending)
    <3>1. PICK p \in Pending :
            /\ pending' = Append(pending, p)
            /\ p.line = cursor
            /\ p.section \in 1 .. Len(sections')
            /\ p.offset + SlotSize <= Len(sections'[p.section].data)
            /\ \A i \in Bytes(p.offset, SlotSize) :
                 /\ sections'[p.section].data[i].by = cursor
                 /\ sections'[p.section].data[i].is = "zero"
      BY <1>2, <2>3 DEF SlotsFollow
    <3>2. pending'[n] = p
      <4>1. pending \in Seq(Pending)
        BY <1>1 DEF TypeOK
      <4>2. QED
        BY <2>3, <3>1, <4>1
    <3>3. QED
      BY <1>t, <2>1, <3>1, <3>2
  <2>4. CASE n \in 1 .. Len(pending) /\ pending'[n] # pending[n]
    <3>1. pending \in Seq(Pending)
      BY <1>1 DEF TypeOK
    <3>2. PICK p \in Pending : pending' = Append(pending, p)
      BY <1>2, <2>4 DEF SlotsFollow
    <3>3. QED
      BY <2>4, <3>1, <3>2
  <2>5. QED
    BY <2>2, <2>3, <2>4
<1>8. LabelsMarkTheirPlace'
  <2> SUFFICES ASSUME NEW i \in 1 .. Len(symbols'), symbols'[i].defined
               PROVE  /\ symbols'[i].section \in DOMAIN sections'
                      /\ symbols'[i].value
                           <= Len(sections'[symbols'[i].section].data)
                      /\ \E k \in 1 .. cursor' - 1 :
                           /\ source'[k]
                                = [op |-> "label", name |-> symbols'[i].name]
                           /\ \A j \in k + 1 .. cursor' - 1 :
                                source'[j] # source'[k]
                           /\ LET data == sections'[symbols'[i].section].data
                              IN  \A b \in DOMAIN data :
                                    (data[b].by < k) <=> (b <= symbols'[i].value)
    BY <1>t DEF LabelsMarkTheirPlace
  <2>2. CASE /\ i <= Len(symbols)
             /\ symbols[i].defined
             /\ symbols'[i].section = symbols[i].section
             /\ symbols'[i].value = symbols[i].value
             /\ source[cursor] # [op |-> "label", name |-> symbols[i].name]
    <3>0. i \in 1 .. Len(symbols)
      BY <1>l, <2>2
    <3>1. symbols'[i].name = symbols[i].name
      BY <1>2, <3>0 DEF SymbolsGrow
    <3> DEFINE s == symbols[i].section
               v == symbols[i].value
    <3>2. /\ s \in 1 .. Len(sections)
          /\ v <= Len(sections[s].data)
          /\ \E k \in 1 .. cursor - 1 :
               /\ source[k] = [op |-> "label", name |-> symbols[i].name]
               /\ \A j \in k + 1 .. cursor - 1 : source[j] # source[k]
               /\ \A b \in DOMAIN sections[s].data :
                    (sections[s].data[b].by < k) <=> (b <= v)
      BY <1>1, <1>u, <2>2, <3>0 DEF LabelsMarkTheirPlace
    <3>3. v \in Nat
      BY <1>u, <3>0 DEF Symbol
    <3> HIDE DEF s, v
    <3>4. PICK k \in 1 .. cursor - 1 :
            /\ source[k] = [op |-> "label", name |-> symbols[i].name]
            /\ \A j \in k + 1 .. cursor - 1 : source[j] # source[k]
            /\ \A b \in DOMAIN sections[s].data :
                 (sections[s].data[b].by < k) <=> (b <= v)
      BY <3>2
    <3>5. \A j \in k + 1 .. cursor' - 1 : source'[j] # source'[k]
      BY <1>c, <2>2, <3>4
    <3>6. /\ s \in 1 .. Len(sections')
          /\ Len(sections[s].data) \in Nat
          /\ Len(sections'[s].data) \in Nat
          /\ Len(sections[s].data) <= Len(sections'[s].data)
      BY <1>s, <3>2
    <3>7. ASSUME NEW b \in 1 .. Len(sections'[s].data)
          PROVE  (sections'[s].data[b].by < k) <=> (b <= v)
      <4>1. CASE b \in 1 .. Len(sections[s].data)
        <5>1. sections'[s].data[b] = sections[s].data[b]
          BY <1>b, <3>2, <4>1
        <5>2. b \in DOMAIN sections[s].data
          BY <1>d, <3>2, <4>1
        <5>3. QED
          BY <3>4, <5>1, <5>2
      <4>2. CASE b > Len(sections[s].data)
        <5>1. sections'[s].data[b].by = cursor
          BY <1>2, <3>2, <4>2 DEF SectionsGrow
        <5>2. ~(cursor < k)
          BY <1>c
        <5>3. ~(b <= v)
          BY <3>2, <3>3, <3>6, <4>2
        <5>4. QED
          BY <5>1, <5>2, <5>3
      <4>3. QED
        BY <3>6, <4>1, <4>2
    <3>8. v <= Len(sections'[s].data)
      BY <3>2, <3>3, <3>6
    <3>9. k \in 1 .. cursor' - 1
      BY <1>c
    <3>10. /\ DOMAIN sections'[s].data = 1 .. Len(sections'[s].data)
           /\ DOMAIN sections' = 1 .. Len(sections')
      BY <1>t, <3>6
    <3>11. symbols'[i].section = s /\ symbols'[i].value = v
      BY <2>2 DEF s, v
    <3>12. source'[k] = [op |-> "label", name |-> symbols'[i].name]
      BY <1>c, <3>1, <3>4
    <3>13. QED
      BY <3>5, <3>6, <3>7, <3>8, <3>9, <3>10, <3>11, <3>12
  <2>3. CASE /\ source[cursor] = [op |-> "label", name |-> symbols'[i].name]
             /\ sections' = sections
             /\ symbols'[i].section \in 1 .. Len(sections)
             /\ symbols'[i].value = Len(sections[symbols'[i].section].data)
    <3> DEFINE s == symbols'[i].section
    <3>1. cursor \in 1 .. cursor' - 1
      BY <1>c
    <3>2. \A j \in cursor + 1 .. cursor' - 1 : source'[j] # source'[cursor]
      BY <1>c
    <3>3. s \in 1 .. Len(sections)
      BY <2>3
    <3>4. symbols'[i].value = Len(sections[s].data)
      BY <2>3
    <3> HIDE DEF s
    <3>5. Len(sections[s].data) \in Nat
      BY <1>d, <3>3
    <3>6. ASSUME NEW b \in 1 .. Len(sections[s].data)
          PROVE  (sections[s].data[b].by < cursor)
                   <=> (b <= Len(sections[s].data))
      <4>1. sections[s].data[b].by \in 1 .. cursor - 1
        BY <1>1, <1>u, <1>d, <3>3 DEF Bookkeeping
      <4>2. QED
        BY SMTT(30), <1>c, <3>5, <4>1
    <3>7. /\ DOMAIN sections[s].data = 1 .. Len(sections[s].data)
          /\ s \in DOMAIN sections
      BY <1>d, <1>u, <3>3
    <3>8. source'[cursor] = [op |-> "label", name |-> symbols'[i].name]
      BY <1>c, <2>3
    <3>9. sections' = sections /\ symbols'[i].section = s
      BY <2>3 DEF s
    <3>10. symbols'[i].value <= Len(sections[s].data)
      BY <3>4, <3>5
    <3>11. QED
      BY <3>1, <3>2, <3>4, <3>6, <3>7, <3>8, <3>9, <3>10
  <2>4. QED
    BY <1>2, <2>2, <2>3 DEF LabelsFollow
<1>9. ReferencesResolved'
  <2>1. next' = 1
    BY <1>1, <1>2 DEF ReadsOn, Bookkeeping
  <2>2. \A n \in 1 .. next' - 1 : FALSE
    BY <2>1
  <2>3. QED
    BY <2>2 DEF ReferencesResolved
<1>10. OutputIsComplete'
  BY <1>1, <1>2 DEF OutputIsComplete, ReadsOn, Bookkeeping
<1>11. QED
  BY <1>3, <1>4, <1>5, <1>6, <1>7, <1>8, <1>9, <1>10 DEF IInv

-----------------------------------------------------------------------------
(* Every action of pass one has that effect.                               *)

(* What an action of pass one finds when it reads its statement.           *)
LEMMA ReadingFacts ==
  ASSUME IInv, NEW op, Reading(op)
  PROVE  /\ phase = "pass1"
         /\ cursor \in 1 .. Len(source) /\ cursor \in Nat
         /\ source[cursor].op = op /\ source[cursor] \in Statement
         /\ op # "label" =>
              \A name : source[cursor] # [op |-> "label", name |-> name]
         /\ op \in NeedsSection => current \in 1 .. Len(sections)
<1>1. TypeOK
  BY DEF IInv
<1>2. cursor \in 1 .. Len(source) /\ cursor \in Nat
  BY <1>1, TypeFacts DEF Reading, TypeOK
<1>3. source[cursor] \in Statement
  BY <1>1, <1>2, TypeFacts
<1>4. op \in NeedsSection => current \in 1 .. Len(sections)
  BY <1>1, TypeFacts DEF Reading, TypeOK, None
<1>5. op # "label" =>
        \A name : source[cursor] # [op |-> "label", name |-> name]
  BY DEF Reading
<1>6. QED
  BY <1>2, <1>3, <1>4, <1>5 DEF Reading

(* The operands of the statements.                                         *)
LEMMA OperandFacts ==
  ASSUME NEW st \in Statement
  PROVE  /\ st.op \in {"label", "globl", "extern", "quad"} => st.name \in Names
         /\ st.op = "section" => st.section \in SectionNames
         /\ st.op = "align" => st.alignment \in Alignments
         /\ st.op = "data" => st.size \in Nat
         /\ st.op = "instruction" =>
              /\ st.target \in Names
              /\ st.size \in 1 .. 16 /\ st.at \in Nat
  BY DEF Statement

(* Nothing happens to the sections, and no slot is reserved.               *)
LEMMA SectionsStay ==
  ASSUME IInv, sections' = sections
  PROVE  SectionsGrow /\ RelocationsFollow
<1>1. TypeOK /\ NamesUnique /\ Bookkeeping
  BY DEF IInv
<1>2. SectionsGrow
  <2>1. \A s \in 1 .. Len(sections) :
          /\ Len(sections[s].data) \in Nat
          /\ Len(sections[s].data) <= MaxSectionSize
    BY <1>1, TypeFacts, DataFacts DEF Bookkeeping
  <2>2. Len(sections) \in Nat /\ sections \in Seq(Section)
    BY <1>1, TypeFacts DEF TypeOK
  <2>3. UniqueNames(sections')
    BY <1>1 DEF NamesUnique
  <2>4. \A s \in 1 .. Len(sections) :
          \A i \in 1 .. Len(sections[s].data) : ~(i > Len(sections[s].data))
    BY <2>1
  <2>5. \A s \in 1 .. Len(sections) : ~(s > Len(sections))
    BY <2>2
  <2>6. QED
    BY <2>1, <2>2, <2>3, <2>4, <2>5 DEF SectionsGrow
<1>3. RelocationsFollow
  <2>1. \A s \in 1 .. Len(sections) :
          /\ s <= Len(sections)
          /\ \A r \in 1 .. Len(sections[s].relocations) :
               r <= Len(sections[s].relocations)
    BY <1>1, TypeFacts, DataFacts
  <2>2. QED
    BY <2>1 DEF RelocationsFollow
<1>4. QED
  BY <1>2, <1>3

(* Nothing happens to the symbols, and the statement is no label.          *)
LEMMA SymbolsStay ==
  ASSUME IInv, symbols' = symbols,
         \A name : source[cursor] # [op |-> "label", name |-> name]
  PROVE  SymbolsGrow /\ LabelsFollow
<1>1. TypeOK /\ NamesUnique
  BY DEF IInv
<1>2. Len(symbols) \in Nat /\ symbols \in Seq(Symbol)
  BY <1>1, TypeFacts DEF TypeOK
<1>3. SymbolsGrow
  BY <1>1, <1>2 DEF SymbolsGrow, NamesUnique
<1>4. LabelsFollow
  BY <1>2 DEF LabelsFollow
<1>5. QED
  BY <1>3, <1>4

(* The statement mentions a name, in whose entry new is put.               *)
LEMMA SymbolMentioned ==
  ASSUME IInv, NEW name \in Names, NEW new \in Symbol, new.name = name,
         LET got == GetOrCreateSymbol(symbols, name)
         IN  symbols' = [got.table EXCEPT ![got.index] = new]
  PROVE  LET got == GetOrCreateSymbol(symbols, name)
         IN  /\ SymbolsGrow
             /\ Len(symbols') = Len(got.table)
             /\ got.index \in 1 .. Len(symbols')
             /\ symbols'[got.index] = new
             /\ \A i \in 1 .. Len(symbols') :
                  i # got.index =>
                    /\ symbols'[i] = got.table[i]
                    /\ symbols'[i].name # name
<1> DEFINE got == GetOrCreateSymbol(symbols, name)
<1>1. symbols \in Seq(Symbol) /\ UniqueNames(symbols)
  BY DEF IInv, TypeOK, NamesUnique
<1>2. /\ got.table \in Seq(Symbol)
      /\ UniqueNames(got.table)
      /\ got.index \in 1 .. Len(got.table)
      /\ got.table[got.index].name = name
      /\ Len(symbols) <= Len(got.table)
      /\ \A i \in 1 .. Len(symbols) : got.table[i] = symbols[i]
  BY <1>1, GetOrCreateSymbolFacts
<1>3. symbols' = [got.table EXCEPT ![got.index] = new]
  OBVIOUS
<1> HIDE DEF got
<1>4. /\ symbols' \in Seq(Symbol)
      /\ Len(symbols') = Len(got.table)
      /\ symbols'[got.index] = new
      /\ \A i \in 1 .. Len(symbols') :
           i # got.index => symbols'[i] = got.table[i]
  <2> DEFINE table == [got.table EXCEPT ![got.index] = new]
  <2>1. /\ table \in Seq(Symbol)
        /\ Len(table) = Len(got.table)
        /\ \A j \in 1 .. Len(got.table) :
             table[j] = IF j = got.index THEN new ELSE got.table[j]
    BY <1>2, ExceptSeq
  <2>2. symbols' = table
    BY <1>3
  <2> HIDE DEF table
  <2>3. QED
    BY <1>2, <2>1, <2>2
<1>5. /\ DOMAIN got.table = 1 .. Len(got.table)
      /\ DOMAIN symbols' = 1 .. Len(got.table)
      /\ Len(symbols) \in Nat /\ Len(got.table) \in Nat
  BY <1>1, <1>2, <1>4
<1>6. \A i \in 1 .. Len(symbols') : symbols'[i].name = got.table[i].name
  BY <1>2, <1>4
<1>e. \A i, j \in 1 .. Len(got.table) :
        got.table[i].name = got.table[j].name => i = j
  BY <1>2, <1>5 DEF UniqueNames
<1>7. UniqueNames(symbols')
  <2>1. \A i \in 1 .. Len(got.table) : symbols'[i].name = got.table[i].name
    BY <1>4, <1>6
  <2>2. \A i, j \in 1 .. Len(got.table) :
          symbols'[i].name = symbols'[j].name => i = j
    BY <1>e, <2>1
  <2>3. QED
    BY SMTT(30), <1>5, <2>2 DEF UniqueNames
<1>8. \A i \in 1 .. Len(symbols) :
        i \in 1 .. Len(got.table) /\ symbols'[i].name = symbols[i].name
  BY <1>2, <1>4, <1>5, <1>6
<1>9. SymbolsGrow
  BY <1>2, <1>4, <1>7, <1>8 DEF SymbolsGrow
<1>10. \A i \in 1 .. Len(symbols') : i # got.index => symbols'[i].name # name
  <2>1. \A i \in 1 .. Len(got.table) :
          got.table[i].name = name => i = got.index
    BY <1>2, <1>e
  <2>2. QED
    BY <1>4, <1>6, <2>1
<1>11. QED
  BY <1>2, <1>4, <1>9, <1>10 DEF got

(* The current section grows by n bytes of the statement read.             *)
LEMMA SectionGrown ==
  ASSUME IInv, current \in 1 .. Len(sections), cursor \in Nat,
         NEW n \in Nat, Fits(Here, n),
         NEW kind \in {"data", "zero"},
         NEW new \in Section, new.name = Here.name,
         new.data = Extended(Here.data, n, Written(kind)),
         sections' = [sections EXCEPT ![current] = new]
  PROVE  /\ SectionsGrow
         /\ Len(sections') = Len(sections)
         /\ sections'[current] = new
         /\ \A s \in 1 .. Len(sections') :
              s # current => sections'[s] = sections[s]
         /\ Len(Here.data) \in Nat
         /\ Len(new.data) = Len(Here.data) + n
         /\ \A i \in Bytes(Len(Here.data), n) : new.data[i] = Written(kind)
<1>1. TypeOK /\ NamesUnique /\ Bookkeeping
  BY DEF IInv
<1>2. /\ sections \in Seq(Section) /\ Len(sections) \in Nat
      /\ DOMAIN sections = 1 .. Len(sections)
      /\ Here \in Section /\ Here = sections[current]
  BY <1>1, TypeFacts DEF TypeOK, Here
<1>3. Here.data \in Seq(Byte) /\ Len(Here.data) \in Nat
  BY <1>2, SectionFacts
<1>4. Written(kind) \in Byte /\ Written(kind).by = cursor
  BY DEF Written, Byte
<1>5. /\ Len(new.data) = Len(Here.data) + n
      /\ \A i \in 1 .. Len(Here.data) + n :
           new.data[i] = IF i <= Len(Here.data) THEN Here.data[i]
                                                ELSE Written(kind)
  <2>1. PICK old : old = Here.data
    OBVIOUS
  <2>2. PICK b : b = Written(kind)
    OBVIOUS
  <2>3. old \in Seq(Byte) /\ b \in Byte
    BY <1>3, <1>4, <2>1, <2>2
  <2>4. /\ Len(Extended(old, n, b)) = Len(old) + n
        /\ \A i \in 1 .. Len(old) + n :
             Extended(old, n, b)[i] = IF i <= Len(old) THEN old[i] ELSE b
    BY <2>3, ExtendedFacts
  <2>5. new.data = Extended(old, n, b)
    BY <2>1, <2>2
  <2>6. QED
    BY <2>1, <2>2, <2>4, <2>5
<1>6. /\ sections' \in Seq(Section)
      /\ Len(sections') = Len(sections)
      /\ \A s \in 1 .. Len(sections) :
           sections'[s] = IF s = current THEN new ELSE sections[s]
  <2> DEFINE table == [sections EXCEPT ![current] = new]
  <2>1. /\ table \in Seq(Section)
        /\ Len(table) = Len(sections)
        /\ \A s \in 1 .. Len(sections) :
             table[s] = IF s = current THEN new ELSE sections[s]
    BY <1>2, ExceptSeq
  <2>2. sections' = table
    OBVIOUS
  <2> HIDE DEF table
  <2>3. QED
    BY <2>1, <2>2
<1>7. UniqueNames(sections')
  <2>1. /\ DOMAIN sections' = 1 .. Len(sections)
        /\ \A s \in 1 .. Len(sections) : sections'[s].name = sections[s].name
    BY <1>2, <1>6
  <2>2. \A s, t \in 1 .. Len(sections) : sections[s].name = sections[t].name
                                           => s = t
    BY <1>1, <1>2 DEF NamesUnique, UniqueNames
  <2>3. QED
    BY <2>1, <2>2 DEF UniqueNames
<1>8. \A s \in 1 .. Len(sections) :
        /\ Len(sections[s].data) \in Nat
        /\ Len(sections[s].data) <= MaxSectionSize
  BY <1>1, <1>2, DataFacts DEF Bookkeeping
<1>9. ASSUME NEW s \in 1 .. Len(sections)
      PROVE  /\ Len(sections[s].data) <= Len(sections'[s].data)
             /\ \A i \in 1 .. Len(sections[s].data) :
                  sections'[s].data[i] = sections[s].data[i]
             /\ \A i \in 1 .. Len(sections'[s].data) :
                  i > Len(sections[s].data) =>
                    sections'[s].data[i].by = cursor
             /\ Len(sections'[s].data) <= MaxSectionSize
  <2>1. CASE s = current
    <3>1. sections'[s] = new /\ sections[s] = Here
      BY <1>2, <1>6, <2>1
    <3>2. Len(Here.data) + n <= MaxSectionSize
      BY DEF Fits
    <3>3. \A i \in 1 .. Len(Here.data) : new.data[i] = Here.data[i]
      BY <1>3, <1>5
    <3>4. \A i \in 1 .. Len(new.data) :
            i > Len(Here.data) => new.data[i].by = cursor
      BY <1>3, <1>4, <1>5
    <3>5. Len(Here.data) <= Len(new.data) /\ Len(new.data) <= MaxSectionSize
      BY <1>3, <1>5, <3>2
    <3>6. QED
      BY <3>1, <3>3, <3>4, <3>5
  <2>2. CASE s # current
    <3>1. sections'[s] = sections[s]
      BY <1>6, <2>2
    <3>2. QED
      BY <1>8, <3>1
  <2>3. QED
    BY <2>1, <2>2
<1>10. SectionsGrow
  <2>1. \A s \in 1 .. Len(sections') :
          /\ Len(sections'[s].data) <= MaxSectionSize
          /\ ~(s > Len(sections))
    BY <1>2, <1>6, <1>9
  <2>2. Len(sections) <= Len(sections')
    BY <1>2, <1>6
  <2>3. QED
    BY <1>6, <1>7, <1>9, <2>1, <2>2 DEF SectionsGrow
<1>11. \A i \in Bytes(Len(Here.data), n) : new.data[i] = Written(kind)
  BY <1>3, <1>5 DEF Bytes
<1>12. QED
  BY <1>3, <1>5, <1>6, <1>10, <1>11

(* Growing a section by bytes alone leaves the relocations as they are.    *)
LEMMA RelocationsStay ==
  ASSUME IInv, Len(sections') = Len(sections),
         \A s \in 1 .. Len(sections') :
           sections'[s].relocations = sections[s].relocations
  PROVE  RelocationsFollow
<1>1. TypeOK
  BY DEF IInv
<1>2. \A s \in 1 .. Len(sections') :
        /\ s <= Len(sections)
        /\ \A r \in 1 .. Len(sections'[s].relocations) :
             /\ r <= Len(sections[s].relocations)
             /\ sections'[s].relocations[r] = sections[s].relocations[r]
  BY <1>1, TypeFacts, DataFacts
<1>3. QED
  BY <1>2 DEF RelocationsFollow

(* The section of the statement read, with bytes of it added.              *)
LEMMA BytesAppended ==
  ASSUME IInv, current \in 1 .. Len(sections), cursor \in Nat,
         NEW n \in Nat, NEW kind \in {"data", "zero"}
  PROVE  LET new == AppendBytes(Here, n, Written(kind))
         IN  /\ new \in Section
             /\ new.name = Here.name
             /\ new.data = Extended(Here.data, n, Written(kind))
             /\ new.relocations = Here.relocations
<1>1. TypeOK
  BY DEF IInv
<1>2. Here \in Section /\ Here.data \in Seq(Byte)
  BY <1>1, TypeFacts, SectionFacts DEF Here
<1>3. Written(kind) \in Byte
  BY DEF Written, Byte
<1>4. Extended(Here.data, n, Written(kind)) \in Seq(Byte)
  BY <1>2, <1>3, ExtendedFacts
<1>5. QED
  BY <1>2, <1>4 DEF AppendBytes, Section

(* A label defines the entry of its name, at the end of its section.       *)
LEMMA DefineLabelEffect ==
  ASSUME IInv, DefineLabel
  PROVE  PassOneEffect
<1> DEFINE name == source[cursor].name
           got == GetOrCreateSymbol(symbols, name)
           new == Defined(got.table[got.index], current, Len(Here.data))
<1>1. /\ phase = "pass1" /\ cursor \in 1 .. Len(source)
      /\ source[cursor].op = "label" /\ source[cursor] \in Statement
      /\ current \in 1 .. Len(sections)
  BY ReadingFacts DEF DefineLabel, NeedsSection
<1>2. name \in Names
  BY <1>1, OperandFacts
<1>3. TypeOK /\ NamesUnique
  BY DEF IInv
<1>4. Here \in Section /\ Len(Here.data) \in Nat /\ Len(sections) \in Nat
  BY <1>1, <1>3, TypeFacts, SectionFacts DEF Here
<1>5. /\ got.table[got.index] \in Symbol
      /\ got.table[got.index].name = name
      /\ \A i \in 1 .. Len(got.table) :
           /\ got.table[i] \in Symbol
           /\ i <= Len(symbols) => got.table[i] = symbols[i]
           /\ i > Len(symbols) => got.table[i] = NewSymbol(name)
      /\ Len(symbols) \in Nat
  <2>1. symbols \in Seq(Symbol) /\ UniqueNames(symbols)
    BY <1>3 DEF TypeOK, NamesUnique
  <2>2. /\ got.table \in Seq(Symbol)
        /\ got.index \in 1 .. Len(got.table)
        /\ got.table[got.index].name = name
        /\ \A i \in 1 .. Len(symbols) : got.table[i] = symbols[i]
        /\ \A i \in 1 .. Len(got.table) :
             i > Len(symbols) => got.table[i] = NewSymbol(name)
    BY <1>2, <2>1, GetOrCreateSymbolFacts
  <2> HIDE DEF got
  <2>3. QED
    BY <2>1, <2>2
<1>6. /\ new \in Symbol /\ new.name = name
      /\ new.section = current /\ new.value = Len(Here.data)
  <2> HIDE DEF got, name
  <2>1. current \in Nat
    BY <1>1, <1>4
  <2>2. QED
    BY <1>4, <1>5, <2>1 DEF Defined, Symbol
<1>7. symbols' = [got.table EXCEPT ![got.index] = new]
  BY DEF DefineLabel
<1>8. /\ SymbolsGrow
      /\ Len(symbols') = Len(got.table)
      /\ got.index \in 1 .. Len(symbols')
      /\ symbols'[got.index] = new
      /\ \A i \in 1 .. Len(symbols') :
           i # got.index => /\ symbols'[i] = got.table[i]
                            /\ symbols'[i].name # name
  <2> HIDE DEF new, name
  <2>1. QED
    BY <1>2, <1>6, <1>7, SymbolMentioned
<1>9. sections' = sections /\ current' = current /\ pending' = pending
  BY DEF DefineLabel
<1>10. SectionsGrow /\ RelocationsFollow
  BY <1>9, SectionsStay
<1>11. ReadsOn
  BY <1>1, <1>3, <1>9 DEF DefineLabel, ReadsOn, Reading, TypeOK
<1>12. SlotsFollow
  BY <1>9 DEF SlotsFollow
<1>13. source[cursor] = [op |-> "label", name |-> name]
  BY <1>1 DEF Statement
<1> HIDE DEF new, got, name
<1>14. LabelsFollow
  <2> SUFFICES ASSUME NEW i \in 1 .. Len(symbols'), symbols'[i].defined
               PROVE
        \/ /\ i <= Len(symbols)
           /\ symbols[i].defined
           /\ symbols'[i].section = symbols[i].section
           /\ symbols'[i].value = symbols[i].value
           /\ source[cursor] # [op |-> "label", name |-> symbols[i].name]
        \/ /\ source[cursor] = [op |-> "label", name |-> symbols'[i].name]
           /\ sections' = sections
           /\ symbols'[i].section \in 1 .. Len(sections)
           /\ symbols'[i].value = Len(sections[symbols'[i].section].data)
    BY DEF LabelsFollow
  <2>1. CASE i = got.index
    BY <1>1, <1>6, <1>8, <1>9, <1>13, <2>1 DEF Here
  <2>2. CASE i # got.index
    <3>1. symbols'[i] = got.table[i] /\ symbols'[i].name # name
      BY <1>8, <2>2
    <3>2. ~NewSymbol(name).defined
      BY DEF NewSymbol
    <3>3. i \in 1 .. Len(got.table) /\ ~(i > Len(symbols))
      BY <1>5, <1>8, <3>1, <3>2
    <3>4. i <= Len(symbols) /\ symbols'[i] = symbols[i]
      BY <1>5, <3>1, <3>3
    <3>5. source[cursor] # [op |-> "label", name |-> symbols[i].name]
      BY <1>13, <3>1, <3>4
    <3>6. QED
      BY <3>4, <3>5
  <2>3. QED
    BY <2>1, <2>2
<1>15. QED
  BY <1>8, <1>10, <1>11, <1>12, <1>14 DEF PassOneEffect

(* .globl and .extern touch flags of an entry, and no label.               *)
LEMMA DeclareEffect ==
  ASSUME IInv, DeclareGlobal \/ DeclareExtern
  PROVE  PassOneEffect
<1> DEFINE name == source[cursor].name
           got == GetOrCreateSymbol(symbols, name)
<1>1. /\ phase = "pass1" /\ cursor \in 1 .. Len(source)
      /\ source[cursor].op \in {"globl", "extern"}
      /\ source[cursor] \in Statement
      /\ \A any : source[cursor] # [op |-> "label", name |-> any]
  <2>1. PICK op \in {"globl", "extern"} : Reading(op)
    BY DEF DeclareGlobal, DeclareExtern
  <2>2. op # "label"
    BY <2>1
  <2>3. QED
    BY SMTT(30), <2>1, <2>2, ReadingFacts
<1>2. name \in Names
  BY <1>1, OperandFacts
<1>3. TypeOK /\ NamesUnique
  BY DEF IInv
<1>4. /\ got.table \in Seq(Symbol)
      /\ got.index \in 1 .. Len(got.table)
      /\ got.table[got.index].name = name
      /\ \A i \in 1 .. Len(symbols) : got.table[i] = symbols[i]
      /\ \A i \in 1 .. Len(got.table) :
           i > Len(symbols) => got.table[i] = NewSymbol(name)
  <2>1. symbols \in Seq(Symbol) /\ UniqueNames(symbols)
    BY <1>3 DEF TypeOK, NamesUnique
  <2>2. QED
    BY <1>2, <2>1, GetOrCreateSymbolFacts
<1>5. Len(symbols) \in Nat
  BY <1>3, TypeFacts
<1>6. PICK new \in Symbol :
        /\ new.name = name
        /\ new.defined = got.table[got.index].defined
        /\ new.section = got.table[got.index].section
        /\ new.value = got.table[got.index].value
        /\ symbols' = [got.table EXCEPT ![got.index] = new]
  <2> DEFINE old == got.table[got.index]
             asGlobal == [old EXCEPT !.global = TRUE]
             asExtern == [old EXCEPT !.global = TRUE, !.external = TRUE]
  <2>1. \/ symbols' = [got.table EXCEPT ![got.index] = asGlobal]
        \/ symbols' = [got.table EXCEPT ![got.index] = asExtern]
    BY DEF DeclareGlobal, DeclareExtern
  <2> HIDE DEF got, name
  <2>2. old \in Symbol
    BY <1>4
  <2>3. /\ asGlobal \in Symbol /\ asExtern \in Symbol
        /\ asGlobal.name = old.name /\ asExtern.name = old.name
        /\ asGlobal.defined = old.defined /\ asExtern.defined = old.defined
        /\ asGlobal.section = old.section /\ asExtern.section = old.section
        /\ asGlobal.value = old.value /\ asExtern.value = old.value
    BY <2>2 DEF Symbol
  <2> HIDE DEF asGlobal, asExtern
  <2>4. QED
    BY SMTT(30), <1>4, <2>1, <2>3
<1>7. /\ SymbolsGrow
      /\ Len(symbols') = Len(got.table)
      /\ got.index \in 1 .. Len(symbols')
      /\ symbols'[got.index] = new
      /\ \A i \in 1 .. Len(symbols') :
           i # got.index => symbols'[i] = got.table[i]
  <2> HIDE DEF name
  <2>1. QED
    BY <1>2, <1>6, SymbolMentioned
<1>8. sections' = sections /\ current' = current /\ pending' = pending
  BY DEF DeclareGlobal, DeclareExtern
<1>9. SectionsGrow /\ RelocationsFollow
  BY SMTT(30), <1>8, SectionsStay
<1>10. ReadsOn
  BY <1>1, <1>3, <1>8
     DEF DeclareGlobal, DeclareExtern, ReadsOn, Reading, TypeOK
<1>11. SlotsFollow
  BY <1>8 DEF SlotsFollow
<1> HIDE DEF got, name
<1>12. LabelsFollow
  <2> SUFFICES ASSUME NEW i \in 1 .. Len(symbols'), symbols'[i].defined
               PROVE  /\ i <= Len(symbols)
                      /\ symbols[i].defined
                      /\ symbols'[i].section = symbols[i].section
                      /\ symbols'[i].value = symbols[i].value
    BY <1>1 DEF LabelsFollow
  <2>1. /\ symbols'[i].defined = got.table[i].defined
        /\ symbols'[i].section = got.table[i].section
        /\ symbols'[i].value = got.table[i].value
    BY <1>6, <1>7
  <2>2. ~NewSymbol(name).defined
    BY DEF NewSymbol
  <2>3. i <= Len(symbols) /\ got.table[i] = symbols[i]
    BY <1>4, <1>5, <1>7, <2>1, <2>2
  <2>4. QED
    BY <2>1, <2>3
<1>13. QED
  BY <1>7, <1>9, <1>10, <1>11, <1>12 DEF PassOneEffect

(* A section directive finds or adds an empty section.                     *)
LEMMA SelectSectionEffect ==
  ASSUME IInv, SelectSection
  PROVE  PassOneEffect
<1> DEFINE name == source[cursor].section
           got == GetOrCreateSection(sections, name)
<1>1. /\ phase = "pass1" /\ cursor \in 1 .. Len(source)
      /\ source[cursor].op = "section" /\ source[cursor] \in Statement
      /\ \A any : source[cursor] # [op |-> "label", name |-> any]
  BY ReadingFacts DEF SelectSection
<1>2. name \in SectionNames
  BY <1>1, OperandFacts
<1>3. TypeOK /\ NamesUnique /\ Bookkeeping
  BY DEF IInv
<1>4. /\ got.table \in Seq(Section)
      /\ UniqueNames(got.table)
      /\ got.index \in 1 .. Len(got.table)
      /\ Len(sections) <= Len(got.table)
      /\ \A s \in 1 .. Len(sections) : got.table[s] = sections[s]
      /\ \A s \in 1 .. Len(got.table) :
           s > Len(sections) => /\ got.table[s].data = << >>
                                /\ got.table[s].relocations = << >>
  <2>1. sections \in Seq(Section) /\ UniqueNames(sections)
    BY <1>3 DEF TypeOK, NamesUnique
  <2>2. QED
    BY <1>2, <2>1, GetOrCreateSectionFacts
<1>5. sections' = got.table /\ current' = got.index
  BY DEF SelectSection
<1>6. symbols' = symbols /\ pending' = pending
  BY DEF SelectSection
<1>7. SymbolsGrow /\ LabelsFollow
  BY <1>1, <1>6, SymbolsStay
<1>8. SlotsFollow
  BY <1>6 DEF SlotsFollow
<1> HIDE DEF got, name
<1>9. ReadsOn
  <2>1. Len(got.table) \in Nat
    BY <1>4
  <2>2. current' \in 0 .. Len(sections')
    BY <1>4, <1>5, <2>1
  <2>3. QED
    BY <1>1, <1>3, <2>2 DEF SelectSection, ReadsOn, Reading, TypeOK
<1>10. /\ Len(sections) \in Nat /\ Len(got.table) \in Nat
       /\ \A s \in 1 .. Len(sections) :
            /\ Len(sections[s].data) \in Nat
            /\ Len(sections[s].data) <= MaxSectionSize
            /\ Len(sections[s].relocations) \in Nat
  <2>1. Len(got.table) \in Nat
    BY <1>4
  <2>2. /\ Len(sections) \in Nat /\ DOMAIN sections = 1 .. Len(sections)
        /\ \A s \in 1 .. Len(sections) :
             /\ Len(sections[s].data) \in Nat
             /\ Len(sections[s].relocations) \in Nat
    BY <1>3, TypeFacts, DataFacts
  <2>3. \A s \in 1 .. Len(sections) : Len(sections[s].data) <= MaxSectionSize
    BY <1>3, <2>2 DEF Bookkeeping
  <2>4. QED
    BY <2>1, <2>2, <2>3
<1>11. SectionsGrow
  <2>1. ASSUME NEW s \in 1 .. Len(got.table)
        PROVE  Len(got.table[s].data) <= MaxSectionSize
    <3>1. CASE s > Len(sections)
      BY <1>4, <3>1, SizeAssumption
    <3>2. CASE s \in 1 .. Len(sections)
      BY <1>4, <1>10, <3>2
    <3>3. QED
      BY <1>10, <3>1, <3>2
  <2>2. ASSUME NEW s \in 1 .. Len(sections)
        PROVE  /\ Len(sections[s].data) <= Len(got.table[s].data)
               /\ \A i \in 1 .. Len(sections[s].data) :
                    got.table[s].data[i] = sections[s].data[i]
               /\ \A i \in 1 .. Len(got.table[s].data) :
                    ~(i > Len(sections[s].data))
    <3>1. got.table[s] = sections[s]
      BY <1>4
    <3>2. QED
      BY <1>10, <3>1
  <2>3. QED
    BY <1>4, <1>5, <2>1, <2>2 DEF SectionsGrow
<1>12. RelocationsFollow
  <2>1. ASSUME NEW s \in 1 .. Len(got.table),
               NEW r \in 1 .. Len(got.table[s].relocations)
        PROVE  /\ s <= Len(sections)
               /\ r <= Len(sections[s].relocations)
               /\ got.table[s].relocations[r] = sections[s].relocations[r]
    <3>1. CASE s > Len(sections)
      <4>1. got.table[s].relocations = << >>
        BY <1>4, <3>1
      <4>2. QED
        BY <4>1
    <3>2. CASE s \in 1 .. Len(sections)
      <4>1. got.table[s] = sections[s]
        BY <1>4, <3>2
      <4>2. QED
        BY <1>10, <3>2, <4>1
    <3>3. QED
      BY <1>10, <3>1, <3>2
  <2>2. QED
    BY <1>5, <2>1 DEF RelocationsFollow
<1>13. QED
  BY <1>7, <1>8, <1>9, <1>11, <1>12 DEF PassOneEffect

(* Padding and data grow the current section.                              *)
LEMMA GrowEffect ==
  ASSUME IInv, Align \/ AppendData
  PROVE  PassOneEffect
<1>1. /\ phase = "pass1" /\ cursor \in 1 .. Len(source) /\ cursor \in Nat
      /\ source[cursor].op \in {"align", "data"}
      /\ source[cursor] \in Statement
      /\ \A any : source[cursor] # [op |-> "label", name |-> any]
      /\ current \in 1 .. Len(sections)
  BY ReadingFacts DEF Align, AppendData, NeedsSection
<1>2. TypeOK /\ NamesUnique /\ Bookkeeping
  BY DEF IInv
<1>3. /\ symbols' = symbols /\ pending' = pending /\ current' = current
      /\ cursor' = cursor + 1 /\ source' = source /\ phase' = phase
      /\ next' = next /\ output' = output
  BY DEF Align, AppendData
<1>4. /\ Here \in Section /\ Here.data \in Seq(Byte)
      /\ Len(Here.data) <= MaxSectionSize
  BY <1>1, <1>2, TypeFacts, SectionFacts DEF Here, Bookkeeping
<1>5. PICK n \in Nat, kind \in {"data", "zero"}, new \in Section :
        /\ Fits(Here, n)
        /\ new.name = Here.name
        /\ new.data = Extended(Here.data, n, Written(kind))
        /\ new.relocations = Here.relocations
        /\ sections' = [sections EXCEPT ![current] = new]
  <2>1. CASE Align
    <3> DEFINE a == source[cursor].alignment
               n == Padding(Here, a)
               new == AlignSection(Here, a, Written("zero"))
    <3>1. a \in Alignments
      BY <1>1, <2>1, OperandFacts DEF Align, Reading
    <3>2. n \in Nat
      BY <1>4, <3>1, PaddingFacts
    <3>3. a \in Nat
      BY <3>1, AlignAssumption
    <3>4. Fits(Here, n) /\ sections' = [sections EXCEPT ![current] = new]
      BY <2>1 DEF Align
    <3>5. Extended(Here.data, n, Written("zero")) \in Seq(Byte)
      <4>1. Written("zero") \in Byte
        BY <1>1 DEF Written, Byte
      <4> HIDE DEF n
      <4>2. QED
        BY <1>4, <3>2, <4>1, ExtendedFacts
    <3>6. /\ new \in Section
          /\ new.name = Here.name
          /\ new.data = Extended(Here.data, n, Written("zero"))
          /\ new.relocations = Here.relocations
      <4> DEFINE d == Extended(Here.data, n, Written("zero"))
                 al == IF a > Here.align THEN a ELSE Here.align
      <4>1. new = [Here EXCEPT !.align = al, !.data = d]
        BY DEF AlignSection
      <4>2. al \in Nat
        BY <1>4, <3>3 DEF Section
      <4>3. d \in Seq(Byte)
        BY <3>5
      <4> HIDE DEF d, al, new
      <4>4. QED
        BY <1>4, <4>1, <4>2, <4>3 DEF Section, d
    <3> HIDE DEF n, new
    <3>7. QED
      BY <3>2, <3>4, <3>6
  <2>2. CASE AppendData
    <3> DEFINE n == source[cursor].size
               new == AppendBytes(Here, n, Written("data"))
    <3>1. n \in Nat
      BY <1>1, <2>2, OperandFacts DEF AppendData, Reading
    <3>2. Fits(Here, n) /\ sections' = [sections EXCEPT ![current] = new]
      BY <2>2 DEF AppendData
    <3> HIDE DEF n
    <3>3. /\ new \in Section
          /\ new.name = Here.name
          /\ new.data = Extended(Here.data, n, Written("data"))
          /\ new.relocations = Here.relocations
      BY <1>1, <3>1, BytesAppended
    <3> HIDE DEF new
    <3>4. QED
      BY <3>1, <3>2, <3>3
  <2>3. QED
    BY <2>1, <2>2
<1>6. /\ SectionsGrow
      /\ Len(sections') = Len(sections)
      /\ sections'[current] = new
      /\ \A s \in 1 .. Len(sections') :
           s # current => sections'[s] = sections[s]
  BY <1>1, <1>5, SectionGrown
<1>7. RelocationsFollow
  <2>1. \A s \in 1 .. Len(sections') :
          sections'[s].relocations = sections[s].relocations
    BY <1>5, <1>6 DEF Here
  <2>2. QED
    BY <1>6, <2>1, RelocationsStay
<1>8. SymbolsGrow /\ LabelsFollow
  BY <1>1, <1>3, SymbolsStay
<1>9. SlotsFollow
  BY <1>3 DEF SlotsFollow
<1>10. ReadsOn
  <2>1. Len(sections) \in Nat
    BY <1>2, TypeFacts
  <2>2. QED
    BY <1>1, <1>3, <1>6, <2>1 DEF ReadsOn
<1>11. QED
  BY <1>6, <1>7, <1>8, <1>9, <1>10 DEF PassOneEffect

(* Statements that emit nothing.                                           *)
LEMMA SkipEffect ==
  ASSUME IInv, SkipDirective
  PROVE  PassOneEffect
<1>1. /\ phase = "pass1" /\ cursor \in 1 .. Len(source)
      /\ \A any : source[cursor] # [op |-> "label", name |-> any]
  BY ReadingFacts DEF SkipDirective
<1>2. /\ sections' = sections /\ symbols' = symbols /\ pending' = pending
      /\ ReadsOn
  BY <1>1 DEF IInv, SkipDirective, ReadsOn, Reading, TypeOK
<1>3. QED
  BY <1>1, <1>2, SectionsStay, SymbolsStay DEF SlotsFollow, PassOneEffect

(* An instruction reserves its slot at the end of its section.             *)
LEMMA ReserveSlotEffect ==
  ASSUME IInv, ReserveSlot
  PROVE  PassOneEffect
<1> DEFINE new == AppendBytes(Here, SlotSize, Written("zero"))
           p == [section |-> current, offset |-> Len(Here.data),
                 line |-> cursor]
<1>1. /\ phase = "pass1" /\ cursor \in 1 .. Len(source) /\ cursor \in Nat
      /\ source[cursor].op = "instruction"
      /\ \A any : source[cursor] # [op |-> "label", name |-> any]
      /\ current \in 1 .. Len(sections)
  BY ReadingFacts DEF ReserveSlot, NeedsSection
<1>2. TypeOK
  BY DEF IInv
<1>3. /\ symbols' = symbols /\ current' = current
      /\ cursor' = cursor + 1 /\ source' = source /\ phase' = phase
      /\ next' = next /\ output' = output
      /\ pending' = Append(pending, p)
      /\ sections' = [sections EXCEPT ![current] = new]
      /\ Fits(Here, SlotSize)
  BY DEF ReserveSlot
<1>4. SlotSize \in Nat
  BY SlotSizeFacts
<1>5. /\ new \in Section
      /\ new.name = Here.name
      /\ new.data = Extended(Here.data, SlotSize, Written("zero"))
      /\ new.relocations = Here.relocations
  BY <1>1, <1>4, BytesAppended
<1> HIDE DEF new
<1>6. /\ SectionsGrow
      /\ Len(sections') = Len(sections)
      /\ sections'[current] = new
      /\ \A s \in 1 .. Len(sections') :
           s # current => sections'[s] = sections[s]
      /\ Len(Here.data) \in Nat
      /\ Len(new.data) = Len(Here.data) + SlotSize
      /\ \A i \in Bytes(Len(Here.data), SlotSize) :
           new.data[i] = Written("zero")
  BY <1>1, <1>3, <1>4, <1>5, SectionGrown
<1>7. RelocationsFollow
  <2>1. \A s \in 1 .. Len(sections') :
          sections'[s].relocations = sections[s].relocations
    BY <1>5, <1>6 DEF Here
  <2>2. QED
    BY <1>6, <2>1, RelocationsStay
<1>8. SymbolsGrow /\ LabelsFollow
  BY <1>1, <1>3, SymbolsStay
<1>9. Len(sections) \in Nat
  BY <1>2, TypeFacts
<1>10. ReadsOn
  BY <1>1, <1>3, <1>6, <1>9 DEF ReadsOn
<1>11. SlotsFollow
  <2>1. p \in Pending
    BY <1>1, <1>6, <1>9 DEF Pending
  <2>2. p.section = current /\ p.offset = Len(Here.data) /\ p.line = cursor
    OBVIOUS
  <2> HIDE DEF p
  <2>3. p.offset + SlotSize <= Len(new.data)
    BY <1>4, <1>6, <2>2
  <2>4. \A i \in Bytes(p.offset, SlotSize) :
          new.data[i].by = cursor /\ new.data[i].is = "zero"
    BY <1>6, <2>2 DEF Written
  <2>5. QED
    BY <1>1, <1>3, <1>6, <2>1, <2>2, <2>3, <2>4 DEF SlotsFollow
<1>12. QED
  BY <1>6, <1>7, <1>8, <1>10, <1>11 DEF PassOneEffect

(* .quad name adds eight bytes and the relocation that fills them.         *)
LEMMA AppendQuadEffect ==
  ASSUME IInv, AppendQuad
  PROVE  PassOneEffect
<1> DEFINE name == source[cursor].name
           got == GetOrCreateSymbol(symbols, name)
           grown == AppendBytes(Here, 8, Written("data"))
           rel == [offset |-> Len(Here.data), kind |-> "ABS64",
                   symbol |-> got.index]
           new == AddRelocation(grown, Len(Here.data), "ABS64", got.index)
<1>1. /\ phase = "pass1" /\ cursor \in 1 .. Len(source) /\ cursor \in Nat
      /\ source[cursor].op = "quad" /\ source[cursor] \in Statement
      /\ \A any : source[cursor] # [op |-> "label", name |-> any]
      /\ current \in 1 .. Len(sections)
  BY ReadingFacts DEF AppendQuad, NeedsSection
<1>2. TypeOK /\ NamesUnique
  BY DEF IInv
<1>3. /\ symbols' = got.table /\ current' = current
      /\ cursor' = cursor + 1 /\ source' = source /\ phase' = phase
      /\ next' = next /\ output' = output /\ pending' = pending
      /\ sections' = [sections EXCEPT ![current] = new]
      /\ Fits(Here, 8)
  BY DEF AppendQuad
<1>4. name \in Names
  BY <1>1, OperandFacts
<1>5. /\ got.table \in Seq(Symbol)
      /\ UniqueNames(got.table)
      /\ got.index \in 1 .. Len(got.table)
      /\ got.table[got.index].name = name
      /\ Len(symbols) <= Len(got.table)
      /\ \A i \in 1 .. Len(symbols) : got.table[i] = symbols[i]
      /\ \A i \in 1 .. Len(got.table) :
           i > Len(symbols) => got.table[i] = NewSymbol(name)
  <2>1. symbols \in Seq(Symbol) /\ UniqueNames(symbols)
    BY <1>2 DEF TypeOK, NamesUnique
  <2>2. QED
    BY <1>4, <2>1, GetOrCreateSymbolFacts
<1>6. /\ grown \in Section
      /\ grown.name = Here.name
      /\ grown.data = Extended(Here.data, 8, Written("data"))
      /\ grown.relocations = Here.relocations
  BY <1>1, BytesAppended
<1>7. /\ Here \in Section /\ Len(Here.data) \in Nat
      /\ Here.relocations \in Seq(Relocation)
      /\ Len(sections) \in Nat /\ Len(symbols) \in Nat
  BY <1>1, <1>2, TypeFacts, SectionFacts DEF Here
<1>8. /\ new = [grown EXCEPT !.relocations = Append(grown.relocations, rel)]
      /\ rel.offset = Len(Here.data) /\ rel.kind = "ABS64"
      /\ rel.symbol = got.index
  BY DEF AddRelocation
<1> HIDE DEF got, name, grown, new
<1>9. rel \in Relocation
  <2>1. Len(got.table) \in Nat
    BY <1>5
  <2>2. got.index \in Nat
    BY <1>5, <2>1
  <2>3. QED
    BY <1>7, <2>2 DEF Relocation, RelocationKinds
<1> HIDE DEF rel
<1>10. /\ new \in Section /\ new.name = Here.name
       /\ new.data = Extended(Here.data, 8, Written("data"))
       /\ new.relocations = Append(Here.relocations, rel)
  <2>1. Append(Here.relocations, rel) \in Seq(Relocation)
    BY <1>7, <1>9
  <2>2. QED
    BY <1>6, <1>8, <2>1 DEF Section
<1>11. /\ SectionsGrow
       /\ Len(sections') = Len(sections)
       /\ sections'[current] = new
       /\ \A s \in 1 .. Len(sections') :
            s # current => sections'[s] = sections[s]
       /\ Len(new.data) = Len(Here.data) + 8
       /\ \A i \in Bytes(Len(Here.data), 8) : new.data[i] = Written("data")
  <2>1. 8 \in Nat
    OBVIOUS
  <2>2. QED
    BY <1>1, <1>3, <1>10, <2>1, SectionGrown
<1>12. SymbolsGrow
  BY <1>3, <1>5 DEF SymbolsGrow
<1>13. LabelsFollow
  <2>1. ASSUME NEW i \in 1 .. Len(got.table), got.table[i].defined
        PROVE  i <= Len(symbols) /\ got.table[i] = symbols[i]
    <3>1. ~NewSymbol(name).defined
      BY DEF NewSymbol
    <3>2. i <= Len(symbols)
      BY <1>5, <1>7, <2>1, <3>1
    <3>3. QED
      BY <1>5, <1>7, <3>2
  <2>2. QED
    BY <1>1, <1>3, <2>1 DEF LabelsFollow
<1>14. RelocationsFollow
  <2> SUFFICES ASSUME NEW s \in 1 .. Len(sections'),
                      NEW r \in 1 .. Len(sections'[s].relocations)
               PROVE
        LET it == sections'[s].relocations[r]
        IN  \/ /\ s <= Len(sections)
               /\ r <= Len(sections[s].relocations)
               /\ it = sections[s].relocations[r]
            \/ /\ source[cursor].op = "quad"
               /\ it.symbol \in 1 .. Len(symbols')
               /\ symbols'[it.symbol].name = source[cursor].name
               /\ it.offset + Width(it.kind) <= Len(sections'[s].data)
               /\ \A i \in Bytes(it.offset, Width(it.kind)) :
                    sections'[s].data[i].by = cursor
    BY DEF RelocationsFollow
  <2>1. s \in 1 .. Len(sections) /\ s <= Len(sections)
    BY <1>7, <1>11
  <2>2. CASE s # current
    <3>1. sections'[s] = sections[s]
      BY <1>11, <2>2
    <3>2. Len(sections[s].relocations) \in Nat
      BY <1>2, <2>1, DataFacts
    <3>3. QED
      BY <2>1, <3>1, <3>2
  <2>3. CASE s = current
    <3>1. sections'[s] = new /\ sections[s] = Here
      BY <1>11, <2>3 DEF Here
    <3>2. CASE r \in 1 .. Len(Here.relocations)
      <4>1. new.relocations[r] = Here.relocations[r]
        BY <1>7, <1>10, <3>2
      <4>2. r <= Len(Here.relocations)
        BY <1>7, <3>2
      <4>3. QED
        BY <2>1, <3>1, <4>1, <4>2
    <3>3. CASE r = Len(Here.relocations) + 1
      <4>1. new.relocations[r] = rel
        BY <1>7, <1>10, <3>3
      <4>2. Width(rel.kind) = 8
        BY <1>8 DEF Width
      <4>3. /\ rel.offset + Width(rel.kind) <= Len(new.data)
            /\ \A i \in Bytes(rel.offset, Width(rel.kind)) :
                 new.data[i].by = cursor
        BY <1>7, <1>8, <1>11, <4>2 DEF Written
      <4>4. /\ rel.symbol \in 1 .. Len(symbols')
            /\ symbols'[rel.symbol].name = source[cursor].name
        BY <1>3, <1>5, <1>8 DEF name
      <4>5. QED
        BY <1>1, <3>1, <4>1, <4>3, <4>4
    <3>4. Len(new.relocations) = Len(Here.relocations) + 1
      BY <1>7, <1>9, <1>10
    <3>5. QED
      BY <1>7, <3>1, <3>2, <3>3, <3>4
  <2>4. QED
    BY <2>2, <2>3
<1>15. SlotsFollow
  BY <1>3 DEF SlotsFollow
<1>16. ReadsOn
  BY <1>1, <1>3, <1>7, <1>11 DEF ReadsOn
<1>17. QED
  BY <1>11, <1>12, <1>13, <1>14, <1>15, <1>16 DEF PassOneEffect

-----------------------------------------------------------------------------
(* Pass two.                                                               *)

(* The effect of encoding one instruction: the bytes of its slot change    *)
(* but not whose they are, relocations and undefined symbols are added.    *)

BytesPatched(p, st) ==
  /\ sections' \in Seq(Section)
  /\ Len(sections') = Len(sections)
  /\ \A s \in 1 .. Len(sections) :
       /\ sections'[s].name = sections[s].name
       /\ sections'[s].align = sections[s].align
       /\ Len(sections'[s].data) = Len(sections[s].data)
       /\ \A i \in 1 .. Len(sections[s].data) :
            /\ sections'[s].data[i].by = sections[s].data[i].by
            /\ s # p.section \/ i \notin Bytes(p.offset, SlotSize) =>
                 sections'[s].data[i] = sections[s].data[i]
  /\ \A i \in Bytes(p.offset, SlotSize) :
       sections'[p.section].data[i].is \in {"code", "fill"}
  /\ sections'[p.section].data[p.offset + 1].imm = Displacement(st, p)

RelocationAdded(p, st) ==
  /\ \A s \in 1 .. Len(sections) :
       /\ Len(sections[s].relocations) <= Len(sections'[s].relocations)
       /\ \A r \in 1 .. Len(sections[s].relocations) :
            sections'[s].relocations[r] = sections[s].relocations[r]
       /\ \A r \in 1 .. Len(sections'[s].relocations) :
            r > Len(sections[s].relocations) =>
              LET rel == sections'[s].relocations[r]
              IN  /\ s = p.section
                  /\ rel.symbol \in 1 .. Len(symbols')
                  /\ symbols'[rel.symbol].name = st.target
                  /\ rel.offset = p.offset + st.at
                  /\ rel.kind = KindOf(st.form) /\ rel.kind # "ABS64"
                  /\ UsesSymbol(st, p.section) /\ st.at + 4 <= SlotSize
  /\ UsesSymbol(st, p.section) =>
       \E r \in 1 .. Len(sections'[p.section].relocations) :
         LET rel == sections'[p.section].relocations[r]
         IN  /\ rel.symbol \in 1 .. Len(symbols')
             /\ symbols'[rel.symbol].name = st.target
             /\ rel.offset = p.offset + st.at
             /\ rel.kind = KindOf(st.form)

SymbolsAdded(p, st) ==
  /\ symbols' \in Seq(Symbol)
  /\ UniqueNames(symbols')
  /\ Len(symbols) <= Len(symbols')
  /\ \A i \in 1 .. Len(symbols) : symbols'[i] = symbols[i]
  /\ \A i \in 1 .. Len(symbols') :
       i > Len(symbols) =>
         /\ UsesSymbol(st, p.section)
         /\ symbols'[i] = NewSymbol(st.target) /\ ~symbols'[i].defined

(* InSection, looked up in the symbol table given.                         *)
InTable(table, name, section) ==
  LET i == Find(table, name)
  IN  i # None /\ table[i].defined /\ table[i].section = section

(* What ReferencesResolved says of one encoded instruction.                *)
Resolved(p, st, table, sec) ==
  IF st.form \in {"b", "b.cond"} /\ InTable(table, st.target, p.section)
  THEN sec.data[p.offset + 1].imm =
         BranchField(st.form, table[Find(table, st.target)].value - p.offset)
  ELSE st.form # "plain" =>
         \E r \in DOMAIN sec.relocations :
           LET rel == sec.relocations[r]
           IN  /\ rel.offset = p.offset + st.at
               /\ rel.kind = KindOf(st.form)
               /\ table[rel.symbol].name = st.target

PassTwoEffect ==
  LET p  == pending[next]
      st == source[p.line]
  IN  /\ phase = "pass2" /\ phase' = "pass2"
      /\ next \in 1 .. Len(pending) /\ next' = next + 1
      /\ source' = source /\ cursor' = cursor /\ current' = current
      /\ pending' = pending /\ output' = output
      /\ Encodable(st, p.section)
      /\ BytesPatched(p, st) /\ RelocationAdded(p, st) /\ SymbolsAdded(p, st)

(* The instruction that pass two is about to encode.                       *)
LEMMA EncodingFacts ==
  ASSUME IInv, EncodeInstruction
  PROVE  LET p  == pending[next]
             st == source[p.line]
         IN  /\ next \in 1 .. Len(pending)
             /\ p \in Pending
             /\ p.line \in 1 .. Len(source)
             /\ st \in Statement /\ st.op = "instruction"
             /\ st.target \in Names /\ st.size \in 1 .. SlotSize
             /\ st.at \in Nat
             /\ UsesSymbol(st, p.section) => st.at + 4 <= SlotSize
             /\ Encodable(st, p.section)
             /\ p.section \in 1 .. Len(sections)
             /\ p.offset + SlotSize <= Len(sections[p.section].data)
             /\ \A i \in Bytes(p.offset, SlotSize) :
                  /\ sections[p.section].data[i].by = p.line
                  /\ sections[p.section].data[i].is = "zero"
<1> DEFINE p  == pending[next]
           st == source[p.line]
<1>1. TypeOK /\ Bookkeeping /\ SlotsIntact
  BY DEF IInv
<1>2. next \in 1 .. Len(pending) /\ next \in Nat
  <2>1. next \in Nat \ {0} /\ Len(pending) \in Nat
    BY <1>1, TypeFacts DEF TypeOK
  <2>2. QED
    BY <2>1 DEF EncodeInstruction
<1>3. p \in Pending /\ DOMAIN pending = 1 .. Len(pending)
  BY <1>1, <1>2, TypeFacts
<1>4. p.line \in 1 .. Len(source) /\ st.op = "instruction"
  <2>1. p.line \in 1 .. cursor - 1 /\ st.op = "instruction"
    BY <1>1, <1>2, <1>3 DEF Bookkeeping
  <2>2. /\ cursor \in Nat /\ Len(source) \in Nat
        /\ cursor <= Len(source) + 1
    BY <1>1, TypeFacts DEF TypeOK, Bookkeeping
  <2>3. QED
    BY <2>1, <2>2
<1>5. st \in Statement
  BY <1>1, <1>4, TypeFacts
<1>6. st.target \in Names /\ st.size \in 1 .. 16 /\ st.at \in Nat
  BY <1>4, <1>5, OperandFacts
<1>7. Encodable(st, p.section)
  BY DEF EncodeInstruction
<1>8. st.size \in 1 .. SlotSize
  BY <1>6, <1>7, SlotSizeFacts DEF Encodable
<1>9. UsesSymbol(st, p.section) => st.at + 4 <= SlotSize
  <2>1. IF Arch = "arm64"
        THEN st.form \in Arm64Forms /\ st.size = 4 /\ st.at = 0
        ELSE /\ st.form \in X86Forms
             /\ st.form \in {"rel32", "rip"} => st.at + 4 <= st.size
    <3>1. \A k \in DOMAIN source :
            source[k].op = "instruction" =>
              IF Arch = "arm64"
              THEN /\ source[k].form \in Arm64Forms
                   /\ source[k].size = 4 /\ source[k].at = 0
              ELSE /\ source[k].form \in X86Forms
                   /\ source[k].form \in {"rel32", "rip"} =>
                        source[k].at + 4 <= source[k].size
      BY <1>1 DEF TypeOK, IsSource
    <3>2. p.line \in DOMAIN source
      BY <1>1, <1>4, TypeFacts
    <3>3. QED
      BY <1>4, <3>1, <3>2
  <2>2. CASE Arch = "arm64"
    <3>1. st.at = 0 /\ SlotSize = 4
      BY <2>1, <2>2 DEF SlotSize
    <3>2. QED
      BY <3>1
  <2>3. CASE Arch # "arm64"
    <3>1. SUFFICES ASSUME UsesSymbol(st, p.section)
                   PROVE  st.at + 4 <= SlotSize
      OBVIOUS
    <3>2. st.form \in {"rel32", "rip"}
      BY <2>1, <2>3, <3>1 DEF UsesSymbol, X86Forms
    <3>3. st.at + 4 <= st.size
      BY <2>1, <2>3, <3>2
    <3>4. QED
      BY <1>6, <1>8, <3>3, SlotSizeFacts
  <2>4. QED
    BY <2>2, <2>3
<1>10. /\ p.section \in 1 .. Len(sections)
       /\ p.offset + SlotSize <= Len(sections[p.section].data)
       /\ \A i \in Bytes(p.offset, SlotSize) :
            /\ sections[p.section].data[i].by = p.line
            /\ sections[p.section].data[i].is = "zero"
  <2>1. ~(next < next)
    BY <1>2
  <2>2. DOMAIN sections = 1 .. Len(sections)
    BY <1>1, TypeFacts
  <2>3. QED
    BY <1>1, <1>2, <1>3, <2>1, <2>2 DEF SlotsIntact
<1>11. QED
  BY <1>2, <1>3, <1>4, <1>5, <1>6, <1>7, <1>8, <1>9, <1>10

(* In a table without duplicate names, Find is the entry of the name.      *)
LEMMA FindIs ==
  ASSUME NEW T, NEW table \in Seq(T), UniqueNames(table),
         NEW i \in 1 .. Len(table)
  PROVE  Find(table, table[i].name) = i
<1>1. i \in DOMAIN table
  OBVIOUS
<1>2. Find(table, table[i].name) \in DOMAIN table
      /\ table[Find(table, table[i].name)].name = table[i].name
  BY <1>1, FindFacts
<1>3. QED
  BY <1>1, <1>2 DEF UniqueNames

(* The lookup of a branch target finds a label of the section or nothing.  *)
LEMMA InSectionFacts ==
  ASSUME IInv, NEW name, NEW section, InSection(name, section)
  PROVE  LET i == Find(symbols, name)
         IN  /\ i \in 1 .. Len(symbols)
             /\ symbols[i].name = name /\ symbols[i].defined
             /\ symbols[i].section = section
<1>1. symbols \in Seq(Symbol) /\ UniqueNames(symbols)
  BY DEF IInv, TypeOK, NamesUnique
<1>2. /\ Find(symbols, name) \in DOMAIN symbols
      /\ symbols[Find(symbols, name)].name = name
  BY <1>1, FindFacts DEF InSection
<1>3. QED
  BY <1>1, <1>2 DEF InSection

(* The displacement is a number.                                           *)
LEMMA DisplacementType ==
  ASSUME IInv, NEW st, NEW p \in Pending
  PROVE  Displacement(st, p) \in Int
<1>1. CASE st.form \in {"b", "b.cond"} /\ InSection(st.target, p.section)
  <2> DEFINE i == Find(symbols, st.target)
             span == IF st.form = "b" THEN Imm26Span ELSE Imm19Span
             words == (symbols[i].value - p.offset) \div 4
  <2>1. i \in 1 .. Len(symbols)
    BY <1>1, InSectionFacts
  <2>2. symbols[i].value \in Nat
    BY <2>1, TypeFacts DEF IInv, Symbol
  <2>3. p.offset \in Nat
    BY DEF Pending
  <2>4. words \in Int
    BY <2>2, <2>3
  <2>5. span \in Nat \ {0}
    BY SpanAssumption
  <2>6. words % span \in Int
    <3> HIDE DEF words, span
    <3>1. QED
      BY <2>4, <2>5
  <2>7. Displacement(st, p) = words % span
    BY <1>1 DEF Displacement, BranchField
  <2>8. QED
    BY <2>6, <2>7
<1>2. CASE ~(st.form \in {"b", "b.cond"} /\ InSection(st.target, p.section))
  BY <1>2 DEF Displacement
<1>3. QED
  BY <1>1, <1>2

(* What the bytes of a section are after an instruction is patched in.     *)
LEMMA PatchedFacts ==
  ASSUME IInv, NEW p \in Pending, p.line \in Nat,
         NEW st, st.size \in 1 .. SlotSize,
         NEW data \in Seq(Byte), p.offset + SlotSize <= Len(data),
         \A i \in Bytes(p.offset, SlotSize) : data[i].by = p.line
  PROVE  LET new == Patched(data, p, st)
         IN  /\ new \in Seq(Byte)
             /\ Len(new) = Len(data)
             /\ \A i \in 1 .. Len(data) :
                  /\ new[i].by = data[i].by
                  /\ i \notin Bytes(p.offset, SlotSize) => new[i] = data[i]
             /\ \A i \in Bytes(p.offset, SlotSize) :
                  new[i].is \in {"code", "fill"}
             /\ new[p.offset + 1].imm = Displacement(st, p)
<1> DEFINE new == Patched(data, p, st)
           code == [by |-> p.line, is |-> "code", imm |-> Displacement(st, p)]
           fill == [by |-> p.line, is |-> "fill", imm |-> 0]
<1>1. Len(data) \in Nat /\ \A i \in 1 .. Len(data) : data[i] \in Byte
  OBVIOUS
<1>2. code \in Byte /\ fill \in Byte
  BY DisplacementType DEF Byte
<1>3. /\ code.by = p.line /\ code.is = "code" /\ code.imm = Displacement(st, p)
      /\ fill.by = p.line /\ fill.is = "fill"
  OBVIOUS
<1> HIDE DEF code, fill
<1>4. new = [i \in 1 .. Len(data) |->
               IF i \in p.offset + 1 .. p.offset + st.size THEN code
               ELSE IF i \in p.offset + st.size + 1 .. p.offset + SlotSize
                    THEN fill ELSE data[i]]
  BY DEF Patched, code, fill
<1> HIDE DEF new
<1>5. p.offset \in Nat /\ SlotSize \in Nat /\ st.size \in Nat
      /\ 1 <= st.size /\ st.size <= SlotSize
  BY SlotSizeFacts DEF Pending
<1>6. new \in [1 .. Len(data) -> Byte]
  BY <1>1, <1>2, <1>4
<1>7. new \in Seq(Byte) /\ Len(new) = Len(data)
  BY <1>1, <1>6, SeqDef
<1>8. ASSUME NEW i \in 1 .. Len(data)
      PROVE  \/ i \in Bytes(p.offset, SlotSize) /\ new[i] \in {code, fill}
             \/ i \notin Bytes(p.offset, SlotSize) /\ new[i] = data[i]
  BY <1>1, <1>4, <1>5 DEF Bytes
<1>9. \A i \in Bytes(p.offset, SlotSize) : i \in 1 .. Len(data)
  BY <1>1, <1>5 DEF Bytes
<1>10. new[p.offset + 1] = code
  <2>1. /\ p.offset + 1 \in 1 .. Len(data)
        /\ p.offset + 1 \in p.offset + 1 .. p.offset + st.size
    BY <1>1, <1>5
  <2>2. QED
    BY <1>4, <2>1
<1>11. QED
  BY <1>3, <1>7, <1>8, <1>9, <1>10 DEF new

(* Encoding an instruction has the effect of pass two.                     *)
LEMMA EncodeEffect ==
  ASSUME IInv, EncodeInstruction
  PROVE  PassTwoEffect
<1> DEFINE p  == pending[next]
           st == source[p.line]
           old == sections[p.section]
           got == GetOrCreateSymbol(symbols, st.target)
           rel == [offset |-> p.offset + st.at, kind |-> KindOf(st.form),
                   symbol |-> got.index]
           uses == UsesSymbol(st, p.section)
           patched == Patched(old.data, p, st)
           rels == IF uses THEN Append(old.relocations, rel)
                           ELSE old.relocations
           new == [old EXCEPT !.data = patched, !.relocations = rels]
<1>1. /\ next \in 1 .. Len(pending) /\ p \in Pending
      /\ p.line \in 1 .. Len(source)
      /\ st.target \in Names /\ st.size \in 1 .. SlotSize /\ st.at \in Nat
      /\ uses => st.at + 4 <= SlotSize
      /\ Encodable(st, p.section)
      /\ p.section \in 1 .. Len(sections)
      /\ p.offset + SlotSize <= Len(old.data)
      /\ \A i \in Bytes(p.offset, SlotSize) : old.data[i].by = p.line
  BY EncodingFacts
<1>2. /\ symbols \in Seq(Symbol) /\ UniqueNames(symbols)
      /\ sections \in Seq(Section) /\ UniqueNames(sections)
      /\ Len(symbols) \in Nat /\ Len(sections) \in Nat
      /\ DOMAIN sections = 1 .. Len(sections)
  BY TypeFacts DEF IInv, TypeOK, NamesUnique
<1>3. /\ got.table \in Seq(Symbol) /\ UniqueNames(got.table)
      /\ got.index \in 1 .. Len(got.table)
      /\ got.table[got.index].name = st.target
      /\ Len(symbols) <= Len(got.table)
      /\ \A i \in 1 .. Len(symbols) : got.table[i] = symbols[i]
      /\ \A i \in 1 .. Len(got.table) :
           i > Len(symbols) => got.table[i] = NewSymbol(st.target)
  <2> HIDE DEF st
  <2>1. QED
    BY <1>1, <1>2, GetOrCreateSymbolFacts
<1>4. symbols' = IF uses THEN got.table ELSE symbols
  BY DEF EncodeInstruction
<1>5. /\ old \in Section /\ old.data \in Seq(Byte)
      /\ old.relocations \in Seq(Relocation)
      /\ Len(old.relocations) \in Nat /\ Len(old.data) \in Nat
  BY <1>1, <1>2, TypeFacts, SectionFacts DEF IInv
<1>6. sections' = [sections EXCEPT ![p.section] = new]
  <2>1. CASE uses
    <3>1. new = AddRelocation(PatchedSection(p, st), FieldOffset(p, st),
                              KindOf(st.form), got.index)
      BY <1>5, <2>1 DEF AddRelocation, PatchedSection, FieldOffset, Section
    <3>2. QED
      BY <2>1, <3>1 DEF EncodeInstruction
  <2>2. CASE ~uses
    <3>1. new = PatchedSection(p, st)
      BY <1>5, <2>2 DEF PatchedSection, Section
    <3>2. QED
      BY <2>2, <3>1 DEF EncodeInstruction
  <2>3. QED
    BY SMTT(30), <2>1, <2>2
<1>7. /\ patched \in Seq(Byte)
      /\ Len(patched) = Len(old.data)
      /\ \A i \in 1 .. Len(old.data) :
           /\ patched[i].by = old.data[i].by
           /\ i \notin Bytes(p.offset, SlotSize) => patched[i] = old.data[i]
      /\ \A i \in Bytes(p.offset, SlotSize) : patched[i].is \in {"code", "fill"}
      /\ patched[p.offset + 1].imm = Displacement(st, p)
  <2>1. p.line \in Nat
    <3>1. Len(source) \in Nat
      BY TypeFacts DEF IInv
    <3>2. QED
      BY <1>1, <3>1
  <2>2. PICK data : data = old.data
    OBVIOUS
  <2> HIDE DEF p, st, old
  <2>3. /\ p \in Pending /\ p.line \in Nat /\ st.size \in 1 .. SlotSize
        /\ data \in Seq(Byte) /\ p.offset + SlotSize <= Len(data)
        /\ \A i \in Bytes(p.offset, SlotSize) : data[i].by = p.line
    BY <1>1, <1>5, <2>1, <2>2
  <2>4. /\ Patched(data, p, st) \in Seq(Byte)
        /\ Len(Patched(data, p, st)) = Len(data)
        /\ \A i \in 1 .. Len(data) :
             /\ Patched(data, p, st)[i].by = data[i].by
             /\ i \notin Bytes(p.offset, SlotSize) =>
                  Patched(data, p, st)[i] = data[i]
        /\ \A i \in Bytes(p.offset, SlotSize) :
             Patched(data, p, st)[i].is \in {"code", "fill"}
        /\ Patched(data, p, st)[p.offset + 1].imm = Displacement(st, p)
    BY <2>3, PatchedFacts
  <2>5. QED
    BY <2>2, <2>4
<1>8. rel \in Relocation /\ rel.offset = p.offset + st.at
      /\ rel.kind = KindOf(st.form) /\ rel.symbol = got.index
      /\ rel.kind # "ABS64"
  <2> HIDE DEF got, st, p
  <2>1. Len(got.table) \in Nat
    BY <1>3
  <2>2. got.index \in Nat
    BY <1>3, <2>1
  <2>3. p.offset + st.at \in Nat
    BY <1>1 DEF Pending
  <2>4. KindOf(st.form) \in RelocationKinds /\ KindOf(st.form) # "ABS64"
    BY DEF KindOf, RelocationKinds
  <2>5. QED
    BY <2>2, <2>3, <2>4 DEF Relocation
<1> HIDE DEF patched, got, rel
<1>9. rels \in Seq(Relocation)
  BY <1>5, <1>8
<1>10. /\ new \in Section /\ new.name = old.name /\ new.align = old.align
       /\ new.data = patched /\ new.relocations = rels
  <2> HIDE DEF rels, old
  <2>1. QED
    BY <1>5, <1>7, <1>9 DEF Section
<1> HIDE DEF new, p, st, uses
<1>11. /\ sections' \in Seq(Section)
       /\ Len(sections') = Len(sections)
       /\ \A s \in 1 .. Len(sections) :
            sections'[s] = IF s = p.section THEN new ELSE sections[s]
  <2> DEFINE table == [sections EXCEPT ![p.section] = new]
  <2>1. /\ table \in Seq(Section)
        /\ Len(table) = Len(sections)
        /\ \A s \in 1 .. Len(sections) :
             table[s] = IF s = p.section THEN new ELSE sections[s]
    BY <1>1, <1>2, <1>10, ExceptSeq
  <2>2. sections' = table
    BY <1>6
  <2> HIDE DEF table
  <2>3. QED
    BY <2>1, <2>2
<1>12. BytesPatched(p, st)
  <2>1. ASSUME NEW s \in 1 .. Len(sections)
        PROVE  /\ sections'[s].name = sections[s].name
               /\ sections'[s].align = sections[s].align
               /\ Len(sections'[s].data) = Len(sections[s].data)
               /\ \A i \in 1 .. Len(sections[s].data) :
                    /\ sections'[s].data[i].by = sections[s].data[i].by
                    /\ s # p.section \/ i \notin Bytes(p.offset, SlotSize) =>
                         sections'[s].data[i] = sections[s].data[i]
    <3>1. CASE s = p.section
      <4>1. sections'[s] = new /\ sections[s] = old
        BY <1>11, <3>1
      <4>2. QED
        BY <1>7, <1>10, <3>1, <4>1
    <3>2. CASE s # p.section
      BY <1>11, <3>2
    <3>3. QED
      BY <3>1, <3>2
  <2>2. sections'[p.section].data = patched
    BY <1>1, <1>10, <1>11
  <2>3. QED
    BY <1>7, <1>11, <2>1, <2>2 DEF BytesPatched
<1>13. SymbolsAdded(p, st)
  <2>1. ~NewSymbol(st.target).defined
    BY DEF NewSymbol
  <2>2. \A i \in 1 .. Len(symbols) : ~(i > Len(symbols))
    BY <1>2
  <2>3. QED
    BY <1>2, <1>3, <1>4, <2>1, <2>2 DEF SymbolsAdded, uses
<1>14. uses => /\ rel.symbol \in 1 .. Len(symbols')
               /\ symbols'[rel.symbol].name = st.target
  BY <1>3, <1>4, <1>8
<1>15. RelocationAdded(p, st)
  <2>1. /\ Len(old.relocations) <= Len(rels)
        /\ \A r \in 1 .. Len(old.relocations) : rels[r] = old.relocations[r]
        /\ \A r \in 1 .. Len(rels) :
             r > Len(old.relocations) => uses /\ rels[r] = rel
        /\ uses => /\ Len(old.relocations) + 1 \in 1 .. Len(rels)
                   /\ rels[Len(old.relocations) + 1] = rel
    <3>1. CASE uses
      <4> HIDE DEF old
      <4>1. rels = Append(old.relocations, rel)
        BY <3>1
      <4>2. /\ Len(rels) = Len(old.relocations) + 1
            /\ \A r \in 1 .. Len(old.relocations) :
                 rels[r] = old.relocations[r]
            /\ rels[Len(old.relocations) + 1] = rel
        BY <1>5, <1>8, <4>1
      <4>3. QED
        BY <1>5, <3>1, <4>2
    <3>2. CASE ~uses
      <4> HIDE DEF old
      <4>1. rels = old.relocations
        BY <3>2
      <4>2. QED
        BY <1>5, <3>2, <4>1
    <3>3. QED
      BY <3>1, <3>2
  <2>2. sections'[p.section].relocations = rels
    BY <1>1, <1>10, <1>11
  <2> HIDE DEF rels
  <2>3. ASSUME NEW s \in 1 .. Len(sections)
        PROVE  /\ Len(sections[s].relocations) <= Len(sections'[s].relocations)
               /\ \A r \in 1 .. Len(sections[s].relocations) :
                    sections'[s].relocations[r] = sections[s].relocations[r]
               /\ \A r \in 1 .. Len(sections'[s].relocations) :
                    r > Len(sections[s].relocations) =>
                      s = p.section /\ uses /\ sections'[s].relocations[r] = rel
    <3>1. CASE s = p.section
      <4>1. sections'[s].relocations = rels /\ sections[s] = old
        BY <2>2, <3>1
      <4> HIDE DEF old
      <4>2. QED
        BY <2>1, <3>1, <4>1
    <3>2. CASE s # p.section
      <4>1. sections'[s] = sections[s]
        BY <1>11, <3>2
      <4>2. Len(sections[s].relocations) \in Nat
        BY DataFacts DEF IInv
      <4>3. QED
        BY <4>1, <4>2
    <3>3. QED
      BY <3>1, <3>2
  <2>4. uses <=> UsesSymbol(st, p.section)
    BY DEF uses
  <2>5. \A s \in 1 .. Len(sections) :
          \A r \in 1 .. Len(sections'[s].relocations) :
            r > Len(sections[s].relocations) =>
              LET it == sections'[s].relocations[r]
              IN  /\ s = p.section
                  /\ it.symbol \in 1 .. Len(symbols')
                  /\ symbols'[it.symbol].name = st.target
                  /\ it.offset = p.offset + st.at
                  /\ it.kind = KindOf(st.form) /\ it.kind # "ABS64"
                  /\ UsesSymbol(st, p.section) /\ st.at + 4 <= SlotSize
    BY <1>1, <1>8, <1>14, <2>3, <2>4
  <2>6. uses =>
          \E r \in 1 .. Len(sections'[p.section].relocations) :
            sections'[p.section].relocations[r] = rel
    BY <2>1, <2>2
  <2>7. uses =>
          \E r \in 1 .. Len(sections'[p.section].relocations) :
            LET it == sections'[p.section].relocations[r]
            IN  /\ it.symbol \in 1 .. Len(symbols')
                /\ symbols'[it.symbol].name = st.target
                /\ it.offset = p.offset + st.at
                /\ it.kind = KindOf(st.form)
    BY <1>8, <1>14, <2>6
  <2>8. QED
    BY <2>3, <2>4, <2>5, <2>7 DEF RelocationAdded
<1>16. /\ phase = "pass2" /\ phase' = "pass2" /\ next' = next + 1
       /\ source' = source /\ cursor' = cursor /\ current' = current
       /\ pending' = pending /\ output' = output
  BY DEF EncodeInstruction
<1>17. QED
  BY <1>1, <1>12, <1>13, <1>15, <1>16 DEF PassTwoEffect, p, st

(* Encoding an instruction preserves the invariant.                        *)
LEMMA EncodePreserves ==
  ASSUME IInv, EncodeInstruction
  PROVE  IInv'
<1> DEFINE p  == pending[next]
           st == source[p.line]
<1>1. /\ TypeOK /\ NamesUnique /\ Bookkeeping /\ RelocationsNameTheirTarget
      /\ SlotsIntact /\ LabelsMarkTheirPlace /\ ReferencesResolved
  BY DEF IInv
<1>2. /\ phase = "pass2" /\ phase' = "pass2"
      /\ next \in 1 .. Len(pending) /\ next' = next + 1
      /\ source' = source /\ cursor' = cursor /\ current' = current
      /\ pending' = pending /\ output' = output
  BY EncodeEffect DEF PassTwoEffect
<1>3. /\ Encodable(st, p.section)
      /\ BytesPatched(p, st) /\ RelocationAdded(p, st) /\ SymbolsAdded(p, st)
  BY EncodeEffect DEF PassTwoEffect
<1>4. /\ p \in Pending /\ p.line \in 1 .. Len(source)
      /\ st \in Statement /\ st.op = "instruction" /\ st.at \in Nat
      /\ UsesSymbol(st, p.section) => st.at + 4 <= SlotSize
      /\ p.section \in 1 .. Len(sections)
      /\ p.offset + SlotSize <= Len(sections[p.section].data)
      /\ \A i \in Bytes(p.offset, SlotSize) :
           sections[p.section].data[i].by = p.line
  BY EncodingFacts
<1>u. /\ DOMAIN sections = 1 .. Len(sections) /\ Len(sections) \in Nat
      /\ DOMAIN symbols = 1 .. Len(symbols) /\ Len(symbols) \in Nat
      /\ DOMAIN pending = 1 .. Len(pending) /\ Len(pending) \in Nat
      /\ \A n \in 1 .. Len(pending) : pending[n] \in Pending
      /\ \A n \in 1 .. Len(source) : source[n] \in Statement
      /\ next \in Nat \ {0}
  BY <1>1, TypeFacts DEF TypeOK
<1>d. \A s \in 1 .. Len(sections) :
        /\ Len(sections[s].data) \in Nat
        /\ DOMAIN sections[s].data = 1 .. Len(sections[s].data)
        /\ Len(sections[s].relocations) \in Nat
        /\ DOMAIN sections[s].relocations = 1 .. Len(sections[s].relocations)
        /\ \A r \in 1 .. Len(sections[s].relocations) :
             sections[s].relocations[r] \in Relocation
  BY <1>1, DataFacts
<1>5. TypeOK'
  <2>1. current \in 0 .. Len(sections')
    BY <1>1, <1>3 DEF TypeOK, BytesPatched
  <2>2. sections' \in Seq(Section)
    BY <1>3 DEF BytesPatched
  <2>3. symbols' \in Seq(Symbol)
    BY <1>3 DEF SymbolsAdded
  <2>4. next' \in Nat \ {0}
    BY <1>2, <1>u
  <2>5. QED
    BY <1>1, <1>2, <2>1, <2>2, <2>3, <2>4 DEF TypeOK
<1> HIDE DEF p, st
<1>t. /\ DOMAIN sections' = 1 .. Len(sections)
      /\ DOMAIN symbols' = 1 .. Len(symbols') /\ Len(symbols') \in Nat
      /\ \A s \in 1 .. Len(sections) :
           /\ Len(sections'[s].data) = Len(sections[s].data)
           /\ DOMAIN sections'[s].data = 1 .. Len(sections[s].data)
           /\ Len(sections'[s].relocations) \in Nat
           /\ DOMAIN sections'[s].relocations
                = 1 .. Len(sections'[s].relocations)
  <2>1. /\ DOMAIN sections' = 1 .. Len(sections')
        /\ DOMAIN symbols' = 1 .. Len(symbols') /\ Len(symbols') \in Nat
        /\ \A s \in 1 .. Len(sections') :
             /\ DOMAIN sections'[s].data = 1 .. Len(sections'[s].data)
             /\ Len(sections'[s].relocations) \in Nat
             /\ DOMAIN sections'[s].relocations
                  = 1 .. Len(sections'[s].relocations)
    BY <1>5, TypeFacts, DataFacts
  <2>2. /\ Len(sections') = Len(sections)
        /\ \A s \in 1 .. Len(sections) :
             Len(sections'[s].data) = Len(sections[s].data)
    BY <1>3 DEF BytesPatched
  <2>3. QED
    BY <2>1, <2>2
<1>z. /\ p.offset \in Nat /\ SlotSize \in Nat
      /\ Len(sections[p.section].data) \in Nat
      /\ \A i \in Bytes(p.offset, SlotSize) :
           i \in 1 .. Len(sections[p.section].data)
  <2>1. /\ p.offset \in Nat /\ SlotSize \in Nat
        /\ Len(sections[p.section].data) \in Nat
    BY <1>4, <1>d, SlotSizeFacts DEF Pending
  <2>2. p.offset + SlotSize <= Len(sections[p.section].data)
    BY <1>4
  <2>3. QED
    BY <2>1, <2>2 DEF Bytes
(* Whose a byte is does not change, and no other slot is touched.          *)
<1>b. \A s \in 1 .. Len(sections) : \A i \in 1 .. Len(sections[s].data) :
        /\ sections'[s].data[i].by = sections[s].data[i].by
        /\ s # p.section \/ i \notin Bytes(p.offset, SlotSize) =>
             sections'[s].data[i] = sections[s].data[i]
  BY <1>3 DEF BytesPatched
(* The symbols stay where they are.                                        *)
<1>y. /\ Len(symbols) <= Len(symbols')
      /\ \A i \in 1 .. Len(symbols) :
           i \in 1 .. Len(symbols') /\ symbols'[i] = symbols[i]
      /\ \A i \in 1 .. Len(symbols') :
           symbols'[i].defined => i \in 1 .. Len(symbols)
  BY <1>3, <1>u, <1>t DEF SymbolsAdded
<1>6. NamesUnique'
  <2>1. \A s \in 1 .. Len(sections) : sections'[s].name = sections[s].name
    BY <1>3 DEF BytesPatched
  <2>2. UniqueNames(sections')
    BY <1>1, <1>u, <1>t, <2>1 DEF NamesUnique, UniqueNames
  <2>3. UniqueNames(symbols')
    BY <1>3 DEF SymbolsAdded
  <2>4. QED
    BY <2>2, <2>3 DEF NamesUnique
<1>7. Bookkeeping'
  <2>1. \A s \in 1 .. Len(sections) :
          /\ Len(sections'[s].data) <= MaxSectionSize
          /\ \A i \in 1 .. Len(sections[s].data) :
               sections'[s].data[i].by \in 1 .. cursor - 1
    <3>1. \A s \in 1 .. Len(sections) :
            /\ Len(sections[s].data) <= MaxSectionSize
            /\ \A i \in 1 .. Len(sections[s].data) :
                 sections[s].data[i].by \in 1 .. cursor - 1
      BY <1>1, <1>u, <1>d DEF Bookkeeping
    <3>2. QED
      BY <1>t, <1>b, <3>1
  <2>2. \A s \in DOMAIN sections' :
          /\ Len(sections'[s].data) <= MaxSectionSize
          /\ \A i \in DOMAIN sections'[s].data :
               sections'[s].data[i].by \in 1 .. cursor' - 1
    BY <1>2, <1>t, <2>1
  <2>3. next' <= Len(pending') + 1
    BY <1>2, <1>u
  <2>4. QED
    BY <1>1, <1>2, <2>2, <2>3 DEF Bookkeeping
<1>8. RelocationsNameTheirTarget'
  <2> SUFFICES ASSUME NEW s \in 1 .. Len(sections),
                      NEW r \in 1 .. Len(sections'[s].relocations)
               PROVE  LET rel  == sections'[s].relocations[r]
                          data == sections'[s].data
                      IN  /\ rel.symbol \in DOMAIN symbols'
                          /\ rel.offset + Width(rel.kind) <= Len(data)
                          /\ \E k \in 1 .. cursor' - 1 :
                               /\ source'[k].op \in {"quad", "instruction"}
                               /\ Mentions(source'[k])
                                    = symbols'[rel.symbol].name
                               /\ \A i \in Bytes(rel.offset, Width(rel.kind)) :
                                    data[i].by = k
    BY ZenonT(60), <1>t DEF RelocationsNameTheirTarget
  <2>e. /\ source' = source /\ cursor' = cursor
        /\ DOMAIN symbols' = 1 .. Len(symbols')
    BY <1>2, <1>t
  <2> DEFINE rel == sections'[s].relocations[r]
  <2>1. CASE r \in 1 .. Len(sections[s].relocations)
    <3>1. rel = sections[s].relocations[r]
      BY <1>3, <2>1 DEF RelocationAdded
    <3>2. /\ rel \in Relocation
          /\ rel.symbol \in 1 .. Len(symbols)
          /\ rel.offset + Width(rel.kind) <= Len(sections[s].data)
          /\ \E k \in 1 .. cursor - 1 :
               /\ source[k].op \in {"quad", "instruction"}
               /\ Mentions(source[k]) = symbols[rel.symbol].name
               /\ \A i \in Bytes(rel.offset, Width(rel.kind)) :
                    sections[s].data[i].by = k
      <4>1. s \in DOMAIN sections /\ r \in DOMAIN sections[s].relocations
        BY <1>u, <1>d, <2>1
      <4>2. LET old == sections[s].relocations[r]
            IN  /\ old.symbol \in DOMAIN symbols
                /\ old.offset + Width(old.kind) <= Len(sections[s].data)
                /\ \E k \in 1 .. cursor - 1 :
                     /\ source[k].op \in {"quad", "instruction"}
                     /\ Mentions(source[k]) = symbols[old.symbol].name
                     /\ \A i \in Bytes(old.offset, Width(old.kind)) :
                          sections[s].data[i].by = k
        BY <1>1, <4>1 DEF RelocationsNameTheirTarget
      <4>3. sections[s].relocations[r] \in Relocation
        BY <1>d, <2>1
      <4>4. QED
        BY <1>u, <3>1, <4>2, <4>3
    <3> HIDE DEF rel
    <3>3. rel.offset \in Nat /\ Width(rel.kind) \in Nat
      BY <3>2 DEF Relocation, Width
    <3>4. \A i \in Bytes(rel.offset, Width(rel.kind)) :
            sections'[s].data[i].by = sections[s].data[i].by
      <4>1. \A i \in Bytes(rel.offset, Width(rel.kind)) :
              i \in 1 .. Len(sections[s].data)
        BY <1>d, <3>2, <3>3 DEF Bytes
      <4>2. QED
        BY <1>b, <4>1
    <3>5. /\ rel.symbol \in 1 .. Len(symbols')
          /\ symbols'[rel.symbol].name = symbols[rel.symbol].name
      BY <1>y, <3>2
    <3>6. Len(sections'[s].data) = Len(sections[s].data)
      BY <1>t
    <3>7. QED
      BY ZenonT(60), <2>e, <3>2, <3>4, <3>5, <3>6 DEF rel
  <2>2. CASE r > Len(sections[s].relocations)
    <3>1. /\ s = p.section
          /\ rel.symbol \in 1 .. Len(symbols')
          /\ symbols'[rel.symbol].name = st.target
          /\ rel.offset = p.offset + st.at
          /\ rel.kind # "ABS64"
          /\ st.at + 4 <= SlotSize
      BY <1>3, <2>2 DEF RelocationAdded
    <3> HIDE DEF rel
    <3>2. Width(rel.kind) = 4
      BY <3>1 DEF Width
    <3>3. p.offset + SlotSize <= Len(sections[p.section].data)
          /\ st.at \in Nat
      BY <1>4
    <3>4. rel.offset + Width(rel.kind) <= Len(sections'[s].data)
      <4>1. Len(sections'[s].data) = Len(sections[p.section].data)
        BY <1>t, <3>1
      <4>2. p.offset + st.at + 4 <= Len(sections[p.section].data)
        <5>1. st.at + 4 <= SlotSize
          BY <3>1
        <5>2. QED
          BY SMTT(30), <1>z, <3>3, <5>1
      <4>3. rel.offset + Width(rel.kind) = p.offset + st.at + 4
        BY <3>1, <3>2
      <4>4. QED
        BY <4>1, <4>2, <4>3
    <3>5. \A i \in Bytes(rel.offset, Width(rel.kind)) :
            sections'[s].data[i].by = p.line
      <4>1. \A i \in Bytes(rel.offset, Width(rel.kind)) :
              i \in Bytes(p.offset, SlotSize)
        BY SMTT(30), <1>z, <3>1, <3>2, <3>3 DEF Bytes
      <4>2. \A i \in Bytes(rel.offset, Width(rel.kind)) :
              /\ i \in 1 .. Len(sections[p.section].data)
              /\ sections[p.section].data[i].by = p.line
        BY <1>4, <1>z, <4>1
      <4>3. s \in 1 .. Len(sections) /\ s = p.section
        BY <3>1
      <4>4. QED
        BY <1>b, <4>2, <4>3
    <3>6. p.line \in 1 .. cursor - 1
      BY <1>1, <1>2, <1>u DEF Bookkeeping, p
    <3>7. /\ source[p.line].op = "instruction"
          /\ Mentions(source[p.line]) = st.target
      BY <1>4 DEF Mentions, st
    <3>8. QED
      BY ZenonT(60), <2>e, <3>1, <3>4, <3>5, <3>6, <3>7 DEF rel
  <2>3. \/ r \in 1 .. Len(sections[s].relocations)
        \/ r > Len(sections[s].relocations)
    BY <1>d, <1>t
  <2>4. QED
    BY <2>1, <2>2, <2>3
(* The slot of another instruction keeps its bytes.                        *)
<1>o. ASSUME NEW n \in 1 .. Len(pending), n # next
      PROVE  \A i \in Bytes(pending[n].offset, SlotSize) :
               sections'[pending[n].section].data[i]
                 = sections[pending[n].section].data[i]
  <2> DEFINE q == pending[n]
  <2>1. /\ q.section \in 1 .. Len(sections)
        /\ q.offset + SlotSize <= Len(sections[q.section].data)
        /\ \A i \in Bytes(q.offset, SlotSize) :
             sections[q.section].data[i].by = q.line
    BY <1>1, <1>u DEF SlotsIntact
  <2>2. q.line # p.line
    BY <1>1, <1>2, <1>u, <1>o DEF Bookkeeping, p
  <2>3. q.offset \in Nat
    BY <1>u DEF Pending
  <2> HIDE DEF q
  <2>4. \A i \in Bytes(q.offset, SlotSize) :
          i \in 1 .. Len(sections[q.section].data)
    BY SMTT(30), <1>d, <2>1, <2>3, SlotSizeFacts DEF Bytes
  <2>5. \A i \in Bytes(q.offset, SlotSize) :
          q.section # p.section \/ i \notin Bytes(p.offset, SlotSize)
    BY <1>4, <2>1, <2>2
  <2>6. QED
    BY <1>b, <2>1, <2>4, <2>5 DEF q
<1>9. SlotsIntact'
  <2> SUFFICES ASSUME NEW n \in 1 .. Len(pending)
               PROVE  LET q == pending[n]
                      IN  /\ q.section \in 1 .. Len(sections)
                          /\ q.offset + SlotSize
                               <= Len(sections[q.section].data)
                          /\ \A i \in Bytes(q.offset, SlotSize) :
                               LET byte == sections'[q.section].data[i]
                               IN  /\ byte.by = q.line
                                   /\ byte.is \in IF n < next + 1
                                                   THEN {"code", "fill"}
                                                   ELSE {"zero"}
    BY <1>2, <1>t, <1>u DEF SlotsIntact
  <2>1. LET q == pending[n]
        IN  /\ q.section \in 1 .. Len(sections)
            /\ q.offset + SlotSize <= Len(sections[q.section].data)
            /\ \A i \in Bytes(q.offset, SlotSize) :
                 LET byte == sections[q.section].data[i]
                 IN  /\ byte.by = q.line
                     /\ byte.is \in IF n < next THEN {"code", "fill"}
                                                ELSE {"zero"}
    BY <1>1, <1>u DEF SlotsIntact
  <2>2. CASE n = next
    <3>1. pending[n] = p /\ n < next + 1
      BY <1>u, <2>2 DEF p
    <3>2. \A i \in Bytes(p.offset, SlotSize) :
            sections'[p.section].data[i].is \in {"code", "fill"}
      BY <1>3 DEF BytesPatched
    <3>3. \A i \in Bytes(p.offset, SlotSize) :
            i \in 1 .. Len(sections[p.section].data)
      BY <1>z
    <3>4. \A i \in Bytes(p.offset, SlotSize) :
            sections'[p.section].data[i].by = p.line
      BY <1>4, <1>b, <3>3
    <3>5. QED
      BY <1>4, <3>1, <3>2, <3>4
  <2>3. CASE n # next
    <3>1. (n < next) <=> (n < next + 1)
      BY <1>u, <2>3
    <3>2. \A i \in Bytes(pending[n].offset, SlotSize) :
            sections'[pending[n].section].data[i]
              = sections[pending[n].section].data[i]
      BY <1>o, <2>3
    <3>3. CASE n < next
      BY <2>1, <3>1, <3>2, <3>3
    <3>4. CASE ~(n < next)
      BY <2>1, <3>1, <3>2, <3>4
    <3>5. QED
      BY <3>3, <3>4
  <2>4. QED
    BY <2>2, <2>3
<1>10. LabelsMarkTheirPlace'
  <2> SUFFICES ASSUME NEW i \in 1 .. Len(symbols'), symbols'[i].defined
               PROVE  LET s == symbols'[i].section
                          v == symbols'[i].value
                      IN  /\ s \in 1 .. Len(sections)
                          /\ v <= Len(sections'[s].data)
                          /\ \E k \in 1 .. cursor - 1 :
                               /\ source[k]
                                    = [op |-> "label", name |-> symbols'[i].name]
                               /\ \A j \in k + 1 .. cursor - 1 :
                                    source[j] # source[k]
                               /\ \A b \in DOMAIN sections'[s].data :
                                    (sections'[s].data[b].by < k) <=> (b <= v)
    BY <1>2, <1>t DEF LabelsMarkTheirPlace
  <2>1. i \in 1 .. Len(symbols) /\ symbols'[i] = symbols[i]
    BY <1>y
  <2> DEFINE s == symbols[i].section
             v == symbols[i].value
  <2>2. /\ s \in 1 .. Len(sections)
        /\ v <= Len(sections[s].data)
        /\ \E k \in 1 .. cursor - 1 :
             /\ source[k] = [op |-> "label", name |-> symbols[i].name]
             /\ \A j \in k + 1 .. cursor - 1 : source[j] # source[k]
             /\ \A b \in DOMAIN sections[s].data :
                  (sections[s].data[b].by < k) <=> (b <= v)
    BY <1>1, <1>u, <2>1 DEF LabelsMarkTheirPlace
  <2>3. symbols'[i].section = s /\ symbols'[i].value = v
        /\ symbols'[i].name = symbols[i].name
    BY <2>1
  <2> HIDE DEF s, v
  <2>4. /\ Len(sections'[s].data) = Len(sections[s].data)
        /\ DOMAIN sections'[s].data = DOMAIN sections[s].data
        /\ \A b \in DOMAIN sections[s].data :
             sections'[s].data[b].by = sections[s].data[b].by
    BY ZenonT(60), <1>d, <1>t, <1>b, <2>2
  <2>5. QED
    BY <2>2, <2>3, <2>4
(* Looking up a branch target gives what it gave before.                   *)
<1>f. ASSUME NEW name, NEW section
      PROVE  /\ InTable(symbols', name, section) <=> InSection(name, section)
             /\ InSection(name, section) =>
                  /\ Find(symbols', name) = Find(symbols, name)
                  /\ symbols'[Find(symbols, name)]
                       = symbols[Find(symbols, name)]
  <2>1. /\ symbols' \in Seq(Symbol) /\ UniqueNames(symbols')
        /\ symbols \in Seq(Symbol) /\ UniqueNames(symbols)
    BY <1>1, <1>3 DEF SymbolsAdded, TypeOK, NamesUnique
  <2>2. ASSUME InSection(name, section)
        PROVE  /\ Find(symbols, name) \in 1 .. Len(symbols)
               /\ Find(symbols', name) = Find(symbols, name)
               /\ symbols'[Find(symbols, name)] = symbols[Find(symbols, name)]
               /\ InTable(symbols', name, section)
    <3> DEFINE i == Find(symbols, name)
    <3>1. /\ i \in 1 .. Len(symbols)
          /\ symbols[i].name = name /\ symbols[i].defined
          /\ symbols[i].section = section
      BY <2>2, InSectionFacts
    <3> HIDE DEF i
    <3>2. i \in 1 .. Len(symbols') /\ symbols'[i] = symbols[i]
      BY <1>y, <3>1
    <3>3. Find(symbols', symbols'[i].name) = i
      BY <2>1, <3>2, FindIs
    <3>4. Find(symbols', name) = i /\ i # None
      BY <1>u, <3>1, <3>2, <3>3 DEF None
    <3>5. InTable(symbols', name, section)
      BY <3>1, <3>2, <3>4 DEF InTable
    <3>6. QED
      BY <3>1, <3>2, <3>4, <3>5 DEF i
  <2>3. ASSUME InTable(symbols', name, section)
        PROVE  InSection(name, section)
    <3> DEFINE i == Find(symbols', name)
    <3>1. i \in DOMAIN symbols' /\ symbols'[i].name = name
      BY <2>1, <2>3, FindFacts DEF InTable
    <3>2. symbols'[i].defined /\ symbols'[i].section = section
      BY <2>3 DEF InTable
    <3> HIDE DEF i
    <3>3. i \in 1 .. Len(symbols) /\ symbols'[i] = symbols[i]
      BY <1>t, <1>y, <3>1, <3>2
    <3>4. Find(symbols, symbols[i].name) = i
      BY <2>1, <3>3, FindIs
    <3>5. Find(symbols, name) = i /\ i # None
      BY <1>u, <3>1, <3>3, <3>4 DEF None
    <3>6. QED
      BY <3>2, <3>3, <3>5 DEF InSection
  <2>4. QED
    BY <2>2, <2>3
<1>r. \A s \in 1 .. Len(sections) :
        \A r \in 1 .. Len(sections[s].relocations) :
          /\ r \in 1 .. Len(sections'[s].relocations)
          /\ sections'[s].relocations[r] = sections[s].relocations[r]
          /\ sections[s].relocations[r].symbol \in 1 .. Len(symbols)
  <2>1. \A s \in 1 .. Len(sections) :
          /\ Len(sections[s].relocations) <= Len(sections'[s].relocations)
          /\ \A r \in 1 .. Len(sections[s].relocations) :
               sections'[s].relocations[r] = sections[s].relocations[r]
    BY <1>3 DEF RelocationAdded
  <2>2. \A s \in 1 .. Len(sections) :
          \A r \in 1 .. Len(sections[s].relocations) :
            sections[s].relocations[r].symbol \in 1 .. Len(symbols)
    BY SMTT(30), <1>1, <1>u, <1>d DEF RelocationsNameTheirTarget
  <2>3. QED
    BY <1>d, <1>t, <2>1, <2>2
<1>11. ReferencesResolved'
  <2>a. ReferencesResolved =>
          \A n \in 1 .. next - 1 :
            Resolved(pending[n], source[pending[n].line], symbols,
                     sections[pending[n].section])
    BY ZenonT(40) DEF ReferencesResolved, Resolved, InSection, InTable
  <2>b. (\A n \in 1 .. next' - 1 :
           Resolved(pending'[n], source'[pending'[n].line], symbols',
                    sections'[pending'[n].section]))
          => ReferencesResolved'
    BY DEF ReferencesResolved, Resolved, InSection, InTable
  <2> SUFFICES ASSUME NEW n \in 1 .. next,
                      NEW q, q = pending[n], NEW si, si = source[q.line]
               PROVE  Resolved(q, si, symbols', sections'[q.section])
    <3>1. /\ source' = source /\ pending' = pending
          /\ 1 .. next' - 1 = 1 .. next
      BY <1>2, <1>u
    <3>2. QED
      BY <2>b, <3>1
  <2>n. n \in 1 .. Len(pending) /\ q \in Pending
    BY <1>2, <1>u
  <2>1. CASE n = next
    <3>1. q = p /\ si = st
      BY <2>1 DEF p, st
    <3>2. CASE st.form \in {"b", "b.cond"} /\ InSection(st.target, p.section)
      <4>1. sections'[p.section].data[p.offset + 1].imm = Displacement(st, p)
        BY <1>3 DEF BytesPatched
      <4>2. Displacement(st, p)
              = BranchField(st.form,
                            symbols[Find(symbols, st.target)].value - p.offset)
        BY <3>2 DEF Displacement
      <4>3. /\ Find(symbols', st.target) = Find(symbols, st.target)
            /\ symbols'[Find(symbols, st.target)]
                 = symbols[Find(symbols, st.target)]
            /\ InTable(symbols', st.target, p.section)
        BY <1>f, <3>2
      <4>4. QED
        BY <3>1, <3>2, <4>1, <4>2, <4>3 DEF Resolved
    <3>3. CASE ~(st.form \in {"b", "b.cond"} /\ InSection(st.target, p.section))
      <4>1. ~(st.form \in {"b", "b.cond"}
                /\ InTable(symbols', st.target, p.section))
        BY <1>f, <3>3
      <4>2. st.form \in Arm64Forms \cup X86Forms
        BY <1>4 DEF Statement
      <4>3. st.form # "plain" => UsesSymbol(st, p.section)
        BY <1>3, <3>3, <4>2
           DEF UsesSymbol, Encodable, Arm64Forms, X86Forms
      <4>4. st.form # "plain" =>
              \E r \in 1 .. Len(sections'[p.section].relocations) :
                LET rel == sections'[p.section].relocations[r]
                IN  /\ rel.offset = p.offset + st.at
                    /\ rel.kind = KindOf(st.form)
                    /\ symbols'[rel.symbol].name = st.target
        BY <1>3, <4>3 DEF RelocationAdded
      <4>5. DOMAIN sections'[p.section].relocations
              = 1 .. Len(sections'[p.section].relocations)
        BY <1>4, <1>t
      <4>6. QED
        BY <3>1, <4>1, <4>4, <4>5 DEF Resolved
    <3>4. QED
      BY <3>2, <3>3
  <2>2. CASE n # next
    <3>1. n \in 1 .. next - 1
      BY <1>u, <2>2
    <3>2. Resolved(q, si, symbols, sections[q.section])
      BY <1>1, <2>a, <3>1
    <3>0. InTable(symbols, si.target, q.section)
            <=> InSection(si.target, q.section)
      BY DEF InTable, InSection
    <3>3. /\ q.section \in 1 .. Len(sections)
          /\ \A i \in Bytes(q.offset, SlotSize) :
               sections'[q.section].data[i] = sections[q.section].data[i]
      BY <1>1, <1>u, <1>o, <2>2, <2>n DEF SlotsIntact
    <3>4. q.offset + 1 \in Bytes(q.offset, SlotSize)
      <4>1. q.offset \in Nat
        BY <2>n DEF Pending
      <4>2. QED
        BY <4>1, SlotSizeFacts DEF Bytes
    <3>5. CASE si.form \in {"b", "b.cond"} /\ InSection(si.target, q.section)
      <4>1. /\ Find(symbols', si.target) = Find(symbols, si.target)
            /\ symbols'[Find(symbols, si.target)]
                 = symbols[Find(symbols, si.target)]
            /\ InTable(symbols', si.target, q.section)
        BY <1>f, <3>5
      <4>2. QED
        BY <3>0, <3>2, <3>3, <3>4, <3>5, <4>1 DEF Resolved
    <3>6. CASE ~(si.form \in {"b", "b.cond"} /\ InSection(si.target, q.section))
      <4>1. ~(si.form \in {"b", "b.cond"}
                /\ InTable(symbols', si.target, q.section))
        BY SMTT(30), <1>f, <3>6
      <4>2. ASSUME si.form # "plain"
            PROVE  \E r \in DOMAIN sections'[q.section].relocations :
                     LET rel == sections'[q.section].relocations[r]
                     IN  /\ rel.offset = q.offset + si.at
                         /\ rel.kind = KindOf(si.form)
                         /\ symbols'[rel.symbol].name = si.target
        <5>1. PICK r \in DOMAIN sections[q.section].relocations :
                LET rel == sections[q.section].relocations[r]
                IN  /\ rel.offset = q.offset + si.at
                    /\ rel.kind = KindOf(si.form)
                    /\ symbols[rel.symbol].name = si.target
          BY <3>0, <3>2, <3>6, <4>2 DEF Resolved
        <5>2. r \in 1 .. Len(sections[q.section].relocations)
          BY <1>d, <3>3, <5>1
        <5>3. /\ r \in DOMAIN sections'[q.section].relocations
              /\ sections'[q.section].relocations[r]
                   = sections[q.section].relocations[r]
              /\ sections[q.section].relocations[r].symbol
                   \in 1 .. Len(symbols)
          BY <1>r, <1>t, <3>3, <5>2
        <5>4. symbols'[sections[q.section].relocations[r].symbol]
                = symbols[sections[q.section].relocations[r].symbol]
          BY <1>y, <5>3
        <5>5. QED
          BY ZenonT(40), <5>1, <5>3, <5>4
      <4>3. QED
        BY <4>1, <4>2 DEF Resolved
    <3>7. QED
      BY <3>5, <3>6
  <2>3. QED
    BY <2>1, <2>2
<1>12. OutputIsComplete'
  BY <1>1, <1>2 DEF OutputIsComplete, Bookkeeping
<1>13. QED
  BY <1>5, <1>6, <1>7, <1>8, <1>9, <1>10, <1>11, <1>12 DEF IInv

-----------------------------------------------------------------------------
(* Steps that leave the object alone.                                      *)

Kept == UNCHANGED <<source, cursor, current, sections, symbols, pending, next>>

(* They need only agree with the counters about the phase and the output.  *)
LEMMA KeptPreserves ==
  ASSUME IInv, Kept,
         phase' \in {"pass1", "pass2", "emit", "done", "failed", "growing",
                     "killed"},
         output' \in {"untouched", "partial", "written"},
         phase' = "pass1" => phase = "pass1",
         phase' \in {"pass2", "emit", "done"} => cursor = Len(source) + 1,
         phase' \in {"emit", "done"} => next = Len(pending) + 1,
         output' # "untouched" =>
           /\ phase' \in {"done", "failed"}
           /\ output # "untouched" \/ (phase = "emit" /\ ~HiddenRelocation)
  PROVE  IInv'
<1>1. /\ TypeOK /\ NamesUnique /\ Bookkeeping /\ RelocationsNameTheirTarget
      /\ SlotsIntact /\ LabelsMarkTheirPlace /\ ReferencesResolved
      /\ OutputIsComplete
  BY DEF IInv
<1>2. TypeOK'
  BY <1>1 DEF Kept, TypeOK
<1>3. NamesUnique' /\ RelocationsNameTheirTarget' /\ SlotsIntact'
      /\ LabelsMarkTheirPlace'
  <2>1. NamesUnique'
    BY <1>1 DEF Kept, NamesUnique
  <2>2. RelocationsNameTheirTarget'
    BY <1>1 DEF Kept, RelocationsNameTheirTarget
  <2>3. SlotsIntact'
    BY <1>1 DEF Kept, SlotsIntact
  <2>4. LabelsMarkTheirPlace'
    BY SMTT(30), <1>1 DEF Kept, LabelsMarkTheirPlace
  <2>5. QED
    BY <2>1, <2>2, <2>3, <2>4
<1>4. ReferencesResolved'
  BY <1>1 DEF Kept, ReferencesResolved, InSection
<1>5. Bookkeeping'
  BY <1>1 DEF Kept, Bookkeeping
<1>6. OutputIsComplete'
  <2>1. CASE output' = "untouched"
    BY <2>1 DEF OutputIsComplete
  <2>2. CASE output # "untouched"
    <3>1. /\ next > Len(pending)
          /\ \A n \in DOMAIN pending :
               \A i \in Bytes(pending[n].offset, SlotSize) :
                 sections[pending[n].section].data[i].is \in {"code", "fill"}
          /\ ~HiddenRelocation
      BY <1>1, <2>2 DEF OutputIsComplete
    <3>2. QED
      BY <3>1 DEF Kept, OutputIsComplete, HiddenRelocation
  <2>3. CASE phase = "emit" /\ ~HiddenRelocation
    <3>1. next = Len(pending) + 1 /\ Len(pending) \in Nat
      BY <1>1, <2>3, TypeFacts DEF Bookkeeping
    <3>2. ASSUME NEW n \in DOMAIN pending,
                 NEW i \in Bytes(pending[n].offset, SlotSize)
          PROVE  sections[pending[n].section].data[i].is \in {"code", "fill"}
      <4>1. n < next
        BY <1>1, <3>1, TypeFacts
      <4>2. QED
        BY <1>1, <4>1 DEF SlotsIntact
    <3>3. next > Len(pending)
      BY <3>1
    <3>4. QED
      BY <2>3, <3>2, <3>3 DEF Kept, OutputIsComplete, HiddenRelocation
  <2>4. QED
    BY <2>1, <2>2, <2>3
<1>7. QED
  BY <1>2, <1>3, <1>4, <1>5, <1>6 DEF IInv

(* Errors, the ends of the passes and the writing of the file.             *)
LEMMA PhasePreserves ==
  ASSUME IInv,
         \/ Fail \/ GrowForever \/ OverrunSection \/ EndPassOne \/ EndPassTwo
         \/ EmitOutput \/ WriteFails
         \/ UNCHANGED vars
  PROVE  IInv'
<1>1. TypeOK /\ Bookkeeping
  BY DEF IInv
<1>2. /\ cursor \in Nat /\ Len(source) \in Nat
      /\ next \in Nat /\ Len(pending) \in Nat
  BY <1>1, TypeFacts DEF TypeOK
<1>3. CASE Fail
  BY <1>1, <1>3, KeptPreserves DEF Fail, Stop, Kept, TypeOK
<1>g. CASE GrowForever \/ OverrunSection
  <2>1. /\ Kept /\ output' = output /\ phase = "pass1"
        /\ phase' \in {"growing", "killed"}
    BY <1>g DEF GrowForever, OverrunSection, Exhausting, Reading, Stop, Kept
  <2>2. output = "untouched"
    BY <1>1, <2>1 DEF Bookkeeping
  <2> QED
    BY <2>1, <2>2, KeptPreserves
<1>4. CASE EndPassOne
  <2>1. cursor = Len(source) + 1
    BY <1>1, <1>2, <1>4 DEF EndPassOne, Bookkeeping
  <2>2. QED
    BY <1>1, <1>4, <2>1, KeptPreserves DEF EndPassOne, Kept, TypeOK, Bookkeeping
<1>5. CASE EndPassTwo
  <2>1. cursor = Len(source) + 1 /\ next = Len(pending) + 1
    BY <1>1, <1>2, <1>5 DEF EndPassTwo, Bookkeeping
  <2>2. QED
    BY <1>1, <1>5, <2>1, KeptPreserves DEF EndPassTwo, Kept, TypeOK, Bookkeeping
<1>6. CASE EmitOutput \/ WriteFails
  <2>1. /\ phase = "emit" /\ ~HiddenRelocation
        /\ cursor = Len(source) + 1 /\ next = Len(pending) + 1
    BY <1>1, <1>6 DEF EmitOutput, WriteFails, Bookkeeping
  <2>2. QED
    BY <1>6, <2>1, KeptPreserves DEF EmitOutput, WriteFails, Kept
<1>7. CASE UNCHANGED vars
  <2>1. Kept /\ phase' = phase /\ output' = output
    BY <1>7 DEF vars, Kept
  <2>2. QED
    BY <1>1, <2>1, KeptPreserves DEF TypeOK, Bookkeeping
<1>8. QED
  BY <1>3, <1>g, <1>4, <1>5, <1>6, <1>7

-----------------------------------------------------------------------------
(* The three facts that make IInv an inductive invariant.                  *)

(* An empty object has it.                                                 *)
LEMMA InitIInv == Init => IInv
<1> SUFFICES ASSUME Init PROVE IInv
  OBVIOUS
<1>1. TypeOK
  BY ProgramAssumption DEF Init, TypeOK, None
<1>2. /\ DOMAIN sections = {} /\ DOMAIN symbols = {} /\ DOMAIN pending = {}
      /\ Len(source) \in Nat /\ Len(pending) = 0
  BY <1>1, TypeFacts DEF Init
<1>3. Bookkeeping
  BY <1>2 DEF Init, Bookkeeping
<1>4. /\ NamesUnique /\ RelocationsNameTheirTarget /\ SlotsIntact
      /\ LabelsMarkTheirPlace /\ OutputIsComplete
  BY <1>2 DEF Init, NamesUnique, UniqueNames, RelocationsNameTheirTarget,
              SlotsIntact, LabelsMarkTheirPlace, OutputIsComplete
<1>5. ReferencesResolved
  BY DEF Init, ReferencesResolved
<1>6. QED
  BY <1>1, <1>3, <1>4, <1>5 DEF IInv

(* Every step preserves it.                                                *)
LEMMA NextIInv == IInv /\ [Next]_vars => IInv'
<1> SUFFICES ASSUME IInv, [Next]_vars PROVE IInv'
  OBVIOUS
<1>1. CASE DefineLabel
  BY <1>1, DefineLabelEffect, PassOnePreserves
<1>2. CASE SelectSection
  BY <1>2, SelectSectionEffect, PassOnePreserves
<1>3. CASE DeclareGlobal \/ DeclareExtern
  BY <1>3, DeclareEffect, PassOnePreserves
<1>4. CASE Align \/ AppendData
  BY <1>4, GrowEffect, PassOnePreserves
<1>5. CASE AppendQuad
  BY <1>5, AppendQuadEffect, PassOnePreserves
<1>6. CASE ReserveSlot
  BY <1>6, ReserveSlotEffect, PassOnePreserves
<1>7. CASE SkipDirective
  BY <1>7, SkipEffect, PassOnePreserves
<1>8. CASE EncodeInstruction
  BY <1>8, EncodePreserves
<1>9. CASE \/ RejectStatement \/ GrowForever \/ OverrunSection
           \/ ExhaustSection \/ RejectInstruction \/ RejectHidden
           \/ OutOfMemory
  BY <1>9, PhasePreserves
     DEF RejectStatement, ExhaustSection, RejectInstruction, RejectHidden,
         OutOfMemory
<1>10. CASE EndPassOne \/ EndPassTwo \/ EmitOutput \/ WriteFails
  BY <1>10, PhasePreserves
<1>11. CASE KeepGrowing \/ Terminated \/ UNCHANGED vars
  BY <1>11, PhasePreserves DEF KeepGrowing, Terminated
<1>12. QED
  BY <1>1, <1>2, <1>3, <1>4, <1>5, <1>6, <1>7, <1>8, <1>9, <1>10, <1>11
     DEF Next, Progress

(* The invariant of the assembler, for every program, both architectures   *)
(* and every limit on the size of a section.                               *)
THEOREM Invariance == Spec => []IInv
<1>1. QED
  BY InitIInv, NextIInv, PTL DEF Spec

(* Type correctness.                                                       *)
THEOREM TypeCorrect == Spec => []TypeOK
<1>1. IInv => TypeOK
  BY DEF IInv
<1>2. QED
  BY <1>1, Invariance, PTL

(* No name ever has two entries in the section or the symbol table.        *)
THEOREM NamesStayUnique == Spec => []NamesUnique
<1>1. IInv => NamesUnique
  BY DEF IInv
<1>2. QED
  BY <1>1, Invariance, PTL

(* Every relocation patches bytes of the statement that asked for it and   *)
(* leads to the name written there.                                        *)
THEOREM RelocationsCorrect == Spec => []RelocationsNameTheirTarget
<1>1. IInv => RelocationsNameTheirTarget
  BY DEF IInv
<1>2. QED
  BY <1>1, Invariance, PTL

(* No two statements share a byte of an instruction slot.                  *)
THEOREM SlotsStayIntact == Spec => []SlotsIntact
<1>1. IInv => SlotsIntact
  BY DEF IInv
<1>2. QED
  BY <1>1, Invariance, PTL

(* A symbol's value is the place of its last label.                        *)
THEOREM LabelsCorrect == Spec => []LabelsMarkTheirPlace
<1>1. IInv => LabelsMarkTheirPlace
  BY DEF IInv
<1>2. QED
  BY <1>1, Invariance, PTL

(* Encoded instructions carry the displacement or relocation they need.    *)
THEOREM ReferencesCorrect == Spec => []ReferencesResolved
<1>1. IInv => ReferencesResolved
  BY DEF IInv
<1>2. QED
  BY <1>1, Invariance, PTL

(* The output file is opened only for a complete object.                   *)
THEOREM OutputCorrect == Spec => []OutputIsComplete
<1>1. IInv => OutputIsComplete
  BY DEF IInv
<1>2. QED
  BY <1>1, Invariance, PTL

-----------------------------------------------------------------------------
(* The layout is frozen in pass two.                                       *)

(* Steps that leave the tables alone keep the layout.                      *)
LEMMA StillFrozen ==
  ASSUME IInv, sections' = sections, symbols' = symbols
  PROVE  FrozenStep
<1>1. TypeOK
  BY DEF IInv
<1>2. /\ DOMAIN symbols = 1 .. Len(symbols) /\ Len(symbols) \in Nat
      /\ DOMAIN sections = 1 .. Len(sections)
      /\ \A s \in 1 .. Len(sections) : Len(sections[s].relocations) \in Nat
  BY <1>1, TypeFacts, DataFacts
<1>3. QED
  BY <1>2 DEF FrozenStep

(* Encoding an instruction keeps the layout.                               *)
LEMMA EncodeFrozen ==
  ASSUME IInv, EncodeInstruction
  PROVE  FrozenStep
<1> DEFINE p  == pending[next]
           st == source[p.line]
<1>1. BytesPatched(p, st) /\ RelocationAdded(p, st) /\ SymbolsAdded(p, st)
  BY EncodeEffect DEF PassTwoEffect
<1>2. /\ st.op = "instruction" /\ p \in Pending
      /\ p.section \in 1 .. Len(sections)
      /\ p.offset + SlotSize <= Len(sections[p.section].data)
      /\ \A i \in Bytes(p.offset, SlotSize) :
           /\ sections[p.section].data[i].by = p.line
           /\ sections[p.section].data[i].is = "zero"
  BY EncodingFacts
<1>3. TypeOK
  BY DEF IInv
<1>4. TypeOK'
  BY EncodePreserves DEF IInv
<1>5. /\ DOMAIN sections = 1 .. Len(sections)
      /\ DOMAIN symbols' = 1 .. Len(symbols')
      /\ Len(symbols) \in Nat /\ Len(symbols') \in Nat
      /\ DOMAIN sections' = 1 .. Len(sections')
      /\ \A s \in 1 .. Len(sections) :
           /\ DOMAIN sections[s].data = 1 .. Len(sections[s].data)
           /\ DOMAIN sections[s].relocations
                = 1 .. Len(sections[s].relocations)
      /\ \A s \in 1 .. Len(sections') :
           DOMAIN sections'[s].data = 1 .. Len(sections'[s].data)
  BY <1>3, <1>4, TypeFacts, DataFacts
<1>6. source[p.line].op = "instruction"
  BY <1>2
<1> HIDE DEF p, st
<1>7. ASSUME NEW s \in 1 .. Len(sections)
      PROVE  LET old == sections[s]
                 new == sections'[s]
             IN  /\ new.name = old.name /\ new.align = old.align
                 /\ DOMAIN new.data = DOMAIN old.data
                 /\ \A i \in DOMAIN old.data :
                      \/ new.data[i] = old.data[i]
                      \/ /\ old.data[i].is = "zero"
                         /\ new.data[i].is \in {"code", "fill"}
                         /\ new.data[i].by = old.data[i].by
                         /\ source[old.data[i].by].op = "instruction"
                 /\ Len(old.relocations) <= Len(new.relocations)
                 /\ \A r \in DOMAIN old.relocations :
                      new.relocations[r] = old.relocations[r]
  <2>1. /\ sections'[s].name = sections[s].name
        /\ sections'[s].align = sections[s].align
        /\ Len(sections'[s].data) = Len(sections[s].data)
        /\ Len(sections') = Len(sections)
    BY <1>1 DEF BytesPatched
  <2>2. DOMAIN sections'[s].data = 1 .. Len(sections[s].data)
    BY <1>5, <2>1
  <2>3. ASSUME NEW i \in 1 .. Len(sections[s].data)
        PROVE  \/ sections'[s].data[i] = sections[s].data[i]
               \/ /\ sections[s].data[i].is = "zero"
                  /\ sections'[s].data[i].is \in {"code", "fill"}
                  /\ sections'[s].data[i].by = sections[s].data[i].by
                  /\ source[sections[s].data[i].by].op = "instruction"
    <3>1. CASE s = p.section /\ i \in Bytes(p.offset, SlotSize)
      <4>1. /\ sections'[s].data[i].by = sections[s].data[i].by
            /\ sections'[s].data[i].is \in {"code", "fill"}
        BY <1>1, <3>1 DEF BytesPatched
      <4>2. /\ sections[s].data[i].is = "zero"
            /\ sections[s].data[i].by = p.line
        BY <1>2, <3>1
      <4>3. QED
        BY <1>6, <4>1, <4>2
    <3>2. CASE s # p.section \/ i \notin Bytes(p.offset, SlotSize)
      BY <1>1, <3>2 DEF BytesPatched
    <3>3. QED
      BY <3>1, <3>2
  <2>4. /\ Len(sections[s].relocations) <= Len(sections'[s].relocations)
        /\ \A r \in 1 .. Len(sections[s].relocations) :
             sections'[s].relocations[r] = sections[s].relocations[r]
    BY <1>1 DEF RelocationAdded
  <2>5. /\ DOMAIN sections[s].data = 1 .. Len(sections[s].data)
        /\ DOMAIN sections[s].relocations = 1 .. Len(sections[s].relocations)
    BY <1>5
  <2>6. QED
    BY <2>1, <2>2, <2>3, <2>4, <2>5
<1>8. DOMAIN sections' = DOMAIN sections
  BY <1>1, <1>5 DEF BytesPatched
<1>9. /\ Len(symbols) <= Len(symbols')
      /\ \A i \in 1 .. Len(symbols') :
           IF i <= Len(symbols) THEN symbols'[i] = symbols[i]
                                ELSE ~symbols'[i].defined
  BY <1>1, <1>5 DEF SymbolsAdded
<1>10. QED
  BY ZenonT(60), <1>5, <1>7, <1>8, <1>9 DEF FrozenStep

(* Pass two changes nothing but the bytes of the slot it encodes, and only *)
(* adds relocations and undefined symbols.                                 *)
THEOREM LayoutStaysFrozen == Spec => LayoutFrozen
<1>1. IInv /\ [Next]_vars => [FrozenStep]_vars
  <2> SUFFICES ASSUME IInv, Next PROVE FrozenStep
    BY StillFrozen DEF vars
  <2>1. CASE \/ DefineLabel \/ SelectSection \/ DeclareGlobal \/ DeclareExtern
             \/ Align \/ AppendData \/ AppendQuad \/ ReserveSlot
             \/ SkipDirective
    BY <2>1 DEF FrozenStep, Reading, DefineLabel, SelectSection, DeclareGlobal,
                DeclareExtern, Align, AppendData, AppendQuad, ReserveSlot,
                SkipDirective
  <2>2. CASE EncodeInstruction
    BY <2>2, EncodeFrozen
  <2>3. CASE \/ RejectStatement \/ GrowForever \/ OverrunSection
             \/ ExhaustSection \/ EndPassOne
             \/ RejectInstruction \/ EndPassTwo \/ EmitOutput \/ RejectHidden
             \/ WriteFails \/ OutOfMemory \/ KeepGrowing \/ Terminated
    <3>1. sections' = sections /\ symbols' = symbols
      BY <2>3 DEF RejectStatement, GrowForever, OverrunSection, ExhaustSection,
                  EndPassOne, RejectInstruction, EndPassTwo, EmitOutput,
                  RejectHidden, WriteFails, OutOfMemory, KeepGrowing,
                  Terminated, Stop, Fail, vars
    <3>2. QED
      BY <3>1, StillFrozen
  <2>4. QED
    BY <2>1, <2>2, <2>3 DEF Next, Progress
<1>2. QED
  BY <1>1, Invariance, PTL DEF Spec, LayoutFrozen

-----------------------------------------------------------------------------
(* Branches.                                                               *)

(* A word distance that fits a two's complement field of span values is    *)
(* read back from it unchanged.                                            *)
LEMMA SignExtension ==
  ASSUME NEW span \in Nat \ {0}, span % 2 = 0,
         NEW w \in Int, -span <= 2 * w, 2 * w < span
  PROVE  w = IF w % span >= span \div 2 THEN (w % span) - span ELSE w % span
<1>1. PICK h \in Nat : span = 2 * h /\ span \div 2 = h
  <2>1. span \div 2 \in Nat /\ span = 2 * (span \div 2)
    OBVIOUS
  <2>2. QED
    BY <2>1
<1>2. -h <= w /\ w < h
  BY <1>1
<1>3. CASE w >= 0
  <2>1. w % span = w
    BY <1>1, <1>2, <1>3
  <2>2. QED
    BY <1>1, <1>2, <2>1
<1>4. CASE w < 0
  <2>1. w % span = w + span
    BY <1>1, <1>2, <1>4
  <2>2. QED
    BY <1>1, <1>2, <2>1
<1>5. QED
  BY <1>3, <1>4

(* A displacement in range is what the processor reads from its field.     *)
LEMMA FieldDistance ==
  ASSUME NEW form, NEW delta \in Int, InRange(form, delta)
  PROVE  Distance(form, BranchField(form, delta)) = delta
<1> DEFINE span == IF form = "b" THEN Imm26Span ELSE Imm19Span
           w == delta \div 4
<1>1. span \in Nat \ {0} /\ span % 2 = 0
  BY SpanAssumption
<1>2. /\ delta % 4 = 0
      /\ -(2 * span) <= delta /\ delta < 2 * span
  BY DEF InRange
<1>3. BranchField(form, delta) = w % span
  BY DEF BranchField
<1>4. Distance(form, w % span)
        = 4 * (IF w % span >= span \div 2 THEN (w % span) - span
                                          ELSE w % span)
  BY DEF Distance
<1> HIDE DEF span
<1>5. w \in Int /\ delta = 4 * w /\ -span <= 2 * w /\ 2 * w < span
  BY <1>1, <1>2
<1> HIDE DEF w
<1>6. w = IF w % span >= span \div 2 THEN (w % span) - span ELSE w % span
  BY <1>1, <1>5, SignExtension
<1>7. QED
  BY <1>3, <1>4, <1>5, <1>6

(* An encoded branch within its section takes the processor to where its   *)
(* label ended up, for displacement fields of any even span.               *)
THEOREM BranchesCorrect == Spec => []BranchesReachTheirLabel
<1>1. IInv => BranchesReachTheirLabel
  <2>0. SUFFICES ASSUME IInv, NEW n \in 1 .. next - 1,
                      source[pending[n].line].form \in {"b", "b.cond"},
                      InSection(source[pending[n].line].target,
                                pending[n].section),
                      InRange(source[pending[n].line].form,
                              symbols[Find(symbols,
                                source[pending[n].line].target)].value
                                - pending[n].offset)
               PROVE  pending[n].offset
                        + Distance(source[pending[n].line].form,
                                   sections[pending[n].section].data
                                     [pending[n].offset + 1].imm)
                        = symbols[Find(symbols,
                                    source[pending[n].line].target)].value
    BY DEF BranchesReachTheirLabel
  <2> DEFINE p == pending[n]
             st == source[p.line]
             value == symbols[Find(symbols, st.target)].value
             imm == sections[p.section].data[p.offset + 1].imm
  <2>1. TypeOK /\ Bookkeeping /\ ReferencesResolved
    BY <2>0 DEF IInv
  <2>2. p.offset \in Nat
    <3>1. n \in 1 .. Len(pending)
      BY <2>0, <2>1, TypeFacts DEF TypeOK, Bookkeeping
    <3>2. QED
      BY <2>1, <3>1, TypeFacts DEF Pending
  <2>3. value \in Nat
    <3>1. Find(symbols, st.target) \in 1 .. Len(symbols)
      BY SMTT(30), <2>0, InSectionFacts
    <3>2. QED
      BY <2>1, <3>1, TypeFacts DEF Symbol
  <2>4. imm = BranchField(st.form, value - p.offset)
    BY <2>0, <2>1 DEF ReferencesResolved
  <2>5. InRange(st.form, value - p.offset)
    BY <2>0
  <2>6. SUFFICES p.offset + Distance(st.form, imm) = value
    OBVIOUS
  <2> HIDE DEF p, st, value, imm
  <2>7. value - p.offset \in Int
    BY <2>2, <2>3
  <2>8. Distance(st.form, imm) = value - p.offset
    BY <2>4, <2>5, <2>7, FieldDistance
  <2>9. QED
    BY <2>2, <2>3, <2>8
<1>2. QED
  BY <1>1, Invariance, PTL

-----------------------------------------------------------------------------
(* The contract's functions of the source.                                 *)

(* The latest of some lines is the one that no other is after.             *)
LEMMA LatestIs ==
  ASSUME NEW lines \in SUBSET Int, NEW k \in lines, \A j \in lines : j <= k
  PROVE  Contract!Latest(lines) = k
<1>1. \A i \in lines : (\A j \in lines : j <= i) => i = k
  OBVIOUS
<1> QED
  BY <1>1 DEF Contract!Latest

(* A statement goes to the section of the one before it, unless that one   *)
(* selects another.                                                        *)
LEMMA SectionAtStep ==
  ASSUME NEW src, NEW k \in Nat \ {0}
  PROVE  /\ Contract!SectionAt(src, 1) = "nowhere"
         /\ Contract!SectionAt(src, k + 1)
              = IF src[k].op = "section" THEN src[k].section
                ELSE Contract!SectionAt(src, k)
<1> DEFINE Selected(n) == {j \in 1 .. n - 1 : src[j].op = "section"}
<1>1. Selected(1) = {}
  OBVIOUS
<1>2. Contract!SectionAt(src, 1) = "nowhere"
  BY <1>1 DEF Contract!SectionAt, Contract!Nowhere
<1>3. CASE src[k].op = "section"
  <2>1. k \in Selected(k + 1) /\ \A j \in Selected(k + 1) : j <= k
    BY <1>3
  <2>2. Contract!Latest(Selected(k + 1)) = k
    BY <2>1, LatestIs
  <2> QED
    BY <1>2, <1>3, <2>1, <2>2 DEF Contract!SectionAt
<1>4. CASE src[k].op # "section"
  <2>1. Selected(k + 1) = Selected(k)
    BY <1>4
  <2> QED
    BY <1>2, <1>4, <2>1 DEF Contract!SectionAt
<1> QED
  BY <1>3, <1>4

LengthUpTo(src, name, length, j) ==
  IF j = 0 THEN 0
  ELSE length[j - 1] + (IF Contract!SectionAt(src, j) = name
                        THEN Contract!SizeAt(src[j], length[j - 1]) ELSE 0)

(* Lengths is what its definition says of every prefix.                    *)
LEMMA LengthsUnfold ==
  ASSUME NEW src, Len(src) \in Nat, NEW name
  PROVE  Contract!Lengths(src, name)
           = [j \in 0 .. Len(src) |->
                LengthUpTo(src, name, Contract!Lengths(src, name), j)]
<1> DEFINE Is(length, n) ==
             length = [j \in 0 .. n |-> LengthUpTo(src, name, length, j)]
           S == {n \in Nat : \E length : Is(length, n)}
<1>1. 0 \in S
  <2>1. Is([j \in 0 .. 0 |-> 0], 0)
    BY DEF LengthUpTo
  <2> QED
    BY <2>1
<1>2. ASSUME NEW n \in Nat, n \in S
      PROVE  n + 1 \in S
  <2>1. PICK length : Is(length, n)
    BY <1>2
  <2> DEFINE longer == [j \in 0 .. n + 1 |->
                          IF j = n + 1 THEN LengthUpTo(src, name, length, j)
                          ELSE length[j]]
  <2>2. Is(longer, n + 1)
    <3>1. ASSUME NEW j \in 0 .. n + 1
          PROVE  longer[j] = LengthUpTo(src, name, longer, j)
      <4>1. j > 0 => longer[j - 1] = length[j - 1]
        BY <3>1
      <4> HIDE DEF longer
      <4>2. LengthUpTo(src, name, longer, j) = LengthUpTo(src, name, length, j)
        BY <4>1 DEF LengthUpTo
      <4>3. j # n + 1 => j \in 0 .. n /\ longer[j] = length[j]
        BY DEF longer
      <4>4. j # n + 1 => length[j] = LengthUpTo(src, name, length, j)
        BY <2>1, <4>3
      <4>5. j = n + 1 => longer[j] = LengthUpTo(src, name, length, j)
        BY DEF longer
      <4> QED
        BY <4>2, <4>3, <4>4, <4>5
    <3> QED
      BY <3>1
  <2> HIDE DEF longer
  <2> QED
    BY <2>2
<1>3. Len(src) \in S
  <2> HIDE DEF S
  <2> QED
    BY <1>1, <1>2, Induction
<1>4. \E length : Is(length, Len(src))
  BY <1>3
<1> QED
  BY <1>4 DEF Contract!Lengths, LengthUpTo

(* How the lengths grow from one statement to the next.                    *)
LEMMA LengthsStep ==
  ASSUME NEW src, Len(src) \in Nat, NEW name
  PROVE  /\ Contract!Lengths(src, name)[0] = 0
         /\ \A k \in 1 .. Len(src) :
              Contract!Lengths(src, name)[k]
                = Contract!Lengths(src, name)[k - 1]
                    + (IF Contract!SectionAt(src, k) = name
                       THEN Contract!SizeAt(src[k], Contract!StartOf(src, k))
                       ELSE 0)
<1> DEFINE length == Contract!Lengths(src, name)
<1>1. length = [j \in 0 .. Len(src) |-> LengthUpTo(src, name, length, j)]
  BY LengthsUnfold
<1>h. \A k : Contract!SectionAt(src, k) = name =>
               Contract!StartOf(src, k) = length[k - 1]
  BY DEF Contract!StartOf
<1> HIDE DEF length
<1>2. \A j \in 0 .. Len(src) : length[j] = LengthUpTo(src, name, length, j)
  BY <1>1
<1>3. length[0] = 0
  BY <1>2 DEF LengthUpTo
<1>4. ASSUME NEW k \in 1 .. Len(src)
      PROVE  length[k] = length[k - 1]
                           + (IF Contract!SectionAt(src, k) = name
                              THEN Contract!SizeAt(src[k], length[k - 1])
                              ELSE 0)
  <2>1. k \in 0 .. Len(src) /\ k # 0
    OBVIOUS
  <2> QED
    BY <1>2, <2>1 DEF LengthUpTo
<1> QED
  BY <1>h, <1>3, <1>4 DEF length

-----------------------------------------------------------------------------
(* What the object under construction stands for.  The statements read so  *)
(* far have the section, the bytes and the symbols the contract gives      *)
(* them, and the references settled so far have the link it gives them.    *)

Place(k)  == Contract!SectionAt(source, k)
Start(k)  == Contract!StartOf(source, k)
Size(k)   == Contract!SizeAt(source[k], Start(k))
Linked(k) == Contract!IsLinked(source, k)

Naming == {"label", "globl", "extern", "quad"}

Marks(k, name)     == source[k].op = "label" /\ source[k].name = name
Exports(k, name)   ==
  source[k].op \in {"globl", "extern"} /\ source[k].name = name
Mentioned(k, name) == source[k].op \in Naming /\ source[k].name = name

(* Lines whose reference has been dealt with: every .quad read and every   *)
(* instruction encoded.                                                    *)
Settled ==
  {k \in 1 .. cursor - 1 : source[k].op = "quad"}
    \cup {pending[n].line : n \in 1 .. next - 1}

(* The section the next statement goes into.                               *)
CurrentMeant ==
  IF current = None THEN Place(cursor) = "nowhere"
  ELSE sections[current].name = Place(cursor)

(* A section is as long as the statements read make it.                    *)
LengthsMeant ==
  \A name \in SectionNames :
    /\ \A s \in 1 .. Len(sections) :
         sections[s].name = name =>
           Len(sections[s].data) = Contract!Lengths(source, name)[cursor - 1]
    /\ (\A s \in 1 .. Len(sections) : sections[s].name # name) =>
         Contract!Lengths(source, name)[cursor - 1] = 0

(* A byte is of the statement whose place it has, and the other way round. *)
Holds(s, i, k) ==
  /\ sections[s].name = Place(k)
  /\ i \in 1 .. Len(sections[s].data)
  /\ sections[s].data[i].by = k

BytesMeant ==
  /\ \A s \in 1 .. Len(sections) :
       \A i \in 1 .. Len(sections[s].data) :
         LET k == sections[s].data[i].by
         IN  sections[s].name = Place(k) /\ i \in Bytes(Start(k), Size(k))
  /\ \A k \in 1 .. cursor - 1 :
       Place(k) # "nowhere" =>
         /\ Start(k) \in Nat /\ Size(k) \in Nat
         /\ \A i \in Bytes(Start(k), Size(k)) :
              \E s \in 1 .. Len(sections) : Holds(s, i, k)

(* The statements read are well formed, and the instructions among them    *)
(* are the pending ones, each where the contract places it.                *)
StatementsMeant ==
  /\ \A k \in 1 .. cursor - 1 :
       /\ source[k].op # "unsupported"
       /\ source[k].op \in NeedsSection => Place(k) # "nowhere"
  /\ \A k \in 1 .. cursor - 1 :
       source[k].op = "instruction" =>
         \E n \in 1 .. Len(pending) : pending[n].line = k
  /\ \A n \in 1 .. Len(pending) :
       /\ sections[pending[n].section].name = Place(pending[n].line)
       /\ pending[n].offset = Start(pending[n].line)

(* The instructions encoded are well formed.                               *)
EncodedMeant ==
  \A n \in 1 .. next - 1 :
    LET k == pending[n].line
    IN  /\ source[k].form # "invalid"
        /\ source[k].form = "b.cond" => Contract!IsLocalBranch(source, k)

(* A symbol is defined by the last label of its name, and global when a    *)
(* statement says so.                                                      *)
SymbolMeant(symbol) ==
  /\ symbol.global <=> \E k \in 1 .. cursor - 1 : Exports(k, symbol.name)
  /\ ~symbol.defined => \A k \in 1 .. cursor - 1 : ~Marks(k, symbol.name)
  /\ symbol.defined =>
       \E k \in 1 .. cursor - 1 :
         /\ Marks(k, symbol.name)
         /\ \A j \in k + 1 .. cursor - 1 : ~Marks(j, symbol.name)
         /\ symbol.section \in 1 .. Len(sections)
         /\ sections[symbol.section].name = Place(k)
         /\ symbol.value = Start(k)

(* The symbols are the names the statements read and the links use.        *)
NamesMeant ==
  /\ \A i \in 1 .. Len(symbols) :
       \/ \E k \in 1 .. cursor - 1 : Mentioned(k, symbols[i].name)
       \/ \E k \in Settled :
            Linked(k) /\ Contract!LinkedName(source[k]) = symbols[i].name
  /\ \A k \in 1 .. cursor - 1 :
       source[k].op \in Naming =>
         \E i \in 1 .. Len(symbols) : symbols[i].name = source[k].name
  /\ \A i \in 1 .. Len(symbols) : SymbolMeant(symbols[i])

(* Relocation r of section s is the link of statement k.                   *)
Links(s, r, k) ==
  AbstractLink(s, sections[s].relocations[r]) = Contract!LinkOf(source, k)

LinksMeant ==
  /\ \A s \in 1 .. Len(sections) :
       \A r \in 1 .. Len(sections[s].relocations) :
         \E k \in Settled : Linked(k) /\ Links(s, r, k)
  /\ \A k \in Settled :
       Linked(k) =>
         \E s \in 1 .. Len(sections) :
           \E r \in 1 .. Len(sections[s].relocations) : Links(s, r, k)

(* The abstraction invariant.                                              *)
AInv ==
  /\ IInv
  /\ CurrentMeant /\ LengthsMeant /\ BytesMeant
  /\ StatementsMeant /\ EncodedMeant /\ NamesMeant /\ LinksMeant

-----------------------------------------------------------------------------
(* The exact effect of a step of pass one.                                 *)

(* The section in use grows by the size of the statement read, or another  *)
(* one is selected.                                                        *)
SizesRead ==
  /\ source[cursor].op # "unsupported"
  /\ source[cursor].op \in NeedsSection => current # None
  /\ current # None =>
       Contract!SizeAt(source[cursor], Len(Here.data)) \in Nat
  /\ \A s \in 1 .. Len(sections) :
       /\ sections'[s].name = sections[s].name
       /\ Len(sections'[s].data)
            = Len(sections[s].data)
                + (IF s = current
                   THEN Contract!SizeAt(source[cursor], Len(sections[s].data))
                   ELSE 0)
  /\ source[cursor].op = "section" =>
       /\ current' \in 1 .. Len(sections')
       /\ sections'[current'].name = source[cursor].section
       /\ \A s \in 1 .. Len(sections') : s > Len(sections) => s = current'
  /\ source[cursor].op # "section" =>
       current' = current /\ Len(sections') = Len(sections)

(* The entry a symbol had before the step.                                 *)
Before(i) ==
  IF i <= Len(symbols) THEN symbols[i] ELSE NewSymbol(symbols'[i].name)

SymbolsRead ==
  /\ source[cursor].op \in Naming =>
       \E i \in 1 .. Len(symbols') : symbols'[i].name = source[cursor].name
  /\ \A i \in 1 .. Len(symbols') :
       LET name == symbols'[i].name
       IN  /\ i > Len(symbols) => Mentioned(cursor, name)
           /\ name = Before(i).name
           /\ symbols'[i].global
                <=> (Before(i).global \/ Exports(cursor, name))
           /\ Marks(cursor, name) =>
                /\ symbols'[i].defined
                /\ symbols'[i].section = current
                /\ symbols'[i].value = Len(Here.data)
           /\ ~Marks(cursor, name) =>
                /\ symbols'[i].defined <=> Before(i).defined
                /\ symbols'[i].section = Before(i).section
                /\ symbols'[i].value = Before(i).value

(* The relocation of a .quad read now.                                     *)
IsQuadLink(rel) ==
  /\ rel.offset = Len(Here.data) /\ rel.kind = "ABS64"
  /\ rel.symbol \in 1 .. Len(symbols')
  /\ symbols'[rel.symbol].name = source[cursor].name

RelocationsRead ==
  /\ \A s \in 1 .. Len(sections) :
       /\ Len(sections[s].relocations) <= Len(sections'[s].relocations)
       /\ \A r \in 1 .. Len(sections[s].relocations) :
            sections'[s].relocations[r] = sections[s].relocations[r]
  /\ \A s \in 1 .. Len(sections') :
       \A r \in 1 .. Len(sections'[s].relocations) :
         \/ s <= Len(sections) /\ r <= Len(sections[s].relocations)
         \/ /\ source[cursor].op = "quad" /\ s = current
            /\ IsQuadLink(sections'[s].relocations[r])
  /\ source[cursor].op = "quad" =>
       \E r \in 1 .. Len(sections'[current].relocations) :
         IsQuadLink(sections'[current].relocations[r])

SlotsRead ==
  IF source[cursor].op = "instruction"
  THEN pending' = Append(pending, [section |-> current,
                                   offset  |-> Len(Here.data),
                                   line    |-> cursor])
  ELSE pending' = pending

ReadEffect ==
  PassOneEffect /\ SizesRead /\ SymbolsRead /\ RelocationsRead /\ SlotsRead

(* Sections that only keep their names and sizes.                          *)
LEMMA SameSizes ==
  ASSUME IInv, sections' = sections, current' = current,
         source[cursor].op \in {"label", "globl", "extern", "ignored"},
         source[cursor].op \in NeedsSection => current # None
  PROVE  SizesRead
<1>1. \A start : Contract!SizeAt(source[cursor], start) = 0
  BY DEF Contract!SizeAt
<1>2. \A s \in 1 .. Len(sections) : Len(sections[s].data) \in Nat
  BY TypeFacts, DataFacts DEF IInv
<1> QED
  BY <1>1, <1>2 DEF SizesRead

(* Statements that put bytes into the section in use.                      *)
LEMMA GrownSizes ==
  ASSUME IInv, Align \/ AppendData \/ AppendQuad \/ ReserveSlot
  PROVE  /\ SizesRead
         /\ current \in 1 .. Len(sections)
         /\ \A s \in 1 .. Len(sections) :
              s # current => sections'[s] = sections[s]
         /\ \/ sections'[current].relocations = Here.relocations
            \/ AppendQuad
<1>0. source[cursor].op \in {"align", "data", "quad", "instruction"}
  BY DEF Align, AppendData, AppendQuad, ReserveSlot, Reading
<1>1. /\ source[cursor] \in Statement /\ cursor \in Nat
      /\ current \in 1 .. Len(sections)
  <2>1. PICK op \in {"align", "data", "quad", "instruction"} : Reading(op)
    BY DEF Align, AppendData, AppendQuad, ReserveSlot
  <2>2. op \in NeedsSection
    BY DEF NeedsSection
  <2> QED
    BY <2>1, <2>2, ReadingFacts
<1>2. TypeOK /\ Bookkeeping
  BY DEF IInv
<1>3. /\ Here \in Section /\ Here = sections[current]
      /\ Here.data \in Seq(Byte) /\ Len(Here.data) \in Nat
      /\ Len(Here.data) <= MaxSectionSize
      /\ DOMAIN sections = 1 .. Len(sections) /\ Len(sections) \in Nat
  BY <1>1, <1>2, TypeFacts, SectionFacts DEF Here, Bookkeeping
<1>4. Written("data") \in Byte /\ Written("zero") \in Byte
  BY <1>1 DEF Written, Byte
<1> DEFINE size == Contract!SizeAt(source[cursor], Len(Here.data))
<1>a. ASSUME NEW new, sections' = [sections EXCEPT ![current] = new]
      PROVE  /\ sections'[current] = new
             /\ \A s \in 1 .. Len(sections) :
                  s # current => sections'[s] = sections[s]
             /\ Len(sections') = Len(sections)
  <2>1. sections \in Seq(Section)
    BY <1>2 DEF TypeOK
  <2>2. current \in DOMAIN sections
    BY <1>1, <1>3
  <2> QED
    BY <1>1, <1>3, <1>a, <2>1, <2>2
<1>b. ASSUME NEW n \in Nat, NEW b \in Byte
      PROVE  Len(Extended(Here.data, n, b)) = Len(Here.data) + n
  <2>1. PICK data : data = Here.data
    OBVIOUS
  <2> QED
    BY <1>3, <2>1, ExtendedFacts
<1>5. /\ \A s \in 1 .. Len(sections) : s # current => sections'[s] = sections[s]
      /\ Len(sections') = Len(sections)
      /\ sections'[current].name = Here.name
      /\ Len(sections'[current].data) = Len(Here.data) + size
      /\ size \in Nat
      /\ sections'[current].relocations = Here.relocations \/ AppendQuad
  <2>1. CASE Align
    <3> DEFINE new == AlignSection(Here, source[cursor].alignment,
                                   Written("zero"))
    <3>1. source[cursor].op = "align" /\ source[cursor].alignment \in Alignments
      BY <1>1, <2>1, OperandFacts DEF Align, Reading
    <3>2. size = Padding(Here, source[cursor].alignment)
      <4>1. Fits(Here, Padding(Here, source[cursor].alignment))
        BY <2>1 DEF Align
      <4> QED
        BY <1>3, <3>1, <4>1, PaddingFacts DEF Contract!SizeAt
    <3>3. size \in Nat
      BY <1>3, <3>1, <3>2, PaddingFacts
    <3> HIDE DEF size
    <3>4. /\ new.name = Here.name
          /\ new.data = Extended(Here.data, size, Written("zero"))
          /\ new.relocations = Here.relocations
      BY <1>3, <3>2 DEF AlignSection, Section
    <3>6. sections' = [sections EXCEPT ![current] = new]
      BY <2>1 DEF Align
    <3> HIDE DEF new
    <3> QED
      BY <1>4, <1>a, <1>b, <3>3, <3>4, <3>6
  <2>2. CASE AppendData
    <3> DEFINE new == AppendBytes(Here, source[cursor].size, Written("data"))
    <3>1. source[cursor].op = "data" /\ source[cursor].size \in Nat
      BY <1>1, <2>2, OperandFacts DEF AppendData, Reading
    <3>2. size = source[cursor].size
      BY <3>1 DEF Contract!SizeAt
    <3> HIDE DEF size
    <3>3. /\ new.name = Here.name
          /\ new.data = Extended(Here.data, size, Written("data"))
          /\ new.relocations = Here.relocations
      BY <1>3, <3>2 DEF AppendBytes, Section
    <3>6. sections' = [sections EXCEPT ![current] = new]
      BY <2>2, <3>2 DEF AppendData
    <3> HIDE DEF new
    <3>7. size \in Nat
      BY <3>1, <3>2
    <3> QED
      BY <1>4, <1>a, <1>b, <3>3, <3>6, <3>7
  <2>3. CASE AppendQuad
    <3> DEFINE index == GetOrCreateSymbol(symbols, source[cursor].name).index
               grown == AppendBytes(Here, 8, Written("data"))
               new == AddRelocation(grown, Len(Here.data), "ABS64", index)
    <3>1. source[cursor].op = "quad"
      BY <2>3 DEF AppendQuad, Reading
    <3>2. size = 8
      BY <3>1 DEF Contract!SizeAt
    <3> HIDE DEF size
    <3>3. sections' = [sections EXCEPT ![current] = new]
      BY <2>3 DEF AppendQuad
    <3> HIDE DEF index
    <3>4. /\ grown \in [name : {Here.name}, align : {Here.align},
                        data : {Extended(Here.data, 8, Written("data"))},
                        relocations : {Here.relocations}]
      BY <1>3 DEF AppendBytes, Section
    <3> HIDE DEF grown
    <3>5. /\ new.name = Here.name
          /\ new.data = Extended(Here.data, 8, Written("data"))
      BY <3>4 DEF AddRelocation
    <3> HIDE DEF new
    <3>6. new.data = Extended(Here.data, size, Written("data")) /\ size \in Nat
      BY <3>2, <3>5
    <3> QED
      BY <1>4, <1>a, <1>b, <2>3, <3>3, <3>5, <3>6
  <2>4. CASE ReserveSlot
    <3> DEFINE new == AppendBytes(Here, SlotSize, Written("zero"))
    <3>1. source[cursor].op = "instruction"
      BY <2>4 DEF ReserveSlot, Reading
    <3>2. size = SlotSize /\ SlotSize \in Nat
      BY <3>1, SlotSizeFacts DEF Contract!SizeAt
    <3> HIDE DEF size
    <3>3. /\ new.name = Here.name
          /\ new.data = Extended(Here.data, size, Written("zero"))
          /\ new.relocations = Here.relocations
      BY <1>3, <3>2 DEF AppendBytes, Section
    <3>6. sections' = [sections EXCEPT ![current] = new]
      BY <2>4 DEF ReserveSlot
    <3> HIDE DEF new
    <3> QED
      BY <1>4, <1>a, <1>b, <3>2, <3>3, <3>6
  <2> QED
    BY <2>1, <2>2, <2>3, <2>4
<1> HIDE DEF size
<1>8. current' = current
  BY DEF Align, AppendData, AppendQuad, ReserveSlot
<1>9. \A s \in 1 .. Len(sections) :
        /\ sections'[s].name = sections[s].name
        /\ Len(sections'[s].data)
             = Len(sections[s].data)
                 + (IF s = current
                    THEN Contract!SizeAt(source[cursor], Len(sections[s].data))
                    ELSE 0)
  <2>1. \A s \in 1 .. Len(sections) : Len(sections[s].data) \in Nat
    BY <1>2, DataFacts
  <2> QED
    BY <1>3, <1>5, <2>1 DEF size
<1> QED
  BY <1>0, <1>1, <1>3, <1>5, <1>8, <1>9 DEF SizesRead, None, size

(* Symbols the statement read does not name.                               *)
LEMMA SameSymbols ==
  ASSUME IInv, symbols' = symbols, source[cursor].op \notin Naming
  PROVE  SymbolsRead
<1>1. Len(symbols) \in Nat
  BY TypeFacts DEF IInv
<1>2. \A i \in 1 .. Len(symbols') :
        /\ Before(i) = symbols'[i] /\ ~(i > Len(symbols))
  BY <1>1 DEF Before
<1>3. \A name : /\ ~Marks(cursor, name) /\ ~Exports(cursor, name)
                /\ ~Mentioned(cursor, name)
  BY SMTT(30) DEF Marks, Exports, Mentioned, Naming
<1> QED
  BY <1>2, <1>3 DEF SymbolsRead

(* A statement that names a symbol leaves one entry changed.               *)
LEMMA OneSymbolRead ==
  ASSUME IInv, cursor \in 1 .. Len(source), source[cursor].op \in Naming,
         NEW new, new.name = source[cursor].name,
         LET got == GetOrCreateSymbol(symbols, source[cursor].name)
             old == got.table[got.index]
         IN  /\ symbols' = [got.table EXCEPT ![got.index] = new]
             /\ new.global <=> \/ old.global
                               \/ source[cursor].op \in {"globl", "extern"}
             /\ source[cursor].op = "label" =>
                  /\ new.defined
                  /\ new.section = current /\ new.value = Len(Here.data)
             /\ source[cursor].op # "label" =>
                  /\ new.defined <=> old.defined
                  /\ new.section = old.section /\ new.value = old.value
  PROVE  SymbolsRead
<1> DEFINE name == source[cursor].name
           got == GetOrCreateSymbol(symbols, name)
           old == got.table[got.index]
<1>1. name \in Names /\ source[cursor] \in Statement
  BY TypeFacts, OperandFacts DEF IInv, Naming
<1>2. /\ got.table \in Seq(Symbol) /\ UniqueNames(got.table)
      /\ got.index \in 1 .. Len(got.table)
      /\ old.name = name
      /\ Len(symbols) <= Len(got.table)
      /\ \A i \in 1 .. Len(symbols) : got.table[i] = symbols[i]
      /\ \A i \in 1 .. Len(got.table) :
           i > Len(symbols) => got.table[i] = NewSymbol(name)
  <2>1. symbols \in Seq(Symbol) /\ UniqueNames(symbols)
    BY DEF IInv, TypeOK, NamesUnique
  <2> QED
    BY <1>1, <2>1, GetOrCreateSymbolFacts
<1>3. /\ symbols' = [got.table EXCEPT ![got.index] = new]
      /\ new.global <=> \/ old.global
                        \/ source[cursor].op \in {"globl", "extern"}
      /\ source[cursor].op = "label" =>
           /\ new.defined
           /\ new.section = current /\ new.value = Len(Here.data)
      /\ source[cursor].op # "label" =>
           /\ new.defined <=> old.defined
           /\ new.section = old.section /\ new.value = old.value
  OBVIOUS
<1>4. Len(symbols) \in Nat
  BY TypeFacts DEF IInv
<1> HIDE DEF got
<1>5. /\ Len(symbols') = Len(got.table)
      /\ symbols'[got.index] = new
      /\ \A i \in 1 .. Len(got.table) :
           i # got.index => symbols'[i] = got.table[i]
      /\ DOMAIN got.table = 1 .. Len(got.table)
  BY <1>2, <1>3
<1>6. \A i \in 1 .. Len(got.table) :
        got.table[i].name = name => i = got.index
  BY <1>2, <1>5 DEF UniqueNames
<1>7. ASSUME NEW i \in 1 .. Len(symbols')
      PROVE  Before(i) = got.table[i] /\ symbols'[i].name = got.table[i].name
  <2>1. symbols'[i].name = got.table[i].name
    BY <1>2, <1>5
  <2>2. CASE i <= Len(symbols)
    <3>1. i \in 1 .. Len(symbols)
      BY <1>4, <2>2
    <3> QED
      BY <1>2, <2>1, <2>2, <3>1 DEF Before
  <2>3. CASE ~(i <= Len(symbols))
    <3>1. got.table[i] = NewSymbol(name)
      BY <1>2, <1>4, <1>5, <2>3
    <3>2. got.table[i].name = name
      BY <3>1 DEF NewSymbol
    <3> QED
      BY <2>1, <2>3, <3>1, <3>2 DEF Before
  <2> QED
    BY <2>2, <2>3
<1>8. ASSUME NEW i \in 1 .. Len(symbols'), i # got.index
      PROVE  /\ symbols'[i] = Before(i) /\ symbols'[i].name # name
             /\ ~(i > Len(symbols))
  <2>1. symbols'[i] = Before(i) /\ symbols'[i].name # name
    BY <1>5, <1>6, <1>7, <1>8
  <2>2. i > Len(symbols) => got.table[i].name = name
    BY SMTT(30), <1>2, <1>5 DEF NewSymbol
  <2> QED
    BY <1>7, <2>1, <2>2
<1> HIDE DEF name
<1>9. ASSUME NEW i \in 1 .. Len(symbols')
      PROVE  LET n == symbols'[i].name
             IN  /\ i > Len(symbols) => Mentioned(cursor, n)
                 /\ n = Before(i).name
                 /\ symbols'[i].global
                      <=> (Before(i).global \/ Exports(cursor, n))
                 /\ Marks(cursor, n) =>
                      /\ symbols'[i].defined
                      /\ symbols'[i].section = current
                      /\ symbols'[i].value = Len(Here.data)
                 /\ ~Marks(cursor, n) =>
                      /\ symbols'[i].defined <=> Before(i).defined
                      /\ symbols'[i].section = Before(i).section
                      /\ symbols'[i].value = Before(i).value
  <2>1. CASE i # got.index
    <3>1. /\ symbols'[i] = Before(i) /\ symbols'[i].name # name
          /\ ~(i > Len(symbols))
      BY <1>8, <2>1
    <3>2. /\ ~Marks(cursor, symbols'[i].name)
          /\ ~Exports(cursor, symbols'[i].name)
      BY <3>1 DEF Marks, Exports, name
    <3> QED
      BY <3>1, <3>2
  <2>2. CASE i = got.index
    <3>1. symbols'[i] = new /\ Before(i) = old /\ new.name = name
      BY <1>5, <1>7, <2>2 DEF name
    <3>2. /\ Mentioned(cursor, name)
          /\ Marks(cursor, name) <=> source[cursor].op = "label"
          /\ Exports(cursor, name) <=> source[cursor].op \in {"globl", "extern"}
      BY DEF Marks, Exports, Mentioned, name
    <3> QED
      BY <1>2, <1>3, <3>1, <3>2
  <2> QED
    BY <2>1, <2>2
<1>10. \E i \in 1 .. Len(symbols') : symbols'[i].name = name
  BY <1>2, <1>5, <1>7
<1> QED
  BY <1>9, <1>10 DEF SymbolsRead, name

(* Relocations the statement read does not touch.                          *)
LEMMA SameRelocations ==
  ASSUME IInv, source[cursor].op # "quad",
         \A s \in 1 .. Len(sections) :
           sections'[s].relocations = sections[s].relocations,
         \A s \in 1 .. Len(sections') :
           s > Len(sections) => sections'[s].relocations = << >>
  PROVE  RelocationsRead
<1>1. /\ \A s \in 1 .. Len(sections) : Len(sections[s].relocations) \in Nat
      /\ Len(sections) \in Nat
  BY TypeFacts, DataFacts DEF IInv
<1>2. ASSUME NEW s \in 1 .. Len(sections'),
             NEW r \in 1 .. Len(sections'[s].relocations)
      PROVE  s <= Len(sections) /\ r <= Len(sections[s].relocations)
  <2>1. CASE s > Len(sections)
    <3>1. Len(sections'[s].relocations) = 0
      BY <2>1
    <3> QED
      BY <3>1
  <2>2. CASE ~(s > Len(sections))
    <3>1. s \in 1 .. Len(sections) /\ s <= Len(sections)
      BY <1>1, <2>2
    <3> QED
      BY <1>1, <3>1
  <2> QED
    BY <2>1, <2>2
<1> QED
  BY <1>1, <1>2 DEF RelocationsRead

(* A label.                                                                *)
LEMMA DefineLabelRead ==
  ASSUME IInv, DefineLabel
  PROVE  ReadEffect
<1> DEFINE got == GetOrCreateSymbol(symbols, source[cursor].name)
           old == got.table[got.index]
           new == Defined(old, current, Len(Here.data))
<1>1. /\ cursor \in 1 .. Len(source) /\ source[cursor].op = "label"
      /\ current \in 1 .. Len(sections) /\ source[cursor] \in Statement
  BY ReadingFacts DEF DefineLabel, NeedsSection
<1>2. /\ sections' = sections /\ current' = current /\ pending' = pending
      /\ symbols' = [got.table EXCEPT ![got.index] = new]
  BY DEF DefineLabel
<1>3. Len(sections) \in Nat
  BY TypeFacts DEF IInv
<1>4. PassOneEffect
  BY DefineLabelEffect
<1>5. SizesRead
  BY <1>1, <1>2, <1>3, SameSizes DEF None
<1>6. RelocationsRead
  BY <1>1, <1>2, <1>3, SameRelocations
<1>7. SlotsRead
  BY <1>1, <1>2 DEF SlotsRead
<1>8. old \in Symbol /\ old.name = source[cursor].name
  <2>1. symbols \in Seq(Symbol) /\ UniqueNames(symbols)
    BY DEF IInv, TypeOK, NamesUnique
  <2>2. source[cursor].name \in Names
    BY <1>1, OperandFacts
  <2>3. /\ got.table \in Seq(Symbol) /\ got.index \in 1 .. Len(got.table)
        /\ got.table[got.index].name = source[cursor].name
    BY <2>1, <2>2, GetOrCreateSymbolFacts
  <2> HIDE DEF got
  <2> QED
    BY <2>3
<1> HIDE DEF old
<1>9. /\ new.name = old.name /\ new.global = old.global
      /\ new.defined /\ new.section = current /\ new.value = Len(Here.data)
  BY <1>8 DEF Defined, Symbol
<1> HIDE DEF new
<1>10. SymbolsRead
  <2>1. source[cursor].op \in Naming
    BY <1>1 DEF Naming
  <2>2. /\ new.name = source[cursor].name
        /\ new.global <=> \/ old.global
                          \/ source[cursor].op \in {"globl", "extern"}
        /\ source[cursor].op = "label" =>
             /\ new.defined
             /\ new.section = current /\ new.value = Len(Here.data)
        /\ ~(source[cursor].op # "label")
    BY <1>1, <1>8, <1>9
  <2> QED
    BY <1>1, <1>2, <2>1, <2>2, OneSymbolRead DEF old
<1> QED
  BY <1>4, <1>5, <1>6, <1>7, <1>10 DEF ReadEffect

(* .globl and .extern.                                                     *)
LEMMA DeclareRead ==
  ASSUME IInv, DeclareGlobal \/ DeclareExtern
  PROVE  ReadEffect
<1> DEFINE got == GetOrCreateSymbol(symbols, source[cursor].name)
           old == got.table[got.index]
<1>1. /\ cursor \in 1 .. Len(source) /\ source[cursor] \in Statement
      /\ source[cursor].op \in {"globl", "extern"}
  <2>1. PICK op \in {"globl", "extern"} : Reading(op)
    BY DEF DeclareGlobal, DeclareExtern
  <2> QED
    BY SMTT(30), <2>1, ReadingFacts
<1>2. sections' = sections /\ current' = current /\ pending' = pending
  BY DEF DeclareGlobal, DeclareExtern
<1>3. Len(sections) \in Nat
  BY TypeFacts DEF IInv
<1>4. PassOneEffect
  BY DeclareEffect
<1>5. SizesRead
  BY <1>1, <1>2, <1>3, SameSizes DEF NeedsSection
<1>6. RelocationsRead
  BY <1>1, <1>2, <1>3, SameRelocations
<1>7. SlotsRead
  BY <1>1, <1>2 DEF SlotsRead
<1>8. old \in Symbol /\ old.name = source[cursor].name
  <2>1. symbols \in Seq(Symbol) /\ UniqueNames(symbols)
    BY DEF IInv, TypeOK, NamesUnique
  <2>2. source[cursor].name \in Names
    BY <1>1, OperandFacts
  <2>3. /\ got.table \in Seq(Symbol) /\ got.index \in 1 .. Len(got.table)
        /\ got.table[got.index].name = source[cursor].name
    BY SMTT(30), <2>1, <2>2, GetOrCreateSymbolFacts
  <2> HIDE DEF got
  <2> QED
    BY <2>3
<1>9. ASSUME NEW new,
             \/ new = [old EXCEPT !.global = TRUE]
             \/ new = [old EXCEPT !.global = TRUE, !.external = TRUE],
             symbols' = [got.table EXCEPT ![got.index] = new]
      PROVE  SymbolsRead
  <2> HIDE DEF old
  <2>1. /\ new.name = old.name /\ new.global /\ new.defined = old.defined
        /\ new.section = old.section /\ new.value = old.value
    BY <1>8, <1>9 DEF Symbol
  <2>2. source[cursor].op \in Naming
    BY <1>1 DEF Naming
  <2>3. /\ new.name = source[cursor].name
        /\ new.global <=> \/ old.global
                          \/ source[cursor].op \in {"globl", "extern"}
        /\ ~(source[cursor].op = "label")
        /\ source[cursor].op # "label" =>
             /\ new.defined <=> old.defined
             /\ new.section = old.section /\ new.value = old.value
    BY <1>1, <1>8, <2>1
  <2> QED
    BY <1>1, <1>9, <2>2, <2>3, OneSymbolRead DEF old
<1>10. SymbolsRead
  <2>1. CASE DeclareGlobal
    BY <1>9, <2>1 DEF DeclareGlobal
  <2>2. CASE DeclareExtern
    BY <1>9, <2>2 DEF DeclareExtern
  <2> QED
    BY <2>1, <2>2
<1> QED
  BY <1>4, <1>5, <1>6, <1>7, <1>10 DEF ReadEffect

(* A section directive.                                                    *)
LEMMA SelectSectionRead ==
  ASSUME IInv, SelectSection
  PROVE  ReadEffect
<1> DEFINE name == source[cursor].section
           got == GetOrCreateSection(sections, name)
<1>1. /\ cursor \in 1 .. Len(source) /\ source[cursor].op = "section"
      /\ source[cursor] \in Statement /\ name \in SectionNames
  BY ReadingFacts, OperandFacts DEF SelectSection
<1>2. /\ sections' = got.table /\ current' = got.index
      /\ symbols' = symbols /\ pending' = pending
  BY DEF SelectSection
<1>3. /\ sections \in Seq(Section) /\ UniqueNames(sections)
      /\ Len(sections) \in Nat
  BY TypeFacts DEF IInv, TypeOK, NamesUnique
<1>4. /\ got.index \in 1 .. Len(got.table)
      /\ \A s \in 1 .. Len(sections) : got.table[s] = sections[s]
      /\ \A s \in 1 .. Len(got.table) :
           s > Len(sections) => got.table[s].relocations = << >>
  BY <1>1, <1>3, GetOrCreateSectionFacts
<1>5. /\ got.table[got.index].name = name
      /\ \A s \in 1 .. Len(got.table) : s > Len(sections) => s = got.index
  <2>1. CASE Find(sections, name) # None
    <3>1. sections[Find(sections, name)].name = name
      BY <1>3, <2>1, FindFacts
    <3>2. got = [table |-> sections, index |-> Find(sections, name)]
      BY <2>1 DEF GetOrCreateSection
    <3> QED
      BY <1>3, <3>1, <3>2
  <2>2. CASE Find(sections, name) = None
    <3> DEFINE table == Append(sections, NewSection(name))
    <3>1. got = [table |-> table, index |-> Len(sections) + 1]
      BY <2>2 DEF GetOrCreateSection
    <3>2. /\ Len(table) = Len(sections) + 1
          /\ table[Len(sections) + 1] = NewSection(name)
      <4>1. NewSection(name) \in Section
        BY <1>1 DEF NewSection, Section
      <4> QED
        BY <1>3, <4>1
    <3>3. NewSection(name).name = name
      BY DEF NewSection
    <3> HIDE DEF table
    <3> QED
      BY <1>3, <3>1, <3>2, <3>3
  <2> QED
    BY <2>1, <2>2
<1> HIDE DEF got
<1>6. PassOneEffect
  BY SelectSectionEffect
<1>7. SizesRead
  <2>1. \A start : Contract!SizeAt(source[cursor], start) = 0
    BY <1>1 DEF Contract!SizeAt
  <2>2. \A s \in 1 .. Len(sections) : Len(sections[s].data) \in Nat
    BY TypeFacts, DataFacts DEF IInv
  <2>3. /\ source[cursor].op # "unsupported"
        /\ source[cursor].op \notin NeedsSection
    BY <1>1 DEF NeedsSection
  <2>4. \A s \in 1 .. Len(sections) :
          /\ sections'[s].name = sections[s].name
          /\ Len(sections'[s].data)
               = Len(sections[s].data)
                   + (IF s = current
                      THEN Contract!SizeAt(source[cursor], Len(sections[s].data))
                      ELSE 0)
    BY <1>2, <1>4, <2>1, <2>2
  <2> QED
    BY <1>1, <1>2, <1>4, <1>5, <2>1, <2>3, <2>4 DEF SizesRead
<1>8. RelocationsRead
  BY <1>1, <1>2, <1>4, SameRelocations
<1>9. SlotsRead
  BY <1>1, <1>2 DEF SlotsRead
<1>10. SymbolsRead
  BY <1>1, <1>2, SameSymbols DEF Naming
<1> QED
  BY <1>6, <1>7, <1>8, <1>9, <1>10 DEF ReadEffect

(* Padding, data and instructions.                                         *)
LEMMA GrowRead ==
  ASSUME IInv, Align \/ AppendData \/ ReserveSlot
  PROVE  ReadEffect
<1>1. source[cursor].op \in {"align", "data", "instruction"}
  BY DEF Align, AppendData, ReserveSlot, Reading
<1>2. PassOneEffect
  BY GrowEffect, ReserveSlotEffect
<1>3. symbols' = symbols
  BY DEF Align, AppendData, ReserveSlot
<1>4. ~AppendQuad
  BY <1>1 DEF AppendQuad, Reading
<1>5. /\ SizesRead
      /\ \A s \in 1 .. Len(sections) :
           sections'[s].relocations = sections[s].relocations
  BY <1>4, GrownSizes DEF Here
<1>6. RelocationsRead
  <2>1. Len(sections') = Len(sections) /\ Len(sections) \in Nat
    BY <1>1, <1>5, TypeFacts DEF SizesRead, IInv
  <2> QED
    BY <1>1, <1>5, <2>1, SameRelocations
<1>7. SymbolsRead
  BY <1>1, <1>3, SameSymbols DEF Naming
<1>8. SlotsRead
  BY DEF Align, AppendData, ReserveSlot, Reading, SlotsRead
<1> QED
  BY <1>2, <1>5, <1>6, <1>7, <1>8 DEF ReadEffect

(* .quad name.                                                             *)
LEMMA AppendQuadRead ==
  ASSUME IInv, AppendQuad
  PROVE  ReadEffect
<1> DEFINE got == GetOrCreateSymbol(symbols, source[cursor].name)
           old == got.table[got.index]
           rel == [offset |-> Len(Here.data), kind |-> "ABS64",
                   symbol |-> got.index]
           grown == AppendBytes(Here, 8, Written("data"))
           new == AddRelocation(grown, Len(Here.data), "ABS64", got.index)
<1>1. /\ cursor \in 1 .. Len(source) /\ source[cursor].op = "quad"
      /\ current \in 1 .. Len(sections) /\ source[cursor] \in Statement
  BY ReadingFacts DEF AppendQuad, NeedsSection
<1>2. /\ symbols' = got.table /\ pending' = pending
      /\ sections' = [sections EXCEPT ![current] = new]
  BY DEF AppendQuad
<1>3. PassOneEffect
  BY AppendQuadEffect
<1>4. /\ SizesRead
      /\ \A s \in 1 .. Len(sections) : s # current => sections'[s] = sections[s]
  BY GrownSizes
<1>5. /\ got.table \in Seq(Symbol) /\ got.index \in 1 .. Len(got.table)
      /\ old.name = source[cursor].name
  <2>1. symbols \in Seq(Symbol) /\ UniqueNames(symbols)
    BY DEF IInv, TypeOK, NamesUnique
  <2>2. source[cursor].name \in Names
    BY <1>1, OperandFacts
  <2> QED
    BY SMTT(30), <2>1, <2>2, GetOrCreateSymbolFacts
<1>6. SymbolsRead
  <2>1. symbols' = [got.table EXCEPT ![got.index] = old]
    <3> HIDE DEF got
    <3> QED
      BY <1>2, <1>5
  <2>2. source[cursor].op \in Naming
    BY <1>1 DEF Naming
  <2>3. /\ old.global <=> \/ old.global
                          \/ source[cursor].op \in {"globl", "extern"}
        /\ ~(source[cursor].op = "label")
    BY <1>1
  <2> QED
    BY <1>1, <1>5, <2>1, <2>2, <2>3, OneSymbolRead
<1>7. /\ Here \in Section /\ Here = sections[current]
      /\ Here.relocations \in Seq(Relocation)
      /\ Len(Here.relocations) \in Nat /\ Len(Here.data) \in Nat
      /\ Len(sections) \in Nat
      /\ \A s \in 1 .. Len(sections) : Len(sections[s].relocations) \in Nat
  BY <1>1, TypeFacts, SectionFacts, DataFacts DEF Here, IInv
<1>8. sections'[current].relocations = Append(Here.relocations, rel)
  <2>1. grown.relocations = Here.relocations /\ grown \in Section
    BY <1>1, <1>7, BytesAppended DEF IInv, TypeOK
  <2> HIDE DEF grown
  <2>2. new = [grown EXCEPT !.relocations = Append(grown.relocations, rel)]
    BY DEF AddRelocation
  <2> HIDE DEF rel, new
  <2>3. new.relocations = Append(Here.relocations, rel)
    BY <2>1, <2>2 DEF Section
  <2>4. sections'[current] = new
    <3>1. sections \in Seq(Section)
      BY DEF IInv, TypeOK
    <3>2. current \in DOMAIN sections
      BY <1>1, <3>1
    <3> QED
      BY <1>2, <3>1, <3>2
  <2> QED
    BY <2>3, <2>4
<1>9. IsQuadLink(rel)
  BY <1>2, <1>5 DEF IsQuadLink
<1> HIDE DEF got, rel
<1>10. RelocationsRead
  <2> DEFINE here == sections'[current].relocations
             n == Len(Here.relocations)
  <2>1. rel \in Relocation
    <3>1. got.index \in Nat
      <4>1. Len(got.table) \in Nat
        BY <1>5
      <4> QED
        BY <1>5, <4>1
    <3> QED
      BY <1>7, <3>1 DEF rel, Relocation, RelocationKinds
  <2>2. /\ Len(here) = n + 1 /\ here[n + 1] = rel
        /\ \A r \in 1 .. n : here[r] = Here.relocations[r]
    BY <1>7, <1>8, <2>1
  <2> HIDE DEF here
  <2>3. ASSUME NEW s \in 1 .. Len(sections)
        PROVE  /\ Len(sections[s].relocations) <= Len(sections'[s].relocations)
               /\ \A r \in 1 .. Len(sections[s].relocations) :
                    sections'[s].relocations[r] = sections[s].relocations[r]
    <3>1. CASE s = current
      BY <1>7, <2>2, <3>1 DEF here
    <3>2. CASE s # current
      BY <1>4, <1>7, <3>2
    <3> QED
      BY <3>1, <3>2
  <2>4. Len(sections') = Len(sections)
    BY <1>1, <1>4 DEF SizesRead
  <2>5. ASSUME NEW s \in 1 .. Len(sections'),
               NEW r \in 1 .. Len(sections'[s].relocations)
        PROVE  \/ s <= Len(sections) /\ r <= Len(sections[s].relocations)
               \/ s = current /\ IsQuadLink(sections'[s].relocations[r])
    <3>1. s \in 1 .. Len(sections) /\ s <= Len(sections)
      BY <1>7, <2>4
    <3>2. CASE s = current
      <4>1. r \in 1 .. n + 1
        BY <2>2, <3>2 DEF here
      <4>2. CASE r = n + 1
        BY <1>9, <2>2, <3>2, <4>2 DEF here
      <4>3. CASE r # n + 1
        BY <1>7, <3>1, <3>2, <4>1, <4>3
      <4> QED
        BY <4>2, <4>3
    <3>3. CASE s # current
      BY <1>4, <1>7, <3>1, <3>3
    <3> QED
      BY <3>2, <3>3
  <2>6. \E r \in 1 .. Len(sections'[current].relocations) :
          IsQuadLink(sections'[current].relocations[r])
    <3>1. n + 1 \in 1 .. Len(here)
      BY <1>7, <2>2
    <3> QED
      BY <1>9, <2>2, <3>1 DEF here
  <2> QED
    BY <1>1, <2>3, <2>5, <2>6 DEF RelocationsRead
<1>11. SlotsRead
  BY <1>1, <1>2 DEF SlotsRead
<1> QED
  BY <1>3, <1>4, <1>6, <1>10, <1>11 DEF ReadEffect

(* A directive without effect.                                             *)
LEMMA SkipRead ==
  ASSUME IInv, SkipDirective
  PROVE  ReadEffect
<1>1. /\ source[cursor].op = "ignored"
      /\ sections' = sections /\ symbols' = symbols /\ pending' = pending
      /\ current' = current
  BY DEF SkipDirective, Reading
<1>2. PassOneEffect
  BY SkipEffect
<1>3. SizesRead
  BY <1>1, SameSizes DEF NeedsSection
<1>4. SymbolsRead
  BY <1>1, SameSymbols DEF Naming
<1>5. Len(sections) \in Nat
  BY TypeFacts DEF IInv
<1>6. RelocationsRead
  BY <1>1, <1>5, SameRelocations
<1>7. SlotsRead
  BY <1>1 DEF SlotsRead
<1> QED
  BY <1>2, <1>3, <1>4, <1>6, <1>7 DEF ReadEffect

-----------------------------------------------------------------------------
(* A step of pass one keeps what the object stands for.                    *)

(* Where the statement under the cursor goes.                              *)
LEMMA CursorMeant ==
  ASSUME AInv, cursor \in 1 .. Len(source)
  PROVE  /\ current = None => Place(cursor) = "nowhere"
         /\ current # None =>
              /\ current \in 1 .. Len(sections)
              /\ Place(cursor) = Here.name
              /\ Place(cursor) \in SectionNames
              /\ Place(cursor) # "nowhere"
              /\ Start(cursor) = Len(Here.data)
              /\ Start(cursor) \in Nat
              /\ Size(cursor) = Contract!SizeAt(source[cursor], Len(Here.data))
         /\ \A s \in 1 .. Len(sections) :
              sections[s].name = Place(cursor) <=> s = current
<1>1. TypeOK /\ NamesUnique /\ Bookkeeping /\ CurrentMeant /\ LengthsMeant
  BY DEF AInv, IInv
<1>2. /\ Len(sections) \in Nat /\ current \in 0 .. Len(sections)
      /\ \A s \in 1 .. Len(sections) : sections[s] \in Section
      /\ DOMAIN sections = 1 .. Len(sections)
  BY <1>1, TypeFacts DEF TypeOK
<1>3. \A s \in 1 .. Len(sections) : sections[s].name \in SectionNames
  BY <1>2 DEF Section
<1>4. CASE current = None
  <2>1. Place(cursor) = "nowhere"
    BY <1>1, <1>4 DEF CurrentMeant
  <2> QED
    BY <1>3, <1>4, <2>1, NameAssumption DEF None
<1>5. CASE current # None
  <2>1. current \in 1 .. Len(sections)
    BY <1>2, <1>5 DEF None
  <2>2. Place(cursor) = sections[current].name
    BY <1>1, <1>5 DEF CurrentMeant
  <2>3. Place(cursor) \in SectionNames
    BY <1>3, <2>1, <2>2
  <2>4. Start(cursor) = Contract!Lengths(source, Place(cursor))[cursor - 1]
    BY DEF Start, Place, Contract!StartOf
  <2>5. Start(cursor) = Len(sections[current].data)
    BY <1>1, <2>1, <2>2, <2>3, <2>4 DEF LengthsMeant
  <2>6. Len(sections[current].data) \in Nat
    BY <1>1, <2>1, DataFacts
  <2>7. \A s \in 1 .. Len(sections) :
          sections[s].name = Place(cursor) <=> s = current
    BY <1>1, <1>2, <2>1, <2>2 DEF NamesUnique, UniqueNames
  <2> QED
    BY <1>5, <2>1, <2>2, <2>3, <2>5, <2>6, <2>7, NameAssumption
       DEF Here, Size
<1> QED
  BY <1>4, <1>5

(* The counters around a step of pass one.                                 *)
LEMMA ReadCounters ==
  ASSUME AInv, ReadEffect
  PROVE  /\ cursor \in 1 .. Len(source) /\ cursor' = cursor + 1
         /\ cursor' - 1 = cursor
         /\ \A k \in 1 .. cursor : k = cursor \/ k \in 1 .. cursor - 1
         /\ \A k \in 1 .. cursor - 1 : k \in 1 .. cursor /\ k # cursor
         /\ cursor \in 1 .. cursor
         /\ source' = source /\ next = 1 /\ next' = 1
         /\ Len(sections) \in Nat /\ Len(sections') \in Nat
         /\ Len(symbols) \in Nat /\ Len(symbols') \in Nat
         /\ Len(pending) \in Nat
         /\ \A s \in 1 .. Len(sections) :
              /\ s \in 1 .. Len(sections')
              /\ Len(sections[s].data) \in Nat
              /\ Len(sections[s].relocations) \in Nat
         /\ \A s \in 1 .. Len(sections') :
              s > Len(sections) \/ s \in 1 .. Len(sections)
         /\ \A s, t \in 1 .. Len(sections') :
              sections'[s].name = sections'[t].name => s = t
         /\ \A i \in 1 .. Len(symbols) : i \in 1 .. Len(symbols')
         /\ \A i \in 1 .. Len(symbols') :
              i > Len(symbols) \/ i \in 1 .. Len(symbols)
         /\ \A i, j \in 1 .. Len(symbols') :
              symbols'[i].name = symbols'[j].name => i = j
<1>1. TypeOK /\ Bookkeeping
  BY DEF AInv, IInv
<1>2. ReadsOn /\ SectionsGrow /\ SymbolsGrow
  BY DEF ReadEffect, PassOneEffect
<1>3. /\ cursor \in Nat \ {0} /\ Len(source) \in Nat
      /\ Len(sections) \in Nat /\ Len(symbols) \in Nat /\ Len(pending) \in Nat
      /\ \A s \in 1 .. Len(sections) :
           /\ Len(sections[s].data) \in Nat
           /\ Len(sections[s].relocations) \in Nat
  BY <1>1, TypeFacts, DataFacts DEF TypeOK
<1>4. /\ Len(sections') \in Nat /\ Len(sections) <= Len(sections')
      /\ DOMAIN sections' = 1 .. Len(sections')
      /\ Len(symbols') \in Nat /\ Len(symbols) <= Len(symbols')
      /\ DOMAIN symbols' = 1 .. Len(symbols')
  BY <1>2 DEF SectionsGrow, SymbolsGrow
<1>5. /\ cursor <= Len(source) /\ cursor' = cursor + 1
      /\ source' = source /\ next = 1 /\ next' = 1
  BY <1>1, <1>2 DEF ReadsOn, Bookkeeping
<1>6. /\ \A s, t \in 1 .. Len(sections') :
           sections'[s].name = sections'[t].name => s = t
      /\ \A i, j \in 1 .. Len(symbols') :
           symbols'[i].name = symbols'[j].name => i = j
  BY <1>2, <1>4 DEF SectionsGrow, SymbolsGrow, UniqueNames
<1> QED
  BY <1>3, <1>4, <1>5, <1>6

(* The next statement goes into the section now selected.                  *)
LEMMA CurrentRead ==
  ASSUME AInv, ReadEffect
  PROVE  CurrentMeant'
<1>1. /\ cursor \in 1 .. Len(source) /\ cursor' = cursor + 1
      /\ source' = source
  BY ReadCounters
<1>2. SizesRead
  BY DEF ReadEffect
<1>3. Place(cursor)' = IF source[cursor].op = "section"
                       THEN source[cursor].section ELSE Place(cursor)
  BY SMTT(30), <1>1, SectionAtStep DEF Place
<1>4. CASE source[cursor].op = "section"
  BY <1>2, <1>3, <1>4 DEF SizesRead, CurrentMeant, None
<1>5. CASE source[cursor].op # "section"
  <2>1. current' = current
    BY <1>2, <1>5 DEF SizesRead
  <2>2. current # None =>
          /\ current \in 1 .. Len(sections)
          /\ sections[current].name = Place(cursor)
    BY <1>1, CursorMeant DEF Here
  <2>3. current # None => sections'[current].name = sections[current].name
    BY <1>2, <2>2 DEF SizesRead
  <2>4. current = None => Place(cursor) = "nowhere"
    BY <1>1, CursorMeant
  <2> QED
    BY <1>3, <1>5, <2>1, <2>2, <2>3, <2>4 DEF CurrentMeant
<1> QED
  BY <1>4, <1>5

(* Sections are as long as the statements make them.                       *)
LEMMA LengthsRead ==
  ASSUME AInv, ReadEffect
  PROVE  LengthsMeant'
<1>1. /\ cursor \in 1 .. Len(source) /\ cursor' - 1 = cursor
      /\ source' = source /\ Len(source) \in Nat
      /\ Len(sections) \in Nat
      /\ \A s \in 1 .. Len(sections) :
           s \in 1 .. Len(sections') /\ Len(sections[s].data) \in Nat
      /\ \A s \in 1 .. Len(sections') :
           s > Len(sections) \/ s \in 1 .. Len(sections)
      /\ \A s, t \in 1 .. Len(sections') :
           sections'[s].name = sections'[t].name => s = t
  BY ReadCounters, TypeFacts DEF AInv, IInv
<1>2. SizesRead /\ SectionsGrow /\ LengthsMeant
  BY DEF ReadEffect, PassOneEffect, AInv
<1>3. SUFFICES ASSUME NEW name \in SectionNames
               PROVE  /\ \A s \in 1 .. Len(sections') :
                           sections'[s].name = name =>
                             Len(sections'[s].data)
                               = Contract!Lengths(source, name)[cursor]
                      /\ (\A s \in 1 .. Len(sections') :
                            sections'[s].name # name) =>
                           Contract!Lengths(source, name)[cursor] = 0
  BY <1>1 DEF LengthsMeant
<1> DEFINE was == Contract!Lengths(source, name)[cursor - 1]
           is  == Contract!Lengths(source, name)[cursor]
<1>4. is = was + (IF Place(cursor) = name THEN Size(cursor) ELSE 0)
  BY <1>1, LengthsStep DEF Place, Size, Start
<1>5. /\ \A s \in 1 .. Len(sections) :
           sections[s].name = name => Len(sections[s].data) = was
      /\ (\A s \in 1 .. Len(sections) : sections[s].name # name) => was = 0
  BY <1>2 DEF LengthsMeant
<1> HIDE DEF was, is
<1>6. ASSUME \A s \in 1 .. Len(sections) : sections[s].name # name
      PROVE  is = 0
  <2>1. Place(cursor) # name
    <3>1. CASE current = None
      BY <1>1, <3>1, CursorMeant, NameAssumption
    <3>2. CASE current # None
      BY <1>1, <1>6, <3>2, CursorMeant DEF Here
    <3> QED
      BY <3>1, <3>2
  <2> QED
    BY <1>4, <1>5, <1>6, <2>1
<1>7. ASSUME NEW s \in 1 .. Len(sections'), sections'[s].name = name
      PROVE  Len(sections'[s].data) = is
  <2>1. CASE s > Len(sections)
    <3>1. Len(sections'[s].data) = 0
      BY <1>2, <2>1 DEF SectionsGrow
    <3>2. \A t \in 1 .. Len(sections) : sections[t].name # name
      <4>1. ASSUME NEW t \in 1 .. Len(sections), sections[t].name = name
            PROVE  FALSE
        <5>1. sections'[t].name = name
          BY <1>2, <4>1 DEF SizesRead
        <5>2. s = t
          BY <1>1, <1>7, <5>1
        <5> QED
          BY <1>1, <2>1, <5>2
      <4> QED
        BY <4>1
    <3> QED
      BY <1>6, <3>1, <3>2
  <2>2. CASE s \in 1 .. Len(sections)
    <3>1. sections[s].name = name
      BY <1>2, <1>7, <2>2 DEF SizesRead
    <3>2. Len(sections[s].data) = was
      BY <1>5, <2>2, <3>1
    <3>3. Len(sections'[s].data)
            = was + (IF s = current
                     THEN Contract!SizeAt(source[cursor], was) ELSE 0)
      BY <1>2, <2>2, <3>2 DEF SizesRead
    <3>4. Place(cursor) = name <=> s = current
      BY <1>1, <2>2, <3>1, CursorMeant
    <3>5. s = current => Size(cursor) = Contract!SizeAt(source[cursor], was)
      <4>1. s = current => current # None
        BY <1>1, <2>2 DEF None
      <4> QED
        BY <1>1, <3>2, <4>1, CursorMeant DEF Here
    <3> QED
      BY <1>4, <3>3, <3>4, <3>5
  <2> QED
    BY <1>1, <2>1, <2>2
<1>8. ASSUME \A s \in 1 .. Len(sections') : sections'[s].name # name
      PROVE  is = 0
  <2>1. \A s \in 1 .. Len(sections) : sections[s].name # name
    BY <1>1, <1>2, <1>8 DEF SizesRead
  <2> QED
    BY <1>6, <2>1
<1> QED
  BY <1>7, <1>8 DEF is

(* Every byte is of the statement whose place it has.                      *)
LEMMA BytesRead ==
  ASSUME AInv, ReadEffect
  PROVE  BytesMeant'
<1>1. /\ cursor \in 1 .. Len(source) /\ cursor' - 1 = cursor
      /\ source' = source
      /\ \A k \in 1 .. cursor : k = cursor \/ k \in 1 .. cursor - 1
      /\ Len(sections) \in Nat
      /\ \A s \in 1 .. Len(sections) :
           s \in 1 .. Len(sections') /\ Len(sections[s].data) \in Nat
      /\ \A s \in 1 .. Len(sections') :
           s > Len(sections) \/ s \in 1 .. Len(sections)
  BY ReadCounters
<1>2. SizesRead /\ SectionsGrow /\ BytesMeant
  BY DEF ReadEffect, PassOneEffect, AInv
<1>3. \A k : Place(k)' = Place(k) /\ Start(k)' = Start(k) /\ Size(k)' = Size(k)
  BY <1>1 DEF Place, Start, Size
<1>4. current # None =>
        /\ current \in 1 .. Len(sections)
        /\ Place(cursor) = sections[current].name
        /\ Start(cursor) = Len(sections[current].data)
        /\ Size(cursor)
             = Contract!SizeAt(source[cursor], Len(sections[current].data))
        /\ Start(cursor) \in Nat /\ Size(cursor) \in Nat
  BY <1>1, <1>2, CursorMeant DEF Here, SizesRead
<1>5. current # None =>
        /\ Len(sections'[current].data) = Start(cursor) + Size(cursor)
        /\ sections'[current].name = Place(cursor)
  BY <1>2, <1>4 DEF SizesRead
<1>6. ASSUME NEW s \in 1 .. Len(sections'),
             NEW i \in 1 .. Len(sections'[s].data)
      PROVE  LET k == sections'[s].data[i].by
             IN  sections'[s].name = Place(k) /\ i \in Bytes(Start(k), Size(k))
  <2>1. s \in 1 .. Len(sections)
    <3>1. s > Len(sections) => Len(sections'[s].data) = 0
      BY <1>2 DEF SectionsGrow
    <3> QED
      BY <1>1, <3>1
  <2>2. sections'[s].name = sections[s].name
    BY <1>2, <2>1 DEF SizesRead
  <2>3. CASE i \in 1 .. Len(sections[s].data)
    <3>1. sections'[s].data[i] = sections[s].data[i]
      BY <1>2, <2>1, <2>3 DEF SectionsGrow
    <3> QED
      BY <1>2, <2>1, <2>2, <2>3, <3>1 DEF BytesMeant
  <2>4. CASE i \notin 1 .. Len(sections[s].data)
    <3>1. Len(sections[s].data) \in Nat /\ i > Len(sections[s].data)
      BY <1>1, <2>1, <2>4
    <3>2. sections'[s].data[i].by = cursor
      BY <1>2, <2>1, <3>1 DEF SectionsGrow
    <3>3. s = current
      <4>1. s # current =>
              Len(sections'[s].data) = Len(sections[s].data) + 0
        BY <1>2, <2>1 DEF SizesRead
      <4> QED
        BY <3>1, <4>1
    <3>4. current # None
      BY <2>1, <3>3 DEF None
    <3>5. i \in Bytes(Start(cursor), Size(cursor))
      <4>1. i \in 1 .. Start(cursor) + Size(cursor)
        BY <1>5, <3>3, <3>4
      <4>2. i > Start(cursor)
        BY <1>4, <3>1, <3>3, <3>4
      <4> QED
        BY <1>4, <3>4, <4>1, <4>2 DEF Bytes
    <3> QED
      BY <1>5, <3>2, <3>3, <3>4, <3>5
  <2> QED
    BY <2>3, <2>4
<1>7. ASSUME NEW k \in 1 .. cursor, Place(k) # "nowhere"
      PROVE  /\ Start(k) \in Nat /\ Size(k) \in Nat
             /\ \A i \in Bytes(Start(k), Size(k)) :
                  \E s \in 1 .. Len(sections') : Holds(s, i, k)'
  <2>1. CASE k \in 1 .. cursor - 1
    <3>1. /\ Start(k) \in Nat /\ Size(k) \in Nat
          /\ \A i \in Bytes(Start(k), Size(k)) :
               \E s \in 1 .. Len(sections) : Holds(s, i, k)
      BY <1>2, <1>7, <2>1 DEF BytesMeant
    <3>2. ASSUME NEW i \in Bytes(Start(k), Size(k))
          PROVE  \E s \in 1 .. Len(sections') : Holds(s, i, k)'
      <4>1. PICK s \in 1 .. Len(sections) : Holds(s, i, k)
        BY <3>1
      <4>2. /\ sections[s].name = Place(k)
            /\ i \in 1 .. Len(sections[s].data)
            /\ sections[s].data[i].by = k
        BY <4>1 DEF Holds
      <4>3. /\ sections'[s].name = sections[s].name
            /\ sections'[s].data[i] = sections[s].data[i]
            /\ Len(sections[s].data) <= Len(sections'[s].data)
            /\ s \in 1 .. Len(sections')
            /\ sections'[s].data \in Seq(Byte)
        <5>1. sections'[s] \in Section
          BY <1>1, <1>2 DEF SectionsGrow
        <5> QED
          BY <1>1, <1>2, <4>2, <5>1, SectionFacts DEF SizesRead, SectionsGrow
      <4>4. i \in 1 .. Len(sections'[s].data)
        BY <1>1, <4>2, <4>3
      <4> QED
        BY <1>3, <4>2, <4>3, <4>4 DEF Holds
    <3> QED
      BY <3>1, <3>2
  <2>2. CASE k = cursor
    <3>1. current # None
      BY <1>1, <1>7, <2>2, CursorMeant
    <3>2. ASSUME NEW s, s = current, NEW i \in Bytes(Start(k), Size(k))
          PROVE  Holds(s, i, k)'
      <4>1. i \in 1 .. Start(k) + Size(k) /\ i > Start(k)
        BY <1>4, <2>2, <3>1 DEF Bytes
      <4>2. i \in 1 .. Len(sections'[current].data)
        BY <1>5, <2>2, <3>1, <4>1
      <4>3. i > Len(sections[current].data)
        BY <1>4, <2>2, <3>1, <4>1
      <4>4. sections'[current].data[i].by = k
        BY <1>2, <1>4, <2>2, <3>1, <4>2, <4>3 DEF SectionsGrow
      <4> QED
        BY <1>3, <1>5, <2>2, <3>1, <3>2, <4>2, <4>4 DEF Holds
    <3>3. current \in 1 .. Len(sections')
      BY <1>1, <1>4, <3>1
    <3>4. \A i \in Bytes(Start(k), Size(k)) :
            \E s \in 1 .. Len(sections') : Holds(s, i, k)'
      BY <3>2, <3>3
    <3>5. Start(k) \in Nat /\ Size(k) \in Nat
      BY <1>4, <2>2, <3>1
    <3> QED
      BY <3>4, <3>5
  <2> QED
    BY <1>1, <2>1, <2>2
<1> QED
  BY <1>1, <1>3, <1>6, <1>7 DEF BytesMeant

(* The statement read is well formed so far.                               *)
LEMMA StatementsRead ==
  ASSUME AInv, ReadEffect
  PROVE  StatementsMeant' /\ EncodedMeant'
<1>1. /\ cursor \in 1 .. Len(source) /\ cursor' - 1 = cursor
      /\ source' = source /\ next' = 1
      /\ \A k \in 1 .. cursor : k = cursor \/ k \in 1 .. cursor - 1
      /\ Len(pending) \in Nat
  BY ReadCounters
<1>2. SizesRead /\ SlotsRead /\ StatementsMeant /\ SlotsIntact
  BY DEF ReadEffect, AInv, IInv
<1>3. \A k : Place(k)' = Place(k) /\ Start(k)' = Start(k)
  BY <1>1 DEF Place, Start
<1>4. /\ source[cursor].op # "unsupported"
      /\ source[cursor].op \in NeedsSection => Place(cursor) # "nowhere"
  BY <1>1, <1>2, CursorMeant DEF SizesRead
<1>5. /\ pending \in Seq(Pending) /\ DOMAIN pending = 1 .. Len(pending)
      /\ DOMAIN sections = 1 .. Len(sections)
  BY TypeFacts DEF AInv, IInv, TypeOK
<1>6. /\ Len(pending') \in Nat
      /\ \A n \in 1 .. Len(pending) :
           n \in 1 .. Len(pending') /\ pending'[n] = pending[n]
      /\ \A n \in 1 .. Len(pending') :
           \/ n \in 1 .. Len(pending)
           \/ /\ source[cursor].op = "instruction"
              /\ pending'[n].section = current
              /\ pending'[n].offset = Len(Here.data)
              /\ pending'[n].line = cursor
      /\ source[cursor].op = "instruction" =>
           \E n \in 1 .. Len(pending') : pending'[n].line = cursor
  <2>1. CASE source[cursor].op = "instruction"
    <3> DEFINE p == [section |-> current, offset  |-> Len(Here.data),
                     line    |-> cursor]
    <3>1. pending' = Append(pending, p)
      BY <1>2, <2>1 DEF SlotsRead
    <3>2. p.section = current /\ p.offset = Len(Here.data) /\ p.line = cursor
      OBVIOUS
    <3> HIDE DEF p
    <3>3. /\ Len(pending') = Len(pending) + 1
          /\ pending'[Len(pending) + 1] = p
          /\ \A n \in 1 .. Len(pending) : pending'[n] = pending[n]
      <4>1. pending \in Seq(Pending \cup {p}) /\ p \in Pending \cup {p}
        BY <1>5
      <4> QED
        BY <3>1, <4>1, AppendProperties
    <3> QED
      BY <1>1, <2>1, <3>2, <3>3
  <2>2. CASE source[cursor].op # "instruction"
    BY <1>1, <1>2, <2>2 DEF SlotsRead
  <2> QED
    BY <2>1, <2>2
<1>7. ASSUME NEW n \in 1 .. Len(pending')
      PROVE  /\ sections'[pending'[n].section].name = Place(pending'[n].line)
             /\ pending'[n].offset = Start(pending'[n].line)
  <2>1. CASE n \in 1 .. Len(pending)
    <3>1. pending'[n] = pending[n] /\ pending[n].section \in 1 .. Len(sections)
      BY <1>2, <1>5, <1>6, <2>1 DEF SlotsIntact
    <3>2. /\ sections[pending[n].section].name = Place(pending[n].line)
          /\ pending[n].offset = Start(pending[n].line)
      BY <1>2, <2>1 DEF StatementsMeant
    <3> QED
      BY <1>2, <3>1, <3>2 DEF SizesRead
  <2>2. CASE n \notin 1 .. Len(pending)
    <3>1. /\ source[cursor].op = "instruction"
          /\ pending'[n].section = current
          /\ pending'[n].offset = Len(Here.data)
          /\ pending'[n].line = cursor
      BY <1>6, <2>2
    <3>2. current # None
      BY <1>2, <3>1 DEF SizesRead, NeedsSection
    <3>3. /\ current \in 1 .. Len(sections)
          /\ Place(cursor) = sections[current].name
          /\ Start(cursor) = Len(Here.data)
      BY <1>1, <3>2, CursorMeant DEF Here
    <3> QED
      BY <1>2, <3>1, <3>3 DEF SizesRead
  <2> QED
    BY <2>1, <2>2
<1>8. ASSUME NEW k \in 1 .. cursor
      PROVE  /\ source[k].op # "unsupported"
             /\ source[k].op \in NeedsSection => Place(k) # "nowhere"
             /\ source[k].op = "instruction" =>
                  \E n \in 1 .. Len(pending') : pending'[n].line = k
  <2>1. CASE k = cursor
    BY <1>4, <1>6, <2>1
  <2>2. CASE k \in 1 .. cursor - 1
    <3>1. /\ source[k].op # "unsupported"
          /\ source[k].op \in NeedsSection => Place(k) # "nowhere"
          /\ source[k].op = "instruction" =>
               \E n \in 1 .. Len(pending) : pending[n].line = k
      BY <1>2, <2>2 DEF StatementsMeant
    <3> QED
      BY <1>6, <3>1
  <2> QED
    BY <1>1, <2>1, <2>2
<1>9. EncodedMeant'
  BY <1>1 DEF EncodedMeant
<1> QED
  BY <1>1, <1>3, <1>7, <1>8, <1>9 DEF StatementsMeant

(* The lines settled after a step of pass one.                             *)
LEMMA SettledRead ==
  ASSUME AInv, ReadEffect
  PROVE  /\ \A k \in Settled : k \in 1 .. cursor - 1 /\ source[k].op = "quad"
         /\ Settled' = Settled \cup (IF source[cursor].op = "quad"
                                     THEN {cursor} ELSE {})
<1>1. /\ cursor \in 1 .. Len(source) /\ cursor' - 1 = cursor
      /\ source' = source /\ next = 1 /\ next' = 1
      /\ \A k \in 1 .. cursor : k = cursor \/ k \in 1 .. cursor - 1
      /\ \A k \in 1 .. cursor - 1 : k \in 1 .. cursor /\ k # cursor
      /\ cursor \in 1 .. cursor
  BY ReadCounters
<1>2. Settled = {k \in 1 .. cursor - 1 : source[k].op = "quad"}
  BY <1>1 DEF Settled
<1>3. Settled' = {k \in 1 .. cursor : source[k].op = "quad"}
  BY <1>1 DEF Settled
<1> QED
  BY <1>1, <1>2, <1>3

(* The entry a symbol had before the step means what it should.            *)
LEMMA BeforeMeant ==
  ASSUME AInv, ReadEffect, NEW i \in 1 .. Len(symbols')
  PROVE  SymbolMeant(Before(i)) /\ Before(i).name = symbols'[i].name
<1>1. SymbolsRead /\ SymbolsGrow /\ NamesMeant
  BY DEF ReadEffect, PassOneEffect, AInv
<1>2. /\ Len(symbols) \in Nat
      /\ \A j \in 1 .. Len(symbols) : j \in 1 .. Len(symbols')
      /\ \A j, k \in 1 .. Len(symbols') :
           symbols'[j].name = symbols'[k].name => j = k
  BY ReadCounters
<1>3. CASE i <= Len(symbols)
  <2>1. i \in 1 .. Len(symbols) /\ Before(i) = symbols[i]
    BY <1>2, <1>3 DEF Before
  <2> QED
    BY <1>1, <2>1 DEF NamesMeant, SymbolsGrow
<1>4. CASE ~(i <= Len(symbols))
  <2> DEFINE name == symbols'[i].name
  <2>1. Before(i) = NewSymbol(name)
    BY <1>4 DEF Before
  <2>2. /\ Before(i).name = name
        /\ Before(i).global = FALSE /\ Before(i).defined = FALSE
    BY <2>1 DEF NewSymbol
  <2>3. ASSUME NEW k \in 1 .. cursor - 1, Mentioned(k, name)
        PROVE  FALSE
    <3>1. PICK j \in 1 .. Len(symbols) : symbols[j].name = name
      BY <1>1, <2>3 DEF NamesMeant, Mentioned
    <3>2. j \in 1 .. Len(symbols') /\ symbols'[j].name = name
      BY <1>1, <1>2, <3>1 DEF SymbolsGrow
    <3> QED
      BY <1>2, <1>4, <3>1, <3>2
  <2>4. \A k \in 1 .. cursor - 1 : ~Exports(k, name) /\ ~Marks(k, name)
    BY <2>3 DEF Exports, Marks, Mentioned, Naming
  <2> HIDE DEF name
  <2> QED
    BY <2>2, <2>4 DEF SymbolMeant, name
<1> QED
  BY <1>3, <1>4

(* The symbol table follows the statements.                                *)
LEMMA NamesRead ==
  ASSUME AInv, ReadEffect
  PROVE  NamesMeant'
<1>1. /\ cursor \in 1 .. Len(source) /\ cursor' - 1 = cursor
      /\ source' = source /\ cursor \in Nat
      /\ \A k \in 1 .. cursor : k = cursor \/ k \in 1 .. cursor - 1
      /\ \A k \in 1 .. cursor - 1 : k \in 1 .. cursor /\ k # cursor
      /\ cursor \in 1 .. cursor
      /\ Len(symbols) \in Nat
      /\ \A i \in 1 .. Len(symbols) : i \in 1 .. Len(symbols')
      /\ \A i \in 1 .. Len(symbols') :
           i > Len(symbols) \/ i \in 1 .. Len(symbols)
      /\ \A s \in 1 .. Len(sections) : s \in 1 .. Len(sections')
  BY ReadCounters DEF AInv, IInv, TypeOK
<1>2. SizesRead /\ SymbolsRead /\ SymbolsGrow /\ NamesMeant
  BY DEF ReadEffect, PassOneEffect, AInv
<1>3. \A k : /\ Place(k)' = Place(k) /\ Start(k)' = Start(k)
             /\ Linked(k)' = Linked(k)
  BY <1>1 DEF Place, Start, Linked
<1>4. \A k, name : /\ Mentioned(k, name)' = Mentioned(k, name)
                   /\ Marks(k, name)' = Marks(k, name)
                   /\ Exports(k, name)' = Exports(k, name)
  BY <1>1 DEF Mentioned, Marks, Exports
<1>5. ASSUME NEW i \in 1 .. Len(symbols')
      PROVE  \/ \E k \in 1 .. cursor : Mentioned(k, symbols'[i].name)
             \/ \E k \in Settled' :
                  Linked(k) /\ Contract!LinkedName(source[k]) = symbols'[i].name
  <2>1. CASE i > Len(symbols)
    BY <1>1, <1>2, <2>1 DEF SymbolsRead
  <2>2. CASE i \in 1 .. Len(symbols)
    <3>1. symbols'[i].name = symbols[i].name
      BY <1>2, <2>2 DEF SymbolsGrow
    <3>2. \A k \in Settled : k \in Settled'
      BY SettledRead
    <3> QED
      BY <1>1, <1>2, <2>2, <3>1, <3>2 DEF NamesMeant
  <2> QED
    BY <1>1, <2>1, <2>2
<1>6. ASSUME NEW k \in 1 .. cursor, source[k].op \in Naming
      PROVE  \E i \in 1 .. Len(symbols') : symbols'[i].name = source[k].name
  <2>1. CASE k = cursor
    BY <1>2, <1>6, <2>1 DEF SymbolsRead
  <2>2. CASE k \in 1 .. cursor - 1
    <3>1. PICK i \in 1 .. Len(symbols) : symbols[i].name = source[k].name
      BY <1>2, <1>6, <2>2 DEF NamesMeant
    <3> QED
      BY <1>1, <1>2, <3>1 DEF SymbolsGrow
  <2> QED
    BY <1>1, <2>1, <2>2
<1>7. ASSUME NEW i \in 1 .. Len(symbols')
      PROVE  SymbolMeant(symbols[i])'
  <2> DEFINE name == symbols'[i].name
  <2>1. /\ SymbolMeant(Before(i)) /\ Before(i).name = name
    BY BeforeMeant
  <2>2. /\ symbols'[i].global <=> (Before(i).global \/ Exports(cursor, name))
        /\ Marks(cursor, name) =>
             /\ symbols'[i].defined
             /\ symbols'[i].section = current
             /\ symbols'[i].value = Len(Here.data)
        /\ ~Marks(cursor, name) =>
             /\ symbols'[i].defined <=> Before(i).defined
             /\ symbols'[i].section = Before(i).section
             /\ symbols'[i].value = Before(i).value
    BY <1>2 DEF SymbolsRead
  <2> HIDE DEF name
  <2>3. symbols'[i].global <=> \E k \in 1 .. cursor : Exports(k, name)
    BY <1>1, <2>1, <2>2 DEF SymbolMeant
  <2>4. CASE Marks(cursor, name)
    <3>1. current # None
      BY <1>2, <2>4 DEF SizesRead, Marks, NeedsSection
    <3>2. /\ current \in 1 .. Len(sections) /\ current \in 1 .. Len(sections')
          /\ sections'[current].name = Place(cursor)
          /\ Start(cursor) = Len(Here.data)
      BY <1>1, <1>2, <3>1, CursorMeant DEF Here, SizesRead
    <3>3. \A j \in cursor + 1 .. cursor : ~Marks(j, name)
      BY <1>1
    <3>4. \E k \in 1 .. cursor :
            /\ Marks(k, name)
            /\ \A j \in k + 1 .. cursor : ~Marks(j, name)
            /\ symbols'[i].section \in 1 .. Len(sections')
            /\ sections'[symbols'[i].section].name = Place(k)
            /\ symbols'[i].value = Start(k)
      BY <1>1, <2>2, <2>4, <3>2, <3>3
    <3> QED
      BY <1>1, <1>3, <1>4, <2>2, <2>3, <2>4, <3>4 DEF SymbolMeant, name
  <2>5. CASE ~Marks(cursor, name)
    <3>1. CASE Before(i).defined
      <4>1. PICK k \in 1 .. cursor - 1 :
              /\ Marks(k, name)
              /\ \A j \in k + 1 .. cursor - 1 : ~Marks(j, name)
              /\ Before(i).section \in 1 .. Len(sections)
              /\ sections[Before(i).section].name = Place(k)
              /\ Before(i).value = Start(k)
        BY <2>1, <3>1 DEF SymbolMeant
      <4>2. \A j \in k + 1 .. cursor : ~Marks(j, name)
        <5>1. \A j \in k + 1 .. cursor : j = cursor \/ j \in k + 1 .. cursor - 1
          BY <1>1
        <5> QED
          BY <2>5, <4>1, <5>1
      <4>3. /\ symbols'[i].section \in 1 .. Len(sections')
            /\ sections'[symbols'[i].section].name = Place(k)
            /\ symbols'[i].value = Start(k)
        BY <1>1, <1>2, <2>2, <2>5, <4>1 DEF SizesRead
      <4>4. \E h \in 1 .. cursor :
              /\ Marks(h, name)
              /\ \A j \in h + 1 .. cursor : ~Marks(j, name)
              /\ symbols'[i].section \in 1 .. Len(sections')
              /\ sections'[symbols'[i].section].name = Place(h)
              /\ symbols'[i].value = Start(h)
        BY <1>1, <4>1, <4>2, <4>3
      <4> QED
        BY <1>1, <1>3, <1>4, <2>2, <2>3, <2>5, <3>1, <4>4
           DEF SymbolMeant, name
    <3>2. CASE ~Before(i).defined
      <4>1. \A k \in 1 .. cursor : ~Marks(k, name)
        BY <1>1, <2>1, <2>5, <3>2 DEF SymbolMeant
      <4> QED
        BY <1>1, <1>4, <2>2, <2>3, <2>5, <3>2, <4>1 DEF SymbolMeant, name
    <3> QED
      BY <3>1, <3>2
  <2> QED
    BY <2>4, <2>5
<1> QED
  BY <1>1, <1>3, <1>4, <1>5, <1>6, <1>7 DEF NamesMeant

(* A relocation keeps the link it stands for while the names stay.         *)
LEMMA LinkStays ==
  ASSUME IInv,
         Len(symbols) \in Nat, Len(symbols) <= Len(symbols'),
         \A i \in 1 .. Len(symbols) : symbols'[i].name = symbols[i].name,
         NEW s \in 1 .. Len(sections), sections'[s].name = sections[s].name,
         NEW r \in 1 .. Len(sections[s].relocations),
         sections'[s].relocations[r] = sections[s].relocations[r],
         source' = source
  PROVE  \A k : Links(s, r, k)' <=> Links(s, r, k)
<1>1. sections[s].relocations[r].symbol \in 1 .. Len(symbols)
  <2>1. s \in DOMAIN sections /\ r \in DOMAIN sections[s].relocations
    BY TypeFacts, DataFacts DEF IInv
  <2> QED
    BY <2>1, TypeFacts DEF IInv, RelocationsNameTheirTarget
<1>2. symbols'[sections[s].relocations[r].symbol].name
        = symbols[sections[s].relocations[r].symbol].name
  BY <1>1
<1> QED
  BY <1>2 DEF Links, AbstractLink, SectionName

(* The relocations are the links of the .quads read.                       *)
LEMMA LinksRead ==
  ASSUME AInv, ReadEffect
  PROVE  LinksMeant'
<1>1. /\ cursor \in 1 .. Len(source) /\ source' = source
      /\ Len(symbols) \in Nat /\ Len(symbols) <= Len(symbols')
      /\ Len(sections) \in Nat
      /\ \A s \in 1 .. Len(sections) :
           s \in 1 .. Len(sections') /\ Len(sections[s].relocations) \in Nat
      /\ \A s \in 1 .. Len(sections') :
           s > Len(sections) \/ s \in 1 .. Len(sections)
  BY ReadCounters DEF ReadEffect, PassOneEffect, SymbolsGrow
<1>2. SizesRead /\ RelocationsRead /\ SymbolsGrow /\ LinksMeant /\ IInv
      /\ SectionsGrow
  BY DEF ReadEffect, PassOneEffect, AInv
<1>3. \A k : Linked(k)' = Linked(k)
  BY <1>1 DEF Linked
<1>4. ASSUME NEW s \in 1 .. Len(sections),
             NEW r \in 1 .. Len(sections[s].relocations)
      PROVE  \A k : Links(s, r, k)' <=> Links(s, r, k)
  BY <1>1, <1>2, LinkStays DEF SizesRead, RelocationsRead, SymbolsGrow
<1>5. ASSUME NEW s, s = current, NEW k, k = cursor,
             NEW r \in 1 .. Len(sections'[s].relocations),
             source[cursor].op = "quad",
             IsQuadLink(sections'[s].relocations[r])
      PROVE  /\ k \in Settled' /\ Linked(k)
             /\ s \in 1 .. Len(sections')
             /\ Links(s, r, k)'
  <2> DEFINE rel == sections'[s].relocations[r]
  <2>1. /\ rel.offset = Len(Here.data) /\ rel.kind = "ABS64"
        /\ symbols'[rel.symbol].name = source[cursor].name
    BY <1>5 DEF IsQuadLink
  <2>2. current # None
    BY <1>2, <1>5 DEF SizesRead, NeedsSection
  <2>3. /\ s \in 1 .. Len(sections)
        /\ sections'[s].name = Place(k)
        /\ Start(k) = Len(Here.data) /\ Start(k) \in Nat
    BY <1>1, <1>2, <1>5, <2>2, CursorMeant DEF Here, SizesRead
  <2>4. Contract!LinkOf(source, k)
          = [section |-> Place(k), offset |-> Start(k) + 0,
             kind |-> "ABS64", name |-> source[cursor].name]
    BY <1>5 DEF Contract!LinkOf, Contract!LinkedName, Place, Start
  <2>5. Start(k) + 0 = rel.offset
    BY <2>1, <2>3
  <2>6. Links(s, r, k)'
          <=> [section |-> sections'[s].name, offset |-> rel.offset,
               kind |-> rel.kind, name |-> symbols'[rel.symbol].name]
                = Contract!LinkOf(source, k)
    BY <1>1 DEF Links, AbstractLink, SectionName
  <2> HIDE DEF rel
  <2>7. Links(s, r, k)'
    BY <2>1, <2>3, <2>4, <2>5, <2>6
  <2>8. Linked(k) /\ k \in Settled'
    BY <1>5, SettledRead DEF Linked, Contract!IsLinked
  <2> QED
    BY <1>1, <2>3, <2>7, <2>8
<1>6. ASSUME NEW s \in 1 .. Len(sections'),
             NEW r \in 1 .. Len(sections'[s].relocations)
      PROVE  \E k \in Settled' : Linked(k) /\ Links(s, r, k)'
  <2>1. CASE s <= Len(sections) /\ r <= Len(sections[s].relocations)
    <3>1. s \in 1 .. Len(sections)
      BY <1>1, <2>1
    <3>2. r \in 1 .. Len(sections[s].relocations)
      BY <1>1, <2>1, <3>1
    <3>3. PICK k \in Settled : Linked(k) /\ Links(s, r, k)
      BY <1>2, <3>1, <3>2 DEF LinksMeant
    <3>4. k \in Settled' /\ Links(s, r, k)'
      BY <1>4, <3>1, <3>2, <3>3, SettledRead
    <3> QED
      BY <3>3, <3>4
  <2>2. CASE /\ source[cursor].op = "quad" /\ s = current
             /\ IsQuadLink(sections'[s].relocations[r])
    BY <1>5, <2>2
  <2> QED
    BY <1>2, <2>1, <2>2 DEF RelocationsRead
<1>7. ASSUME NEW k \in Settled', Linked(k)
      PROVE  \E s \in 1 .. Len(sections') :
               \E r \in 1 .. Len(sections'[s].relocations) : Links(s, r, k)'
  <2>1. CASE k \in Settled
    <3>1. PICK s \in 1 .. Len(sections) :
            \E r \in 1 .. Len(sections[s].relocations) : Links(s, r, k)
      BY <1>2, <1>7, <2>1 DEF LinksMeant
    <3>a. PICK r \in 1 .. Len(sections[s].relocations) : Links(s, r, k)
      BY <3>1
    <3>2. Links(s, r, k)'
      BY <1>4, <3>a
    <3>3. s \in 1 .. Len(sections') /\ r \in 1 .. Len(sections'[s].relocations)
      <4>1. sections'[s] \in Section
        BY <1>1, <1>2, <3>1 DEF SectionsGrow
      <4>2. Len(sections'[s].relocations) \in Nat
        BY <4>1, SectionFacts
      <4>3. Len(sections[s].relocations) <= Len(sections'[s].relocations)
        BY <1>2, <3>1 DEF RelocationsRead
      <4> QED
        BY <1>1, <3>a, <4>2, <4>3
    <3> QED
      BY <3>2, <3>3
  <2>2. CASE k \notin Settled
    <3>1. source[cursor].op = "quad" /\ k = cursor
      BY <1>7, <2>2, SettledRead
    <3>2. PICK r \in 1 .. Len(sections'[current].relocations) :
            IsQuadLink(sections'[current].relocations[r])
      BY <1>2, <3>1 DEF RelocationsRead
    <3> QED
      BY <1>5, <3>1, <3>2
  <2> QED
    BY <2>1, <2>2
<1> QED
  BY <1>3, <1>6, <1>7 DEF LinksMeant

(* A step of pass one preserves the abstraction invariant.                 *)
LEMMA ReadPreserves ==
  ASSUME AInv, ReadEffect
  PROVE  AInv'
<1>1. IInv'
  BY PassOnePreserves DEF AInv, ReadEffect
<1> QED
  BY <1>1, CurrentRead, LengthsRead, BytesRead, StatementsRead, NamesRead,
     LinksRead DEF AInv

-----------------------------------------------------------------------------
(* A step of pass two keeps what the object stands for.                    *)

(* The layout means what it did while names, lengths and owners stay.      *)
LEMMA LayoutStays ==
  ASSUME AInv,
         source' = source, cursor' = cursor, current' = current,
         pending' = pending, Len(sections') = Len(sections),
         \A s \in 1 .. Len(sections) :
           /\ sections'[s].name = sections[s].name
           /\ Len(sections'[s].data) = Len(sections[s].data)
           /\ \A i \in 1 .. Len(sections[s].data) :
                sections'[s].data[i].by = sections[s].data[i].by
  PROVE  CurrentMeant' /\ LengthsMeant' /\ BytesMeant' /\ StatementsMeant'
<1>1. /\ CurrentMeant /\ LengthsMeant /\ BytesMeant /\ StatementsMeant
      /\ SlotsIntact
      /\ current \in 0 .. Len(sections) /\ Len(sections) \in Nat
      /\ DOMAIN sections = 1 .. Len(sections)
      /\ DOMAIN pending = 1 .. Len(pending)
  BY TypeFacts DEF AInv, IInv, TypeOK
<1>2. \A k : Place(k)' = Place(k) /\ Start(k)' = Start(k) /\ Size(k)' = Size(k)
  BY DEF Place, Start, Size
<1>3. CurrentMeant'
  <2>1. current # None => current \in 1 .. Len(sections)
    BY <1>1 DEF None
  <2>2. Place(cursor)' = Place(cursor)
    BY DEF Place
  <2> QED
    BY <1>1, <2>1, <2>2 DEF CurrentMeant
<1>4. LengthsMeant'
  BY SMTT(30), <1>1 DEF LengthsMeant
<1>5. BytesMeant'
  <2>1. \A s \in 1 .. Len(sections) :
          \A i, k : Holds(s, i, k) => Holds(s, i, k)'
    BY <1>2 DEF Holds
  <2>2. ASSUME NEW s \in 1 .. Len(sections'),
               NEW i \in 1 .. Len(sections'[s].data)
        PROVE  LET k == sections'[s].data[i].by
               IN  /\ sections'[s].name = Place(k)
                   /\ i \in Bytes(Start(k), Size(k))
    BY <1>1 DEF BytesMeant
  <2>3. ASSUME NEW k \in 1 .. cursor - 1, Place(k) # "nowhere"
        PROVE  /\ Start(k) \in Nat /\ Size(k) \in Nat
               /\ \A i \in Bytes(Start(k), Size(k)) :
                    \E s \in 1 .. Len(sections') : Holds(s, i, k)'
    <3>1. /\ Start(k) \in Nat /\ Size(k) \in Nat
          /\ \A i \in Bytes(Start(k), Size(k)) :
               \E s \in 1 .. Len(sections) : Holds(s, i, k)
      BY <1>1, <2>3 DEF BytesMeant
    <3> QED
      BY <2>1, <3>1
  <2> QED
    BY <1>2, <2>2, <2>3 DEF BytesMeant
<1>6. StatementsMeant'
  <2>1. \A n \in 1 .. Len(pending) : pending[n].section \in 1 .. Len(sections)
    BY <1>1 DEF SlotsIntact
  <2> QED
    BY <1>1, <1>2, <2>1 DEF StatementsMeant
<1> QED
  BY <1>3, <1>4, <1>5, <1>6

(* When the source is read, a symbol is defined by the last label of its   *)
(* name, and is not when there is none.                                    *)
LEMMA PlaceMeant ==
  ASSUME AInv, cursor = Len(source) + 1, NEW i \in 1 .. Len(symbols)
  PROVE  LET name == symbols[i].name
         IN  /\ symbols[i].defined <=> Contract!LabelsOf(source, name) # {}
             /\ symbols[i].defined =>
                  /\ symbols[i].section \in 1 .. Len(sections)
                  /\ Contract!PlaceOf(source, name)
                       = [section |-> sections[symbols[i].section].name,
                          value |-> symbols[i].value]
<1> DEFINE name == symbols[i].name
<1>1. SymbolMeant(symbols[i])
  BY DEF AInv, NamesMeant
<1>2. /\ cursor - 1 = Len(source) /\ Len(source) \in Nat
      /\ DOMAIN source = 1 .. Len(source)
  BY TypeFacts DEF AInv, IInv
<1>3. Contract!LabelsOf(source, name)
        = {k \in 1 .. Len(source) : Marks(k, name)}
  BY <1>2 DEF Contract!LabelsOf, Marks
<1>4. CASE symbols[i].defined
  <2>1. PICK k \in 1 .. cursor - 1 :
          /\ Marks(k, name)
          /\ \A j \in k + 1 .. cursor - 1 : ~Marks(j, name)
          /\ symbols[i].section \in 1 .. Len(sections)
          /\ sections[symbols[i].section].name = Place(k)
          /\ symbols[i].value = Start(k)
    BY <1>1, <1>4 DEF SymbolMeant
  <2> DEFINE lines == {j \in 1 .. Len(source) : Marks(j, name)}
  <2>2. /\ lines \in SUBSET Int /\ k \in lines
        /\ \A j \in lines : j <= k
    <3>1. ASSUME NEW j \in 1 .. Len(source), j > k
          PROVE  j \in k + 1 .. Len(source)
      BY <1>2, <2>1, <3>1
    <3>2. \A j \in lines : ~(j > k)
      BY <1>2, <2>1, <3>1
    <3> QED
      BY <1>2, <2>1, <3>2
  <2> HIDE DEF lines
  <2>3. Contract!Latest(lines) = k
    BY <2>2, LatestIs
  <2>4. Contract!PlaceOf(source, name)
          = [section |-> Place(k), value |-> Start(k)]
    BY <1>3, <2>3 DEF Contract!PlaceOf, Place, Start, lines
  <2> QED
    BY <1>3, <1>4, <2>1, <2>2, <2>4 DEF lines
<1>5. CASE ~symbols[i].defined
  BY <1>1, <1>2, <1>3, <1>5 DEF SymbolMeant
<1> QED
  BY <1>4, <1>5

(* The lookup of pass two asks what the contract asks.                     *)
LEMMA InSectionMeans ==
  ASSUME AInv, cursor = Len(source) + 1, NEW name,
         NEW n \in 1 .. Len(pending)
  PROVE  LET p == pending[n]
         IN  /\ InSection(name, p.section)
                  <=> Contract!DefinedIn(source, name, Place(p.line))
             /\ InSection(name, p.section) =>
                  symbols[Find(symbols, name)].value
                    = Contract!PlaceOf(source, name).value
<1> DEFINE p == pending[n]
           i == Find(symbols, name)
<1>1. /\ cursor - 1 = Len(source) /\ Len(source) \in Nat
      /\ DOMAIN source = 1 .. Len(source)
      /\ symbols \in Seq(Symbol) /\ UniqueNames(symbols)
      /\ DOMAIN symbols = 1 .. Len(symbols)
      /\ DOMAIN sections = 1 .. Len(sections) /\ UniqueNames(sections)
      /\ DOMAIN pending = 1 .. Len(pending)
  BY TypeFacts DEF AInv, IInv, NamesUnique, TypeOK
<1>2. /\ p.section \in 1 .. Len(sections)
      /\ sections[p.section].name = Place(p.line)
  BY <1>1 DEF AInv, IInv, SlotsIntact, StatementsMeant
<1>3. CASE \E j \in 1 .. Len(symbols) : symbols[j].name = name
  <2>1. i \in 1 .. Len(symbols) /\ symbols[i].name = name
    BY <1>1, <1>3, FindFacts
  <2>2. i # None
    BY <1>1, <2>1 DEF None
  <2>3. /\ symbols[i].defined <=> Contract!LabelsOf(source, name) # {}
        /\ symbols[i].defined =>
             /\ symbols[i].section \in 1 .. Len(sections)
             /\ Contract!PlaceOf(source, name)
                  = [section |-> sections[symbols[i].section].name,
                     value |-> symbols[i].value]
    BY <2>1, PlaceMeant
  <2>4. InSection(name, p.section)
          <=> symbols[i].defined /\ symbols[i].section = p.section
    BY <2>2 DEF InSection
  <2> HIDE DEF i, p
  <2>5. symbols[i].defined =>
          (symbols[i].section = p.section
             <=> sections[symbols[i].section].name = Place(p.line))
    BY <1>1, <1>2, <2>3 DEF UniqueNames
  <2> QED
    BY <2>3, <2>4, <2>5 DEF Contract!DefinedIn, i, p
<1>4. CASE \A j \in 1 .. Len(symbols) : symbols[j].name # name
  <2>1. i = None
    BY <1>1, <1>4, FindFacts
  <2>2. \A k \in 1 .. Len(source) :
          ~(source[k].op = "label" /\ source[k].name = name)
    BY <1>1, <1>4 DEF AInv, NamesMeant, Naming
  <2>3. Contract!LabelsOf(source, name) = {}
    BY <1>1, <2>2 DEF Contract!LabelsOf
  <2> QED
    BY <2>1, <2>3 DEF InSection, Contract!DefinedIn
<1> QED
  BY <1>3, <1>4

(* A pending instruction is a local branch, and linked, when pass two      *)
(* takes it for one.                                                       *)
LEMMA LinkedMeans ==
  ASSUME AInv, cursor = Len(source) + 1, NEW n \in 1 .. Len(pending)
  PROVE  LET p  == pending[n]
             st == source[p.line]
         IN  /\ p.line \in 1 .. Len(source) /\ st.op = "instruction"
             /\ st.form \in Arm64Forms \cup X86Forms
             /\ Contract!IsLocalBranch(source, p.line)
                  <=> /\ st.form \in {"b", "b.cond"}
                      /\ InSection(st.target, p.section)
             /\ /\ st.form # "invalid"
                /\ st.form = "b.cond" => InSection(st.target, p.section)
                => (UsesSymbol(st, p.section) <=> Linked(p.line))
<1> DEFINE p  == pending[n]
           st == source[p.line]
<1>1. /\ p.line \in 1 .. Len(source) /\ st.op = "instruction"
      /\ st \in Statement
  <2>1. DOMAIN pending = 1 .. Len(pending) /\ cursor - 1 = Len(source)
    BY TypeFacts DEF AInv, IInv
  <2>2. p.line \in 1 .. Len(source) /\ st.op = "instruction"
    BY <2>1 DEF AInv, IInv, Bookkeeping
  <2> QED
    BY <2>2, TypeFacts DEF AInv, IInv
<1>2. st.form \in Arm64Forms \cup X86Forms
  BY <1>1 DEF Statement
<1>3. InSection(st.target, p.section)
        <=> Contract!DefinedIn(source, st.target, Place(p.line))
  BY InSectionMeans
<1>4. Contract!IsLocalBranch(source, p.line)
        <=> /\ st.form \in {"b", "b.cond"}
            /\ InSection(st.target, p.section)
  BY <1>1, <1>3 DEF Contract!IsLocalBranch, Place
<1>5. Linked(p.line)
        <=> st.form # "plain" /\ ~Contract!IsLocalBranch(source, p.line)
  BY <1>1 DEF Linked, Contract!IsLinked
<1> HIDE DEF st, p
<1>6. /\ st.form # "invalid"
      /\ st.form = "b.cond" => InSection(st.target, p.section)
      => (UsesSymbol(st, p.section) <=> Linked(p.line))
  BY <1>2, <1>4, <1>5 DEF UsesSymbol, Arm64Forms, X86Forms
<1> QED
  BY <1>1, <1>2, <1>4, <1>6 DEF p, st

(* What encoding one instruction does, in the contract's terms.            *)
LEMMA EncodeMeans ==
  ASSUME AInv, EncodeInstruction
  PROVE  LET p  == pending[next]
             st == source[p.line]
         IN  /\ next \in 1 .. Len(pending) /\ next' = next + 1
             /\ source' = source /\ cursor' = cursor /\ current' = current
             /\ pending' = pending
             /\ cursor = Len(source) + 1 /\ cursor - 1 = Len(source)
             /\ p.line \in 1 .. Len(source) /\ st.op = "instruction"
             /\ p.section \in 1 .. Len(sections)
             /\ BytesPatched(p, st) /\ RelocationAdded(p, st)
             /\ SymbolsAdded(p, st)
             /\ UsesSymbol(st, p.section) <=> Linked(p.line)
             /\ st.form # "invalid"
             /\ st.form = "b.cond" => Contract!IsLocalBranch(source, p.line)
             /\ Settled' = Settled \cup {p.line}
<1> DEFINE p  == pending[next]
           st == source[p.line]
<1>1. /\ next \in 1 .. Len(pending) /\ next' = next + 1
      /\ source' = source /\ cursor' = cursor /\ current' = current
      /\ pending' = pending /\ phase = "pass2"
      /\ Encodable(st, p.section)
      /\ BytesPatched(p, st) /\ RelocationAdded(p, st) /\ SymbolsAdded(p, st)
  BY EncodeEffect DEF PassTwoEffect, AInv
<1>2. /\ cursor = Len(source) + 1 /\ cursor - 1 = Len(source)
      /\ DOMAIN pending = 1 .. Len(pending) /\ Len(pending) \in Nat
      /\ DOMAIN sections = 1 .. Len(sections)
  BY <1>1, TypeFacts DEF AInv, IInv, Bookkeeping
<1>3. p.section \in 1 .. Len(sections)
  BY <1>1, <1>2 DEF AInv, IInv, SlotsIntact
<1>4. /\ p.line \in 1 .. Len(source) /\ st.op = "instruction"
      /\ Contract!IsLocalBranch(source, p.line)
           <=> /\ st.form \in {"b", "b.cond"}
               /\ InSection(st.target, p.section)
      /\ /\ st.form # "invalid"
         /\ st.form = "b.cond" => InSection(st.target, p.section)
         => (UsesSymbol(st, p.section) <=> Linked(p.line))
  BY <1>1, <1>2, LinkedMeans
<1>5. /\ st.form # "invalid"
      /\ st.form = "b.cond" => InSection(st.target, p.section)
  BY <1>1 DEF Encodable
<1>6. Settled' = Settled \cup {p.line}
  <2>1. /\ 1 .. next' - 1 = (1 .. next - 1) \cup {next}
    BY <1>1, <1>2
  <2> QED
    BY <1>1, <2>1 DEF Settled
<1> HIDE DEF p, st
<1> QED
  BY <1>1, <1>2, <1>3, <1>4, <1>5, <1>6 DEF p, st

(* The symbols are still the names the statements use.                     *)
LEMMA EncodeNames ==
  ASSUME AInv, EncodeInstruction
  PROVE  NamesMeant'
<1> DEFINE p  == pending[next]
           st == source[p.line]
<1>1. /\ source' = source /\ cursor' = cursor
      /\ cursor - 1 = Len(source)
      /\ p.line \in 1 .. Len(source) /\ st.op = "instruction"
      /\ BytesPatched(p, st) /\ SymbolsAdded(p, st)
      /\ UsesSymbol(st, p.section) <=> Linked(p.line)
      /\ Settled' = Settled \cup {p.line}
  BY EncodeMeans
<1> HIDE DEF p, st
<1>2. /\ NamesMeant /\ Len(symbols) \in Nat
  BY TypeFacts DEF AInv, IInv
<1>3. /\ Len(symbols') \in Nat /\ Len(symbols) <= Len(symbols')
      /\ DOMAIN symbols' = 1 .. Len(symbols') /\ UniqueNames(symbols')
      /\ \A i \in 1 .. Len(symbols) :
           i \in 1 .. Len(symbols') /\ symbols'[i] = symbols[i]
      /\ \A i \in 1 .. Len(symbols') :
           \/ i \in 1 .. Len(symbols)
           \/ /\ i > Len(symbols)
              /\ UsesSymbol(st, p.section)
              /\ symbols'[i] = NewSymbol(st.target)
  BY <1>1, <1>2 DEF SymbolsAdded
<1>4. \A k : Linked(k)' = Linked(k) /\ Place(k)' = Place(k)
             /\ Start(k)' = Start(k)
  BY <1>1 DEF Linked, Place, Start
<1>5. \A k, name : /\ Mentioned(k, name)' = Mentioned(k, name)
                   /\ Marks(k, name)' = Marks(k, name)
                   /\ Exports(k, name)' = Exports(k, name)
  BY <1>1 DEF Mentioned, Marks, Exports
<1>6. /\ NewSymbol(st.target).name = st.target
      /\ NewSymbol(st.target).global = FALSE
      /\ NewSymbol(st.target).defined = FALSE
  BY DEF NewSymbol
<1>7. Contract!LinkedName(source[p.line]) = st.target
  BY <1>1 DEF Contract!LinkedName, st
<1>8. ASSUME NEW i \in 1 .. Len(symbols')
      PROVE  \/ \E k \in 1 .. cursor - 1 : Mentioned(k, symbols'[i].name)
             \/ \E k \in Settled' :
                  Linked(k) /\ Contract!LinkedName(source[k]) = symbols'[i].name
  <2>1. CASE i \in 1 .. Len(symbols)
    BY <1>1, <1>2, <1>3, <2>1 DEF NamesMeant
  <2>2. CASE i \notin 1 .. Len(symbols)
    BY <1>1, <1>3, <1>6, <1>7, <2>2
  <2> QED
    BY <2>1, <2>2
<1>9. \A k \in 1 .. cursor - 1 :
        source[k].op \in Naming =>
          \E i \in 1 .. Len(symbols') : symbols'[i].name = source[k].name
  BY <1>2, <1>3 DEF NamesMeant
<1>10. ASSUME NEW i \in 1 .. Len(symbols')
       PROVE  SymbolMeant(symbols[i])'
  <2>1. CASE i \in 1 .. Len(symbols)
    <3>1. SymbolMeant(symbols[i]) /\ symbols'[i] = symbols[i]
      BY <1>2, <1>3, <2>1 DEF NamesMeant
    <3>2. /\ Len(sections') = Len(sections)
          /\ \A s \in 1 .. Len(sections) : sections'[s].name = sections[s].name
      BY <1>1 DEF BytesPatched
    <3> QED
      BY <1>1, <1>4, <1>5, <3>1, <3>2 DEF SymbolMeant
  <2>2. CASE i \notin 1 .. Len(symbols)
    <3>1. i > Len(symbols) /\ symbols'[i] = NewSymbol(st.target)
      BY <1>3, <2>2
    <3>2. ASSUME NEW k \in 1 .. cursor - 1, Mentioned(k, st.target)
          PROVE  FALSE
      <4>1. PICK j \in 1 .. Len(symbols) : symbols[j].name = st.target
        BY <1>2, <3>2 DEF NamesMeant, Mentioned
      <4> QED
        BY <1>3, <1>6, <2>2, <3>1, <4>1 DEF UniqueNames
    <3>3. \A k \in 1 .. cursor - 1 :
            ~Exports(k, st.target) /\ ~Marks(k, st.target)
      BY <3>2 DEF Exports, Marks, Mentioned, Naming
    <3> QED
      BY <1>1, <1>5, <1>6, <3>1, <3>3 DEF SymbolMeant
  <2> QED
    BY <2>1, <2>2
<1> QED
  BY <1>1, <1>4, <1>5, <1>8, <1>9, <1>10 DEF NamesMeant

(* The relocations are still the links of the lines settled.               *)
LEMMA EncodeLinks ==
  ASSUME AInv, EncodeInstruction
  PROVE  LinksMeant'
<1> DEFINE p  == pending[next]
           st == source[p.line]
<1>1. /\ source' = source /\ next \in 1 .. Len(pending)
      /\ p.line \in 1 .. Len(source) /\ st.op = "instruction"
      /\ p.section \in 1 .. Len(sections)
      /\ BytesPatched(p, st) /\ RelocationAdded(p, st) /\ SymbolsAdded(p, st)
      /\ UsesSymbol(st, p.section) <=> Linked(p.line)
      /\ Settled' = Settled \cup {p.line}
  BY EncodeMeans
<1>2. /\ sections[p.section].name = Place(p.line)
      /\ p.offset = Start(p.line)
  BY <1>1 DEF AInv, StatementsMeant
<1> HIDE DEF p, st
<1>3. /\ LinksMeant /\ IInv
      /\ \A s \in 1 .. Len(sections) :
           /\ sections'[s].name = sections[s].name
           /\ Len(sections[s].relocations) \in Nat
           /\ Len(sections'[s].relocations) \in Nat
           /\ Len(sections[s].relocations) <= Len(sections'[s].relocations)
           /\ \A r \in 1 .. Len(sections[s].relocations) :
                sections'[s].relocations[r] = sections[s].relocations[r]
      /\ Len(sections') = Len(sections)
  <2>1. /\ \A s \in 1 .. Len(sections) : sections'[s] \in Section
        /\ IInv /\ LinksMeant
    BY <1>1 DEF BytesPatched, AInv
  <2> QED
    BY <1>1, <2>1, SectionFacts, DataFacts
       DEF BytesPatched, RelocationAdded, IInv
<1>4. \A k : Linked(k)' = Linked(k)
  BY <1>1 DEF Linked
<1>5. ASSUME NEW s \in 1 .. Len(sections),
             NEW r \in 1 .. Len(sections[s].relocations)
      PROVE  \A k : Links(s, r, k)' <=> Links(s, r, k)
  <2>1. Len(symbols) \in Nat /\ Len(symbols) <= Len(symbols')
        /\ \A i \in 1 .. Len(symbols) : symbols'[i].name = symbols[i].name
    BY <1>1, TypeFacts DEF SymbolsAdded, AInv, IInv
  <2> QED
    BY <1>1, <1>3, <2>1, LinkStays
<1>6. ASSUME NEW s, s = p.section, NEW k, k = p.line,
             NEW r \in 1 .. Len(sections'[s].relocations),
             LET rel == sections'[s].relocations[r]
             IN  /\ symbols'[rel.symbol].name = st.target
                 /\ rel.offset = p.offset + st.at
                 /\ rel.kind = KindOf(st.form)
      PROVE  Links(s, r, k)'
  <2>1. Contract!LinkOf(source, k)
          = [section |-> Place(k), offset |-> Start(k) + st.at,
             kind |-> KindOf(st.form), name |-> st.target]
    <3>1. source[k] = st /\ st.op # "quad"
      BY <1>1, <1>6 DEF st
    <3> QED
      BY <3>1 DEF Contract!LinkOf, Contract!LinkedName, Place, Start
  <2>2. Links(s, r, k)'
          <=> [section |-> sections'[s].name,
               offset |-> sections'[s].relocations[r].offset,
               kind |-> sections'[s].relocations[r].kind,
               name |-> symbols'[sections'[s].relocations[r].symbol].name]
                = Contract!LinkOf(source, k)
    BY <1>1 DEF Links, AbstractLink, SectionName
  <2>3. sections'[s].name = Place(k)
    BY <1>1, <1>2, <1>3, <1>6
  <2> QED
    BY <1>2, <1>6, <2>1, <2>2, <2>3
<1>7. ASSUME NEW s \in 1 .. Len(sections'),
             NEW r \in 1 .. Len(sections'[s].relocations)
      PROVE  \E k \in Settled' : Linked(k) /\ Links(s, r, k)'
  <2>0. s \in 1 .. Len(sections)
    BY <1>3
  <2>1. CASE r \in 1 .. Len(sections[s].relocations)
    <3>1. PICK k \in Settled : Linked(k) /\ Links(s, r, k)
      BY <1>3, <2>0, <2>1 DEF LinksMeant
    <3> QED
      BY <1>1, <1>5, <2>0, <2>1, <3>1
  <2>2. CASE r \notin 1 .. Len(sections[s].relocations)
    <3>1. r > Len(sections[s].relocations)
      BY <1>3, <2>0, <2>2
    <3>2. LET rel == sections'[s].relocations[r]
          IN  /\ s = p.section
              /\ symbols'[rel.symbol].name = st.target
              /\ rel.offset = p.offset + st.at
              /\ rel.kind = KindOf(st.form)
              /\ UsesSymbol(st, p.section)
      BY <1>1, <2>0, <3>1 DEF RelocationAdded
    <3>3. PICK k : k = p.line
      OBVIOUS
    <3>4. Links(s, r, k)'
      BY <1>6, <3>2, <3>3
    <3> QED
      BY <1>1, <3>2, <3>3, <3>4
  <2> QED
    BY <2>1, <2>2
<1>8. ASSUME NEW k \in Settled', Linked(k)
      PROVE  \E s \in 1 .. Len(sections') :
               \E r \in 1 .. Len(sections'[s].relocations) : Links(s, r, k)'
  <2>1. CASE k \in Settled
    <3>1. PICK s \in 1 .. Len(sections) :
            \E r \in 1 .. Len(sections[s].relocations) : Links(s, r, k)
      BY <1>3, <1>8, <2>1 DEF LinksMeant
    <3>2. PICK r \in 1 .. Len(sections[s].relocations) : Links(s, r, k)
      BY <3>1
    <3>3. Links(s, r, k)' /\ r \in 1 .. Len(sections'[s].relocations)
      BY <1>3, <1>5, <3>2
    <3> QED
      BY <1>3, <3>3
  <2>2. CASE k \notin Settled
    <3>1. k = p.line /\ UsesSymbol(st, p.section)
      BY <1>1, <1>8, <2>2
    <3>2. PICK r \in 1 .. Len(sections'[p.section].relocations) :
            LET rel == sections'[p.section].relocations[r]
            IN  /\ symbols'[rel.symbol].name = st.target
                /\ rel.offset = p.offset + st.at
                /\ rel.kind = KindOf(st.form)
      BY <1>1, <3>1 DEF RelocationAdded
    <3>3. PICK s : s = p.section
      OBVIOUS
    <3>4. Links(s, r, k)'
      BY <1>6, <3>1, <3>2, <3>3
    <3> QED
      BY <1>1, <1>3, <3>2, <3>3, <3>4
  <2> QED
    BY <2>1, <2>2
<1> QED
  BY <1>4, <1>7, <1>8 DEF LinksMeant

(* A step of pass two preserves the abstraction invariant.                 *)
LEMMA EncodeMeaning ==
  ASSUME AInv, EncodeInstruction
  PROVE  AInv'
<1> DEFINE p  == pending[next]
           st == source[p.line]
<1>1. /\ next \in 1 .. Len(pending) /\ next' = next + 1
      /\ source' = source /\ cursor' = cursor /\ current' = current
      /\ pending' = pending
      /\ BytesPatched(p, st)
      /\ st.form # "invalid"
      /\ st.form = "b.cond" => Contract!IsLocalBranch(source, p.line)
  BY EncodeMeans
<1>2. IInv'
  BY EncodePreserves DEF AInv
<1>3. CurrentMeant' /\ LengthsMeant' /\ BytesMeant' /\ StatementsMeant'
  BY <1>1, LayoutStays DEF BytesPatched
<1>4. EncodedMeant'
  <2>1. \A n \in 1 .. next' - 1 : n = next \/ n \in 1 .. next - 1
    BY <1>1
  <2> HIDE DEF p, st
  <2>2. \A n \in 1 .. next' - 1 :
          LET k == pending[n].line
          IN  /\ source[k].form # "invalid"
              /\ source[k].form = "b.cond" => Contract!IsLocalBranch(source, k)
    BY <1>1, <2>1 DEF AInv, EncodedMeant, p, st
  <2> QED
    BY <1>1, <2>2 DEF EncodedMeant
<1> QED
  BY <1>2, <1>3, <1>4, EncodeNames, EncodeLinks DEF AInv

-----------------------------------------------------------------------------
(* The abstraction invariant is inductive.                                 *)

(* Steps that leave the object alone.                                      *)
LEMMA KeptMeaning ==
  ASSUME AInv, Kept, IInv'
  PROVE  AInv'
<1>1. /\ source' = source /\ cursor' = cursor /\ current' = current
      /\ sections' = sections /\ symbols' = symbols
      /\ pending' = pending /\ next' = next
  BY DEF Kept
<1>2. CurrentMeant' /\ LengthsMeant' /\ BytesMeant' /\ StatementsMeant'
  BY <1>1, LayoutStays
<1>3. EncodedMeant'
  BY <1>1 DEF AInv, EncodedMeant
<1>4. \A k : /\ Linked(k)' = Linked(k) /\ Place(k)' = Place(k)
             /\ Start(k)' = Start(k)
             /\ \A name : /\ Mentioned(k, name)' = Mentioned(k, name)
                          /\ Marks(k, name)' = Marks(k, name)
                          /\ Exports(k, name)' = Exports(k, name)
             /\ \A s, r : Links(s, r, k)' = Links(s, r, k)
  BY <1>1 DEF Linked, Place, Start, Mentioned, Marks, Exports, Links,
              AbstractLink, SectionName
<1>5. Settled' = Settled
  BY <1>1 DEF Settled
<1>6. \A i : SymbolMeant(symbols[i])' <=> SymbolMeant(symbols[i])
  BY <1>1, <1>4 DEF SymbolMeant
<1>7. NamesMeant'
  BY <1>1, <1>4, <1>5, <1>6 DEF AInv, NamesMeant
<1>8. LinksMeant'
  BY <1>1, <1>4, <1>5 DEF AInv, LinksMeant
<1> QED
  BY <1>2, <1>3, <1>7, <1>8 DEF AInv

(* An empty object stands for what no statement has put there.             *)
LEMMA InitMeaning == Init => AInv
<1> SUFFICES ASSUME Init PROVE AInv
  OBVIOUS
<1>1. IInv
  BY InitIInv
<1>2. /\ cursor = 1 /\ current = None /\ next = 1
      /\ Len(sections) = 0 /\ Len(symbols) = 0 /\ Len(pending) = 0
      /\ Len(source) \in Nat
  BY <1>1, TypeFacts DEF Init, IInv
<1>3. CurrentMeant
  <2>1. Place(1) = "nowhere"
    BY SectionAtStep DEF Place
  <2> QED
    BY <1>2, <2>1 DEF CurrentMeant
<1>4. LengthsMeant
  <2>1. \A name : Contract!Lengths(source, name)[0] = 0
    BY <1>2, LengthsStep
  <2> QED
    BY <1>2, <2>1 DEF LengthsMeant
<1>5. BytesMeant /\ StatementsMeant /\ EncodedMeant
  BY <1>2 DEF BytesMeant, StatementsMeant, EncodedMeant
<1>6. Settled = {}
  BY <1>2 DEF Settled
<1>7. NamesMeant /\ LinksMeant
  BY <1>2, <1>6 DEF NamesMeant, LinksMeant
<1> QED
  BY <1>1, <1>3, <1>4, <1>5, <1>7 DEF AInv

(* Every step preserves it.                                                *)
LEMMA NextMeaning == AInv /\ [Next]_vars => AInv'
<1> SUFFICES ASSUME AInv, [Next]_vars PROVE AInv'
  OBVIOUS
<1>0. IInv /\ IInv'
  BY NextIInv DEF AInv
<1>1. CASE DefineLabel
  BY <1>0, <1>1, DefineLabelRead, ReadPreserves
<1>2. CASE SelectSection
  BY <1>0, <1>2, SelectSectionRead, ReadPreserves
<1>3. CASE DeclareGlobal \/ DeclareExtern
  BY <1>0, <1>3, DeclareRead, ReadPreserves
<1>4. CASE Align \/ AppendData \/ ReserveSlot
  BY <1>0, <1>4, GrowRead, ReadPreserves
<1>5. CASE AppendQuad
  BY <1>0, <1>5, AppendQuadRead, ReadPreserves
<1>6. CASE SkipDirective
  BY <1>0, <1>6, SkipRead, ReadPreserves
<1>7. CASE EncodeInstruction
  BY <1>7, EncodeMeaning
<1>8. CASE \/ RejectStatement \/ GrowForever \/ OverrunSection
           \/ ExhaustSection \/ RejectInstruction \/ RejectHidden
           \/ OutOfMemory
  <2>1. Kept
    BY <1>8 DEF RejectStatement, GrowForever, OverrunSection, ExhaustSection,
                RejectInstruction, RejectHidden, OutOfMemory, Fail, Stop, Kept
  <2> QED
    BY <1>0, <2>1, KeptMeaning
<1>9. CASE EndPassOne \/ EndPassTwo \/ EmitOutput \/ WriteFails
  <2>1. Kept
    BY <1>9 DEF EndPassOne, EndPassTwo, EmitOutput, WriteFails, Kept
  <2> QED
    BY <1>0, <2>1, KeptMeaning
<1>10. CASE KeepGrowing \/ Terminated \/ UNCHANGED vars
  <2>1. Kept
    BY <1>10 DEF KeepGrowing, Terminated, vars, Kept
  <2> QED
    BY <1>0, <2>1, KeptMeaning
<1> QED
  BY <1>1, <1>2, <1>3, <1>4, <1>5, <1>6, <1>7, <1>8, <1>9, <1>10
     DEF Next, Progress

(* What the assembler has built so far is at every moment what the source  *)
(* read so far stands for.                                                 *)
THEOREM MeaningKept == Spec => []AInv
  BY InitMeaning, NextMeaning, PTL DEF Spec

-----------------------------------------------------------------------------
(* The finished object is the one the source stands for.                   *)

(* The source is read and every instruction is encoded.                    *)
Finished ==
  /\ AInv
  /\ cursor = Len(source) + 1
  /\ next = Len(pending) + 1

(* What finishing settles.                                                 *)
LEMMA FinishedFacts ==
  ASSUME Finished
  PROVE  /\ DOMAIN source = 1 .. Len(source) /\ cursor - 1 = Len(source)
         /\ DOMAIN sections = 1 .. Len(sections)
         /\ DOMAIN symbols = 1 .. Len(symbols)
         /\ DOMAIN pending = 1 .. Len(pending)
         /\ next - 1 = Len(pending)
         /\ \A s \in 1 .. Len(sections) :
              /\ sections[s].name # "nowhere"
              /\ DOMAIN sections[s].data = 1 .. Len(sections[s].data)
              /\ DOMAIN sections[s].relocations
                   = 1 .. Len(sections[s].relocations)
         /\ \A s, t \in 1 .. Len(sections) :
              sections[s].name = sections[t].name => s = t
         /\ Settled = {k \in 1 .. Len(source) :
                         source[k].op \in {"quad", "instruction"}}
<1>1. TypeOK /\ Bookkeeping /\ NamesUnique /\ StatementsMeant
  BY DEF Finished, AInv, IInv
<1>2. /\ DOMAIN source = 1 .. Len(source) /\ Len(source) \in Nat
      /\ DOMAIN sections = 1 .. Len(sections)
      /\ DOMAIN symbols = 1 .. Len(symbols)
      /\ DOMAIN pending = 1 .. Len(pending) /\ Len(pending) \in Nat
      /\ cursor - 1 = Len(source) /\ next - 1 = Len(pending)
  BY <1>1, TypeFacts DEF Finished
<1>3. \A s \in 1 .. Len(sections) :
        /\ sections[s].name # "nowhere"
        /\ DOMAIN sections[s].data = 1 .. Len(sections[s].data)
        /\ DOMAIN sections[s].relocations
             = 1 .. Len(sections[s].relocations)
  <2>1. \A s \in 1 .. Len(sections) : sections[s].name \in SectionNames
    BY <1>1, TypeFacts DEF Section
  <2> QED
    BY <1>1, <2>1, DataFacts, NameAssumption
<1>4. \A s, t \in 1 .. Len(sections) :
        sections[s].name = sections[t].name => s = t
  BY <1>1, <1>2 DEF NamesUnique, UniqueNames
<1>5. /\ \A k \in 1 .. Len(source) :
           source[k].op = "instruction" =>
             \E n \in 1 .. Len(pending) : pending[n].line = k
      /\ \A n \in 1 .. Len(pending) : source[pending[n].line].op = "instruction"
  BY <1>1, <1>2 DEF Bookkeeping, StatementsMeant
<1>6. \A n \in 1 .. Len(pending) : pending[n].line \in 1 .. Len(source)
  BY <1>1, <1>2 DEF Bookkeeping
<1>7. Settled = {k \in 1 .. Len(source) :
                   source[k].op \in {"quad", "instruction"}}
  BY <1>2, <1>5, <1>6 DEF Settled
<1> QED
  BY <1>2, <1>3, <1>4, <1>7

(* A statement that pass two takes for linked leaves room for its field.   *)
LEMMA FieldFits ==
  ASSUME IInv, NEW k \in 1 .. Len(source), Linked(k),
         source[k].op = "instruction" => source[k].form # "invalid"
  PROVE  source[k].op = "quad"
         \/ /\ source[k].op = "instruction"
            /\ source[k].at \in Nat /\ source[k].at + 4 <= SlotSize
<1>1. CASE source[k].op = "quad"
  BY <1>1
<1>2. CASE source[k].op # "quad"
  <2>1. /\ source[k].op = "instruction" /\ source[k].form # "plain"
        /\ ~Contract!IsLocalBranch(source, k)
    BY <1>2 DEF Linked, Contract!IsLinked
  <2>2. /\ source[k] \in Statement /\ k \in DOMAIN source
        /\ IsSource(source)
    BY TypeFacts DEF IInv, TypeOK
  <2>3. source[k].size \in 1 .. 16 /\ source[k].at \in Nat
    BY <2>1, <2>2, OperandFacts
  <2>4. IF Arch = "arm64"
        THEN /\ source[k].form \in Arm64Forms
             /\ source[k].size = 4 /\ source[k].at = 0
        ELSE /\ source[k].form \in X86Forms
             /\ source[k].form \in {"rel32", "rip"} =>
                  source[k].at + 4 <= source[k].size
    BY <2>1, <2>2 DEF IsSource
  <2>5. CASE Arch = "arm64"
    <3>1. source[k].at = 0 /\ SlotSize = 4
      BY <2>4, <2>5 DEF SlotSize
    <3> QED
      BY <2>1, <3>1
  <2>6. CASE Arch # "arm64"
    <3>1. SlotSize = 16
      BY <2>6 DEF SlotSize
    <3>2. source[k].form \in {"rel32", "rip"}
      BY <2>1, <2>4, <2>6 DEF X86Forms
    <3>3. source[k].at + 4 <= source[k].size
      BY <2>4, <2>6, <3>2
    <3> QED
      BY SMTT(30), <2>1, <2>3, <3>1, <3>3
  <2> QED
    BY <2>5, <2>6
<1> QED
  BY <1>1, <1>2

(* The object has exactly the bytes of the source.                         *)
LEMMA BytesAgree ==
  ASSUME Finished
  PROVE  AbstractBytes = Contract!ObjectOf(source).bytes
<1> DEFINE Placed == {j \in DOMAIN source : Place(j) # "nowhere"}
           Is(s, i, b) == b = [section |-> sections[s].name, offset |-> i - 1,
                               by |-> sections[s].data[i].by]
           Was(k, j, b) == b = [section |-> Place(k), offset |-> Start(k) + j,
                                by |-> k]
<1>1. /\ DOMAIN source = 1 .. Len(source) /\ cursor - 1 = Len(source)
      /\ DOMAIN sections = 1 .. Len(sections)
      /\ \A s \in 1 .. Len(sections) :
           /\ sections[s].name # "nowhere"
           /\ DOMAIN sections[s].data = 1 .. Len(sections[s].data)
  BY FinishedFacts
<1>2. BytesMeant /\ Bookkeeping
  BY DEF Finished, AInv, IInv
<1>3. ASSUME NEW b
      PROVE  b \in AbstractBytes
               <=> \E s \in 1 .. Len(sections) :
                     \E i \in 1 .. Len(sections[s].data) : Is(s, i, b)
  <2>1. b \in AbstractBytes
          <=> \E s \in DOMAIN sections :
                b \in {[section |-> SectionName(s), offset |-> i - 1,
                        by |-> sections[s].data[i].by] :
                       i \in DOMAIN sections[s].data}
    BY DEF AbstractBytes
  <2> QED
    BY <1>1, <2>1 DEF SectionName
<1>4. ASSUME NEW b
      PROVE  b \in Contract!ObjectOf(source).bytes
               <=> \E k \in Placed : \E j \in 0 .. Size(k) - 1 : Was(k, j, b)
  <2>1. Contract!ObjectOf(source).bytes
          = UNION {Contract!BytesOf(source, k) : k \in Placed}
    BY DEF Contract!ObjectOf, Contract!Nowhere, Place
  <2>2. \A k : Contract!BytesOf(source, k)
                 = {[section |-> Place(k), offset |-> Start(k) + j, by |-> k] :
                      j \in 0 .. Size(k) - 1}
    BY DEF Contract!BytesOf, Place, Start, Size
  <2> HIDE DEF Placed
  <2> QED
    BY <2>1, <2>2
<1>5. ASSUME NEW b, NEW s \in 1 .. Len(sections),
             NEW i \in 1 .. Len(sections[s].data), Is(s, i, b)
      PROVE  \E k \in Placed : \E j \in 0 .. Size(k) - 1 : Was(k, j, b)
  <2>1. PICK k : k = sections[s].data[i].by
    OBVIOUS
  <2>2. /\ k \in 1 .. Len(source)
        /\ sections[s].name = Place(k) /\ i \in Bytes(Start(k), Size(k))
    BY <1>1, <1>2, <2>1 DEF BytesMeant, Bookkeeping
  <2>3. k \in Placed
    BY <1>1, <2>2
  <2>4. Start(k) \in Nat /\ Size(k) \in Nat
    BY <1>1, <1>2, <2>2 DEF BytesMeant
  <2>5. /\ i - 1 - Start(k) \in 0 .. Size(k) - 1
        /\ Start(k) + (i - 1 - Start(k)) = i - 1
    BY <2>2, <2>4 DEF Bytes
  <2>6. Was(k, i - 1 - Start(k), b)
    BY <1>5, <2>1, <2>2, <2>5
  <2> HIDE DEF Placed, Was
  <2> QED
    BY <2>3, <2>5, <2>6
<1>6. ASSUME NEW b, NEW k \in Placed, NEW j \in 0 .. Size(k) - 1, Was(k, j, b)
      PROVE  \E s \in 1 .. Len(sections) :
               \E i \in 1 .. Len(sections[s].data) : Is(s, i, b)
  <2>1. /\ Start(k) \in Nat /\ Size(k) \in Nat
        /\ \A i \in Bytes(Start(k), Size(k)) :
             \E s \in 1 .. Len(sections) : Holds(s, i, k)
    BY <1>1, <1>2 DEF BytesMeant
  <2>2. PICK i : i = Start(k) + j + 1
    OBVIOUS
  <2>3. i \in Bytes(Start(k), Size(k)) /\ i - 1 = Start(k) + j
    BY <2>1, <2>2 DEF Bytes
  <2>4. PICK s \in 1 .. Len(sections) : Holds(s, i, k)
    BY <2>1, <2>3
  <2>5. /\ sections[s].name = Place(k) /\ sections[s].data[i].by = k
        /\ i \in 1 .. Len(sections[s].data)
    BY <2>4 DEF Holds
  <2>6. Is(s, i, b)
    BY <1>6, <2>3, <2>5
  <2> HIDE DEF Is
  <2> QED
    BY <2>5, <2>6
<1> HIDE DEF Is, Was, Placed
<1>7. \A b : b \in AbstractBytes <=> b \in Contract!ObjectOf(source).bytes
  BY <1>3, <1>4, <1>5, <1>6
<1> QED
  BY <1>7

(* What it says of a relocation to be the link of a statement.             *)
LEMMA LinkSays ==
  ASSUME NEW s, NEW r, NEW k, Links(s, r, k)
  PROVE  /\ sections[s].name = Place(k)
         /\ sections[s].relocations[r].offset
              = Start(k) + (IF source[k].op = "quad" THEN 0 ELSE source[k].at)
         /\ symbols[sections[s].relocations[r].symbol].name
              = Contract!LinkedName(source[k])
BY DEF Links, AbstractLink, SectionName, Contract!LinkOf, Place, Start

(* The relocations and the linked lines of the source go together.         *)
LEMMA LinksFacts ==
  ASSUME Finished
  PROVE  /\ \A k \in 1 .. Len(source) : Linked(k) => k \in Settled
         /\ \A s \in 1 .. Len(sections) :
              \A r \in 1 .. Len(sections[s].relocations) :
                /\ sections[s].relocations[r].symbol \in 1 .. Len(symbols)
                /\ \E k \in 1 .. Len(source) : Linked(k) /\ Links(s, r, k)
         /\ \A k \in 1 .. Len(source) :
              Linked(k) =>
                \E s \in 1 .. Len(sections) :
                  \E r \in 1 .. Len(sections[s].relocations) : Links(s, r, k)
<1>1. /\ LinksMeant /\ RelocationsNameTheirTarget
      /\ DOMAIN sections = 1 .. Len(sections)
      /\ DOMAIN symbols = 1 .. Len(symbols)
      /\ \A s \in 1 .. Len(sections) :
           DOMAIN sections[s].relocations = 1 .. Len(sections[s].relocations)
      /\ Settled = {k \in 1 .. Len(source) :
                      source[k].op \in {"quad", "instruction"}}
  BY FinishedFacts DEF Finished, AInv, IInv
<1>2. \A k \in 1 .. Len(source) : Linked(k) => k \in Settled
  BY <1>1 DEF Linked, Contract!IsLinked
<1>3. \A s \in 1 .. Len(sections) :
        \A r \in 1 .. Len(sections[s].relocations) :
          sections[s].relocations[r].symbol \in 1 .. Len(symbols)
  BY <1>1 DEF RelocationsNameTheirTarget
<1> QED
  BY <1>1, <1>2, <1>3 DEF LinksMeant

(* It leaves the linker exactly the links of the source.                   *)
LEMMA LinksAgree ==
  ASSUME Finished
  PROVE  AbstractLinks = Contract!ObjectOf(source).links
<1> DEFINE Lines == {j \in DOMAIN source : Linked(j)}
<1>1. /\ DOMAIN source = 1 .. Len(source)
      /\ DOMAIN sections = 1 .. Len(sections)
      /\ \A s \in 1 .. Len(sections) :
           DOMAIN sections[s].relocations = 1 .. Len(sections[s].relocations)
  BY FinishedFacts
<1>2. ASSUME NEW b
      PROVE  b \in AbstractLinks
               <=> \E s \in 1 .. Len(sections) :
                     \E r \in 1 .. Len(sections[s].relocations) :
                       b = AbstractLink(s, sections[s].relocations[r])
  BY <1>1 DEF AbstractLinks
<1>3. ASSUME NEW b
      PROVE  b \in Contract!ObjectOf(source).links
               <=> \E k \in 1 .. Len(source) :
                     Linked(k) /\ b = Contract!LinkOf(source, k)
  <2>1. Contract!ObjectOf(source).links
          = {Contract!LinkOf(source, k) : k \in Lines}
    BY DEF Contract!ObjectOf, Linked
  <2> QED
    BY <1>1, <2>1
<1>4. /\ \A s \in 1 .. Len(sections) :
           \A r \in 1 .. Len(sections[s].relocations) :
             \E k \in 1 .. Len(source) : Linked(k) /\ Links(s, r, k)
      /\ \A k \in 1 .. Len(source) :
           Linked(k) =>
             \E s \in 1 .. Len(sections) :
               \E r \in 1 .. Len(sections[s].relocations) : Links(s, r, k)
  BY LinksFacts
<1>5. \A b : b \in AbstractLinks <=> b \in Contract!ObjectOf(source).links
  BY <1>2, <1>3, <1>4 DEF Links
<1> QED
  BY <1>5

(* Its symbols are exactly the names of the source.                        *)
LEMMA SymbolsAgree ==
  ASSUME Finished
  PROVE  AbstractSymbols = Contract!ObjectOf(source).symbols
<1>1. /\ DOMAIN source = 1 .. Len(source) /\ cursor - 1 = Len(source)
      /\ DOMAIN symbols = 1 .. Len(symbols)
  BY FinishedFacts
<1>2. AInv /\ NamesMeant /\ cursor = Len(source) + 1
      /\ \A i \in 1 .. Len(symbols) : symbols[i] \in Symbol
  BY TypeFacts DEF Finished, AInv, IInv
<1>3. ASSUME NEW name
      PROVE  name \in Contract!NamesOf(source)
               <=> \/ \E k \in 1 .. Len(source) : Mentioned(k, name)
                   \/ \E k \in 1 .. Len(source) :
                        Linked(k) /\ Contract!LinkedName(source[k]) = name
  BY <1>1 DEF Contract!NamesOf, Mentioned, Naming, Linked
<1>4. ASSUME NEW name
      PROVE  name \in Contract!NamesOf(source)
               <=> \E i \in 1 .. Len(symbols) : symbols[i].name = name
  <2>1. ASSUME NEW k \in 1 .. Len(source), Mentioned(k, name)
        PROVE  \E i \in 1 .. Len(symbols) : symbols[i].name = name
    BY <1>1, <1>2, <2>1 DEF NamesMeant, Mentioned
  <2>2. ASSUME NEW k \in 1 .. Len(source), Linked(k),
               Contract!LinkedName(source[k]) = name
        PROVE  \E i \in 1 .. Len(symbols) : symbols[i].name = name
    <3>1. PICK s \in 1 .. Len(sections) :
            \E r \in 1 .. Len(sections[s].relocations) : Links(s, r, k)
      BY <2>2, LinksFacts
    <3>2. PICK r \in 1 .. Len(sections[s].relocations) : Links(s, r, k)
      BY <3>1
    <3>3. sections[s].relocations[r].symbol \in 1 .. Len(symbols)
      BY LinksFacts
    <3> QED
      BY <2>2, <3>2, <3>3, LinkSays
  <2>3. ASSUME NEW i \in 1 .. Len(symbols), symbols[i].name = name
        PROVE  name \in Contract!NamesOf(source)
    <3>1. \/ \E k \in 1 .. Len(source) : Mentioned(k, name)
          \/ \E k \in Settled :
               Linked(k) /\ Contract!LinkedName(source[k]) = name
      BY <1>1, <1>2, <2>3 DEF NamesMeant
    <3>2. \A k \in Settled : k \in 1 .. Len(source)
      BY FinishedFacts
    <3> QED
      BY <1>3, <3>1, <3>2
  <2> QED
    BY <1>3, <2>1, <2>2, <2>3
<1>5. ASSUME NEW i \in 1 .. Len(symbols)
      PROVE  AbstractSymbol(symbols[i])
               = Contract!SymbolOf(source, symbols[i].name)
  <2> DEFINE name == symbols[i].name
             place == IF symbols[i].defined
                      THEN [section |-> sections[symbols[i].section].name,
                            value |-> symbols[i].value]
                      ELSE [section |-> "nowhere", value |-> 0]
             exported == \E k \in DOMAIN source :
                           /\ source[k].op \in {"globl", "extern"}
                           /\ source[k].name = name
  <2>1. place = IF Contract!LabelsOf(source, name) = {}
                THEN [section |-> "nowhere", value |-> 0]
                ELSE Contract!PlaceOf(source, name)
    <3>1. /\ symbols[i].defined <=> Contract!LabelsOf(source, name) # {}
          /\ symbols[i].defined =>
               Contract!PlaceOf(source, name)
                 = [section |-> sections[symbols[i].section].name,
                    value |-> symbols[i].value]
      BY <1>2, PlaceMeant
    <3> QED
      BY <3>1
  <2>2. symbols[i].global = exported
    <3>1. symbols[i].global <=> exported
      BY <1>1, <1>2 DEF NamesMeant, SymbolMeant, Exports
    <3>2. symbols[i].global \in BOOLEAN
      BY <1>2 DEF Symbol
    <3>3. exported \in BOOLEAN
      OBVIOUS
    <3> QED
      BY <3>1, <3>2, <3>3
  <2>3. AbstractSymbol(symbols[i])
          = [name |-> name, place |-> place, global |-> symbols[i].global]
    BY DEF AbstractSymbol, SectionName
  <2>4. Contract!SymbolOf(source, name)
          = [name |-> name,
             place |-> IF Contract!LabelsOf(source, name) = {}
                       THEN [section |-> "nowhere", value |-> 0]
                       ELSE Contract!PlaceOf(source, name),
             global |-> exported]
    BY DEF Contract!SymbolOf, Contract!Nowhere
  <2> HIDE DEF name, place, exported
  <2>5. AbstractSymbol(symbols[i]) = Contract!SymbolOf(source, name)
    BY <2>1, <2>2, <2>3, <2>4
  <2> QED
    BY <2>5 DEF name
<1>6. ASSUME NEW b
      PROVE  b \in Contract!ObjectOf(source).symbols
               <=> \E name \in Contract!NamesOf(source) :
                     b = Contract!SymbolOf(source, name)
  <2>1. Contract!ObjectOf(source).symbols
          = {Contract!SymbolOf(source, name) : name \in Contract!NamesOf(source)}
    BY DEF Contract!ObjectOf
  <2> QED
    BY <2>1
<1>7. \A b : b \in AbstractSymbols
               <=> \E i \in 1 .. Len(symbols) : b = AbstractSymbol(symbols[i])
  BY <1>1 DEF AbstractSymbols
<1>8. \A b : b \in AbstractSymbols <=> b \in Contract!ObjectOf(source).symbols
  BY <1>4, <1>5, <1>6, <1>7
<1> QED
  BY <1>8

(* A pending instruction carries its displacement itself exactly when the  *)
(* contract calls it a local branch.                                       *)
LEMMA JumpMeans ==
  ASSUME Finished, NEW n \in 1 .. Len(pending)
  PROVE  IsJump(pending[n])
           <=> Contract!IsLocalBranch(source, pending[n].line)
<1> DEFINE p  == pending[n]
           k  == p.line
           st == source[k]
<1>1. /\ AInv /\ IInv /\ cursor = Len(source) + 1
      /\ StatementsMeant /\ EncodedMeant /\ BytesMeant /\ SlotsIntact
      /\ RelocationsNameTheirTarget /\ Len(source) \in Nat
      /\ pending[n] \in Pending
  BY TypeFacts DEF Finished, AInv, IInv
<1>2. /\ DOMAIN sections = 1 .. Len(sections) /\ cursor - 1 = Len(source)
      /\ DOMAIN pending = 1 .. Len(pending) /\ next - 1 = Len(pending)
      /\ \A s \in 1 .. Len(sections) :
           DOMAIN sections[s].relocations = 1 .. Len(sections[s].relocations)
      /\ \A s, t \in 1 .. Len(sections) :
           sections[s].name = sections[t].name => s = t
  BY FinishedFacts
<1>3. /\ k \in 1 .. Len(source) /\ st.op = "instruction"
      /\ st.form \in Arm64Forms \cup X86Forms
  BY <1>1, LinkedMeans
<1>4. /\ st.form # "invalid"
      /\ st.form = "b.cond" => Contract!IsLocalBranch(source, k)
      /\ sections[p.section].name = Place(k) /\ p.offset = Start(k)
      /\ p.section \in 1 .. Len(sections)
      /\ p.offset \in Nat
      /\ \A i \in Bytes(p.offset, SlotSize) :
           sections[p.section].data[i].by = k
  BY <1>1, <1>2 DEF EncodedMeant, StatementsMeant, SlotsIntact, Pending
<1> HIDE DEF k, st, p
<1>5. ASSUME Contract!IsLocalBranch(source, k),
             NEW r \in 1 .. Len(sections[p.section].relocations),
             sections[p.section].relocations[r].offset = p.offset
      PROVE  FALSE
  <2>1. PICK j \in 1 .. Len(source) : Linked(j) /\ Links(p.section, r, j)
    BY <1>4, LinksFacts
  <2>2. /\ sections[p.section].name = Place(j)
        /\ p.offset = Start(j) + (IF source[j].op = "quad" THEN 0
                                  ELSE source[j].at)
    BY <1>5, <2>1, LinkSays
  <2>3. Place(j) # "nowhere" /\ Start(j) \in Nat
    <3>1. Place(j) # "nowhere"
      BY <1>4, <2>2, FinishedFacts
    <3> QED
      BY <1>1, <1>2, <3>1 DEF BytesMeant
  <2>4. p.offset + 1 \in Bytes(Start(j), Size(j))
    <3>1. source[j].op = "instruction" => source[j].form # "invalid"
      <4>1. ASSUME source[j].op = "instruction"
            PROVE  source[j].form # "invalid"
        <5>1. PICK m \in 1 .. Len(pending) : pending[m].line = j
          BY <1>1, <1>2, <4>1 DEF StatementsMeant
        <5> QED
          BY <1>1, <1>2, <5>1 DEF EncodedMeant
      <4> QED
        BY <4>1
    <3>2. CASE source[j].op = "quad"
      <4>1. Size(j) = 8 /\ p.offset = Start(j) + 0
        BY <2>2, <3>2 DEF Size, Contract!SizeAt
      <4> QED
        BY <2>3, <4>1 DEF Bytes
    <3>3. CASE source[j].op # "quad"
      <4>1. /\ source[j].op = "instruction"
            /\ source[j].at \in Nat /\ source[j].at + 4 <= SlotSize
        BY <1>1, <2>1, <3>1, <3>3, FieldFits
      <4>2. Size(j) = SlotSize /\ p.offset = Start(j) + source[j].at
        BY <2>2, <4>1 DEF Size, Contract!SizeAt
      <4> QED
        BY SMTT(30), <2>3, <4>1, <4>2, SlotSizeFacts DEF Bytes
    <3> QED
      BY <3>2, <3>3
  <2>5. PICK s \in 1 .. Len(sections) : Holds(s, p.offset + 1, j)
    BY <1>1, <1>2, <2>3, <2>4 DEF BytesMeant
  <2>6. s = p.section
    BY <1>2, <1>4, <2>2, <2>5 DEF Holds
  <2>7. p.offset + 1 \in Bytes(p.offset, SlotSize)
    BY SMTT(30), <1>4, SlotSizeFacts DEF Bytes
  <2>8. j = k
    BY <1>4, <2>5, <2>6, <2>7 DEF Holds
  <2> QED
    BY <1>3, <1>5, <2>1, <2>8 DEF Linked, Contract!IsLinked, st
<1>6. ASSUME ~Contract!IsLocalBranch(source, k), st.form \in {"b", "b.cond"}
      PROVE  \E r \in 1 .. Len(sections[p.section].relocations) :
               sections[p.section].relocations[r].offset = p.offset
  <2>1. st.form = "b"
    BY <1>4, <1>6
  <2>2. Linked(k)
    BY <1>3, <1>6, <2>1 DEF Linked, Contract!IsLinked, st
  <2>3. PICK s \in 1 .. Len(sections) :
          \E r \in 1 .. Len(sections[s].relocations) : Links(s, r, k)
    BY <1>3, <2>2, LinksFacts
  <2>4. PICK r \in 1 .. Len(sections[s].relocations) : Links(s, r, k)
    BY <2>3
  <2>5. /\ sections[s].name = Place(k)
        /\ sections[s].relocations[r].offset = Start(k) + st.at
    BY <1>3, <2>4, LinkSays DEF st
  <2>6. s = p.section
    BY <1>2, <1>4, <2>5
  <2>7. st.at = 0
    <3>1. IsSource(source) /\ k \in DOMAIN source
      BY <1>1, <1>3, TypeFacts DEF IInv, TypeOK
    <3>2. IF Arch = "arm64"
          THEN st.form \in Arm64Forms /\ st.size = 4 /\ st.at = 0
          ELSE st.form \in X86Forms
      BY <1>3, <3>1 DEF IsSource, st
    <3> QED
      BY <2>1, <3>2 DEF X86Forms
  <2> QED
    BY <1>4, <2>5, <2>6, <2>7
<1>7. IsJump(p)
        <=> /\ st.form \in {"b", "b.cond"}
            /\ \A r \in 1 .. Len(sections[p.section].relocations) :
                 sections[p.section].relocations[r].offset # p.offset
  BY <1>2, <1>4 DEF IsJump, st, k
<1>8. Contract!IsLocalBranch(source, k) => st.form \in {"b", "b.cond"}
  BY DEF Contract!IsLocalBranch, st
<1>9. IsJump(p) <=> Contract!IsLocalBranch(source, k)
  BY <1>5, <1>6, <1>7, <1>8
<1> QED
  BY <1>9 DEF p, k

(* The displacements it carries are those of the source's local branches.  *)
LEMMA JumpsAgree ==
  ASSUME Finished
  PROVE  AbstractJumps = Contract!ObjectOf(source).jumps
<1>1. /\ AInv /\ IInv /\ cursor = Len(source) + 1
      /\ StatementsMeant /\ ReferencesResolved
  BY DEF Finished, AInv, IInv
<1>2. /\ DOMAIN source = 1 .. Len(source) /\ cursor - 1 = Len(source)
      /\ DOMAIN pending = 1 .. Len(pending) /\ next - 1 = Len(pending)
  BY FinishedFacts
<1>3. ASSUME NEW b
      PROVE  b \in AbstractJumps
               <=> \E n \in 1 .. Len(pending) :
                     IsJump(pending[n]) /\ b = AbstractJump(pending[n])
  BY <1>2 DEF AbstractJumps
<1>4. ASSUME NEW b
      PROVE  b \in Contract!ObjectOf(source).jumps
               <=> \E k \in 1 .. Len(source) :
                     /\ Contract!IsLocalBranch(source, k)
                     /\ b = Contract!JumpOf(source, k)
  <2>1. Contract!ObjectOf(source).jumps
          = {Contract!JumpOf(source, k) :
               k \in {j \in DOMAIN source : Contract!IsLocalBranch(source, j)}}
    BY DEF Contract!ObjectOf
  <2> QED
    BY <1>2, <2>1
<1>5. ASSUME NEW n \in 1 .. Len(pending),
             Contract!IsLocalBranch(source, pending[n].line)
      PROVE  AbstractJump(pending[n])
               = Contract!JumpOf(source, pending[n].line)
  <2> DEFINE p  == pending[n]
             k  == p.line
             st == source[k]
  <2>1. st.form \in {"b", "b.cond"} /\ InSection(st.target, p.section)
    BY SMTT(30), <1>1, <1>5, LinkedMeans
  <2>2. sections[p.section].data[p.offset + 1].imm
          = BranchField(st.form, symbols[Find(symbols, st.target)].value
                                   - p.offset)
    BY <1>1, <1>2, <2>1 DEF ReferencesResolved
  <2>3. symbols[Find(symbols, st.target)].value
          = Contract!PlaceOf(source, st.target).value
    BY <1>1, <2>1, InSectionMeans
  <2>4. sections[p.section].name = Place(k) /\ p.offset = Start(k)
    BY <1>1 DEF StatementsMeant
  <2>5. AbstractJump(p)
          = [section |-> sections[p.section].name, offset |-> p.offset,
             field |-> sections[p.section].data[p.offset + 1].imm]
    BY DEF AbstractJump, SectionName
  <2>6. Contract!JumpOf(source, k)
          = [section |-> Place(k), offset |-> Start(k),
             field |-> BranchField(st.form,
                         Contract!PlaceOf(source, st.target).value - Start(k))]
    BY DEF Contract!JumpOf, Place, Start
  <2> HIDE DEF p, k, st
  <2>7. AbstractJump(p) = Contract!JumpOf(source, k)
    BY <2>2, <2>3, <2>4, <2>5, <2>6
  <2> QED
    BY <2>7 DEF p, k
<1>6. \A n \in 1 .. Len(pending) : pending[n].line \in 1 .. Len(source)
  BY <1>1, LinkedMeans
<1>7. \A k \in 1 .. Len(source) :
        Contract!IsLocalBranch(source, k) =>
          \E n \in 1 .. Len(pending) : pending[n].line = k
  BY <1>1, <1>2 DEF StatementsMeant, Contract!IsLocalBranch
<1>8. \A n \in 1 .. Len(pending) :
        IsJump(pending[n]) <=> Contract!IsLocalBranch(source, pending[n].line)
  BY JumpMeans
<1>9. \A b : b \in AbstractJumps <=> b \in Contract!ObjectOf(source).jumps
  BY <1>3, <1>4, <1>5, <1>6, <1>7, <1>8
<1> QED
  BY <1>9

(* A source whose object needs no hidden symbol is well formed.            *)
LEMMA SourceIsWellFormed ==
  ASSUME Finished, ~HiddenRelocation
  PROVE  Contract!WellFormed(source)
<1>1. /\ DOMAIN source = 1 .. Len(source) /\ cursor - 1 = Len(source)
      /\ DOMAIN sections = 1 .. Len(sections)
      /\ next - 1 = Len(pending)
      /\ \A s \in 1 .. Len(sections) :
           DOMAIN sections[s].relocations = 1 .. Len(sections[s].relocations)
  BY FinishedFacts
<1>2. StatementsMeant /\ EncodedMeant
  BY DEF Finished, AInv
<1>3. ASSUME NEW k \in 1 .. Len(source)
      PROVE  /\ source[k].op # "unsupported"
             /\ source[k].op \in NeedsSection => Place(k) # "nowhere"
  BY <1>1, <1>2 DEF StatementsMeant
<1>4. ASSUME NEW k \in 1 .. Len(source), source[k].op = "instruction"
      PROVE  /\ source[k].form # "invalid"
             /\ source[k].form = "b.cond" => Contract!IsLocalBranch(source, k)
  <2>1. PICK n \in 1 .. Len(pending) : pending[n].line = k
    BY <1>1, <1>2, <1>4 DEF StatementsMeant
  <2> QED
    BY <1>1, <1>2, <2>1 DEF EncodedMeant
<1>5. ASSUME NEW k \in 1 .. Len(source), Linked(k)
      PROVE  Contract!LinkedName(source[k]) \notin Hidden
  <2>1. PICK s \in 1 .. Len(sections) :
          \E r \in 1 .. Len(sections[s].relocations) : Links(s, r, k)
    BY <1>5, LinksFacts
  <2>2. PICK r \in 1 .. Len(sections[s].relocations) : Links(s, r, k)
    BY <2>1
  <2>3. symbols[sections[s].relocations[r].symbol].name
          = Contract!LinkedName(source[k])
    BY <2>2, LinkSays
  <2> QED
    BY <1>1, <2>3 DEF HiddenRelocation
<1> QED
  BY <1>1, <1>3, <1>4, <1>5
     DEF Contract!WellFormed, Contract!Nowhere, NeedsSection, Place, Linked

(* The object handed to the writer is the one the source stands for.       *)
LEMMA ObjectAgrees ==
  ASSUME Finished
  PROVE  AbstractObject = Contract!ObjectOf(source)
<1>1. AbstractObject
        = [bytes |-> Contract!ObjectOf(source).bytes,
           symbols |-> Contract!ObjectOf(source).symbols,
           links |-> Contract!ObjectOf(source).links,
           jumps |-> Contract!ObjectOf(source).jumps]
  BY BytesAgree, SymbolsAgree, LinksAgree, JumpsAgree DEF AbstractObject
<1> QED
  BY <1>1 DEF Contract!ObjectOf

(* A step either gives the contract's outcome or leaves it open.           *)
LEMMA StepImplements ==
  ASSUME AInv, [Next]_vars
  PROVE  [Contract!Produce \/ Contract!Refuse]_<<source, Outcome>>
<1>1. Bookkeeping
  BY DEF AInv, IInv
<1>2. ASSUME UNCHANGED <<source, sections, symbols, pending>>
      PROVE  AbstractObject' = AbstractObject
  BY <1>2 DEF AbstractObject, AbstractBytes, AbstractSymbols, AbstractSymbol,
              AbstractLinks, AbstractLink, AbstractJumps, AbstractJump,
              IsJump, SectionName
<1>3. CASE EmitOutput \/ WriteFails
  <2>1. /\ phase = "emit" /\ ~HiddenRelocation
        /\ phase' \in {"done", "failed"}
        /\ UNCHANGED <<source, sections, symbols, pending>>
    BY <1>3 DEF EmitOutput, WriteFails
  <2>2. Finished
    BY <1>1, <2>1 DEF Finished, Bookkeeping
  <2>3. AbstractObject' = Contract!ObjectOf(source)
    BY <1>2, <2>1, <2>2, ObjectAgrees
  <2>4. Contract!WellFormed(source)
    BY <2>1, <2>2, SourceIsWellFormed
  <2>5. Outcome = Contract!Pending
    BY <2>1 DEF Outcome, Contract!Pending
  <2>6. CASE phase' = "done"
    <3>1. Outcome' = [kind |-> "object", object |-> Contract!ObjectOf(source)]
      BY <2>3, <2>6 DEF Outcome
    <3> QED
      BY <2>1, <2>4, <2>5, <3>1 DEF Contract!Produce
  <2>7. CASE phase' = "failed"
    <3>1. Outcome' = Contract!Error
      BY <2>7 DEF Outcome, Contract!Error
    <3> QED
      BY <2>1, <2>5, <3>1 DEF Contract!Refuse
  <2> QED
    BY <2>1, <2>6, <2>7
<1>4. CASE \/ RejectStatement \/ ExhaustSection \/ RejectInstruction
           \/ RejectHidden \/ OutOfMemory
  <2>1. /\ phase \notin {"done", "failed"} /\ phase' = "failed"
        /\ source' = source
    BY <1>4 DEF RejectStatement, ExhaustSection, Exhausting, RejectInstruction,
                RejectHidden, OutOfMemory, Fail, Stop, Reading
  <2>2. Outcome = Contract!Pending /\ Outcome' = Contract!Error
    BY <2>1 DEF Outcome, Contract!Pending, Contract!Error
  <2> QED
    BY <2>1, <2>2 DEF Contract!Refuse
<1>5. CASE \/ DefineLabel \/ SelectSection \/ DeclareGlobal \/ DeclareExtern
           \/ Align \/ AppendData \/ AppendQuad \/ ReserveSlot
           \/ SkipDirective \/ GrowForever \/ OverrunSection \/ EndPassOne
           \/ EncodeInstruction \/ EndPassTwo
  <2>1. /\ {phase, phase'} \cap {"done", "failed"} = {}
        /\ source' = source
    BY <1>5 DEF DefineLabel, SelectSection, DeclareGlobal, DeclareExtern,
                Align, AppendData, AppendQuad, ReserveSlot, SkipDirective,
                GrowForever, OverrunSection, Exhausting, Stop, EndPassOne,
                EncodeInstruction, EndPassTwo, Reading
  <2>2. Outcome' = Outcome
    BY <2>1 DEF Outcome
  <2> QED
    BY SMTT(30), <2>1, <2>2
<1>6. CASE KeepGrowing \/ Terminated \/ UNCHANGED vars
  <2>1. UNCHANGED <<source, phase, sections, symbols, pending>>
    BY <1>6 DEF KeepGrowing, Terminated, vars
  <2>2. Outcome' = Outcome
    BY <1>2, <2>1 DEF Outcome
  <2> QED
    BY <2>1, <2>2
<1> QED
  BY <1>3, <1>4, <1>5, <1>6 DEF Next, Progress

(* The two passes implement the contract.  For every source file, both     *)
(* architectures and every limit on a section's size, the assembly either  *)
(* fails or ends with the object that the contract reads off the source.   *)
THEOREM ContractImplemented == Spec => ImplementsContract
<1>1. Init => Outcome = Contract!Pending
  BY DEF Init, Outcome, Contract!Pending
<1>2. AInv /\ [Next]_vars
        => [Contract!Produce \/ Contract!Refuse]_<<source, Outcome>>
  BY StepImplements
<1> QED
  BY <1>1, <1>2, MeaningKept, PTL DEF Spec, ImplementsContract, Contract!Spec

-----------------------------------------------------------------------------
(* The x86_64 encoder, which pass two calls for every instruction: any     *)
(* instructions, fields of any width, and the buffer of an encoding.       *)

CONSTANTS X86Instructions, FieldBits, EncodedBytes
VARIABLES x86Instruction, x86State, x86Encoded

X86 == INSTANCE MCX86Encoder
         WITH Instructions <- X86Instructions, Bits <- FieldBits,
              Capacity <- EncodedBytes, instruction <- x86Instruction,
              state <- x86State, encoded <- x86Encoded

(* A run of bytes of any kind.                                             *)
IsBytes(s) == \E S : s \in Seq(S)

(* Joining two runs of bytes.                                              *)
LEMMA BytesJoin ==
  ASSUME NEW s, NEW t, IsBytes(s), IsBytes(t)
  PROVE  /\ IsBytes(s \o t)
         /\ Len(s) \in Nat /\ Len(t) \in Nat
         /\ Len(s \o t) = Len(s) + Len(t)
         /\ \A i \in 1 .. Len(s) : (s \o t)[i] = s[i]
         /\ \A i \in 1 .. Len(t) : (s \o t)[Len(s) + i] = t[i]
<1>1. PICK S : s \in Seq(S)
  BY DEF IsBytes
<1>2. PICK T : t \in Seq(T)
  BY DEF IsBytes
<1> DEFINE U == S \cup T
<1>3. s \in Seq(U) /\ t \in Seq(U)
  BY <1>1, <1>2
<1> HIDE DEF U
<1>4. s \o t \in Seq(U) /\ Len(s) \in Nat /\ Len(t) \in Nat
      /\ Len(s \o t) = Len(s) + Len(t)
  BY <1>3
<1>5. \A i \in 1 .. Len(s) : (s \o t)[i] = s[i]
  BY <1>3
<1>6. \A i \in 1 .. Len(t) : (s \o t)[Len(s) + i] = t[i]
  BY <1>3
<1> QED
  BY <1>4, <1>5, <1>6 DEF IsBytes

LEMMA OneByte ==
  ASSUME NEW b
  PROVE  IsBytes(<<b>>) /\ Len(<<b>>) = 1
<1>1. <<b>> \in Seq({b})
  OBVIOUS
<1> QED
  BY <1>1 DEF IsBytes

LEMMA NoByte == IsBytes(<< >>) /\ Len(<< >>) = 0
<1>1. << >> \in Seq({})
  OBVIOUS
<1> QED
  BY <1>1 DEF IsBytes

LEMMA BytesAdd ==
  ASSUME NEW s, NEW t, IsBytes(s), IsBytes(t)
  PROVE  /\ IsBytes(s \o t)
         /\ Len(s) \in Nat /\ Len(t) \in Nat
         /\ Len(s \o t) = Len(s) + Len(t)
BY BytesJoin

(* Opcodes and prefixes.                                                   *)
LEMMA SmallParts ==
  /\ \A v : IsBytes(X86!Op(v)) /\ Len(X86!Op(v)) = 1
  /\ \A w, r, b : IsBytes(X86!Rex(w, r, b)) /\ Len(X86!Rex(w, r, b)) \in {0, 1}
  /\ \A w, r, o : /\ IsBytes(X86!RexRm(w, r, o))
                  /\ Len(X86!RexRm(w, r, o)) \in {0, 1}
  /\ \A m, r, b : IsBytes(X86!ModRM(m, r, b)) /\ Len(X86!ModRM(m, r, b)) = 1
  /\ \A b : IsBytes(X86!Sib(b)) /\ Len(X86!Sib(b)) = 1
  /\ \A w : IsBytes(X86!OperandSize(w)) /\ Len(X86!OperandSize(w)) \in {0, 1}
<1>1. \A v : IsBytes(X86!Op(v)) /\ Len(X86!Op(v)) = 1
  BY OneByte DEF X86!Op
<1>2. \A w, r, b : /\ IsBytes(X86!Rex(w, r, b))
                   /\ Len(X86!Rex(w, r, b)) \in {0, 1}
  <2> TAKE w, r, b
  <2> DEFINE bits == {bit \in {"W", "R", "B"} :
                        \/ bit = "W" /\ w
                        \/ bit = "R" /\ r >= 8
                        \/ bit = "B" /\ b >= 8}
  <2>1. X86!Rex(w, r, b) = IF bits = {} THEN <<>>
                           ELSE <<[is |-> "rex", bits |-> bits]>>
    BY DEF X86!Rex
  <2> HIDE DEF bits
  <2> QED
    BY <2>1, OneByte, NoByte
<1>3. \A w, r, o : /\ IsBytes(X86!RexRm(w, r, o))
                   /\ Len(X86!RexRm(w, r, o)) \in {0, 1}
  BY <1>2 DEF X86!RexRm
<1>4. \A m, r, b : IsBytes(X86!ModRM(m, r, b)) /\ Len(X86!ModRM(m, r, b)) = 1
  BY OneByte DEF X86!ModRM
<1>5. \A b : IsBytes(X86!Sib(b)) /\ Len(X86!Sib(b)) = 1
  BY OneByte DEF X86!Sib
<1>6. \A w : IsBytes(X86!OperandSize(w)) /\ Len(X86!OperandSize(w)) \in {0, 1}
  BY <1>1, NoByte DEF X86!OperandSize
<1> QED
  BY <1>1, <1>2, <1>3, <1>4, <1>5, <1>6

(* The bytes of a field, one by one.                                       *)
LEMMA FieldParts ==
  ASSUME NEW n \in Nat, NEW v
  PROVE  /\ IsBytes(X86!Field(n, v)) /\ Len(X86!Field(n, v)) = n
         /\ \A part \in 1 .. n : /\ X86!Field(n, v)[part].is = "field"
                                 /\ X86!Field(n, v)[part].size = n
                                 /\ X86!Field(n, v)[part].part = part
<1> DEFINE B(part) == [is |-> "field", size |-> n, part |-> part,
                       value |-> v % (2 ^ FieldBits[n])]
           f == [part \in 1 .. n |-> B(part)]
           S == {B(part) : part \in 1 .. n}
<1>1. X86!Field(n, v) = f
  BY DEF X86!Field
<1>2. f \in Seq(S) /\ Len(f) = n
  <2>1. \A part \in 1 .. n : B(part) \in S
    OBVIOUS
  <2> HIDE DEF B, S
  <2> QED
    BY <2>1
<1>3. IsBytes(f)
  BY <1>2 DEF IsBytes
<1>4. \A part \in 1 .. n : f[part].is = "field" /\ f[part].size = n
                           /\ f[part].part = part
  OBVIOUS
<1> HIDE DEF f
<1> QED
  BY <1>1, <1>2, <1>3, <1>4

(* A result of at least one byte, whose relocation, if it has one, covers  *)
(* a field.                                                                *)
Covered(r) ==
  /\ IsBytes(r.bytes) /\ Len(r.bytes) >= 1
  /\ r.usesSymbol => X86!IsField(r.bytes, r.offset + 1, 4)

(* A field within what is written around it is still a field.              *)
LEMMA FieldWithin ==
  ASSUME NEW before, NEW after, NEW n \in Nat, NEW v,
         IsBytes(before), IsBytes(after)
  PROVE  X86!IsField(before \o X86!Field(n, v) \o after, Len(before) + 1, n)
<1> DEFINE f == X86!Field(n, v)
           front == before \o f
           all == front \o after
           l == Len(before)
<1>1. /\ IsBytes(f) /\ Len(f) = n
      /\ \A part \in 1 .. n : f[part].is = "field" /\ f[part].size = n
                              /\ f[part].part = part
  BY FieldParts
<1> HIDE DEF f
<1>2. IsBytes(front) /\ l \in Nat /\ Len(front) = l + n
  BY <1>1, BytesAdd
<1>3. \A i \in 1 .. n : front[l + i] = f[i]
  BY <1>1, BytesJoin
<1> HIDE DEF front
<1>4. Len(all) = l + n + Len(after) /\ Len(after) \in Nat
  BY <1>2, BytesAdd
<1>5. \A i \in 1 .. l + n : all[i] = front[i]
  BY <1>2, BytesJoin
<1> HIDE DEF all, l
<1>6. \A part \in 1 .. n : all[(l + 1) + part - 1] = f[part]
  <2> TAKE part \in 1 .. n
  <2>1. (l + 1) + part - 1 = l + part /\ l + part \in 1 .. l + n
    BY <1>2
  <2> QED
    BY <1>3, <1>5, <2>1
<1>7. (l + 1) + n - 1 <= Len(all)
  BY <1>2, <1>4
<1>8. X86!IsField(all, l + 1, n)
  BY ZenonT(40), <1>1, <1>6, <1>7 DEF X86!IsField
<1> QED
  BY <1>8 DEF all, front, l, f

(* What a register or memory operand turns into: its displacement, if it   *)
(* names a symbol, is a field of four bytes at the end.                    *)
LEMMA OperandBytes ==
  ASSUME NEW reg, NEW operand
  PROVE  \E head, size, v :
           LET rm == X86!RmBytes(reg, operand)
           IN  /\ IsBytes(head) /\ Len(head) >= 1 /\ size \in {0, 1, 2, 4}
               /\ rm.bytes = head \o X86!Field(size, v)
               /\ rm.hasReloc => size = 4 /\ rm.offset = Len(head)
<1>1. CASE X86!IsReg(operand)
  <2> DEFINE head == X86!ModRM(3, reg, operand.reg.code)
  <2>1. X86!RmBytes(reg, operand) =
          [bytes |-> head, hasReloc |-> FALSE, offset |-> 0]
    BY <1>1 DEF X86!RmBytes
  <2>2. IsBytes(head) /\ Len(head) = 1
    BY SmallParts
  <2>3. head \o X86!Field(0, 0) = head
    <3>1. X86!Field(0, 0) = << >>
      BY DEF X86!Field
    <3>2. PICK S : head \in Seq(S)
      BY <2>2 DEF IsBytes
    <3> HIDE DEF head
    <3> QED
      BY <3>1, <3>2
  <2> HIDE DEF head
  <2> QED
    BY <2>1, <2>2, <2>3
<1>2. CASE ~X86!IsReg(operand)
  <2> DEFINE mem  == X86!ParseMem(operand)
             rm   == mem.base.code % 8
             head == IF X86!IsRelative(mem) THEN X86!ModRM(0, reg, 5)
                     ELSE X86!ModRM(X86!Mod(mem), reg, rm)
                            \o (IF rm = 4 THEN X86!Sib(rm) ELSE <<>>)
             size == IF X86!IsRelative(mem) \/ X86!Mod(mem) = 2 THEN 4
                     ELSE X86!Mod(mem)
  <2>1. X86!RmBytes(reg, operand) =
          [bytes |-> head \o X86!Field(size, mem.disp),
           hasReloc |-> mem.hasSymbol, offset |-> Len(head)]
    BY <1>2 DEF X86!RmBytes, X86!MemBytes
  <2>2. X86!Mod(mem) \in {0, 1, 2} /\ (mem.hasSymbol => X86!Mod(mem) = 2)
    <3> HIDE DEF mem
    <3> QED
      BY DEF X86!Mod
  <2>3. size \in {0, 1, 2, 4} /\ (mem.hasSymbol => size = 4)
    <3> HIDE DEF mem
    <3> QED
      BY <2>2
  <2>4. IsBytes(head) /\ Len(head) >= 1
    <3> DEFINE one == X86!ModRM(X86!Mod(mem), reg, rm)
               two == IF rm = 4 THEN X86!Sib(rm) ELSE <<>>
               rel == X86!ModRM(0, reg, 5)
    <3>1. IsBytes(one) /\ Len(one) = 1 /\ IsBytes(rel) /\ Len(rel) = 1
      BY SmallParts
    <3>2. IsBytes(two)
      BY SmallParts, NoByte
    <3>3. head \in {rel, one \o two}
      OBVIOUS
    <3> HIDE DEF one, two, rel, head
    <3>4. /\ IsBytes(one \o two) /\ Len(one \o two) = Len(one) + Len(two)
          /\ Len(two) \in Nat
      BY <3>1, <3>2, BytesAdd, Zenon
    <3>5. Len(one \o two) >= 1
      BY <3>1, <3>4
    <3>6. CASE head = rel
      BY <3>1, <3>6
    <3>7. CASE head = one \o two
      BY <3>4, <3>5, <3>7, Zenon
    <3> QED
      BY <3>3, <3>6, <3>7
  <2> HIDE DEF mem, head, size
  <2> QED
    BY <2>1, <2>3, <2>4
<1> QED
  BY <1>1, <1>2

(* An instruction with such an operand.                                    *)
LEMMA WithRmCovers ==
  ASSUME NEW opcodes, NEW reg, NEW operand, NEW after,
         IsBytes(opcodes), IsBytes(after)
  PROVE  Covered(X86!WithRm(opcodes, reg, operand, after))
<1> DEFINE rm == X86!RmBytes(reg, operand)
           all == X86!WithRm(opcodes, reg, operand, after)
<1>1. PICK head, size, v :
        /\ IsBytes(head) /\ Len(head) >= 1 /\ size \in {0, 1, 2, 4}
        /\ rm.bytes = head \o X86!Field(size, v)
        /\ rm.hasReloc => size = 4 /\ rm.offset = Len(head)
  BY OperandBytes
<1>2. all = [ok |-> TRUE, bytes |-> opcodes \o rm.bytes \o after,
             usesSymbol |-> rm.hasReloc,
             offset |-> IF rm.hasReloc THEN Len(opcodes) + rm.offset ELSE 0]
  BY DEF X86!WithRm
<1> HIDE DEF rm, all
<1> DEFINE f == X86!Field(size, v)
           front == opcodes \o head
<1>3. IsBytes(f) /\ Len(f) \in Nat
  <2>1. size \in Nat
    BY <1>1
  <2> QED
    BY <1>1, <2>1, FieldParts
<1>4. IsBytes(front) /\ Len(front) = Len(opcodes) + Len(head)
      /\ Len(opcodes) \in Nat /\ Len(head) \in Nat
  BY <1>1, BytesJoin
<1>5. opcodes \o (head \o f) \o after = front \o f \o after
  <2>1. PICK A : opcodes \in Seq(A)
    BY DEF IsBytes
  <2>2. PICK B : head \in Seq(B)
    BY <1>1 DEF IsBytes
  <2>3. PICK C : f \in Seq(C)
    BY <1>3 DEF IsBytes
  <2> DEFINE U == A \cup B \cup C
  <2>4. opcodes \in Seq(U) /\ head \in Seq(U) /\ f \in Seq(U)
    BY <2>1, <2>2, <2>3
  <2> HIDE DEF U, f
  <2>5. opcodes \o (head \o f) = (opcodes \o head) \o f
    BY <2>4, ConcatAssociative
  <2> QED
    BY <2>5
<1> DEFINE whole == front \o f \o after
<1>6. IsBytes(whole) /\ Len(whole) >= 1
  <2> HIDE DEF f, front, whole
  <2>1. IsBytes(front \o f) /\ Len(front \o f) = Len(front) + Len(f)
    BY <1>3, <1>4, BytesJoin
  <2>2. /\ IsBytes((front \o f) \o after) /\ Len(after) \in Nat
        /\ Len((front \o f) \o after) = Len(front \o f) + Len(after)
    BY <2>1, BytesJoin
  <2> QED
    BY <1>1, <1>3, <1>4, <2>1, <2>2 DEF whole
<1>7. ASSUME rm.hasReloc
      PROVE  X86!IsField(whole, Len(opcodes) + rm.offset + 1, 4)
  <2>1. size = 4 /\ size \in Nat
    BY <1>1, <1>7
  <2>2. X86!IsField(whole, Len(front) + 1, size)
    <3> HIDE DEF front
    <3> QED
      BY <1>4, <2>1, FieldWithin
  <2>3. Len(front) + 1 = Len(opcodes) + rm.offset + 1
    <3> HIDE DEF front
    <3> QED
      BY <1>1, <1>4, <1>7
  <2> HIDE DEF whole
  <2> QED
    BY <2>1, <2>2, <2>3
<1>8. all.bytes = whole /\ all.usesSymbol = rm.hasReloc
      /\ (rm.hasReloc => all.offset = Len(opcodes) + rm.offset)
  <2>1. all.bytes = opcodes \o (head \o f) \o after
    BY <1>1, <1>2
  <2> HIDE DEF whole, f
  <2> QED
    BY <1>2, <1>5, <2>1 DEF whole
<1> HIDE DEF whole, f, front
<1>9. ASSUME all.usesSymbol
      PROVE  X86!IsField(all.bytes, all.offset + 1, 4)
  <2>1. rm.hasReloc
    BY <1>8, <1>9, Zenon
  <2> QED
    BY <1>7, <1>8, <2>1
<1>10. Covered(all)
  BY <1>6, <1>8, <1>9 DEF Covered
<1> QED
  BY <1>10 DEF all

(* What a chain of parts is: some bytes if one of its parts is.            *)
Some(s) == IsBytes(s) /\ Len(s) >= 1

Sound(r) == r.ok => Covered(r)

LEMMA PartsCompose ==
  /\ \A s, t : IsBytes(s) /\ IsBytes(t) => IsBytes(s \o t)
  /\ \A s, t : Some(s) /\ IsBytes(t) => Some(s \o t)
  /\ \A s, t : IsBytes(s) /\ Some(t) => Some(s \o t)
  /\ \A s : Some(s) => IsBytes(s)
  /\ IsBytes(<<>>)
<1>1. \A s, t : IsBytes(s) /\ IsBytes(t) => IsBytes(s \o t)
  BY BytesAdd
<1>2. \A s, t : Some(s) /\ IsBytes(t) => Some(s \o t)
  BY BytesAdd DEF Some
<1>3. \A s, t : IsBytes(s) /\ Some(t) => Some(s \o t)
  BY BytesAdd DEF Some
<1> QED
  BY <1>1, <1>2, <1>3, NoByte DEF Some

LEMMA Parts ==
  /\ \A v : Some(X86!Op(v))
  /\ \A w, r, b : IsBytes(X86!Rex(w, r, b))
  /\ \A w, r, o : IsBytes(X86!RexRm(w, r, o))
  /\ \A m, r, b : Some(X86!ModRM(m, r, b))
  /\ \A w : IsBytes(X86!OperandSize(w))
  /\ \A n \in Nat : \A v : IsBytes(X86!Field(n, v))
BY SmallParts, FieldParts DEF Some

LEMMA RefusedSound == Sound(X86!Refused)
BY DEF Sound, X86!Refused

LEMMA PlainSound ==
  ASSUME NEW bytes, Some(bytes)
  PROVE  Sound(X86!Plain(bytes))
BY DEF Sound, Covered, Some, X86!Plain

LEMMA WithRmSound ==
  ASSUME NEW opcodes, NEW reg, NEW operand, NEW after,
         IsBytes(opcodes), IsBytes(after)
  PROVE  Sound(X86!WithRm(opcodes, reg, operand, after))
BY WithRmCovers DEF Sound

(* A branch: the field follows the opcode.                                 *)
LEMMA ToLabelSound ==
  ASSUME NEW opcode, Some(opcode)
  PROVE  Sound(X86!ToLabel(opcode))
<1> DEFINE f == X86!Field(4, 0)
           all == opcode \o f
<1>1. IsBytes(f)
  <2>1. 4 \in Nat
    OBVIOUS
  <2> HIDE DEF f
  <2> QED
    BY <2>1, Parts DEF f
<1>2. all \o << >> = all
  <2>1. IsBytes(all)
    BY <1>1, PartsCompose
  <2>2. PICK S : all \in Seq(S)
    BY <2>1 DEF IsBytes
  <2> HIDE DEF all
  <2> QED
    BY <2>2
<1>3. X86!IsField(all, Len(opcode) + 1, 4)
  <2>1. 4 \in Nat /\ IsBytes(opcode) /\ IsBytes(<< >>)
    BY PartsCompose
  <2>2. X86!IsField(all \o << >>, Len(opcode) + 1, 4)
    BY <2>1, FieldWithin
  <2> HIDE DEF all
  <2> QED
    BY <1>2, <2>2
<1>4. Some(all)
  BY <1>1, PartsCompose
<1> HIDE DEF f
<1>5. X86!ToLabel(opcode) = [ok |-> TRUE, bytes |-> all, usesSymbol |-> TRUE,
                             offset |-> Len(opcode)]
  BY DEF X86!ToLabel, f
<1> HIDE DEF all
<1> QED
  BY <1>3, <1>4, <1>5 DEF Sound, Covered, Some

-----------------------------------------------------------------------------
(* One lemma per encoding function.                                        *)
LEMMA MovSound == \A dst, src : Sound(X86!EncodeMov(dst, src))
<1> TAKE dst, src
<1>1. Sound(X86!MovImmediate(dst, src))
  <2> DEFINE reg == dst.reg
             f == X86!Field(reg.width \div 8, src.value)
  <2>1. CASE reg.width \in {16, 32, 64}
    <3>1. reg.width \div 8 \in Nat
      BY <2>1
    <3>2. IsBytes(f)
      BY <3>1, Parts
    <3> HIDE DEF f
    <3>3. Some(X86!OperandSize(reg.width)
                 \o X86!Rex(reg.width = 64, 0, reg.code)
                 \o X86!Op(\hB8 + (reg.code % 8)) \o f)
      BY <3>2, Parts, PartsCompose
    <3> QED
      BY <2>1, <3>3, PlainSound DEF X86!MovImmediate, f
  <2>2. CASE reg.width \notin {16, 32, 64}
    BY <2>2, RefusedSound DEF X86!MovImmediate
  <2> QED
    BY <2>1, <2>2
<1>2. Sound(X86!MovBetween(dst, src))
  BY Parts, PartsCompose, WithRmSound, RefusedSound DEF X86!MovBetween
<1> QED
  BY <1>1, <1>2, RefusedSound DEF X86!EncodeMov

LEMMA PushPopSound == \A m, o : Sound(X86!EncodePushPop(m, o))
BY Parts, PartsCompose, PlainSound, RefusedSound DEF X86!EncodePushPop

LEMMA BranchSound ==
  \A m \in {"call", "jmp", "jcc"} : \A c, o :
    Sound(X86!EncodeBranch(m, c, o))
<1> TAKE m \in {"call", "jmp", "jcc"}
<1> TAKE c, o
<1> DEFINE opcodes == X86!RexRm(TRUE, 0, o) \o X86!Op(\hFF)
           jump == X86!Op(\h0F) \o X86!Op(\h80 + X86!ConditionCode[c])
           call == X86!ToLabel(X86!Op(\hE8))
           jmp  == X86!ToLabel(X86!Op(\hE9))
           jcc  == X86!ToLabel(jump)
           rm   == X86!WithRm(opcodes, IF m = "call" THEN 2 ELSE 4, o, <<>>)
<1>1. Some(opcodes) /\ Some(jump)
  BY Parts, PartsCompose
<1> HIDE DEF opcodes, jump
<1>2. Sound(rm)
  BY <1>1, PartsCompose, WithRmSound
<1>3. Sound(call) /\ Sound(jmp) /\ Sound(jcc)
  BY <1>1, Parts, ToLabelSound
<1>4. X86!EncodeBranch(m, c, o) \in {X86!Refused, rm, call, jmp, jcc}
  BY ZenonT(40) DEF X86!EncodeBranch, opcodes, jump
<1> HIDE DEF rm, call, jmp, jcc
<1> QED
  BY <1>2, <1>3, <1>4, RefusedSound

LEMMA SetccSound == \A c, o : Sound(X86!EncodeSetcc(c, o))
BY Parts, PartsCompose, WithRmSound, RefusedSound DEF X86!EncodeSetcc

LEMMA LeaSound == \A d, s : Sound(X86!EncodeLea(d, s))
<1> TAKE d, s
<1> DEFINE w == TRUE
           opcodes == X86!RexRm(w, d.reg.code, s) \o X86!Op(\h8D)
           rm == X86!WithRm(opcodes, d.reg.code, s, <<>>)
<1>1. X86!EncodeLea(d, s) \in {X86!Refused, rm}
  BY DEF X86!EncodeLea
<1> HIDE DEF w
<1>2. IsBytes(opcodes)
  BY Parts, PartsCompose
<1> HIDE DEF opcodes
<1>3. Sound(rm)
  BY <1>2, PartsCompose, WithRmSound
<1> HIDE DEF rm
<1> QED
  BY <1>1, <1>3, RefusedSound

LEMMA BinarySound == \A m, d, s : Sound(X86!EncodeBinary(m, d, s))
<1> TAKE m, d, s
<1> DEFINE op      == X86!BinaryOp[m]
           w       == d.reg.width = 64
           short   == s.value \in X86!SignedField(1)
           opcodes == X86!RexRm(w, d.reg.code, s) \o X86!Op(op.opcode)
           size    == IF short THEN 1 ELSE 4
           f       == X86!Field(size, s.value)
           head    == X86!Rex(w, 0, d.reg.code)
                        \o X86!Op(IF short THEN \h83 ELSE \h81)
                        \o X86!ModRM(3, op.ext, d.reg.code)
           rm      == X86!WithRm(opcodes, d.reg.code, s, <<>>)
           plain   == X86!Plain(head \o f)
<1>1. X86!EncodeBinary(m, d, s) \in {X86!Refused, rm, plain}
  BY DEF X86!EncodeBinary
<1>2. Sound(rm)
  BY Parts, PartsCompose, WithRmSound
<1>3. Sound(plain)
  <2>1. size \in Nat
    OBVIOUS
  <2> HIDE DEF size
  <2>2. IsBytes(f)
    BY <2>1, Parts
  <2> HIDE DEF f
  <2>3. Some(head)
    BY Parts, PartsCompose
  <2> HIDE DEF head
  <2>4. Some(head \o f)
    BY <2>2, <2>3, PartsCompose
  <2> QED
    BY <2>4, PlainSound
<1> HIDE DEF rm, plain
<1> QED
  BY <1>1, <1>2, <1>3, RefusedSound

LEMMA ExtendSound == \A m, d, s : Sound(X86!EncodeExtend(m, d, s))
BY Parts, PartsCompose, WithRmSound, RefusedSound DEF X86!EncodeExtend

LEMMA ImulSound == \A d, s : Sound(X86!EncodeImul(d, s))
BY Parts, PartsCompose, WithRmSound, RefusedSound DEF X86!EncodeImul

LEMMA UnarySound == \A m, o : Sound(X86!EncodeUnary(m, o))
BY Parts, PartsCompose, WithRmSound, RefusedSound DEF X86!EncodeUnary

LEMMA ShiftSound == \A m, d, c : Sound(X86!EncodeShift(m, d, c))
<1> TAKE m, d, c
<1> DEFINE rex == X86!RexRm(X86!RmWidth(d) = 64, 0, d)
           Rm(opcode, after) ==
             X86!WithRm(rex \o X86!Op(opcode), X86!ShiftOp[m], d, after)
           Shift(opcode, after) ==
             [Rm(opcode, after) EXCEPT !.usesSymbol = FALSE, !.offset = 0]
           f == X86!Field(1, c.value)
<1>1. X86!EncodeShift(m, d, c) \in
        {X86!Refused, Shift(\hD1, <<>>), Shift(\hC1, f), Shift(\hD3, <<>>)}
  BY DEF X86!EncodeShift
<1>2. ASSUME NEW opcode, NEW after, IsBytes(after)
      PROVE  Sound(Shift(opcode, after))
  <2> DEFINE rm == Rm(opcode, after)
             opcodes == rex \o X86!Op(opcode)
  <2>1. IsBytes(opcodes)
    <3>1. IsBytes(rex) /\ IsBytes(X86!Op(opcode))
      BY Parts, PartsCompose
    <3> HIDE DEF rex
    <3> QED
      BY <3>1, PartsCompose
  <2>2. Covered(rm)
    <3> HIDE DEF opcodes
    <3>1. Covered(X86!WithRm(opcodes, X86!ShiftOp[m], d, after))
      BY <1>2, <2>1, WithRmCovers
    <3> QED
      BY <3>1 DEF opcodes
  <2>3. rm = [ok |-> rm.ok, bytes |-> rm.bytes, usesSymbol |-> rm.usesSymbol,
              offset |-> rm.offset]
    BY DEF X86!WithRm
  <2> HIDE DEF rm
  <2>4. /\ Shift(opcode, after).bytes = rm.bytes
        /\ Shift(opcode, after).usesSymbol = FALSE
    BY <2>3 DEF rm
  <2> HIDE DEF Shift
  <2> QED
    BY <2>2, <2>4 DEF Sound, Covered
<1>3. IsBytes(<<>>) /\ IsBytes(f)
  <2>1. 1 \in Nat
    OBVIOUS
  <2> QED
    BY <2>1, Parts, PartsCompose, Zenon
<1> HIDE DEF Shift, f
<1> QED
  BY <1>1, <1>2, <1>3, RefusedSound

LEMMA MovqSound == \A d, s : Sound(X86!EncodeMovq(d, s))
<1> TAKE d, s
<1> DEFINE Chain(opcode, xmm, gpr) ==
             X86!Op(\h66) \o X86!Rex(TRUE, xmm.reg.code, gpr.reg.code)
               \o X86!Op(\h0F) \o X86!Op(opcode)
               \o X86!ModRM(3, xmm.reg.code, gpr.reg.code)
           to   == X86!Plain(Chain(\h6E, d, s))
           from == X86!Plain(Chain(\h7E, s, d))
<1>1. X86!EncodeMovq(d, s) \in {X86!Refused, to, from}
  BY DEF X86!EncodeMovq
<1>2. \A opcode, xmm, gpr : Some(Chain(opcode, xmm, gpr))
  BY Parts, PartsCompose
<1> HIDE DEF Chain
<1>3. Sound(to) /\ Sound(from)
  BY <1>2, PlainSound
<1> HIDE DEF to, from
<1> QED
  BY <1>1, <1>3, RefusedSound

LEMMA MovdSound == \A d, s : Sound(X86!EncodeMovd(d, s))
<1> TAKE d, s
<1> DEFINE Chain(opcode, xmm, rm) ==
             X86!Op(\h66) \o X86!RexRm(FALSE, xmm.reg.code, rm)
               \o X86!Op(\h0F) \o X86!Op(opcode)
           to   == X86!WithRm(Chain(\h6E, d, s), d.reg.code, s, <<>>)
           from == X86!WithRm(Chain(\h7E, s, d), s.reg.code, d, <<>>)
<1>1. X86!EncodeMovd(d, s) \in {X86!Refused, to, from}
  BY DEF X86!EncodeMovd
<1>2. \A opcode, xmm, rm : IsBytes(Chain(opcode, xmm, rm))
  BY Parts, PartsCompose
<1> HIDE DEF Chain
<1>3. Sound(to) /\ Sound(from)
  BY <1>2, PartsCompose, WithRmSound
<1> HIDE DEF to, from
<1> QED
  BY <1>1, <1>3, RefusedSound

LEMMA ScalarSound ==
  \A p, w, o, d, s, after : IsBytes(after) =>
    Sound(X86!Scalar(p, w, o, d, s, after))
BY Parts, PartsCompose, WithRmSound DEF X86!Scalar

LEMMA CompareSound == \A m, d, s, p : Sound(X86!EncodeCompare(m, d, s, p))
<1> TAKE m, d, s, p
<1> DEFINE f == X86!Field(1, p.value)
           prefix == IF m = "cmpsd" THEN \hF2 ELSE \hF3
           w == FALSE
           scalar == X86!Scalar(prefix, w, \hC2, d, s, f)
<1>1. X86!EncodeCompare(m, d, s, p) \in {X86!Refused, scalar}
  BY DEF X86!EncodeCompare
<1>2. IsBytes(f)
  <2>1. 1 \in Nat
    OBVIOUS
  <2> QED
    BY <2>1, Parts, Zenon
<1> HIDE DEF f, w, prefix
<1>3. Sound(scalar)
  BY <1>2, ScalarSound
<1> HIDE DEF scalar
<1> QED
  BY <1>1, <1>3, RefusedSound

LEMMA ScalarBinarySound == \A m, d, s : Sound(X86!EncodeScalarBinary(m, d, s))
BY PartsCompose, ScalarSound, RefusedSound DEF X86!EncodeScalarBinary

LEMMA ConvertSound ==
  /\ \A m, d, s : Sound(X86!EncodeFromInteger(m, d, s))
  /\ \A d, s : Sound(X86!EncodeToDouble(d, s))
  /\ \A d, s : Sound(X86!EncodeToInteger(d, s))
<1>1. ASSUME NEW m, NEW d, NEW s
      PROVE  Sound(X86!EncodeFromInteger(m, d, s))
  <2> DEFINE w == X86!RmWidth(s) = 64
             prefix == IF m = "cvtsi2sd" THEN \hF2 ELSE \hF3
             scalar == X86!Scalar(prefix, w, \h2A, d, s, <<>>)
  <2>1. X86!EncodeFromInteger(m, d, s) \in {X86!Refused, scalar}
    BY DEF X86!EncodeFromInteger
  <2> HIDE DEF w, prefix
  <2>2. Sound(scalar)
    BY PartsCompose, ScalarSound
  <2> HIDE DEF scalar
  <2> QED
    BY <2>1, <2>2, RefusedSound
<1>2. ASSUME NEW d, NEW s
      PROVE  Sound(X86!EncodeToDouble(d, s))
  <2> DEFINE w == FALSE
             scalar == X86!Scalar(\hF3, w, \h5A, d, s, <<>>)
  <2>1. X86!EncodeToDouble(d, s) \in {X86!Refused, scalar}
    BY DEF X86!EncodeToDouble
  <2> HIDE DEF w
  <2>2. Sound(scalar)
    BY PartsCompose, ScalarSound
  <2> HIDE DEF scalar
  <2> QED
    BY <2>1, <2>2, RefusedSound
<1>3. ASSUME NEW d, NEW s
      PROVE  Sound(X86!EncodeToInteger(d, s))
  <2> DEFINE w == d.reg.width = 64
             scalar == X86!Scalar(\hF2, w, \h2C, d, s, <<>>)
  <2>1. X86!EncodeToInteger(d, s) \in {X86!Refused, scalar}
    BY DEF X86!EncodeToInteger
  <2> HIDE DEF w
  <2>2. Sound(scalar)
    BY PartsCompose, ScalarSound
  <2> HIDE DEF scalar
  <2> QED
    BY <2>1, <2>2, RefusedSound
<1> QED
  BY <1>1, <1>2, <1>3

-----------------------------------------------------------------------------
(* What is accepted is sound and fits the encoding's buffer.               *)
EncodingInv ==
  x86State = "accepted" =>
    Covered(x86Encoded) /\ Len(x86Encoded.bytes) <= EncodedBytes

(* One lemma per action.                                                   *)
LEMMA ReturnSound ==
  ASSUME NEW result, Sound(result), X86!Return(result)
  PROVE  EncodingInv'
<1>1. CASE result.ok /\ Len(result.bytes) <= EncodedBytes
  <2>1. x86Encoded' = result
    BY <1>1 DEF X86!Return
  <2>2. Covered(result)
    BY <1>1 DEF Sound
  <2> QED
    BY <1>1, <2>1, <2>2 DEF EncodingInv, Covered
<1>2. CASE ~(result.ok /\ Len(result.bytes) <= EncodedBytes)
  <2>1. x86State' = "refused"
    BY <1>2 DEF X86!Return
  <2> QED
    BY <2>1 DEF EncodingInv
<1> QED
  BY <1>1, <1>2

LEMMA FixedSound ==
  ASSUME X86!Fixed
  PROVE  EncodingInv'
<1> DEFINE bytes == CASE X86!Mnemonic = "ret"   -> X86!Op(\hC3)
                      [] X86!Mnemonic = "leave" -> X86!Op(\hC9)
                      [] X86!Mnemonic = "cqo"   ->
                           X86!Rex(TRUE, 0, 0) \o X86!Op(\h99)
<1>1. X86!Mnemonic \in {"ret", "cqo", "leave"} /\ X86!Return(X86!Plain(bytes))
  BY DEF X86!Fixed, X86!Begins
<1>2. Some(bytes)
  <2> DEFINE w == TRUE
             two == X86!Rex(w, 0, 0) \o X86!Op(\h99)
  <2>1. CASE X86!Mnemonic = "ret"
    <3>1. bytes = X86!Op(\hC3)
      BY <2>1
    <3> QED
      BY <3>1, Parts
  <2>2. CASE X86!Mnemonic = "leave"
    <3>1. bytes = X86!Op(\hC9)
      BY <2>2
    <3> QED
      BY <3>1, Parts
  <2>3. CASE X86!Mnemonic = "cqo"
    <3>1. bytes = two
      BY <2>3
    <3> HIDE DEF w, bytes
    <3> QED
      BY <3>1, Parts, PartsCompose
  <2> HIDE DEF bytes
  <2> QED
    BY <1>1, <2>1, <2>2, <2>3
<1> HIDE DEF bytes
<1>3. Sound(X86!Plain(bytes))
  BY <1>2, PlainSound
<1> QED
  BY <1>1, <1>3, ReturnSound

LEMMA ConvertStep ==
  ASSUME X86!Convert
  PROVE  EncodingInv'
<1> DEFINE a == X86!Operand(1)
           b == X86!Operand(2)
           result ==
             CASE X86!Mnemonic = "cvtss2sd"  -> X86!EncodeToDouble(a, b)
               [] X86!Mnemonic = "cvttsd2si" -> X86!EncodeToInteger(a, b)
               [] OTHER -> X86!EncodeFromInteger(X86!Mnemonic, a, b)
<1>1. X86!Return(result)
  BY DEF X86!Convert
<1>2. result \in {X86!EncodeToDouble(a, b), X86!EncodeToInteger(a, b),
                  X86!EncodeFromInteger(X86!Mnemonic, a, b)}
  OBVIOUS
<1> HIDE DEF result
<1>3. Sound(result)
  BY <1>2, ConvertSound
<1> QED
  BY <1>1, <1>3, ReturnSound

LEMMA EncodingStep ==
  ASSUME X86!Next
  PROVE  EncodingInv'
<1>1. CASE X86!BadOperand
  BY <1>1, RefusedSound, ReturnSound DEF X86!BadOperand
<1>2. CASE X86!Fixed
  BY <1>2, FixedSound
<1>3. CASE X86!PushPop
  BY <1>3, PushPopSound, ReturnSound DEF X86!PushPop
<1>4. CASE X86!Branch
  BY <1>4, BranchSound, ReturnSound DEF X86!Branch, X86!Begins
<1>5. CASE X86!Setcc
  BY <1>5, SetccSound, ReturnSound DEF X86!Setcc
<1>6. CASE X86!Lea
  BY <1>6, LeaSound, ReturnSound DEF X86!Lea
<1>7. CASE X86!Mov
  BY <1>7, MovSound, ReturnSound DEF X86!Mov
<1>8. CASE X86!Movq
  BY <1>8, MovqSound, ReturnSound DEF X86!Movq
<1>9. CASE X86!Movd
  BY <1>9, MovdSound, ReturnSound DEF X86!Movd
<1>10. CASE X86!Compare
  BY <1>10, CompareSound, RefusedSound, ReturnSound DEF X86!Compare
<1>11. CASE X86!ScalarBinary
  BY <1>11, ScalarBinarySound, ReturnSound DEF X86!ScalarBinary
<1>12. CASE X86!Convert
  BY <1>12, ConvertStep
<1>13. CASE X86!Extend
  BY <1>13, ExtendSound, ReturnSound DEF X86!Extend
<1>14. CASE X86!Imul
  BY <1>14, ImulSound, ReturnSound DEF X86!Imul
<1>15. CASE X86!Unary
  BY <1>15, UnarySound, ReturnSound DEF X86!Unary
<1>16. CASE X86!Binary
  BY <1>16, BinarySound, ReturnSound DEF X86!Binary
<1>17. CASE X86!Shift
  BY <1>17, ShiftSound, ReturnSound DEF X86!Shift
<1>18. CASE X86!Unknown
  BY <1>18, RefusedSound, ReturnSound DEF X86!Unknown
<1> QED
  BY <1>1, <1>2, <1>3, <1>4, <1>5, <1>6, <1>7, <1>8, <1>9, <1>10, <1>11,
     <1>12, <1>13, <1>14, <1>15, <1>16, <1>17, <1>18 DEF X86!Next

(* Whatever the x86_64 encoder accepts, for every instruction and every    *)
(* operand, fits the slot of the assembler, and its relocation covers one  *)
(* whole field of four bytes: what chs_assemble_file relies on, and what   *)
(* IsSource says of an encoding (ChsEncodedInstruction holds 16 bytes).    *)
THEOREM EncodingsFitTheirSlot ==
  ASSUME EncodedBytes = 16
  PROVE  X86!Spec => []X86!RelocationCoversField
<1>1. X86!Init => EncodingInv
  BY DEF X86!Init, EncodingInv
<1>2. EncodingInv /\ [X86!Next]_(X86!vars) => EncodingInv'
  <2>1. EncodingInv /\ UNCHANGED X86!vars => EncodingInv'
    BY DEF EncodingInv, Covered, X86!vars, X86!IsField
  <2> QED
    BY <2>1, EncodingStep
<1>3. EncodingInv => X86!RelocationCoversField
  <2> SUFFICES ASSUME EncodingInv, x86State = "accepted"
               PROVE  /\ Len(x86Encoded.bytes) \in 1 .. 16
                      /\ x86Encoded.usesSymbol =>
                           X86!IsField(x86Encoded.bytes,
                                       x86Encoded.offset + 1, 4)
    BY DEF X86!RelocationCoversField
  <2>1. Covered(x86Encoded)
    BY DEF EncodingInv
  <2>2. IsBytes(x86Encoded.bytes) /\ Len(x86Encoded.bytes) >= 1
    BY <2>1, Zenon DEF Covered
  <2>3. x86Encoded.usesSymbol =>
          X86!IsField(x86Encoded.bytes, x86Encoded.offset + 1, 4)
    BY <2>1, Zenon DEF Covered
  <2>4. Len(x86Encoded.bytes) <= 16
    BY DEF EncodingInv
  <2>5. Len(x86Encoded.bytes) \in Nat
    BY <2>2 DEF IsBytes
  <2>6. Len(x86Encoded.bytes) \in 1 .. 16
    <3> DEFINE n == Len(x86Encoded.bytes)
    <3>1. n \in Nat /\ n >= 1 /\ n <= 16
      BY <2>2, <2>4, <2>5
    <3> HIDE DEF n
    <3>2. n \in 1 .. 16
      BY <3>1
    <3> QED
      BY <3>2 DEF n
  <2> QED
    BY <2>3, <2>6, Zenon
<1> QED
  BY <1>1, <1>2, <1>3, PTL DEF X86!Spec
=============================================================================
