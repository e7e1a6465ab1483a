----------------------------- MODULE ChsAssembler ----------------------------
(***************************************************************************)
(* The generic two-pass assembler (chs_assemble_file and                   *)
(* chs_handle_directive of src/assembler.c) for the arm64 and x86_64       *)
(* targets.  Pass one reads the source statement by statement, lays out    *)
(* the sections, defines the labels and reserves one fixed-size slot per   *)
(* instruction; pass two encodes every instruction into its slot against   *)
(* the finished symbol table; then the object is handed to a writer.       *)
(***************************************************************************)
EXTENDS ChsObject

CONSTANTS
  Arch,        \* "arm64" or "x86_64"
  Programs,    \* the source files, as sequences of statements
  Hidden,      \* names starting with L, which the writers leave out
  Imm26Span,   \* number of values of a b/bl displacement field (2^26)
  Imm19Span    \* number of values of a b.cond/cbz field (2^19)

(* Instructions by how their operands refer to a symbol.                   *)
Arm64Forms == {"plain", "b", "b.cond", "adrp", "pageoff", "invalid"}
X86Forms   == {"plain", "rel32", "rip", "invalid"}

(* Statements: a source line is its labels followed by at most one         *)
(* directive or instruction, and a .quad with several items is several     *)
(* statements.  "ignored" directives have no effect; "unsupported" ones    *)
(* are unknown or malformed.  Data is appended in small pieces, but for    *)
(* the zeros of .zero and .space, which are one run.  An instruction       *)
(* carries what encoding it yields: its size and where its relocated field *)
(* starts.                                                                 *)
Statement ==
  [op : {"label", "globl", "extern", "quad"}, name : Names]
    \cup [op : {"section"}, section : SectionNames]
    \cup [op : {"align"}, alignment : Alignments]
    \cup [op : {"data"}, size : 0 .. SizeWord - 1, run : BOOLEAN]
    \cup [op : {"ignored", "unsupported"}]
    \cup [op : {"instruction"}, form : Arm64Forms \cup X86Forms,
          target : Names, size : 1 .. 16, at : Nat]

(* instruction_slot_size of the architecture's ChsArchOps.                 *)
SlotSize == IF Arch = "arm64" THEN 4 ELSE 16

ASSUME ArchAssumption == Arch \in {"arm64", "x86_64"}
ASSUME SpanAssumption ==
  \A span \in {Imm26Span, Imm19Span} : span \in Nat \ {0} /\ span % 2 = 0
ASSUME NameAssumption == Hidden \subseteq Names /\ "nowhere" \notin SectionNames

(* A parsed source file.  Encodings fit the slot, and the relocated 32-bit  *)
(* field lies within the encoding.                                         *)
IsSource(src) ==
  /\ src \in Seq(Statement)
  /\ \A k \in DOMAIN src :
       src[k].op = "instruction" =>
         IF Arch = "arm64"
         THEN src[k].form \in Arm64Forms /\ src[k].size = 4 /\ src[k].at = 0
         ELSE /\ src[k].form \in X86Forms
              /\ src[k].form \in {"rel32", "rip"} =>
                   src[k].at + 4 <= src[k].size

ASSUME ProgramAssumption == \A src \in Programs : IsSource(src)

VARIABLES
  source,     \* the statements of the input file
  phase,      \* "pass1", "pass2", "emit", "done" or "failed"; "growing" in
              \* a loop that never ends, "killed" by the operating system
  cursor,     \* next statement of pass one
  current,    \* current_section_index
  sections,   \* object.sections
  symbols,    \* object.symbols
  pending,    \* the pending instruction list
  next,       \* next pending instruction of pass two
  output      \* the output file: "untouched", "partial" or "written"

vars == <<source, phase, cursor, current, sections, symbols, pending, next,
          output>>

Pending == [section : Nat, offset : Nat, line : Nat]

TypeOK ==
  /\ IsSource(source)
  /\ phase \in {"pass1", "pass2", "emit", "done", "failed", "growing",
                "killed"}
  /\ cursor \in Nat \ {0}
  /\ current \in 0 .. Len(sections)
  /\ sections \in Seq(Section)
  /\ symbols \in Seq(Symbol)
  /\ pending \in Seq(Pending)
  /\ next \in Nat \ {0}
  /\ output \in {"untouched", "partial", "written"}

Init ==
  /\ source \in Programs
  /\ phase = "pass1"
  /\ cursor = 1
  /\ current = None
  /\ sections = << >>
  /\ symbols = << >>
  /\ pending = << >>
  /\ next = 1
  /\ output = "untouched"

-----------------------------------------------------------------------------
(* Pass one.                                                               *)

NeedsSection == {"label", "align", "data", "quad", "instruction"}

(* The statement under the cursor is of that kind, and has the section it  *)
(* needs to go into.                                                       *)
Reading(op) ==
  /\ phase = "pass1"
  /\ cursor <= Len(source)
  /\ source[cursor].op = op
  /\ op \in NeedsSection => current # None

Here == sections[current]

Written(kind) == [by |-> cursor, is |-> kind, imm |-> 0]

(* Wrong variant: the first definition of a name stays.                    *)
DefinedOnce(symbol, section, value) ==
  IF symbol.defined THEN symbol
  ELSE [symbol EXCEPT !.defined = TRUE, !.section = section, !.value = value]

(* A label takes the size its section has at this point; a second          *)
(* definition of the name replaces the first.                              *)
Defined(symbol, section, value) ==
  [symbol EXCEPT !.defined = TRUE, !.section = section, !.value = value]

DefineLabel ==
  /\ Reading("label")
  /\ LET got == GetOrCreateSymbol(symbols, source[cursor].name)
     IN  symbols' = [got.table EXCEPT
           ![got.index] = Defined(got.table[got.index], current, Len(Here.data))]
  /\ cursor' = cursor + 1
  /\ UNCHANGED <<source, phase, current, sections, pending, next, output>>

SelectSection ==
  /\ Reading("section")
  /\ LET got == GetOrCreateSection(sections, source[cursor].section)
     IN  sections' = got.table /\ current' = got.index
  /\ cursor' = cursor + 1
  /\ UNCHANGED <<source, phase, symbols, pending, next, output>>

DeclareGlobal ==
  /\ Reading("globl")
  /\ LET got == GetOrCreateSymbol(symbols, source[cursor].name)
     IN  symbols' = [got.table EXCEPT
           ![got.index] = [got.table[got.index] EXCEPT !.global = TRUE]]
  /\ cursor' = cursor + 1
  /\ UNCHANGED <<source, phase, current, sections, pending, next, output>>

DeclareExtern ==
  /\ Reading("extern")
  /\ LET got == GetOrCreateSymbol(symbols, source[cursor].name)
     IN  symbols' = [got.table EXCEPT
           ![got.index] = [got.table[got.index] EXCEPT !.global = TRUE,
                                                       !.external = TRUE]]
  /\ cursor' = cursor + 1
  /\ UNCHANGED <<source, phase, current, sections, pending, next, output>>

Align ==
  /\ Reading("align")
  /\ Fits(Here, Padding(Here, source[cursor].alignment))
  /\ sections' = [sections EXCEPT ![current] =
                    AlignSection(Here, source[cursor].alignment, Written("zero"))]
  /\ cursor' = cursor + 1
  /\ UNCHANGED <<source, phase, current, symbols, pending, next, output>>

(* .byte, .short, .long, numeric .quad, .zero/.space, .ascii and kin.      *)
AppendData ==
  /\ Reading("data")
  /\ Fits(Here, source[cursor].size)
  /\ sections' = [sections EXCEPT ![current] =
                    AppendBytes(Here, source[cursor].size, Written("data"))]
  /\ cursor' = cursor + 1
  /\ UNCHANGED <<source, phase, current, symbols, pending, next, output>>

(* .quad name: eight zero bytes and an absolute relocation against name,   *)
(* whether or not the name is defined already.                             *)
AppendQuad ==
  /\ Reading("quad")
  /\ Fits(Here, 8)
  /\ LET got == GetOrCreateSymbol(symbols, source[cursor].name)
     IN  /\ symbols' = got.table
         /\ sections' = [sections EXCEPT ![current] =
              AddRelocation(AppendBytes(Here, 8, Written("data")),
                            Len(Here.data), "ABS64", got.index)]
  /\ cursor' = cursor + 1
  /\ UNCHANGED <<source, phase, current, pending, next, output>>

ReserveSlot ==
  /\ Reading("instruction")
  /\ Fits(Here, SlotSize)
  /\ pending' = Append(pending, [section |-> current,
                                 offset  |-> Len(Here.data),
                                 line    |-> cursor])
  /\ sections' = [sections EXCEPT ![current] =
                    AppendBytes(Here, SlotSize, Written("zero"))]
  /\ cursor' = cursor + 1
  /\ UNCHANGED <<source, phase, current, symbols, next, output>>

(* .file, .loc, .cfi_*, .type, .size, ...                                  *)
SkipDirective ==
  /\ Reading("ignored")
  /\ cursor' = cursor + 1
  /\ UNCHANGED <<source, phase, current, sections, symbols, pending, next,
                 output>>

(* Wrong variant: pass one waits for a statement after the last.           *)
EndPassOneLate ==
  /\ phase = "pass1"
  /\ cursor > Len(source) + 1
  /\ phase' = "pass2"
  /\ UNCHANGED <<source, cursor, current, sections, symbols, pending, next,
                 output>>

EndPassOne ==
  /\ phase = "pass1"
  /\ cursor > Len(source)
  /\ phase' = "pass2"
  /\ UNCHANGED <<source, cursor, current, sections, symbols, pending, next,
                 output>>

Stop(end) ==
  /\ phase' = end
  /\ UNCHANGED <<source, cursor, current, sections, symbols, pending, next,
                 output>>

Fail == Stop("failed")

(* A label, data or an instruction before any section, or a directive the  *)
(* assembler does not know.                                                *)
RejectStatement ==
  /\ phase = "pass1"
  /\ cursor <= Len(source)
  /\ \/ source[cursor].op \in NeedsSection /\ current = None
     \/ source[cursor].op = "unsupported"
  /\ Fail

(* The section cannot grow by what the statement needs.                    *)
Demand(st) ==
  CASE st.op = "align"       -> Padding(Here, st.alignment)
    [] st.op = "data"        -> st.size
    [] st.op = "quad"        -> 8
    [] st.op = "instruction" -> SlotSize

Exhausting ==
  /\ \E op \in {"align", "data", "quad", "instruction"} : Reading(op)
  /\ ~Fits(Here, Demand(source[cursor]))

(* Zeros that chs_section_append_zeros appends in one go.                  *)
AppendsZeros(st) ==
  \/ st.op \in {"align", "instruction"}
  \/ st.op = "data" /\ st.run

(* The capacity is doubled without end, or bytes behind the section are    *)
(* cleared until the process dies; everything else is an error.            *)
GrowForever ==
  /\ Exhausting
  /\ AppendsZeros(source[cursor])
  /\ DoublesForever(Here, Demand(source[cursor]))
  /\ Stop("growing")

OverrunSection ==
  /\ Exhausting
  /\ AppendsZeros(source[cursor])
  /\ Overruns(Here, Demand(source[cursor]))
  /\ Stop("killed")

ExhaustSection ==
  /\ Exhausting
  /\ AppendsZeros(source[cursor]) =>
       /\ ~DoublesForever(Here, Demand(source[cursor]))
       /\ ~Overruns(Here, Demand(source[cursor]))
  /\ Fail

-----------------------------------------------------------------------------
(* Pass two.                                                               *)

(* chs_arm64_find_defined_symbol: the target is a label of this section.   *)
InSection(name, section) ==
  LET i == Find(symbols, name)
  IN  i # None /\ symbols[i].defined /\ symbols[i].section = section

(* Wrong variant: the widths of the two fields mixed up.                   *)
SwappedField(form, delta) ==
  (delta \div 4) % (IF form = "b" THEN Imm19Span ELSE Imm26Span)

(* The displacement field of an arm64 branch: words, wrapped to the field. *)
BranchField(form, delta) ==
  (delta \div 4) % (IF form = "b" THEN Imm26Span ELSE Imm19Span)

(* Wrong variant: the distance counted from the next instruction.          *)
DisplacementFromNext(st, p) ==
  IF st.form \in {"b", "b.cond"} /\ InSection(st.target, p.section)
  THEN BranchField(st.form, symbols[Find(symbols, st.target)].value
                              - (p.offset + SlotSize))
  ELSE 0

(* The displacement the encoder puts into the instruction.                 *)
Displacement(st, p) ==
  IF st.form \in {"b", "b.cond"} /\ InSection(st.target, p.section)
  THEN BranchField(st.form,
                   symbols[Find(symbols, st.target)].value - p.offset)
  ELSE 0

UsesSymbol(st, section) ==
  \/ st.form \in {"adrp", "pageoff", "rel32", "rip"}
  \/ st.form = "b" /\ ~InSection(st.target, section)

KindOf(form) ==
  CASE form = "b"       -> "BRANCH26"
    [] form = "adrp"    -> "PAGE21"
    [] form = "pageoff" -> "PAGEOFF12"
    [] form = "rel32"   -> "BRANCH32"
    [] OTHER            -> "SIGNED32"

Encodable(st, section) ==
  /\ st.form # "invalid"
  /\ st.form = "b.cond" => InSection(st.target, section)
  /\ st.size <= SlotSize

(* Where in its section the relocated field of an instruction starts; and  *)
(* a wrong variant that takes its end.                                     *)
FieldEnd(p, st) == p.offset + st.size
FieldOffset(p, st) == p.offset + st.at

(* Wrong variant: a whole slot of fill behind the instruction.             *)
PatchedPastSlot(data, p, st) ==
  [i \in 1 .. Len(data) |->
     IF i \in p.offset + 1 .. p.offset + st.size
     THEN [by |-> p.line, is |-> "code", imm |-> Displacement(st, p)]
     ELSE IF i \in p.offset + st.size + 1 .. p.offset + st.size + SlotSize
          THEN [by |-> p.line, is |-> "fill", imm |-> 0]
          ELSE data[i]]

(* The instruction's bytes, and the rest of the slot filled.               *)
Patched(data, p, st) ==
  [i \in 1 .. Len(data) |->
     IF i \in p.offset + 1 .. p.offset + st.size
     THEN [by |-> p.line, is |-> "code", imm |-> Displacement(st, p)]
     ELSE IF i \in p.offset + st.size + 1 .. p.offset + SlotSize
          THEN [by |-> p.line, is |-> "fill", imm |-> 0]
          ELSE data[i]]

(* Wrong variant: the encoding appended to the section.                    *)
AppendedSection(p, st) ==
  [sections[p.section] EXCEPT !.data =
     Extended(sections[p.section].data, st.size,
              [by |-> p.line, is |-> "code", imm |-> Displacement(st, p)])]

PatchedSection(p, st) ==
  [sections[p.section] EXCEPT !.data = Patched(sections[p.section].data, p, st)]

EncodeInstruction ==
  /\ phase = "pass2"
  /\ next <= Len(pending)
  /\ LET p  == pending[next]
         st == source[p.line]
     IN  /\ Encodable(st, p.section)
         /\ IF UsesSymbol(st, p.section)
            THEN LET got == GetOrCreateSymbol(symbols, st.target)
                 IN  /\ symbols' = got.table
                     /\ sections' = [sections EXCEPT ![p.section] =
                          AddRelocation(PatchedSection(p, st),
                                        FieldOffset(p, st), KindOf(st.form),
                                        got.index)]
            ELSE /\ sections' = [sections EXCEPT ![p.section] =
                                   PatchedSection(p, st)]
                 /\ UNCHANGED symbols
  /\ next' = next + 1
  /\ UNCHANGED <<source, phase, cursor, current, pending, output>>

(* The encoder refuses the instruction, or its bytes exceed the slot.      *)
RejectInstruction ==
  /\ phase = "pass2"
  /\ next <= Len(pending)
  /\ ~Encodable(source[pending[next].line], pending[next].section)
  /\ Fail

(* Wrong variant: pass two stops before the last instruction.              *)
EndPassTwoEarly ==
  /\ phase = "pass2"
  /\ next >= Len(pending)
  /\ phase' = "emit"
  /\ UNCHANGED <<source, cursor, current, sections, symbols, pending, next,
                 output>>

EndPassTwo ==
  /\ phase = "pass2"
  /\ next > Len(pending)
  /\ phase' = "emit"
  /\ UNCHANGED <<source, cursor, current, sections, symbols, pending, next,
                 output>>

-----------------------------------------------------------------------------
(* Emission.  The writers refuse relocations against symbols they hide.    *)

HiddenRelocation ==
  \E s \in DOMAIN sections :
    \E r \in DOMAIN sections[s].relocations :
      symbols[sections[s].relocations[r].symbol].name \in Hidden

EmitOutput ==
  /\ phase = "emit"
  /\ ~HiddenRelocation
  /\ output' = "written"
  /\ phase' = "done"
  /\ UNCHANGED <<source, cursor, current, sections, symbols, pending, next>>

RejectHidden ==
  /\ phase = "emit"
  /\ HiddenRelocation
  /\ Fail

(* fopen fails and the file stays as it was, or fwrite comes up short      *)
(* after fopen truncated the file.  What only fclose fails to write goes   *)
(* unnoticed: its result is ignored.                                       *)
WriteFails ==
  /\ phase = "emit"
  /\ ~HiddenRelocation
  /\ \/ output' \in {"untouched", "partial"} /\ phase' = "failed"
     \/ output' = "partial" /\ phase' = "done"
  /\ UNCHANGED <<source, cursor, current, sections, symbols, pending, next>>

(* Any allocation on the way may fail.                                     *)
OutOfMemory ==
  /\ phase \in {"pass1", "pass2", "emit"}
  /\ Fail

KeepGrowing ==
  /\ phase = "growing"
  /\ UNCHANGED vars

Terminated ==
  /\ phase \in {"done", "failed", "killed"}
  /\ UNCHANGED vars

(* Every step the program takes when neither an allocation nor the output  *)
(* file lets it down.                                                      *)
Progress ==
  \/ DefineLabel \/ SelectSection \/ DeclareGlobal \/ DeclareExtern
  \/ Align \/ AppendData \/ AppendQuad \/ ReserveSlot \/ SkipDirective
  \/ RejectStatement \/ GrowForever \/ OverrunSection \/ ExhaustSection
  \/ EndPassOne
  \/ EncodeInstruction \/ RejectInstruction \/ EndPassTwo
  \/ EmitOutput \/ RejectHidden

Next == Progress \/ WriteFails \/ OutOfMemory \/ KeepGrowing \/ Terminated

Spec == Init /\ [][Next]_vars

(* A sequential process that nothing blocks keeps going.                   *)
FairSpec == Spec /\ WF_vars(Progress)

-----------------------------------------------------------------------------
(* Properties.                                                             *)

(* Names identify table entries: the index-based relocations, the label    *)
(* lookups of pass two and the writers' index maps all rest on             *)
(* get_or_create never making a second entry for a name.                   *)
NamesUnique == UniqueNames(sections) /\ UniqueNames(symbols)

(* The bytes [offset, offset + size) of a section.                         *)
Bytes(offset, size) == offset + 1 .. offset + size

Mentions(st) == IF st.op = "instruction" THEN st.target ELSE st.name

(* A relocation lies inside its section, on bytes of the one statement     *)
(* that asked for it, and its symbol index leads to the name that          *)
(* statement wrote, although pass two keeps growing the symbol table.      *)
RelocationsNameTheirTarget ==
  \A s \in DOMAIN sections :
    \A r \in DOMAIN sections[s].relocations :
      LET rel  == sections[s].relocations[r]
          data == sections[s].data
      IN  /\ rel.symbol \in DOMAIN symbols
          /\ rel.offset + Width(rel.kind) <= Len(data)
          /\ \E k \in 1 .. cursor - 1 :
               /\ source[k].op \in {"quad", "instruction"}
               /\ Mentions(source[k]) = symbols[rel.symbol].name
               /\ \A i \in Bytes(rel.offset, Width(rel.kind)) :
                    data[i].by = k

(* The slot of every pending instruction stays the property of that        *)
(* instruction, zeros until pass two reaches it and code and fill after:   *)
(* no data, padding or other instruction ever shares a byte with it.       *)
SlotsIntact ==
  \A n \in DOMAIN pending :
    LET p == pending[n]
    IN  /\ p.section \in DOMAIN sections
        /\ p.offset + SlotSize <= Len(sections[p.section].data)
        /\ \A i \in Bytes(p.offset, SlotSize) :
             LET byte == sections[p.section].data[i]
             IN  /\ byte.by = p.line
                 /\ byte.is \in IF n < next THEN {"code", "fill"} ELSE {"zero"}

(* A label marks the place it was written at: everything its section holds *)
(* below its value comes from earlier statements, everything from its      *)
(* value on from later ones.  A name defined twice means its last          *)
(* definition.                                                             *)
LabelsMarkTheirPlace ==
  \A i \in DOMAIN symbols :
    symbols[i].defined =>
      /\ symbols[i].section \in DOMAIN sections
      /\ symbols[i].value <= Len(sections[symbols[i].section].data)
      /\ \E k \in 1 .. cursor - 1 :
           /\ source[k] = [op |-> "label", name |-> symbols[i].name]
           /\ \A j \in k + 1 .. cursor - 1 : source[j] # source[k]
           /\ LET data == sections[symbols[i].section].data
              IN  \A b \in DOMAIN data :
                    (data[b].by < k) <=> (b <= symbols[i].value)

(* Every instruction encoded so far reaches its target: a branch within    *)
(* its section carries the displacement to where the label ended up, even  *)
(* when the label follows it or is redefined later, and any other          *)
(* reference left a relocation of its kind against its target's name.      *)
ReferencesResolved ==
  \A n \in 1 .. next - 1 :
    LET p   == pending[n]
        st  == source[p.line]
        sec == sections[p.section]
    IN  IF st.form \in {"b", "b.cond"} /\ InSection(st.target, p.section)
        THEN sec.data[p.offset + 1].imm =
               BranchField(st.form,
                           symbols[Find(symbols, st.target)].value - p.offset)
        ELSE st.form # "plain" =>
               \E r \in DOMAIN sec.relocations :
                 LET rel == sec.relocations[r]
                 IN  /\ rel.offset = p.offset + st.at
                     /\ rel.kind = KindOf(st.form)
                     /\ symbols[rel.symbol].name = st.target

(* Reading a displacement field back as a signed byte distance.            *)
Distance(form, field) ==
  LET span == IF form = "b" THEN Imm26Span ELSE Imm19Span
  IN  4 * (IF field >= span \div 2 THEN field - span ELSE field)

InRange(form, delta) ==
  LET half == 2 * (IF form = "b" THEN Imm26Span ELSE Imm19Span)
  IN  delta % 4 = 0 /\ -half <= delta /\ delta < half

(* What the processor computes from an encoded in-section branch is its    *)
(* label, as long as the label is a whole number of words away and within  *)
(* the field's reach, which the encoder does not check.                    *)
BranchesReachTheirLabel ==
  \A n \in 1 .. next - 1 :
    LET p     == pending[n]
        st    == source[p.line]
        value == symbols[Find(symbols, st.target)].value
    IN  /\ st.form \in {"b", "b.cond"}
        /\ InSection(st.target, p.section)
        /\ InRange(st.form, value - p.offset)
        => p.offset + Distance(st.form,
                               sections[p.section].data[p.offset + 1].imm)
             = value

(* The output file is touched only when every instruction is encoded and   *)
(* no relocation needs a hidden symbol: an assembly that fails earlier     *)
(* leaves an existing file alone, and what is written has no empty slot.   *)
OutputIsComplete ==
  output # "untouched" =>
    /\ next > Len(pending)
    /\ \A n \in DOMAIN pending :
         \A i \in Bytes(pending[n].offset, SlotSize) :
           sections[pending[n].section].data[i].is \in {"code", "fill"}
    /\ ~HiddenRelocation

(* Pass two works on a finished layout: it moves no byte, redefines no     *)
(* symbol and removes no relocation.  It writes code and fill over bytes   *)
(* reserved for the same statement, adds relocations, and adds undefined   *)
(* symbols at the end of the table.                                        *)
FrozenStep ==
  phase = "pass2" =>
    /\ DOMAIN sections' = DOMAIN sections
    /\ \A s \in DOMAIN sections :
         LET old == sections[s]
             new == sections'[s]
         IN  /\ new.name = old.name /\ new.align = old.align
             /\ DOMAIN new.data = DOMAIN old.data
             /\ \A i \in DOMAIN old.data :
                  \/ new.data[i] = old.data[i]
                  \/ /\ old.data[i].is = "zero"
                     /\ new.data[i].is \in {"code", "fill"}
                     /\ new.data[i].by = old.data[i].by
                     /\ source[old.data[i].by].op = "instruction"
             /\ Len(old.relocations) <= Len(new.relocations)
             /\ \A r \in DOMAIN old.relocations :
                  new.relocations[r] = old.relocations[r]
    /\ Len(symbols) <= Len(symbols')
    /\ \A i \in DOMAIN symbols' :
         IF i <= Len(symbols) THEN symbols'[i] = symbols[i]
                              ELSE ~symbols'[i].defined

LayoutFrozen == [][FrozenStep]_vars

(* How the counters of the two passes, the pending list and the bytes of   *)
(* the sections fit together.                                              *)
Bookkeeping ==
  /\ cursor <= Len(source) + 1
  /\ phase \in {"pass2", "emit", "done"} => cursor = Len(source) + 1
  /\ next <= Len(pending) + 1
  /\ phase = "pass1" => next = 1
  /\ phase \in {"emit", "done"} => next = Len(pending) + 1
  /\ output # "untouched" => phase \in {"done", "failed"}
  /\ \A n \in DOMAIN pending :
       /\ pending[n].line \in 1 .. cursor - 1
       /\ source[pending[n].line].op = "instruction"
  /\ \A m, n \in DOMAIN pending : pending[m].line = pending[n].line => m = n
  /\ \A s \in DOMAIN sections :
       /\ Len(sections[s].data) <= MaxSectionSize
       /\ \A i \in DOMAIN sections[s].data :
            sections[s].data[i].by \in 1 .. cursor - 1

(* The inductive invariant of the assembler.                               *)
IInv ==
  /\ TypeOK
  /\ NamesUnique
  /\ Bookkeeping
  /\ RelocationsNameTheirTarget
  /\ SlotsIntact
  /\ LabelsMarkTheirPlace
  /\ ReferencesResolved
  /\ OutputIsComplete

-----------------------------------------------------------------------------
(* The two passes implement the contract: the finished object, seen        *)
(* through names instead of indexes, is the one the source stands for.     *)

SectionName(i) == sections[i].name

AbstractBytes ==
  UNION {{[section |-> SectionName(s), offset |-> i - 1,
           by |-> sections[s].data[i].by] : i \in DOMAIN sections[s].data} :
         s \in DOMAIN sections}

AbstractSymbol(symbol) ==
  [name   |-> symbol.name,
   place  |-> IF symbol.defined
              THEN [section |-> SectionName(symbol.section),
                    value |-> symbol.value]
              ELSE [section |-> "nowhere", value |-> 0],
   global |-> symbol.global]

AbstractSymbols == {AbstractSymbol(symbols[i]) : i \in DOMAIN symbols}

AbstractLink(s, rel) ==
  [section |-> SectionName(s), offset |-> rel.offset, kind |-> rel.kind,
   name |-> symbols[rel.symbol].name]

AbstractLinks ==
  UNION {{AbstractLink(s, sections[s].relocations[r]) :
            r \in DOMAIN sections[s].relocations} : s \in DOMAIN sections}

(* A branch that needs no relocation, and the field it carries.            *)
IsJump(p) ==
  /\ source[p.line].form \in {"b", "b.cond"}
  /\ \A r \in DOMAIN sections[p.section].relocations :
       sections[p.section].relocations[r].offset # p.offset

AbstractJump(p) ==
  [section |-> SectionName(p.section), offset |-> p.offset,
   field |-> sections[p.section].data[p.offset + 1].imm]

AbstractJumps ==
  {AbstractJump(pending[n]) : n \in {m \in DOMAIN pending : IsJump(pending[m])}}

AbstractObject ==
  [bytes   |-> AbstractBytes, symbols |-> AbstractSymbols,
   links   |-> AbstractLinks, jumps   |-> AbstractJumps]

Outcome ==
  IF phase = "done" THEN [kind |-> "object", object |-> AbstractObject]
  ELSE IF phase = "failed" THEN [kind |-> "error"]
  ELSE [kind |-> "pending"]

Contract == INSTANCE AssemblerContract WITH outcome <- Outcome

ImplementsContract == Contract!Spec

-----------------------------------------------------------------------------
(* Termination.                                                            *)

(* No statement takes its section beyond half of what size_t counts.       *)
Countable(src) ==
  \A k \in DOMAIN src :
    LET start == Contract!StartOf(src, k)
    IN  Contract!SizeAt(src[k], start) \in 0 .. SizeWord \div 2 - start

(* Assembling a source that stays below that ends, with an object or with  *)
(* an error: no run of statements, padding and failures leaves a pass      *)
(* waiting, although far more may be asked for than memory can hold.       *)
Terminates == Countable(source) => <>(phase \in {"done", "failed"})

(* What a section cannot hold is answered with an error, "out of memory    *)
(* growing section" (src/object.c:150).  The code does not keep this.      *)
GrowthIsRefused == Exhausting ~> phase = "failed"
=============================================================================
