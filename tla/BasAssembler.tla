----------------------------- MODULE BasAssembler ----------------------------
(***************************************************************************)
(* The embedded Bslash assembler (src/bslash_embed.c): sources with        *)
(* includes are read into one list of items with their offsets, generated  *)
(* string literals follow, and then every item is encoded, into a flat     *)
(* binary or a BSO object.                                                 *)
(*                                                                         *)
(* Statements are parsed: texts, registers and number operands are left    *)
(* out, and an instruction is its format and the name it refers to.        *)
(* Offsets are words of four bytes of ByteBits bits each (eight in the     *)
(* code).  A fatal error is a longjmp out of everything: the action that   *)
(* meets it ends the run.                                                  *)
(***************************************************************************)
EXTENDS Integers, Sequences, FiniteSets

CONSTANTS
  Programs,         \* the sources: functions from file names to statements
  Root,             \* the file on the command line
  Hidden,           \* names that start with "L"
  StringLabel(_),   \* "__str_<n>"
  ByteBits,         \* bits of a byte; a word has four bytes
  DefaultOrigin,    \* BSLASH_DEFAULT_ORIGIN_BASE
  MaxOpen           \* files a process may have open

ASSUME WordAssumption == ByteBits \in Nat \ {0}
ASSUME OpenAssumption == MaxOpen \in Nat \ {0}
ASSUME RootAssumption == \A p \in Programs : Root \in DOMAIN p

VARIABLES
  program,     \* the files, as they lie on disk
  objectMode,  \* emit_object
  pc,          \* the phase: read, literals, encode, write, done or failed
  frames,      \* the calls of process_source_file: file, next line, local_pc
  shared,      \* the counter the calls hand over, *pc
  included,    \* included_files
  origin,      \* g_origin_base and whether a directive set it
  symbols,     \* the labels; before counts the items they come after
  literals,    \* string_literals that are not placed yet
  items,       \* the program: statements with offset and size
  length,      \* output->count
  placed,      \* where each encoded item starts in the output
  fields,      \* the operand fields written that refer to a symbol
  relocs,      \* relocations, in object mode
  bso,         \* the object as the file holds it, once written
  output       \* what became of the output file

vars == <<program, objectMode, pc, frames, shared, included, origin, symbols,
          literals, items, length, placed, fields, relocs, bso, output>>

reading  == <<frames, shared, included, origin>>
source   == <<program, objectMode>>
encoding == <<length, placed, fields, relocs>>
files    == <<bso, output>>

-----------------------------------------------------------------------------
Bits(width) == ByteBits * width
Word == 2 ^ Bits(4)

(* (int32_t) of an unsigned word, and of a field of some width.            *)
SignedIn(v, span) == IF v < span \div 2 THEN v ELSE v - span
Signed(v) == SignedIn(v, Word)

Number == "#"     \* an operand that is a number

(* Sizes the instruction table gives, by format.                           *)
TableSize ==
  [NONE |-> 1, CTL_IDX |-> 2, REG_REG |-> 2, REG_CTL |-> 2, CTL_REG |-> 2,
   REG_HIGH |-> 2, REG_MEM |-> 2, IMM8 |-> 2, REG_REG_REG |-> 3,
   REG_IMM8 |-> 3, IMM16 |-> 3, MEM_LOAD |-> 3, MEM_STORE |-> 3,
   REG_MEM_IMM8 |-> 3, EXT |-> 3, REG_IMM16 |-> 4, PORT_OUT |-> 4,
   PORT_IN |-> 4, BRANCH_REL8 |-> 2, BRANCH_REL32 |-> 5, ABS32_ONLY |-> 5,
   REG_IMM32 |-> 6, IMM32_ONLY |-> 6, REG_REL32 |-> 6]

(* Bytes the encoder appends to the opcode, for formats without a name.    *)
OperandBytes ==
  [NONE |-> 0, CTL_IDX |-> 1, REG_REG |-> 1, REG_CTL |-> 1, CTL_REG |-> 1,
   REG_HIGH |-> 1, REG_MEM |-> 1, IMM8 |-> 1, REG_REG_REG |-> 1 + 1,
   REG_IMM8 |-> 1 + 1, IMM16 |-> 2, MEM_LOAD |-> 1 + 1,
   MEM_STORE |-> 1 + 1, REG_MEM_IMM8 |-> 1 + 1, EXT |-> 1 + 1,
   REG_IMM16 |-> 1 + 2, PORT_OUT |-> 2 + 1, PORT_IN |-> 2 + 1]

Operand(at, width, rel) == [at |-> at, width |-> width, rel |-> rel]

(* The field of the formats that may refer to a name; it comes last.       *)
NamedOperand ==
  [BRANCH_REL8  |-> Operand(1, 1, TRUE),
   BRANCH_REL32 |-> Operand(1, 4, TRUE),
   ABS32_ONLY   |-> Operand(1, 4, FALSE),
   REG_IMM32    |-> Operand(1 + 1, 4, FALSE),
   IMM32_ONLY   |-> Operand(1 + 1, 4, FALSE),
   REG_REL32    |-> Operand(1 + 1, 4, TRUE)]

(* Instructions that repeat another one: bytes the parser counts for their *)
(* own part, whether a loop count follows the opcode, and register bytes.  *)
Repeaters ==
  [RRPIN    |-> [head |-> 5, counted |-> TRUE,  registers |-> 0],
   RRPIN_R  |-> [head |-> 6, counted |-> TRUE,  registers |-> 1],
   RRPIN_V  |-> [head |-> 2, counted |-> FALSE, registers |-> 1],
   RRPIN_VR |-> [head |-> 3, counted |-> FALSE, registers |-> 2]]

(* Formats of the instructions an RRPIN instruction may repeat: those of    *)
(* the opcodes the code lists.                                             *)
RepeatedForms ==
  {"REG_REG", "REG_REG_REG", "REG_IMM32", "REG_IMM16", "REG_IMM8",
   "MEM_LOAD", "MEM_STORE", "REG_REL32"}

(* What a statement counts for in the first pass.                          *)
Size(s) ==
  IF s.op = "instr" THEN TableSize[s.form]
  ELSE IF s.op = "rrpin" THEN Repeaters[s.head].head + TableSize[s.inner]
  ELSE IF s.op = "values" THEN s.width * Len(s.names)
  ELSE s.size

FormBytes(form) ==
  IF form \in DOMAIN NamedOperand
  THEN NamedOperand[form].at + NamedOperand[form].width
  ELSE 1 + OperandBytes[form]

HeadBytes(head) ==
  1 + (IF Repeaters[head].counted THEN 4 ELSE 0) + Repeaters[head].registers

(* What the second pass writes for it.                                     *)
BytesWritten(s) ==
  IF s.op = "instr" THEN FormBytes(s.form)
  ELSE IF s.op = "rrpin" THEN HeadBytes(s.head) + FormBytes(s.inner)
  ELSE IF s.op = "values" THEN s.width * Len(s.names)
  ELSE s.size

Reference(at, width, rel, name) ==
  [at |-> at, width |-> width, rel |-> rel, name |-> name]

(* The name an instruction refers to, as a sequence of at most one         *)
(* reference, for one that starts at base.                                 *)
FormReference(form, name, base) ==
  IF name = Number \/ form \notin DOMAIN NamedOperand THEN << >>
  ELSE LET o == NamedOperand[form]
       IN  <<Reference(base + o.at, o.width, o.rel, name)>>

(* What a loop over s keeps when it skips all places but those in S.       *)
Selected(s, S) ==
  LET kept[i \in 0 .. Len(s)] ==
        IF i = 0 THEN << >>
        ELSE IF i \in S THEN Append(kept[i - 1], s[i]) ELSE kept[i - 1]
  IN  kept[Len(s)]

LoopReference(s) ==
  IF s.loop = Number \/ ~Repeaters[s.head].counted THEN << >>
  ELSE <<Reference(1, 4, FALSE, s.loop)>>

ValueReferences(s) ==
  Selected([i \in DOMAIN s.names |->
              Reference((i - 1) * s.width, s.width, FALSE, s.names[i])],
           {i \in DOMAIN s.names : s.names[i] # Number})

(* Every name a statement's bytes depend on, with its field.               *)
References(s) ==
  IF s.op = "instr" THEN FormReference(s.form, s.name, 0)
  ELSE IF s.op = "rrpin"
  THEN LoopReference(s) \o FormReference(s.inner, s.name, HeadBytes(s.head))
  ELSE IF s.op = "values" THEN ValueReferences(s)
  ELSE << >>

(* What the parser accepts: operands of the right kind, numbers in range.  *)
IsStatement(s) ==
  /\ s.op \in {"label", "include", "origin", "align", "incbin", "string",
              "bytes", "values", "instr", "rrpin"}
  /\ s.op \in {"label", "instr", "rrpin"} => s.name \in STRING
  /\ s.op = "include" => s.file \in STRING /\ s.force \in BOOLEAN
  /\ s.op = "origin" => s.value \in 0 .. Word - 1
  /\ s.op = "align" => s.to \in 1 .. Word - 1
  /\ s.op \in {"bytes", "incbin", "string"} => s.size \in Nat
  /\ s.op = "values" => s.width \in {1, 2, 4, 8} /\ s.names \in Seq(STRING)
  /\ s.op = "instr" => s.form \in DOMAIN TableSize
  /\ s.op = "rrpin" =>
       /\ s.head \in DOMAIN Repeaters
       /\ s.loop \in STRING
       /\ s.inner \in DOMAIN TableSize

ASSUME ProgramsAssumption ==
  \A p \in Programs :
    /\ IsFiniteSet(DOMAIN p)
    /\ \A f \in DOMAIN p :
         Len(p[f]) \in Nat /\ \A i \in 1 .. Len(p[f]) : IsStatement(p[f][i])

ASSUME OriginAssumption == DefaultOrigin \in 0 .. Word - 1

-----------------------------------------------------------------------------
(* A call of process_source_file.                                          *)
Frame(file, line, at) == [file |-> file, line |-> line, at |-> at]

Init ==
  /\ program \in Programs
  /\ objectMode \in BOOLEAN
  /\ pc = "read"
  /\ frames = <<Frame(Root, 1, 0)>>
  /\ shared = 0
  /\ included = {Root}
  /\ origin = [base |-> DefaultOrigin, set |-> FALSE]
  /\ symbols = << >>
  /\ literals = << >>
  /\ items = << >>
  /\ length = 0
  /\ placed = << >>
  /\ fields = << >>
  /\ relocs = << >>
  /\ bso = << >>
  /\ output = "untouched"

Fail ==
  /\ pc' = "failed"
  /\ UNCHANGED <<source, reading, symbols, literals, items, encoding, files>>

-----------------------------------------------------------------------------
(* Reading.                                                                *)

Top == frames[Len(frames)]
local_pc == Top.at

InFile == pc = "read" /\ frames # << >> /\ Top.line <= Len(program[Top.file])

Here == program[Top.file][Top.line]

(* Wrong variant: the counter leaves its 32 bits.                          *)
AfterUnwrapped(at, n) == at + n

After(at, n) == (at + n) % Word

(* The frames with the current statement done and the counter n further.   *)
Stepped(n) ==
  [frames EXCEPT ![Len(frames)] =
     Frame(Top.file, Top.line + 1, After(local_pc, n))]

Known(name) == \E i \in DOMAIN symbols : symbols[i].name = name

Item(s, at) == [statement |-> s, offset |-> at, size |-> Size(s)]

Symbol(name, at) ==
  [name |-> name, address |-> at, before |-> Len(items)]

Label ==
  /\ InFile
  /\ Here.op = "label"
  /\ ~Known(Here.name)
  /\ symbols' = Append(symbols, Symbol(Here.name, local_pc))
  /\ frames' = Stepped(0)
  /\ UNCHANGED <<source, pc, shared, included, origin, literals, items,
                 encoding, files>>

DuplicateLabel ==
  /\ InFile
  /\ Here.op = "label"
  /\ Known(Here.name)
  /\ Fail

Emit(s) ==
  /\ items' = Append(items, Item(s, local_pc))
  /\ frames' = Stepped(Size(s))

(* Data, instructions, and what RRPIN may repeat.                          *)
AddItem ==
  /\ InFile
  /\ Here.op \in {"bytes", "values", "instr", "rrpin"}
  /\ Here.op = "rrpin" => Here.inner \in RepeatedForms
  /\ Emit(Here)
  /\ UNCHANGED <<source, pc, shared, included, origin, symbols, literals,
                 encoding, files>>

RejectRepeated ==
  /\ InFile
  /\ Here.op = "rrpin"
  /\ Here.inner \notin RepeatedForms
  /\ Fail

(* MOVI32 of a string literal: the string is kept for later, under a       *)
(* label that the instruction now loads.                                   *)
AddString ==
  /\ InFile
  /\ Here.op = "string"
  /\ Emit([op |-> "instr", form |-> "REG_IMM32",
           name |-> StringLabel(Len(literals))])
  /\ literals' = Append(literals, [label |-> StringLabel(Len(literals)),
                                  size |-> Here.size])
  /\ UNCHANGED <<source, pc, shared, included, origin, symbols, encoding,
                 files>>

Bytes(n) == [op |-> "bytes", size |-> n]

IncbinFits(n) == n < Word /\ local_pc + n < Word

Incbin ==
  /\ InFile
  /\ Here.op = "incbin"
  /\ IncbinFits(Here.size)
  /\ Emit(Bytes(Here.size))
  /\ UNCHANGED <<source, pc, shared, included, origin, symbols, literals,
                 encoding, files>>

RejectIncbin ==
  /\ InFile
  /\ Here.op = "incbin"
  /\ ~IncbinFits(Here.size)
  /\ Fail

Padding(a) == (a - (local_pc % a)) % a

(* The padding is an item like any other; an aligned counter adds none.    *)
Align ==
  /\ InFile
  /\ Here.op = "align"
  /\ IF Padding(Here.to) = 0
     THEN frames' = Stepped(0) /\ UNCHANGED items
     ELSE Emit(Bytes(Padding(Here.to)))
  /\ UNCHANGED <<source, pc, shared, included, origin, symbols, literals,
                 encoding, files>>

SetOrigin ==
  /\ InFile
  /\ Here.op = "origin"
  /\ ~origin.set
  /\ origin' = [base |-> Here.value, set |-> TRUE]
  /\ frames' = Stepped(0)
  /\ UNCHANGED <<source, pc, shared, included, symbols, literals, items,
                 encoding, files>>

OriginTwice ==
  /\ InFile
  /\ Here.op = "origin"
  /\ origin.set
  /\ Fail

-----------------------------------------------------------------------------
(* Includes: each call of process_source_file takes the shared counter     *)
(* over and leaves it for the caller.                                      *)

(* Wrong variant: a path is looked up but not kept.                        *)
NotInterned(file) == included

Interned(file) == included \cup {file}

(* force includes a file again, and does not note that it was.             *)
Enters(s) == s.force \/ s.file \notin included

Include ==
  /\ InFile
  /\ Here.op = "include"
  /\ Here.file \in DOMAIN program
  /\ Enters(Here)
  /\ Len(frames) < MaxOpen
  /\ shared' = local_pc
  /\ included' = IF Here.force THEN included ELSE Interned(Here.file)
  /\ frames' = Append(Stepped(0), Frame(Here.file, 1, local_pc))
  /\ UNCHANGED <<source, pc, origin, symbols, literals, items, encoding,
                 files>>

SkipInclude ==
  /\ InFile
  /\ Here.op = "include"
  /\ Here.file \in DOMAIN program
  /\ ~Enters(Here)
  /\ frames' = Stepped(0)
  /\ UNCHANGED <<source, pc, shared, included, origin, symbols, literals,
                 items, encoding, files>>

(* No such file, or every caller still has its own open.                   *)
CannotInclude ==
  /\ InFile
  /\ Here.op = "include"
  /\ \/ Here.file \notin DOMAIN program
     \/ Enters(Here) /\ Len(frames) = MaxOpen
  /\ Fail

(* Wrong variant: the caller goes on from where it called.                 *)
ResumedWhereLeft(callers, at) == callers

(* The last caller continues at the counter it is left.                    *)
Resumed(callers, at) ==
  IF callers = << >> THEN << >>
  ELSE [callers EXCEPT ![Len(callers)] = Frame(@.file, @.line, at)]

(* Wrong variant: the call does not return.                                *)
EndOfFileAgain ==
  /\ pc = "read"
  /\ frames # << >>
  /\ Top.line > Len(program[Top.file])
  /\ UNCHANGED vars

EndOfFile ==
  /\ pc = "read"
  /\ frames # << >>
  /\ Top.line > Len(program[Top.file])
  /\ shared' = local_pc
  /\ frames' = Resumed(SubSeq(frames, 1, Len(frames) - 1), local_pc)
  /\ UNCHANGED <<source, pc, included, origin, symbols, literals, items,
                 encoding, files>>

EndReading ==
  /\ pc = "read"
  /\ frames = << >>
  /\ pc' = "literals"
  /\ UNCHANGED <<source, reading, symbols, literals, items, encoding, files>>

-----------------------------------------------------------------------------
(* The string literals, each under its label, in the order of their use.   *)

PlaceLiteral ==
  /\ pc = "literals"
  /\ literals # << >>
  /\ ~Known(Head(literals).label)
  /\ symbols' = Append(symbols, Symbol(Head(literals).label, shared))
  /\ items' = Append(items, Item(Bytes(Head(literals).size), shared))
  /\ shared' = After(shared, Head(literals).size)
  /\ literals' = Tail(literals)
  /\ UNCHANGED <<source, pc, frames, included, origin, encoding, files>>

(* The program has a label of that name.                                   *)
LiteralLabelTaken ==
  /\ pc = "literals"
  /\ literals # << >>
  /\ Known(Head(literals).label)
  /\ Fail

EndLiterals ==
  /\ pc = "literals"
  /\ literals = << >>
  /\ pc' = "encode"
  /\ UNCHANGED <<source, reading, symbols, literals, items, encoding, files>>

-----------------------------------------------------------------------------
(* Encoding.                                                               *)

Current == items[Len(placed) + 1]

next_ip(item) == After(item.offset, item.size)

AddressOf(name) ==
  symbols[CHOOSE i \in DOMAIN symbols : symbols[i].name = name].address

(* symbol_value_for_mode                                                   *)
ValueForMode(name) ==
  IF objectMode THEN AddressOf(name) ELSE After(AddressOf(name), origin.base)

(* Wrong variant: measured from where the item starts.                     *)
DisplacementFromStart(name, item) ==
  Signed(AddressOf(name)) - Signed(item.offset)

Displacement(name, item) ==
  Signed(AddressOf(name)) - Signed(next_ip(item))

(* v is a signed number of that many bytes.                                *)
SignedFits(v, width) ==
  -(2 ^ (Bits(width) - 1)) <= v /\ v < 2 ^ (Bits(width) - 1)

UnsignedFits(v, width) == width = 8 \/ v < 2 ^ Bits(width)

(* A name nobody defines is an error in a flat binary.  There the ranges   *)
(* of absolute values are checked, in an object file they are not.         *)
Encodable(r, item) ==
  IF Known(r.name)
  THEN IF r.rel THEN SignedFits(Displacement(r.name, item), r.width)
       ELSE objectMode \/ UnsignedFits(ValueForMode(r.name), r.width)
  ELSE objectMode

Truncated(v, width) == IF width = 8 THEN v ELSE v % (2 ^ Bits(width))

FieldValue(r, item) ==
  IF ~Known(r.name) THEN 0
  ELSE Truncated(IF r.rel THEN Displacement(r.name, item)
                          ELSE ValueForMode(r.name), r.width)

Field(r, item) ==
  [item |-> Len(placed) + 1, at |-> length + r.at, width |-> r.width,
   rel |-> r.rel, name |-> r.name, value |-> FieldValue(r, item)]

(* In an object file every absolute reference is relocated, a relative one *)
(* only when nobody defines its name.                                      *)
NeedsReloc(r) == objectMode /\ (r.rel => ~Known(r.name))

(* -(int32_t) next_ip, which wraps around for the least number.            *)
Addend(r, item) ==
  IF r.rel THEN Signed((Word - next_ip(item)) % Word) ELSE 0

Reloc(r, item) ==
  [offset |-> (length + r.at) % Word,
   kind   |-> [rel |-> r.rel, width |-> r.width],
   addend |-> Addend(r, item),
   symbol |-> r.name]

Relocated(refs) ==
  Selected(refs, {i \in DOMAIN refs : NeedsReloc(refs[i])})

NewFields(refs, item) == [i \in DOMAIN refs |-> Field(refs[i], item)]

NewRelocs(refs, item) == [i \in DOMAIN refs |-> Reloc(refs[i], item)]

EncodeItem ==
  /\ pc = "encode"
  /\ Len(placed) < Len(items)
  /\ LET item == Current
         refs == References(item.statement)
     IN  /\ \A i \in DOMAIN refs : Encodable(refs[i], item)
         /\ fields' = fields \o NewFields(refs, item)
         /\ relocs' = relocs \o NewRelocs(Relocated(refs), item)
         /\ length' = length + BytesWritten(item.statement)
  /\ placed' = Append(placed, length)
  /\ UNCHANGED <<source, pc, reading, symbols, literals, items, files>>

RejectItem ==
  /\ pc = "encode"
  /\ Len(placed) < Len(items)
  /\ \E r \in {References(Current.statement)[i] :
                i \in DOMAIN References(Current.statement)} :
       ~Encodable(r, Current)
  /\ Fail

(* Wrong variant: the last item is left out.                               *)
EndEncodeEarly ==
  /\ pc = "encode"
  /\ Len(placed) + 1 >= Len(items)
  /\ pc' = "write"
  /\ UNCHANGED <<source, reading, symbols, literals, items, encoding, files>>

EndEncode ==
  /\ pc = "encode"
  /\ Len(placed) = Len(items)
  /\ pc' = "write"
  /\ UNCHANGED <<source, reading, symbols, literals, items, encoding, files>>

-----------------------------------------------------------------------------
(* Writing.                                                                *)

(* Relocations against undefined names, each name's first one.             *)
FirstUses ==
  Selected([i \in DOMAIN relocs |-> i],
           {i \in DOMAIN relocs :
              /\ ~Known(relocs[i].symbol)
              /\ \A j \in 1 .. i - 1 : relocs[j].symbol # relocs[i].symbol})

SymbolRecord(name, value, defined) ==
  [name |-> name, value |-> value, defined |-> defined,
   global |-> name \notin Hidden]

(* The labels in their order, then the undefined names.                    *)
SymbolRecords ==
  [i \in DOMAIN symbols |->
     SymbolRecord(symbols[i].name, symbols[i].address, TRUE)]
  \o [i \in DOMAIN FirstUses |->
        SymbolRecord(relocs[FirstUses[i]].symbol, 0, FALSE)]

(* Indices count from one here.                                            *)
SymbolIndex(name) ==
  CHOOSE i \in DOMAIN SymbolRecords : SymbolRecords[i].name = name

RelocationRecords ==
  [i \in DOMAIN relocs |->
     [offset       |-> relocs[i].offset,
      addend       |-> relocs[i].addend,
      symbol_index |-> SymbolIndex(relocs[i].symbol),
      kind         |-> relocs[i].kind]]

FitsObject ==
  length < Word /\ \A i \in DOMAIN relocs : relocs[i].offset <= length

(* A flat binary is nothing but its bytes.                                 *)
Contents ==
  IF objectMode
  THEN <<[code_size |-> length, symbols |-> SymbolRecords,
          relocations |-> RelocationRecords]>>
  ELSE << >>

Write ==
  /\ pc = "write"
  /\ objectMode => FitsObject
  /\ bso' = Contents
  /\ output' = "written"
  /\ pc' = "done"
  /\ UNCHANGED <<source, reading, symbols, literals, items, encoding>>

TooLarge ==
  /\ pc = "write"
  /\ objectMode
  /\ ~FitsObject
  /\ Fail

(* The file is not opened, comes up short, or loses its last bytes in      *)
(* fclose, which nobody notices.                                           *)
WriteFails ==
  /\ pc = "write"
  /\ objectMode => FitsObject
  /\ \/ output' \in {"untouched", "partial"} /\ pc' = "failed"
     \/ output' = "partial" /\ pc' = "done"
  /\ UNCHANGED <<source, reading, symbols, literals, items, encoding, bso>>

(* Out of memory, a file that cannot be read, or a syntax error.           *)
Abort ==
  /\ pc \in {"read", "literals", "encode", "write"}
  /\ Fail

Terminated ==
  /\ pc \in {"done", "failed"}
  /\ UNCHANGED vars

Progress ==
  \/ Label \/ DuplicateLabel \/ AddItem \/ RejectRepeated \/ AddString
  \/ Incbin \/ RejectIncbin \/ Align \/ SetOrigin \/ OriginTwice
  \/ Include \/ SkipInclude \/ CannotInclude \/ EndOfFile \/ EndReading
  \/ PlaceLiteral \/ LiteralLabelTaken \/ EndLiterals
  \/ EncodeItem \/ RejectItem \/ EndEncode \/ Write \/ TooLarge

Next == Progress \/ WriteFails \/ Abort \/ Terminated

Spec == Init /\ [][Next]_vars

(* A sequential program that nothing blocks keeps going.                   *)
FairSpec == Spec /\ WF_vars(Progress)

-----------------------------------------------------------------------------
(* Properties.                                                             *)

TypeOK ==
  /\ pc \in {"read", "literals", "encode", "write", "done", "failed"}
  /\ \A i \in DOMAIN frames :
       /\ frames[i].file \in DOMAIN program
       /\ frames[i].line \in 1 .. Len(program[frames[i].file]) + 1
       /\ frames[i].at \in 0 .. Word - 1
  /\ shared \in 0 .. Word - 1
  /\ origin.base \in 0 .. Word - 1
  /\ \A i \in DOMAIN symbols : symbols[i].address \in 0 .. Word - 1
  /\ \A i \in DOMAIN items : items[i].offset \in 0 .. Word - 1
  /\ Len(placed) <= Len(items)
  /\ output \in {"untouched", "partial", "written"}

(* What the first pass counted is what the second one writes: every item   *)
(* starts in the output where it was laid out, across includes that hand   *)
(* the counter over, padding, generated literals and nested instructions,  *)
(* and every label is at the first byte that follows it (up to the 32 bits *)
(* the counter has).                                                       *)
LayoutHolds ==
  /\ \A i \in DOMAIN placed : placed[i] % Word = items[i].offset
  /\ \A i \in DOMAIN symbols :
       LET before == symbols[i].before
       IN  /\ before < Len(placed) =>
                placed[before + 1] % Word = symbols[i].address
           /\ pc = "write" /\ before = Len(items) =>
                length % Word = symbols[i].address

ItemEnd(i) == placed[i] + BytesWritten(items[i].statement)

(* What a program finds where a field points, counted in bytes of the      *)
(* output: the end of the field's item plus the field, or the field.       *)
Pointed(f) ==
  IF f.rel THEN ItemEnd(f.item) + SignedIn(f.value, 2 ^ Bits(f.width))
  ELSE f.value - (IF objectMode THEN 0 ELSE origin.base)

RelocatedBy(f, r) ==
  /\ r.offset = f.at % Word
  /\ r.kind = [rel |-> f.rel, width |-> f.width]
  /\ r.symbol = f.name

(* Every reference is inside the bytes of its own item and either leads to *)
(* the label it names, origin and signs and the end of a nested            *)
(* instruction considered, or has a relocation on it, whose addend makes   *)
(* up for the place where the field will be used.  No other relocation     *)
(* exists, and a field has only one, unless the code is longer than the    *)
(* offsets of relocations reach, which no object file is.                  *)
ReferencesResolved ==
  /\ \A k \in DOMAIN fields :
       LET f == fields[k]
           mine == {i \in DOMAIN relocs : RelocatedBy(f, relocs[i])}
       IN  /\ placed[f.item] < f.at + 1
           /\ f.at + f.width <= ItemEnd(f.item)
           /\ (f.rel /\ Known(f.name)) \/ ~objectMode =>
                /\ mine = {}
                /\ Known(f.name)
                /\ (Pointed(f) - AddressOf(f.name)) % Word = 0
           /\ objectMode /\ ~(f.rel /\ Known(f.name)) =>
                /\ mine # {}
                /\ length <= Word => Cardinality(mine) = 1
                /\ \A i \in mine :
                     (relocs[i].addend + (IF f.rel THEN ItemEnd(f.item) ELSE 0))
                       % Word = 0
  /\ Len(relocs) <= Len(fields)

Forces(p) ==
  \E f \in DOMAIN p : \E i \in DOMAIN p[f] :
    p[f][i].op = "include" /\ p[f][i].force

(* Without force no program includes itself, directly or through others:   *)
(* no more files are open at a time than there are, so the limit on open   *)
(* files is met only by programs that ask for it.                          *)
IncludesAreAcyclic ==
  ~Forces(program) => Len(frames) <= Cardinality(DOMAIN program)

(* The output is touched only when every item of every file is encoded,    *)
(* and a BSO file's relocations find by index the names they were made     *)
(* for, with the labels where the layout put them.                         *)
OutputIsComplete ==
  output # "untouched" =>
    /\ pc \in {"done", "failed"}
    /\ frames = << >> /\ literals = << >> /\ Len(placed) = Len(items)
    /\ \A b \in {bso[i] : i \in DOMAIN bso} :
         /\ b.code_size = length
         /\ \A i \in DOMAIN relocs :
              LET s == b.symbols[b.relocations[i].symbol_index]
              IN  /\ s.name = relocs[i].symbol
                  /\ s.defined = Known(s.name)
                  /\ s.defined => s.value = AddressOf(s.name)

(* Assembling ends, also for a file that includes itself by force: every   *)
(* call keeps its file open, and a process may not open so many.           *)
Terminates == <>(pc \in {"done", "failed"})
=============================================================================
