----------------------------- MODULE BslashBridge ----------------------------
(***************************************************************************)
(* chs_assemble_bslash_file (src/bslash.c): the bas assembler writes the   *)
(* output itself when it is a flat binary; otherwise it writes a BSO       *)
(* object to a temporary file, which is read back and translated into a    *)
(* ChsObject, record by record, for one of the two object writers.         *)
(*                                                                         *)
(* The assembler is module BasAssembler, whose steps are steps here while  *)
(* it runs; the writers are known by what they promise, module ObjectFile. *)
(* Indices of records and symbols are the code's plus one.                 *)
(***************************************************************************)
EXTENDS Integers, Sequences, FiniteSets

CONSTANTS Programs, Root, Hidden, StringLabel(_), ByteBits, DefaultOrigin,
          MaxOpen

VARIABLES
  program, objectMode, pc, frames, shared, included, origin, symbols,
  literals, items, length, placed, fields, relocs, bso, output,
               \* the state of bas
  format,      \* options->output_kind
  stage,       \* what chs_assemble_bslash_file is at
  success,     \* its result
  temp,        \* temp_path: whether it is known, and whether the file exists
  next,        \* the record translate_bso reads next
  object,      \* the ChsObject; a section holds its operand fields
  result,      \* how the writer ended
  written,     \* what became of its output file
  file         \* what a reader finds there

bas    == <<program, objectMode, pc, frames, shared, included, origin,
            symbols, literals, items, length, placed, fields, relocs, bso,
            output>>
writer == <<result, written, file>>
bridge == <<format, stage, success, temp, next, object>>
vars   == <<bas, bridge, writer>>

Bas == INSTANCE BasAssembler

File == INSTANCE ObjectFile WITH Objects <- {}, output <- written

(* What BasAssembler assumes of its constants.                             *)
ASSUME WordAssumption == ByteBits \in Nat \ {0}
ASSUME OpenAssumption == MaxOpen \in Nat \ {0}
ASSUME RootAssumption == \A p \in Programs : Root \in DOMAIN p
ASSUME ProgramsAssumption ==
  \A p \in Programs :
    /\ IsFiniteSet(DOMAIN p)
    /\ \A f \in DOMAIN p :
         /\ Len(p[f]) \in Nat
         /\ \A i \in 1 .. Len(p[f]) : Bas!IsStatement(p[f][i])
ASSUME OriginAssumption == DefaultOrigin \in 0 .. Bas!Word - 1

-----------------------------------------------------------------------------
EmptyObject == [sections |-> << >>, symbols |-> << >>]

Init ==
  /\ Bas!Init
  /\ format \in {"bin", "elf64", "macho"}
  /\ objectMode = (format # "bin")
  /\ stage = "start"
  /\ success = FALSE
  /\ temp = [path |-> FALSE, file |-> FALSE]
  /\ next = 1
  /\ object = EmptyObject
  /\ result = "running"
  /\ written = "untouched"
  /\ file = {}

(* goto cleanup                                                            *)
Leave ==
  /\ stage' = "cleanup"
  /\ UNCHANGED <<bas, format, success, temp, next, object, writer>>

StartFlat ==
  /\ stage = "start"
  /\ format = "bin"
  /\ stage' = "bas"
  /\ UNCHANGED <<bas, format, success, temp, next, object, writer>>

MakeTemp ==
  /\ stage = "start"
  /\ format # "bin"
  /\ temp' = [path |-> TRUE, file |-> TRUE]
  /\ stage' = "bas"
  /\ UNCHANGED <<bas, format, success, next, object, writer>>

(* No file can be made, or no memory is left to remember the one that was. *)
NoTemp ==
  /\ stage = "start"
  /\ format # "bin"
  /\ temp' \in {temp, [temp EXCEPT !.file = TRUE]}
  /\ stage' = "cleanup"
  /\ UNCHANGED <<bas, format, success, next, object, writer>>

(* bas_assemble_file                                                       *)
RunBas ==
  /\ stage = "bas"
  /\ Bas!Next
  /\ pc \notin {"done", "failed"}
  /\ UNCHANGED <<bridge, writer>>

BasFailed ==
  /\ stage = "bas"
  /\ pc = "failed"
  /\ Leave

FlatDone ==
  /\ stage = "bas"
  /\ pc = "done"
  /\ format = "bin"
  /\ success' = TRUE
  /\ stage' = "cleanup"
  /\ UNCHANGED <<bas, format, temp, next, object, writer>>

-----------------------------------------------------------------------------
(* Translation.                                                            *)

SectionName == IF format = "macho" THEN "__text" ELSE ".text"

(* The code as bas left it: the fields that refer to symbols.              *)
BareField(f) == [at |-> f.at, width |-> f.width, value |-> f.value]

CodeSection ==
  [name |-> SectionName, size |-> bso[1].code_size, relocations |-> << >>,
   fields |-> {BareField(fields[i]) : i \in DOMAIN fields}]

ReadBso ==
  /\ stage = "bas"
  /\ pc = "done"
  /\ format # "bin"
  /\ output = "written"
  /\ object' = [sections |-> <<CodeSection>>, symbols |-> object.symbols]
  /\ stage' = "symbols"
  /\ UNCHANGED <<bas, format, success, temp, next, writer>>

(* A file whose end is missing is shorter than its header says.            *)
TruncatedBso ==
  /\ stage = "bas"
  /\ pc = "done"
  /\ format # "bin"
  /\ output = "partial"
  /\ Leave

Record == bso[1].symbols[next]

IndexOf(name) ==
  IF \E i \in DOMAIN object.symbols : object.symbols[i].name = name
  THEN CHOOSE i \in DOMAIN object.symbols : object.symbols[i].name = name
  ELSE Len(object.symbols) + 1

(* Wrong variant: every record's section and value are taken over.         *)
TranslatedAsDefined(record, old) ==
  [name     |-> record.name,
   defined  |-> record.defined,
   global   |-> record.global,
   external |-> ~record.defined,
   section  |-> 1,
   value    |-> record.value]

(* The symbol of that name gets the flags of the record.                   *)
Translated(record, old) ==
  [name     |-> record.name,
   defined  |-> record.defined,
   global   |-> record.global,
   external |-> ~record.defined,
   section  |-> IF record.defined THEN 1 ELSE old.section,
   value    |-> IF record.defined THEN record.value ELSE old.value]

Fresh == [section |-> 0, value |-> 0]

TranslateSymbol ==
  /\ stage = "symbols"
  /\ next <= Len(bso[1].symbols)
  /\ LET i   == IndexOf(Record.name)
         new == i > Len(object.symbols)
         old == IF new THEN Fresh ELSE object.symbols[i]
     IN  object' = [sections |-> object.sections,
                    symbols  |->
           IF new THEN Append(object.symbols, Translated(Record, Fresh))
           ELSE [object.symbols EXCEPT ![i] = Translated(Record, old)]]
  /\ next' = next + 1
  /\ UNCHANGED <<bas, format, stage, success, temp, writer>>

EndSymbols ==
  /\ stage = "symbols"
  /\ next > Len(bso[1].symbols)
  /\ stage' = "relocations"
  /\ next' = 1
  /\ UNCHANGED <<bas, format, success, temp, object, writer>>

RelocationRecord == bso[1].relocations[next]

(* The kinds of the object and the bytes they cover.                       *)
Widths ==
  [BSLASH_ABS8 |-> 1, BSLASH_ABS16 |-> 2, BSLASH_ABS32 |-> 4,
   BSLASH_ABS64 |-> 8, BSLASH_REL8 |-> 1, BSLASH_REL32 |-> 4]

Width(kind) == Widths[kind]

Relative(kind) == kind \in {"BSLASH_REL8", "BSLASH_REL32"}

(* The one for a kind of the file, given by width and whether relative.    *)
Kind(k) ==
  CHOOSE kind \in DOMAIN Widths :
    Width(kind) = k.width /\ Relative(kind) = k.rel

Bits(kind) == ByteBits * Width(kind)

(* What chs_bslash_write_addend accepts.                                   *)
AddendFits(kind, addend) ==
  IF Relative(kind)
  THEN -(2 ^ (Bits(kind) - 1)) <= addend /\ addend < 2 ^ (Bits(kind) - 1)
  ELSE addend >= 0 /\ (Width(kind) = 8 \/ addend < 2 ^ Bits(kind))

InSection(r) == r.offset + Width(Kind(r.kind)) <= object.sections[1].size

Acceptable(r) ==
  /\ r.symbol_index <= Len(bso[1].symbols)
  /\ InSection(r)
  /\ AddendFits(Kind(r.kind), r.addend)

Apart(f, at, width) == f.at + f.width <= at \/ at + width <= f.at

(* Wrong variant: the field keeps what bas put there.                      *)
FieldsAsTheyWere(old, r) == old

(* The bytes at the relocation's offset now hold its addend.               *)
FieldsWith(old, r) ==
  LET width == Width(Kind(r.kind))
  IN  {f \in old : Apart(f, r.offset, width)}
        \cup {[at |-> r.offset, width |-> width,
               value |-> r.addend % (2 ^ Bits(Kind(r.kind)))]}

(* Wrong variant: the number of the relocation for that of its symbol.     *)
RelocationByNumber(r) ==
  [offset |-> r.offset, kind |-> Kind(r.kind), symbol |-> next,
   addend |-> r.addend]

Relocation(r) ==
  [offset |-> r.offset, kind |-> Kind(r.kind), symbol |-> r.symbol_index,
   addend |-> r.addend]

(* The section with a relocation more, and its addend in the code.         *)
Relocated(code, r) ==
  [name |-> code.name, size |-> code.size,
   relocations |-> Append(code.relocations, Relocation(r)),
   fields |-> FieldsWith(code.fields, r)]

TranslateRelocation ==
  /\ stage = "relocations"
  /\ next <= Len(bso[1].relocations)
  /\ Acceptable(RelocationRecord)
  /\ object' = [sections |-> <<Relocated(object.sections[1], RelocationRecord)>>,
                symbols  |-> object.symbols]
  /\ next' = next + 1
  /\ UNCHANGED <<bas, format, stage, success, temp, writer>>

RejectRelocation ==
  /\ stage = "relocations"
  /\ next <= Len(bso[1].relocations)
  /\ ~Acceptable(RelocationRecord)
  /\ Leave

EndRelocations ==
  /\ stage = "relocations"
  /\ next > Len(bso[1].relocations)
  /\ stage' = "write"
  /\ UNCHANGED <<bas, format, success, temp, next, object, writer>>

(* The file cannot be read, or memory runs out.                            *)
TranslationFails ==
  /\ stage \in {"bas", "symbols", "relocations"}
  /\ pc = "done"
  /\ format # "bin"
  /\ Leave

-----------------------------------------------------------------------------
(* A BSO file counts with 32 bits, which is more symbols and bytes than a  *)
(* Mach-O file can have: what a reader finds in a file whose numbers were  *)
(* cut is not modelled, and the file counts as written.                    *)
WriteCut == File!Cut /\ file' = {}

WriteObject ==
  /\ stage = "write"
  /\ File!Finish \/ File!Give \/ WriteCut
  /\ success' = (result' # "failed")
  /\ stage' = "cleanup"
  /\ UNCHANGED <<bas, format, temp, next>>

(* Wrong variant: only a failure removes the file.                         *)
RemovedOnFailure == IF success THEN temp ELSE [temp EXCEPT !.file = FALSE]

Removed == IF temp.path THEN [temp EXCEPT !.file = FALSE] ELSE temp

(* Wrong variant: the labels are run through again.                        *)
CleanupAgain ==
  /\ stage = "cleanup"
  /\ UNCHANGED vars

Cleanup ==
  /\ stage = "cleanup"
  /\ temp' = Removed
  /\ stage' = "end"
  /\ UNCHANGED <<bas, format, success, next, object, writer>>

Ended ==
  /\ stage = "end"
  /\ UNCHANGED vars

Translate ==
  \/ ReadBso \/ TruncatedBso \/ TranslateSymbol \/ EndSymbols
  \/ TranslateRelocation \/ RejectRelocation \/ EndRelocations

Progress ==
  \/ StartFlat \/ MakeTemp \/ RunBas \/ BasFailed \/ FlatDone
  \/ Translate \/ WriteObject \/ Cleanup

Next == Progress \/ NoTemp \/ TranslationFails \/ Ended

Spec == Init /\ [][Next]_vars

(* One thread, which nothing blocks: it takes its next step.               *)
FairSpec == Spec /\ WF_vars(Progress)

-----------------------------------------------------------------------------
(* Properties.                                                             *)

TypeOK ==
  /\ objectMode = (format # "bin")
  /\ stage \in {"start", "bas", "symbols", "relocations", "write", "cleanup",
                "end"}
  /\ stage = "symbols" => next \in 1 .. Len(bso[1].symbols) + 1
  /\ stage = "relocations" => next \in 1 .. Len(bso[1].relocations) + 1
  /\ object.sections = << >> => object.symbols = << >>
  /\ \A i \in DOMAIN object.symbols :
       object.symbols[i].section \in {0, IF object.symbols[i].defined THEN 1
                                         ELSE 0}
  /\ \A i \in DOMAIN object.sections :
       \A r \in DOMAIN object.sections[i].relocations :
         object.sections[i].relocations[r].symbol \in DOMAIN object.symbols
  /\ result \in {"running", "ok", "unfit", "failed"}

IsRelocated(f) == \E i \in DOMAIN relocs : relocs[i].offset = f.at

Addend(r) == r.addend % (2 ^ (ByteBits * r.kind.width))

(* The object handed to a writer says what bas decided: relocations, whose *)
(* indices are taken over from the BSO file although the symbols went      *)
(* through a table without duplicates, still name the symbol they were     *)
(* made for; each one's field holds its addend, and every other field what *)
(* bas resolved it to; labels are where the layout put them, and names     *)
(* nobody defines are external.                                            *)
TranslationIsFaithful ==
  stage = "write" =>
    LET code == object.sections[1]
    IN  /\ Len(code.relocations) = Len(relocs)
        /\ \A i \in DOMAIN relocs :
             LET r == code.relocations[i]
             IN  /\ object.symbols[r.symbol].name = relocs[i].symbol
                 /\ r.offset = relocs[i].offset
                 /\ r.kind = Kind(relocs[i].kind)
                 /\ {f.value : f \in {g \in code.fields : g.at = r.offset}}
                      = {Addend(relocs[i])}
        /\ \A i \in DOMAIN fields :
             ~IsRelocated(fields[i]) => BareField(fields[i]) \in code.fields
        /\ Cardinality(code.fields) = Len(fields)
        /\ \A i \in DOMAIN object.symbols :
             LET s == object.symbols[i]
             IN  /\ s.defined = Bas!Known(s.name)
                 /\ s.external = ~s.defined
                 /\ s.defined => s.value = Bas!AddressOf(s.name)

Names(t) == {t[i].name : i \in DOMAIN t}

ReferredTo == {relocs[i].symbol : i \in DOMAIN relocs}

(* From the program to the output file: what appears there, if its numbers *)
(* fit the fields of the format, has a symbol for every label and every    *)
(* name the program refers to, except those the formats hide, and a        *)
(* relocation by name for every reference that bas left open; nothing      *)
(* appears for a program that does not assemble; and the result is a       *)
(* success exactly if a whole file was handed to the system.               *)
OutputMeansProgram ==
  /\ \A m \in file :
       /\ {s.name : s \in m.symbols} =
            ((Names(symbols) \cup ReferredTo) \ Hidden)
       /\ {r.name : r \in m.relocations} = ReferredTo
       /\ {<<r.offset, r.name>> : r \in m.relocations} =
            {<<relocs[i].offset, relocs[i].symbol>> : i \in DOMAIN relocs}
  /\ written # "untouched" => pc = "done" /\ output = "written"
  /\ stage = "end" =>
       (success <=> IF format = "bin" THEN pc = "done"
                    ELSE result \in {"ok", "unfit"})

(* The temporary file does not outlive the call, whichever stage failed    *)
(* (bas leaves through a longjmp), unless its name could not be kept when  *)
(* it was made; a flat binary never makes one.                             *)
TemporaryRemoved ==
  /\ stage = "end" /\ temp.file => ~temp.path /\ ~success /\ pc = "read"
  /\ format = "bin" => ~temp.file

(* The call returns, whatever the program includes.                        *)
Terminates == <>(stage = "end")
=============================================================================
