------------------------- MODULE BslashBridge_proofs -------------------------
(***************************************************************************)
(* The bridge proved: the object a writer is given says what bas decided,  *)
(* what appears in the output means the program, and the temporary file    *)
(* does not outlive the call, for all programs and formats.  What bas      *)
(* itself guarantees is cited from BasAssembler_proofs.                    *)
(***************************************************************************)
EXTENDS BslashBridge, FiniteSetTheorems, TLAPS

P == INSTANCE BasAssembler_proofs

-----------------------------------------------------------------------------
(* The inductive invariant.                                                *)

Stages == {"start", "bas", "symbols", "relocations", "write", "cleanup", "end"}

Building == {"symbols", "relocations", "write"}

Over == {"cleanup", "end"}

(* A writer, or bas for a flat binary, decides the result, and only a      *)
(* whole BSO file is translated.                                           *)
StageInv ==
  /\ format \in {"bin", "elf64", "macho"}
  /\ objectMode = (format # "bin")
  /\ stage \in Stages
  /\ result \in {"running", "ok", "unfit", "failed"}
  /\ stage = "start" => pc = "read"
  /\ stage \in {"start", "bas"} => object = EmptyObject /\ next = 1
  /\ stage \in Building => format # "bin" /\ output = "written"
  /\ stage \notin Over =>
       success = FALSE /\ result = "running" /\ written = "untouched" /\ file = {}
  /\ stage \in Over =>
       success = (IF format = "bin" THEN pc = "done"
                  ELSE result = "ok" \/ result = "unfit")
  /\ written # "untouched" => pc = "done" /\ output = "written"

(* The file exists while its path is known, until the cleanup.             *)
TempInv ==
  /\ temp \in [path : BOOLEAN, file : BOOLEAN]
  /\ format = "bin" \/ stage = "start" => ~temp.path /\ ~temp.file
  /\ ~temp.path /\ temp.file => stage \in Over /\ success = FALSE /\ pc = "read"
  /\ stage = "end" => ~temp.path \/ ~temp.file

Table == bso[1].symbols
Records == bso[1].relocations

(* The first n records are in the table t, each as a symbol of its own.    *)
TableMade(t, n) ==
  /\ n \in 0 .. Len(Table)
  /\ t \in Seq({Translated(Table[j], Fresh) : j \in 1 .. Len(Table)})
  /\ Len(t) = n
  /\ \A j \in 1 .. n : t[j] = Translated(Table[j], Fresh)

(* The first n relocations are in q.                                       *)
RelocationsMade(q, n) ==
  /\ n \in 0 .. Len(Records)
  /\ q \in Seq({Relocation(Records[i]) : i \in 1 .. Len(Records)})
  /\ Len(q) = n
  /\ \A i \in 1 .. n : q[i] = Relocation(Records[i])

SameSpan(f, g) == f.at = g.at /\ f.width = g.width

(* The fields fs are those of bas; the first n relocations have put their  *)
(* addends in.                                                             *)
FieldsMade(fs, n) ==
  /\ \A f \in fs : \E k \in 1 .. Len(fields) : SameSpan(f, fields[k])
  /\ \A f, g \in fs : f.at = g.at => f = g
  /\ \A k \in 1 .. Len(fields) : \E f \in fs :
       /\ SameSpan(f, fields[k])
       /\ (\A i \in 1 .. n : relocs[i].offset # fields[k].at) =>
            f = BareField(fields[k])
       /\ \A i \in 1 .. n :
            relocs[i].offset = fields[k].at => f.value = Addend(relocs[i])

CodeMade(c, n) == RelocationsMade(c.relocations, n) /\ FieldsMade(c.fields, n)

(* At stage st, with n the record read next, the object o has one section  *)
(* and as many symbols and relocations as have been read.                  *)
TranslationOf(st, o, n) ==
  /\ n \in Nat \ {0}
  /\ st \in Building => o.sections = <<o.sections[1]>>
  /\ st = "symbols" => TableMade(o.symbols, n - 1) /\ CodeMade(o.sections[1], 0)
  /\ st = "relocations" =>
       /\ TableMade(o.symbols, Len(Table))
       /\ CodeMade(o.sections[1], n - 1)
  /\ st = "write" =>
       /\ TableMade(o.symbols, Len(Table))
       /\ CodeMade(o.sections[1], Len(Records))

TranslationInv == TranslationOf(stage, object, next)

(* What TypeOK says of an object, which a failure may leave half made.     *)
WellFormed(o) ==
  /\ o.sections = << >> => o.symbols = << >>
  /\ \A i \in DOMAIN o.symbols :
       o.symbols[i].section \in {0, IF o.symbols[i].defined THEN 1 ELSE 0}
  /\ \A i \in DOMAIN o.sections : \A r \in DOMAIN o.sections[i].relocations :
       o.sections[i].relocations[r].symbol \in DOMAIN o.symbols

(* A reader finds the program's names and the relocations bas left.        *)
Means(m) ==
  /\ {s.name : s \in m.symbols} = (Names(symbols) \cup ReferredTo) \ Hidden
  /\ {r.name : r \in m.relocations} = ReferredTo
  /\ {<<r.offset, r.name>> : r \in m.relocations} =
       {<<relocs[i].offset, relocs[i].symbol>> : i \in DOMAIN relocs}

BridgeInv ==
  /\ P!Inv
  /\ StageInv
  /\ TempInv
  /\ TranslationInv
  /\ WellFormed(object)
  /\ \A m \in file : Means(m)

-----------------------------------------------------------------------------
(* What is proved of bas, for the bas of the bridge.                       *)

LEMMA SameBas ==
  (Bas!Init <=> P!Init) /\ (Bas!Next <=> P!Next) /\ bas = P!vars
<1>1. Bas!Init <=> P!Init
  BY DEF Bas!Init, P!Init, Bas!Frame, P!Frame
<1>2. Bas!Next <=> P!Next
  <2>1. \A s : Bas!References(s) = P!References(s)
    BY DEF Bas!FormReference, Bas!HeadBytes, Bas!LoopReference,
           Bas!NamedOperand, Bas!Number, Bas!Operand, Bas!Reference,
           Bas!References, Bas!Repeaters, Bas!Selected, Bas!ValueReferences,
           P!FormReference, P!HeadBytes, P!LoopReference, P!NamedOperand,
           P!Number, P!Operand, P!Reference, P!References, P!Repeaters,
           P!Selected, P!ValueReferences
  <2>2. \A s : Bas!BytesWritten(s) = P!BytesWritten(s)
    BY DEF Bas!BytesWritten, Bas!FormBytes, Bas!HeadBytes, Bas!NamedOperand,
           Bas!Operand, Bas!OperandBytes, Bas!Repeaters, P!BytesWritten,
           P!FormBytes, P!HeadBytes, P!NamedOperand, P!Operand,
           P!OperandBytes, P!Repeaters
  <2>3. \A r, i : Bas!Encodable(r, i) <=> P!Encodable(r, i)
    BY DEF Bas!AddressOf, Bas!After, Bas!Bits, Bas!Displacement,
           Bas!Encodable, Bas!Known, Bas!Signed, Bas!SignedFits,
           Bas!SignedIn, Bas!UnsignedFits, Bas!ValueForMode, Bas!Word,
           Bas!next_ip, P!AddressOf, P!After, P!Bits, P!Displacement,
           P!Encodable, P!Known, P!Signed, P!SignedFits, P!SignedIn,
           P!UnsignedFits, P!ValueForMode, P!Word, P!next_ip
  <2>4. \A r, i : Bas!NewFields(r, i) = P!NewFields(r, i)
    BY DEF Bas!AddressOf, Bas!After, Bas!Bits, Bas!Displacement, Bas!Field,
           Bas!FieldValue, Bas!Known, Bas!NewFields, Bas!Signed,
           Bas!SignedIn, Bas!Truncated, Bas!ValueForMode, Bas!Word,
           Bas!next_ip, P!AddressOf, P!After, P!Bits, P!Displacement,
           P!Field, P!FieldValue, P!Known, P!NewFields, P!Signed,
           P!SignedIn, P!Truncated, P!ValueForMode, P!Word, P!next_ip
  <2>5. \A r, i : Bas!NewRelocs(r, i) = P!NewRelocs(r, i)
    BY DEF Bas!Addend, Bas!After, Bas!Bits, Bas!NewRelocs, Bas!Reloc,
           Bas!Signed, Bas!SignedIn, Bas!Word, Bas!next_ip, P!Addend,
           P!After, P!Bits, P!NewRelocs, P!Reloc, P!Signed, P!SignedIn,
           P!Word, P!next_ip
  <2>6. \A r : Bas!Relocated(r) = P!Relocated(r)
    BY DEF Bas!Known, Bas!NeedsReloc, Bas!Relocated, Bas!Selected, P!Known,
           P!NeedsReloc, P!Relocated, P!Selected
  <2>7. Bas!Label <=> P!Label
    BY DEF Bas!After, Bas!Bits, Bas!Frame, Bas!Here, Bas!InFile, Bas!Known,
           Bas!Label, Bas!Stepped, Bas!Symbol, Bas!Top, Bas!Word,
           Bas!encoding, Bas!files, Bas!local_pc, Bas!source, P!After,
           P!Bits, P!Frame, P!Here, P!InFile, P!Known, P!Label, P!Stepped,
           P!Symbol, P!Top, P!Word, P!encoding, P!files, P!local_pc,
           P!source
  <2>8. Bas!DuplicateLabel <=> P!DuplicateLabel
    BY DEF Bas!DuplicateLabel, Bas!Fail, Bas!Here, Bas!InFile, Bas!Known,
           Bas!Top, Bas!encoding, Bas!files, Bas!reading, Bas!source,
           P!DuplicateLabel, P!Fail, P!Here, P!InFile, P!Known, P!Top,
           P!encoding, P!files, P!reading, P!source
  <2>9. Bas!AddItem <=> P!AddItem
    BY DEF Bas!AddItem, Bas!After, Bas!Bits, Bas!Emit, Bas!Frame, Bas!Here,
           Bas!InFile, Bas!Item, Bas!RepeatedForms, Bas!Repeaters, Bas!Size,
           Bas!Stepped, Bas!TableSize, Bas!Top, Bas!Word, Bas!encoding,
           Bas!files, Bas!local_pc, Bas!source, P!AddItem, P!After, P!Bits,
           P!Emit, P!Frame, P!Here, P!InFile, P!Item, P!RepeatedForms,
           P!Repeaters, P!Size, P!Stepped, P!TableSize, P!Top, P!Word,
           P!encoding, P!files, P!local_pc, P!source
  <2>10. Bas!RejectRepeated <=> P!RejectRepeated
    BY DEF Bas!Fail, Bas!Here, Bas!InFile, Bas!RejectRepeated,
           Bas!RepeatedForms, Bas!Top, Bas!encoding, Bas!files, Bas!reading,
           Bas!source, P!Fail, P!Here, P!InFile, P!RejectRepeated,
           P!RepeatedForms, P!Top, P!encoding, P!files, P!reading, P!source
  <2>11. Bas!AddString <=> P!AddString
    BY DEF Bas!AddString, Bas!After, Bas!Bits, Bas!Emit, Bas!Frame,
           Bas!Here, Bas!InFile, Bas!Item, Bas!Repeaters, Bas!Size,
           Bas!Stepped, Bas!TableSize, Bas!Top, Bas!Word, Bas!encoding,
           Bas!files, Bas!local_pc, Bas!source, P!AddString, P!After,
           P!Bits, P!Emit, P!Frame, P!Here, P!InFile, P!Item, P!Repeaters,
           P!Size, P!Stepped, P!TableSize, P!Top, P!Word, P!encoding,
           P!files, P!local_pc, P!source
  <2>12. Bas!Incbin <=> P!Incbin
    BY DEF Bas!After, Bas!Bits, Bas!Bytes, Bas!Emit, Bas!Frame, Bas!Here,
           Bas!InFile, Bas!Incbin, Bas!IncbinFits, Bas!Item, Bas!Repeaters,
           Bas!Size, Bas!Stepped, Bas!TableSize, Bas!Top, Bas!Word,
           Bas!encoding, Bas!files, Bas!local_pc, Bas!source, P!After,
           P!Bits, P!Bytes, P!Emit, P!Frame, P!Here, P!InFile, P!Incbin,
           P!IncbinFits, P!Item, P!Repeaters, P!Size, P!Stepped,
           P!TableSize, P!Top, P!Word, P!encoding, P!files, P!local_pc,
           P!source
  <2>13. Bas!RejectIncbin <=> P!RejectIncbin
    BY DEF Bas!Bits, Bas!Fail, Bas!Here, Bas!InFile, Bas!IncbinFits,
           Bas!RejectIncbin, Bas!Top, Bas!Word, Bas!encoding, Bas!files,
           Bas!local_pc, Bas!reading, Bas!source, P!Bits, P!Fail, P!Here,
           P!InFile, P!IncbinFits, P!RejectIncbin, P!Top, P!Word,
           P!encoding, P!files, P!local_pc, P!reading, P!source
  <2>14. Bas!Align <=> P!Align
    BY DEF Bas!After, Bas!Align, Bas!Bits, Bas!Bytes, Bas!Emit, Bas!Frame,
           Bas!Here, Bas!InFile, Bas!Item, Bas!Padding, Bas!Repeaters,
           Bas!Size, Bas!Stepped, Bas!TableSize, Bas!Top, Bas!Word,
           Bas!encoding, Bas!files, Bas!local_pc, Bas!source, P!After,
           P!Align, P!Bits, P!Bytes, P!Emit, P!Frame, P!Here, P!InFile,
           P!Item, P!Padding, P!Repeaters, P!Size, P!Stepped, P!TableSize,
           P!Top, P!Word, P!encoding, P!files, P!local_pc, P!source
  <2>15. Bas!SetOrigin <=> P!SetOrigin
    BY DEF Bas!After, Bas!Bits, Bas!Frame, Bas!Here, Bas!InFile,
           Bas!SetOrigin, Bas!Stepped, Bas!Top, Bas!Word, Bas!encoding,
           Bas!files, Bas!local_pc, Bas!source, P!After, P!Bits, P!Frame,
           P!Here, P!InFile, P!SetOrigin, P!Stepped, P!Top, P!Word,
           P!encoding, P!files, P!local_pc, P!source
  <2>16. Bas!OriginTwice <=> P!OriginTwice
    BY DEF Bas!Fail, Bas!Here, Bas!InFile, Bas!OriginTwice, Bas!Top,
           Bas!encoding, Bas!files, Bas!reading, Bas!source, P!Fail, P!Here,
           P!InFile, P!OriginTwice, P!Top, P!encoding, P!files, P!reading,
           P!source
  <2>17. Bas!Include <=> P!Include
    BY DEF Bas!After, Bas!Bits, Bas!Enters, Bas!Frame, Bas!Here, Bas!InFile,
           Bas!Include, Bas!Interned, Bas!Stepped, Bas!Top, Bas!Word,
           Bas!encoding, Bas!files, Bas!local_pc, Bas!source, P!After,
           P!Bits, P!Enters, P!Frame, P!Here, P!InFile, P!Include,
           P!Interned, P!Stepped, P!Top, P!Word, P!encoding, P!files,
           P!local_pc, P!source
  <2>18. Bas!SkipInclude <=> P!SkipInclude
    BY DEF Bas!After, Bas!Bits, Bas!Enters, Bas!Frame, Bas!Here, Bas!InFile,
           Bas!SkipInclude, Bas!Stepped, Bas!Top, Bas!Word, Bas!encoding,
           Bas!files, Bas!local_pc, Bas!source, P!After, P!Bits, P!Enters,
           P!Frame, P!Here, P!InFile, P!SkipInclude, P!Stepped, P!Top,
           P!Word, P!encoding, P!files, P!local_pc, P!source
  <2>19. Bas!CannotInclude <=> P!CannotInclude
    BY DEF Bas!CannotInclude, Bas!Enters, Bas!Fail, Bas!Here, Bas!InFile,
           Bas!Top, Bas!encoding, Bas!files, Bas!reading, Bas!source,
           P!CannotInclude, P!Enters, P!Fail, P!Here, P!InFile, P!Top,
           P!encoding, P!files, P!reading, P!source
  <2>20. Bas!EndOfFile <=> P!EndOfFile
    BY DEF Bas!EndOfFile, Bas!Frame, Bas!Resumed, Bas!Top, Bas!encoding,
           Bas!files, Bas!local_pc, Bas!source, P!EndOfFile, P!Frame,
           P!Resumed, P!Top, P!encoding, P!files, P!local_pc, P!source
  <2>21. Bas!EndReading <=> P!EndReading
    BY DEF Bas!EndReading, Bas!encoding, Bas!files, Bas!reading, Bas!source,
           P!EndReading, P!encoding, P!files, P!reading, P!source
  <2>22. Bas!PlaceLiteral <=> P!PlaceLiteral
    BY DEF Bas!After, Bas!Bits, Bas!Bytes, Bas!Item, Bas!Known,
           Bas!PlaceLiteral, Bas!Repeaters, Bas!Size, Bas!Symbol,
           Bas!TableSize, Bas!Word, Bas!encoding, Bas!files, Bas!source,
           P!After, P!Bits, P!Bytes, P!Item, P!Known, P!PlaceLiteral,
           P!Repeaters, P!Size, P!Symbol, P!TableSize, P!Word, P!encoding,
           P!files, P!source
  <2>23. Bas!LiteralLabelTaken <=> P!LiteralLabelTaken
    BY DEF Bas!Fail, Bas!Known, Bas!LiteralLabelTaken, Bas!encoding,
           Bas!files, Bas!reading, Bas!source, P!Fail, P!Known,
           P!LiteralLabelTaken, P!encoding, P!files, P!reading, P!source
  <2>24. Bas!EndLiterals <=> P!EndLiterals
    BY DEF Bas!EndLiterals, Bas!encoding, Bas!files, Bas!reading,
           Bas!source, P!EndLiterals, P!encoding, P!files, P!reading,
           P!source
  <2>25. Bas!EncodeItem <=> P!EncodeItem
    BY <2>1, <2>2, <2>3, <2>4, <2>5, <2>6 DEF Bas!Current, Bas!EncodeItem, Bas!files, Bas!reading, Bas!source,
           P!Current, P!EncodeItem, P!files, P!reading, P!source
  <2>26. Bas!RejectItem <=> P!RejectItem
    BY <2>1, <2>3 DEF Bas!Current, Bas!Fail, Bas!RejectItem, Bas!encoding, Bas!files,
           Bas!reading, Bas!source, P!Current, P!Fail, P!RejectItem,
           P!encoding, P!files, P!reading, P!source
  <2>27. Bas!EndEncode <=> P!EndEncode
    BY DEF Bas!EndEncode, Bas!encoding, Bas!files, Bas!reading, Bas!source,
           P!EndEncode, P!encoding, P!files, P!reading, P!source
  <2>28. Bas!Write <=> P!Write
    BY DEF Bas!Bits, Bas!Contents, Bas!FirstUses, Bas!FitsObject, Bas!Known,
           Bas!RelocationRecords, Bas!Selected, Bas!SymbolIndex,
           Bas!SymbolRecord, Bas!SymbolRecords, Bas!Word, Bas!Write,
           Bas!encoding, Bas!reading, Bas!source, P!Bits, P!Contents,
           P!FirstUses, P!FitsObject, P!Known, P!RelocationRecords,
           P!Selected, P!SymbolIndex, P!SymbolRecord, P!SymbolRecords,
           P!Word, P!Write, P!encoding, P!reading, P!source
  <2>29. Bas!TooLarge <=> P!TooLarge
    BY DEF Bas!Bits, Bas!Fail, Bas!FitsObject, Bas!TooLarge, Bas!Word,
           Bas!encoding, Bas!files, Bas!reading, Bas!source, P!Bits, P!Fail,
           P!FitsObject, P!TooLarge, P!Word, P!encoding, P!files, P!reading,
           P!source
  <2>30. Bas!WriteFails <=> P!WriteFails
    BY DEF Bas!Bits, Bas!FitsObject, Bas!Word, Bas!WriteFails, Bas!encoding,
           Bas!reading, Bas!source, P!Bits, P!FitsObject, P!Word,
           P!WriteFails, P!encoding, P!reading, P!source
  <2>31. Bas!Abort <=> P!Abort
    BY DEF Bas!Abort, Bas!Fail, Bas!encoding, Bas!files, Bas!reading,
           Bas!source, P!Abort, P!Fail, P!encoding, P!files, P!reading,
           P!source
  <2>32. Bas!Terminated <=> P!Terminated
    BY DEF Bas!Terminated, Bas!vars, P!Terminated, P!vars
  <2> QED
    BY <2>7, <2>8, <2>9, <2>10, <2>11, <2>12, <2>13, <2>14, <2>15, <2>16,
       <2>17, <2>18, <2>19, <2>20, <2>21, <2>22, <2>23, <2>24, <2>25, <2>26,
       <2>27, <2>28, <2>29, <2>30, <2>31, <2>32
    DEF Bas!Next, P!Next, Bas!Progress, P!Progress
<1>3. bas = P!vars
  BY DEF bas, P!vars
<1> QED
  BY <1>1, <1>2, <1>3

(* The bridge assumes of its constants what bas does.                      *)
LEMMA BasAssumptions ==
  /\ P!WordAssumption /\ P!OpenAssumption /\ P!RootAssumption
  /\ P!ProgramsAssumption /\ P!OriginAssumption
<1>1. P!ProgramsAssumption
  BY ProgramsAssumption
     DEF Bas!IsStatement, P!IsStatement, Bas!Word, P!Word, Bas!Bits, P!Bits,
         Bas!TableSize, P!TableSize, Bas!Repeaters, P!Repeaters,
         IsFiniteSet, P!IsFiniteSet
<1>2. P!OriginAssumption
  BY OriginAssumption DEF Bas!Word, P!Word, Bas!Bits, P!Bits
<1> QED
  BY <1>1, <1>2, WordAssumption, OpenAssumption, RootAssumption

LEMMA BasStarts == Bas!Init => P!Inv
BY SameBas, P!InitInv, BasAssumptions

LEMMA BasSteps ==
  P!Inv /\ [Bas!Next]_bas => P!Inv' /\ objectMode' = objectMode
<1>1. UNCHANGED bas => UNCHANGED P!vars
  BY DEF bas, P!vars
<1>2. [Bas!Next]_bas => [P!Next]_(P!vars)
  BY SameBas, <1>1
<1>3. P!Inv /\ [P!Next]_(P!vars) => P!Inv'
  BY P!StepInv, BasAssumptions
<1>4. P!Inv /\ [P!Next]_(P!vars) => objectMode' = objectMode
  BY P!SourceKept, BasAssumptions DEF P!Inv, P!source
<1> QED
  BY <1>2, <1>3, <1>4

LEMMA BasHandsOver ==
  ASSUME P!Inv, objectMode, output = "written"
  PROVE  pc = "done" /\ P!Handover
BY P!HandedOver, BasAssumptions

-----------------------------------------------------------------------------
(* The stages and the temporary file.                                      *)

LEMMA InitHolds == Init => BridgeInv
<1> SUFFICES ASSUME Init
             PROVE  BridgeInv
  OBVIOUS
<1>1. P!Inv
  BY BasStarts DEF Init
<1>2. pc = "read" /\ StageInv /\ TempInv
  <2>1. pc = "read"
    BY DEF Init, Bas!Init
  <2> QED
    BY <2>1 DEF Init, StageInv, TempInv, Stages, Building, Over
<1>3. TranslationInv
  BY DEF Init, TranslationInv, TranslationOf, Building
<1>4. WellFormed(object) /\ file = {}
  BY DEF Init, EmptyObject, WellFormed
<1> QED
  BY <1>1, <1>2, <1>3, <1>4 DEF BridgeInv

(* The actions by what they leave alone.                                   *)
Leaves == BasFailed \/ TruncatedBso \/ RejectRelocation \/ TranslationFails

LEMMA StepKinds ==
  ASSUME [Next]_vars
  PROVE  \/ StartFlat \/ MakeTemp \/ NoTemp \/ RunBas \/ Leaves \/ FlatDone
         \/ ReadBso \/ TranslateSymbol \/ EndSymbols \/ TranslateRelocation
         \/ EndRelocations \/ WriteObject \/ Cleanup \/ UNCHANGED vars
BY DEF Next, Progress, Translate, Leaves, Ended

LEMMA LeavesFacts ==
  ASSUME Leaves
  PROVE  Leave /\ stage \in {"bas", "symbols", "relocations"}
BY DEF Leaves, BasFailed, TruncatedBso, RejectRelocation, TranslationFails

(* The state of bas changes only while it runs, and only then.             *)
LEMMA BasKept ==
  ASSUME [Next]_vars, ~RunBas
  PROVE  UNCHANGED bas
<1>1. CASE Leaves
  BY <1>1, LeavesFacts DEF Leave
<1>2. CASE UNCHANGED vars
  BY <1>2 DEF vars
<1>3. CASE StartFlat \/ MakeTemp \/ NoTemp \/ FlatDone \/ ReadBso
  BY <1>3 DEF StartFlat, MakeTemp, NoTemp, FlatDone, ReadBso
<1>4. CASE TranslateSymbol \/ EndSymbols \/ TranslateRelocation \/ EndRelocations
  BY <1>4 DEF TranslateSymbol, EndSymbols, TranslateRelocation, EndRelocations
<1>5. CASE WriteObject \/ Cleanup
  BY <1>5 DEF WriteObject, Cleanup
<1> QED
  BY StepKinds, <1>1, <1>2, <1>3, <1>4, <1>5

LEMMA BasInvKept == P!Inv /\ [Next]_vars => P!Inv' /\ objectMode' = objectMode
BY BasKept, BasSteps DEF RunBas

(* A BSO file that is whole was written by a run of bas to its end.        *)
LEMMA Handed ==
  ASSUME P!Inv, StageInv, stage \in Building
  PROVE  pc = "done" /\ P!Handover
BY BasHandsOver DEF StageInv

LEMMA StagePreserved == P!Inv /\ StageInv /\ [Next]_vars => StageInv'
<1> SUFFICES ASSUME P!Inv, StageInv, [Next]_vars
             PROVE  StageInv'
  OBVIOUS
<1> USE DEF StageInv, Stages, Building, Over
<1>1. P!Inv' /\ objectMode' = objectMode
  BY BasInvKept
<1>2. CASE RunBas
  BY <1>1, <1>2 DEF RunBas, bridge, writer
<1>3. CASE StartFlat \/ MakeTemp \/ NoTemp
  <2>1. pc' = pc /\ output' = output
    BY <1>3 DEF StartFlat, MakeTemp, NoTemp, bas
  <2> QED
    BY <1>1, <1>3, <2>1 DEF StartFlat, MakeTemp, NoTemp, writer
<1>4. CASE Leaves
  <2>1. pc' = pc /\ output' = output
    BY <1>4, LeavesFacts DEF Leave, bas
  <2>2. format = "bin" => pc # "done"
    BY <1>4 DEF Leaves, BasFailed, TruncatedBso, RejectRelocation, TranslationFails
  <2> QED
    BY <1>1, <1>4, <2>1, <2>2, LeavesFacts DEF Leave, writer
<1>5. CASE FlatDone
  <2>1. pc' = pc /\ output' = output
    BY <1>5 DEF FlatDone, bas
  <2> QED
    BY <1>1, <1>5, <2>1 DEF FlatDone, writer
<1>6. CASE ReadBso
  <2>1. pc' = pc /\ output' = output
    BY <1>6 DEF ReadBso, bas
  <2> QED
    BY <1>1, <1>6, <2>1 DEF ReadBso, writer
<1>7. CASE TranslateSymbol \/ EndSymbols \/ TranslateRelocation \/ EndRelocations
  <2>1. UNCHANGED <<bas, format, success, writer>> /\ stage' \in Building
        /\ stage \in Building
    BY <1>7 DEF TranslateSymbol, EndSymbols, TranslateRelocation, EndRelocations
  <2>2. pc' = pc /\ output' = output
    BY <2>1 DEF bas
  <2> QED
    BY <1>1, <2>1, <2>2 DEF writer
<1>8. CASE WriteObject
  <2>1. pc' = pc /\ output' = output
    BY <1>8 DEF WriteObject, bas
  <2>2. pc = "done"
    BY <1>8, Handed DEF WriteObject
  <2>3. result' \in {"ok", "unfit", "failed"}
    BY <1>8 DEF WriteObject, WriteCut, File!Finish, File!Give, File!Cut
  <2> QED
    BY <1>1, <1>8, <2>1, <2>2, <2>3 DEF WriteObject
<1>9. CASE Cleanup
  <2>1. pc' = pc /\ output' = output
    BY <1>9 DEF Cleanup, bas
  <2> QED
    BY <1>1, <1>9, <2>1 DEF Cleanup, writer
<1>10. CASE UNCHANGED vars
  BY <1>10 DEF vars, bas, bridge, writer
<1> QED
  BY StepKinds, <1>2, <1>3, <1>4, <1>5, <1>6, <1>7, <1>8, <1>9, <1>10

LEMMA TempPreserved == P!Inv /\ StageInv /\ TempInv /\ [Next]_vars => TempInv'
<1> SUFFICES ASSUME P!Inv, StageInv, TempInv, [Next]_vars
             PROVE  TempInv'
  OBVIOUS
<1> USE DEF TempInv, StageInv, Stages, Building, Over
<1>1. ~RunBas => pc' = pc
  BY BasKept DEF bas
<1>2. CASE StartFlat \/ FlatDone \/ ReadBso \/ TranslateSymbol \/ EndSymbols
           \/ TranslateRelocation \/ EndRelocations \/ WriteObject
  <2>1. temp' = temp /\ format' = format /\ stage # "end" /\ stage' # "end"
        /\ stage \notin Over /\ (stage' = "start" => stage = "start")
    BY <1>2 DEF StartFlat, FlatDone, ReadBso, TranslateSymbol, EndSymbols,
                TranslateRelocation, EndRelocations, WriteObject
  <2> QED
    BY <2>1
<1>3. CASE RunBas
  BY <1>3 DEF RunBas, bridge
<1>4. CASE Leaves
  BY <1>4, LeavesFacts DEF Leave
<1>5. CASE MakeTemp
  BY <1>5 DEF MakeTemp
<1>6. CASE NoTemp
  <2>1. /\ temp.path = FALSE /\ stage' = "cleanup" /\ format' = format
        /\ format # "bin" /\ success' = FALSE /\ pc' = "read"
    <3>1. ~RunBas
      BY <1>6 DEF NoTemp, RunBas
    <3> QED
      BY <1>1, <1>6, <3>1 DEF NoTemp
  <2>2. temp' \in [path : BOOLEAN, file : BOOLEAN] /\ temp'.path = FALSE
    BY <1>6, <2>1 DEF NoTemp
  <2> QED
    BY <2>1, <2>2
<1>7. CASE Cleanup
  <2>1. /\ stage' = "end" /\ format' = format /\ success' = success
        /\ stage = "cleanup" /\ pc' = pc
    <3>1. ~RunBas
      BY <1>7 DEF Cleanup, RunBas
    <3> QED
      BY <1>1, <1>7, <3>1 DEF Cleanup
  <2>2. CASE temp.path
    <3>1. temp' \in [path : BOOLEAN, file : BOOLEAN] /\ temp'.path = temp.path
          /\ temp'.file = FALSE
      BY <1>7, <2>2 DEF Cleanup, Removed
    <3> QED
      BY <2>1, <2>2, <3>1
  <2>3. CASE ~temp.path
    <3>1. temp' = temp
      BY <1>7, <2>3 DEF Cleanup, Removed
    <3> QED
      BY <2>1, <2>3, <3>1
  <2> QED
    BY <2>2, <2>3
<1>8. CASE UNCHANGED vars
  BY <1>8 DEF vars, bas, bridge
<1> QED
  BY StepKinds, <1>2, <1>3, <1>4, <1>5, <1>6, <1>7, <1>8

-----------------------------------------------------------------------------
(* The translation, record by record.                                      *)

(* Every kind of the file has one of the object's.                         *)
LEMMA KindFacts ==
  ASSUME NEW k \in P!Kinds, k.rel => k.width \in {1, 4}
  PROVE  /\ Kind(k) \in DOMAIN Widths
         /\ Width(Kind(k)) = k.width /\ Relative(Kind(k)) = k.rel
<1>1. k.rel \in BOOLEAN /\ k.width \in {1, 2, 4, 8}
  BY DEF P!Kinds, P!Widths
<1>2. \E kind \in DOMAIN Widths : Width(kind) = k.width /\ Relative(kind) = k.rel
  <2>1. CASE k.rel = TRUE
    BY <1>1, <2>1 DEF Widths, Width, Relative
  <2>2. CASE k.rel = FALSE
    BY <1>1, <2>2 DEF Widths, Width, Relative
  <2> QED
    BY <1>1, <2>1, <2>2
<1> QED
  BY <1>2 DEF Kind

LEMMA FieldsApart ==
  ASSUME P!FieldsRead,
         NEW j \in 1 .. Len(fields), NEW k \in 1 .. Len(fields), j # k
  PROVE  /\ fields[j].at \in Nat /\ fields[j].width \in Nat \ {0}
         /\ fields[k].at \in Nat /\ fields[k].width \in Nat \ {0}
         /\ \/ fields[j].at + fields[j].width <= fields[k].at
            \/ fields[k].at + fields[k].width <= fields[j].at
         /\ fields[j].at # fields[k].at
<1>1. /\ fields[j].at \in Nat /\ fields[j].width \in Nat \ {0}
      /\ fields[k].at \in Nat /\ fields[k].width \in Nat \ {0}
  BY DEF P!FieldsRead, P!Widths
<1>2. \/ fields[j].at + fields[j].width <= fields[k].at
      \/ fields[k].at + fields[k].width <= fields[j].at
  <2>1. j < k \/ k < j
    BY DEF P!FieldsRead
  <2> QED
    BY <2>1 DEF P!FieldsRead
<1> QED
  BY <1>1, <1>2

LEMMA Appended ==
  ASSUME NEW S, NEW q \in Seq(S), NEW x \in S
  PROVE  /\ Append(q, x) \in Seq(S) /\ Len(Append(q, x)) = Len(q) + 1
         /\ \A i \in 1 .. Len(q) : Append(q, x)[i] = q[i]
         /\ Append(q, x)[Len(q) + 1] = x
OBVIOUS

LEMMA CodeStarts ==
  ASSUME P!Handover
  PROVE  CodeMade(CodeSection, 0)
<1> DEFINE fs == {BareField(fields[i]) : i \in DOMAIN fields}
<1>1. CodeSection.relocations = << >> /\ CodeSection.fields = fs
  BY DEF CodeSection
<1>2. P!FieldsRead /\ Len(Records) \in Nat
  BY DEF P!Handover, P!RelocationsRead, Records
<1>3. RelocationsMade(<< >>, 0)
  BY <1>2 DEF RelocationsMade
<1>4. \A i \in 1 .. Len(fields) : SameSpan(BareField(fields[i]), fields[i])
  BY DEF SameSpan, BareField
<1>5. DOMAIN fields = 1 .. Len(fields)
  BY <1>2 DEF P!FieldsRead
<1>6. \A f \in fs : \E i \in 1 .. Len(fields) :
        f = BareField(fields[i]) /\ f.at = fields[i].at
  BY <1>5 DEF BareField
<1>7. \A f, g \in fs : f.at = g.at => f = g
  BY <1>2, <1>6, FieldsApart
<1>8. \A k \in 1 .. Len(fields) : BareField(fields[k]) \in fs
  BY <1>5
<1> HIDE DEF fs
<1>9. FieldsMade(fs, 0)
  BY <1>4, <1>6, <1>7, <1>8 DEF FieldsMade
<1> QED
  BY <1>1, <1>3, <1>9 DEF CodeMade

(* Putting in one addend more changes the field it belongs to, and no      *)
(* other.                                                                  *)
LEMMA FieldsStep ==
  ASSUME P!Handover, NEW n \in Nat, n + 1 \in 1 .. Len(Records),
         NEW fs, FieldsMade(fs, n)
  PROVE  FieldsMade(FieldsWith(fs, Records[n + 1]), n + 1)
<1> DEFINE r == Records[n + 1]
           o == relocs[n + 1]
           w == Width(Kind(r.kind))
           x == [at |-> r.offset, width |-> w,
                 value |-> r.addend % (2 ^ Bits(Kind(r.kind)))]
           new == FieldsWith(fs, r)
<1>1. P!FieldsRead /\ P!RelocationsRead(Records, Table)
  BY DEF P!Handover, Records, Table
<1>2. /\ n + 1 \in 1 .. Len(relocs) /\ Len(relocs) = Len(Records)
      /\ r.offset = o.offset /\ r.kind = o.kind /\ r.addend = o.addend
      /\ o.kind \in P!Kinds /\ (o.kind.rel => o.kind.width \in {1, 4})
  BY <1>1 DEF P!RelocationsRead
<1>3. w = o.kind.width
  BY <1>2, KindFacts
<1>4. x.at = o.offset /\ x.width = o.kind.width /\ x.value = Addend(o)
  <2>1. x.at = r.offset /\ x.width = w /\ x.value = r.addend % (2 ^ (ByteBits * w))
    BY DEF Bits
  <2> HIDE DEF x, w
  <2> QED
    BY <1>2, <1>3, <2>1 DEF Addend
<1>5. new = {f \in fs : Apart(f, x.at, x.width)} \cup {x}
  BY DEF FieldsWith
<1>6. PICK h \in 1 .. Len(fields) : SameSpan(x, fields[h])
  <2>1. PICK h \in 1 .. Len(fields) : fields[h].at = o.offset
                                      /\ fields[h].width = o.kind.width
    BY <1>1, <1>2 DEF P!FieldsRead
  <2> HIDE DEF x
  <2> QED
    BY <1>4, <2>1 DEF SameSpan
<1> HIDE DEF x, w, r, o, new
<1>7. \A f \in fs : \E k \in 1 .. Len(fields) :
        /\ SameSpan(f, fields[k]) /\ (Apart(f, x.at, x.width) <=> k # h)
  <2> SUFFICES ASSUME NEW f \in fs
               PROVE  \E k \in 1 .. Len(fields) :
                        /\ SameSpan(f, fields[k])
                        /\ (Apart(f, x.at, x.width) <=> k # h)
    OBVIOUS
  <2>1. PICK k \in 1 .. Len(fields) : SameSpan(f, fields[k])
    BY DEF FieldsMade
  <2>2. CASE k = h
    <3>1. fields[h].at \in Nat /\ fields[h].width \in Nat \ {0}
      BY <1>1 DEF P!FieldsRead, P!Widths
    <3> QED
      BY <1>6, <2>1, <2>2, <3>1 DEF SameSpan, Apart
  <2>3. CASE k # h
    BY <1>1, <1>6, <2>1, <2>3, FieldsApart DEF SameSpan, Apart
  <2> QED
    BY <2>2, <2>3
<1>8. \A f \in new : \E k \in 1 .. Len(fields) : SameSpan(f, fields[k])
  BY <1>5, <1>6, <1>7
<1>9. \A f \in fs : Apart(f, x.at, x.width) => f.at # x.at
  BY <1>1, <1>6, <1>7, FieldsApart DEF SameSpan
<1>10. \A f, g \in new : f.at = g.at => f = g
  BY <1>5, <1>9 DEF FieldsMade
<1>11. ASSUME NEW k \in 1 .. Len(fields)
       PROVE  \E f \in new :
         /\ SameSpan(f, fields[k])
         /\ (\A i \in 1 .. n + 1 : relocs[i].offset # fields[k].at) =>
              f = BareField(fields[k])
         /\ \A i \in 1 .. n + 1 :
              relocs[i].offset = fields[k].at => f.value = Addend(relocs[i])
  <2>1. CASE k = h
    <3>1. x \in new /\ SameSpan(x, fields[k])
      BY <1>5, <1>6, <2>1
    <3>2. relocs[n + 1].offset = fields[k].at /\ x.value = Addend(relocs[n + 1])
      BY <1>4, <3>1 DEF o, SameSpan
    <3>3. \A i \in 1 .. n : relocs[i].offset # fields[k].at
      <4>1. \A i \in 1 .. n : relocs[i].offset < relocs[n + 1].offset
        BY <1>1, <1>2 DEF P!RelocationsRead
      <4>2. fields[k].at \in Nat
        BY <1>1 DEF P!FieldsRead
      <4> QED
        BY <3>2, <4>1, <4>2
    <3>4. \A i \in 1 .. n + 1 : i = n + 1 \/ i \in 1 .. n
      OBVIOUS
    <3>5. \A i \in 1 .. n + 1 :
            relocs[i].offset = fields[k].at => x.value = Addend(relocs[i])
      BY <3>2, <3>3, <3>4
    <3>6. n + 1 \in 1 .. n + 1
      OBVIOUS
    <3> QED
      BY <3>1, <3>2, <3>5, <3>6
  <2>2. CASE k # h
    <3>1. PICK f \in fs :
         /\ SameSpan(f, fields[k])
         /\ (\A i \in 1 .. n : relocs[i].offset # fields[k].at) =>
              f = BareField(fields[k])
         /\ \A i \in 1 .. n :
              relocs[i].offset = fields[k].at => f.value = Addend(relocs[i])
      BY DEF FieldsMade
    <3>2. fields[k].at # fields[h].at
      BY <1>1, <2>2, FieldsApart
    <3>3. f \in new
      <4>1. PICK j \in 1 .. Len(fields) :
              SameSpan(f, fields[j]) /\ (Apart(f, x.at, x.width) <=> j # h)
        BY <1>7
      <4>2. j # h
        BY <3>1, <3>2, <4>1 DEF SameSpan
      <4> QED
        BY <1>5, <4>1, <4>2
    <3>4. relocs[n + 1].offset # fields[k].at
      BY <1>4, <1>6, <3>2 DEF o, SameSpan
    <3>5. \A i \in 1 .. n + 1 : i = n + 1 \/ i \in 1 .. n
      OBVIOUS
    <3>6. \A i \in 1 .. n : i \in 1 .. n + 1
      OBVIOUS
    <3> QED
      BY <3>1, <3>3, <3>4, <3>5, <3>6
  <2> QED
    BY <2>1, <2>2
<1>12. FieldsMade(new, n + 1)
  BY <1>8, <1>10, <1>11 DEF FieldsMade
<1> QED
  BY <1>12 DEF new, r

LEMMA CodeStep ==
  ASSUME P!Handover, NEW n \in Nat, n + 1 \in 1 .. Len(Records),
         NEW c, CodeMade(c, n)
  PROVE  CodeMade(Relocated(c, Records[n + 1]), n + 1)
<1> DEFINE r == Records[n + 1]
           S == {Relocation(Records[i]) : i \in 1 .. Len(Records)}
           q == c.relocations
<1>1. FieldsMade(FieldsWith(c.fields, r), n + 1)
  BY FieldsStep DEF CodeMade
<1>2. /\ Relocated(c, r).relocations = Append(q, Relocation(r))
      /\ Relocated(c, r).fields = FieldsWith(c.fields, r)
  BY DEF Relocated
<1>3. /\ q \in Seq(S) /\ Len(q) = n /\ Len(Records) \in Nat
      /\ \A i \in 1 .. n : q[i] = Relocation(Records[i])
  BY DEF CodeMade, RelocationsMade, P!Handover, P!RelocationsRead, Records
<1>4. Relocation(r) \in S
  OBVIOUS
<1> DEFINE u == Append(q, Relocation(r))
<1>5. /\ u \in Seq(S) /\ Len(u) = n + 1 /\ \A i \in 1 .. n : u[i] = q[i]
      /\ u[n + 1] = Relocation(r)
  <2> HIDE DEF S
  <2> QED
    BY <1>3, <1>4, Appended
<1>6. n + 1 \in 0 .. Len(Records)
  BY <1>3
<1>7. \A i \in 1 .. n + 1 : u[i] = Relocation(Records[i])
  <2>1. \A i \in 1 .. n + 1 : i = n + 1 \/ i \in 1 .. n
    OBVIOUS
  <2> HIDE DEF u
  <2> QED
    BY <1>3, <1>5, <2>1
<1>8. RelocationsMade(u, n + 1)
  <2> HIDE DEF u, q
  <2> QED
    BY <1>5, <1>6, <1>7 DEF RelocationsMade
<1> QED
  BY <1>1, <1>2, <1>8 DEF CodeMade

(* A record's name is not in the table yet, so the symbol is appended.     *)
LEMMA TableStep ==
  ASSUME P!Handover, NEW n \in Nat, n + 1 \in 1 .. Len(Table),
         TableMade(object.symbols, n)
  PROVE  /\ IndexOf(Table[n + 1].name) > Len(object.symbols)
         /\ TableMade(Append(object.symbols, Translated(Table[n + 1], Fresh)), n + 1)
<1> DEFINE r == Table[n + 1]
           S == {Translated(Table[j], Fresh) : j \in 1 .. Len(Table)}
           t == object.symbols
           u == Append(t, Translated(r, Fresh))
<1>1. /\ t \in Seq(S) /\ Len(t) = n
      /\ \A j \in 1 .. n : t[j] = Translated(Table[j], Fresh)
  BY DEF TableMade
<1>2. /\ Len(Table) \in Nat
      /\ \A j, k \in 1 .. Len(Table) : Table[j].name = Table[k].name => j = k
  BY DEF P!Handover, P!SymbolsRead, Table
<1>3. \A j \in 1 .. n : Translated(Table[j], Fresh).name = Table[j].name
  BY DEF Translated
<1>4. IndexOf(r.name) = n + 1
  <2>1. DOMAIN t = 1 .. n
    BY <1>1
  <2>2. \A j \in 1 .. n : j \in 1 .. Len(Table) /\ j # n + 1
    BY <1>2
  <2>3. ~ \E i \in DOMAIN t : t[i].name = r.name
    BY <1>1, <1>2, <1>3, <2>1, <2>2
  <2> QED
    BY <1>1, <2>3 DEF IndexOf
<1>5. Translated(r, Fresh) \in S
  OBVIOUS
<1>6. /\ u \in Seq(S) /\ Len(u) = n + 1 /\ \A i \in 1 .. n : u[i] = t[i]
      /\ u[n + 1] = Translated(r, Fresh)
  <2> HIDE DEF S
  <2> QED
    BY <1>1, <1>5, Appended
<1>7. \A i \in 1 .. n + 1 : u[i] = Translated(Table[i], Fresh)
  <2>1. \A i \in 1 .. n + 1 : i = n + 1 \/ i \in 1 .. n
    OBVIOUS
  <2> HIDE DEF u
  <2> QED
    BY <1>1, <1>6, <2>1
<1>8. n + 1 \in 0 .. Len(Table)
  BY <1>2
<1>9. TableMade(u, n + 1)
  <2> HIDE DEF u
  <2> QED
    BY <1>6, <1>7, <1>8 DEF TableMade
<1> QED
  BY <1>1, <1>4, <1>9

(* What the translation is measured by stays the same.                     *)
LEMMA TranslationMoves ==
  ASSUME UNCHANGED bas, TranslationOf(stage', object', next')
  PROVE  TranslationInv'
<1>1. bso' = bso /\ fields' = fields /\ relocs' = relocs
  BY DEF bas
<1>2. Table' = Table /\ Records' = Records
  BY <1>1 DEF Table, Records
<1>3. /\ next' \in Nat \ {0}
      /\ stage' \in Building => object'.sections = <<object'.sections[1]>>
  BY DEF TranslationOf
<1> USE DEF TableMade, CodeMade, RelocationsMade, FieldsMade, Addend, BareField,
            SameSpan
<1>4. ASSUME stage' = "symbols"
      PROVE  (TableMade(object.symbols, next - 1) /\ CodeMade(object.sections[1], 0))'
  <2>1. TableMade(object'.symbols, next' - 1) /\ CodeMade(object'.sections[1], 0)
    BY <1>4 DEF TranslationOf
  <2>2. (TableMade(object.symbols, next - 1))'
    BY <1>2, <2>1
  <2>3. (CodeMade(object.sections[1], 0))'
    BY <1>1, <1>2, <2>1
  <2> QED
    BY <2>2, <2>3
<1>5. ASSUME stage' = "relocations"
      PROVE  (/\ TableMade(object.symbols, Len(Table))
              /\ CodeMade(object.sections[1], next - 1))'
  <2>1. /\ TableMade(object'.symbols, Len(Table))
        /\ CodeMade(object'.sections[1], next' - 1)
    BY <1>5 DEF TranslationOf
  <2>2. (TableMade(object.symbols, Len(Table)))'
    BY <1>2, <2>1
  <2>3. (CodeMade(object.sections[1], next - 1))'
    BY <1>1, <1>2, <2>1
  <2> QED
    BY <2>2, <2>3
<1>6. ASSUME stage' = "write"
      PROVE  (/\ TableMade(object.symbols, Len(Table))
              /\ CodeMade(object.sections[1], Len(Records)))'
  <2>1. /\ TableMade(object'.symbols, Len(Table))
        /\ CodeMade(object'.sections[1], Len(Records))
    BY <1>6 DEF TranslationOf
  <2>2. (TableMade(object.symbols, Len(Table)))'
    BY <1>2, <2>1
  <2>3. (CodeMade(object.sections[1], Len(Records)))'
    BY <1>1, <1>2, <2>1
  <2> QED
    BY <2>2, <2>3
<1> HIDE DEF TableMade, CodeMade
<1> QED
  BY <1>3, <1>4, <1>5, <1>6 DEF TranslationInv, TranslationOf, Building

LEMMA TranslationPreserved ==
  P!Inv /\ StageInv /\ TranslationInv /\ [Next]_vars => TranslationInv'
<1> SUFFICES ASSUME P!Inv, StageInv, TranslationInv, [Next]_vars
             PROVE  TranslationInv'
  OBVIOUS
<1>1. /\ next \in Nat \ {0} /\ TranslationOf(stage, object, next)
      /\ stage \in Building => object.sections = <<object.sections[1]>>
  BY DEF TranslationInv, TranslationOf
<1>2. stage \in Building =>
        P!Handover /\ Len(Table) \in Nat /\ Len(Records) \in Nat
  BY Handed DEF P!Handover, P!SymbolsRead, P!RelocationsRead, Table, Records
<1>3. CASE RunBas
  BY <1>1, <1>3 DEF RunBas, bridge, TranslationInv, TranslationOf, Building
<1>4. CASE StartFlat \/ MakeTemp \/ NoTemp \/ Leaves \/ FlatDone \/ WriteObject
           \/ Cleanup
  <2>1. stage' \notin Building /\ next' = next
    <3>1. CASE Leaves
      BY <3>1, LeavesFacts DEF Leave, Building
    <3>2. CASE WriteObject
      BY <3>2 DEF WriteObject, Building
    <3> QED
      BY <1>4, <3>1, <3>2 DEF StartFlat, MakeTemp, NoTemp, FlatDone, Cleanup, Building
  <2> QED
    BY <1>1, <2>1 DEF TranslationInv, TranslationOf, Building
<1>5. CASE ReadBso
  <2>1. UNCHANGED bas /\ stage' = "symbols" /\ next' = 1
        /\ object'.sections = <<CodeSection>> /\ object'.symbols = << >>
    BY <1>5 DEF ReadBso, StageInv, EmptyObject
  <2>2. P!Handover /\ Len(Table) \in Nat
    <3>1. objectMode /\ output = "written"
      BY <1>5 DEF ReadBso, StageInv
    <3> QED
      BY <3>1, BasHandsOver DEF P!Handover, P!SymbolsRead, Table
  <2>3. TableMade(object'.symbols, 0)
    BY <2>1, <2>2 DEF TableMade
  <2>4. object'.sections[1] = CodeSection
        /\ object'.sections = <<object'.sections[1]>>
    BY <2>1
  <2>5. TranslationOf(stage', object', next')
    <3>1. CodeMade(object'.sections[1], 0)
      BY <2>2, <2>4, CodeStarts
    <3> QED
      BY <2>1, <2>3, <2>4, <3>1 DEF TranslationOf, Building
  <2> QED
    BY <2>1, <2>5, TranslationMoves
<1>6. CASE TranslateSymbol
  <2> DEFINE n == next - 1
  <2>1. /\ P!Handover /\ stage = "symbols" /\ n \in Nat /\ n + 1 = next
        /\ n + 1 \in 1 .. Len(Table) /\ TableMade(object.symbols, n)
        /\ CodeMade(object.sections[1], 0)
        /\ object.sections = <<object.sections[1]>>
    BY <1>1, <1>2, <1>6 DEF TranslateSymbol, TranslationOf, Building, Table
  <2> DEFINE u == Append(object.symbols, Translated(Table[n + 1], Fresh))
  <2>2. IndexOf(Table[n + 1].name) > Len(object.symbols) /\ TableMade(u, n + 1)
    BY <2>1, TableStep
  <2>3. Record = Table[n + 1]
    BY <2>1 DEF Record, Table
  <2>4. /\ UNCHANGED bas /\ stage' = stage /\ next' = next + 1
        /\ object'.sections = object.sections /\ object'.symbols = u
    BY <1>6, <2>2, <2>3 DEF TranslateSymbol
  <2> HIDE DEF u, n
  <2>5. TranslationOf(stage', object', next')
    <3>1. next' - 1 = n + 1 /\ next' \in Nat \ {0}
      BY <1>1, <2>1, <2>4
    <3> QED
      BY <2>1, <2>2, <2>4, <3>1 DEF TranslationOf
  <2> QED
    BY <2>4, <2>5, TranslationMoves
<1>7. CASE EndSymbols
  <2>1. /\ stage = "symbols" /\ next > Len(Table) /\ UNCHANGED <<bas, object>>
        /\ stage' = "relocations" /\ next' = 1
    BY <1>7 DEF EndSymbols, Table
  <2>2. TableMade(object.symbols, Len(Table))
    <3>1. TableMade(object.symbols, next - 1)
      BY <1>1, <2>1 DEF TranslationOf
    <3>2. next - 1 = Len(Table)
      BY <1>1, <1>2, <2>1, <3>1 DEF TableMade, Building
    <3> QED
      BY <3>1, <3>2
  <2>3. TranslationOf(stage', object', next')
    BY <1>1, <2>1, <2>2 DEF TranslationOf, Building
  <2> QED
    BY <2>1, <2>3, TranslationMoves
<1>8. CASE TranslateRelocation
  <2> DEFINE n == next - 1
             c == object.sections[1]
  <2>1. /\ P!Handover /\ stage = "relocations" /\ n \in Nat /\ n + 1 = next
        /\ n + 1 \in 1 .. Len(Records) /\ TableMade(object.symbols, Len(Table))
        /\ CodeMade(c, n) /\ object.sections = <<c>>
    BY <1>1, <1>2, <1>8 DEF TranslateRelocation, TranslationOf, Building, Records
  <2> DEFINE u == Relocated(c, Records[n + 1])
  <2>2. CodeMade(u, n + 1)
    <3> HIDE DEF c, n
    <3> QED
      BY <2>1, CodeStep
  <2>3. RelocationRecord = Records[n + 1]
    BY <2>1 DEF RelocationRecord, Records
  <2>4. /\ UNCHANGED bas /\ stage' = stage /\ next' = next + 1
        /\ object'.sections = <<u>> /\ object'.symbols = object.symbols
    BY <1>8, <2>3 DEF TranslateRelocation
  <2> HIDE DEF u, n, c
  <2>5. object'.sections[1] = u
    BY <2>4
  <2>6. TranslationOf(stage', object', next')
    <3>1. next' - 1 = n + 1 /\ next' \in Nat \ {0}
      BY <1>1, <2>1, <2>4
    <3> QED
      BY <2>1, <2>2, <2>4, <2>5, <3>1 DEF TranslationOf
  <2> QED
    BY <2>4, <2>6, TranslationMoves
<1>9. CASE EndRelocations
  <2>1. /\ stage = "relocations" /\ next > Len(Records)
        /\ UNCHANGED <<bas, object, next>> /\ stage' = "write"
    BY <1>9 DEF EndRelocations, Records
  <2>2. CodeMade(object.sections[1], Len(Records))
    <3>1. CodeMade(object.sections[1], next - 1)
      BY <1>1, <2>1 DEF TranslationOf
    <3>2. next - 1 = Len(Records)
      BY <1>1, <1>2, <2>1, <3>1 DEF CodeMade, RelocationsMade, Building
    <3> QED
      BY <3>1, <3>2
  <2>3. TranslationOf(stage', object', next')
    BY <1>1, <2>1, <2>2 DEF TranslationOf, Building
  <2> QED
    BY <2>1, <2>3, TranslationMoves
<1>10. CASE UNCHANGED vars
  <2>1. UNCHANGED <<bas, stage, object, next>>
    BY <1>10 DEF vars, bridge
  <2> QED
    BY <1>1, <2>1, TranslationMoves
<1> QED
  BY StepKinds, <1>3, <1>4, <1>5, <1>6, <1>7, <1>8, <1>9, <1>10

(* An object in the making is well formed.                                 *)
LEMMA WellMade ==
  P!Inv /\ StageInv /\ TranslationInv /\ stage \in Building => WellFormed(object)
<1> SUFFICES ASSUME P!Inv, StageInv, TranslationInv, stage \in Building
             PROVE  WellFormed(object)
  OBVIOUS
<1> DEFINE t == object.symbols
           c == object.sections[1]
           q == c.relocations
<1>1. P!RelocationsRead(Records, Table) /\ P!SymbolsRead(Table)
  BY Handed DEF P!Handover, Records, Table
<1>2. object.sections = <<c>>
  BY DEF TranslationInv, TranslationOf
<1>3. PICK n : TableMade(t, n)
  BY DEF TranslationInv, TranslationOf, Building
<1>4. \A i \in DOMAIN t : t[i] = Translated(Table[i], Fresh)
  <2>1. DOMAIN t = 1 .. n
    BY <1>3 DEF TableMade
  <2> QED
    BY <1>3, <2>1 DEF TableMade
<1>5. \A i \in DOMAIN t : t[i].section \in {0, IF t[i].defined THEN 1 ELSE 0}
  <2>1. ASSUME NEW x
        PROVE  Translated(x, Fresh).section
                 \in {0, IF Translated(x, Fresh).defined THEN 1 ELSE 0}
    <3>1. Translated(x, Fresh).section = IF x.defined THEN 1 ELSE 0
      BY DEF Translated, Fresh
    <3>2. Translated(x, Fresh).defined = x.defined
      BY DEF Translated
    <3> QED
      BY <3>1, <3>2
  <2> HIDE DEF t
  <2> QED
    BY <1>4, <2>1
<1>6. \A r \in DOMAIN q : q[r].symbol \in DOMAIN t
  <2>1. PICK k : RelocationsMade(q, k) /\ (stage = "symbols" => k = 0)
                 /\ (stage # "symbols" => TableMade(t, Len(Table)))
    BY DEF TranslationInv, TranslationOf, CodeMade, Building
  <2>2. DOMAIN q = 1 .. k
    BY <2>1 DEF RelocationsMade
  <2>3. CASE stage = "symbols"
    BY <2>1, <2>2, <2>3
  <2>4. CASE stage # "symbols"
    <3>1. DOMAIN t = 1 .. Len(Table)
      BY <2>1, <2>4 DEF TableMade
    <3>2. \A r \in 1 .. k : r \in 1 .. Len(relocs)
                            /\ q[r].symbol = Records[r].symbol_index
      <4>1. \A r \in 1 .. k : q[r] = Relocation(Records[r])
        BY <2>1 DEF RelocationsMade
      <4>2. \A x : Relocation(x).symbol = x.symbol_index
        BY DEF Relocation
      <4>3. k <= Len(Records) /\ k \in Nat /\ Len(Records) = Len(relocs)
            /\ Len(relocs) \in Nat
        BY <1>1, <2>1 DEF RelocationsMade, P!RelocationsRead
      <4> HIDE DEF q
      <4> QED
        BY <4>1, <4>2, <4>3
    <3> QED
      BY <1>1, <2>2, <3>1, <3>2 DEF P!RelocationsRead
  <2> QED
    BY <2>3, <2>4
<1>7. \A i \in DOMAIN object.sections : object.sections[i] = c
  BY <1>2
<1>8. object.sections # << >>
  BY <1>2
<1> QED
  BY <1>5, <1>6, <1>7, <1>8 DEF WellFormed

LEMMA WellFormedPreserved ==
  ASSUME P!Inv, StageInv, TranslationInv, WellFormed(object), [Next]_vars
  PROVE  WellFormed(object)'
<1>1. (P!Inv /\ StageInv /\ TranslationInv /\ stage \in Building =>
         WellFormed(object))'
  BY WellMade, PTL
<1>2. P!Inv' /\ StageInv' /\ TranslationInv'
  BY BasInvKept, StagePreserved, TranslationPreserved
<1>3. stage' \in Building \/ object' = object
  <2>1. CASE Leaves
    BY <2>1, LeavesFacts DEF Leave
  <2>2. CASE RunBas \/ UNCHANGED vars
    BY <2>2 DEF RunBas, bridge, vars
  <2>3. CASE WriteObject
    BY <2>3 DEF WriteObject, WriteCut, File!Finish, File!Give, File!Cut
  <2>4. CASE StartFlat \/ MakeTemp \/ NoTemp \/ FlatDone \/ Cleanup
    BY <2>4 DEF StartFlat, MakeTemp, NoTemp, FlatDone, Cleanup
  <2>5. CASE ReadBso \/ TranslateSymbol \/ EndSymbols \/ TranslateRelocation
             \/ EndRelocations
    BY <2>5 DEF ReadBso, TranslateSymbol, EndSymbols, TranslateRelocation,
                EndRelocations, Building
  <2> QED
    BY StepKinds, <2>1, <2>2, <2>3, <2>4, <2>5
<1> QED
  <2>1. CASE stage' \in Building
    BY <1>1, <1>2, <2>1
  <2>2. CASE object' = object
    BY <2>2 DEF WellFormed
  <2> QED
    BY <1>3, <2>1, <2>2

(* What a finished object means is what the program asked for.             *)
LEMMA ObjectMeans ==
  ASSUME P!Inv, StageInv, TranslationInv, stage = "write",
         ~File!HiddenReference(object)
  PROVE  Means(File!MeaningOf(object))
<1> DEFINE t == object.symbols
           c == object.sections[1]
           q == c.relocations
           m == File!MeaningOf(object)
<1>1. P!RelocationsRead(Records, Table) /\ P!SymbolsRead(Table)
  BY Handed DEF P!Handover, Records, Table, Building
<1>2. object.sections = <<c>> /\ TableMade(t, Len(Table))
      /\ RelocationsMade(q, Len(Records))
  BY DEF TranslationInv, TranslationOf, CodeMade, Building
<1>3. DOMAIN t = 1 .. Len(Table)
      /\ \A i \in 1 .. Len(Table) : t[i].name = Table[i].name
  <2>1. DOMAIN t = 1 .. Len(Table)
        /\ \A i \in 1 .. Len(Table) : t[i] = Translated(Table[i], Fresh)
    BY <1>2 DEF TableMade
  <2>2. \A x : Translated(x, Fresh).name = x.name
    BY DEF Translated
  <2> HIDE DEF t
  <2> QED
    BY <2>1, <2>2
<1>4. DOMAIN relocs = 1 .. Len(relocs) /\ DOMAIN q = 1 .. Len(relocs)
  BY <1>1, <1>2 DEF RelocationsMade, P!RelocationsRead
<1>5. ASSUME NEW r \in 1 .. Len(relocs)
      PROVE  /\ q[r].offset = relocs[r].offset /\ q[r].symbol \in 1 .. Len(Table)
             /\ t[q[r].symbol].name = relocs[r].symbol
  <2>1. q[r] = Relocation(Records[r])
    BY <1>1, <1>2 DEF RelocationsMade, P!RelocationsRead
  <2>2. q[r].offset = Records[r].offset /\ q[r].symbol = Records[r].symbol_index
    BY <2>1 DEF Relocation
  <2> QED
    BY <1>1, <1>3, <2>2 DEF P!RelocationsRead
<1>6. DOMAIN object.sections = {1}
  BY <1>2
<1>7. m.symbols = {File!MeaningOfSymbol(t[i]) : i \in File!Visible(object)}
  BY DEF File!MeaningOf
<1>8. \A i \in DOMAIN t : File!MeaningOfSymbol(t[i]).name = t[i].name
  BY DEF File!MeaningOfSymbol
<1>9. \A i \in DOMAIN t : i \in File!Visible(object) <=> t[i].name \notin Hidden
  BY DEF File!Visible, File!Hide
<1>10. File!Visible(object) \subseteq DOMAIN t
  BY DEF File!Visible
<1>11. \A r \in 1 .. Len(relocs) : relocs[r].symbol \notin Hidden
  <2>1. \A r \in DOMAIN q : q[r].symbol \in File!Visible(object)
    BY <1>6 DEF File!HiddenReference
  <2> QED
    BY <1>3, <1>4, <1>5, <1>9, <2>1
<1> DEFINE Shown(r) == [section |-> 1, offset |-> q[r].offset, kind |-> q[r].kind,
                        name |-> t[q[r].symbol].name]
<1>12. m.relocations = {Shown(r) : r \in DOMAIN q}
  <2>1. m.relocations =
          UNION {{[section |-> i, offset |-> rel.offset, kind |-> rel.kind,
                   name |-> object.symbols[rel.symbol].name] :
                    rel \in {object.sections[i].relocations[r] :
                               r \in DOMAIN object.sections[i].relocations}} :
                 i \in DOMAIN object.sections}
    BY DEF File!MeaningOf
  <2> QED
    BY <1>6, <2>1
<1>13. \A r \in DOMAIN q : Shown(r).offset = relocs[r].offset
                           /\ Shown(r).name = relocs[r].symbol
  BY <1>4, <1>5
<1> HIDE DEF m, Shown, q, c
<1>14. {s.name : s \in m.symbols} = (Names(symbols) \cup ReferredTo) \ Hidden
  <2>1. {s.name : s \in m.symbols} = {t[i].name : i \in File!Visible(object)}
    BY <1>7, <1>8, <1>10
  <2> HIDE DEF t
  <2>2. ASSUME NEW i \in File!Visible(object)
        PROVE  t[i].name \in (Names(symbols) \cup ReferredTo) \ Hidden
    <3>1. i \in 1 .. Len(Table) /\ t[i].name = Table[i].name /\ t[i].name \notin Hidden
      BY <1>3, <1>9, <1>10
    <3>2. \/ \E j \in DOMAIN symbols : Table[i].name = symbols[j].name
          \/ \E j \in DOMAIN relocs : Table[i].name = relocs[j].symbol
      BY <1>1, <3>1 DEF P!SymbolsRead
    <3> QED
      BY <3>1, <3>2 DEF Names, ReferredTo
  <2>3. ASSUME NEW name \in (Names(symbols) \cup ReferredTo) \ Hidden
        PROVE  \E i \in File!Visible(object) : t[i].name = name
    <3>1. \E i \in 1 .. Len(Table) : t[i].name = name
      <4>1. CASE name \in Names(symbols)
        BY <1>1, <1>3, <4>1 DEF Names, P!SymbolsRead
      <4>2. CASE name \in ReferredTo
        BY <1>4, <1>5, <4>2 DEF ReferredTo
      <4> QED
        BY <4>1, <4>2
    <3> QED
      BY <1>3, <1>9, <3>1
  <2> QED
    BY <2>1, <2>2, <2>3
<1>15. {r.name : r \in m.relocations} = ReferredTo
  BY <1>4, <1>12, <1>13 DEF ReferredTo
<1>16. {<<r.offset, r.name>> : r \in m.relocations} =
         {<<relocs[i].offset, relocs[i].symbol>> : i \in DOMAIN relocs}
  BY <1>4, <1>12, <1>13
<1> QED
  BY <1>14, <1>15, <1>16 DEF Means, m

LEMMA MeansPreserved ==
  ASSUME P!Inv, StageInv, TranslationInv, \A m \in file : Means(m), [Next]_vars
  PROVE  (\A m \in file : Means(m))'
<1>1. ASSUME UNCHANGED bas
      PROVE  \A m : Means(m) => Means(m)'
  BY <1>1 DEF bas, Means, Names, ReferredTo
<1>2. CASE RunBas
  BY <1>2 DEF RunBas, StageInv, Over, writer
<1>3. CASE WriteObject
  <2>1. /\ UNCHANGED bas /\ stage = "write"
        /\ File!Finish \/ File!Give \/ WriteCut
    BY <1>3 DEF WriteObject
  <2>2. CASE File!Finish
    BY <1>1, <2>1, <2>2, ObjectMeans DEF File!Finish
  <2>3. CASE File!Give
    BY <1>1, <2>1, <2>3 DEF File!Give
  <2>4. CASE WriteCut
    BY <2>4 DEF WriteCut
  <2> QED
    BY <2>1, <2>2, <2>3, <2>4
<1>4. ~RunBas /\ ~WriteObject => file' = file
  <2>1. CASE Leaves
    BY <2>1, LeavesFacts DEF Leave, writer
  <2>2. CASE UNCHANGED vars
    BY <2>2 DEF vars, writer
  <2>3. CASE StartFlat \/ MakeTemp \/ NoTemp \/ FlatDone \/ ReadBso \/ Cleanup
    BY <2>3 DEF StartFlat, MakeTemp, NoTemp, FlatDone, ReadBso, Cleanup, writer
  <2>4. CASE TranslateSymbol \/ EndSymbols \/ TranslateRelocation \/ EndRelocations
    BY <2>4 DEF TranslateSymbol, EndSymbols, TranslateRelocation, EndRelocations,
                writer
  <2> QED
    BY StepKinds, <2>1, <2>2, <2>3, <2>4
<1> QED
  BY <1>1, <1>2, <1>3, <1>4, BasKept

-----------------------------------------------------------------------------
(* The invariant, and what follows from it.                                *)

LEMMA StepHolds == BridgeInv /\ [Next]_vars => BridgeInv'
<1> SUFFICES ASSUME BridgeInv, [Next]_vars
             PROVE  BridgeInv'
  OBVIOUS
<1>1. /\ P!Inv /\ StageInv /\ TempInv /\ TranslationInv
      /\ WellFormed(object) /\ \A m \in file : Means(m)
  BY DEF BridgeInv
<1>2. P!Inv' /\ StageInv' /\ TempInv' /\ TranslationInv'
  BY <1>1, BasInvKept, StagePreserved, TempPreserved, TranslationPreserved
<1>3. WellFormed(object)'
  BY <1>1, WellFormedPreserved
<1>4. (\A m \in file : Means(m))'
  BY <1>1, MeansPreserved
<1> QED
  BY <1>2, <1>3, <1>4 DEF BridgeInv

THEOREM Invariance == Spec => []BridgeInv
BY InitHolds, StepHolds, PTL DEF Spec

LEMMA Typed == BridgeInv => TypeOK
<1> SUFFICES ASSUME BridgeInv
             PROVE  TypeOK
  OBVIOUS
<1>1. P!Inv /\ StageInv /\ TranslationOf(stage, object, next) /\ WellFormed(object)
  BY DEF BridgeInv, TranslationInv
<1>2. stage \in Building => Len(Table) \in Nat /\ Len(Records) \in Nat
  BY <1>1, Handed DEF P!Handover, P!SymbolsRead, P!RelocationsRead, Table, Records
<1>3. stage = "symbols" => next \in 1 .. Len(bso[1].symbols) + 1
  BY <1>1, <1>2 DEF TranslationOf, TableMade, Table, Building
<1>4. stage = "relocations" => next \in 1 .. Len(bso[1].relocations) + 1
  BY <1>1, <1>2 DEF TranslationOf, CodeMade, RelocationsMade, Records, Building
<1> QED
  BY <1>1, <1>3, <1>4 DEF TypeOK, StageInv, Stages, WellFormed

(* As many fields as bas has: each is found at its place.                  *)
LEMMA FieldsCounted ==
  ASSUME P!FieldsRead, NEW fs, NEW n, FieldsMade(fs, n)
  PROVE  Cardinality(fs) = Len(fields)
<1> DEFINE I == 1 .. Len(fields)
           Found(k) == CHOOSE f \in fs : f.at = fields[k].at
           F == [k \in I |-> Found(k)]
<1>1. \A k \in I : Found(k) \in fs /\ Found(k).at = fields[k].at
  BY DEF FieldsMade, SameSpan
<1>2. \A j, k \in I : Found(j) = Found(k) => j = k
  BY <1>1, FieldsApart
<1>3. \A f \in fs : \E k \in I : f = Found(k)
  BY <1>1 DEF FieldsMade, SameSpan
<1> HIDE DEF Found
<1>4. F \in Bijection(I, fs)
  BY <1>1, <1>2, <1>3 DEF Bijection, Injection, Surjection, IsInjective
<1>5. Len(fields) \in Nat
  BY DEF P!FieldsRead
<1>6. IsFiniteSet(I) /\ Cardinality(I) = Len(fields)
  BY SMTT(30), <1>5, FS_Interval
<1> HIDE DEF I, F
<1> QED
  BY <1>4, <1>6, FS_Bijection DEF ExistsBijection

LEMMA Faithful == BridgeInv => TranslationIsFaithful
<1> SUFFICES ASSUME BridgeInv, stage = "write"
             PROVE  TranslationIsFaithful
  BY DEF TranslationIsFaithful
<1> DEFINE t == object.symbols
           code == object.sections[1]
           q == code.relocations
           fs == code.fields
<1>1. P!RelocationsRead(Records, Table) /\ P!SymbolsRead(Table) /\ P!FieldsRead
  BY Handed DEF BridgeInv, P!Handover, Records, Table, Building
<1>2. TableMade(t, Len(Table)) /\ RelocationsMade(q, Len(Records))
      /\ FieldsMade(fs, Len(Records))
  BY DEF BridgeInv, TranslationInv, TranslationOf, CodeMade
<1>3. /\ Len(Records) = Len(relocs) /\ DOMAIN relocs = 1 .. Len(relocs)
      /\ DOMAIN fields = 1 .. Len(fields) /\ DOMAIN t = 1 .. Len(Table)
      /\ Len(q) = Len(relocs)
  BY <1>1, <1>2 DEF P!RelocationsRead, P!FieldsRead, TableMade, RelocationsMade
<1>4. ASSUME NEW i \in 1 .. Len(Table)
      PROVE  /\ t[i].name = Table[i].name /\ t[i].defined = Table[i].defined
             /\ t[i].external = ~Table[i].defined
             /\ Table[i].defined => t[i].value = Table[i].value
  <2>1. t[i] = Translated(Table[i], Fresh)
    BY <1>2 DEF TableMade
  <2>2. /\ Translated(Table[i], Fresh).name = Table[i].name
        /\ Translated(Table[i], Fresh).defined = Table[i].defined
    BY DEF Translated
  <2>3. Translated(Table[i], Fresh).external = ~Table[i].defined
    BY DEF Translated
  <2>4. Table[i].defined => Translated(Table[i], Fresh).value = Table[i].value
    BY DEF Translated
  <2> HIDE DEF t
  <2> QED
    BY <2>1, <2>2, <2>3, <2>4
<1> HIDE DEF t, q, fs
<1>5. ASSUME NEW i \in DOMAIN relocs
      PROVE  /\ t[q[i].symbol].name = relocs[i].symbol
             /\ q[i].offset = relocs[i].offset
             /\ q[i].kind = Kind(relocs[i].kind)
             /\ {f.value : f \in {g \in fs : g.at = q[i].offset}}
                  = {Addend(relocs[i])}
  <2>1. q[i] = Relocation(Records[i])
    BY <1>2, <1>3 DEF RelocationsMade
  <2>2. /\ q[i].offset = Records[i].offset /\ q[i].symbol = Records[i].symbol_index
        /\ q[i].kind = Kind(Records[i].kind)
    BY <2>1 DEF Relocation
  <2>3. /\ q[i].offset = relocs[i].offset /\ q[i].kind = Kind(relocs[i].kind)
        /\ t[q[i].symbol].name = relocs[i].symbol
    BY SMTT(30), <1>1, <1>3, <1>4, <2>2 DEF P!RelocationsRead
  <2>4. PICK k \in 1 .. Len(fields) : fields[k].at = relocs[i].offset
    BY <1>1, <1>3 DEF P!FieldsRead
  <2>5. PICK f \in fs : f.at = relocs[i].offset /\ f.value = Addend(relocs[i])
    BY <1>2, <1>3, <2>4 DEF FieldsMade, SameSpan
  <2>6. \A g \in fs : g.at = relocs[i].offset => g = f
    BY <1>2, <2>5 DEF FieldsMade
  <2> QED
    BY <2>3, <2>5, <2>6
<1>6. ASSUME NEW i \in DOMAIN fields, ~IsRelocated(fields[i])
      PROVE  BareField(fields[i]) \in fs
  BY <1>2, <1>3, <1>6 DEF FieldsMade, IsRelocated
<1>7. Cardinality(fs) = Len(fields)
  BY <1>1, <1>2, FieldsCounted
<1>8. ASSUME NEW i \in DOMAIN t
      PROVE  /\ t[i].defined = Bas!Known(t[i].name)
             /\ t[i].external = ~t[i].defined
             /\ t[i].defined => t[i].value = Bas!AddressOf(t[i].name)
  <2>1. Table[i].defined = P!Known(Table[i].name)
        /\ (Table[i].defined => Table[i].value = P!AddressOf(Table[i].name))
    BY <1>1, <1>3 DEF P!SymbolsRead
  <2>2. \A x : Bas!Known(x) = P!Known(x)
    BY DEF Bas!Known, P!Known
  <2>3. \A x : Bas!AddressOf(x) = P!AddressOf(x)
    BY DEF Bas!AddressOf, P!AddressOf
  <2>4. t[i].name = Table[i].name /\ t[i].defined = Table[i].defined
        /\ (Table[i].defined => t[i].value = Table[i].value)
    BY <1>3, <1>4
  <2>5. t[i].external = ~t[i].defined
    BY <1>3, <1>4
  <2> QED
    BY <2>1, <2>2, <2>3, <2>4, <2>5
<1> QED
  BY <1>3, <1>5, <1>6, <1>7, <1>8 DEF TranslationIsFaithful, t, q, fs

LEMMA MeansProgram == BridgeInv => OutputMeansProgram
<1> SUFFICES ASSUME BridgeInv
             PROVE  OutputMeansProgram
  OBVIOUS
<1>1. StageInv /\ \A m \in file : Means(m)
  BY DEF BridgeInv
<1>2. written # "untouched" => pc = "done" /\ output = "written"
  BY <1>1 DEF StageInv
<1>3. stage = "end" => (success <=> IF format = "bin" THEN pc = "done"
                                                      ELSE result \in {"ok", "unfit"})
  BY <1>1 DEF StageInv, Over
<1> QED
  BY <1>1, <1>2, <1>3 DEF OutputMeansProgram, Means

LEMMA Temporary == BridgeInv => TemporaryRemoved
BY DEF BridgeInv, StageInv, TempInv, TemporaryRemoved

(* Every value stays in its type: records are read within their tables,    *)
(* and relocations of a half made object name symbols it has.              *)
THEOREM TypeCorrect == Spec => []TypeOK
BY Typed, Invariance, PTL

(* The object a writer is given says what bas decided, for all programs.   *)
THEOREM TranslationCorrect == Spec => []TranslationIsFaithful
BY Faithful, Invariance, PTL

(* What appears in the output file has the program's names and the         *)
(* references bas left open, and success means a whole file.               *)
THEOREM OutputCorrect == Spec => []OutputMeansProgram
BY MeansProgram, Invariance, PTL

(* No temporary file is left, whichever stage failed.                      *)
THEOREM TemporaryCorrect == Spec => []TemporaryRemoved
BY Temporary, Invariance, PTL

==============================================================================
