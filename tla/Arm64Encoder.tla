----------------------------- MODULE Arm64Encoder -----------------------------
(***************************************************************************)
(* chs_arm64_encode_instruction: one parsed instruction to its word and    *)
(* the relocation it asks for.                                             *)
(*                                                                         *)
(* An instruction is a mnemonic with the operands its text is split into;  *)
(* the condition of "b.cond" stands beside them.  A register keeps the     *)
(* class of its name, a memory operand its base, offset and mode ("offset" *)
(* or "pre"), a label the distance to it if it is defined in the section.  *)
(* A word is the set of its one bits, so that fields are joined by union   *)
(* as the code joins them by |.  A constant, an int64_t in the code, is    *)
(* the set of the one bits among its 64, so that a cast or a mask is what  *)
(* it leaves of the set; the offset of a memory operand is an integer.     *)
(***************************************************************************)
EXTENDS Integers, Sequences, FiniteSetsExt

CONSTANT
  Instructions   \* parsed instructions, a sequence of sets of them

VARIABLES
  instruction,   \* the instruction to encode
  state,         \* "start", "accepted" or "refused"
  encoded        \* ChsEncodedInstruction

vars == <<instruction, state, encoded>>

-----------------------------------------------------------------------------
(* Words.                                                                  *)

BitsOf(n) == {b \in 0 .. 30 : (n \div 2 ^ b) % 2 = 1}

(* Bits moved to the place k of a word.                                    *)
Put(bits, k) == {k + b : b \in bits}

At(n, k) == Put(BitsOf(n), k)

Word(high, low) == At(high, 16) \cup At(low, 0)

When(test, bits) == IF test THEN bits ELSE {}

(* Bit 31 selects the 64-bit form of most instructions.                    *)
Sized(is64, high, low) == Word(high, low) \cup When(is64, {31})

(* Registers in their usual places.                                        *)
Two(rd, rn)       == At(rd, 0) \cup At(rn, 5)
Three(rd, rn, rm) == Two(rd, rn) \cup At(rm, 16)

(* Constants.  The number itself is used only of those that follow a       *)
(* bracket.                                                                *)
Constant(n) == IF n < 0 THEN (0 .. 63) \ BitsOf(-n - 1) ELSE BitsOf(n)
Negative(c) == 63 \in c
Low(c, bits) == c \cap 0 .. bits - 1
Fits(c, bits) == c \subseteq 0 .. bits - 1
Integer(c) ==
  LET sum(bits) == MapThenSumSet(LAMBDA b : 2 ^ b, bits)
  IN  IF Negative(c) THEN -1 - sum((0 .. 63) \ c) ELSE sum(c)

(* The cast to unsigned, and to uint32_t.                                  *)
Cut(c) == Low(c, 32)

(* Division in C.                                                          *)
Quotient(n, d) == IF n < 0 THEN -((-n) \div d) ELSE n \div d

-----------------------------------------------------------------------------
(* Operands.                                                               *)

IsInt(o)   == o.kind = "reg" /\ o.class \in {"x", "w", "sp", "xzr", "wzr"}
IsFp(o)    == o.kind = "reg" /\ o.class \in {"d", "s"}
IsD(o)     == o.kind = "reg" /\ o.class = "d"
IsS(o)     == o.kind = "reg" /\ o.class = "s"
Is64(o)    == o.class \in {"x", "sp", "xzr"}
IsSp(o)    == o.class = "sp"
IsZero(o)  == o.class \in {"xzr", "wzr"}
IsImm(o)   == o.kind = "imm"
IsMem(o)   == o.kind = "mem" /\ IsInt(o.base)

IsIntNotSp(o) == IsInt(o) /\ ~IsSp(o)

(* Registers k and so on, all of one width.                                *)
OneWidth(o) == \A k \in DOMAIN o : IsInt(o[k]) /\ Is64(o[k]) = Is64(o[1])

(* A memory operand and what follows its bracket, joined again: a number   *)
(* there is the offset, unless an exclamation mark came first.             *)
PostIndexed(mem, offset) ==
  IF mem.kind = "mem" /\ mem.mode = "pre" THEN mem
  ELSE IF mem.kind = "mem" /\ IsImm(offset)
  THEN [mem EXCEPT !.mode = "post", !.offset = Integer(offset.value)]
  ELSE [kind |-> "none"]

ConditionCode ==
  [eq |-> 0, ne |-> 1, cs |-> 2, hs |-> 2, cc |-> 3, lo |-> 3, mi |-> 4,
   pl |-> 5, vs |-> 6, vc |-> 7, hi |-> 8, ls |-> 9, ge |-> 10, lt |-> 11,
   gt |-> 12, le |-> 13, al |-> 14]

-----------------------------------------------------------------------------
(* What an encoder returns.                                                *)

Refused == [ok |-> FALSE, word |-> {}, relocation |-> "none"]

Encoded(word) == [ok |-> TRUE, word |-> word, relocation |-> "none"]

Relocated(word, kind) == [ok |-> TRUE, word |-> word, relocation |-> kind]

-----------------------------------------------------------------------------
(* The words of the encoding functions.                                    *)

AddSubImmediate(sub, flags, is64, rd, rn, imm12) ==
  Sized(is64, \h1100, 0) \cup When(sub, {30}) \cup When(flags, {29})
    \cup Put(imm12, 10) \cup Two(rd, rn)

AddSubRegister(sub, flags, is64, rd, rn, rm) ==
  Sized(is64, \h0B00, 0) \cup When(sub, {30}) \cup When(flags, {29})
    \cup Three(rd, rn, rm)

LogicalBase == [and |-> \h0A00, bic |-> \h0A20, orr |-> \h2A00, eor |-> \h4A00]

(* Wrong variant: the ones are rotated to the wrong end.                   *)
BicImmediateUnrotated(is64, rd, rn, n) ==
  LET width == IF is64 THEN 64 ELSE 32
  IN  Sized(is64, \h1200, 0) \cup When(is64, {22}) \cup At(n, 16)
        \cup At(width - n - 1, 10) \cup Two(rd, rn)

(* Clearing the n low bits is an "and" with the other bits.                *)
BicImmediate(is64, rd, rn, n) ==
  LET width == IF is64 THEN 64 ELSE 32
  IN  Sized(is64, \h1200, 0) \cup When(is64, {22}) \cup At(width - n, 16)
        \cup At(width - n - 1, 10) \cup Two(rd, rn)

MoveBase == [movn |-> \h1280, movz |-> \h5280, movk |-> \h7280]

(* The shift is 0, 16, 32 or 48, of bits 4 and 5.                          *)
MoveWide(mnemonic, is64, rd, imm, shift) ==
  Sized(is64, MoveBase[mnemonic], 0) \cup Put(shift, 21 - 4)
    \cup Put(Low(imm, 16), 5) \cup At(rd, 0)

Scaled(offset, size) == Quotient(offset, 2 ^ size) % 4096

LoadStoreUnsigned(high, load, size, rt, mem) ==
  Word(high, 0) \cup At(size, 30) \cup When(load, {22})
    \cup At(Scaled(mem.offset, size), 10) \cup Two(rt, mem.base.index)

LoadStoreIndexed(load, pre, size, rt, mem) ==
  Word(\h3800, \h0400) \cup At(size, 30) \cup When(load, {22})
    \cup When(pre, {11}) \cup At(mem.offset % 512, 12)
    \cup Two(rt, mem.base.index)

PairBase == [post |-> \hA880, pre |-> \hA980, offset |-> \hA900]

Pair(load, rt, rt2, mem) ==
  Word(PairBase[mem.mode], 0) \cup When(load, {22})
    \cup At(Quotient(mem.offset, 8) % 128, 15) \cup At(rt2, 10)
    \cup Two(rt, mem.base.index)

ShiftVariable == [lsl |-> \h2000, lsr |-> \h2400, asr |-> \h2800]

Bitfield(signed, is64, rd, rn, immr, imms) ==
  Sized(is64, IF signed THEN \h1300 ELSE \h5300, 0) \cup When(is64, {22})
    \cup At(immr, 16) \cup At(imms, 10) \cup Two(rd, rn)

ShiftImmediate(mnemonic, is64, rd, rn, shift) ==
  LET width == IF is64 THEN 64 ELSE 32
  IN  IF mnemonic = "lsl"
      THEN Bitfield(FALSE, is64, rd, rn, (width - shift) % width,
                    width - 1 - shift)
      ELSE Bitfield(mnemonic = "asr", is64, rd, rn, shift, width - 1)

Imm26(delta) == At((delta \div 4) % 2 ^ 26, 0)
Imm19(delta) == At((delta \div 4) % 2 ^ 19, 5)

FpArithmetic ==
  [fadd |-> \h2800, fsub |-> \h3800, fmul |-> \h0800, fdiv |-> \h1800]

-----------------------------------------------------------------------------
(* One operator per branch of the dispatch.                                *)

(* A register to branch to.                                                *)
IsTarget(o) == IsInt(o) /\ Is64(o) /\ ~IsSp(o) /\ ~IsZero(o)

EncodeBranchRegister(high, o) ==
  IF IsTarget(o[1]) THEN Encoded(Word(high, 0) \cup At(o[1].index, 5))
  ELSE Refused

EncodeRet(o) ==
  IF o = <<>> THEN Encoded(Word(\hD65F, \h03C0))
  ELSE EncodeBranchRegister(\hD65F, o)

(* What is not the constant is cut to the width of the register.           *)
MovImmediate(d, c) ==
  LET not == (0 .. IF Is64(d) THEN 63 ELSE 31) \ c
  IN  IF IsSp(d) THEN Refused
      ELSE IF Fits(c, 16)
      THEN Encoded(MoveWide("movz", Is64(d), d.index, c, {}))
      ELSE IF Fits(not, 16)
      THEN Encoded(MoveWide("movn", Is64(d), d.index, not, {}))
      ELSE Refused

MovRegister(d, s) ==
  LET wide(r, other) == Is64(r) \/ (IsZero(r) /\ Is64(other))
  IN  IF IsSp(d) \/ IsSp(s)
      THEN Encoded(AddSubImmediate(FALSE, FALSE, TRUE, d.index, s.index, {}))
      ELSE IF wide(d, s) # wide(s, d) THEN Refused
      ELSE Encoded(Sized(wide(d, s), LogicalBase["orr"], 0)
                     \cup Three(d.index, 31, s.index))

EncodeMov(o) ==
  IF ~IsInt(o[1]) THEN Refused
  ELSE IF IsImm(o[2]) THEN MovImmediate(o[1], o[2].value)
  ELSE IF IsInt(o[2]) THEN MovRegister(o[1], o[2])
  ELSE Refused

EncodeMvn(o) ==
  IF OneWidth(o) /\ ~IsSp(o[1]) /\ ~IsSp(o[2])
  THEN Encoded(Sized(Is64(o[1]), \h2A20, 0)
                 \cup Three(o[1].index, 31, o[2].index))
  ELSE Refused

EncodeFmov(o) ==
  LET Move(high) == Encoded(Word(high, 0) \cup Two(o[1].index, o[2].index))
      Matches(fp, int, wide) ==
        fp /\ IsIntNotSp(int) /\ Is64(int) = wide
  IN  IF Matches(IsD(o[1]), o[2], TRUE) THEN Move(\h9E67)
      ELSE IF Matches(IsD(o[2]), o[1], TRUE) THEN Move(\h9E66)
      ELSE IF Matches(IsS(o[1]), o[2], FALSE) THEN Move(\h1E27)
      ELSE IF Matches(IsS(o[2]), o[1], FALSE) THEN Move(\h1E26)
      ELSE Refused

(* Bit 22 selects double precision.                                        *)
Precise(r, high, low) == Word(high, low) \cup When(IsD(r), {22})

EncodeFcmp(o) ==
  IF ~IsFp(o[1]) THEN Refused
  ELSE IF IsFp(o[2]) /\ o[2].class = o[1].class
  THEN Encoded(Precise(o[1], \h1E20, \h2000)
                 \cup Three(0, o[1].index, o[2].index))
  ELSE IF IsImm(o[2]) /\ o[2].value = {}
  THEN Encoded(Precise(o[1], \h1E20, \h2008) \cup At(o[1].index, 5))
  ELSE Refused

EncodeFpArithmetic(mnemonic, o) ==
  IF \A k \in 1 .. 3 : IsFp(o[k]) /\ o[k].class = o[1].class
  THEN Encoded(Precise(o[1], \h1E20, FpArithmetic[mnemonic])
                 \cup Three(o[1].index, o[2].index, o[3].index))
  ELSE Refused

EncodeToInteger(mnemonic, o) ==
  IF IsIntNotSp(o[1]) /\ IsD(o[2])
  THEN Encoded(Sized(Is64(o[1]), \h1E78, 0) \cup When(mnemonic = "fcvtzu", {16})
                 \cup Two(o[1].index, o[2].index))
  ELSE Refused

EncodeFromInteger(mnemonic, o) ==
  IF IsFp(o[1]) /\ IsIntNotSp(o[2])
  THEN Encoded(Precise(o[1], \h1E22, 0) \cup When(mnemonic = "ucvtf", {16})
                 \cup When(Is64(o[2]), {31}) \cup Two(o[1].index, o[2].index))
  ELSE Refused

EncodeFcvt(o) ==
  LET Convert(high, low) ==
        Encoded(Word(high, low) \cup Two(o[1].index, o[2].index))
  IN  IF IsD(o[1]) /\ IsS(o[2]) THEN Convert(\h1E22, \hC000)
      ELSE IF IsS(o[1]) /\ IsD(o[2]) THEN Convert(\h1E62, \h4000)
      ELSE Refused

(* The shift is written "lsl #n" or "#n"; it is cut to unsigned before it  *)
(* has to be a multiple of 16 below the width.                             *)
EncodeMoveWide(mnemonic, o) ==
  LET shift == IF Len(o) = 3 THEN o[3] ELSE [kind |-> "imm", value |-> {}]
      places == IF Is64(o[1]) THEN {4, 5} ELSE {4}
  IN  IF /\ IsInt(o[1]) /\ IsImm(o[2]) /\ shift.kind \in {"imm", "lsl"}
         /\ ~Negative(shift.value) /\ Cut(shift.value) \subseteq places
      THEN Encoded(MoveWide(mnemonic, Is64(o[1]), o[1].index, o[2].value,
                            Cut(shift.value)))
      ELSE Refused

EncodeAddSub(mnemonic, o) ==
  LET sub   == mnemonic \in {"sub", "subs"}
      flags == mnemonic \in {"adds", "subs"}
      d     == o[1]
      n     == o[2]
  IN  IF ~IsInt(d) \/ ~IsInt(n) THEN Refused
      ELSE IF o[3].kind = "label" /\ o[3].modifier = "pageoff"
      THEN Relocated(AddSubImmediate(FALSE, FALSE, TRUE, d.index, n.index, {}),
                     "pageoff12")
      ELSE IF IsImm(o[3])
      THEN Encoded(AddSubImmediate(sub, flags, Is64(d), d.index, n.index,
                                   Low(o[3].value, 12)))
      ELSE IF OneWidth(o)
      THEN Encoded(AddSubRegister(sub, flags, Is64(d), d.index, n.index,
                                  o[3].index))
      ELSE Refused

(* The masks that bic takes are one below a power of two.                  *)
EncodeLogical(mnemonic, o) ==
  LET d     == o[1]
      n     == o[2]
      width == IF Is64(d) THEN 64 ELSE 32
      LowOnes == {k \in 1 .. width - 1 : o[3].value = 0 .. k - 1}
  IN  IF ~OneWidth(<<d, n>>) THEN Refused
      ELSE IF mnemonic = "bic" /\ IsImm(o[3])
      THEN IF Negative(o[3].value) \/ LowOnes = {} THEN Refused
           ELSE Encoded(BicImmediate(Is64(d), d.index, n.index,
                                     CHOOSE k \in LowOnes : TRUE))
      ELSE IF OneWidth(o)
      THEN Encoded(Sized(Is64(d), LogicalBase[mnemonic], 0)
                     \cup Three(d.index, n.index, o[3].index))
      ELSE Refused

Loads == {"ldr", "ldrb", "ldrh", "ldrsb", "ldrsh", "ldrsw"}
SignedLoads == {"ldrsb", "ldrsh", "ldrsw"}

(* The logarithm of the bytes moved.                                       *)
Size(mnemonic, target) ==
  CASE mnemonic \in {"ldrb", "strb", "ldrsb"} -> 0
    [] mnemonic \in {"ldrh", "strh", "ldrsh"} -> 1
    [] mnemonic = "ldrsw" -> 2
    [] mnemonic \in {"ldr", "str"} ->
         IF Is64(target) \/ IsD(target) THEN 3 ELSE 2

EncodeLoadStore(mnemonic, o) ==
  LET target == o[1]
      mem    == IF Len(o) = 3 THEN PostIndexed(o[2], o[3]) ELSE o[2]
      load   == mnemonic \in Loads
      size   == Size(mnemonic, target)
      Unsigned(high, bit22) ==
        Encoded(LoadStoreUnsigned(high, bit22, size, target.index, mem))
  IN  IF ~(IsInt(target) \/ IsFp(target)) \/ ~IsMem(mem) THEN Refused
      ELSE IF mem.mode # "offset"
      THEN IF IsFp(target) \/ mnemonic \in SignedLoads
              \/ mem.offset \notin -256 .. 255
           THEN Refused
           ELSE Encoded(LoadStoreIndexed(load, mem.mode = "pre", size,
                                         target.index, mem))
      ELSE IF IsFp(target)
      THEN IF mnemonic \in {"ldr", "str"} THEN Unsigned(\h3D00, load)
           ELSE Refused
      ELSE IF mnemonic = "ldrsw"
      THEN IF Is64(target) /\ ~IsSp(target) THEN Unsigned(\h3980, FALSE)
           ELSE Refused
      ELSE IF mnemonic \in SignedLoads THEN Unsigned(\h3980, Is64(target))
      ELSE Unsigned(\h3900, load)

EncodePair(mnemonic, o) ==
  LET mem == IF Len(o) = 4 THEN PostIndexed(o[3], o[4]) ELSE o[3]
  IN  IF /\ OneWidth(<<o[1], o[2]>>) /\ IsMem(mem)
         /\ ~IsSp(o[1]) /\ ~IsSp(o[2])
      THEN Encoded(Pair(mnemonic = "ldp", o[1].index, o[2].index, mem))
      ELSE Refused

(* A label: the distance to it, if it is defined in this section.          *)
Near(o) == o.kind = "label" /\ o.delta # <<>>

EncodeBranch(mnemonic, o) ==
  LET base == Word(\h1400, 0) \cup When(mnemonic = "bl", {31})
  IN  IF Near(o[1]) THEN Encoded(base \cup Imm26(o[1].delta[1]))
      ELSE Relocated(base, "branch26")

EncodeConditional(condition, o) ==
  IF condition \in DOMAIN ConditionCode /\ Near(o[1])
  THEN Encoded(Word(\h5400, 0) \cup Imm19(o[1].delta[1])
                 \cup At(ConditionCode[condition], 0))
  ELSE Refused

EncodeCompareBranch(mnemonic, o) ==
  IF IsIntNotSp(o[1]) /\ Near(o[2])
  THEN Encoded(Sized(Is64(o[1]), \h3400, 0) \cup When(mnemonic = "cbnz", {24})
                 \cup Imm19(o[2].delta[1]) \cup At(o[1].index, 0))
  ELSE Refused

EncodeCmp(o) ==
  IF ~IsInt(o[1]) \/ IsZero(o[1]) THEN Refused
  ELSE IF IsInt(o[2])
  THEN Encoded(AddSubRegister(TRUE, TRUE, Is64(o[1]), 31, o[1].index,
                              o[2].index))
  ELSE IF IsImm(o[2]) /\ Fits(o[2].value, 12)
  THEN Encoded(AddSubImmediate(TRUE, TRUE, Is64(o[1]), 31, o[1].index,
                               o[2].value))
  ELSE Refused

(* The condition is inverted: its low bit flipped.                         *)
Inverted(code) == IF code % 2 = 0 THEN code + 1 ELSE code - 1

EncodeCset(o) ==
  IF IsInt(o[1]) /\ o[2].kind = "condition"
  THEN Encoded(Word(\h1A80, \h0400) \cup Three(o[1].index, 31, 31)
                 \cup At(Inverted(ConditionCode[o[2].name]), 12))
  ELSE Refused

EncodeExtendWord(mnemonic, o) ==
  IF IsInt(o[1]) /\ IsInt(o[2])
  THEN Encoded(Bitfield(mnemonic = "sxtw", TRUE, o[1].index, o[2].index, 0, 31))
  ELSE Refused

MultiplyDivide ==
  [mul |-> <<\h1B00, \h7C00>>, udiv |-> <<\h1AC0, \h0800>>,
   sdiv |-> <<\h1AC0, \h0C00>>]

EncodeMultiplyDivide(mnemonic, o) ==
  IF OneWidth(o)
  THEN Encoded(Sized(Is64(o[1]), MultiplyDivide[mnemonic][1],
                     MultiplyDivide[mnemonic][2])
                 \cup Three(o[1].index, o[2].index, o[3].index))
  ELSE Refused

EncodeMultiplyAdd(mnemonic, o) ==
  IF OneWidth(o)
  THEN Encoded(Sized(Is64(o[1]), \h1B00, 0) \cup When(mnemonic = "msub", {15})
                 \cup Three(o[1].index, o[2].index, o[3].index)
                 \cup At(o[4].index, 10))
  ELSE Refused

(* The constant is cut to unsigned before it has to be below the width.    *)
EncodeShift(mnemonic, o) ==
  LET d == o[1]
      n == o[2]
  IN  IF ~OneWidth(<<d, n>>) THEN Refused
      ELSE IF IsInt(o[3])
      THEN IF OneWidth(o)
           THEN Encoded(Sized(Is64(d), \h1AC0, ShiftVariable[mnemonic])
                          \cup Three(d.index, n.index, o[3].index))
           ELSE Refused
      ELSE IF /\ IsImm(o[3]) /\ ~Negative(o[3].value)
              /\ Fits(Cut(o[3].value), IF Is64(d) THEN 6 ELSE 5)
      THEN Encoded(ShiftImmediate(mnemonic, Is64(d), d.index, n.index,
                                  Integer(Cut(o[3].value))))
      ELSE Refused

EncodeExtend(mnemonic, o) ==
  IF IsIntNotSp(o[1]) /\ IsIntNotSp(o[2])
  THEN Encoded(Bitfield(mnemonic \in {"sxtb", "sxth"}, Is64(o[1]), o[1].index,
                        o[2].index, 0,
                        IF mnemonic \in {"sxtb", "uxtb"} THEN 7 ELSE 15))
  ELSE Refused

(* "@PAGE" is looked for anywhere, so "@PAGEOFF" has it.                   *)
EncodeAdrp(o) ==
  IF IsInt(o[1]) /\ o[2].kind = "label" /\ o[2].modifier \in {"page", "pageoff"}
  THEN Relocated(Word(\h9000, 0) \cup At(o[1].index, 0), "page21")
  ELSE Refused

EncodeBrk(o) ==
  IF IsImm(o[1]) /\ Fits(o[1].value, 16)
  THEN Encoded(Word(\hD420, 0) \cup Put(o[1].value, 5))
  ELSE Refused

-----------------------------------------------------------------------------
(* The dispatch of chs_arm64_encode_instruction.                           *)

Mnemonic == instruction.mnemonic
Operands == instruction.operands

Init ==
  /\ \E k \in DOMAIN Instructions : instruction \in Instructions[k]
  /\ state = "start"
  /\ encoded = Refused

Return(result) ==
  /\ state' = IF result.ok THEN "accepted" ELSE "refused"
  /\ encoded' = result
  /\ UNCHANGED instruction

(* How many operands each mnemonic takes; with another number it is not    *)
(* known at all.                                                           *)
ByCount ==
  <<{"br", "blr", "b", "bl", "b.cond", "brk"},
    {"mov", "mvn", "fmov", "fcmp", "fcvtzu", "fcvtzs", "ucvtf", "scvtf",
     "fcvt", "cbz", "cbnz", "cmp", "cset", "sxtw", "uxtw", "sxtb", "uxtb",
     "sxth", "uxth", "adrp", "movz", "movk", "str", "strb", "strh"} \cup Loads,
    {"fadd", "fsub", "fmul", "fdiv", "movz", "movk", "add", "sub", "adds",
     "subs", "and", "orr", "eor", "bic", "str", "strb", "strh", "stp", "ldp",
     "mul", "udiv", "sdiv", "lsl", "lsr", "asr"} \cup Loads,
    {"stp", "ldp", "madd", "msub"}>>

IsKnown ==
  \/ Mnemonic = "ret" /\ Len(Operands) \in {0, 1}
  \/ Len(Operands) \in 1 .. 4 /\ Mnemonic \in ByCount[Len(Operands)]

Begins(mnemonics) == state = "start" /\ Mnemonic \in mnemonics /\ IsKnown

Ret == Begins({"ret"}) /\ Return(EncodeRet(Operands))

BranchRegister ==
  /\ Begins({"br", "blr"})
  /\ Return(EncodeBranchRegister(IF Mnemonic = "blr" THEN \hD63F ELSE \hD61F,
                                 Operands))

Mov == Begins({"mov"}) /\ Return(EncodeMov(Operands))

Mvn == Begins({"mvn"}) /\ Return(EncodeMvn(Operands))

Fmov == Begins({"fmov"}) /\ Return(EncodeFmov(Operands))

Fcmp == Begins({"fcmp"}) /\ Return(EncodeFcmp(Operands))

FpBinary ==
  Begins(DOMAIN FpArithmetic) /\ Return(EncodeFpArithmetic(Mnemonic, Operands))

FpToInteger ==
  Begins({"fcvtzu", "fcvtzs"}) /\ Return(EncodeToInteger(Mnemonic, Operands))

IntegerToFp ==
  Begins({"ucvtf", "scvtf"}) /\ Return(EncodeFromInteger(Mnemonic, Operands))

Fcvt == Begins({"fcvt"}) /\ Return(EncodeFcvt(Operands))

MovWide ==
  Begins({"movz", "movk"}) /\ Return(EncodeMoveWide(Mnemonic, Operands))

AddSub ==
  /\ Begins({"add", "sub", "adds", "subs"})
  /\ Return(EncodeAddSub(Mnemonic, Operands))

Logical ==
  Begins(DOMAIN LogicalBase) /\ Return(EncodeLogical(Mnemonic, Operands))

LoadStore ==
  /\ Begins({"str", "strb", "strh"} \cup Loads)
  /\ Return(EncodeLoadStore(Mnemonic, Operands))

LoadStorePair ==
  Begins({"stp", "ldp"}) /\ Return(EncodePair(Mnemonic, Operands))

Branch == Begins({"b", "bl"}) /\ Return(EncodeBranch(Mnemonic, Operands))

Conditional ==
  /\ Begins({"b.cond"})
  /\ Return(EncodeConditional(instruction.condition, Operands))

CompareBranch ==
  Begins({"cbz", "cbnz"}) /\ Return(EncodeCompareBranch(Mnemonic, Operands))

Cmp == Begins({"cmp"}) /\ Return(EncodeCmp(Operands))

Cset == Begins({"cset"}) /\ Return(EncodeCset(Operands))

ExtendWord ==
  Begins({"sxtw", "uxtw"}) /\ Return(EncodeExtendWord(Mnemonic, Operands))

MulDiv ==
  /\ Begins(DOMAIN MultiplyDivide)
  /\ Return(EncodeMultiplyDivide(Mnemonic, Operands))

MulAdd ==
  Begins({"madd", "msub"}) /\ Return(EncodeMultiplyAdd(Mnemonic, Operands))

Shift == Begins(DOMAIN ShiftVariable) /\ Return(EncodeShift(Mnemonic, Operands))

Extend ==
  /\ Begins({"sxtb", "uxtb", "sxth", "uxth"})
  /\ Return(EncodeExtend(Mnemonic, Operands))

Adrp == Begins({"adrp"}) /\ Return(EncodeAdrp(Operands))

Brk == Begins({"brk"}) /\ Return(EncodeBrk(Operands))

Unknown == state = "start" /\ ~IsKnown /\ Return(Refused)

Next ==
  \/ Ret \/ BranchRegister \/ Mov \/ Mvn \/ Fmov \/ Fcmp \/ FpBinary
  \/ FpToInteger \/ IntegerToFp \/ Fcvt \/ MovWide \/ AddSub \/ Logical
  \/ LoadStore \/ LoadStorePair \/ Branch \/ Conditional \/ CompareBranch \/ Cmp
  \/ Cset \/ ExtendWord \/ MulDiv \/ MulAdd \/ Shift \/ Extend \/ Adrp \/ Brk
  \/ Unknown

Spec == Init /\ [][Next]_vars
=============================================================================
