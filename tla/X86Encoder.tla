------------------------------ MODULE X86Encoder ------------------------------
(***************************************************************************)
(* chs_x86_64_encode_instruction: one parsed instruction to the bytes, the *)
(* symbol and the relocated field of a ChsEncodedInstruction.              *)
(*                                                                         *)
(* An instruction is a mnemonic with up to three operands; a condition is  *)
(* an operand of "jcc" and "setcc".  Operands are read from text already,  *)
(* except that a memory operand is still a sequence of signed terms.  A    *)
(* byte is its value where that is an opcode or a prefix, the bits of a    *)
(* REX prefix, the three fields of a ModRM or SIB byte, or one byte of a   *)
(* little-endian field.  Bits[n] is the width of a field of n bytes.       *)
(***************************************************************************)
EXTENDS Integers, Sequences, SequencesExt

CONSTANTS
  Instructions,  \* parsed instructions
  Bits,          \* bits of a field of 1, 2, 4 and 8 bytes
  Capacity       \* sizeof(encoded->bytes)

VARIABLES
  instruction,   \* the instruction to encode
  state,         \* "start", "accepted" or "refused"
  encoded        \* ChsEncodedInstruction

vars == <<instruction, state, encoded>>

SignedField(n) == -(2 ^ (Bits[n] - 1)) .. 2 ^ (Bits[n] - 1) - 1

-----------------------------------------------------------------------------
(* Operands.                                                               *)

NoReg == [code |-> 0, width |-> 0, xmm |-> FALSE, rip |-> FALSE]

(* One term of a memory operand: the last register becomes the base,       *)
(* numbers are added up, one symbol may be named.                          *)
AddTerm(mem, term) ==
  CASE term.is = "register" ->
         [mem EXCEPT !.ok = @ /\ ~term.minus, !.hasBase = TRUE,
                     !.base = term.reg]
    [] term.is = "number" ->
         [mem EXCEPT !.disp = @ + (IF term.minus THEN -term.value
                                                 ELSE term.value)]
    [] term.is = "symbol" ->
         [mem EXCEPT !.ok = @ /\ ~mem.hasSymbol /\ ~term.minus,
                     !.hasSymbol = TRUE]

ParseMem(operand) ==
  FoldLeft(AddTerm,
           [ok |-> TRUE, hasBase |-> FALSE, base |-> NoReg, disp |-> 0,
            hasSymbol |-> FALSE,
            width |-> IF operand.width = 0 THEN 8 ELSE operand.width],
           operand.terms)

Readable(operand) == operand.kind = "mem" => ParseMem(operand).ok

IsReg(operand) == operand.kind = "reg"
IsMem(operand) == operand.kind = "mem"
IsRm(operand)  == operand.kind \in {"reg", "mem"}
IsXmm(operand) == IsReg(operand) /\ operand.reg.xmm

(* The number that goes into the low register field and the B bit.         *)
RmCode(operand) ==
  IF IsReg(operand) THEN operand.reg.code
  ELSE IF IsMem(operand) THEN ParseMem(operand).base.code
  ELSE 0

RmWidth(operand) ==
  IF IsReg(operand) THEN operand.reg.width ELSE ParseMem(operand).width * 8

-----------------------------------------------------------------------------
(* Bytes.                                                                  *)

Op(value) == <<[is |-> "value", value |-> value]>>

Rex(w, r, b) ==
  LET bits == {bit \in {"W", "R", "B"} :
                 \/ bit = "W" /\ w
                 \/ bit = "R" /\ r >= 8
                 \/ bit = "B" /\ b >= 8}
  IN  IF bits = {} THEN <<>> ELSE <<[is |-> "rex", bits |-> bits]>>

ModRM(mod, reg, rm) ==
  <<[is |-> "modrm", mod |-> mod, reg |-> reg % 8, rm |-> rm % 8]>>

Sib(rm) == <<[is |-> "sib", scale |-> 0, index |-> 4, base |-> rm]>>

Field(n, value) ==
  [part \in 1 .. n |-> [is |-> "field", size |-> n, part |-> part,
                        value |-> value % (2 ^ Bits[n])]]

IsRelative(mem) == ~mem.hasBase \/ mem.base.rip

(* Wrong variant: a base of rbp or r13 is given no displacement.           *)
ModWithoutRbp(mem) ==
  IF mem.hasSymbol THEN 2
  ELSE IF mem.disp = 0 THEN 0
  ELSE IF mem.disp \in SignedField(1) THEN 1
  ELSE 2

(* How a base is followed: by nothing, by one byte, or by four.            *)
Mod(mem) ==
  IF mem.hasSymbol THEN 2
  ELSE IF mem.disp = 0 /\ mem.base.code % 8 # 5 THEN 0
  ELSE IF mem.disp \in SignedField(1) THEN 1
  ELSE 2

(* The ModRM byte, the SIB byte and the displacement of a memory operand,  *)
(* and where in them a relocated displacement starts.                      *)
MemBytes(reg, mem) ==
  LET rm   == mem.base.code % 8
      head == IF IsRelative(mem) THEN ModRM(0, reg, 5)
              ELSE ModRM(Mod(mem), reg, rm)
                     \o (IF rm = 4 THEN Sib(rm) ELSE <<>>)
      size == IF IsRelative(mem) \/ Mod(mem) = 2 THEN 4 ELSE Mod(mem)
  IN  [bytes |-> head \o Field(size, mem.disp),
       hasReloc |-> mem.hasSymbol, offset |-> Len(head)]

RmBytes(reg, operand) ==
  IF IsReg(operand)
  THEN [bytes |-> ModRM(3, reg, operand.reg.code),
        hasReloc |-> FALSE, offset |-> 0]
  ELSE MemBytes(reg, ParseMem(operand))

-----------------------------------------------------------------------------
(* What an encoder returns.                                                *)

Refused == [ok |-> FALSE, bytes |-> <<>>, usesSymbol |-> FALSE, offset |-> 0]

Plain(bytes) ==
  [ok |-> TRUE, bytes |-> bytes, usesSymbol |-> FALSE, offset |-> 0]

(* Opcodes, a register or memory operand with the symbol it may name, and  *)
(* what follows it.                                                        *)
WithRm(opcodes, reg, operand, after) ==
  LET rm == RmBytes(reg, operand)
  IN  [ok |-> TRUE, bytes |-> opcodes \o rm.bytes \o after,
       usesSymbol |-> rm.hasReloc,
       offset |-> IF rm.hasReloc THEN Len(opcodes) + rm.offset ELSE 0]

RexRm(w, reg, operand) == Rex(w, reg, RmCode(operand))

-----------------------------------------------------------------------------
(* One operator per encoding function.                                     *)

OperandSize(width) == IF width = 16 THEN Op(\h66) ELSE <<>>

MovImmediate(dst, src) ==
  LET reg == dst.reg
  IN  IF reg.width \in {16, 32, 64}
      THEN Plain(OperandSize(reg.width) \o Rex(reg.width = 64, 0, reg.code)
                 \o Op(\hB8 + (reg.code % 8))
                 \o Field(reg.width \div 8, src.value))
      ELSE Refused

MovBetween(dst, src) ==
  LET fromRm == IsReg(dst)
      r      == IF fromRm THEN dst ELSE src
      rm     == IF fromRm THEN src ELSE dst
      opcode == (IF fromRm THEN \h8B ELSE \h89)
                - (IF r.reg.width = 8 THEN 1 ELSE 0)
  IN  IF IsReg(r)
      THEN WithRm(OperandSize(r.reg.width)
                  \o RexRm(r.reg.width = 64, r.reg.code, rm) \o Op(opcode),
                  r.reg.code, rm, <<>>)
      ELSE Refused

EncodeMov(dst, src) ==
  IF IsReg(dst) /\ src.kind = "imm" THEN MovImmediate(dst, src)
  ELSE IF IsRm(dst) /\ IsRm(src) THEN MovBetween(dst, src)
  ELSE Refused

EncodePushPop(mnemonic, operand) ==
  IF IsReg(operand) /\ operand.reg.width = 64
  THEN Plain(Rex(FALSE, 0, operand.reg.code)
             \o Op((IF mnemonic = "push" THEN \h50 ELSE \h58)
                   + (operand.reg.code % 8)))
  ELSE Refused

(* Wrong variant: the field is taken to follow one byte of opcode.         *)
ToLabelAfterOneByte(opcode) ==
  [ok |-> TRUE, bytes |-> opcode \o Field(4, 0), usesSymbol |-> TRUE,
   offset |-> 1]

(* A branch to a label: the field follows the opcode.                      *)
ToLabel(opcode) ==
  [ok |-> TRUE, bytes |-> opcode \o Field(4, 0), usesSymbol |-> TRUE,
   offset |-> Len(opcode)]

ConditionCode ==
  [b |-> 2, ae |-> 3, e |-> 4, ne |-> 5, be |-> 6, a |-> 7,
   l |-> 12, ge |-> 13, le |-> 14, g |-> 15]

EncodeBranch(mnemonic, condition, operand) ==
  IF mnemonic \in {"call", "jmp"} /\ IsRm(operand)
  THEN IF IsReg(operand) /\ operand.reg.width # 64 THEN Refused
       ELSE WithRm(RexRm(TRUE, 0, operand) \o Op(\hFF),
                   IF mnemonic = "call" THEN 2 ELSE 4, operand, <<>>)
  ELSE IF operand.kind # "label" THEN Refused
  ELSE CASE mnemonic = "call" -> ToLabel(Op(\hE8))
         [] mnemonic = "jmp"  -> ToLabel(Op(\hE9))
         [] mnemonic = "jcc"  ->
              ToLabel(Op(\h0F) \o Op(\h80 + ConditionCode[condition]))

EncodeSetcc(condition, operand) ==
  IF IsRm(operand)
  THEN WithRm(Op(\h0F) \o Op(\h90 + ConditionCode[condition]), 0, operand,
              <<>>)
  ELSE Refused

EncodeLea(dst, src) ==
  IF IsReg(dst) /\ IsMem(src) /\ dst.reg.width = 64
  THEN WithRm(RexRm(TRUE, dst.reg.code, src) \o Op(\h8D), dst.reg.code, src,
              <<>>)
  ELSE Refused

BinaryOp ==
  [add |-> [opcode |-> \h03, ext |-> 0], or  |-> [opcode |-> \h0B, ext |-> 1],
   and |-> [opcode |-> \h23, ext |-> 4], sub |-> [opcode |-> \h2B, ext |-> 5],
   xor |-> [opcode |-> \h33, ext |-> 6], cmp |-> [opcode |-> \h3B, ext |-> 7]]

EncodeBinary(mnemonic, dst, src) ==
  LET op    == BinaryOp[mnemonic]
      w     == dst.reg.width = 64
      short == src.value \in SignedField(1)
  IN  IF IsReg(dst) /\ IsRm(src)
      THEN WithRm(RexRm(w, dst.reg.code, src) \o Op(op.opcode), dst.reg.code,
                  src, <<>>)
      ELSE IF IsReg(dst) /\ src.kind = "imm"
      THEN Plain(Rex(w, 0, dst.reg.code) \o Op(IF short THEN \h83 ELSE \h81)
                 \o ModRM(3, op.ext, dst.reg.code)
                 \o Field(IF short THEN 1 ELSE 4, src.value))
      ELSE Refused

EncodeExtend(mnemonic, dst, src) ==
  LET opcode == IF mnemonic = "movsxd" THEN Op(\h63)
                ELSE Op(\h0F) \o Op(IF mnemonic = "movzx" THEN \hB6 ELSE \hBE)
  IN  IF IsReg(dst) /\ IsRm(src)
      THEN WithRm(RexRm(mnemonic = "movsxd", dst.reg.code, src) \o opcode,
                  dst.reg.code, src, <<>>)
      ELSE Refused

EncodeImul(dst, src) ==
  IF IsReg(dst) /\ IsRm(src)
  THEN WithRm(RexRm(dst.reg.width = 64, dst.reg.code, src)
              \o Op(\h0F) \o Op(\hAF), dst.reg.code, src, <<>>)
  ELSE Refused

UnaryOp == [not |-> 2, div |-> 6, idiv |-> 7]

EncodeUnary(mnemonic, operand) ==
  IF IsRm(operand) /\ RmWidth(operand) \in {32, 64}
  THEN WithRm(RexRm(RmWidth(operand) = 64, 0, operand) \o Op(\hF7),
              UnaryOp[mnemonic], operand, <<>>)
  ELSE Refused

ShiftOp == [shl |-> 4, sal |-> 4, shr |-> 5, sar |-> 7]

(* The symbol of a shifted memory operand is never handed on.              *)
EncodeShift(mnemonic, dst, count) ==
  LET rex == RexRm(RmWidth(dst) = 64, 0, dst)
      Shift(opcode, after) ==
        [WithRm(rex \o Op(opcode), ShiftOp[mnemonic], dst, after)
           EXCEPT !.usesSymbol = FALSE, !.offset = 0]
  IN  IF ~IsRm(dst) \/ RmWidth(dst) \notin {32, 64} THEN Refused
      ELSE IF count.kind = "none" \/ (count.kind = "imm" /\ count.value = 1)
      THEN Shift(\hD1, <<>>)
      ELSE IF count.kind = "imm" THEN Shift(\hC1, Field(1, count.value))
      ELSE IF IsReg(count) /\ count.reg.code = 1 /\ count.reg.width = 8
      THEN Shift(\hD3, <<>>)
      ELSE Refused

EncodeMovq(dst, src) ==
  LET Between(opcode, xmm, gpr) ==
        Plain(Op(\h66) \o Rex(TRUE, xmm.reg.code, gpr.reg.code) \o Op(\h0F)
              \o Op(opcode) \o ModRM(3, xmm.reg.code, gpr.reg.code))
  IN  IF ~IsReg(dst) \/ ~IsReg(src) THEN Refused
      ELSE IF IsXmm(dst) /\ ~IsXmm(src) /\ src.reg.width = 64
      THEN Between(\h6E, dst, src)
      ELSE IF ~IsXmm(dst) /\ dst.reg.width = 64 /\ IsXmm(src)
      THEN Between(\h7E, src, dst)
      ELSE Refused

EncodeMovd(dst, src) ==
  LET Fits32(operand) == ~IsXmm(operand) /\ RmWidth(operand) = 32
      Between(opcode, xmm, rm) ==
        IF Fits32(rm)
        THEN WithRm(Op(\h66) \o RexRm(FALSE, xmm.reg.code, rm) \o Op(\h0F)
                    \o Op(opcode), xmm.reg.code, rm, <<>>)
        ELSE Refused
  IN  IF IsXmm(dst) /\ IsRm(src) THEN Between(\h6E, dst, src)
      ELSE IF IsRm(dst) /\ IsXmm(src) THEN Between(\h7E, src, dst)
      ELSE Refused

(* The scalar operations: prefix, REX, 0F, opcode, operand.                *)
Scalar(prefix, w, opcode, dst, src, after) ==
  WithRm(Op(prefix) \o RexRm(w, dst.reg.code, src) \o Op(\h0F) \o Op(opcode),
         dst.reg.code, src, after)

(* cmpsd takes a memory source of any width, cmpss one of 32 bits.         *)
EncodeCompare(mnemonic, dst, src, predicate) ==
  IF /\ IsXmm(dst) /\ IsRm(src) /\ predicate.kind = "imm"
     /\ mnemonic = "cmpss" /\ IsMem(src) => ParseMem(src).width = 4
  THEN Scalar(IF mnemonic = "cmpsd" THEN \hF2 ELSE \hF3, FALSE, \hC2, dst,
              src, Field(1, predicate.value))
  ELSE Refused

ScalarOp ==
  [addsd |-> <<\hF2, \h58, 8>>, addss |-> <<\hF3, \h58, 4>>,
   mulsd |-> <<\hF2, \h59, 8>>, mulss |-> <<\hF3, \h59, 4>>,
   subsd |-> <<\hF2, \h5C, 8>>, subss |-> <<\hF3, \h5C, 4>>,
   divsd |-> <<\hF2, \h5E, 8>>, divss |-> <<\hF3, \h5E, 4>>]

EncodeScalarBinary(mnemonic, dst, src) ==
  LET op == ScalarOp[mnemonic]
  IN  IF /\ IsXmm(dst) /\ IsRm(src)
         /\ IsMem(src) => ParseMem(src).width = op[3]
      THEN Scalar(op[1], FALSE, op[2], dst, src, <<>>)
      ELSE Refused

EncodeFromInteger(mnemonic, dst, src) ==
  IF IsXmm(dst) /\ IsRm(src)
  THEN Scalar(IF mnemonic = "cvtsi2sd" THEN \hF2 ELSE \hF3,
              RmWidth(src) = 64, \h2A, dst, src, <<>>)
  ELSE Refused

EncodeToDouble(dst, src) ==
  IF IsXmm(dst) /\ IsRm(src) /\ (IsMem(src) => ParseMem(src).width = 4)
  THEN Scalar(\hF3, FALSE, \h5A, dst, src, <<>>)
  ELSE Refused

EncodeToInteger(dst, src) ==
  IF IsReg(dst) /\ ~IsXmm(dst) /\ IsRm(src)
  THEN Scalar(\hF2, dst.reg.width = 64, \h2C, dst, src, <<>>)
  ELSE Refused

-----------------------------------------------------------------------------
(* The dispatch of chs_x86_64_encode_instruction.                          *)

Init ==
  /\ instruction \in Instructions
  /\ state = "start"
  /\ encoded = Refused

(* put_u8 refuses a byte that does not fit any more.                       *)
Return(result) ==
  LET accepted == result.ok /\ Len(result.bytes) <= Capacity
  IN  /\ state' = IF accepted THEN "accepted" ELSE "refused"
      /\ encoded' = IF accepted THEN result ELSE Refused
      /\ UNCHANGED instruction

Mnemonic == instruction.mnemonic
Operand(k) == instruction.operands[k]

(* The first two operands are read before the mnemonic is looked at.       *)
Begins(mnemonics) ==
  /\ state = "start"
  /\ Mnemonic \in mnemonics
  /\ Readable(Operand(1)) /\ Readable(Operand(2))

BadOperand ==
  /\ state = "start"
  /\ ~Readable(Operand(1)) \/ ~Readable(Operand(2))
  /\ Return(Refused)

Fixed ==
  /\ Begins({"ret", "cqo", "leave"})
  /\ Return(Plain(CASE Mnemonic = "ret"   -> Op(\hC3)
                    [] Mnemonic = "leave" -> Op(\hC9)
                    [] Mnemonic = "cqo"   -> Rex(TRUE, 0, 0) \o Op(\h99)))

PushPop ==
  /\ Begins({"push", "pop"})
  /\ Return(EncodePushPop(Mnemonic, Operand(1)))

Branch ==
  /\ Begins({"call", "jmp", "jcc"})
  /\ Return(EncodeBranch(Mnemonic, instruction.condition, Operand(1)))

Setcc ==
  /\ Begins({"setcc"})
  /\ Return(EncodeSetcc(instruction.condition, Operand(1)))

Lea == Begins({"lea"}) /\ Return(EncodeLea(Operand(1), Operand(2)))

Mov == Begins({"mov", "movsd"}) /\ Return(EncodeMov(Operand(1), Operand(2)))

Movq == Begins({"movq"}) /\ Return(EncodeMovq(Operand(1), Operand(2)))

Movd == Begins({"movd"}) /\ Return(EncodeMovd(Operand(1), Operand(2)))

Compare ==
  /\ Begins({"cmpsd", "cmpss"})
  /\ Return(IF Readable(Operand(3))
            THEN EncodeCompare(Mnemonic, Operand(1), Operand(2), Operand(3))
            ELSE Refused)

ScalarBinary ==
  /\ Begins(DOMAIN ScalarOp)
  /\ Return(EncodeScalarBinary(Mnemonic, Operand(1), Operand(2)))

Convert ==
  /\ Begins({"cvtsi2sd", "cvtsi2ss", "cvtss2sd", "cvttsd2si"})
  /\ Return(CASE Mnemonic = "cvtss2sd"  -> EncodeToDouble(Operand(1), Operand(2))
              [] Mnemonic = "cvttsd2si" -> EncodeToInteger(Operand(1), Operand(2))
              [] OTHER -> EncodeFromInteger(Mnemonic, Operand(1), Operand(2)))

Extend ==
  /\ Begins({"movsxd", "movzx", "movsx"})
  /\ Return(EncodeExtend(Mnemonic, Operand(1), Operand(2)))

Imul == Begins({"imul"}) /\ Return(EncodeImul(Operand(1), Operand(2)))

Unary ==
  /\ Begins(DOMAIN UnaryOp)
  /\ Return(EncodeUnary(Mnemonic, Operand(1)))

Binary ==
  /\ Begins(DOMAIN BinaryOp)
  /\ Return(EncodeBinary(Mnemonic, Operand(1), Operand(2)))

Shift ==
  /\ Begins(DOMAIN ShiftOp)
  /\ Return(EncodeShift(Mnemonic, Operand(1), Operand(2)))

(* Any other mnemonic is refused.                                          *)
Unknown ==
  /\ Begins({"unknown"})
  /\ Return(Refused)

Next ==
  \/ BadOperand \/ Fixed \/ PushPop \/ Branch \/ Setcc \/ Lea \/ Mov \/ Movq
  \/ Movd \/ Compare \/ ScalarBinary \/ Convert \/ Extend \/ Imul \/ Unary
  \/ Binary \/ Shift \/ Unknown

Spec == Init /\ [][Next]_vars
=============================================================================
