----------------------------- MODULE MCX86Encoder -----------------------------
(***************************************************************************)
(* Every encoder of arch_x86_64.c over its operands, against the           *)
(* instruction format.  Registers include those whose numbers select other *)
(* addressing modes (rsp, rbp, r12, r13), need a REX prefix, or change     *)
(* their meaning with one (spl to dil).  Fields of 1, 2, 4 and 8 bytes     *)
(* have 3, 4, 6 and 10 bits, so that numbers lie on both sides of each.    *)
(***************************************************************************)
EXTENDS X86Semantics

BitsOf == [n \in {1, 2, 4, 8} |-> n + 2]

Gpr(code, width) == [code |-> code, width |-> width, xmm |-> FALSE, rip |-> FALSE]
Xmm(code) == [code |-> code, width |-> 64, xmm |-> TRUE, rip |-> FALSE]
Rip == [code |-> 0, width |-> 64, xmm |-> FALSE, rip |-> TRUE]

None == [kind |-> "none"]
Label0 == [kind |-> "label"]
Reg(r) == [kind |-> "reg", reg |-> r]
Constant(n) == [kind |-> "imm", value |-> n]
Mem(width, terms) == [kind |-> "mem", width |-> width, terms |-> terms]

TReg(r, minus) == [is |-> "register", reg |-> r, minus |-> minus]
TNum(n, minus) == [is |-> "number", value |-> n, minus |-> minus]
TSym(minus) == [is |-> "symbol", minus |-> minus]

Codes == {0, 1, 4, 5, 8, 12, 13}

RegOperands ==
  {Reg(Gpr(c, w)) : c \in Codes, w \in {8, 16, 32, 64}}
    \cup {Reg(Xmm(c)) : c \in {0, 5, 9}} \cup {Reg(Rip)}

Displacements == {0, 3, 4, -4, -5, 31, 32, -33}

(* One base with a displacement, and everything else memory may be.        *)
Addresses ==
  {<<TReg(Gpr(c, 64), FALSE), TNum(d, FALSE)>> : c \in Codes, d \in Displacements}
  \cup {<<TReg(Gpr(c, 64), FALSE)>> : c \in Codes}
  \cup {<<TReg(Rip, FALSE), TSym(FALSE), TNum(d, TRUE)>> : d \in {0, 2}}
  \cup {<<TSym(FALSE)>>, <<TSym(FALSE), TNum(2, FALSE)>>, <<TNum(3, FALSE)>>,
        <<TReg(Rip, FALSE), TNum(4, TRUE)>>,
        <<TReg(Gpr(0, 64), FALSE), TSym(FALSE)>>,
        <<TReg(Gpr(4, 64), FALSE), TSym(FALSE), TNum(2, FALSE)>>,
        <<TReg(Gpr(0, 64), FALSE), TReg(Gpr(13, 64), FALSE)>>,
        <<TReg(Gpr(0, 32), FALSE)>>,
        <<TReg(Gpr(0, 64), TRUE)>>, <<TSym(FALSE), TSym(FALSE)>>, <<TSym(TRUE)>>,
        <<TReg(Gpr(0, 64), FALSE), TNum(3, FALSE), TNum(4, TRUE)>>}

FewAddresses ==
  {<<TReg(Gpr(13, 64), FALSE)>>, <<TSym(FALSE)>>, <<TSym(FALSE), TNum(2, FALSE)>>,
   <<TReg(Gpr(4, 64), FALSE), TNum(4, FALSE)>>}

MemOperands(widths, addresses) == {Mem(w, a) : w \in widths, a \in addresses}

Constants == {Constant(n) : n \in {0, 1, 3, 4, -4, -5, 9, 31, 32, -32, 63}}

Instr(m, a, b, c) ==
  [mnemonic |-> m, condition |-> "e", operands |-> <<a, b, c>>]

TwoOperand ==
  {"lea", "mov", "movsd", "movq", "movd", "movsxd", "movzx", "movsx", "imul",
   "cvtsi2sd", "cvtsi2ss", "cvtss2sd", "cvttsd2si"}
  \cup DOMAIN BinaryOp \cup DOMAIN ScalarOp

OneOperand == {"push", "pop", "call", "jmp"} \cup DOMAIN UnaryOp

FewRegs ==
  {Reg(Gpr(5, w)) : w \in {8, 16, 32, 64}} \cup {Reg(Gpr(8, 64)), Reg(Xmm(9))}

SomeMemory == MemOperands({0}, Addresses) \cup MemOperands({4, 8}, FewAddresses)

Pairs ==
  (RegOperands \X FewRegs) \cup (FewRegs \X RegOperands)
  \cup (FewRegs \X SomeMemory)
  \cup (MemOperands({0, 4, 8}, FewAddresses) \X FewRegs)
  \cup (FewRegs \X Constants)
  \cup {<<Mem(0, <<TSym(FALSE)>>), Mem(0, <<TNum(3, FALSE)>>)>>,
        <<Reg(Gpr(0, 64)), Label0>>, <<Label0, Reg(Gpr(0, 64))>>}

Singles == RegOperands \cup SomeMemory \cup {Label0}

AllInstructions ==
  {Instr(m, p[1], p[2], None) : m \in TwoOperand, p \in Pairs}
  \cup {Instr(m, o, None, None) : m \in OneOperand, o \in Singles}
  \cup {[Instr(m, o, None, None) EXCEPT !.condition = c] :
          m \in {"jcc", "setcc"}, c \in DOMAIN ConditionCode,
          o \in {Label0, Reg(Gpr(0, 8)), Reg(Gpr(4, 8)), Reg(Gpr(12, 8)),
                 Mem(1, <<TReg(Gpr(5, 64), FALSE)>>), Constant(1),
                 Mem(0, <<TSym(FALSE)>>), Mem(0, <<TReg(Gpr(13, 64), FALSE)>>)}}
  \cup {Instr(m, o, c, None) :
          m \in DOMAIN ShiftOp, o \in Singles,
          c \in {None, Constant(1), Constant(3), Reg(Gpr(1, 8)),
                 Reg(Gpr(1, 64)), Reg(Gpr(0, 8))}}
  \cup {Instr(m, Reg(Xmm(9)), o, c) :
          m \in {"cmpsd", "cmpss"}, o \in Singles,
          c \in {None, Constant(1), Constant(7), Reg(Xmm(0)),
                 Mem(0, <<TSym(TRUE)>>)}}
  \cup {Instr(m, None, None, None) : m \in {"ret", "cqo", "leave", "unknown"}}

-----------------------------------------------------------------------------
(* What the encoder is known not to encode as written; README.md lists the *)
(* cases.  The properties below hold for everything else.                  *)

Memories == {o \in {instruction.operands[k] : k \in 1 .. 3} : IsMem(o)}

(* A second register, a register with a symbol, a narrow base, no base and *)
(* no symbol, or a displacement of more than 32 bits.                      *)
OddAddress(operand) ==
  LET address == AddressOf(operand)
  IN  \/ address.bank \in {"mixed", "absolute"}
      \/ address.disp \notin SignedField(4)
      \/ \E k \in DOMAIN operand.terms :
           operand.terms[k].is = "register" /\ operand.terms[k].reg.width # 64

(* No REX prefix where spl to dil or a register from r8 on needs one.      *)
MissingRex ==
  \/ /\ Mnemonic = "setcc"
     /\ RmCode(Operand(1)) >= (IF IsReg(Operand(1)) THEN 4 ELSE 8)
  \/ /\ Mnemonic \in {"mov", "movzx", "movsx"}
     /\ \A k \in DOMAIN encoded.bytes : encoded.bytes[k].is # "rex"
     /\ \E k \in {1, 2} : IsReg(Operand(k)) /\ Operand(k).reg.width = 8
                            /\ Operand(k).reg.code \in 4 .. 7

(* The operand size is ignored: no 66 prefix, no REX.W.                    *)
IgnoredSize ==
  \/ /\ Mnemonic \in DOMAIN BinaryOp \cup {"imul", "movzx", "movsx"}
     /\ Operand(1).reg.width = 16
  \/ Mnemonic \in {"movzx", "movsx"} /\ Operand(1).reg.width = 64
  \/ Mnemonic = "movsxd" /\ Operand(1).reg.width # 64

(* A sign-extended 32-bit field cannot hold the constant.                  *)
WideConstant ==
  /\ Mnemonic \in DOMAIN BinaryOp /\ Operand(2).kind = "imm"
  /\ Operand(2).value \notin SignedField(4)

(* The symbol of a shifted operand is dropped, and a relocated field is    *)
(* not the last of a comparison.                                           *)
LostSymbol ==
  /\ Mnemonic \in DOMAIN ShiftOp \cup {"cmpsd", "cmpss"}
  /\ \E operand \in Memories : AddressOf(operand).bank = "symbol"

EncodedOtherwise ==
  \/ \E operand \in Memories : OddAddress(operand)
  \/ MissingRex \/ IgnoredSize \/ WideConstant \/ LostSymbol
  \/ Mnemonic = "movsd"

-----------------------------------------------------------------------------
(* The bytes of an accepted instruction, read by the format alone, are     *)
(* what the source says: the same operation, registers, constants and      *)
(* addresses, with nothing left over; a named symbol is reached once the   *)
(* relocation is applied.                                                  *)
EncodingMeansInstruction ==
  state = "accepted" /\ HasForm(instruction) /\ ~EncodedOtherwise =>
    \E reading \in Readings(encoded) :
      SameMeaning(Meaning(instruction), reading)

(* Whatever is accepted fits the slot of the assembler, and a relocation   *)
(* covers one whole 32-bit field of it: what chs_assemble_file relies on   *)
(* when it copies the bytes and adds the offset to the instruction's.      *)
RelocationCoversField ==
  state = "accepted" =>
    /\ Len(encoded.bytes) \in 1 .. 16
    /\ encoded.usesSymbol => IsField(encoded.bytes, encoded.offset + 1, 4)

(* The message of arch_x86_64.c:1344: "%s expects xmm destination and      *)
(* xmm/m%d source".                                                        *)
ScalarSourcesAreXmm ==
  state = "accepted" /\ Mnemonic \in DOMAIN ScalarOp =>
    IsXmm(Operand(2)) \/ IsMem(Operand(2))
=============================================================================
