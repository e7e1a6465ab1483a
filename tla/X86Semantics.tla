----------------------------- MODULE X86Semantics -----------------------------
(***************************************************************************)
(* What the bytes of X86Encoder mean to a processor, read from the         *)
(* instruction format alone, and what the source meant.  Nothing here is   *)
(* code of CHS.                                                            *)
(*                                                                         *)
(* A place is where an operand lives: a register, memory at a base, memory *)
(* relative to the next instruction, a symbol, or a constant.  Width 0 is  *)
(* a width the source does not state.                                      *)
(***************************************************************************)
EXTENDS X86Encoder

Place(bank, code, width, disp) ==
  [bank |-> bank, code |-> code, width |-> width, disp |-> disp]

MemoryBanks == {"base", "next", "symbol", "absolute", "mixed"}

-----------------------------------------------------------------------------
(* The forms of instructions.  An argument is where it stands, its bank or *)
(* size, and its width, 0 for the operand size of the instruction.         *)

R == <<"reg", "gpr", 0>>
M == <<"rm", "gpr", 0>>
X == <<"reg", "xmm", 128>>
RM(width) == <<"rm", "gpr", width>>
XM(width) == <<"rm", "xmm", width>>
Imm == <<"imm", "short", 0>>
Imm8 == <<"imm", "byte", 8>>
InOpcode(width) == <<"low", "gpr", width>>
Label == <<"rel", "short", 64>>
One == <<"one", "gpr", 8>>
CL == <<"cl", "gpr", 8>>
Condition == <<"cc", "gpr", 0>>

NoExt == -1

Form(prefix, escape, opcode, ext, mnemonic, args) ==
  [prefix |-> prefix, escape |-> escape, opcode |-> opcode, ext |-> ext,
   mnemonic |-> mnemonic, args |-> args]

OneByte(opcode, ext, mnemonic, args) ==
  Form(0, FALSE, opcode, ext, mnemonic, args)

TwoByte(prefix, opcode, mnemonic, args) ==
  Form(prefix, TRUE, opcode, NoExt, mnemonic, args)

Arithmetic ==
  {<<"add", 0>>, <<"or", 1>>, <<"and", 4>>, <<"sub", 5>>, <<"xor", 6>>,
   <<"cmp", 7>>}

Forms ==
  {OneByte(\hC3, NoExt, "ret", <<>>), OneByte(\hC9, NoExt, "leave", <<>>),
   OneByte(\h99, NoExt, "cqo", <<>>),
   OneByte(\h8B, NoExt, "mov", <<R, M>>), OneByte(\h89, NoExt, "mov", <<M, R>>),
   OneByte(\h8A, NoExt, "mov", <<<<"reg", "gpr", 8>>, RM(8)>>),
   OneByte(\h88, NoExt, "mov", <<RM(8), <<"reg", "gpr", 8>>>>),
   OneByte(\hB8, NoExt, "mov", <<InOpcode(0), <<"imm", "full", 0>>>>),
   OneByte(\h50, NoExt, "push", <<InOpcode(64)>>),
   OneByte(\h58, NoExt, "pop", <<InOpcode(64)>>),
   OneByte(\hFF, 2, "call", <<RM(64)>>), OneByte(\hFF, 4, "jmp", <<RM(64)>>),
   OneByte(\hE8, NoExt, "call", <<Label>>), OneByte(\hE9, NoExt, "jmp", <<Label>>),
   TwoByte(0, \h80, "jcc", <<Condition, Label>>),
   TwoByte(0, \h90, "setcc", <<Condition, RM(8)>>),
   OneByte(\h8D, NoExt, "lea", <<R, <<"rm", "none", 0>>>>),
   OneByte(\h63, NoExt, "movsxd", <<R, RM(32)>>),
   TwoByte(0, \hB6, "movzx", <<R, RM(8)>>),
   TwoByte(0, \hBE, "movsx", <<R, RM(8)>>),
   TwoByte(0, \hAF, "imul", <<R, M>>),
   OneByte(\hF7, 2, "not", <<M>>), OneByte(\hF7, 6, "div", <<M>>),
   OneByte(\hF7, 7, "idiv", <<M>>),
   TwoByte(\hF2, \h10, "movsd", <<X, XM(64)>>),
   TwoByte(\hF2, \h11, "movsd", <<XM(64), X>>),
   TwoByte(\hF2, \hC2, "cmpsd", <<X, XM(64), Imm8>>),
   TwoByte(\hF3, \hC2, "cmpss", <<X, XM(32), Imm8>>),
   TwoByte(\hF2, \h2A, "cvtsi2sd", <<X, M>>),
   TwoByte(\hF3, \h2A, "cvtsi2ss", <<X, M>>),
   TwoByte(\hF3, \h5A, "cvtss2sd", <<X, XM(32)>>),
   TwoByte(\hF2, \h2C, "cvttsd2si", <<R, XM(64)>>)}
  \cup {TwoByte(\h66, \h6E, m, <<X, M>>) : m \in {"movd", "movq"}}
  \cup {TwoByte(\h66, \h7E, m, <<M, X>>) : m \in {"movd", "movq"}}
  \cup {OneByte(\h03 + 8 * e[2], NoExt, e[1], <<R, M>>) : e \in Arithmetic}
  \cup {OneByte(\h81, e[2], e[1], <<M, Imm>>) : e \in Arithmetic}
  \cup {OneByte(\h83, e[2], e[1], <<M, <<"imm", "byte", 0>>>>) :
          e \in Arithmetic}
  \cup {OneByte(c[1], e[2], e[1], <<M, c[2]>>) :
          c \in {<<\hD1, One>>, <<\hC1, Imm8>>, <<\hD3, CL>>},
          e \in {<<"shl", 4>>, <<"shr", 5>>, <<"sar", 7>>}}
  \cup {TwoByte(\hF2, e[2], e[1], <<X, XM(64)>>) : e \in
          {<<"addsd", \h58>>, <<"mulsd", \h59>>, <<"subsd", \h5C>>,
           <<"divsd", \h5E>>}}
  \cup {TwoByte(\hF3, e[2], e[1], <<X, XM(32)>>) : e \in
          {<<"addss", \h58>>, <<"mulss", \h59>>, <<"subss", \h5C>>,
           <<"divss", \h5E>>}}

(* How many opcodes a form has: its low bits name a register or condition. *)
Span(form) ==
  IF \E k \in DOMAIN form.args : form.args[k][1] = "low" THEN 8
  ELSE IF \E k \in DOMAIN form.args : form.args[k][1] = "cc" THEN 16
  ELSE 1

HasModRM(form) == \E k \in DOMAIN form.args : form.args[k][1] \in {"reg", "rm"}

-----------------------------------------------------------------------------
(* Reading the bytes, from the left.                                       *)

Signed(value, n) ==
  IF value < 2 ^ (Bits[n] - 1) THEN value ELSE value - 2 ^ Bits[n]

(* The bytes from k on are one whole field of n bytes.                     *)
IsField(bytes, k, n) ==
  /\ k + n - 1 <= Len(bytes)
  /\ \A part \in 1 .. n :
       /\ bytes[k + part - 1].is = "field"
       /\ bytes[k + part - 1].size = n
       /\ bytes[k + part - 1].part = part

ValueAt(bytes, k, values) ==
  k <= Len(bytes) /\ bytes[k].is = "value" /\ bytes[k].value \in values

(* Prefix, REX, escape byte and the place of the opcode.                   *)
Opening(bytes) ==
  LET prefixed == ValueAt(bytes, 1, {\h66, \hF2, \hF3})
      p      == IF prefixed THEN 2 ELSE 1
      hasRex == p <= Len(bytes) /\ bytes[p].is = "rex"
      q      == IF hasRex THEN p + 1 ELSE p
      escape == ValueAt(bytes, q, {\h0F})
      rex    == IF hasRex THEN bytes[p].bits ELSE {}
      prefix == IF prefixed THEN bytes[1].value ELSE 0
  IN  [prefix |-> prefix, hasRex |-> hasRex, rex |-> rex, escape |-> escape,
       at |-> IF escape THEN q + 1 ELSE q]

(* 66 is the operand size, unless it belongs to the opcode.                *)
SizeIn(form, opening) ==
  IF "W" \in opening.rex THEN 64
  ELSE IF opening.prefix = \h66 /\ form.prefix = 0 THEN 16
  ELSE 32

(* The ModRM byte at k with what belongs to it, and where that ends.       *)
Address(bytes, k) ==
  LET modrm == bytes[k]
      inMemory == modrm.mod # 3
      hasSib == inMemory /\ modrm.rm = 4
      d      == IF hasSib THEN k + 2 ELSE k + 1
      base   == IF hasSib THEN bytes[k + 1].base ELSE modrm.rm
      size   == CASE modrm.mod = 1 -> 1
                  [] modrm.mod = 2 -> 4
                  [] modrm.mod = 0 -> IF base = 5 THEN 4 ELSE 0
                  [] modrm.mod = 3 -> 0
  IN  [hasSib |-> hasSib, base |-> base, at |-> d, size |-> size,
       noBase |-> modrm.mod = 0 /\ base = 5, end |-> d + size]

Fits(form, bytes) ==
  LET head == Opening(bytes)
      k    == head.at
  IN  /\ k <= Len(bytes) /\ bytes[k].is = "value"
      /\ bytes[k].value \in form.opcode .. form.opcode + Span(form) - 1
      /\ form.escape = head.escape
      /\ \/ form.prefix = head.prefix
         \/ form.prefix = 0 /\ head.prefix = \h66
      /\ HasModRM(form) => k < Len(bytes) /\ bytes[k + 1].is = "modrm"
      /\ form.ext # NoExt => bytes[k + 1].reg = form.ext

(* A byte register of number 4 to 7 is one of ah, ch, dh, bh without REX.  *)
Register(bank, number, extended, width, hasRex) ==
  LET code == IF extended THEN number + 8 ELSE number
  IN  Place(IF bank = "gpr" /\ width = 8 /\ code \in 4 .. 7 /\ ~hasRex
            THEN "high" ELSE bank,
            code, width, 0)

(* Memory of an address.  A linker puts the distance from the end of a     *)
(* relocated field to the symbol plus the field there (Mach-O's SIGNED and *)
(* BRANCH relocations), the processor adds the end of the instruction.     *)
Memory(result, address, rex, width) ==
  LET bytes == result.bytes
      disp  == IF address.size = 0 THEN 0
               ELSE Signed(bytes[address.at].value, address.size)
      relocated == result.usesSymbol /\ address.size = 4
                     /\ result.offset + 1 = address.at
  IN  IF address.hasSib /\ bytes[address.at - 1].index # 4
      THEN Place("mixed", 0, width, 0)
      ELSE IF address.noBase /\ ~address.hasSib
      THEN IF relocated
           THEN Place("symbol", 0, width,
                      disp + Len(bytes) - (result.offset + 4))
           ELSE Place("next", 0, width, disp)
      ELSE IF relocated THEN Place("mixed", 0, width, disp)
      ELSE IF address.noBase THEN Place("absolute", 0, width, disp)
      ELSE Place("base",
                 IF "B" \in rex THEN address.base + 8 ELSE address.base,
                 width, disp)

(* One argument of a form: where it is, and the bytes it takes at the end. *)
TailSize(form, size) ==
  LET Length(arg) ==
        CASE arg[1] = "imm" /\ arg[2] = "byte"  -> 1
          [] arg[1] = "imm" /\ arg[2] = "full"  -> size \div 8
          [] arg[1] = "imm" /\ arg[2] = "short" -> IF size = 16 THEN 2 ELSE 4
          [] arg[1] = "rel" -> 4
          [] OTHER -> 0
  IN  IF form.args = <<>> THEN 0 ELSE Length(form.args[Len(form.args)])

Argument(form, arg, result) ==
  LET bytes == result.bytes
      head  == Opening(bytes)
      k     == head.at
      size  == SizeIn(form, head)
      width == IF arg[3] = 0 THEN size ELSE arg[3]
      tail  == TailSize(form, size)
      value == Signed(bytes[Len(bytes)].value, tail)
  IN  CASE arg[1] = "reg" ->
             Register(arg[2], bytes[k + 1].reg, "R" \in head.rex, width,
                      head.hasRex)
        [] arg[1] = "rm" /\ bytes[k + 1].mod = 3 ->
             Register(arg[2], bytes[k + 1].rm, "B" \in head.rex,
                      IF arg[2] = "xmm" THEN 128 ELSE width, head.hasRex)
        [] arg[1] = "rm" /\ bytes[k + 1].mod # 3 ->
             Memory(result, Address(bytes, k + 1), head.rex, width)
        [] arg[1] = "low" ->
             Register("gpr", bytes[k].value - form.opcode, "B" \in head.rex,
                      width, head.hasRex)
        [] arg[1] = "cc"  -> Place("condition", bytes[k].value - form.opcode, 0, 0)
        [] arg[1] = "one" -> Place("constant", 0, 8, 1)
        [] arg[1] = "cl"  -> Place("gpr", 1, 8, 0)
        [] arg[1] = "imm" -> Place("constant", 0, width, value)
        [] arg[1] = "rel" ->
             IF result.usesSymbol /\ result.offset + 4 = Len(bytes)
             THEN Place("symbol", 0, 64, value) ELSE Place("next", 0, 64, value)

(* Nothing is missing and nothing is left over.                            *)
Whole(form, bytes) ==
  LET head == Opening(bytes)
      tail == TailSize(form, SizeIn(form, head))
      address == Address(bytes, head.at + 1)
      end  == IF HasModRM(form) THEN address.end ELSE head.at + 1
  IN  /\ end + tail = Len(bytes) + 1
      /\ tail > 0 => IsField(bytes, end, tail)
      /\ HasModRM(form) /\ address.size > 0 =>
           IsField(bytes, address.at, address.size)

Readings(result) ==
  {[mnemonic |-> form.mnemonic,
    args |-> [k \in DOMAIN form.args |-> Argument(form, form.args[k], result)]] :
     form \in {f \in Forms : Fits(f, result.bytes) /\ Whole(f, result.bytes)}}

-----------------------------------------------------------------------------
(* What the source says.                                                   *)

Registers(operand) == SelectSeq(operand.terms, LAMBDA t : t.is = "register")
Symbols(operand)   == SelectSeq(operand.terms, LAMBDA t : t.is = "symbol")

Displacement(operand) ==
  LET Term(n) == LET t == operand.terms[n]
                 IN  IF t.is # "number" THEN 0
                     ELSE IF t.minus THEN -t.value ELSE t.value
  IN  FoldLeft(LAMBDA sum, n : sum + Term(n), 0,
               [n \in DOMAIN operand.terms |-> n])

(* The address of a memory operand is the sum of its terms.                *)
AddressOf(operand) ==
  LET regs  == Registers(operand)
      syms  == Symbols(operand)
      width == 8 * operand.width
      disp  == Displacement(operand)
      based == regs # <<>> /\ ~regs[1].reg.rip
  IN  CASE Len(regs) > 1 \/ Len(syms) > 1 \/ (based /\ syms # <<>>) ->
             Place("mixed", 0, width, disp)
        [] Len(regs) <= 1 /\ ~based /\ Len(syms) = 1 ->
             Place("symbol", 0, width, disp)
        [] Len(regs) = 1 /\ ~based /\ syms = <<>> ->
             Place("next", 0, width, disp)
        [] Len(regs) = 1 /\ based /\ syms = <<>> ->
             Place("base", regs[1].reg.code, width, disp)
        [] regs = <<>> /\ syms = <<>> -> Place("absolute", 0, width, disp)

Meant(operand) ==
  CASE operand.kind = "reg" ->
         LET r == operand.reg
         IN  Place(IF r.rip THEN "rip" ELSE IF r.xmm THEN "xmm" ELSE "gpr",
                   r.code, IF r.xmm THEN 128 ELSE r.width, 0)
    [] operand.kind = "mem"   -> AddressOf(operand)
    [] operand.kind = "imm"   -> Place("constant", 0, 0, operand.value)
    [] operand.kind = "label" -> Place("symbol", 0, 0, 0)

(* A shift without a count is one by one.                                  *)
Meaning(i) ==
  LET given == SelectSeq(i.operands, LAMBDA o : o.kind # "none")
      places == [k \in DOMAIN given |-> Meant(given[k])]
      shift == i.mnemonic \in DOMAIN ShiftOp
  IN  [mnemonic |-> IF i.mnemonic = "sal" THEN "shl" ELSE i.mnemonic,
       args |-> IF i.mnemonic \in {"jcc", "setcc"}
                THEN <<Place("condition", ConditionCode[i.condition], 0, 0)>>
                       \o places
                ELSE IF shift /\ Len(places) = 1
                THEN Append(places, Place("constant", 0, 0, 1))
                ELSE places]

(* A place the source states is the place the bytes name.  A constant is   *)
(* meant modulo its width, and an unstated width is any.                   *)
SamePlace(meant, read) ==
  /\ meant.bank = read.bank /\ meant.code = read.code
  /\ IF meant.bank = "constant"
     THEN (meant.disp - read.disp) % (2 ^ Bits[read.width \div 8]) = 0
     ELSE meant.disp = read.disp /\ meant.width \in {0, read.width}

SameMeaning(meant, read) ==
  /\ meant.mnemonic = read.mnemonic
  /\ Len(meant.args) = Len(read.args)
  /\ \A k \in DOMAIN meant.args : SamePlace(meant.args[k], read.args[k])

(* The manual has a form for these operands, with one operand size.        *)
Takes(arg, place, size) ==
  LET width == IF arg[3] = 0 THEN size ELSE arg[3]
      wide  == place.width \in {0, width}
      inRegister == place.bank = arg[2] /\ (wide \/ arg[2] = "xmm")
      inMemory   == place.bank \in MemoryBanks /\ wide
  IN  CASE arg[1] \in {"reg", "low"} -> inRegister
        [] arg[1] = "rm"  -> inRegister \/ inMemory
        [] arg[1] = "imm" -> place.bank = "constant"
        [] arg[1] = "rel" -> place.bank = "symbol" /\ place.width = 0
        [] arg[1] = "one" -> place.bank = "constant" /\ place.disp = 1
        [] arg[1] = "cl"  -> place = Place("gpr", 1, 8, 0)
        [] arg[1] = "cc"  -> place.bank = "condition"

HasForm(i) ==
  LET meaning == Meaning(i)
  IN  \E form \in Forms, size \in {16, 32, 64} :
        /\ form.mnemonic = meaning.mnemonic
        /\ size = 16 => form.prefix = 0
        /\ Len(form.args) = Len(meaning.args)
        /\ \A k \in DOMAIN form.args :
             Takes(form.args[k], meaning.args[k], size)
=============================================================================
