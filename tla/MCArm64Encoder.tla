---------------------------- MODULE MCArm64Encoder ----------------------------
(***************************************************************************)
(* Every encoder of arch_arm64.c over its operands, against the            *)
(* architecture's instruction forms.  Fields have their real widths;       *)
(* constants and distances lie on both sides of each limit.  Registers     *)
(* include every way to write number 31.                                   *)
(***************************************************************************)
EXTENDS Arm64Semantics

X(n) == [kind |-> "reg", class |-> "x", index |-> n]
W(n) == [kind |-> "reg", class |-> "w", index |-> n]
D(n) == [kind |-> "reg", class |-> "d", index |-> n]
S(n) == [kind |-> "reg", class |-> "s", index |-> n]
SP  == [kind |-> "reg", class |-> "sp", index |-> 31]
XZR == [kind |-> "reg", class |-> "xzr", index |-> 31]
WZR == [kind |-> "reg", class |-> "wzr", index |-> 31]

Imm(n) == [kind |-> "imm", value |-> Constant(n)]
Lsl(n) == [kind |-> "lsl", value |-> Constant(n)]
Cond(c) == [kind |-> "condition", name |-> c]
Mem(base, offset, mode) ==
  [kind |-> "mem", base |-> base, offset |-> offset, mode |-> mode]
Label(modifier) == [kind |-> "label", modifier |-> modifier, delta |-> <<>>]
NearLabel(delta) ==
  [kind |-> "label", modifier |-> "none", delta |-> <<delta>>]

Instr(m, operands) ==
  [mnemonic |-> m, condition |-> "eq", operands |-> operands]

Ints == {X(0), X(30), W(17), SP, XZR, WZR}
Fps  == {D(0), D(13), S(6), S(31)}
Regs == Ints \cup Fps

(* Constants about the ends of 16, 32 and 64 bits: 2^32 and a little more, *)
(* words of ones with and without a 33rd, what is left of them without the *)
(* low half, the last and the first of each width, and the negatives whose *)
(* lower halves are all ones or all zeros.                                 *)
WideBits ==
  {{32}, {0, 32}, {4, 32}, 0 .. 31, 0 .. 32, 16 .. 31, (0 .. 31) \ {16},
   0 .. 30, {31}, 31 .. 63, 0 .. 62, {63}, 32 .. 63, (0 .. 63) \ {32}}

Constants ==
  {Imm(n) : n \in {0, 1, 2, 3, 7, 15, 16, 31, 32, 63, 64, 255, 4095, 4096,
                   65535, 65536, 1073741823, -1, -2, -65536, -65537}}
    \cup {[kind |-> "imm", value |-> c] : c \in WideBits}

Offsets ==
  {0, 1, 2, 4, 8, 12, 255, 256, 4095, 4096, 8190, 8192, 16380, 16384, 32760,
   32768, 504, 512, -1, -4, -8, -256, -257, -512, -520}

Bases == {X(29), SP}

Memories ==
  {Mem(b, n, mode) : b \in Bases, n \in Offsets, mode \in {"offset", "pre"}}
    \cup {Mem(b, 8, "offset") : b \in {W(1), XZR, WZR, D(1)}}

Distances ==
  {0, 4, -4, 6, 1048572, 1048576, -1048576, -1048580, 134217724, 134217728,
   -134217728, -134217732}

Labels ==
  {NearLabel(d) : d \in Distances} \cup {Label("none")}

One == {"ret", "br", "blr", "brk"}

Alike ==
  {"mvn", "fmov", "fcmp", "fcvtzu", "fcvtzs", "ucvtf", "scvtf", "fcvt", "sxtw",
   "uxtw", "sxtb", "uxtb", "sxth", "uxth"}

Arith ==
  {"add", "sub", "adds", "subs", "and", "orr", "eor", "bic", "lsl", "lsr",
   "asr"}

Triples ==
  (Ints \X Ints \X Ints) \cup (Fps \X Fps \X Fps)
    \cup {<<X(0), D(0), X(1)>>, <<D(0), X(0), D(1)>>}

Moves ==
  {"ldr", "str", "ldrb", "strb", "ldrh", "strh", "ldrsb", "ldrsh", "ldrsw"}

AllInstructions ==
  <<{Instr(m, <<o>>) : m \in One, o \in Regs \cup Constants},
   {Instr(m, <<o>>) : m \in {"b", "bl"}, o \in Labels},
   {Instr("ret", <<>>), Instr("unknown", <<>>), Instr("add", <<X(0)>>)},
   {Instr(m, p) : m \in Alike \cup {"mov", "cmp"}, p \in Regs \X Regs},
   {Instr(m, p) : m \in {"mov", "cmp", "fcmp", "movz", "movk"},
                      p \in Regs \X Constants},
   {Instr(m, <<p[1], p[2], p[3]>>) :
          m \in {"movz", "movk"},
          p \in {X(3), W(3), XZR, D(0)} \X Constants
                  \X ({Imm(n) : n \in {16, 8}}
                        \cup {Lsl(n) : n \in {0, 16, 32, 48, 64, -16}}
                        \cup {[kind |-> "lsl", value |-> c] :
                                c \in {{4, 32}, {5, 32}, {3, 32}, {4, 63}}})},
   {Instr(m, p) :
          m \in (Arith \ {"lsr", "orr", "adds"}) \cup {"mul", "sdiv", "fadd"},
          p \in Triples},
   {Instr(m, <<X(5), X(6), X(7)>>) : m \in Arith \cup {"udiv"}},
   {Instr(m, <<D(5), D(6), D(7)>>) : m \in DOMAIN FpArithmetic},
   {Instr(m, p) : m \in Arith,
          p \in {X(0), W(0), SP, XZR} \X {X(2), W(2), SP, WZR} \X Constants},
   {Instr(m, <<d, n, Label("pageoff")>>) : m \in Arith,
          d \in {X(0), W(0), SP, XZR}, n \in {X(1), SP, XZR}},
   {Instr(m, <<t, a>>) : m \in Moves, t \in {X(0), W(17), SP, WZR, D(13), S(6)},
                          a \in Memories},
   {Instr(m, <<t, Mem(b, n, mode), Imm(k)>>) :
          m \in Moves, t \in {X(4), W(4), D(4)}, b \in Bases, n \in {0, 8},
          mode \in {"offset", "pre"}, k \in {0, 8, 255, 256, -256, -257}},
   {Instr(m, <<p, q, a>>) : m \in {"stp", "ldp"},
          p \in {X(3), W(30), SP, XZR, D(0)},
          q \in {X(4), W(4), SP}, a \in Memories},
   {Instr(m, <<X(3), q, Mem(b, n, mode), Imm(k)>>) : m \in {"stp", "ldp"},
          q \in {X(4), W(4)}, b \in Bases, n \in {0, 8},
          mode \in {"offset", "pre"}, k \in {0, 8, 504, 512, -512, -520, 4}},
   {[Instr("b.cond", <<o>>) EXCEPT !.condition = c] :
          o \in Labels, c \in DOMAIN ConditionCode \cup {"none"}},
   {Instr(m, <<r, o>>) : m \in {"cbz", "cbnz"}, r \in Regs, o \in Labels},
   {Instr("cset", <<r, o>>) : r \in Regs,
          o \in {Cond(c) : c \in DOMAIN ConditionCode} \cup {Imm(0)}},
   {Instr("adrp", <<r, Label(m)>>) : r \in Regs,
          m \in {"none", "page", "pageoff"}},
   {Instr(m, <<p, q, r, s>>) : m \in {"madd", "msub"}, p \in {X(1), W(1), SP},
          q \in {X(2), W(2), XZR}, r \in {X(3), W(3)},
          s \in {X(4), W(4), SP, WZR}}>>

-----------------------------------------------------------------------------
(* What the encoder does not encode as written; README.md lists the cases. *)

o == instruction.operands

Named(mnemonics) == instruction.mnemonic \in mnemonics

Holds(k, kind) == k \in DOMAIN o /\ o[k].kind = kind

Memory == IF Holds(2, "mem") THEN 2 ELSE 3
HasMemory == Holds(2, "mem") \/ Holds(3, "mem")

AddsOrSubs == {"add", "sub", "adds", "subs"}

(* Where number 31 is the stack pointer; elsewhere it is a zero register.  *)
StackPointerAt ==
  CASE Named({"add", "sub"}) /\ ~Holds(3, "reg")    -> {1, 2}
    [] Named({"adds", "subs"}) /\ ~Holds(3, "reg")  -> {2}
    [] Named({"cmp"}) /\ ~Holds(2, "reg")           -> {1}
    [] Named({"bic"}) /\ ~Holds(3, "reg")           -> {1}
    [] /\ Named({"mov"})
       /\ \E k \in DOMAIN o : Holds(k, "reg") /\ IsSp(o[k]) -> {1, 2}
    [] OTHER -> {}

(* The stack pointer and the zero registers are taken for one another.     *)
ThirtyOneMisread ==
  \/ \E k \in DOMAIN o :
        /\ Holds(k, "reg")
        /\ IF k \in StackPointerAt THEN IsZero(o[k]) ELSE IsSp(o[k])
  \/ HasMemory /\ IsZero(o[Memory].base)

(* Registers of two widths where the processor has one, or a 32-bit one    *)
(* where it has only the 64-bit form.                                      *)
WidthMisread ==
  \/ /\ Named(AddsOrSubs \cup {"cmp"}) \/ StackPointerAt # {}
     /\ \E j, k \in DOMAIN o :
           Holds(j, "reg") /\ Holds(k, "reg") /\ Is64(o[j]) # Is64(o[k])
  \/ Named({"sxtw", "uxtw", "adrp"}) /\ ~Is64(o[1])
  \/ Named({"add"}) /\ Holds(3, "label") /\ ~(Is64(o[1]) /\ Is64(o[2]))
  \/ Named({"stp", "ldp"}) /\ ~Is64(o[1])
  \/ HasMemory /\ ~Is64(o[Memory].base)

(* A constant is cut to its field, or to the width of the register, and a  *)
(* shift to unsigned.                                                      *)
ConstantCut ==
  \/ Named(AddsOrSubs) /\ Holds(3, "imm") /\ ~Fits(o[3].value, 12)
  \/ Named({"movz", "movk"}) /\ ~Fits(o[2].value, 16)
  \/ Named({"mov"}) /\ Holds(2, "imm") /\ ~Is64(o[1]) /\ ~IsWord(o[2].value)
  \/ /\ Named({"movz", "movk", "lsl", "lsr", "asr"})
     /\ Holds(3, "imm") \/ Holds(3, "lsl")
     /\ ~Fits(o[3].value, 32)

(* An offset is cut to its field, or to a multiple of the bytes moved.     *)
OffsetCut ==
  LET unit   == IF Named({"stp", "ldp"}) THEN 8
                ELSE 2 ^ Size(instruction.mnemonic, o[1])
      joined == IF Memory < Len(o) THEN PostIndexed(o[Memory], o[Memory + 1])
                ELSE o[Memory]
      fits   == IF Named({"stp", "ldp"}) THEN -64 .. 63 ELSE 0 .. 4095
  IN  /\ HasMemory
      /\ Named({"stp", "ldp"}) \/ joined.mode = "offset"
      /\ joined.offset % unit # 0 \/ joined.offset \div unit \notin fits

(* Of a bracket's offset and one behind it, one is dropped.                *)
OffsetDropped ==
  /\ HasMemory
  /\ Memory < Len(o)
  /\ o[Memory].mode = "pre" \/ o[Memory].offset # 0

(* The distance to a label is cut to its field.                            *)
DistanceCut ==
  \E k \in DOMAIN o :
    /\ Holds(k, "label")
    /\ o[k].delta # <<>>
    /\ \/ o[k].delta[1] % 4 # 0
       \/ o[k].delta[1] \div 4 \notin
            IF Named({"b", "bl"}) THEN -(2 ^ 25) .. 2 ^ 25 - 1
            ELSE -(2 ^ 18) .. 2 ^ 18 - 1

(* Another operation is encoded: a signed load into the other width, an    *)
(* add of the page offset, the page of a page offset, a cset that never    *)
(* sets.                                                                   *)
OperationChanged ==
  \/ Named({"ldrsb", "ldrsh"})
  \/ Named({"sub", "adds", "subs"}) /\ Holds(3, "label")
  \/ Named({"adrp"}) /\ o[2].modifier = "pageoff"
  \/ Named({"cset"}) /\ o[2].name = "al"

EncodedOtherwise ==
  \/ ThirtyOneMisread \/ WidthMisread \/ ConstantCut \/ OffsetCut
  \/ OffsetDropped \/ DistanceCut \/ OperationChanged

-----------------------------------------------------------------------------
(* The word of an accepted instruction, read by the architecture's forms   *)
(* alone, is what the source says - the same operation, registers,         *)
(* constants, addressing and target - in all but the cases above, and in   *)
(* those it is not.                                                        *)
WordMeansInstruction ==
  state = "accepted" =>
    (EncodedOtherwise <=>
       Meaning(instruction) \notin Readings(instruction.mnemonic, encoded))
=============================================================================
