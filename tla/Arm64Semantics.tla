---------------------------- MODULE Arm64Semantics ----------------------------
(***************************************************************************)
(* What a word of Arm64Encoder means to a processor, read from the         *)
(* architecture's instruction forms alone, and what the source meant.      *)
(* Nothing here is code of CHS.                                            *)
(*                                                                         *)
(* A form is its fixed one bits and its arguments, each a field; all other *)
(* bits are zero.  Several forms can match a word: they are names of one   *)
(* instruction (a mov is an orr, an add or a movz).                        *)
(***************************************************************************)
EXTENDS Arm64Encoder, SequencesExt

-----------------------------------------------------------------------------
(* Arguments.                                                              *)

Arg(is, at, width, scale) ==
  [is |-> is, at |-> at, width |-> width, scale |-> scale]

Reg(class, at)           == Arg(class, at, 5, 0)
UImm(at, width, scale)   == Arg("unsigned", at, width, scale)
SImm(at, width, scale)   == Arg("signed", at, width, scale)
To(at, width)            == Arg("to", at, width, 4)
Mode(mode)               == Arg(mode, 0, 0, 0)
Fixed(is)                == Arg(is, 0, 0, 0)

Modes == {"offset", "pre", "post"}

(* The register by its number, where its width makes no difference: its    *)
(* low bits are taken, or zero or one is put there.                        *)
Numbered(at) == Reg("low", at)

Bits(arg) == arg.at .. arg.at + arg.width - 1

RelocatedForm(relocation, mnemonic, fixed, args) ==
  [mnemonic |-> mnemonic, fixed |-> fixed, args |-> args,
   relocation |-> relocation,
   free |-> UNION {Bits(args[k]) : k \in DOMAIN args}]

Form(mnemonic, fixed, args) == RelocatedForm("none", mnemonic, fixed, args)

-----------------------------------------------------------------------------
(* The forms.                                                              *)

Base == Reg("xsp", 5)

(* A load or store of a register, with an unscaled or a scaled offset.     *)
Access(mnemonic, target, size, fixed) ==
  {Form(mnemonic, fixed \cup Word(\h3900, 0) \cup At(size, 30),
        <<target, Base, UImm(10, 12, 2 ^ size), Mode("offset")>>)}

Indexed(mnemonic, target, size, fixed) ==
  {Form(mnemonic, fixed \cup Word(\h3800, \h0400) \cup At(size, 30)
                    \cup When(mode = "pre", {11}),
        <<target, Base, SImm(12, 9, 1), Mode(mode)>>) :
     mode \in {"pre", "post"}}

SizedForms(is64) ==
  LET g    == IF is64 THEN "x" ELSE "w"
      gsp  == IF is64 THEN "xsp" ELSE "wsp"
      size == IF is64 THEN 3 ELSE 2
      n    == When(is64, {22})
      F(mnemonic, high, low, args) ==
        Form(mnemonic, Sized(is64, high, low), args)
      N(mnemonic, high, low, args) ==
        Form(mnemonic, Sized(is64, high, low) \cup n, args)
      RRR == <<Reg(g, 0), Reg(g, 5), Reg(g, 16)>>
      hw  == UImm(21, IF is64 THEN 2 ELSE 1, 16)
      shifts(kind) ==
        Arg(IF is64 THEN kind \o "64" ELSE kind \o "32", 10, 12, 0)
  IN  {F("add", \h1100, 0, <<Reg(gsp, 0), Reg(gsp, 5), UImm(10, 12, 1)>>),
       F("sub", \h5100, 0, <<Reg(gsp, 0), Reg(gsp, 5), UImm(10, 12, 1)>>),
       F("adds", \h3100, 0, <<Reg(g, 0), Reg(gsp, 5), UImm(10, 12, 1)>>),
       F("subs", \h7100, 0, <<Reg(g, 0), Reg(gsp, 5), UImm(10, 12, 1)>>),
       F("cmp", \h7100, 31, <<Reg(gsp, 5), UImm(10, 12, 1)>>),
       F("mov", \h1100, 0, <<Reg(gsp, 0), Reg(gsp, 5)>>),
       F("add", \h0B00, 0, RRR), F("sub", \h4B00, 0, RRR),
       F("adds", \h2B00, 0, RRR), F("subs", \h6B00, 0, RRR),
       F("cmp", \h6B00, 31, <<Reg(g, 5), Reg(g, 16)>>),
       F("and", \h0A00, 0, RRR), F("bic", \h0A20, 0, RRR),
       F("orr", \h2A00, 0, RRR), F("eor", \h4A00, 0, RRR),
       F("mov", \h2A00, \h03E0, <<Reg(g, 0), Reg(g, 16)>>),
       F("mvn", \h2A20, \h03E0, <<Reg(g, 0), Reg(g, 16)>>),
       Form("bic", Sized(is64, \h1200, 0),
            <<Reg(gsp, 0), Reg(g, 5),
              Arg(IF is64 THEN "clears64" ELSE "clears32", 10, 13, 0)>>),
       F("movz", \h5280, 0, <<Reg(g, 0), UImm(5, 16, 1), hw>>),
       F("movk", \h7280, 0, <<Reg(g, 0), UImm(5, 16, 1), hw>>),
       F("mov", \h5280, 0, <<Reg(g, 0), UImm(5, 16, 1)>>),
       F("mov", \h1280, 0,
         <<Reg(g, 0), Arg(IF is64 THEN "not64" ELSE "not32", 5, 16, 0)>>),
       F("mul", \h1B00, \h7C00, RRR),
       F("udiv", \h1AC0, \h0800, RRR), F("sdiv", \h1AC0, \h0C00, RRR),
       F("madd", \h1B00, 0, Append(RRR, Reg(g, 10))),
       F("msub", \h1B00, \h8000, Append(RRR, Reg(g, 10))),
       F("lsl", \h1AC0, \h2000, RRR), F("lsr", \h1AC0, \h2400, RRR),
       F("asr", \h1AC0, \h2800, RRR),
       N("lsl", \h5300, 0, <<Reg(g, 0), Reg(g, 5), shifts("left")>>),
       N("lsr", \h5300, 0, <<Reg(g, 0), Reg(g, 5), shifts("right")>>),
       N("asr", \h1300, 0, <<Reg(g, 0), Reg(g, 5), shifts("right")>>),
       N("sxtb", \h1300, \h1C00, <<Reg(g, 0), Numbered(5)>>),
       N("sxth", \h1300, \h3C00, <<Reg(g, 0), Numbered(5)>>),
       N("uxtb", \h5300, \h1C00, <<Reg(g, 0), Numbered(5)>>),
       N("uxth", \h5300, \h3C00, <<Reg(g, 0), Numbered(5)>>),
       F("cset", \h1A9F, \h07E0, <<Numbered(0), Arg("inverse", 12, 4, 0)>>),
       F("cbz", \h3400, 0, <<Reg(g, 0), To(5, 19)>>),
       F("cbnz", \h3500, 0, <<Reg(g, 0), To(5, 19)>>),
       F("fcvtzs", \h1E78, 0, <<Reg(g, 0), Reg("d", 5)>>),
       F("fcvtzu", \h1E79, 0, <<Reg(g, 0), Reg("d", 5)>>),
       F("scvtf", \h1E22, 0, <<Reg("s", 0), Reg(g, 5)>>),
       F("ucvtf", \h1E23, 0, <<Reg("s", 0), Reg(g, 5)>>),
       F("scvtf", \h1E62, 0, <<Reg("d", 0), Reg(g, 5)>>),
       F("ucvtf", \h1E63, 0, <<Reg("d", 0), Reg(g, 5)>>)}
      \cup Access("str", Reg(g, 0), size, {})
      \cup Access("ldr", Reg(g, 0), size, {22})
      \cup Indexed("str", Reg(g, 0), size, {})
      \cup Indexed("ldr", Reg(g, 0), size, {22})
      \cup Access("ldrsb", Reg(g, 0), 0, IF is64 THEN {23} ELSE {22, 23})
      \cup Access("ldrsh", Reg(g, 0), 1, IF is64 THEN {23} ELSE {22, 23})
      \cup {Form(op[1], Sized(is64, op[2], 0),
                 <<Reg(g, 0), Reg(g, 10), Base,
                   SImm(15, 7, 2 ^ size), Mode(op[3])>>) :
              op \in {<<"stp", \h2900, "offset">>, <<"ldp", \h2940, "offset">>,
                      <<"stp", \h2980, "pre">>, <<"ldp", \h29C0, "pre">>,
                      <<"stp", \h2880, "post">>, <<"ldp", \h28C0, "post">>}}

FpForms(fp, double) ==
  {Form(op[1], Word(\h1E20, op[2]) \cup double,
        <<Reg(fp, 0), Reg(fp, 5), Reg(fp, 16)>>) :
     op \in {<<"fadd", \h2800>>, <<"fsub", \h3800>>, <<"fmul", \h0800>>,
             <<"fdiv", \h1800>>}}
  \cup {Form("fcmp", Word(\h1E20, \h2000) \cup double,
             <<Reg(fp, 5), Reg(fp, 16)>>),
        Form("fcmp", Word(\h1E20, \h2008) \cup double,
             <<Reg(fp, 5), Fixed("zero")>>)}
  \cup Access("str", Reg(fp, 0), IF fp = "d" THEN 3 ELSE 2, {26})
  \cup Access("ldr", Reg(fp, 0), IF fp = "d" THEN 3 ELSE 2, {22, 26})

OtherForms ==
  {Form("ret", Word(\hD65F, \h03C0), <<>>),
   Form("ret", Word(\hD65F, 0), <<Reg("x", 5)>>),
   Form("br", Word(\hD61F, 0), <<Reg("x", 5)>>),
   Form("blr", Word(\hD63F, 0), <<Reg("x", 5)>>),
   Form("b", Word(\h1400, 0), <<To(0, 26)>>),
   Form("bl", Word(\h9400, 0), <<To(0, 26)>>),
   RelocatedForm("branch26", "b", Word(\h1400, 0), <<Fixed("label")>>),
   RelocatedForm("branch26", "bl", Word(\h9400, 0), <<Fixed("label")>>),
   Form("b.cond", Word(\h5400, 0), <<Arg("cond", 0, 4, 0), To(5, 19)>>),
   RelocatedForm("page21", "adrp", Word(\h9000, 0),
                 <<Reg("x", 0), Fixed("page")>>),
   RelocatedForm("pageoff12", "add", Word(\h9100, 0),
                 <<Reg("xsp", 0), Base, Fixed("pageoff")>>),
   Form("sxtw", Word(\h9340, \h7C00), <<Reg("x", 0), Numbered(5)>>),
   Form("uxtw", Word(\hD340, \h7C00), <<Reg("x", 0), Numbered(5)>>),
   Form("fmov", Word(\h9E67, 0), <<Reg("d", 0), Reg("x", 5)>>),
   Form("fmov", Word(\h9E66, 0), <<Reg("x", 0), Reg("d", 5)>>),
   Form("fmov", Word(\h1E27, 0), <<Reg("s", 0), Reg("w", 5)>>),
   Form("fmov", Word(\h1E26, 0), <<Reg("w", 0), Reg("s", 5)>>),
   Form("fcvt", Word(\h1E22, \hC000), <<Reg("d", 0), Reg("s", 5)>>),
   Form("fcvt", Word(\h1E62, \h4000), <<Reg("s", 0), Reg("d", 5)>>),
   Form("brk", Word(\hD420, 0), <<UImm(5, 16, 1)>>)}
  \cup Access("ldrsw", Reg("x", 0), 2, {23})
  \cup Access("strb", Numbered(0), 0, {}) \cup Access("ldrb", Numbered(0), 0, {22})
  \cup Access("strh", Numbered(0), 1, {}) \cup Access("ldrh", Numbered(0), 1, {22})
  \cup Indexed("strb", Numbered(0), 0, {}) \cup Indexed("ldrb", Numbered(0), 0, {22})
  \cup Indexed("strh", Numbered(0), 1, {}) \cup Indexed("ldrh", Numbered(0), 1, {22})

Forms ==
  SizedForms(TRUE) \cup SizedForms(FALSE) \cup FpForms("d", {22})
    \cup FpForms("s", {}) \cup OtherForms

FormsOf ==
  [mnemonic \in {f.mnemonic : f \in Forms} |->
     {f \in Forms : f.mnemonic = mnemonic}]

-----------------------------------------------------------------------------
(* Reading a word.                                                         *)

FieldOf(word, at, width) ==
  FoldLeft(LAMBDA sum, k : 2 * sum + (IF at + width - k \in word THEN 1 ELSE 0),
           0, [k \in 1 .. width |-> k])

Signed(value, width) ==
  IF value < 2 ^ (width - 1) THEN value ELSE value - 2 ^ width

(* A shift by a constant, as the rotation and the last bit of a bit field. *)
ShiftOf(width, left, field) ==
  LET immr  == field \div 64
      imms  == field % 64
      shift == IF left THEN (width - immr) % width ELSE immr
  IN  IF imms = (IF left THEN width - 1 - shift ELSE width - 1)
      THEN <<"imm", BitsOf(shift)>> ELSE <<"other">>

(* The bits an "and" with a rotated run of ones clears.                    *)
Cleared(width, field) ==
  LET immr == (field \div 64) % 64
      imms == field % 64
      kept == {(width + b - immr) % width : b \in 0 .. imms}
  IN  IF field \div 4096 = (IF width = 64 THEN 1 ELSE 0) /\ imms < width - 1
      THEN <<"bits", (0 .. width - 1) \ kept>> ELSE <<"other">>

(* Number 31 is the zero register or the stack pointer, by the form.       *)
Register(class, number) ==
  IF number # 31 \/ class \in {"d", "s", "low"}
  THEN <<CASE class = "xsp" -> "x" [] class = "wsp" -> "w" [] OTHER -> class,
         number>>
  ELSE CASE class = "x" -> <<"xzr">> [] class = "w" -> <<"wzr">>
         [] class = "xsp" -> <<"sp">> [] class = "wsp" -> <<"wsp">>

Reading(word, arg) ==
  LET f == FieldOf(word, arg.at, arg.width)
  IN  CASE arg.is \in {"x", "w", "xsp", "wsp", "d", "s", "low"} ->
             Register(arg.is, f)
        [] arg.is = "unsigned" -> <<"imm", Constant(f * arg.scale)>>
        [] arg.is = "signed"   ->
             <<"imm", Constant(Signed(f, arg.width) * arg.scale)>>
        [] arg.is = "not64"    -> <<"imm", (0 .. 63) \ BitsOf(f)>>
        [] arg.is = "not32"    -> <<"imm", (0 .. 31) \ BitsOf(f)>>
        [] arg.is = "zero"     -> <<"imm", {}>>
        [] arg.is = "to"       -> <<"to", Signed(f, arg.width) * arg.scale>>
        [] arg.is = "cond"     -> <<"cond", f>>
        [] arg.is = "inverse"  ->
             IF f >= 14 THEN <<"other">> ELSE <<"cond", Inverted(f)>>
        [] arg.is = "left64"   -> ShiftOf(64, TRUE, f)
        [] arg.is = "left32"   -> ShiftOf(32, TRUE, f)
        [] arg.is = "right64"  -> ShiftOf(64, FALSE, f)
        [] arg.is = "right32"  -> ShiftOf(32, FALSE, f)
        [] arg.is = "clears64" -> Cleared(64, f)
        [] arg.is = "clears32" -> Cleared(32, f)
        [] arg.is \in Modes \cup {"label", "page", "pageoff"} -> <<arg.is>>

(* What a word can be read as under a mnemonic.                            *)
Readings(mnemonic, result) ==
  {[mnemonic |-> mnemonic,
    args |-> [k \in DOMAIN form.args |-> Reading(result.word, form.args[k])]] :
     form \in {f \in FormsOf[mnemonic] : f.relocation = result.relocation
                               /\ result.word \ f.free = f.fixed}}

-----------------------------------------------------------------------------
(* What the source says.                                                   *)

Meant(o) ==
  CASE o.kind = "reg" ->
         IF o.class \in {"sp", "xzr", "wzr"} THEN <<o.class>>
         ELSE <<o.class, o.index>>
    [] o.kind \in {"imm", "lsl"} -> <<"imm", o.value>>
    [] o.kind = "condition" -> <<"cond", ConditionCode[o.name]>>
    [] o.kind = "label" ->
         IF o.modifier # "none" THEN <<o.modifier>>
         ELSE IF o.delta # <<>> THEN <<"to", o.delta[1]>> ELSE <<"label">>

ByNumber(o) == IF IsSp(o) THEN <<"sp">> ELSE <<"low", o.index>>

(* A memory operand is its base, its offset and what happens to the base.  *)
Flattened(o) ==
  LET last == o[Len(o)]
      rest == [k \in 1 .. Len(o) - 1 |-> Meant(o[k])]
      Memory(front, mem, offset, mode) ==
        front \o <<Meant(mem.base), <<"imm", offset>>, <<mode>>>>
  IN  IF o = <<>> THEN <<>>
      ELSE IF last.kind = "mem"
      THEN Memory(rest, last, Constant(last.offset), last.mode)
      ELSE IF Len(o) > 1 /\ o[Len(o) - 1].kind = "mem"
      THEN LET mem == o[Len(o) - 1]
           IN  Memory([k \in 1 .. Len(o) - 2 |-> Meant(o[k])], mem, last.value,
                      IF mem.mode = "offset" /\ mem.offset = 0 THEN "post"
                      ELSE "two offsets")
      ELSE Append(rest, Meant(last))

(* A constant of 32 bits, with a sign or without one.                      *)
IsWord(c) == Fits(c, 32) \/ 31 .. 63 \subseteq c

(* Registers whose width makes no difference are told by their number, a   *)
(* zero register has the width of the other operand of a mov, a 32-bit     *)
(* register takes the low half of a constant that is a word, a wide move   *)
(* without a shift has one of zero, and bic clears the bits of its mask.   *)
Meaning(i) ==
  LET o    == i.operands
      flat == Flattened(o)
      Zero(k, other) ==
        IF IsZero(o[k]) /\ o[other].kind = "reg"
        THEN IF Is64(o[k]) \/ Is64(o[other]) THEN <<"xzr">> ELSE <<"wzr">>
        ELSE flat[k]
      args ==
        CASE i.mnemonic \in {"ldrb", "strb", "ldrh", "strh", "cset"} ->
               [flat EXCEPT ![1] = ByNumber(o[1])]
          [] i.mnemonic \in {"sxtb", "uxtb", "sxth", "uxth", "sxtw", "uxtw"} ->
               [flat EXCEPT ![2] = ByNumber(o[2])]
          [] i.mnemonic = "mov" /\ o[2].kind = "reg" ->
               <<Zero(1, 2), Zero(2, 1)>>
          [] i.mnemonic = "mov" /\ IsImm(o[2]) /\ ~Is64(o[1])
               /\ IsWord(o[2].value) ->
               [flat EXCEPT ![2] = <<"imm", Low(o[2].value, 32)>>]
          [] i.mnemonic \in {"movz", "movk"} /\ Len(o) = 2 ->
               Append(flat, <<"imm", {}>>)
          [] i.mnemonic = "bic" /\ IsImm(o[3]) ->
               [flat EXCEPT ![3] = <<"bits", o[3].value>>]
          [] i.mnemonic = "b.cond" ->
               <<<<"cond", ConditionCode[i.condition]>>>> \o flat
          [] OTHER -> flat
  IN  [mnemonic |-> i.mnemonic, args |-> args]
=============================================================================
