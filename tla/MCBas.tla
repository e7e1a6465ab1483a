-------------------------------- MODULE MCBas --------------------------------
(***************************************************************************)
(* Small programs for the bas assembler.  A byte has three bits and a word *)
(* twelve, so that a short branch reaches from -4 to 3, a two-byte value   *)
(* from 0 to 63, and the counter wraps around at 4096.                     *)
(***************************************************************************)
EXTENDS BasAssembler

LabelAt(n)         == [op |-> "label", name |-> n]
Source(f)          == [op |-> "include", file |-> f, force |-> FALSE]
Force(f)           == [op |-> "include", file |-> f, force |-> TRUE]
Origin(v)          == [op |-> "origin", value |-> v]
AlignTo(n)         == [op |-> "align", to |-> n]
Raw(n)             == [op |-> "bytes", size |-> n]
Binary(n)          == [op |-> "incbin", size |-> n]
String(n)          == [op |-> "string", size |-> n]
Values(w, ns)      == [op |-> "values", width |-> w, names |-> ns]
Instr(f, n)        == [op |-> "instr", form |-> f, name |-> n]
Repeat(h, l, f, n) == [op |-> "rrpin", head |-> h, loop |-> l, inner |-> f,
                         name |-> n]

SmallHidden == {"Lx"}
LiteralName(n) == <<"__str_0", "__str_1", "__str_2">>[n + 1]

(* Statements that are placed in every order, in two files.  "f" and "Lx"  *)
(* are labels of every program, "u" is nobody's.                           *)
Palette ==
  {Instr("BRANCH_REL8", "f"), Instr("BRANCH_REL32", "Lx"),
   Instr("REG_REL32", "u"), Instr("REG_IMM32", "Lx"), Instr("ABS32_ONLY", "u"),
   Repeat("RRPIN_R", "f", "REG_REL32", "Lx"),
   Repeat("RRPIN_V", "#", "REG_REL32", "u"),
   Values(2, <<"#", "Lx">>), Values(8, <<"f", "u">>),
   String(3), AlignTo(8), Binary(5)}

Shuffled ==
  {[main |-> <<LabelAt("f"), x, Source("a"), y>>,
    a    |-> <<z, LabelAt("Lx"), Source("main")>>] :
     x \in Palette, y \in Palette, z \in Palette}

(* Every format of the instruction table, and every repeater.              *)
AllFormats ==
  [main |->
     <<Instr("NONE", "#"), Instr("CTL_IDX", "#"), Instr("REG_REG", "#"),
       Instr("REG_CTL", "#"), Instr("CTL_REG", "#"), Instr("REG_HIGH", "#"),
       Instr("REG_MEM", "#"), Instr("IMM8", "#"), Instr("REG_REG_REG", "#"),
       Instr("REG_IMM8", "#"), Instr("IMM16", "#"), Instr("MEM_LOAD", "#"),
       Instr("MEM_STORE", "#"), Instr("REG_MEM_IMM8", "#"),
       Instr("EXT", "#"), Instr("REG_IMM16", "#"), Instr("PORT_OUT", "#"),
       Instr("PORT_IN", "#"), Instr("BRANCH_REL8", "#"), Instr("BRANCH_REL32", "f"),
       Instr("ABS32_ONLY", "f"), Instr("REG_IMM32", "#"),
       Instr("IMM32_ONLY", "f"), Instr("REG_REL32", "f"), LabelAt("f")>>]

AllRepeaters ==
  [main |->
     <<LabelAt("f"), Repeat("RRPIN", "f", "REG_REG", "#"),
       Repeat("RRPIN", "#", "REG_IMM32", "g"),
       Repeat("RRPIN_R", "g", "MEM_LOAD", "#"),
       Repeat("RRPIN_R", "#", "REG_IMM8", "#"),
       Repeat("RRPIN_VR", "#", "REG_REL32", "f"),
       Repeat("RRPIN_VR", "#", "REG_IMM16", "#"),
       Repeat("RRPIN_V", "#", "MEM_STORE", "#"),
       Repeat("RRPIN", "g", "REG_REG_REG", "#"),
       Repeat("RRPIN_VR", "#", "REG_REG_REG", "#"), LabelAt("g")>>]

Refused == [main |-> <<Repeat("RRPIN", "#", "BRANCH_REL8", "f")>>]

(* Branches at the ends of their range, and one beyond, both ways.         *)
Near(n) ==
  [main |-> <<Raw(n), Instr("BRANCH_REL8", "f"), Raw(n), LabelAt("f"), Raw(n),
              Instr("BRANCH_REL8", "f")>>]

(* Absolute values at the end of a byte and of two.                        *)
Narrow(base, n) ==
  [main |-> <<Origin(base), Raw(n), LabelAt("f"), Values(1, <<"f">>),
              Values(2, <<"f", "f">>)>>]

(* Two files that give the origin, after references to it.                 *)
TwoOrigins ==
  [main |-> <<Values(4, <<"f">>), Origin(7), Source("a"), LabelAt("f")>>,
   a    |-> <<Raw(1), Origin(8)>>]

(* The counter near its end: alignment and data wrap around, %incbin may   *)
(* not, and an object file holds fewer bytes than that.                    *)
High(s) ==
  [main |-> <<Raw(4090), LabelAt("f"), s, LabelAt("g"), Raw(2),
              Instr("BRANCH_REL32", "f"), Instr("REG_REL32", "u"),
              Values(4, <<"g">>)>>]

(* Half the space: signed displacements turn over.                         *)
Middle(n) ==
  [main |-> <<Instr("BRANCH_REL32", "f"), Raw(n), LabelAt("f"),
              Instr("BRANCH_REL32", "g"), Raw(9), LabelAt("g")>>]

Duplicates ==
  {[main |-> <<LabelAt("f"), Source("a")>>, a |-> <<LabelAt("f")>>],
   [main |-> <<LabelAt("__str_0"), String(2), String(1)>>],
   [main |-> <<LabelAt("f"), Source("missing")>>]}

(* Included by each of two files, forced, and in a circle.                 *)
Diamonds ==
  {[main |-> <<Source("a"), s, Source("b"), Instr("REG_IMM32", "f")>>,
    a    |-> <<String(2), Source("b"), Raw(3)>>,
    b    |-> <<String(1), LabelAt("f")>>] : s \in {Raw(1), AlignTo(4)}}
  \cup
  {[main |-> <<Force("a"), AlignTo(4), Force("a"), Source("a")>>,
    a    |-> <<Raw(3), Instr("ABS32_ONLY", "u")>>],
   [main |-> <<Source("a"), Raw(1)>>, a |-> <<Raw(1), Force("a"), Raw(2)>>],
   [main |-> <<Raw(1), Source("main"), Raw(1)>>],
   [main |-> <<Source("a"), Raw(1)>>,
    a    |-> <<Source("b"), Raw(2)>>,
    b    |-> <<Source("a"), Source("b"), Raw(3)>>]}

SmallPrograms ==
  Shuffled \cup Duplicates \cup Diamonds
  \cup {AllFormats, AllRepeaters, Refused, TwoOrigins}
  \cup {Near(n) : n \in 0 .. 5}
  \cup {Narrow(b, n) : b \in {0, 5}, n \in {2, 3, 58, 59, 63, 64}}
  \cup {High(s) : s \in {Raw(1), Raw(9), AlignTo(16), AlignTo(4095), Binary(5),
                         Binary(6), Binary(4096)}}
  \cup {Middle(n) : n \in {2033, 2034, 2042, 2043, 4080}}
==============================================================================
