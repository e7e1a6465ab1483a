------------------------------ MODULE MCBslash -------------------------------
(***************************************************************************)
(* Small programs for the whole path from a bas source to the output file, *)
(* in each of the three formats.  Words and bytes are those of MCBas.      *)
(***************************************************************************)
EXTENDS BslashBridge

LabelAt(n)         == [op |-> "label", name |-> n]
Source(f)          == [op |-> "include", file |-> f, force |-> FALSE]
Raw(n)             == [op |-> "bytes", size |-> n]
String(n)          == [op |-> "string", size |-> n]
Values(w, ns)      == [op |-> "values", width |-> w, names |-> ns]
Instr(f, n)        == [op |-> "instr", form |-> f, name |-> n]
Repeat(h, l, f, n) == [op |-> "rrpin", head |-> h, loop |-> l, inner |-> f,
                       name |-> n]

SmallHidden == {"Lx", "Lu"}
LiteralName(n) == <<"__str_0", "__str_1", "__str_2">>[n + 1]

(* Labels "f" and "Lx", names nobody defines, hidden or not, every kind of *)
(* relocation, and references that need none.                              *)
Palette ==
  {Instr("BRANCH_REL8", "u"), Instr("BRANCH_REL8", "f"),
   Instr("BRANCH_REL32", "Lx"), Instr("BRANCH_REL32", "Lu"),
   Instr("REG_IMM32", "v"), Repeat("RRPIN", "u", "REG_REL32", "v"),
   Values(1, <<"f", "u", "#">>), Values(2, <<"v", "f">>),
   Values(8, <<"Lx", "f">>), String(3)}

SmallPrograms ==
  {[main |-> <<x, LabelAt("f"), y, Source("a")>>,
    a    |-> <<LabelAt("Lx"), z>>] :
     x \in Palette, y \in Palette, z \in Palette}
  \cup {[main |-> <<Raw(n), Instr("BRANCH_REL8", "u")>>] : n \in 0 .. 3}
  \cup {[main |-> <<Raw(n), Instr("BRANCH_REL32", "u"), Values(4, <<"f">>),
                    LabelAt("f")>>] : n \in {2039, 2043, 4080}}
==============================================================================
