---------------------------- MODULE MCChsAssembler ----------------------------
(***************************************************************************)
(* Small instances of ChsAssembler: every source file of up to MaxLength   *)
(* statements over an alphabet chosen per run, after an opening .text, and *)
(* of up to MaxBranches statements around branches.                        *)
(***************************************************************************)
EXTENDS ChsAssembler

CONSTANTS Alphabet, MaxLength, MaxBranches, MCWordBits

A == INSTANCE ChsAlign WITH WordBits <- MCWordBits
MCAlignUp(v, a) == A!AlignUpWord(v, a)
MCSizeWord      == 2 ^ MCWordBits

Text == "text"
Data == "data"

MCNames        == {"f", "Lx"}
MCHidden       == {"Lx"}
MCSectionNames == {Text, Data}

Label(n)  == [op |-> "label", name |-> n]
Globl(n)  == [op |-> "globl", name |-> n]
Extern(n) == [op |-> "extern", name |-> n]
Quad(n)   == [op |-> "quad", name |-> n]
Sect(n)   == [op |-> "section", section |-> n]
AlignTo(a)  == [op |-> "align", alignment |-> a]
DataOf(n) == [op |-> "data", size |-> n, run |-> FALSE]
Zeros(n)  == [op |-> "data", size |-> n, run |-> TRUE]
Directive(op) == [op |-> op]
Arm64(form, n) ==
  [op |-> "instruction", form |-> form, target |-> n, size |-> 4, at |-> 0]
X86(form, n, size, at) ==
  [op |-> "instruction", form |-> form, target |-> n, size |-> size, at |-> at]

(* Everything an arm64 file can hold, one or two of each kind.             *)
Arm64Alphabet ==
  {Label("f"), Label("Lx"), Globl("f"), Extern("f"), Quad("f"), Quad("Lx"),
   Sect(Text), Sect(Data), AlignTo(4), AlignTo(3), AlignTo(255), DataOf(1),
   DataOf(250), Zeros(30), Zeros(250),
   Directive("ignored"), Directive("unsupported"),
   Arm64("plain", "f"), Arm64("b", "f"), Arm64("b", "Lx"),
   Arm64("b.cond", "Lx"), Arm64("adrp", "f"), Arm64("pageoff", "f"),
   Arm64("invalid", "f")}

(* Labels, branches both ways, data and section changes: longer files.     *)
BranchAlphabet ==
  {Label("f"), Label("Lx"), Sect(Data), Sect(Text), DataOf(4),
   Arm64("b", "f"), Arm64("b.cond", "Lx")}

X86Alphabet ==
  {Label("f"), Label("Lx"), Globl("f"), Quad("Lx"), Sect(Data), AlignTo(4),
   DataOf(1), Zeros(250), X86("plain", "f", 1, 0), X86("plain", "f", 16, 0),
   X86("rel32", "f", 5, 1), X86("rel32", "Lx", 6, 2), X86("rip", "f", 7, 3),
   X86("invalid", "f", 1, 0)}

(* Runs of zeros and padding around the two ends of a byte.                *)
GrowthAlphabet ==
  {AlignTo(4), AlignTo(255), DataOf(1), DataOf(4), DataOf(250), Zeros(16),
   Zeros(30), Zeros(250), Arm64("plain", "f")}

UpTo(n, alphabet) == UNION {[1 .. k -> alphabet] : k \in 0 .. n}

AfterText(bodies) == {<<Sect(Text)>> \o body : body \in bodies}

MCPrograms ==
  AfterText(UpTo(MaxLength, Alphabet) \cup UpTo(MaxBranches, BranchAlphabet))
    \cup UpTo(2, Alphabet)
=============================================================================
