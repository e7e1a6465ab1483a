--------------------------- MODULE AssemblerContract --------------------------
(***************************************************************************)
(* What assembling a source file means, with no passes, tables or indexes: *)
(* the object is a function of the whole source, and the outcome is that   *)
(* object or an error.  An erroneous source never yields an object; any    *)
(* source may yield an error (memory and files can run out).               *)
(***************************************************************************)
EXTENDS Integers, Sequences

CONSTANTS
  SlotSize,            \* bytes reserved per instruction
  AlignUp(_, _),
  BranchField(_, _),   \* displacement field of a branch form
  KindOf(_),           \* relocation kind of an instruction form
  Hidden

VARIABLES source, outcome

Pending == [kind |-> "pending"]
Error   == [kind |-> "error"]

Nowhere == "nowhere"

Latest(lines) == CHOOSE k \in lines : \A j \in lines : j <= k

(* The section statement k falls into.                                     *)
SectionAt(src, k) ==
  LET selected == {j \in 1 .. k - 1 : src[j].op = "section"}
  IN  IF selected = {} THEN Nowhere ELSE src[Latest(selected)].section

SizeAt(st, start) ==
  IF st.op = "align" THEN AlignUp(start, st.alignment) - start
  ELSE IF st.op = "data" THEN st.size
  ELSE IF st.op = "quad" THEN 8
  ELSE IF st.op = "instruction" THEN SlotSize
  ELSE 0

(* What the first j statements put into a section, in bytes.               *)
Lengths(src, section) ==
  LET length[j \in 0 .. Len(src)] ==
        IF j = 0 THEN 0
        ELSE length[j - 1] + (IF SectionAt(src, j) = section
                              THEN SizeAt(src[j], length[j - 1]) ELSE 0)
  IN  length

(* Where in its section statement k starts: after everything before it     *)
(* that goes to the same section.                                          *)
StartOf(src, k) == Lengths(src, SectionAt(src, k))[k - 1]

LabelsOf(src, name) ==
  {k \in DOMAIN src : src[k].op = "label" /\ src[k].name = name}

PlaceOf(src, name) ==
  LET k == Latest(LabelsOf(src, name))
  IN  [section |-> SectionAt(src, k), value |-> StartOf(src, k)]

DefinedIn(src, name, section) ==
  LabelsOf(src, name) # {} /\ PlaceOf(src, name).section = section

(* Instructions that refer to a label of their own section, and those      *)
(* that leave the reference to the linker.                                 *)
IsLocalBranch(src, k) ==
  /\ src[k].op = "instruction"
  /\ src[k].form \in {"b", "b.cond"}
  /\ DefinedIn(src, src[k].target, SectionAt(src, k))

IsLinked(src, k) ==
  \/ src[k].op = "quad"
  \/ /\ src[k].op = "instruction"
     /\ src[k].form # "plain"
     /\ ~IsLocalBranch(src, k)

LinkedName(st) == IF st.op = "quad" THEN st.name ELSE st.target

WellFormed(src) ==
  \A k \in DOMAIN src :
    /\ src[k].op # "unsupported"
    /\ src[k].op \in {"label", "align", "data", "quad", "instruction"} =>
         SectionAt(src, k) # Nowhere
    /\ src[k].op = "instruction" =>
         /\ src[k].form # "invalid"
         /\ src[k].form = "b.cond" => IsLocalBranch(src, k)
    /\ IsLinked(src, k) => LinkedName(src[k]) \notin Hidden

NamesOf(src) ==
  {src[k].name : k \in {j \in DOMAIN src :
                          src[j].op \in {"label", "globl", "extern", "quad"}}}
    \cup {LinkedName(src[k]) : k \in {j \in DOMAIN src : IsLinked(src, j)}}

SymbolOf(src, name) ==
  [name   |-> name,
   place  |-> IF LabelsOf(src, name) = {}
              THEN [section |-> Nowhere, value |-> 0]
              ELSE PlaceOf(src, name),
   global |-> \E k \in DOMAIN src :
                src[k].op \in {"globl", "extern"} /\ src[k].name = name]

(* What one statement contributes: its bytes, the reference it leaves to   *)
(* the linker, and the displacement it carries.                            *)
BytesOf(src, k) ==
  {[section |-> SectionAt(src, k), offset |-> StartOf(src, k) + i, by |-> k] :
     i \in 0 .. SizeAt(src[k], StartOf(src, k)) - 1}

LinkOf(src, k) ==
  [section |-> SectionAt(src, k),
   offset  |-> StartOf(src, k) + (IF src[k].op = "quad" THEN 0 ELSE src[k].at),
   kind    |-> IF src[k].op = "quad" THEN "ABS64" ELSE KindOf(src[k].form),
   name    |-> LinkedName(src[k])]

JumpOf(src, k) ==
  [section |-> SectionAt(src, k),
   offset  |-> StartOf(src, k),
   field   |-> BranchField(src[k].form,
                           PlaceOf(src, src[k].target).value - StartOf(src, k))]

ObjectOf(src) ==
  [bytes   |-> UNION {BytesOf(src, k) :
                        k \in {j \in DOMAIN src : SectionAt(src, j) # Nowhere}},
   symbols |-> {SymbolOf(src, name) : name \in NamesOf(src)},
   links   |-> {LinkOf(src, k) : k \in {j \in DOMAIN src : IsLinked(src, j)}},
   jumps   |-> {JumpOf(src, k) :
                  k \in {j \in DOMAIN src : IsLocalBranch(src, j)}}]

Produce ==
  /\ outcome = Pending
  /\ WellFormed(source)
  /\ outcome' = [kind |-> "object", object |-> ObjectOf(source)]
  /\ UNCHANGED source

Refuse ==
  /\ outcome = Pending
  /\ outcome' = Error
  /\ UNCHANGED source

Spec == outcome = Pending /\ [][Produce \/ Refuse]_<<source, outcome>>
=============================================================================
