------------------------ MODULE BasAssembler_proofs -------------------------
(***************************************************************************)
(* Proofs about the embedded assembler, for all programs and words of any  *)
(* width.  The invariant has a layer for each thing the passes rely on:    *)
(* types, what each phase leaves empty, the layout, the output that        *)
(* follows it, the fields, the relocations, the includes and the file.     *)
(***************************************************************************)
EXTENDS BasAssembler, ChsLemmas

-----------------------------------------------------------------------------
(* The invariant.                                                          *)

Words == 0 .. Word - 1
Widths == {1, 2, 4, 8}

(* The names a program may use, and the labels of its literals.            *)
Names == STRING \cup {StringLabel(n) : n \in Nat}

(* What an item may hold.                                                  *)
IsItem(s) ==
  /\ s.op \in {"bytes", "values", "instr", "rrpin"}
  /\ s.op = "bytes" => s.size \in Nat
  /\ s.op = "values" => s.width \in Widths /\ s.names \in Seq(STRING)
  /\ s.op = "instr" => s.form \in DOMAIN TableSize /\ s.name \in Names
  /\ s.op = "rrpin" =>
       /\ s.head \in DOMAIN Repeaters
       /\ s.loop \in Names
       /\ s.inner \in RepeatedForms
       /\ s.name \in Names

(* The statements of all programs.                                         *)
Parsed ==
  UNION {UNION {{p[f][i] : i \in 1 .. Len(p[f])} : f \in DOMAIN p} :
           p \in Programs}

LoadOf(n) ==
  [op |-> "instr", form |-> "REG_IMM32", name |-> StringLabel(n)]

Statements ==
  {s \in Parsed \cup {Bytes(n) : n \in Nat} \cup {LoadOf(n) : n \in Nat} :
     IsItem(s)}

Items == [statement : Statements, offset : Words, size : Nat]

Frames == [file : DOMAIN program, line : Nat \ {0}, at : Words]
Labels == [name : Names, address : Words, before : Nat]
Literals == [label : Names, size : Nat]
Kinds == [rel : BOOLEAN, width : Widths]
FieldsOf == [item : Nat, at : Nat, width : Widths, rel : BOOLEAN, name : Names,
             value : Int]
RelocsOf == [offset : Words, kind : Kinds, addend : Int, symbol : Names]

TypeInv ==
  /\ program \in Programs
  /\ objectMode \in BOOLEAN
  /\ pc \in {"read", "literals", "encode", "write", "done", "failed"}
  /\ frames \in Seq(Frames)
  /\ \A i \in 1 .. Len(frames) : frames[i].line <= Len(program[frames[i].file]) + 1
  /\ shared \in Words
  /\ origin \in [base : Words, set : BOOLEAN]
  /\ symbols \in Seq(Labels)
  /\ literals \in Seq(Literals)
  /\ items \in Seq(Items)
  /\ length \in Nat
  /\ placed \in Seq(Nat)
  /\ fields \in Seq(FieldsOf)
  /\ relocs \in Seq(RelocsOf)
  /\ output \in {"untouched", "partial", "written"}

(* Where the first n of some items end.                                    *)
EndIn(its, n) ==
  IF n = 0 THEN 0 ELSE After(its[n].offset, its[n].size)

EndOf(n) == EndIn(items, n)

Counter == IF frames = << >> THEN shared ELSE local_pc

PhaseInv ==
  /\ pc \in {"read", "literals"} =>
       placed = << >> /\ length = 0 /\ fields = << >> /\ relocs = << >>
  /\ pc \in {"literals", "encode", "write", "done"} => frames = << >>
  /\ pc \in {"encode", "write", "done"} => literals = << >>
  /\ pc \in {"write", "done"} => Len(placed) = Len(items)

ItemsLaidOut ==
  \A i \in 1 .. Len(items) :
    /\ items[i].offset = EndOf(i - 1)
    /\ items[i].size = Size(items[i].statement)

LabelsLaidOut ==
  \A i \in 1 .. Len(symbols) :
    /\ symbols[i].before \in 0 .. Len(items)
    /\ symbols[i].address = EndOf(symbols[i].before)

LabelsUnique ==
  \A i, j \in 1 .. Len(symbols) : symbols[i].name = symbols[j].name => i = j

LayoutInv ==
  /\ ItemsLaidOut
  /\ Counter = EndOf(Len(items))
  /\ LabelsLaidOut
  /\ LabelsUnique

StartOf(i) == IF i <= Len(placed) THEN placed[i] ELSE length

EncodeInv ==
  /\ Len(placed) <= Len(items)
  /\ StartOf(1) = 0
  /\ \A i \in DOMAIN placed : StartOf(i + 1) = ItemEnd(i)
  /\ \A i \in DOMAIN placed : placed[i] % Word = items[i].offset
  /\ length % Word = EndOf(Len(placed))

(* What a field and the bytes of its item have to do with each other.      *)
FieldInv(f) ==
  /\ f.item \in DOMAIN placed
  /\ placed[f.item] <= f.at
  /\ f.at + f.width <= ItemEnd(f.item)
  /\ f.rel => f.at + f.width = ItemEnd(f.item)
  /\ Known(f.name) \/ objectMode
  /\ (f.rel /\ Known(f.name)) \/ ~objectMode =>
       (Pointed(f) - AddressOf(f.name)) % Word = 0

FieldsInv == \A k \in DOMAIN fields : FieldInv(fields[k])

RelocInv(r) ==
  /\ objectMode
  /\ r.kind.rel => ~Known(r.symbol)
  /\ r.kind.rel => (r.addend + r.offset + r.kind.width) % Word = 0
  /\ ~r.kind.rel => r.addend = 0
  /\ length <= Word => r.offset < length

(* A field that needs a relocation has one.                                *)
IsRelocated(f) ==
  objectMode /\ ~(f.rel /\ Known(f.name)) =>
    \E i \in 1 .. Len(relocs) : RelocatedBy(f, relocs[i])

RelocsOrdered ==
  length <= Word =>
    \A i, j \in 1 .. Len(relocs) : i < j => relocs[i].offset < relocs[j].offset

RelocsInv ==
  /\ \A i \in 1 .. Len(relocs) : RelocInv(relocs[i])
  /\ \A k \in 1 .. Len(fields) : IsRelocated(fields[k])
  /\ RelocsOrdered
  /\ Len(relocs) <= Len(fields)

(* Fields share no byte, and every relocation is that of a field.          *)
SpansInv ==
  /\ \A k \in 1 .. Len(fields) :
       /\ fields[k].at + fields[k].width <= length
       /\ fields[k].rel => fields[k].width \in {1, 4}
  /\ \A i, j \in 1 .. Len(fields) :
       i < j => fields[i].at + fields[i].width <= fields[j].at
  /\ \A i \in 1 .. Len(relocs) :
       \E k \in 1 .. Len(fields) : RelocatedBy(fields[k], relocs[i])

IncludeInv ==
  /\ included \subseteq DOMAIN program
  /\ ~Forces(program) =>
       /\ \A i \in DOMAIN frames : frames[i].file \in included
       /\ \A i, j \in DOMAIN frames : frames[i].file = frames[j].file => i = j

OutputInv ==
  /\ pc # "done" => bso = << >>
  /\ bso # << >> => bso = Contents
  /\ output = "written" =>
       pc = "done" /\ bso = Contents /\ (objectMode => length < Word)
  /\ output # "untouched" =>
       pc \in {"done", "failed"} /\ frames = << >> /\ literals = << >>
       /\ Len(placed) = Len(items)

Inv ==
  /\ TypeInv /\ PhaseInv /\ LayoutInv /\ EncodeInv /\ FieldsInv /\ RelocsInv
  /\ SpansInv /\ IncludeInv /\ OutputInv

-----------------------------------------------------------------------------
(* Words and sizes.                                                        *)

(* Spans of words and fields are positive, and a field of eight bytes      *)
(* holds any word.                                                         *)
LEMMA WordFacts ==
  /\ Word \in Nat \ {0}
  /\ \A w \in Widths : Bits(w) \in Nat \ {0} /\ 2 ^ Bits(w) \in Nat \ {0}
<1>1. \A w \in Widths : Bits(w) \in Nat \ {0}
  BY WordAssumption DEF Bits, Widths
<1>2. \A w \in Widths : 2 ^ Bits(w) \in Nat \ {0}
  <2> TAKE w \in Widths
  <2>1. Bits(w) \in Nat
    BY <1>1
  <2> HIDE DEF Bits
  <2> QED
    BY <2>1, PowerIsNat
<1>3. 4 \in Widths
  BY DEF Widths
<1>4. 2 ^ Bits(4) \in Nat \ {0}
  BY <1>2, <1>3
<1> QED
  BY <1>1, <1>2, <1>4 DEF Word

(* The counter is a word again, and counts modulo a word.                  *)
LEMMA AfterIsWord ==
  ASSUME NEW a \in Int, NEW n \in Int
  PROVE  After(a, n) \in Words
<1>1. a + n \in Int
  OBVIOUS
<1> QED
  BY <1>1, WordFacts, IntDivision DEF After, Words

(* The instruction table and the encoder agree on every format, and a      *)
(* field that may hold a name is the last thing the encoder writes.        *)
LEMMA FormSizes ==
  ASSUME NEW form \in DOMAIN TableSize
  PROVE  /\ TableSize[form] \in Nat \ {0}
         /\ FormBytes(form) = TableSize[form]
<1>1. CASE form \in DOMAIN NamedOperand
  BY <1>1 DEF TableSize, NamedOperand, Operand, FormBytes
<1>2. CASE form \notin DOMAIN NamedOperand
  BY <1>2 DEF TableSize, NamedOperand, Operand, FormBytes, OperandBytes
<1> QED
  BY <1>1, <1>2

(* Where the formats that may hold a name keep it: at the end.             *)
LEMMA NamedOperandFacts ==
  ASSUME NEW form \in DOMAIN NamedOperand
  PROVE  /\ NamedOperand[form].at \in Nat \ {0}
         /\ NamedOperand[form].width \in {1, 4}
         /\ NamedOperand[form].rel \in BOOLEAN
         /\ FormBytes(form) = NamedOperand[form].at + NamedOperand[form].width
<1>1. NamedOperand[form] \in [at : {1, 2}, width : {1, 4}, rel : BOOLEAN]
  <2>1. /\ DOMAIN NamedOperand = {"BRANCH_REL8", "BRANCH_REL32", "ABS32_ONLY",
                                  "REG_IMM32", "IMM32_ONLY", "REG_REL32"}
        /\ NamedOperand["BRANCH_REL8"] = Operand(1, 1, TRUE)
        /\ NamedOperand["BRANCH_REL32"] = Operand(1, 4, TRUE)
        /\ NamedOperand["ABS32_ONLY"] = Operand(1, 4, FALSE)
        /\ NamedOperand["REG_IMM32"] = Operand(2, 4, FALSE)
        /\ NamedOperand["IMM32_ONLY"] = Operand(2, 4, FALSE)
        /\ NamedOperand["REG_REL32"] = Operand(2, 4, TRUE)
    BY DEF NamedOperand
  <2>2. \A a \in {1, 2}, w \in {1, 4}, b \in BOOLEAN :
          Operand(a, w, b) \in [at : {1, 2}, width : {1, 4}, rel : BOOLEAN]
    BY DEF Operand
  <2>3. \A f \in DOMAIN NamedOperand :
          \E x \in {1, 2}, w \in {1, 4}, b \in BOOLEAN :
            NamedOperand[f] = Operand(x, w, b)
    <3>1. /\ 1 \in {1, 2} /\ 2 \in {1, 2} /\ 1 \in {1, 4} /\ 4 \in {1, 4}
          /\ TRUE \in BOOLEAN /\ FALSE \in BOOLEAN
      OBVIOUS
    <3> QED
      BY <2>1, <3>1, Zenon
  <2> QED
    BY <2>2, <2>3
<1>2. /\ NamedOperand[form].at \in {1, 2} /\ NamedOperand[form].width \in {1, 4}
      /\ NamedOperand[form].rel \in BOOLEAN
  BY <1>1
<1>3. FormBytes(form) = NamedOperand[form].at + NamedOperand[form].width
  BY DEF FormBytes
<1> QED
  BY <1>2, <1>3

(* What a repeating instruction writes itself is what was counted for it.  *)
LEMMA HeadFacts ==
  ASSUME NEW head \in DOMAIN Repeaters
  PROVE  /\ Repeaters[head].head = HeadBytes(head)
         /\ HeadBytes(head) \in Nat
         /\ Repeaters[head].counted \in BOOLEAN
         /\ Repeaters[head].counted => HeadBytes(head) >= 5
<1>1. /\ DOMAIN Repeaters = {"RRPIN", "RRPIN_R", "RRPIN_V", "RRPIN_VR"}
      /\ Repeaters["RRPIN"] = [head |-> 5, counted |-> TRUE, registers |-> 0]
      /\ Repeaters["RRPIN_R"] = [head |-> 6, counted |-> TRUE, registers |-> 1]
      /\ Repeaters["RRPIN_V"] = [head |-> 2, counted |-> FALSE, registers |-> 1]
      /\ Repeaters["RRPIN_VR"] = [head |-> 3, counted |-> FALSE, registers |-> 2]
  BY DEF Repeaters
<1>2. CASE head = "RRPIN"
  <2>1. /\ Repeaters[head].head = 5 /\ Repeaters[head].counted = TRUE
        /\ Repeaters[head].registers = 0
    BY <1>1, <1>2
  <2>2. HeadBytes(head) = 5
    BY <2>1 DEF HeadBytes
  <2>3. Repeaters[head].counted \in BOOLEAN
    BY <2>1
  <2>4. Repeaters[head].head = HeadBytes(head) /\ HeadBytes(head) \in Nat
    BY <2>1, <2>2
  <2>5. Repeaters[head].counted => HeadBytes(head) >= 5
    BY <2>1, <2>2
  <2> QED
    BY <2>3, <2>4, <2>5
<1>3. CASE head = "RRPIN_R"
  <2>1. /\ Repeaters[head].head = 6 /\ Repeaters[head].counted = TRUE
        /\ Repeaters[head].registers = 1
    BY <1>1, <1>3
  <2>2. HeadBytes(head) = 6
    BY <2>1 DEF HeadBytes
  <2>3. Repeaters[head].counted \in BOOLEAN
    BY <2>1
  <2>4. Repeaters[head].head = HeadBytes(head) /\ HeadBytes(head) \in Nat
    BY <2>1, <2>2
  <2>5. Repeaters[head].counted => HeadBytes(head) >= 5
    BY <2>1, <2>2
  <2> QED
    BY <2>3, <2>4, <2>5
<1>4. CASE head = "RRPIN_V"
  <2>1. /\ Repeaters[head].head = 2 /\ Repeaters[head].counted = FALSE
        /\ Repeaters[head].registers = 1
    BY <1>1, <1>4
  <2>2. HeadBytes(head) = 2
    BY <2>1 DEF HeadBytes
  <2>3. Repeaters[head].counted \in BOOLEAN
    BY <2>1
  <2>4. Repeaters[head].head = HeadBytes(head) /\ HeadBytes(head) \in Nat
    BY <2>1, <2>2
  <2>5. Repeaters[head].counted => HeadBytes(head) >= 5
    BY <2>1, <2>2
  <2> QED
    BY <2>3, <2>4, <2>5
<1>5. CASE head = "RRPIN_VR"
  <2>1. /\ Repeaters[head].head = 3 /\ Repeaters[head].counted = FALSE
        /\ Repeaters[head].registers = 2
    BY <1>1, <1>5
  <2>2. HeadBytes(head) = 3
    BY <2>1 DEF HeadBytes
  <2>3. Repeaters[head].counted \in BOOLEAN
    BY <2>1
  <2>4. Repeaters[head].head = HeadBytes(head) /\ HeadBytes(head) \in Nat
    BY <2>1, <2>2
  <2>5. Repeaters[head].counted => HeadBytes(head) >= 5
    BY <2>1, <2>2
  <2> QED
    BY <2>3, <2>4, <2>5
<1> QED
  BY <1>1, <1>2, <1>3, <1>4, <1>5

(* Every format that may be repeated is in the table.                      *)
LEMMA RepeatedFormsHaveSizes == RepeatedForms \subseteq DOMAIN TableSize
BY DEF RepeatedForms, TableSize

(* What the first pass counts for an item is what the second one writes.   *)
LEMMA SizesAgree ==
  ASSUME NEW s, IsItem(s)
  PROVE  Size(s) \in Nat /\ BytesWritten(s) = Size(s)
<1>1. CASE s.op = "instr"
  <2>1. Size(s) = TableSize[s.form] /\ BytesWritten(s) = FormBytes(s.form)
    BY <1>1 DEF Size, BytesWritten
  <2>2. s.form \in DOMAIN TableSize
    BY <1>1 DEF IsItem
  <2> QED
    BY <2>1, <2>2, FormSizes
<1>2. CASE s.op = "rrpin"
  <2>1. /\ Size(s) = Repeaters[s.head].head + TableSize[s.inner]
        /\ BytesWritten(s) = HeadBytes(s.head) + FormBytes(s.inner)
    BY <1>2 DEF Size, BytesWritten
  <2>2. s.head \in DOMAIN Repeaters /\ s.inner \in DOMAIN TableSize
    BY <1>2, RepeatedFormsHaveSizes DEF IsItem
  <2>3. /\ Repeaters[s.head].head = HeadBytes(s.head) /\ HeadBytes(s.head) \in Nat
        /\ TableSize[s.inner] \in Nat /\ FormBytes(s.inner) = TableSize[s.inner]
    BY <2>2, FormSizes, HeadFacts
  <2> QED
    BY <2>1, <2>3
<1>3. CASE s.op = "values"
  <2>1. Size(s) = s.width * Len(s.names) /\ BytesWritten(s) = Size(s)
    BY <1>3 DEF Size, BytesWritten
  <2>2. s.width \in Nat /\ Len(s.names) \in Nat
    BY <1>3 DEF IsItem, Widths
  <2> QED
    BY <2>1, <2>2
<1>4. CASE s.op = "bytes"
  <2>1. Size(s) = s.size /\ BytesWritten(s) = s.size
    BY <1>4 DEF Size, BytesWritten
  <2> QED
    BY <2>1, <1>4 DEF IsItem
<1> QED
  BY <1>1, <1>2, <1>3, <1>4 DEF IsItem

-----------------------------------------------------------------------------
(* What Selected keeps: exactly the places in S, each once, in their       *)
(* order.  h tells where each place of the result comes from.              *)

IsSelection(h, u, n, s, S) ==
  /\ h \in [1 .. Len(u) -> (1 .. n) \cap S]
  /\ \A j \in 1 .. Len(u) : u[j] = s[h[j]]
  /\ \A j, k \in 1 .. Len(u) : j < k => h[j] < h[k]
  /\ \A i \in (1 .. n) \cap S : \E j \in 1 .. Len(u) : h[j] = i
  /\ Len(u) <= n

(* The equation of the recursive function in Selected.                     *)
IsKept(f, n, s, S) ==
  f = [i \in 0 .. n |-> IF i = 0 THEN << >>
                        ELSE IF i \in S THEN Append(f[i - 1], s[i])
                        ELSE f[i - 1]]

(* The recursive function in Selected exists.                              *)
LEMMA KeptExists ==
  ASSUME NEW T, NEW s \in Seq(T), NEW S
  PROVE  \A n \in 0 .. Len(s) : \E f \in [0 .. n -> Seq(T)] : IsKept(f, n, s, S)
<1> DEFINE R == {n \in Nat : n <= Len(s) => \E f \in [0 .. n -> Seq(T)] :
                                              IsKept(f, n, s, S)}
<1>1. 0 \in R
  <2> DEFINE z == [i \in 0 .. 0 |-> << >>]
  <2>1. z \in [0 .. 0 -> Seq(T)] /\ IsKept(z, 0, s, S)
    BY DEF IsKept
  <2> QED
    BY <2>1
<1>2. ASSUME NEW n \in Nat, n \in R
      PROVE  n + 1 \in R
  <2>1. ASSUME n + 1 <= Len(s)
        PROVE  \E f \in [0 .. n + 1 -> Seq(T)] : IsKept(f, n + 1, s, S)
    <3>1. PICK f \in [0 .. n -> Seq(T)] : IsKept(f, n, s, S)
      BY <1>2, <2>1
    <3> DEFINE next == IF n + 1 \in S THEN Append(f[n], s[n + 1]) ELSE f[n]
               g == [i \in 0 .. n + 1 |-> IF i = n + 1 THEN next ELSE f[i]]
    <3>2. s[n + 1] \in T /\ n \in 0 .. n
      BY <2>1
    <3>3. f[n] \in Seq(T) /\ next \in Seq(T)
      BY <3>2
    <3> HIDE DEF next
    <3>4. g \in [0 .. n + 1 -> Seq(T)]
      BY <3>3
    <3>5. \A i \in 0 .. n : f[i] = IF i = 0 THEN << >>
                                   ELSE IF i \in S THEN Append(f[i - 1], s[i])
                                   ELSE f[i - 1]
      BY <3>1 DEF IsKept
    <3>6. \A i \in 0 .. n + 1 : g[i] = IF i = 0 THEN << >>
                                       ELSE IF i \in S THEN Append(g[i - 1], s[i])
                                       ELSE g[i - 1]
      <4> TAKE i \in 0 .. n + 1
      <4>1. CASE i = n + 1
        <5>1. i # 0 /\ i - 1 = n /\ i - 1 \in 0 .. n + 1 /\ i - 1 # n + 1
          BY <4>1
        <5>2. g[i - 1] = f[n] /\ g[i] = next
          BY <4>1, <5>1
        <5> QED
          BY <4>1, <5>1, <5>2 DEF next
      <4>2. CASE i \in 0 .. n
        <5>1. g[i] = f[i] /\ (i # 0 => g[i - 1] = f[i - 1])
          BY <4>2
        <5> QED
          BY <3>5, <4>2, <5>1
      <4> QED
        BY <4>1, <4>2
    <3>7. IsKept(g, n + 1, s, S)
      <4> HIDE DEF g
      <4> QED
        BY <3>4, <3>6 DEF IsKept
    <3> QED
      BY <3>4, <3>7
  <2> QED
    BY <2>1
<1>3. \A n \in Nat : n \in R
  <2> HIDE DEF R
  <2> QED
    BY <1>1, <1>2, Induction
<1> QED
  <2> TAKE n \in 0 .. Len(s)
  <2>1. n \in Nat /\ n <= Len(s)
    OBVIOUS
  <2> HIDE DEF R
  <2>2. n \in R
    BY <1>3, <2>1
  <2> QED
    BY <2>1, <2>2 DEF R

(* One place more, kept or skipped.                                        *)
LEMMA SelectionKeeps ==
  ASSUME NEW T, NEW s \in Seq(T), NEW S, NEW n \in Nat, n + 1 <= Len(s),
         NEW u \in Seq(T), NEW h, IsSelection(h, u, n, s, S), n + 1 \in S
  PROVE  \E g : IsSelection(g, Append(u, s[n + 1]), n + 1, s, S)
<1> DEFINE m == Len(u)
           v == Append(u, s[n + 1])
           g == [j \in 1 .. m + 1 |-> IF j = m + 1 THEN n + 1 ELSE h[j]]
<1>1. /\ h \in [1 .. m -> (1 .. n) \cap S]
      /\ \A j \in 1 .. m : u[j] = s[h[j]]
      /\ \A j, k \in 1 .. m : j < k => h[j] < h[k]
      /\ \A i \in (1 .. n) \cap S : \E j \in 1 .. m : h[j] = i
      /\ m <= n /\ m \in Nat
  BY DEF IsSelection
<1>2. s[n + 1] \in T
  OBVIOUS
<1>3. /\ Len(v) = m + 1 /\ v[m + 1] = s[n + 1]
      /\ \A j \in 1 .. m : v[j] = u[j]
  BY <1>2
<1>4. /\ g[m + 1] = n + 1
      /\ \A j \in 1 .. m : g[j] = h[j] /\ h[j] \in (1 .. n) \cap S
      /\ \A j \in 1 .. m + 1 : j \in 1 .. m \/ j = m + 1
      /\ m + 1 \in 1 .. m + 1 /\ \A j \in 1 .. m : j \in 1 .. m + 1
      /\ DOMAIN g = 1 .. m + 1
  <2> HIDE DEF m
  <2> QED
    BY <1>1
<1>5. g \in [1 .. m + 1 -> (1 .. n + 1) \cap S]
  <2>1. \A j \in 1 .. m + 1 : g[j] \in (1 .. n + 1) \cap S
    <3> HIDE DEF g, m
    <3> QED
      BY <1>4
  <2> QED
    BY <1>4, <2>1
<1> HIDE DEF g, v, m
<1>6. \A j \in 1 .. m + 1 : v[j] = s[g[j]]
  BY <1>1, <1>3, <1>4
<1>7. \A j, k \in 1 .. m + 1 : j < k => g[j] < g[k]
  <2> TAKE j, k \in 1 .. m + 1
  <2> HAVE j < k
  <2>1. j \in 1 .. m
    BY <1>1
  <2>2. CASE k = m + 1
    <3>1. g[j] \in 1 .. n /\ g[k] = n + 1
      BY <1>4, <2>1, <2>2
    <3> QED
      BY <3>1
  <2>3. CASE k \in 1 .. m
    BY <1>1, <1>4, <2>1, <2>3
  <2> QED
    BY <1>4, <2>2, <2>3
<1>8. \A i \in (1 .. n + 1) \cap S : \E j \in 1 .. m + 1 : g[j] = i
  <2> TAKE i \in (1 .. n + 1) \cap S
  <2>1. CASE i = n + 1
    BY <1>4, <2>1
  <2>2. CASE i \in (1 .. n) \cap S
    BY <1>1, <1>4, <2>2
  <2> QED
    BY <2>1, <2>2
<1>9. IsSelection(g, v, n + 1, s, S)
  BY <1>1, <1>3, <1>5, <1>6, <1>7, <1>8 DEF IsSelection
<1> QED
  BY <1>9 DEF v

LEMMA SelectionSkips ==
  ASSUME NEW s, NEW S, NEW n \in Nat, NEW u, Len(u) \in Nat, NEW h,
         IsSelection(h, u, n, s, S), n + 1 \notin S
  PROVE  IsSelection(h, u, n + 1, s, S)
<1>1. (1 .. n + 1) \cap S = (1 .. n) \cap S
  OBVIOUS
<1> QED
  BY <1>1 DEF IsSelection

(* The result of Selected, for every sequence.                             *)
LEMMA SelectedFacts ==
  ASSUME NEW T, NEW s \in Seq(T), NEW S
  PROVE  /\ Selected(s, S) \in Seq(T)
         /\ \E h : IsSelection(h, Selected(s, S), Len(s), s, S)
<1> DEFINE n == Len(s)
           f == CHOOSE g : IsKept(g, n, s, S)
<1>1. n \in Nat /\ n \in 0 .. n
  OBVIOUS
<1>2. PICK g \in [0 .. n -> Seq(T)] : IsKept(g, n, s, S)
  BY <1>1, KeptExists
<1>3. IsKept(f, n, s, S)
  BY <1>2
<1>4. Selected(s, S) = f[n]
  BY DEF Selected, IsKept
<1> HIDE DEF f
<1>5. \A i \in 0 .. n : f[i] = IF i = 0 THEN << >>
                               ELSE IF i \in S THEN Append(f[i - 1], s[i])
                               ELSE f[i - 1]
  BY <1>3 DEF IsKept
<1> DEFINE R == {i \in Nat : i <= n => /\ f[i] \in Seq(T)
                                       /\ \E h : IsSelection(h, f[i], i, s, S)}
<1>6. 0 \in R
  <2>1. f[0] = << >>
    BY <1>1, <1>5
  <2>2. IsSelection(<< >>, << >>, 0, s, S)
    BY DEF IsSelection
  <2>3. << >> \in Seq(T)
    OBVIOUS
  <2>4. f[0] \in Seq(T) /\ \E h : IsSelection(h, f[0], 0, s, S)
    BY <2>1, <2>2, <2>3
  <2> QED
    BY <2>4
<1>7. ASSUME NEW i \in Nat, i \in R
      PROVE  i + 1 \in R
  <2>1. ASSUME i + 1 <= n
        PROVE  /\ f[i + 1] \in Seq(T)
               /\ \E h : IsSelection(h, f[i + 1], i + 1, s, S)
    <3>1. f[i] \in Seq(T) /\ \E h : IsSelection(h, f[i], i, s, S)
      BY <1>7, <2>1
    <3>2. i + 1 \in 0 .. n /\ i + 1 # 0 /\ (i + 1) - 1 = i
      BY <2>1
    <3>3. f[i + 1] = IF i + 1 \in S THEN Append(f[i], s[i + 1]) ELSE f[i]
      BY <1>5, <3>2
    <3>4. PICK h : IsSelection(h, f[i], i, s, S)
      BY <3>1
    <3>5. CASE i + 1 \in S
      <4>1. f[i + 1] = Append(f[i], s[i + 1]) /\ s[i + 1] \in T
        BY <2>1, <3>3, <3>5
      <4>2. f[i + 1] \in Seq(T)
        BY <3>1, <4>1
      <4>3. \E g2 : IsSelection(g2, Append(f[i], s[i + 1]), i + 1, s, S)
        BY <2>1, <3>1, <3>4, <3>5, SelectionKeeps
      <4> QED
        BY <4>1, <4>2, <4>3
    <3>6. CASE i + 1 \notin S
      <4>1. f[i + 1] = f[i] /\ Len(f[i]) \in Nat
        BY <3>1, <3>3, <3>6
      <4>2. IsSelection(h, f[i], i + 1, s, S)
        BY <3>4, <3>6, <4>1, SelectionSkips
      <4> QED
        BY <3>1, <4>1, <4>2
    <3> QED
      BY <3>5, <3>6
  <2> QED
    BY <2>1
<1>8. n \in R
  <2> HIDE DEF R
  <2>1. \A i \in Nat : i \in R
    BY <1>6, <1>7, Induction
  <2> QED
    BY <1>1, <2>1
<1>9. f[n] \in Seq(T) /\ \E h : IsSelection(h, f[n], n, s, S)
  BY <1>1, <1>8
<1> QED
  BY <1>4, <1>9

-----------------------------------------------------------------------------
(* The references of a statement: inside its bytes, each after the one     *)
(* before, and a relative one at their very end.                           *)

Refs == [at : Nat, width : Widths, rel : BOOLEAN, name : Names]

RefFits(r, size) ==
  /\ r.at + r.width <= size
  /\ r.rel => r.at + r.width = size /\ r.width \in {1, 4}

RefsFit(refs, size) ==
  /\ refs \in Seq(Refs)
  /\ \A i \in 1 .. Len(refs) : RefFits(refs[i], size)
  /\ \A i, j \in 1 .. Len(refs) :
       i < j => refs[i].at + refs[i].width <= refs[j].at

(* No reference and one reference fit.                                     *)
LEMMA EmptyRefs ==
  ASSUME NEW size
  PROVE  RefsFit(<< >>, size)
BY DEF RefsFit

LEMMA SingleRef ==
  ASSUME NEW r \in Refs, NEW size, RefFits(r, size)
  PROVE  RefsFit(<<r>>, size)
BY DEF RefsFit

(* The reference of an instruction, at the end of its bytes.               *)
LEMMA FormReferenceFits ==
  ASSUME NEW form \in DOMAIN TableSize, NEW name \in Names, NEW base \in Nat
  PROVE  /\ RefsFit(FormReference(form, name, base), base + FormBytes(form))
         /\ \A i \in 1 .. Len(FormReference(form, name, base)) :
              FormReference(form, name, base)[i].at > base
<1>1. CASE name = Number \/ form \notin DOMAIN NamedOperand
  <2>1. FormReference(form, name, base) = << >>
    BY <1>1 DEF FormReference
  <2> QED
    BY <2>1, EmptyRefs
<1>2. CASE ~ (name = Number \/ form \notin DOMAIN NamedOperand)
  <2> DEFINE o == NamedOperand[form]
             r == Reference(base + o.at, o.width, o.rel, name)
  <2>1. FormReference(form, name, base) = <<r>>
    BY <1>2 DEF FormReference
  <2>2. /\ o.at \in Nat \ {0} /\ o.width \in {1, 4} /\ o.rel \in BOOLEAN
        /\ FormBytes(form) = o.at + o.width
    BY <1>2, NamedOperandFacts
  <2> HIDE DEF o
  <2>3. /\ r.at = base + o.at /\ r.width = o.width /\ r.rel = o.rel
        /\ r = [at |-> base + o.at, width |-> o.width, rel |-> o.rel,
                name |-> name]
    BY DEF Reference
  <2>4. o.width \in Widths /\ base + o.at \in Nat
    BY <2>2 DEF Widths
  <2>5. r \in Refs
    BY <2>2, <2>3, <2>4 DEF Refs
  <2>6. r.at + r.width = base + FormBytes(form) /\ r.at > base
    BY <2>2, <2>3
  <2> HIDE DEF r
  <2>7. base + FormBytes(form) \in Nat
    BY <2>2
  <2>8. RefFits(r, base + FormBytes(form))
    BY <2>2, <2>3, <2>6, <2>7 DEF RefFits
  <2> QED
    BY <2>1, <2>5, <2>6, <2>8, SingleRef
<1> QED
  BY <1>1, <1>2

(* The loop count of a repeater.                                           *)
LEMMA LoopReferenceFits ==
  ASSUME NEW s, IsItem(s), s.op = "rrpin"
  PROVE  /\ RefsFit(LoopReference(s), HeadBytes(s.head))
         /\ \A i \in 1 .. Len(LoopReference(s)) :
              /\ ~ LoopReference(s)[i].rel
              /\ LoopReference(s)[i].at < HeadBytes(s.head)
<1>1. s.head \in DOMAIN Repeaters /\ s.loop \in Names
  BY DEF IsItem
<1>2. /\ Repeaters[s.head].counted \in BOOLEAN /\ HeadBytes(s.head) \in Nat
      /\ Repeaters[s.head].counted => HeadBytes(s.head) >= 5
  BY <1>1, HeadFacts
<1>3. CASE s.loop = Number \/ ~Repeaters[s.head].counted
  <2>1. LoopReference(s) = << >>
    BY <1>3 DEF LoopReference
  <2> QED
    BY <2>1, EmptyRefs
<1>4. CASE ~ (s.loop = Number \/ ~Repeaters[s.head].counted)
  <2> DEFINE r == Reference(1, 4, FALSE, s.loop)
  <2>1. LoopReference(s) = <<r>>
    BY <1>4 DEF LoopReference
  <2>2. 4 \in Widths /\ FALSE \in BOOLEAN /\ 1 \in Nat
    BY DEF Widths
  <2>3. r \in Refs /\ r.at = 1 /\ r.width = 4 /\ ~r.rel
    BY <1>1, <2>2 DEF Reference, Refs
  <2> HIDE DEF r
  <2>4. HeadBytes(s.head) >= 5
    BY <1>2, <1>4
  <2>5. RefFits(r, HeadBytes(s.head)) /\ r.at < HeadBytes(s.head)
    BY <1>2, <2>3, <2>4 DEF RefFits
  <2> QED
    BY <2>1, <2>3, <2>5, SingleRef
<1> QED
  BY <1>3, <1>4

(* What the repeater refers to comes before what it repeats.               *)
LEMMA JoinedRefsFit ==
  ASSUME NEW a, NEW b, NEW m \in Nat, NEW n \in Nat, m <= n,
         RefsFit(a, m), RefsFit(b, n),
         \A i \in 1 .. Len(a) : ~ a[i].rel /\ a[i].at < m,
         \A i \in 1 .. Len(b) : b[i].at > m
  PROVE  RefsFit(a \o b, n)
<1> DEFINE c == a \o b
<1>1. /\ a \in Seq(Refs) /\ b \in Seq(Refs)
      /\ \A i \in 1 .. Len(a) : RefFits(a[i], m)
      /\ \A i, j \in 1 .. Len(a) : i < j => a[i].at + a[i].width <= a[j].at
      /\ \A i \in 1 .. Len(b) : RefFits(b[i], n)
      /\ \A i, j \in 1 .. Len(b) : i < j => b[i].at + b[i].width <= b[j].at
  BY DEF RefsFit
<1>2. /\ c \in Seq(Refs) /\ Len(c) = Len(a) + Len(b)
      /\ \A i \in 1 .. Len(a) + Len(b) :
           c[i] = IF i <= Len(a) THEN a[i] ELSE b[i - Len(a)]
  BY <1>1, ConcatProperties
<1>3. Len(a) \in Nat /\ Len(b) \in Nat
  BY <1>1
<1>4. /\ \A i \in 1 .. Len(a) : a[i].at \in Nat /\ a[i].width \in Nat
      /\ \A i \in 1 .. Len(b) : b[i].at \in Nat /\ b[i].width \in Nat
  <2>1. \A r \in Refs : r.at \in Nat /\ r.width \in Nat
    BY DEF Refs, Widths
  <2> QED
    BY <1>1, <2>1
<1>5. \A i \in 1 .. Len(a) : RefFits(a[i], n)
  BY <1>1, <1>4 DEF RefFits
<1>6. \A i \in 1 .. Len(c) :
        \/ i \in 1 .. Len(a) /\ c[i] = a[i]
        \/ i > Len(a) /\ i - Len(a) \in 1 .. Len(b) /\ c[i] = b[i - Len(a)]
  <2> HIDE DEF c
  <2> QED
    BY <1>2, <1>3
<1> HIDE DEF c
<1>7. \A i \in 1 .. Len(c) : RefFits(c[i], n)
  BY <1>1, <1>5, <1>6
<1>8. \A i, j \in 1 .. Len(c) : i < j => c[i].at + c[i].width <= c[j].at
  <2> TAKE i, j \in 1 .. Len(c)
  <2> HAVE i < j
  <2>1. i \in Nat /\ j \in Nat
    BY <1>2, <1>3
  <2>2. CASE i \in 1 .. Len(a) /\ c[i] = a[i]
    <3>1. CASE j \in 1 .. Len(a) /\ c[j] = a[j]
      BY <1>1, <2>2, <3>1
    <3>2. CASE j - Len(a) \in 1 .. Len(b) /\ c[j] = b[j - Len(a)]
      <4>1. c[i].at + c[i].width <= m /\ c[i].at \in Nat /\ c[i].width \in Nat
        BY <1>1, <1>4, <2>2 DEF RefFits
      <4>2. c[j].at > m /\ c[j].at \in Nat
        BY <1>4, <3>2
      <4> QED
        BY <4>1, <4>2
    <3> QED
      BY <1>6, <3>1, <3>2
  <2>3. CASE i > Len(a) /\ i - Len(a) \in 1 .. Len(b) /\ c[i] = b[i - Len(a)]
    <3>1. j - Len(a) \in 1 .. Len(b) /\ c[j] = b[j - Len(a)]
      <4>1. \/ j \in 1 .. Len(a) /\ c[j] = a[j]
            \/ j > Len(a) /\ j - Len(a) \in 1 .. Len(b) /\ c[j] = b[j - Len(a)]
        BY <1>6
      <4>2. i \in Nat /\ j \in Nat /\ i < j /\ i > Len(a) /\ Len(a) \in Nat
        BY <1>3, <2>1, <2>3
      <4>3. j \notin 1 .. Len(a)
        BY <4>2
      <4> QED
        BY <4>1, <4>3
    <3>2. i - Len(a) < j - Len(a)
      BY <1>3, <2>1
    <3> QED
      BY <1>1, <2>3, <3>1, <3>2
  <2> QED
    BY <1>6, <2>2, <2>3
<1> QED
  BY <1>2, <1>7, <1>8 DEF RefsFit, c

(* References that are left out disturb no others.                         *)
LEMMA SelectedRefsFit ==
  ASSUME NEW refs, NEW size, NEW S, RefsFit(refs, size)
  PROVE  RefsFit(Selected(refs, S), size)
<1> DEFINE u == Selected(refs, S)
           n == Len(refs)
<1>1. /\ refs \in Seq(Refs)
      /\ \A i \in 1 .. n : RefFits(refs[i], size)
      /\ \A i, j \in 1 .. n : i < j => refs[i].at + refs[i].width <= refs[j].at
  BY DEF RefsFit
<1>2. /\ u \in Seq(Refs)
      /\ \E g : IsSelection(g, u, n, refs, S)
  BY <1>1, SelectedFacts
<1> HIDE DEF u
<1>3. PICK h : IsSelection(h, u, n, refs, S)
  BY <1>2
<1>4. /\ \A j \in 1 .. Len(u) : h[j] \in 1 .. n /\ u[j] = refs[h[j]]
      /\ \A j, k \in 1 .. Len(u) : j < k => h[j] < h[k]
  BY <1>3 DEF IsSelection
<1>5. \A i \in 1 .. Len(u) : RefFits(u[i], size)
  BY <1>1, <1>4
<1>6. \A i, j \in 1 .. Len(u) : i < j => u[i].at + u[i].width <= u[j].at
  <2> HIDE DEF n
  <2> QED
    BY <1>1, <1>4
<1> QED
  BY <1>2, <1>5, <1>6 DEF RefsFit, u

(* The names in a list of values.                                          *)
LEMMA ValueReferencesFit ==
  ASSUME NEW s, IsItem(s), s.op = "values"
  PROVE  RefsFit(ValueReferences(s), s.width * Len(s.names))
<1> DEFINE w == s.width
           n == Len(s.names)
           refs == [i \in DOMAIN s.names |->
                      Reference((i - 1) * w, w, FALSE, s.names[i])]
<1>1. w \in Widths /\ w \in Nat \ {0} /\ s.names \in Seq(STRING)
  BY DEF IsItem, Widths
<1>2. n \in Nat /\ DOMAIN s.names = 1 .. n /\ \A i \in 1 .. n : s.names[i] \in Names
  BY <1>1 DEF Names
<1> HIDE DEF w, n
<1>3. \A i \in 1 .. n : /\ w * (i - 1) \in Nat /\ (i - 1) * w = w * (i - 1)
                        /\ w * (i - 1) + w <= w * n
  <2>1. \A i \in 1 .. n : w * (i - 1) \in Nat /\ w * (i - 1) + w <= w * n
    BY <1>1, <1>2, Strides
  <2>2. \A i \in 1 .. n : (i - 1) * w = w * (i - 1)
    BY <1>1
  <2> QED
    BY <2>1, <2>2
<1>4. \A i, j \in 1 .. n : i < j => w * (i - 1) + w <= w * (j - 1)
  BY <1>1, <1>2, Strides
<1>5. refs \in [1 .. n -> Refs]
  <2>1. \A i \in 1 .. n : Reference((i - 1) * w, w, FALSE, s.names[i]) \in Refs
    <3> TAKE i \in 1 .. n
    <3>1. (i - 1) * w \in Nat /\ FALSE \in BOOLEAN
      BY <1>3
    <3> DEFINE a == (i - 1) * w
    <3> HIDE DEF a
    <3>2. Reference(a, w, FALSE, s.names[i]) \in Refs
      BY <1>1, <1>2, <3>1 DEF Reference, Refs, a
    <3> QED
      BY <3>2 DEF a
  <2> QED
    BY <1>2, <2>1
<1>6. refs \in Seq(Refs) /\ Len(refs) = n
  <2> HIDE DEF refs
  <2> QED
    BY <1>2, <1>5
<1>7. \A i \in 1 .. n : /\ refs[i].at = w * (i - 1) /\ refs[i].width = w
                        /\ ~ refs[i].rel
  BY <1>2, <1>3 DEF Reference
<1>8. RefsFit(refs, w * n)
  <2> HIDE DEF refs
  <2>1. \A i \in 1 .. n : RefFits(refs[i], w * n)
    BY <1>3, <1>7 DEF RefFits
  <2>2. \A i, j \in 1 .. n : i < j => refs[i].at + refs[i].width <= refs[j].at
    BY <1>4, <1>7
  <2> QED
    BY <1>6, <2>1, <2>2 DEF RefsFit
<1>9. ValueReferences(s) = Selected(refs, {i \in DOMAIN s.names : s.names[i] # Number})
  BY DEF ValueReferences, w
<1> QED
  BY <1>8, <1>9, SelectedRefsFit DEF w, n

(* The references of every item fit its bytes.                             *)
LEMMA ReferencesFit ==
  ASSUME NEW s, IsItem(s)
  PROVE  RefsFit(References(s), BytesWritten(s))
<1>1. CASE s.op = "instr"
  <2>1. References(s) = FormReference(s.form, s.name, 0)
        /\ BytesWritten(s) = FormBytes(s.form)
    BY <1>1 DEF References, BytesWritten
  <2>2. s.form \in DOMAIN TableSize /\ s.name \in Names
    BY <1>1 DEF IsItem
  <2>3. 0 + FormBytes(s.form) = FormBytes(s.form)
    BY <2>2, FormSizes
  <2>4. RefsFit(FormReference(s.form, s.name, 0), 0 + FormBytes(s.form))
    BY <2>2, FormReferenceFits
  <2> QED
    BY <2>1, <2>3, <2>4
<1>2. CASE s.op = "rrpin"
  <2> DEFINE m == HeadBytes(s.head)
             b == FormReference(s.inner, s.name, m)
             a == LoopReference(s)
             n == m + FormBytes(s.inner)
  <2>1. References(s) = a \o b /\ BytesWritten(s) = n
    BY <1>2 DEF References, BytesWritten
  <2>2. s.inner \in DOMAIN TableSize /\ s.name \in Names /\ s.head \in DOMAIN Repeaters
    BY <1>2, RepeatedFormsHaveSizes DEF IsItem
  <2>3. m \in Nat /\ FormBytes(s.inner) \in Nat
    BY <2>2, FormSizes, HeadFacts
  <2> HIDE DEF m
  <2>4. n \in Nat /\ m <= n
    BY <2>3
  <2>5. RefsFit(b, n) /\ \A i \in 1 .. Len(b) : b[i].at > m
    BY <2>2, <2>3, FormReferenceFits
  <2>6. RefsFit(a, m) /\ \A i \in 1 .. Len(a) : ~ a[i].rel /\ a[i].at < m
    BY <1>2, LoopReferenceFits DEF m
  <2> HIDE DEF a, b, n
  <2> QED
    BY <2>1, <2>3, <2>4, <2>5, <2>6, JoinedRefsFit
<1>3. CASE s.op = "values"
  <2>1. References(s) = ValueReferences(s) /\ BytesWritten(s) = s.width * Len(s.names)
    BY <1>3 DEF References, BytesWritten
  <2> QED
    BY <1>3, <2>1, ValueReferencesFit
<1>4. CASE s.op = "bytes"
  <2>1. References(s) = << >>
    BY <1>4 DEF References
  <2> QED
    BY <2>1, EmptyRefs
<1> QED
  BY <1>1, <1>2, <1>3, <1>4 DEF IsItem

-----------------------------------------------------------------------------
(* Types.                                                                  *)

(* Statements of a file are statements.                                    *)
LEMMA ParsedStatement ==
  ASSUME program \in Programs, NEW f \in DOMAIN program,
         NEW i \in 1 .. Len(program[f])
  PROVE  IsStatement(program[f][i]) /\ program[f][i] \in Parsed
BY ProgramsAssumption DEF Parsed

(* The innermost call is in a file of the program.                         *)
LEMMA TopFacts ==
  ASSUME TypeInv, frames # << >>
  PROVE  /\ Len(frames) \in Nat \ {0} /\ Len(frames) \in DOMAIN frames
         /\ Top \in Frames
         /\ Top.file \in DOMAIN program /\ Top.line \in Nat \ {0}
         /\ local_pc \in Words /\ local_pc \in Nat
         /\ Top.line <= Len(program[Top.file]) + 1
<1>1. frames \in Seq(Frames)
  BY DEF TypeInv
<1>2. Len(frames) \in Nat \ {0} /\ Len(frames) \in DOMAIN frames
  BY <1>1
<1>3. Top \in Frames
  BY <1>1, <1>2 DEF Top
<1>4. Top.file \in DOMAIN program /\ Top.line \in Nat \ {0} /\ Top.at \in Words
  BY <1>3 DEF Frames
<1>5. local_pc \in Words /\ local_pc \in Nat
  BY <1>4, WordFacts DEF local_pc, Words
<1>6. Len(frames) \in 1 .. Len(frames)
  BY <1>2
<1>7. Top.line <= Len(program[Top.file]) + 1
  BY <1>6 DEF TypeInv, Top
<1> QED
  BY <1>2, <1>3, <1>4, <1>5, <1>7

(* While a file lasts, its current line is a statement.                    *)
LEMMA HereFacts ==
  ASSUME TypeInv, InFile
  PROVE  /\ IsStatement(Here) /\ Here \in Parsed
         /\ Top.line + 1 <= Len(program[Top.file]) + 1
<1>1. /\ Top.file \in DOMAIN program /\ Top.line \in Nat \ {0}
      /\ program \in Programs
  BY TopFacts DEF InFile, TypeInv
<1>2. Len(program[Top.file]) \in Nat /\ Top.line <= Len(program[Top.file])
  BY <1>1, ProgramsAssumption DEF InFile
<1>3. Top.line \in 1 .. Len(program[Top.file])
  BY <1>1, <1>2
<1>4. IsStatement(Here) /\ Here \in Parsed
  BY <1>1, <1>3, ParsedStatement DEF Here
<1> QED
  BY <1>1, <1>2, <1>4

(* The frames after a statement.                                           *)
LEMMA SteppedFacts ==
  ASSUME TypeInv, InFile, NEW n \in Nat
  PROVE  /\ Stepped(n) \in Seq(Frames) /\ Len(Stepped(n)) = Len(frames)
         /\ Stepped(n) # << >>
         /\ \A i \in 1 .. Len(frames) :
              /\ Stepped(n)[i].file = frames[i].file
              /\ Stepped(n)[i].line <= Len(program[frames[i].file]) + 1
         /\ Stepped(n)[Len(frames)].at = After(local_pc, n)
<1> DEFINE l == Len(frames)
           top == Frame(Top.file, Top.line + 1, After(local_pc, n))
           g == Stepped(n)
<1>1. frames \in Seq(Frames) /\ frames # << >>
  BY DEF TypeInv, InFile
<1>2. /\ l \in Nat \ {0} /\ l \in DOMAIN frames /\ Top \in Frames /\ local_pc \in Nat
      /\ Top.line \in Nat \ {0} /\ Top.file \in DOMAIN program
  BY <1>1, TopFacts
<1>3. After(local_pc, n) \in Words
  BY <1>2, AfterIsWord
<1>4. top = [file |-> Top.file, line |-> Top.line + 1, at |-> After(local_pc, n)]
  BY DEF Frame
<1>5. top \in Frames
  BY <1>2, <1>3, <1>4 DEF Frames
<1>6. g = [frames EXCEPT ![l] = top]
  BY DEF Stepped
<1>7. /\ g \in Seq(Frames) /\ Len(g) = l /\ g[l] = top
      /\ \A i \in 1 .. l : i # l => g[i] = frames[i]
  <2> HIDE DEF top, g
  <2> QED
    BY <1>1, <1>2, <1>5, <1>6
<1>8. top.file = Top.file /\ top.line = Top.line + 1 /\ top.at = After(local_pc, n)
  BY <1>4
<1> HIDE DEF top, g
<1>9. Top = frames[l]
  BY DEF Top
<1>10. \A i \in 1 .. l : /\ g[i].file = frames[i].file
                         /\ g[i].line <= Len(program[frames[i].file]) + 1
  <2> TAKE i \in 1 .. l
  <2>1. CASE i = l
    <3>1. g[i].file = Top.file /\ g[i].line = Top.line + 1
      BY <1>7, <1>8, <2>1
    <3>2. Top.line + 1 <= Len(program[Top.file]) + 1
      BY HereFacts
    <3> QED
      BY <1>9, <2>1, <3>1, <3>2
  <2>2. CASE i # l
    <3>1. g[i] = frames[i]
      BY <1>7, <2>2
    <3>2. frames[i].line <= Len(program[frames[i].file]) + 1
      BY DEF TypeInv
    <3> QED
      BY <3>1, <3>2
  <2> QED
    BY <2>1, <2>2
<1>11. g # << >>
  BY <1>2, <1>7
<1> QED
  BY <1>7, <1>8, <1>10, <1>11 DEF g

(* The frames after a call returns.                                        *)
LEMMA ResumedFacts ==
  ASSUME TypeInv, frames # << >>, NEW callers,
         callers = Resumed(SubSeq(frames, 1, Len(frames) - 1), local_pc)
  PROVE  /\ callers \in Seq(Frames) /\ Len(callers) = Len(frames) - 1
         /\ \A i \in 1 .. Len(callers) :
              callers[i].file = frames[i].file /\ callers[i].line = frames[i].line
         /\ callers # << >> => callers[Len(callers)].at = local_pc
<1> DEFINE l == Len(frames)
           c == SubSeq(frames, 1, l - 1)
<1>1. frames \in Seq(Frames) /\ l \in Nat \ {0} /\ local_pc \in Words
  BY TopFacts DEF TypeInv
<1>2. /\ c \in Seq(Frames) /\ Len(c) = l - 1
      /\ \A i \in 1 .. l - 1 : c[i] = frames[i]
  <2>1. \A i \in 1 .. l - 1 : frames[i] \in Frames
    BY <1>1
  <2> DEFINE m == l - 1
  <2>2. m \in Nat /\ m \in Int /\ 1 \in Int /\ m - 1 + 1 = m
    BY <1>1
  <2> HIDE DEF m
  <2>3. /\ SubSeq(frames, 1, m) \in Seq(Frames)
        /\ Len(SubSeq(frames, 1, m)) = IF 1 <= m THEN m - 1 + 1 ELSE 0
        /\ \A i \in 1 .. m - 1 + 1 : SubSeq(frames, 1, m)[i] = frames[1 + i - 1]
    <3>1. \A i \in 1 .. m : frames[i] \in Frames
      BY <2>1 DEF m
    <3> QED
      BY <2>2, <3>1, SubSeqProperties
  <2>4. Len(SubSeq(frames, 1, m)) = m
    BY <2>2, <2>3
  <2>5. \A i \in 1 .. m : SubSeq(frames, 1, m)[i] = frames[i]
    BY <2>2, <2>3
  <2> QED
    BY <2>3, <2>4, <2>5 DEF m
<1> HIDE DEF c
<1>3. callers = Resumed(c, local_pc)
  BY DEF c
<1>4. CASE c = << >>
  <2>1. callers = << >>
    BY <1>3, <1>4 DEF Resumed
  <2>2. Len(callers) = l - 1 /\ l - 1 = 0
    BY <1>2, <1>4, <2>1
  <2>3. callers \in Seq(Frames)
    <3>1. << >> \in Seq(Frames)
      OBVIOUS
    <3> QED
      BY <2>1, <3>1, Zenon
  <2>4. \A i \in 1 .. Len(callers) : FALSE
    BY SMTT(30), <1>1, <2>2
  <2> QED
    BY <2>1, <2>2, <2>3, <2>4
<1>5. CASE c # << >>
  <2> DEFINE m == l - 1
             last == Frame(c[m].file, c[m].line, local_pc)
  <2>1. m \in Nat \ {0} /\ m \in DOMAIN c /\ Len(c) = m
    BY <1>1, <1>2, <1>5
  <2>2. callers = [c EXCEPT ![m] = last]
    BY <1>2, <1>3, <1>5 DEF Resumed
  <2>3. c[m] \in Frames
    BY <1>2, <2>1
  <2>4. last = [file |-> c[m].file, line |-> c[m].line, at |-> local_pc]
    BY DEF Frame
  <2>5. c[m].file \in DOMAIN program /\ c[m].line \in Nat \ {0}
    BY <2>3 DEF Frames
  <2>6. last \in Frames /\ last.file = c[m].file /\ last.line = c[m].line
        /\ last.at = local_pc
    BY <1>1, <2>4, <2>5 DEF Frames
  <2> HIDE DEF last, m
  <2>7. /\ callers \in Seq(Frames) /\ Len(callers) = m /\ callers[m] = last
        /\ \A i \in 1 .. m : i # m => callers[i] = c[i]
    BY SMTT(30), <1>2, <2>1, <2>2, <2>6
  <2>8. \A i \in 1 .. m :
          callers[i].file = c[i].file /\ callers[i].line = c[i].line
    BY <2>6, <2>7
  <2>9. \A i \in 1 .. m : c[i] = frames[i]
    BY <1>2 DEF m
  <2> QED
    BY <2>6, <2>7, <2>8, <2>9 DEF m
<1> QED
  BY <1>4, <1>5

(* What the parser accepts and the actions keep is an item.                *)
LEMMA StatementIsItem ==
  ASSUME NEW s \in Parsed, IsStatement(s),
         s.op \in {"bytes", "values", "instr", "rrpin"},
         s.op = "rrpin" => s.inner \in RepeatedForms
  PROVE  s \in Statements
<1>1. STRING \subseteq Names
  BY DEF Names
<1>2. IsItem(s)
  BY <1>1 DEF IsStatement, IsItem, Widths
<1> QED
  BY <1>2 DEF Statements

(* Padding and files of bytes are items, and so is the load of a string.   *)
LEMMA BytesIsItem ==
  ASSUME NEW n \in Nat
  PROVE  Bytes(n) \in Statements
<1>1. IsItem(Bytes(n))
  BY DEF IsItem, Bytes
<1> QED
  BY <1>1 DEF Statements

LEMMA LoadIsItem ==
  ASSUME NEW n \in Nat
  PROVE  LoadOf(n) \in Statements /\ StringLabel(n) \in Names
<1>1. StringLabel(n) \in Names
  BY DEF Names
<1>2. "REG_IMM32" \in DOMAIN TableSize
  BY DEF TableSize
<1>3. IsItem(LoadOf(n))
  BY <1>1, <1>2 DEF IsItem, LoadOf
<1> QED
  BY <1>1, <1>3 DEF Statements

(* Every statement that is kept has a size.                                *)
LEMMA ItemIsTyped ==
  ASSUME NEW s \in Statements, NEW at \in Words
  PROVE  Item(s, at) \in Items /\ Size(s) \in Nat
<1>1. Size(s) \in Nat
  BY SizesAgree DEF Statements
<1> QED
  BY <1>1 DEF Item, Items

-----------------------------------------------------------------------------
(* Types of what the encoder appends.                                      *)

(* The address of a known name is that of one of its labels.               *)
LEMMA LabelFacts ==
  ASSUME TypeInv, NEW name, Known(name)
  PROVE  /\ AddressOf(name) \in Words
         /\ \E i \in DOMAIN symbols : /\ symbols[i].name = name
                                      /\ AddressOf(name) = symbols[i].address
<1> DEFINE c == CHOOSE i \in DOMAIN symbols : symbols[i].name = name
<1>1. c \in DOMAIN symbols /\ symbols[c].name = name
  BY DEF Known
<1>2. AddressOf(name) = symbols[c].address
  BY DEF AddressOf
<1> HIDE DEF c
<1>3. symbols[c] \in Labels
  BY <1>1 DEF TypeInv
<1> QED
  BY <1>1, <1>2, <1>3 DEF Labels

(* Numbers that fields are computed from.                                  *)
LEMMA SignedIsInt ==
  ASSUME NEW v \in Int, NEW B \in Nat
  PROVE  SignedIn(v, B) \in Int
BY DEF SignedIn

LEMMA DisplacementIsInt ==
  ASSUME NEW item \in Items, NEW name, AddressOf(name) \in Words
  PROVE  /\ next_ip(item) \in Words /\ next_ip(item) \in Int
         /\ Displacement(name, item) \in Int
<1>1. item.offset \in Words /\ item.size \in Nat
  BY DEF Items
<1>2. Word \in Nat \ {0}
  BY WordFacts
<1>3. item.offset \in Int /\ item.size \in Int /\ AddressOf(name) \in Int
  BY <1>1, <1>2 DEF Words
<1>4. next_ip(item) \in Words
  BY <1>3, AfterIsWord DEF next_ip
<1>5. next_ip(item) \in Int
  BY <1>2, <1>4 DEF Words
<1>6. Signed(AddressOf(name)) \in Int /\ Signed(next_ip(item)) \in Int
  BY <1>2, <1>3, <1>5, SignedIsInt DEF Signed
<1> QED
  BY <1>4, <1>5, <1>6 DEF Displacement

LEMMA ValueIsInt ==
  ASSUME TypeInv, NEW name, AddressOf(name) \in Words
  PROVE  ValueForMode(name) \in Words
<1>1. origin.base \in Words
  BY DEF TypeInv
<1>2. AddressOf(name) \in Int /\ origin.base \in Int
  BY <1>1, WordFacts DEF Words
<1>3. After(AddressOf(name), origin.base) \in Words
  BY <1>2, AfterIsWord
<1> QED
  BY <1>3 DEF ValueForMode

LEMMA TruncatedIsInt ==
  ASSUME NEW v \in Int, NEW w \in Widths
  PROVE  Truncated(v, w) \in Int
<1>1. 2 ^ Bits(w) \in Nat \ {0}
  BY WordFacts
<1> DEFINE B == 2 ^ Bits(w)
<1>2. v % B \in Int
  <2> HIDE DEF B
  <2>1. B \in Nat \ {0}
    BY <1>1 DEF B
  <2>2. v % B \in 0 .. B - 1
    BY <2>1, IntDivision
  <2> QED
    BY <2>1, <2>2
<1> QED
  BY <1>2 DEF Truncated

(* A field and a relocation that the encoder appends.                      *)
LEMMA FieldIsTyped ==
  ASSUME TypeInv, NEW r \in Refs, NEW item \in Items
  PROVE  Field(r, item) \in FieldsOf
<1>1. r.at \in Nat /\ r.width \in Widths /\ r.rel \in BOOLEAN /\ r.name \in Names
  BY DEF Refs
<1>2. FieldValue(r, item) \in Int
  <2>1. CASE ~Known(r.name)
    <3>1. FieldValue(r, item) = 0
      BY <2>1 DEF FieldValue
    <3> QED
      BY <3>1
  <2>2. CASE Known(r.name)
    <3> DEFINE v == IF r.rel THEN Displacement(r.name, item)
                    ELSE ValueForMode(r.name)
    <3>1. AddressOf(r.name) \in Words
      BY <2>2, LabelFacts
    <3>2. Displacement(r.name, item) \in Int /\ ValueForMode(r.name) \in Words
      BY <3>1, DisplacementIsInt, ValueIsInt
    <3>3. v \in Int
      BY <3>2, WordFacts DEF Words
    <3>4. FieldValue(r, item) = Truncated(v, r.width)
      BY <2>2 DEF FieldValue
    <3> HIDE DEF v
    <3> QED
      BY <1>1, <3>3, <3>4, TruncatedIsInt
  <2> QED
    BY <2>1, <2>2
<1>3. length \in Nat /\ Len(placed) + 1 \in Nat
  BY DEF TypeInv
<1>4. length + r.at \in Nat
  BY <1>1, <1>3
<1> QED
  BY <1>1, <1>2, <1>3, <1>4 DEF Field, FieldsOf

LEMMA AddendIsInt ==
  ASSUME NEW r, r.rel \in BOOLEAN, NEW item \in Items
  PROVE  Addend(r, item) \in Int
<1>1. item.offset \in Words /\ item.size \in Nat /\ Word \in Nat \ {0}
  BY WordFacts DEF Items
<1>2. item.offset \in Int /\ item.size \in Int
  BY <1>1 DEF Words
<1>3. next_ip(item) \in Words
  BY <1>2, AfterIsWord DEF next_ip
<1>4. Word - next_ip(item) \in Int
  BY <1>1, <1>3 DEF Words
<1> DEFINE v == Word - next_ip(item)
<1>5. v % Word \in Int
  <2> HIDE DEF v
  <2>1. v \in Int
    BY <1>4 DEF v
  <2>2. v % Word \in 0 .. Word - 1
    BY <1>1, <2>1, IntDivision
  <2> QED
    BY <1>1, <2>2
<1>6. Signed(v % Word) \in Int
  BY <1>1, <1>5, SignedIsInt DEF Signed
<1> QED
  BY <1>6 DEF Addend

LEMMA RelocIsTyped ==
  ASSUME TypeInv, NEW r \in Refs, NEW item \in Items
  PROVE  Reloc(r, item) \in RelocsOf
<1>1. r.at \in Nat /\ r.width \in Widths /\ r.rel \in BOOLEAN /\ r.name \in Names
  BY DEF Refs
<1>2. Addend(r, item) \in Int
  BY <1>1, AddendIsInt
<1> DEFINE at == length + r.at
<1>3. at \in Nat /\ Word \in Nat \ {0}
  BY SMTT(30), <1>1, WordFacts DEF TypeInv
<1>4. at % Word \in Words
  <2> HIDE DEF at
  <2> QED
    BY <1>3, DivisionFacts DEF Words
<1>5. [rel |-> r.rel, width |-> r.width] \in Kinds
  BY <1>1 DEF Kinds
<1> QED
  BY <1>1, <1>2, <1>4, <1>5 DEF Reloc, RelocsOf

(* The item that is encoded next, and its references.                      *)
LEMMA CurrentIsTyped ==
  ASSUME TypeInv, Len(placed) < Len(items)
  PROVE  /\ Current \in Items /\ IsItem(Current.statement)
         /\ Len(placed) + 1 \in 1 .. Len(items)
         /\ RefsFit(References(Current.statement), BytesWritten(Current.statement))
         /\ BytesWritten(Current.statement) = Size(Current.statement)
         /\ Size(Current.statement) \in Nat
<1>1. items \in Seq(Items) /\ placed \in Seq(Nat)
  BY DEF TypeInv
<1>2. Len(placed) + 1 \in 1 .. Len(items)
  BY <1>1
<1>3. Current \in Items
  BY <1>1, <1>2 DEF Current
<1>4. IsItem(Current.statement)
  BY <1>3 DEF Items, Statements
<1> QED
  BY <1>2, <1>3, <1>4, ReferencesFit, SizesAgree

(* The fields and the relocations of one item, in their order.             *)
LEMMA FieldsAreTyped ==
  ASSUME TypeInv, NEW refs \in Seq(Refs), NEW item \in Items
  PROVE  /\ NewFields(refs, item) \in Seq(FieldsOf)
         /\ Len(NewFields(refs, item)) = Len(refs)
         /\ \A i \in 1 .. Len(refs) : NewFields(refs, item)[i] = Field(refs[i], item)
<1> DEFINE m == NewFields(refs, item)
<1>1. Len(refs) \in Nat /\ DOMAIN refs = 1 .. Len(refs)
      /\ \A i \in 1 .. Len(refs) : refs[i] \in Refs
  OBVIOUS
<1>2. m = [i \in 1 .. Len(refs) |-> Field(refs[i], item)]
  BY <1>1 DEF NewFields
<1>3. \A i \in 1 .. Len(refs) : Field(refs[i], item) \in FieldsOf
  BY <1>1, FieldIsTyped
<1> HIDE DEF m
<1>4. m \in [1 .. Len(refs) -> FieldsOf]
  BY <1>2, <1>3
<1>5. m \in Seq(FieldsOf) /\ Len(m) = Len(refs)
  BY <1>1, <1>4
<1>6. \A i \in 1 .. Len(refs) : m[i] = Field(refs[i], item)
  BY <1>2
<1> QED
  BY <1>5, <1>6 DEF m

LEMMA RelocsAreTyped ==
  ASSUME TypeInv, NEW refs \in Seq(Refs), NEW item \in Items
  PROVE  /\ NewRelocs(refs, item) \in Seq(RelocsOf)
         /\ Len(NewRelocs(refs, item)) = Len(refs)
         /\ \A i \in 1 .. Len(refs) : NewRelocs(refs, item)[i] = Reloc(refs[i], item)
<1> DEFINE m == NewRelocs(refs, item)
<1>1. Len(refs) \in Nat /\ DOMAIN refs = 1 .. Len(refs)
      /\ \A i \in 1 .. Len(refs) : refs[i] \in Refs
  OBVIOUS
<1>2. m = [i \in 1 .. Len(refs) |-> Reloc(refs[i], item)]
  BY <1>1 DEF NewRelocs
<1>3. \A i \in 1 .. Len(refs) : Reloc(refs[i], item) \in RelocsOf
  BY <1>1, RelocIsTyped
<1> HIDE DEF m
<1>4. m \in [1 .. Len(refs) -> RelocsOf]
  BY <1>2, <1>3
<1>5. m \in Seq(RelocsOf) /\ Len(m) = Len(refs)
  BY <1>1, <1>4
<1>6. \A i \in 1 .. Len(refs) : m[i] = Reloc(refs[i], item)
  BY <1>2
<1> QED
  BY <1>5, <1>6 DEF m

-----------------------------------------------------------------------------
(* Types are kept.                                                         *)

Phases == {"read", "literals", "encode", "write", "done", "failed"}

LinesOK == \A i \in 1 .. Len(frames) :
             frames[i].line <= Len(program[frames[i].file]) + 1

(* A step keeps the types when it keeps those of what it changes.          *)
LEMMA TypeStep ==
  ASSUME TypeInv, UNCHANGED source,
         pc' \in Phases, frames' \in Seq(Frames), LinesOK', shared' \in Words,
         origin' \in [base : Words, set : BOOLEAN], symbols' \in Seq(Labels),
         literals' \in Seq(Literals), items' \in Seq(Items), length' \in Nat,
         placed' \in Seq(Nat), fields' \in Seq(FieldsOf), relocs' \in Seq(RelocsOf),
         output' \in {"untouched", "partial", "written"}
  PROVE  TypeInv'
<1>1. program' = program /\ objectMode' = objectMode
  BY DEF source
<1>2. program' \in Programs /\ objectMode' \in BOOLEAN
  BY <1>1 DEF TypeInv
<1>3. Frames' = Frames
  BY <1>1 DEF Frames
<1> QED
  BY <1>2, <1>3 DEF TypeInv, LinesOK, Phases

(* The parts of the type invariant.                                        *)
LEMMA TypeFacts ==
  ASSUME TypeInv
  PROVE  /\ pc \in Phases /\ frames \in Seq(Frames) /\ LinesOK /\ shared \in Words
         /\ origin \in [base : Words, set : BOOLEAN] /\ symbols \in Seq(Labels)
         /\ literals \in Seq(Literals) /\ items \in Seq(Items) /\ length \in Nat
         /\ placed \in Seq(Nat) /\ fields \in Seq(FieldsOf)
         /\ relocs \in Seq(RelocsOf)
         /\ output \in {"untouched", "partial", "written"}
BY DEF TypeInv, LinesOK, Phases

(* Frames that stay are frames of the same files.                          *)
LEMMA LinesKept ==
  ASSUME TypeInv, UNCHANGED <<source, frames>>
  PROVE  LinesOK' /\ frames' \in Seq(Frames)
<1>1. program' = program /\ frames' = frames
  BY DEF source
<1>2. LinesOK /\ frames \in Seq(Frames)
  BY TypeFacts
<1> QED
  BY <1>1, <1>2 DEF LinesOK

(* The types, at the start.                                                *)
LEMMA InitTyped == Init => TypeInv
<1> SUFFICES ASSUME Init
             PROVE  TypeInv
  OBVIOUS
<1>1. Root \in DOMAIN program /\ Len(program[Root]) \in Nat
  BY RootAssumption, ProgramsAssumption DEF Init
<1>2. 0 \in Words /\ DefaultOrigin \in Words
  BY WordFacts, OriginAssumption DEF Words
<1> DEFINE f == Frame(Root, 1, 0)
<1>3. f \in Frames /\ f.line = 1 /\ f.file = Root
  BY <1>1, <1>2 DEF Frame, Frames
<1> HIDE DEF f
<1>4. frames = <<f>>
  BY DEF Init, f
<1>5. frames \in Seq(Frames) /\ Len(frames) = 1 /\ frames[1] = f
  BY <1>3, <1>4
<1>6. \A i \in 1 .. Len(frames) : frames[i].line <= Len(program[frames[i].file]) + 1
  BY <1>1, <1>3, <1>5
<1>7. origin \in [base : Words, set : BOOLEAN]
  BY <1>2 DEF Init
<1>8. /\ << >> \in Seq(Labels) /\ << >> \in Seq(Literals) /\ << >> \in Seq(Items)
      /\ << >> \in Seq(Nat) /\ << >> \in Seq(FieldsOf) /\ << >> \in Seq(RelocsOf)
  OBVIOUS
<1>9. /\ symbols = << >> /\ literals = << >> /\ items = << >> /\ placed = << >>
      /\ fields = << >> /\ relocs = << >>
  BY DEF Init
<1>10. /\ program \in Programs /\ objectMode \in BOOLEAN /\ pc = "read" /\ shared = 0
       /\ length = 0 /\ output = "untouched"
  BY DEF Init
<1> QED
  BY <1>2, <1>5, <1>6, <1>7, <1>8, <1>9, <1>10 DEF TypeInv

(* The name of a label statement is a name, a number of bytes a number.    *)
LEMMA LabelTyped ==
  ASSUME TypeInv, NEW name \in Names, NEW at \in Words
  PROVE  /\ Append(symbols, Symbol(name, at)) \in Seq(Labels)
         /\ Len(Append(symbols, Symbol(name, at))) = Len(symbols) + 1
         /\ Append(symbols, Symbol(name, at))[Len(symbols) + 1] = Symbol(name, at)
         /\ \A i \in 1 .. Len(symbols) :
              Append(symbols, Symbol(name, at))[i] = symbols[i]
         /\ Len(symbols) \in Nat
<1>1. symbols \in Seq(Labels) /\ items \in Seq(Items)
  BY DEF TypeInv
<1>2. Len(items) \in Nat
  BY <1>1
<1>3. Symbol(name, at) \in Labels
  BY <1>2 DEF Symbol, Labels
<1> DEFINE x == Symbol(name, at)
<1> HIDE DEF x
<1>4. x \in Labels
  BY <1>3 DEF x
<1>5. /\ Append(symbols, x) \in Seq(Labels)
      /\ Len(Append(symbols, x)) = Len(symbols) + 1
      /\ Append(symbols, x)[Len(symbols) + 1] = x
      /\ \A i \in 1 .. Len(symbols) : Append(symbols, x)[i] = symbols[i]
      /\ Len(symbols) \in Nat
  BY <1>1, <1>4
<1> QED
  BY <1>5 DEF x

(* An item at the end of the program.                                      *)
LEMMA ItemAppended ==
  ASSUME TypeInv, NEW s \in Statements, NEW at \in Words
  PROVE  /\ Append(items, Item(s, at)) \in Seq(Items)
         /\ Len(Append(items, Item(s, at))) = Len(items) + 1
         /\ Append(items, Item(s, at))[Len(items) + 1] = Item(s, at)
         /\ \A i \in 1 .. Len(items) : Append(items, Item(s, at))[i] = items[i]
         /\ Len(items) \in Nat
<1>1. items \in Seq(Items)
  BY DEF TypeInv
<1> DEFINE x == Item(s, at)
<1>2. x \in Items
  BY ItemIsTyped
<1> HIDE DEF x
<1>3. /\ Append(items, x) \in Seq(Items)
      /\ Len(Append(items, x)) = Len(items) + 1
      /\ Append(items, x)[Len(items) + 1] = x
      /\ \A i \in 1 .. Len(items) : Append(items, x)[i] = items[i]
      /\ Len(items) \in Nat
  BY <1>1, <1>2
<1> QED
  BY <1>3 DEF x

(* A statement of the file that is done, one way or another.               *)
LEMMA SteppedTyped ==
  ASSUME TypeInv, InFile, NEW n \in Nat, frames' = Stepped(n), UNCHANGED source
  PROVE  LinesOK' /\ frames' \in Seq(Frames)
<1>1. program' = program
  BY DEF source
<1>2. /\ Stepped(n) \in Seq(Frames) /\ Len(Stepped(n)) = Len(frames)
      /\ \A i \in 1 .. Len(frames) :
           /\ Stepped(n)[i].file = frames[i].file
           /\ Stepped(n)[i].line <= Len(program[frames[i].file]) + 1
  BY SteppedFacts
<1> DEFINE g == Stepped(n)
<1> HIDE DEF g
<1>3. frames' = g
  BY DEF g
<1>4. /\ g \in Seq(Frames) /\ Len(g) = Len(frames)
      /\ \A i \in 1 .. Len(frames) :
           g[i].file = frames[i].file /\ g[i].line <= Len(program[frames[i].file]) + 1
  BY <1>2 DEF g
<1>5. \A i \in 1 .. Len(g) : g[i].line <= Len(program[g[i].file]) + 1
  BY <1>4
<1> QED
  BY <1>1, <1>3, <1>4, <1>5 DEF LinesOK

(* A statement that becomes an item.                                       *)
LEMMA EmitTyped ==
  ASSUME TypeInv, InFile, NEW s \in Statements, Emit(s), UNCHANGED source
  PROVE  LinesOK' /\ frames' \in Seq(Frames) /\ items' \in Seq(Items)
<1>1. local_pc \in Words
  BY TopFacts DEF InFile
<1>2. Size(s) \in Nat
  BY <1>1, ItemIsTyped
<1>3. items' \in Seq(Items)
  BY <1>1, ItemAppended DEF Emit
<1> QED
  BY <1>2, <1>3, SteppedTyped DEF Emit

-----------------------------------------------------------------------------
(* The kinds of steps: what the actions of each kind have in common.       *)

(* A statement that counts for bytes, or for none.                         *)
Emits ==
  /\ InFile
  /\ \/ \E s \in Statements : Emit(s)
     \/ frames' = Stepped(0) /\ items' = items
  /\ literals' \in Seq(Literals)
  /\ UNCHANGED <<source, pc, shared, included, origin, symbols, encoding, files>>

(* A statement that counts for no bytes, of whatever effect on the origin. *)
Moves ==
  /\ InFile
  /\ frames' = Stepped(0)
  /\ origin' \in [base : Words, set : BOOLEAN]
  /\ UNCHANGED <<source, pc, shared, included, symbols, literals, items,
                 encoding, files>>

(* The end of an unsuccessful run.                                         *)
Fails == pc \in {"read", "literals", "encode", "write"} /\ Fail

(* Five actions are statements that count for bytes or for none.           *)
LEMMA AddItemEmits == TypeInv /\ AddItem => Emits
<1> SUFFICES ASSUME TypeInv, AddItem
             PROVE  Emits
  OBVIOUS
<1>1. /\ InFile /\ Here.op \in {"bytes", "values", "instr", "rrpin"}
      /\ Here.op = "rrpin" => Here.inner \in RepeatedForms
      /\ Emit(Here)
      /\ UNCHANGED <<source, pc, shared, included, origin, symbols, literals,
                     encoding, files>>
  BY DEF AddItem
<1>2. Here \in Statements
  BY <1>1, HereFacts, StatementIsItem
<1>3. literals' \in Seq(Literals)
  BY <1>1, TypeFacts
<1> QED
  BY <1>1, <1>2, <1>3 DEF Emits

LEMMA AddStringEmits == TypeInv /\ AddString => Emits
<1> SUFFICES ASSUME TypeInv, AddString
             PROVE  Emits
  OBVIOUS
<1>1. /\ InFile /\ Here.op = "string"
      /\ Emit(LoadOf(Len(literals)))
      /\ literals' = Append(literals, [label |-> StringLabel(Len(literals)),
                                       size |-> Here.size])
      /\ UNCHANGED <<source, pc, shared, included, origin, symbols, encoding,
                     files>>
  BY DEF AddString, LoadOf
<1>2. literals \in Seq(Literals) /\ Len(literals) \in Nat
  BY DEF TypeInv
<1>3. LoadOf(Len(literals)) \in Statements /\ StringLabel(Len(literals)) \in Names
  BY <1>2, LoadIsItem
<1>4. Here.size \in Nat
  BY <1>1, HereFacts DEF IsStatement
<1>5. [label |-> StringLabel(Len(literals)), size |-> Here.size] \in Literals
  BY <1>3, <1>4 DEF Literals
<1>6. literals' \in Seq(Literals)
  BY <1>1, <1>2, <1>5
<1> QED
  BY <1>1, <1>3, <1>6 DEF Emits

LEMMA IncbinEmits == TypeInv /\ Incbin => Emits
<1> SUFFICES ASSUME TypeInv, Incbin
             PROVE  Emits
  OBVIOUS
<1>1. /\ InFile /\ Here.op = "incbin" /\ Emit(Bytes(Here.size))
      /\ UNCHANGED <<source, pc, shared, included, origin, symbols, literals,
                     encoding, files>>
  BY DEF Incbin
<1>2. Here.size \in Nat
  BY <1>1, HereFacts DEF IsStatement
<1>3. Bytes(Here.size) \in Statements
  BY <1>2, BytesIsItem
<1>4. literals' \in Seq(Literals)
  BY <1>1, TypeFacts
<1> QED
  BY <1>1, <1>3, <1>4 DEF Emits

LEMMA AlignEmits == TypeInv /\ Align => Emits
<1> SUFFICES ASSUME TypeInv, Align
             PROVE  Emits
  OBVIOUS
<1> DEFINE n == Padding(Here.to)
<1>1. /\ InFile /\ Here.op = "align"
      /\ IF n = 0 THEN frames' = Stepped(0) /\ UNCHANGED items ELSE Emit(Bytes(n))
      /\ UNCHANGED <<source, pc, shared, included, origin, symbols, literals,
                     encoding, files>>
  BY DEF Align
<1>2. Here.to \in 1 .. Word - 1 /\ Word \in Nat
  BY <1>1, HereFacts, WordFacts DEF IsStatement
<1>3. Here.to \in Nat \ {0} /\ local_pc \in Nat
  BY <1>1, <1>2, TopFacts DEF InFile
<1>4. n \in Nat
  <2> DEFINE a == Here.to
             g == (a - (local_pc % a)) % a
  <2>1. n = g
    BY DEF Padding
  <2> HIDE DEF a, n
  <2>2. a \in Nat \ {0}
    BY <1>3 DEF a
  <2>3. g \in 0 .. a - 1
    BY <1>3, <2>2, RoundedUp
  <2> HIDE DEF g
  <2> QED
    BY <2>1, <2>2, <2>3
<1> HIDE DEF n
<1>5. Bytes(n) \in Statements
  BY <1>4, BytesIsItem
<1>6. literals' \in Seq(Literals)
  BY <1>1, TypeFacts
<1>7. CASE n = 0
  BY <1>1, <1>6, <1>7 DEF Emits
<1>8. CASE n # 0
  BY <1>1, <1>5, <1>6, <1>8 DEF Emits
<1> QED
  BY <1>7, <1>8

(* Two actions move on to the next line only.                              *)
LEMMA SetOriginMoves == TypeInv /\ SetOrigin => Moves
<1> SUFFICES ASSUME TypeInv, SetOrigin
             PROVE  Moves
  OBVIOUS
<1>1. InFile /\ Here.op = "origin"
  BY DEF SetOrigin
<1>2. Here.value \in Words
  BY <1>1, HereFacts DEF IsStatement, Words
<1>3. [base |-> Here.value, set |-> TRUE] \in [base : Words, set : BOOLEAN]
  BY <1>2
<1> QED
  BY <1>3 DEF SetOrigin, Moves

LEMMA SkipIncludeMoves == TypeInv /\ SkipInclude => Moves
<1> SUFFICES ASSUME TypeInv, SkipInclude
             PROVE  Moves
  OBVIOUS
<1>1. origin' \in [base : Words, set : BOOLEAN]
  BY TypeFacts DEF SkipInclude
<1> QED
  BY <1>1 DEF SkipInclude, Moves

(* Every step is of one of these kinds.                                    *)
LEMMA StepKinds ==
  ASSUME TypeInv, [Next]_vars
  PROVE  \/ Emits \/ Moves \/ Label \/ Include \/ EndOfFile \/ EndReading
         \/ PlaceLiteral \/ EndLiterals \/ EncodeItem \/ EndEncode \/ Write
         \/ WriteFails \/ Fails \/ UNCHANGED vars
<1>1. CASE Progress
  <2>1. CASE Label \/ AddItem \/ AddString \/ Incbin \/ Align \/ SetOrigin
             \/ SkipInclude
    BY <2>1, AddItemEmits, AddStringEmits, IncbinEmits, AlignEmits,
       SetOriginMoves, SkipIncludeMoves
  <2>2. CASE DuplicateLabel \/ RejectRepeated \/ RejectIncbin \/ OriginTwice
             \/ CannotInclude
    BY <2>2 DEF DuplicateLabel, RejectRepeated, RejectIncbin, OriginTwice,
                CannotInclude, InFile, Fails
  <2>3. CASE LiteralLabelTaken \/ RejectItem \/ TooLarge
    BY <2>3 DEF LiteralLabelTaken, RejectItem, TooLarge, Fails
  <2>4. CASE \/ Include \/ EndOfFile \/ EndReading \/ PlaceLiteral
             \/ EndLiterals \/ EncodeItem \/ EndEncode \/ Write
    BY <2>4
  <2> QED
    BY <1>1, <2>1, <2>2, <2>3, <2>4 DEF Progress
<1>2. CASE Abort
  BY <1>2 DEF Abort, Fails
<1>3. CASE Terminated
  BY <1>3 DEF Terminated
<1>4. CASE WriteFails
  BY <1>4
<1>5. CASE UNCHANGED vars
  BY <1>5
<1> QED
  BY <1>1, <1>2, <1>3, <1>4, <1>5 DEF Next

-----------------------------------------------------------------------------
(* Types are kept by every kind of step.                                   *)
LEMMA EmitsTyped == TypeInv /\ Emits => TypeInv'
<1> SUFFICES ASSUME TypeInv, Emits
             PROVE  TypeInv'
  OBVIOUS
<1>1. /\ InFile /\ literals' \in Seq(Literals)
      /\ UNCHANGED <<source, pc, shared, included, origin, symbols, encoding,
                     files>>
  BY DEF Emits
<1>2. LinesOK' /\ frames' \in Seq(Frames) /\ items' \in Seq(Items)
  <2>1. CASE \E s \in Statements : Emit(s)
    BY <1>1, <2>1, EmitTyped
  <2>2. CASE frames' = Stepped(0) /\ items' = items
    <3>1. 0 \in Nat /\ items' \in Seq(Items)
      BY <2>2, TypeFacts
    <3> QED
      BY <1>1, <2>2, <3>1, SteppedTyped
  <2> QED
    BY <2>1, <2>2 DEF Emits
<1> QED
  BY <1>1, <1>2, TypeFacts, TypeStep DEF encoding, files

LEMMA MovesTyped == TypeInv /\ Moves => TypeInv'
<1> SUFFICES ASSUME TypeInv, Moves
             PROVE  TypeInv'
  OBVIOUS
<1>1. /\ InFile /\ frames' = Stepped(0)
      /\ origin' \in [base : Words, set : BOOLEAN]
      /\ UNCHANGED <<source, pc, shared, included, symbols, literals, items,
                     encoding, files>>
  BY DEF Moves
<1>2. 0 \in Nat
  OBVIOUS
<1>3. LinesOK' /\ frames' \in Seq(Frames)
  BY <1>1, <1>2, SteppedTyped
<1> QED
  BY <1>1, <1>3, TypeFacts, TypeStep DEF encoding, files

LEMMA LabelStepTyped == TypeInv /\ Label => TypeInv'
<1> SUFFICES ASSUME TypeInv, Label
             PROVE  TypeInv'
  OBVIOUS
<1>1. /\ InFile /\ Here.op = "label" /\ frames' = Stepped(0)
      /\ symbols' = Append(symbols, Symbol(Here.name, local_pc))
      /\ UNCHANGED <<source, pc, shared, included, origin, literals, items,
                     encoding, files>>
  BY DEF Label
<1>2. 0 \in Nat /\ Here.name \in Names /\ local_pc \in Words
  BY <1>1, HereFacts, TopFacts DEF IsStatement, InFile, Names
<1>3. LinesOK' /\ frames' \in Seq(Frames)
  BY <1>1, <1>2, SteppedTyped
<1>4. symbols' \in Seq(Labels)
  BY <1>1, <1>2, LabelTyped
<1> QED
  BY <1>1, <1>3, <1>4, TypeFacts, TypeStep DEF encoding, files

LEMMA IncludeTyped == TypeInv /\ Include => TypeInv'
<1> SUFFICES ASSUME TypeInv, Include
             PROVE  TypeInv'
  OBVIOUS
<1> DEFINE g == Stepped(0)
           f == Frame(Here.file, 1, local_pc)
<1>1. /\ InFile /\ Here.file \in DOMAIN program /\ frames' = Append(g, f)
      /\ shared' = local_pc
      /\ UNCHANGED <<source, pc, origin, symbols, literals, items, encoding, files>>
  BY DEF Include
<1>2. 0 \in Nat /\ local_pc \in Words /\ program \in Programs
  BY <1>1, TopFacts DEF InFile, TypeInv
<1>3. /\ g \in Seq(Frames) /\ Len(g) = Len(frames)
      /\ \A i \in 1 .. Len(frames) :
           /\ g[i].file = frames[i].file
           /\ g[i].line <= Len(program[frames[i].file]) + 1
  BY <1>1, <1>2, SteppedFacts
<1>4. Len(program[Here.file]) \in Nat
  BY <1>1, <1>2, ProgramsAssumption
<1>5. f.file = Here.file /\ f.line = 1 /\ f \in Frames
  BY <1>1, <1>2 DEF Frame, Frames
<1> HIDE DEF g, f
<1>6. /\ frames' \in Seq(Frames) /\ Len(frames') = Len(g) + 1
      /\ \A i \in 1 .. Len(g) : frames'[i] = g[i]
      /\ frames'[Len(g) + 1] = f
      /\ Len(g) \in Nat
  BY <1>1, <1>3, <1>5
<1>7. program' = program
  BY <1>1 DEF source
<1>8. \A i \in 1 .. Len(frames') :
        frames'[i].line <= Len(program[frames'[i].file]) + 1
  <2> TAKE i \in 1 .. Len(frames')
  <2>1. CASE i \in 1 .. Len(g)
    <3>1. g[i].line <= Len(program[g[i].file]) + 1
      BY <1>3, <2>1
    <3> QED
      BY <1>6, <2>1, <3>1
  <2>2. CASE i = Len(g) + 1
    BY <1>4, <1>5, <1>6, <2>2
  <2> QED
    BY <1>6, <2>1, <2>2
<1>9. LinesOK'
  BY <1>7, <1>8 DEF LinesOK
<1> QED
  BY <1>1, <1>2, <1>6, <1>9, TypeFacts, TypeStep DEF encoding, files

LEMMA EndOfFileTyped == TypeInv /\ EndOfFile => TypeInv'
<1> SUFFICES ASSUME TypeInv, EndOfFile
             PROVE  TypeInv'
  OBVIOUS
<1> DEFINE g == Resumed(SubSeq(frames, 1, Len(frames) - 1), local_pc)
<1>1. /\ frames # << >> /\ shared' = local_pc /\ frames' = g
      /\ UNCHANGED <<source, pc, included, origin, symbols, literals, items,
                     encoding, files>>
  BY DEF EndOfFile
<1>2. /\ g \in Seq(Frames) /\ Len(g) = Len(frames) - 1
      /\ \A i \in 1 .. Len(g) : g[i].file = frames[i].file /\ g[i].line = frames[i].line
  BY <1>1, ResumedFacts
<1> HIDE DEF g
<1>3. local_pc \in Words /\ Len(frames) \in Nat
  BY <1>1, TopFacts
<1>4. program' = program
  BY <1>1 DEF source
<1>5. LinesOK
  BY TypeFacts
<1>6. \A i \in 1 .. Len(g) : g[i].line <= Len(program[g[i].file]) + 1
  <2> TAKE i \in 1 .. Len(g)
  <2>1. i \in 1 .. Len(frames)
    BY <1>2, <1>3
  <2> QED
    BY <1>2, <1>5, <2>1 DEF LinesOK
<1>7. LinesOK'
  BY <1>1, <1>4, <1>6 DEF LinesOK
<1> QED
  BY <1>1, <1>2, <1>3, <1>7, TypeFacts, TypeStep DEF encoding, files

LEMMA PlaceLiteralTyped == TypeInv /\ PlaceLiteral => TypeInv'
<1> SUFFICES ASSUME TypeInv, PlaceLiteral
             PROVE  TypeInv'
  OBVIOUS
<1>1. /\ literals # << >>
      /\ symbols' = Append(symbols, Symbol(Head(literals).label, shared))
      /\ items' = Append(items, Item(Bytes(Head(literals).size), shared))
      /\ shared' = After(shared, Head(literals).size)
      /\ literals' = Tail(literals)
      /\ UNCHANGED <<source, pc, frames, included, origin, encoding, files>>
  BY DEF PlaceLiteral
<1>2. literals \in Seq(Literals) /\ shared \in Words
  BY TypeFacts
<1>3. Head(literals) \in Literals /\ Tail(literals) \in Seq(Literals)
  BY <1>1, <1>2
<1>4. Head(literals).label \in Names /\ Head(literals).size \in Nat
  BY <1>3 DEF Literals
<1>5. shared \in Int
  BY <1>2, WordFacts DEF Words
<1>6. After(shared, Head(literals).size) \in Words
  BY <1>4, <1>5, AfterIsWord
<1>7. symbols' \in Seq(Labels)
  BY <1>1, <1>2, <1>4, LabelTyped
<1>8. Bytes(Head(literals).size) \in Statements
  BY <1>4, BytesIsItem
<1>9. items' \in Seq(Items)
  BY <1>1, <1>2, <1>8, ItemAppended
<1>10. LinesOK' /\ frames' \in Seq(Frames)
  BY <1>1, LinesKept
<1> QED
  BY <1>1, <1>3, <1>6, <1>7, <1>9, <1>10, TypeFacts, TypeStep DEF encoding, files

(* What one more item adds to the output.                                  *)
LEMMA EncodeItemFacts ==
  ASSUME TypeInv, EncodeItem,
         NEW refs, refs = References(Current.statement)
  PROVE  /\ pc = "encode" /\ Len(placed) < Len(items)
         /\ refs \in Seq(Refs)
         /\ Relocated(refs) \in Seq(Refs)
         /\ \A i \in DOMAIN refs : Encodable(refs[i], Current)
         /\ fields' = fields \o NewFields(refs, Current)
         /\ relocs' = relocs \o NewRelocs(Relocated(refs), Current)
         /\ length' = length + BytesWritten(Current.statement)
         /\ placed' = Append(placed, length)
         /\ UNCHANGED <<source, pc, reading, symbols, literals, items, files>>
<1>1. pc = "encode" /\ Len(placed) < Len(items)
  BY DEF EncodeItem
<1>2. refs \in Seq(Refs)
  BY <1>1, CurrentIsTyped DEF RefsFit
<1>3. Relocated(refs) \in Seq(Refs)
  BY <1>2, SelectedFacts DEF Relocated
<1> QED
  BY <1>1, <1>2, <1>3 DEF EncodeItem

(* An encoded item, and a change of phase.                                 *)
LEMMA EncodeItemTyped == TypeInv /\ EncodeItem => TypeInv'
<1> SUFFICES ASSUME TypeInv, EncodeItem
             PROVE  TypeInv'
  OBVIOUS
<1> DEFINE refs == References(Current.statement)
           f == NewFields(refs, Current)
           r == NewRelocs(Relocated(refs), Current)
<1>1. /\ pc = "encode" /\ Len(placed) < Len(items)
      /\ refs \in Seq(Refs) /\ Relocated(refs) \in Seq(Refs)
      /\ fields' = fields \o f /\ relocs' = relocs \o r
      /\ length' = length + BytesWritten(Current.statement)
      /\ placed' = Append(placed, length)
      /\ UNCHANGED <<source, pc, reading, symbols, literals, items, files>>
  BY EncodeItemFacts
<1>2. Current \in Items /\ BytesWritten(Current.statement) \in Nat
  BY <1>1, CurrentIsTyped
<1>3. f \in Seq(FieldsOf)
  BY <1>1, <1>2, FieldsAreTyped
<1>4. r \in Seq(RelocsOf)
  BY <1>1, <1>2, RelocsAreTyped
<1>5. /\ length \in Nat /\ placed \in Seq(Nat) /\ fields \in Seq(FieldsOf)
      /\ relocs \in Seq(RelocsOf)
  BY TypeFacts
<1> HIDE DEF f, r
<1>6. length' \in Nat /\ placed' \in Seq(Nat)
  BY <1>1, <1>2, <1>5
<1>7. fields' \in Seq(FieldsOf) /\ relocs' \in Seq(RelocsOf)
  BY <1>1, <1>3, <1>4, <1>5, ConcatProperties
<1>8. LinesOK' /\ frames' \in Seq(Frames)
  BY <1>1, LinesKept DEF reading
<1> QED
  BY <1>1, <1>6, <1>7, <1>8, TypeFacts, TypeStep DEF reading, files

LEMMA PhaseStepTyped ==
  ASSUME TypeInv, pc' \in Phases,
         output' \in {"untouched", "partial", "written"},
         UNCHANGED <<source, reading, symbols, literals, items, encoding>>
  PROVE  TypeInv'
<1>1. LinesOK' /\ frames' \in Seq(Frames)
  BY LinesKept DEF reading
<1> QED
  BY <1>1, TypeFacts, TypeStep DEF reading, encoding

(* TypeInv is inductive.                                                   *)
LEMMA TypePreserved == TypeInv /\ [Next]_vars => TypeInv'
<1> SUFFICES ASSUME TypeInv, [Next]_vars
             PROVE  TypeInv'
  OBVIOUS
<1>1. CASE EndReading \/ EndLiterals \/ EndEncode \/ Fails
  <2>1. /\ pc' \in Phases /\ output' = output
        /\ UNCHANGED <<source, reading, symbols, literals, items, encoding>>
    BY <1>1 DEF EndReading, EndLiterals, EndEncode, Fails, Fail, files, Phases
  <2> QED
    BY <2>1, TypeFacts, PhaseStepTyped
<1>2. CASE Write \/ WriteFails
  <2>1. /\ pc' \in Phases /\ output' \in {"untouched", "partial", "written"}
        /\ UNCHANGED <<source, reading, symbols, literals, items, encoding>>
    BY <1>2 DEF Write, WriteFails, Phases
  <2> QED
    BY <2>1, PhaseStepTyped
<1>3. CASE UNCHANGED vars
  <2>1. /\ pc' = pc /\ output' = output
        /\ UNCHANGED <<source, reading, symbols, literals, items, encoding>>
    BY <1>3 DEF vars, source, reading, encoding
  <2> QED
    BY <2>1, TypeFacts, PhaseStepTyped
<1> QED
  BY <1>1, <1>2, <1>3, StepKinds, EmitsTyped, MovesTyped, LabelStepTyped,
     IncludeTyped, EndOfFileTyped, PlaceLiteralTyped, EncodeItemTyped

-----------------------------------------------------------------------------
(* What is empty, and what is complete, in each phase.                     *)

(* PhaseInv is inductive.                                                  *)
LEMMA PhasePreserved == TypeInv /\ PhaseInv /\ [Next]_vars => PhaseInv'
<1> SUFFICES ASSUME TypeInv, PhaseInv, [Next]_vars
             PROVE  PhaseInv'
  OBVIOUS
<1>1. CASE Emits \/ Moves \/ Label \/ Include \/ EndOfFile
  <2>1. pc = "read" /\ pc' = pc /\ UNCHANGED encoding
    BY <1>1 DEF Emits, Moves, Label, Include, EndOfFile, InFile
  <2> QED
    BY <2>1 DEF PhaseInv, encoding
<1>2. CASE EndReading
  BY <1>2 DEF EndReading, PhaseInv, reading, encoding
<1>3. CASE PlaceLiteral
  BY <1>3 DEF PlaceLiteral, PhaseInv, encoding
<1>4. CASE EndLiterals
  BY <1>4 DEF EndLiterals, PhaseInv, reading, encoding
<1>5. CASE EncodeItem
  <2>1. pc = "encode" /\ pc' = "encode" /\ UNCHANGED <<reading, literals>>
    BY <1>5 DEF EncodeItem
  <2> QED
    BY <2>1 DEF PhaseInv, reading
<1>6. CASE EndEncode
  BY <1>6 DEF EndEncode, PhaseInv, reading, encoding
<1>7. CASE Write \/ WriteFails
  BY <1>7 DEF Write, WriteFails, PhaseInv, reading, encoding
<1>8. CASE Fails
  BY <1>8 DEF Fails, Fail, PhaseInv
<1>9. CASE UNCHANGED vars
  BY <1>9 DEF vars, PhaseInv
<1> QED
  BY <1>1, <1>2, <1>3, <1>4, <1>5, <1>6, <1>7, <1>8, <1>9, StepKinds

-----------------------------------------------------------------------------
(* The layout.                                                             *)

(* A statement of no bytes leaves the counter alone.                       *)
LEMMA AfterNothing ==
  ASSUME NEW at \in Words
  PROVE  After(at, 0) = at
<1>1. Word \in Nat \ {0} /\ at \in 0 .. Word - 1 /\ at + 0 = at
  BY WordFacts DEF Words
<1>2. at % Word = at
  BY <1>1, SmallRemainder
<1> QED
  BY <1>1, <1>2 DEF After

(* One more item, after all that are there.                                *)
LEMMA ItemsGrow ==
  ASSUME TypeInv, ItemsLaidOut, NEW s \in Statements, NEW at \in Words,
         at = EndOf(Len(items)), items' = Append(items, Item(s, at))
  PROVE  /\ ItemsLaidOut'
         /\ EndIn(items', Len(items')) = After(at, Size(s))
         /\ \A n \in 0 .. Len(items) : EndIn(items', n) = EndIn(items, n)
         /\ Len(items') = Len(items) + 1
<1> DEFINE l == Len(items)
           x == Item(s, at)
<1>1. /\ items' \in Seq(Items) /\ Len(items') = l + 1 /\ items'[l + 1] = x
      /\ \A i \in 1 .. l : items'[i] = items[i]
      /\ l \in Nat
  BY ItemAppended
<1>2. x.offset = at /\ x.size = Size(s) /\ x.statement = s
  BY DEF Item
<1> HIDE DEF x, l
<1>3. \A n \in 0 .. l : EndIn(items', n) = EndIn(items, n)
  BY <1>1 DEF EndIn
<1>4. EndIn(items', l + 1) = After(at, Size(s))
  BY <1>1, <1>2 DEF EndIn
<1>5. \A i \in 1 .. l : /\ items[i].offset = EndIn(items, i - 1)
                        /\ items[i].size = Size(items[i].statement)
  BY DEF ItemsLaidOut, EndOf, l
<1>6. at = EndIn(items, l)
  BY DEF EndOf, l
<1>7. \A i \in 1 .. l + 1 : /\ items'[i].offset = EndIn(items', i - 1)
                            /\ items'[i].size = Size(items'[i].statement)
  <2> TAKE i \in 1 .. l + 1
  <2>1. CASE i \in 1 .. l
    <3>1. i - 1 \in 0 .. l
      BY <1>1, <2>1
    <3> QED
      BY <1>1, <1>3, <1>5, <2>1, <3>1
  <2>2. CASE i = l + 1
    <3>1. i - 1 = l /\ l \in 0 .. l
      BY <1>1, <2>2
    <3> QED
      BY <1>1, <1>2, <1>3, <1>6, <2>2, <3>1
  <2> QED
    BY <1>1, <2>1, <2>2
<1>8. ItemsLaidOut'
  BY <1>1, <1>7 DEF ItemsLaidOut, EndOf
<1> QED
  BY <1>1, <1>3, <1>4, <1>8 DEF l

(* Labels stay where they are while items are added.                       *)
LEMMA LabelsStay ==
  ASSUME TypeInv, LabelsLaidOut, LabelsUnique, symbols' = symbols,
         Len(items') \in Nat, Len(items) <= Len(items'),
         \A n \in 0 .. Len(items) : EndIn(items', n) = EndIn(items, n)
  PROVE  LabelsLaidOut' /\ LabelsUnique'
<1>1. Len(items) \in Nat
  BY DEF TypeInv
<1>2. \A i \in 1 .. Len(symbols) :
        /\ symbols[i].before \in 0 .. Len(items)
        /\ symbols[i].address = EndIn(items, symbols[i].before)
  BY DEF LabelsLaidOut, EndOf
<1>3. \A i \in 1 .. Len(symbols) :
        /\ symbols[i].before \in 0 .. Len(items')
        /\ symbols[i].address = EndIn(items', symbols[i].before)
  BY <1>1, <1>2
<1> QED
  BY <1>3 DEF LabelsLaidOut, LabelsUnique, EndOf

(* A label at the end of what is laid out.                                 *)
LEMMA LabelAdded ==
  ASSUME TypeInv, LabelsLaidOut, LabelsUnique, NEW name \in Names, ~Known(name),
         NEW at \in Words, at = EndOf(Len(items)),
         symbols' = Append(symbols, Symbol(name, at)),
         Len(items') \in Nat, Len(items) <= Len(items'),
         \A n \in 0 .. Len(items) : EndIn(items', n) = EndIn(items, n)
  PROVE  LabelsLaidOut' /\ LabelsUnique'
<1> DEFINE l == Len(symbols)
           x == Symbol(name, at)
<1>1. /\ Len(symbols') = l + 1 /\ symbols'[l + 1] = x /\ l \in Nat
      /\ \A i \in 1 .. l : symbols'[i] = symbols[i]
  BY LabelTyped
<1>2. x.name = name /\ x.address = at /\ x.before = Len(items)
  BY DEF Symbol
<1>3. Len(items) \in Nat
  BY DEF TypeInv
<1>4. DOMAIN symbols = 1 .. l
  BY DEF TypeInv
<1>5. \A i \in 1 .. l : symbols[i].name # name
  BY <1>4 DEF Known
<1> HIDE DEF x, l
<1>6. \A i \in 1 .. l :
        /\ symbols[i].before \in 0 .. Len(items)
        /\ symbols[i].address = EndIn(items, symbols[i].before)
  BY DEF LabelsLaidOut, EndOf, l
<1>7. \A i, j \in 1 .. l : symbols[i].name = symbols[j].name => i = j
  BY DEF LabelsUnique, l
<1>8. Len(items) \in 0 .. Len(items) /\ at = EndIn(items', Len(items))
  BY <1>3 DEF EndOf
<1>9. \A i \in 1 .. l + 1 :
        /\ symbols'[i].before \in 0 .. Len(items')
        /\ symbols'[i].address = EndIn(items', symbols'[i].before)
  <2> TAKE i \in 1 .. l + 1
  <2>1. CASE i \in 1 .. l
    BY <1>1, <1>3, <1>6, <2>1
  <2>2. CASE i = l + 1
    BY <1>1, <1>2, <1>3, <1>8, <2>2
  <2> QED
    BY <1>1, <2>1, <2>2
<1>10. \A i, j \in 1 .. l + 1 : symbols'[i].name = symbols'[j].name => i = j
  <2> TAKE i, j \in 1 .. l + 1
  <2>1. CASE i \in 1 .. l /\ j \in 1 .. l
    BY <1>1, <1>7, <2>1
  <2>2. CASE i = l + 1 /\ j = l + 1
    BY <2>2
  <2>3. CASE i \in 1 .. l /\ j = l + 1
    BY <1>1, <1>2, <1>5, <2>3
  <2>4. CASE i = l + 1 /\ j \in 1 .. l
    BY <1>1, <1>2, <1>5, <2>4
  <2>5. (i \in 1 .. l \/ i = l + 1) /\ (j \in 1 .. l \/ j = l + 1)
    BY <1>1
  <2> QED
    BY <2>1, <2>2, <2>3, <2>4, <2>5
<1> QED
  BY <1>1, <1>9, <1>10 DEF LabelsLaidOut, LabelsUnique, EndOf

(* Nothing is laid out at the start.                                       *)
LEMMA InitLaidOut == Init => LayoutInv
<1> SUFFICES ASSUME Init
             PROVE  LayoutInv
  OBVIOUS
<1>1. items = << >> /\ symbols = << >> /\ frames = <<Frame(Root, 1, 0)>>
  BY DEF Init
<1>2. Len(items) = 0 /\ Len(symbols) = 0 /\ Len(frames) = 1
  BY <1>1
<1>3. frames # << >> /\ local_pc = 0
  BY <1>1, <1>2 DEF local_pc, Top, Frame
<1>4. Counter = EndOf(Len(items))
  BY <1>2, <1>3 DEF Counter, EndOf, EndIn
<1> QED
  BY <1>2, <1>4 DEF LayoutInv, ItemsLaidOut, LabelsLaidOut, LabelsUnique

(* The counter after a statement.                                          *)
LEMMA CounterStepped ==
  ASSUME TypeInv, InFile, NEW n \in Nat, frames' = Stepped(n)
  PROVE  Counter' = After(local_pc, n) /\ Counter = local_pc
<1>1. /\ Stepped(n)[Len(frames)].at = After(local_pc, n)
      /\ Len(Stepped(n)) = Len(frames) /\ Stepped(n) # << >>
  BY SteppedFacts
<1> DEFINE g == Stepped(n)
           a == After(local_pc, n)
<1>2. g[Len(g)].at = a /\ g # << >> /\ frames' = g
  BY <1>1
<1> HIDE DEF g, a
<1>3. Counter' = a
  BY <1>2 DEF Counter, local_pc, Top
<1>4. Counter = local_pc
  BY DEF Counter, InFile
<1> QED
  BY <1>3, <1>4 DEF a

(* Every kind of step keeps the layout.                                    *)
LEMMA EmitsLaidOut == TypeInv /\ LayoutInv /\ Emits => LayoutInv'
<1> SUFFICES ASSUME TypeInv, LayoutInv, Emits
             PROVE  LayoutInv'
  OBVIOUS
<1>1. InFile /\ symbols' = symbols
  BY DEF Emits
<1>2. local_pc \in Words /\ Counter = local_pc
  BY <1>1, TopFacts DEF InFile, Counter
<1>3. /\ local_pc = EndOf(Len(items)) /\ ItemsLaidOut /\ LabelsLaidOut
      /\ LabelsUnique
  BY <1>2 DEF LayoutInv
<1>4. Len(items) \in Nat
  BY DEF TypeInv
<1>5. ASSUME NEW s \in Statements, Emit(s)
      PROVE  LayoutInv'
  <2>1. Size(s) \in Nat
    BY <1>2, ItemIsTyped
  <2>2. items' = Append(items, Item(s, local_pc)) /\ frames' = Stepped(Size(s))
    BY <1>5 DEF Emit
  <2>3. /\ ItemsLaidOut'
        /\ EndIn(items', Len(items')) = After(local_pc, Size(s))
        /\ \A n \in 0 .. Len(items) : EndIn(items', n) = EndIn(items, n)
        /\ Len(items') = Len(items) + 1
    BY <1>2, <1>3, <2>2, ItemsGrow
  <2>4. Len(items') \in Nat /\ Len(items) <= Len(items')
    BY <1>4, <2>3
  <2>5. LabelsLaidOut' /\ LabelsUnique'
    BY <1>1, <1>3, <2>3, <2>4, LabelsStay
  <2>6. Counter' = After(local_pc, Size(s))
    BY <1>1, <2>1, <2>2, CounterStepped
  <2>7. Counter' = EndOf(Len(items))'
    BY <2>3, <2>6 DEF EndOf
  <2> QED
    BY <2>3, <2>5, <2>7 DEF LayoutInv
<1>6. ASSUME frames' = Stepped(0), items' = items
      PROVE  LayoutInv'
  <2>1. Counter' = After(local_pc, 0)
    <3>1. 0 \in Nat
      OBVIOUS
    <3> QED
      BY <1>1, <1>6, <3>1, CounterStepped
  <2>2. Counter' = local_pc
    BY <1>2, <2>1, AfterNothing
  <2>3. Counter' = EndOf(Len(items))'
    BY <1>3, <1>6, <2>2 DEF EndOf
  <2> QED
    BY <1>1, <1>3, <1>6, <2>3
       DEF LayoutInv, ItemsLaidOut, LabelsLaidOut, LabelsUnique, EndOf
<1> QED
  BY <1>5, <1>6 DEF Emits

(* The counter moves to where it was: a statement without bytes.           *)
LEMMA CounterKept ==
  ASSUME TypeInv, LayoutInv, InFile, frames' = Stepped(0), items' = items
  PROVE  /\ Counter' = EndOf(Len(items))'
         /\ local_pc = EndOf(Len(items)) /\ local_pc \in Words
<1>1. local_pc \in Words /\ Counter = local_pc
  BY TopFacts DEF InFile, Counter
<1>2. local_pc = EndOf(Len(items))
  BY <1>1 DEF LayoutInv
<1>3. Counter' = After(local_pc, 0)
  <2>1. 0 \in Nat
    OBVIOUS
  <2> QED
    BY <2>1, CounterStepped
<1>4. Counter' = local_pc
  BY <1>1, <1>3, AfterNothing
<1> QED
  BY <1>1, <1>2, <1>4 DEF EndOf

LEMMA MovesLaidOut == TypeInv /\ LayoutInv /\ Moves => LayoutInv'
<1> SUFFICES ASSUME TypeInv, LayoutInv, Moves
             PROVE  LayoutInv'
  OBVIOUS
<1>1. InFile /\ frames' = Stepped(0) /\ items' = items /\ symbols' = symbols
  BY DEF Moves
<1>2. Counter' = EndOf(Len(items))'
  BY <1>1, CounterKept
<1> QED
  BY <1>1, <1>2 DEF LayoutInv, ItemsLaidOut, LabelsLaidOut, LabelsUnique, EndOf

LEMMA LabelLaidOut == TypeInv /\ LayoutInv /\ Label => LayoutInv'
<1> SUFFICES ASSUME TypeInv, LayoutInv, Label
             PROVE  LayoutInv'
  OBVIOUS
<1>1. /\ InFile /\ Here.op = "label" /\ frames' = Stepped(0) /\ items' = items
      /\ ~Known(Here.name)
      /\ symbols' = Append(symbols, Symbol(Here.name, local_pc))
  BY DEF Label
<1>2. /\ Counter' = EndOf(Len(items))'
      /\ local_pc = EndOf(Len(items)) /\ local_pc \in Words
  BY <1>1, CounterKept
<1>3. Here.name \in Names
  BY <1>1, HereFacts DEF IsStatement, Names
<1>4. ItemsLaidOut /\ LabelsLaidOut /\ LabelsUnique
  BY DEF LayoutInv
<1>5. Len(items') \in Nat /\ Len(items) <= Len(items')
  BY <1>1 DEF TypeInv
<1>6. \A n \in 0 .. Len(items) : EndIn(items', n) = EndIn(items, n)
  BY <1>1
<1>7. LabelsLaidOut' /\ LabelsUnique'
  BY <1>1, <1>2, <1>3, <1>4, <1>5, <1>6, LabelAdded
<1>8. ItemsLaidOut'
  BY <1>1, <1>4 DEF ItemsLaidOut, EndOf
<1> QED
  BY <1>2, <1>7, <1>8 DEF LayoutInv

LEMMA IncludeLaidOut == TypeInv /\ LayoutInv /\ Include => LayoutInv'
<1> SUFFICES ASSUME TypeInv, LayoutInv, Include
             PROVE  LayoutInv'
  OBVIOUS
<1> DEFINE g == Stepped(0)
           f == Frame(Here.file, 1, local_pc)
<1>1. /\ InFile /\ frames' = Append(g, f) /\ items' = items /\ symbols' = symbols
      /\ Here.file \in DOMAIN program
  BY DEF Include
<1>2. 0 \in Nat /\ local_pc \in Words /\ Counter = local_pc
  BY <1>1, TopFacts DEF InFile, Counter
<1>3. g \in Seq(Frames) /\ f \in Frames /\ f.at = local_pc
  <2>1. g \in Seq(Frames)
    BY <1>1, <1>2, SteppedFacts
  <2>2. f.file = Here.file /\ f.line = 1 /\ f.at = local_pc /\ f \in Frames
    BY <1>1, <1>2 DEF Frame, Frames
  <2> QED
    BY <2>1, <2>2
<1> HIDE DEF g, f
<1>4. frames' # << >> /\ frames'[Len(frames')] = f
  BY <1>1, <1>3
<1>5. Counter' = f.at
  BY <1>4 DEF Counter, local_pc, Top
<1>6. Counter' = Counter
  BY <1>2, <1>3, <1>5
<1> QED
  BY <1>1, <1>6 DEF LayoutInv, ItemsLaidOut, LabelsLaidOut, LabelsUnique, EndOf

LEMMA EndOfFileLaidOut == TypeInv /\ LayoutInv /\ EndOfFile => LayoutInv'
<1> SUFFICES ASSUME TypeInv, LayoutInv, EndOfFile
             PROVE  LayoutInv'
  OBVIOUS
<1> DEFINE g == Resumed(SubSeq(frames, 1, Len(frames) - 1), local_pc)
<1>1. /\ frames # << >> /\ shared' = local_pc /\ frames' = g
      /\ items' = items /\ symbols' = symbols
  BY DEF EndOfFile
<1>2. g # << >> => g[Len(g)].at = local_pc
  BY <1>1, ResumedFacts
<1> HIDE DEF g
<1> DEFINE a == local_pc
<1>3. shared' = a /\ (g # << >> => g[Len(g)].at = a) /\ Counter = a
  BY <1>1, <1>2 DEF Counter
<1> HIDE DEF a
<1>4. Counter' = a
  BY <1>1, <1>3 DEF Counter, local_pc, Top
<1>5. Counter' = Counter
  BY <1>3, <1>4
<1> QED
  BY <1>1, <1>5 DEF LayoutInv, ItemsLaidOut, LabelsLaidOut, LabelsUnique, EndOf

LEMMA PlaceLiteralLaidOut ==
  TypeInv /\ PhaseInv /\ LayoutInv /\ PlaceLiteral => LayoutInv'
<1> SUFFICES ASSUME TypeInv, PhaseInv, LayoutInv, PlaceLiteral
             PROVE  LayoutInv'
  OBVIOUS
<1> DEFINE h == Head(literals)
<1>1. /\ pc = "literals" /\ literals # << >> /\ ~Known(h.label)
      /\ symbols' = Append(symbols, Symbol(h.label, shared))
      /\ items' = Append(items, Item(Bytes(h.size), shared))
      /\ shared' = After(shared, h.size) /\ frames' = frames
  BY DEF PlaceLiteral
<1>2. frames = << >> /\ literals \in Seq(Literals) /\ shared \in Words
  BY <1>1, TypeFacts DEF PhaseInv
<1>3. h \in Literals
  BY <1>1, <1>2
<1> HIDE DEF h
<1>4. h.label \in Names /\ h.size \in Nat
  BY <1>3 DEF Literals
<1>5. /\ shared = EndOf(Len(items)) /\ ItemsLaidOut /\ LabelsLaidOut
      /\ LabelsUnique
  BY <1>2 DEF LayoutInv, Counter
<1>6. Bytes(h.size) \in Statements /\ Size(Bytes(h.size)) = h.size
  BY <1>4, BytesIsItem DEF Size, Bytes
<1>7. /\ ItemsLaidOut'
      /\ EndIn(items', Len(items')) = After(shared, h.size)
      /\ \A n \in 0 .. Len(items) : EndIn(items', n) = EndIn(items, n)
      /\ Len(items') = Len(items) + 1
  <2> DEFINE s == Bytes(h.size)
  <2>1. s \in Statements /\ Size(s) = h.size /\ items' = Append(items, Item(s, shared))
    BY <1>1, <1>6
  <2> HIDE DEF s
  <2> QED
    BY <1>2, <1>5, <2>1, ItemsGrow
<1>8. Len(items') \in Nat /\ Len(items) <= Len(items')
  BY <1>7 DEF TypeInv
<1>9. LabelsLaidOut' /\ LabelsUnique'
  BY <1>1, <1>2, <1>4, <1>5, <1>7, <1>8, LabelAdded
<1>10. Counter' = EndOf(Len(items))'
  BY <1>1, <1>2, <1>7 DEF Counter, EndOf
<1> QED
  BY <1>7, <1>9, <1>10 DEF LayoutInv

(* A step that touches no items, labels or counter.                        *)
LEMMA LayoutKept ==
  ASSUME LayoutInv, UNCHANGED <<frames, shared, items, symbols>>
  PROVE  LayoutInv'
<1>1. Counter' = Counter
  BY DEF Counter, local_pc, Top
<1> QED
  BY <1>1 DEF LayoutInv, ItemsLaidOut, LabelsLaidOut, LabelsUnique, EndOf

(* LayoutInv is inductive.                                                 *)
LEMMA LayoutPreserved ==
  TypeInv /\ PhaseInv /\ LayoutInv /\ [Next]_vars => LayoutInv'
<1> SUFFICES ASSUME TypeInv, PhaseInv, LayoutInv, [Next]_vars
             PROVE  LayoutInv'
  OBVIOUS
<1>1. CASE \/ EndReading \/ EndLiterals \/ EncodeItem \/ EndEncode \/ Write
           \/ WriteFails \/ Fails \/ UNCHANGED vars
  <2>1. UNCHANGED <<frames, shared, items, symbols>>
    BY <1>1 DEF EndReading, EndLiterals, EncodeItem, EndEncode, Write, WriteFails,
                Fails, Fail, vars, reading
  <2> QED
    BY <2>1, LayoutKept
<1> QED
  BY <1>1, StepKinds, EmitsLaidOut, MovesLaidOut, LabelLaidOut, IncludeLaidOut,
     EndOfFileLaidOut, PlaceLiteralLaidOut

-----------------------------------------------------------------------------
(* The output follows the layout.                                          *)

(* One more item in the output.                                            *)
LEMMA PlacedGrows ==
  ASSUME TypeInv, placed' = Append(placed, length)
  PROVE  /\ Len(placed') = Len(placed) + 1 /\ placed'[Len(placed) + 1] = length
         /\ \A i \in 1 .. Len(placed) : placed'[i] = placed[i]
         /\ Len(placed) \in Nat /\ length \in Nat
         /\ DOMAIN placed = 1 .. Len(placed) /\ DOMAIN placed' = 1 .. Len(placed')
<1>1. placed \in Seq(Nat) /\ length \in Nat
  BY DEF TypeInv
<1> QED
  BY <1>1

(* Before the second pass there is no output.                              *)
LEMMA NothingPlaced ==
  ASSUME placed' = << >>, length' = 0, Len(items') \in Nat
  PROVE  EncodeInv'
<1>1. Len(placed') = 0 /\ DOMAIN placed' = {}
  OBVIOUS
<1>2. Word \in Nat \ {0} /\ 0 % Word = 0
  <2>1. Word \in Nat \ {0}
    BY WordFacts
  <2>2. 0 \in 0 .. Word - 1
    BY <2>1
  <2> QED
    BY <2>1, <2>2, SmallRemainder
<1>3. EndOf(Len(placed))' = 0 /\ StartOf(1)' = 0
  BY <1>1 DEF EndOf, EndIn, StartOf
<1> QED
  BY <1>1, <1>2, <1>3 DEF EncodeInv

(* A step that writes nothing.                                             *)
LEMMA EncodeKept ==
  ASSUME EncodeInv, UNCHANGED <<placed, length, items>>
  PROVE  EncodeInv'
BY DEF EncodeInv, EndOf, StartOf, ItemEnd

(* The next item starts where it was laid out, since the output has the    *)
(* bytes that were counted.                                                *)
LEMMA ItemEncoded == TypeInv /\ LayoutInv /\ EncodeInv /\ EncodeItem => EncodeInv'
<1> SUFFICES ASSUME TypeInv, LayoutInv, EncodeInv, EncodeItem
             PROVE  EncodeInv'
  OBVIOUS
<1> DEFINE l == Len(placed)
           b == BytesWritten(Current.statement)
<1>1. /\ l < Len(items) /\ items' = items
      /\ placed' = Append(placed, length) /\ length' = length + b
  BY DEF EncodeItem
<1>2. /\ Len(placed') = l + 1 /\ placed'[l + 1] = length
      /\ \A i \in 1 .. l : placed'[i] = placed[i]
      /\ l \in Nat /\ length \in Nat
      /\ DOMAIN placed = 1 .. l /\ DOMAIN placed' = 1 .. l + 1
  BY <1>1, PlacedGrows
<1>3. /\ Current \in Items /\ b = Size(Current.statement) /\ b \in Nat
      /\ l + 1 \in 1 .. Len(items)
  BY <1>1, CurrentIsTyped
<1>4. Current = items[l + 1]
  BY DEF Current
<1>5. /\ items[l + 1].offset = EndOf(l) /\ items[l + 1].size = b
  <2>1. items[l + 1].offset = EndOf((l + 1) - 1)
        /\ items[l + 1].size = Size(items[l + 1].statement)
    BY <1>3 DEF LayoutInv, ItemsLaidOut
  <2>2. (l + 1) - 1 = l
    BY <1>2
  <2> QED
    BY <1>3, <1>4, <2>1, <2>2
<1>6. /\ l <= Len(items) /\ StartOf(1) = 0
      /\ \A i \in 1 .. l : StartOf(i + 1) = ItemEnd(i)
      /\ \A i \in 1 .. l : placed[i] % Word = items[i].offset
      /\ length % Word = EndOf(l)
  BY <1>2 DEF EncodeInv
<1>7. Len(items) \in Nat
  BY DEF TypeInv
<1>8. (length + b) % Word = EndOf(l + 1)
  <2>1. Word \in Nat \ {0} /\ length \in Int /\ b \in Int
    BY <1>2, <1>3, WordFacts
  <2>2. ((length % Word) + b) % Word = (length + b) % Word
    BY <2>1, RemainderOfSum
  <2>3. l + 1 # 0
    BY <1>2
  <2>4. EndOf(l + 1) = (EndOf(l) + b) % Word
    BY <1>5, <2>3 DEF EndOf, EndIn, After
  <2> QED
    BY <1>6, <2>2, <2>4
<1> HIDE DEF l, b
<1>9. \A i \in 1 .. l + 1 : IF i <= l THEN placed'[i] = StartOf(i)
                            ELSE placed'[i] = length /\ StartOf(i) = length
  <2> TAKE i \in 1 .. l + 1
  <2>1. CASE i <= l
    BY <1>2, <2>1 DEF StartOf, l
  <2>2. CASE ~(i <= l)
    <3>1. i = l + 1
      BY <1>2, <2>2
    <3>2. StartOf(i) = length
      BY <2>2 DEF StartOf, l
    <3> QED
      BY <1>2, <2>2, <3>1, <3>2
  <2> QED
    BY <2>1, <2>2
<1>10. \A i \in 1 .. l + 1 : StartOf(i)' = StartOf(i)
  BY <1>2, <1>9 DEF StartOf
<1>11. 1 \in 1 .. l + 1
  BY <1>2
<1>12. StartOf(1)' = 0
  BY <1>6, <1>10, <1>11
<1>13. \A i \in 1 .. l + 1 : StartOf(i + 1)' = ItemEnd(i)'
  <2> TAKE i \in 1 .. l + 1
  <2>1. CASE i \in 1 .. l
    <3>1. StartOf(i + 1)' = StartOf(i + 1)
      <4>1. i + 1 \in 1 .. l + 1 /\ i + 1 <= l + 1
        BY <1>2, <2>1
      <4>2. StartOf(i + 1)' = placed'[i + 1]
        BY <1>2, <4>1 DEF StartOf
      <4>3. placed'[i + 1] = StartOf(i + 1)
        BY <1>9, <4>1
      <4> QED
        BY <4>2, <4>3
    <3>2. ItemEnd(i)' = ItemEnd(i)
      BY <1>1, <1>2, <2>1 DEF ItemEnd
    <3> QED
      BY <1>6, <2>1, <3>1, <3>2
  <2>2. CASE i = l + 1
    <3>1. ~(i + 1 <= Len(placed'))
      BY <1>2, <2>2
    <3>2. StartOf(i + 1)' = length'
      BY <3>1 DEF StartOf
    <3>3. ItemEnd(i)' = length + b
      BY <1>1, <1>2, <1>4, <2>2 DEF ItemEnd, b
    <3> QED
      BY <1>1, <3>2, <3>3 DEF b
  <2> QED
    BY <1>2, <2>1, <2>2
<1>14. \A i \in 1 .. l + 1 : placed'[i] % Word = items'[i].offset
  <2> TAKE i \in 1 .. l + 1
  <2>1. CASE i \in 1 .. l
    BY <1>1, <1>2, <1>6, <2>1
  <2>2. CASE i = l + 1
    BY <1>1, <1>2, <1>5, <1>6, <2>2
  <2> QED
    BY <1>2, <2>1, <2>2
<1>15. length' % Word = EndOf(Len(placed))'
  BY <1>1, <1>2, <1>8 DEF EndOf, b
<1>16. Len(placed') <= Len(items')
  BY <1>1, <1>2, <1>7 DEF l
<1> QED
  BY <1>2, <1>12, <1>13, <1>14, <1>15, <1>16 DEF EncodeInv

(* Steps of the first two phases and steps that encode nothing.            *)
LEMMA EarlyOrQuiet ==
  ASSUME TypeInv, PhaseInv, [Next]_vars, ~EncodeItem
  PROVE  \/ pc' \in {"read", "literals"}
         \/ UNCHANGED <<source, items, symbols, origin, encoding>>
<1>1. CASE Emits \/ Moves \/ Label \/ Include \/ EndOfFile \/ EndReading \/ PlaceLiteral
  BY <1>1 DEF Emits, Moves, Label, Include, EndOfFile, InFile, EndReading, PlaceLiteral
<1>2. CASE EndLiterals \/ EndEncode \/ Write \/ WriteFails \/ Fails \/ UNCHANGED vars
  BY <1>2 DEF EndLiterals, EndEncode, Write, WriteFails, Fails, Fail, vars, reading,
              source, encoding
<1> QED
  BY <1>1, <1>2, StepKinds

(* EncodeInv is inductive.                                                 *)
LEMMA EncodePreserved ==
  TypeInv /\ PhaseInv /\ LayoutInv /\ EncodeInv /\ [Next]_vars => EncodeInv'
<1> SUFFICES ASSUME TypeInv, PhaseInv, LayoutInv, EncodeInv, [Next]_vars
             PROVE  EncodeInv'
  OBVIOUS
<1>1. CASE EncodeItem
  BY <1>1, ItemEncoded
<1>2. CASE pc' \in {"read", "literals"}
  <2>1. placed' = << >> /\ length' = 0
    BY <1>2, PhasePreserved DEF PhaseInv
  <2>2. Len(items') \in Nat
    BY TypePreserved DEF TypeInv
  <2> QED
    BY <2>1, <2>2, NothingPlaced
<1>3. CASE UNCHANGED <<source, items, symbols, origin, encoding>>
  BY <1>3, EncodeKept DEF encoding
<1> QED
  BY <1>1, <1>2, <1>3, EarlyOrQuiet

-----------------------------------------------------------------------------
(* Signed numbers of some width, and displacements.                        *)

(* A signed word is the word, turns of a word aside.                       *)
LEMMA SignedTurns ==
  ASSUME NEW B \in Nat \ {0}, NEW v \in Int
  PROVE  \E k \in Int : SignedIn(v, B) = v + B * k
<1>1. CASE v < B \div 2
  <2>1. SignedIn(v, B) = v /\ 0 \in Int /\ v = v + B * 0
    BY <1>1 DEF SignedIn
  <2> QED
    BY <2>1
<1>2. CASE ~(v < B \div 2)
  <2>1. SignedIn(v, B) = v - B /\ -1 \in Int /\ v - B = v + B * (-1)
    BY <1>2 DEF SignedIn
  <2> QED
    BY <2>1
<1> QED
  BY <1>1, <1>2

(* What fits is read back.                                                 *)
LEMMA SignedBack ==
  ASSUME NEW H \in Nat \ {0}, NEW v \in Int, 0 - H <= v, v < H
  PROVE  SignedIn(v % (2 * H), 2 * H) = v
<1> DEFINE B == 2 * H
           u == v % B
<1>1. B \in Nat \ {0} /\ B \div 2 = H
  OBVIOUS
<1> HIDE DEF B
<1>2. CASE 0 <= v
  <2>1. v \in 0 .. B - 1
    BY <1>2 DEF B
  <2>2. u = v
    BY <1>1, <2>1, SmallRemainder
  <2> HIDE DEF u
  <2>3. SignedIn(u, B) = v
    BY <1>1, <2>2 DEF SignedIn
  <2> QED
    BY <2>3 DEF u, B
<1>3. CASE v < 0
  <2> DEFINE r == v + B
  <2>1. r \in 0 .. B - 1 /\ v = B * (-1) + r /\ -1 \in Int /\ ~(r < H)
    BY <1>1, <1>3 DEF B
  <2> HIDE DEF r
  <2>2. (B * (-1) + r) % B = r
    BY <1>1, <2>1, RemainderIsUnique
  <2>3. u = r
    BY <2>1, <2>2
  <2> HIDE DEF u
  <2>4. SignedIn(u, B) = r - B
    BY <1>1, <2>1, <2>3 DEF SignedIn
  <2>5. r - B = v
    BY <1>1 DEF r
  <2>6. SignedIn(u, B) = v
    BY <2>4, <2>5
  <2> QED
    BY <2>6 DEF u, B
<1> QED
  BY <1>2, <1>3

(* A displacement from the end of an item leads to the label, whatever the *)
(* signs of the two.                                                       *)
LEMMA DisplacementLeads ==
  ASSUME NEW W \in Nat \ {0}, NEW a \in Int, NEW n \in Int, NEW e \in Int,
         e % W = n % W
  PROVE  ((e + (SignedIn(a, W) - SignedIn(n, W))) - a) % W = 0
<1>1. PICK j \in Int : SignedIn(a, W) = a + W * j
  BY SignedTurns
<1>2. PICK k \in Int : SignedIn(n, W) = n + W * k
  BY SignedTurns
<1> DEFINE d == e - n
           q == j - k
<1>3. d % W = 0
  BY SameRemainder
<1>4. d \in Int /\ q \in Int /\ W * j \in Int /\ W * k \in Int
  OBVIOUS
<1>5. W * q = W * j - W * k
  OBVIOUS
<1>6. (e + ((a + W * j) - (n + W * k))) - a = d + (W * j - W * k)
  BY <1>4
<1>7. (e + (SignedIn(a, W) - SignedIn(n, W))) - a = d + W * q
  BY <1>1, <1>2, <1>5, <1>6
<1> HIDE DEF d, q
<1>8. (d + W * q) % W = d % W
  BY <1>4, MultiplesVanish
<1> QED
  BY <1>3, <1>7, <1>8

(* An addend takes the place of the field away.                            *)
LEMMA AddendCancels ==
  ASSUME NEW W \in Nat \ {0}, NEW n \in 0 .. W - 1, NEW x \in Int, NEW w \in Int,
         (x + w) % W = n
  PROVE  (SignedIn((W - n) % W, W) + (x % W) + w) % W = 0
<1> DEFINE m == W - n
           c == m % W
           p == m \div W
           r == x % W
           q == x \div W
<1>1. m \in Int /\ n \in Int
  OBVIOUS
<1>2. c \in Int /\ p \in Int /\ m = W * p + c
  <2> HIDE DEF m
  <2>1. m % W \in 0 .. W - 1 /\ m \div W \in Int /\ m = W * (m \div W) + (m % W)
    BY <1>1, IntDivision
  <2> QED
    BY <2>1
<1>3. r \in Int /\ q \in Int /\ x = W * q + r
  <2>1. x % W \in 0 .. W - 1 /\ x \div W \in Int /\ x = W * (x \div W) + (x % W)
    BY IntDivision
  <2> QED
    BY <2>1
<1>4. PICK k \in Int : SignedIn(c, W) = c + W * k
  <2> HIDE DEF c
  <2> QED
    BY <1>2, SignedTurns
<1> HIDE DEF c, p, r, q
<1> DEFINE d == (x + w) - n
           t == ((1 - p) + k) - q
<1>5. d % W = 0
  <2>1. n % W = n
    BY SmallRemainder
  <2>2. x + w \in Int /\ (x + w) % W = n % W
    BY <2>1
  <2> DEFINE s == x + w
  <2> HIDE DEF s
  <2>3. s \in Int /\ s % W = n % W
    BY <2>2 DEF s
  <2>4. (s - n) % W = 0
    BY <1>1, <2>3, SameRemainder
  <2> QED
    BY <2>4 DEF s
<1>6. d \in Int /\ t \in Int
  BY <1>1, <1>2, <1>3
<1>7. W * t = ((W - W * p) + W * k) - W * q
  <2>1. W * t = W * (1 - p) + W * k - W * q
    BY <1>2, <1>3
  <2>2. W * (1 - p) = W - W * p
    BY <1>2
  <2>3. W * p \in Int /\ W * k \in Int /\ W * q \in Int
    BY <1>2, <1>3
  <2> HIDE DEF t
  <2> QED
    BY <2>1, <2>2, <2>3
<1>8. W * p \in Int /\ W * k \in Int /\ W * q \in Int
  BY <1>2, <1>3
<1>9. c = (W - n) - W * p /\ r = x - W * q
  BY <1>1, <1>2, <1>3, <1>8
<1>10. (c + W * k) + r + w = d + W * t
  <2>1. (c + W * k) + r + w = ((((W - n) - W * p) + W * k) + (x - W * q)) + w
    BY <1>9
  <2>2. d + W * t = d + (((W - W * p) + W * k) - W * q)
    BY <1>7
  <2>3. ((((W - n) - W * p) + W * k) + (x - W * q)) + w
        = d + (((W - W * p) + W * k) - W * q)
    BY <1>1, <1>8
  <2> QED
    BY <2>1, <2>2, <2>3
<1> HIDE DEF d, t
<1>11. (d + W * t) % W = d % W
  BY <1>6, MultiplesVanish
<1>12. (SignedIn(c, W) + r + w) % W = 0
  BY <1>4, <1>5, <1>10, <1>11
<1> QED
  BY <1>12 DEF c, r, m

-----------------------------------------------------------------------------
(* Fields.                                                                 *)

(* A field's span is twice its half.                                       *)
LEMMA HalfOfSpan ==
  ASSUME NEW w \in Widths
  PROVE  /\ 2 ^ (Bits(w) - 1) \in Nat \ {0}
         /\ 2 ^ Bits(w) = 2 * 2 ^ (Bits(w) - 1)
<1> DEFINE n == Bits(w) - 1
<1>1. n \in Nat /\ n + 1 = Bits(w)
  <2>1. Bits(w) \in Nat \ {0}
    BY WordFacts
  <2> HIDE DEF Bits
  <2> QED
    BY <2>1
<1> HIDE DEF n, Bits
<1>2. 2 ^ n \in Nat \ {0} /\ 2 ^ (n + 1) = 2 * 2 ^ n
  BY <1>1, PowerIsNat, PowerDoubles
<1> QED
  BY <1>1, <1>2 DEF n

(* The end of the item that is encoded.                                    *)
LEMMA CurrentEnds ==
  ASSUME TypeInv, LayoutInv, EncodeInv, EncodeItem,
         NEW b, b = BytesWritten(Current.statement)
  PROVE  /\ b \in Nat /\ length \in Nat
         /\ (length + b) % Word = next_ip(Current)
         /\ \A i : i = Len(placed) + 1 => ItemEnd(i)' = length + b
         /\ \A i \in DOMAIN placed : ItemEnd(i)' = ItemEnd(i)
<1> DEFINE l == Len(placed)
<1>1. /\ l < Len(items) /\ items' = items
      /\ placed' = Append(placed, length)
  BY DEF EncodeItem
<1>2. /\ placed'[l + 1] = length /\ l \in Nat /\ length \in Nat
      /\ DOMAIN placed = 1 .. l
      /\ \A i \in 1 .. l : placed'[i] = placed[i]
  BY <1>1, PlacedGrows
<1>3. b = Size(Current.statement) /\ b \in Nat /\ l + 1 \in 1 .. Len(items)
  BY <1>1, CurrentIsTyped
<1>4. Current = items[l + 1]
  BY DEF Current
<1>5. items[l + 1].offset = EndOf(l) /\ items[l + 1].size = b
  <2>1. items[l + 1].offset = EndOf((l + 1) - 1)
        /\ items[l + 1].size = Size(items[l + 1].statement)
    BY <1>3 DEF LayoutInv, ItemsLaidOut
  <2>2. (l + 1) - 1 = l
    BY <1>2
  <2> QED
    BY <1>3, <1>4, <2>1, <2>2
<1>6. length % Word = EndOf(l)
  BY DEF EncodeInv
<1>7. (length + b) % Word = next_ip(Current)
  <2>1. Word \in Nat \ {0} /\ length \in Int /\ b \in Int
    BY <1>2, <1>3, WordFacts
  <2>2. ((length % Word) + b) % Word = (length + b) % Word
    BY <2>1, RemainderOfSum
  <2>3. next_ip(Current) = (EndOf(l) + b) % Word
    BY <1>4, <1>5 DEF next_ip, After
  <2> QED
    BY <1>6, <2>2, <2>3
<1>8. \A i : i = l + 1 => ItemEnd(i)' = length + b
  BY <1>1, <1>2, <1>4 DEF ItemEnd
<1>9. \A i \in 1 .. l : ItemEnd(i)' = ItemEnd(i)
  BY <1>1, <1>2 DEF ItemEnd
<1> QED
  BY <1>2, <1>3, <1>7, <1>8, <1>9

(* A relative field leads from the end of its item to the label.           *)
LEMMA RelativeLeads ==
  ASSUME TypeInv, NEW item \in Items, NEW r \in Refs, r.rel, r.width \in {1, 4},
         Known(r.name), Encodable(r, item), NEW e \in Int, e % Word = next_ip(item)
  PROVE  ((e + SignedIn(FieldValue(r, item), 2 ^ Bits(r.width)))
          - AddressOf(r.name)) % Word = 0
<1> DEFINE a == AddressOf(r.name)
           n == next_ip(item)
           d == Displacement(r.name, item)
           w == r.width
           H == 2 ^ (Bits(w) - 1)
<1>1. w \in Widths /\ w # 8
  BY DEF Widths
<1>2. H \in Nat \ {0} /\ 2 ^ Bits(w) = 2 * H
  BY <1>1, HalfOfSpan
<1>3. Word \in Nat \ {0}
  BY WordFacts
<1>4. a \in Words /\ a \in Int
  BY <1>3, LabelFacts DEF Words
<1>5. n \in Words /\ n \in Int /\ d \in Int
  BY <1>4, DisplacementIsInt
<1>6. SignedFits(d, w)
  BY DEF Encodable
<1>7. 0 - H <= d /\ d < H
  <2>1. -H <= d /\ d < H
    BY <1>6 DEF SignedFits
  <2> HIDE DEF H, d
  <2> QED
    BY <1>2, <1>5, <2>1
<1>8. FieldValue(r, item) = d % (2 * H)
  BY <1>1, <1>2 DEF FieldValue, Truncated
<1>9. d = SignedIn(a, Word) - SignedIn(n, Word)
  BY DEF Displacement, Signed
<1> HIDE DEF a, n, d, w, H
<1>10. SignedIn(d % (2 * H), 2 * H) = d
  BY <1>2, <1>5, <1>7, SignedBack
<1>11. e % Word = n % Word
  <2>1. n % Word = n
    BY <1>3, <1>5, SmallRemainder DEF Words
  <2> QED
    BY <2>1 DEF n
<1>12. ((e + (SignedIn(a, Word) - SignedIn(n, Word))) - a) % Word = 0
  BY <1>3, <1>4, <1>5, <1>11, DisplacementLeads
<1>13. ((e + SignedIn(FieldValue(r, item), 2 ^ Bits(w))) - a) % Word = 0
  BY <1>2, <1>8, <1>9, <1>10, <1>12
<1> QED
  BY <1>13 DEF a, w

(* An absolute field of a flat binary holds the label's address there.     *)
LEMMA AbsoluteLeads ==
  ASSUME TypeInv, NEW item \in Items, NEW r \in Refs, ~r.rel, ~objectMode,
         Known(r.name), Encodable(r, item)
  PROVE  ((FieldValue(r, item) - origin.base) - AddressOf(r.name)) % Word = 0
<1> DEFINE a == AddressOf(r.name)
           v == ValueForMode(r.name)
           w == r.width
           B == 2 ^ Bits(w)
           o == origin.base
<1>1. w \in Widths /\ B \in Nat \ {0} /\ Word \in Nat \ {0}
  BY WordFacts DEF Refs
<1>2. a \in Words /\ o \in Words
  BY LabelFacts DEF TypeInv
<1>3. v \in Words
  BY <1>2, ValueIsInt
<1>4. a \in Int /\ o \in Int /\ v \in Nat
  BY <1>1, <1>2, <1>3 DEF Words
<1>5. v = (a + o) % Word
  BY DEF ValueForMode, After
<1>6. UnsignedFits(v, w)
  BY DEF Encodable
<1>7. FieldValue(r, item) = Truncated(v, w)
  BY DEF FieldValue
<1>8. w = 8 \/ v < B
  BY <1>6 DEF UnsignedFits
<1>9. Truncated(v, w) = v
  <2>1. Truncated(v, w) = IF w = 8 THEN v ELSE v % B
    BY DEF Truncated
  <2> HIDE DEF v, w, B
  <2>2. CASE w = 8
    BY <2>1, <2>2
  <2>3. CASE w # 8
    <3>1. v \in 0 .. B - 1
      BY <1>1, <1>4, <1>8, <2>3
    <3>2. v % B = v
      BY <1>1, <3>1, SmallRemainder
    <3> QED
      BY <2>1, <2>3, <3>2
  <2> QED
    BY <2>2, <2>3
<1> HIDE DEF a, v, w, B, o
<1> DEFINE s == a + o
<1>10. s \in Int /\ v = s % Word /\ (v - o) - a = v - s
  BY <1>4, <1>5
<1> HIDE DEF s
<1>11. v % Word = s % Word
  <2>1. v \in 0 .. Word - 1
    BY <1>3 DEF Words
  <2>2. v % Word = v
    BY <1>1, <2>1, SmallRemainder
  <2> QED
    BY <1>10, <2>2
<1>12. (v - s) % Word = 0
  <2>1. v \in Int
    BY <1>4
  <2> QED
    BY <1>1, <1>10, <1>11, <2>1, SameRemainder
<1>13. ((FieldValue(r, item) - o) - a) % Word = 0
  BY <1>7, <1>9, <1>10, <1>12
<1> QED
  BY <1>13 DEF a, o

(* What a name means depends on the labels only.                           *)
LEMMA NamesKept ==
  ASSUME symbols' = symbols
  PROVE  \A n : Known(n)' = Known(n) /\ AddressOf(n)' = AddressOf(n)
BY DEF Known, AddressOf

(* A field of the item that is encoded, and a field from before.           *)
LEMMA NewFieldSound ==
  ASSUME TypeInv, LayoutInv, EncodeInv, EncodeItem, NEW r \in Refs,
         RefFits(r, BytesWritten(Current.statement)), Encodable(r, Current),
         NEW f, f = Field(r, Current)
  PROVE  FieldInv(f)'
<1> DEFINE l == Len(placed)
           b == BytesWritten(Current.statement)
<1>1. /\ l < Len(items) /\ placed' = Append(placed, length) /\ symbols' = symbols
      /\ objectMode' = objectMode /\ origin' = origin
  BY DEF EncodeItem, source, reading
<1>2. /\ placed'[l + 1] = length /\ l \in Nat /\ DOMAIN placed' = 1 .. l + 1
  BY <1>1, PlacedGrows
<1>3. /\ b \in Nat /\ length \in Nat /\ (length + b) % Word = next_ip(Current)
      /\ \A i : i = l + 1 => ItemEnd(i)' = length + b
  BY CurrentEnds
<1>4. Current \in Items
  BY <1>1, CurrentIsTyped
<1>5. /\ f.item = l + 1 /\ f.at = length + r.at /\ f.width = r.width
      /\ f.rel = r.rel /\ f.name = r.name /\ f.value = FieldValue(r, Current)
  BY DEF Field
<1>6. r.at \in Nat /\ r.width \in Nat /\ r.rel \in BOOLEAN
  BY DEF Refs, Widths
<1>7. r.at + r.width <= b /\ (r.rel => r.at + r.width = b /\ r.width \in {1, 4})
  BY DEF RefFits
<1>8. \A n : Known(n)' = Known(n) /\ AddressOf(n)' = AddressOf(n)
  BY <1>1, NamesKept
<1>9. Known(r.name) \/ objectMode
  BY DEF Encodable
<1> HIDE DEF l, b
<1>10. /\ f.item \in DOMAIN placed' /\ placed'[f.item] <= f.at
       /\ ItemEnd(f.item)' = length + b
       /\ f.at + f.width <= length + b /\ (f.rel => f.at + f.width = length + b)
  BY SMTT(30), <1>2, <1>3, <1>5, <1>6, <1>7
<1>11. length + b \in Int
  BY <1>3
<1>12. ASSUME f.rel, Known(f.name)
       PROVE  (Pointed(f)' - AddressOf(f.name)') % Word = 0
  <2>1. ((length + b + SignedIn(FieldValue(r, Current), 2 ^ Bits(r.width)))
         - AddressOf(r.name)) % Word = 0
    BY <1>3, <1>4, <1>5, <1>7, <1>11, <1>12, RelativeLeads
  <2>2. Pointed(f)' = length + b + SignedIn(FieldValue(r, Current), 2 ^ Bits(r.width))
    BY <1>5, <1>10, <1>12 DEF Pointed
  <2>3. AddressOf(f.name)' = AddressOf(r.name)
    BY <1>5, <1>8
  <2> QED
    BY <2>1, <2>2, <2>3
<1>13. ASSUME ~f.rel, ~objectMode
       PROVE  (Pointed(f)' - AddressOf(f.name)') % Word = 0
  <2>1. ((FieldValue(r, Current) - origin.base) - AddressOf(r.name)) % Word = 0
    BY <1>4, <1>5, <1>9, <1>13, AbsoluteLeads
  <2>2. Pointed(f)' = FieldValue(r, Current) - origin.base
    BY <1>1, <1>5, <1>13 DEF Pointed
  <2>3. AddressOf(f.name)' = AddressOf(r.name)
    BY <1>5, <1>8
  <2> QED
    BY <2>1, <2>2, <2>3
<1>14. Known(f.name)' \/ objectMode'
  BY <1>1, <1>5, <1>8, <1>9
<1>15. (f.rel /\ Known(f.name)') \/ ~objectMode' =>
         (Pointed(f)' - AddressOf(f.name)') % Word = 0
  BY <1>1, <1>5, <1>8, <1>9, <1>12, <1>13
<1> QED
  BY <1>10, <1>14, <1>15 DEF FieldInv

LEMMA OldFieldSound ==
  ASSUME NEW f, FieldInv(f), symbols' = symbols, objectMode' = objectMode,
         origin' = origin, DOMAIN placed \subseteq DOMAIN placed',
         \A i \in DOMAIN placed : placed'[i] = placed[i] /\ ItemEnd(i)' = ItemEnd(i)
  PROVE  FieldInv(f)'
<1>1. /\ f.item \in DOMAIN placed
      /\ placed'[f.item] = placed[f.item] /\ ItemEnd(f.item)' = ItemEnd(f.item)
      /\ f.item \in DOMAIN placed'
  BY DEF FieldInv
<1>2. Known(f.name)' = Known(f.name) /\ AddressOf(f.name)' = AddressOf(f.name)
  BY NamesKept
<1>3. Pointed(f)' = Pointed(f)
  BY <1>1 DEF Pointed
<1> QED
  BY <1>1, <1>2, <1>3 DEF FieldInv

(* The fields after one more item.                                         *)
LEMMA FieldsEncoded ==
  TypeInv /\ LayoutInv /\ EncodeInv /\ FieldsInv /\ EncodeItem => FieldsInv'
<1> SUFFICES ASSUME TypeInv, LayoutInv, EncodeInv, FieldsInv, EncodeItem
             PROVE  FieldsInv'
  OBVIOUS
<1> DEFINE refs == References(Current.statement)
           new == NewFields(refs, Current)
<1>1. /\ Len(placed) < Len(items) /\ refs \in Seq(Refs)
      /\ \A i \in DOMAIN refs : Encodable(refs[i], Current)
      /\ fields' = fields \o new
      /\ placed' = Append(placed, length)
      /\ UNCHANGED <<source, reading, symbols>>
  BY EncodeItemFacts
<1>2. /\ Current \in Items
      /\ RefsFit(refs, BytesWritten(Current.statement))
  BY <1>1, CurrentIsTyped
<1>3. DOMAIN refs = 1 .. Len(refs) /\ \A i \in 1 .. Len(refs) : refs[i] \in Refs
  <2> HIDE DEF refs
  <2> QED
    BY <1>1
<1>4. \A i \in 1 .. Len(refs) : RefFits(refs[i], BytesWritten(Current.statement))
  BY <1>2 DEF RefsFit
<1>5. /\ new \in Seq(FieldsOf) /\ Len(new) = Len(refs)
      /\ \A i \in 1 .. Len(refs) : new[i] = Field(refs[i], Current)
  BY <1>1, <1>2, FieldsAreTyped
<1> HIDE DEF new, refs
<1>6. /\ DOMAIN placed = 1 .. Len(placed) /\ DOMAIN placed' = 1 .. Len(placed')
      /\ Len(placed') = Len(placed) + 1 /\ Len(placed) \in Nat
      /\ \A i \in 1 .. Len(placed) : placed'[i] = placed[i]
  BY <1>1, PlacedGrows
<1>7. \A i \in DOMAIN placed : ItemEnd(i)' = ItemEnd(i)
  BY CurrentEnds
<1>8. objectMode' = objectMode /\ origin' = origin /\ symbols' = symbols
  BY <1>1 DEF source, reading
<1>9. DOMAIN placed \subseteq DOMAIN placed'
  BY <1>6
<1>10. ASSUME NEW f, FieldInv(f)
       PROVE  FieldInv(f)'
  BY <1>6, <1>7, <1>8, <1>9, <1>10, OldFieldSound
<1>11. ASSUME NEW i \in 1 .. Len(new), NEW f, f = new[i]
       PROVE  FieldInv(f)'
  <2>1. f = Field(refs[i], Current)
    BY <1>5, <1>11
  <2>2. /\ refs[i] \in Refs /\ Encodable(refs[i], Current)
        /\ RefFits(refs[i], BytesWritten(Current.statement))
    BY <1>1, <1>3, <1>4, <1>5
  <2> QED
    BY <2>1, <2>2, NewFieldSound
<1>12. fields \in Seq(FieldsOf) /\ DOMAIN fields = 1 .. Len(fields)
  BY DEF TypeInv
<1>13. /\ DOMAIN fields' = 1 .. Len(fields')
       /\ \A i \in 1 .. Len(fields') :
            \/ i \in 1 .. Len(fields) /\ fields'[i] = fields[i]
            \/ i - Len(fields) \in 1 .. Len(new) /\ fields'[i] = new[i - Len(fields)]
  BY <1>1, <1>5, <1>12, JoinedPlaces
<1>14. \A k \in DOMAIN fields' : \A f : f = fields'[k] => FieldInv(f)'
  <2> TAKE k \in DOMAIN fields'
  <2> TAKE f
  <2> HAVE f = fields'[k]
  <2>1. CASE k \in 1 .. Len(fields) /\ fields'[k] = fields[k]
    <3>1. FieldInv(f)
      BY <1>12, <2>1 DEF FieldsInv
    <3> QED
      BY <1>10, <3>1
  <2>2. CASE /\ k - Len(fields) \in 1 .. Len(new)
             /\ fields'[k] = new[k - Len(fields)]
    <3> DEFINE i == k - Len(fields)
    <3>1. i \in 1 .. Len(new) /\ f = new[i]
      BY <2>2
    <3> HIDE DEF i
    <3> QED
      BY <1>11, <3>1
  <2> QED
    BY <1>13, <2>1, <2>2
<1> QED
  <2> SUFFICES ASSUME NEW k \in DOMAIN fields'
               PROVE  FieldInv(fields[k])'
    BY DEF FieldsInv
  <2> DEFINE f == fields'[k]
  <2>1. \A g : g = f => FieldInv(g)'
    BY <1>14
  <2> QED
    BY <2>1 DEF FieldInv, Pointed, RelocatedBy, ItemEnd, Known, AddressOf

(* FieldsInv is inductive.                                                 *)
LEMMA FieldsPreserved ==
  TypeInv /\ PhaseInv /\ LayoutInv /\ EncodeInv /\ FieldsInv /\ [Next]_vars
  => FieldsInv'
<1> SUFFICES ASSUME TypeInv, PhaseInv, LayoutInv, EncodeInv, FieldsInv, [Next]_vars
             PROVE  FieldsInv'
  OBVIOUS
<1>1. CASE EncodeItem
  BY <1>1, FieldsEncoded
<1>2. CASE pc' \in {"read", "literals"}
  <2>1. fields' = << >>
    BY <1>2, PhasePreserved DEF PhaseInv
  <2> QED
    BY <2>1 DEF FieldsInv
<1>3. CASE UNCHANGED <<source, items, symbols, origin, encoding>>
  BY <1>3 DEF FieldsInv, FieldInv, Pointed, ItemEnd, Known, AddressOf, source,
              encoding
<1> QED
  BY <1>1, <1>2, <1>3, EarlyOrQuiet

-----------------------------------------------------------------------------
(* Relocations.                                                            *)

(* A relocation of the item that is encoded, and one from before.          *)
LEMMA NewRelocSound ==
  ASSUME TypeInv, LayoutInv, EncodeInv, EncodeItem, NEW r \in Refs,
         RefFits(r, BytesWritten(Current.statement)), NeedsReloc(r),
         NEW q, q = Reloc(r, Current)
  PROVE  /\ RelocInv(q)'
         /\ length' <= Word => q.offset = length + r.at
<1> DEFINE b == BytesWritten(Current.statement)
           n == next_ip(Current)
<1>1. /\ Len(placed) < Len(items) /\ length' = length + b /\ symbols' = symbols
      /\ objectMode' = objectMode
  BY DEF EncodeItem, source
<1>2. b \in Nat /\ length \in Nat /\ (length + b) % Word = n
  BY CurrentEnds
<1>3. Word \in Nat \ {0}
  BY WordFacts
<1>4. n \in Words
  <2>1. Current \in Items
    BY <1>1, CurrentIsTyped
  <2>2. Current.offset \in Words /\ Current.size \in Nat
    BY <2>1 DEF Items
  <2>3. Current.offset \in Int /\ Current.size \in Int
    BY <1>3, <2>2 DEF Words
  <2> QED
    BY <2>3, AfterIsWord DEF next_ip
<1>5. r.at \in Nat /\ r.width \in Nat \ {0} /\ r.rel \in BOOLEAN
  BY DEF Refs, Widths
<1>6. r.at + r.width <= b /\ (r.rel => r.at + r.width = b)
  BY DEF RefFits
<1>7. objectMode /\ (r.rel => ~Known(r.name))
  BY DEF NeedsReloc
<1>8. /\ q.offset = (length + r.at) % Word
      /\ q.kind = [rel |-> r.rel, width |-> r.width]
      /\ q.addend = Addend(r, Current) /\ q.symbol = r.name
  BY DEF Reloc
<1>9. q.kind.rel = r.rel /\ q.kind.width = r.width
  BY <1>8
<1>10. Known(q.symbol)' = Known(q.symbol)
  BY <1>1, NamesKept
<1>11. ASSUME r.rel
       PROVE  (q.addend + q.offset + q.kind.width) % Word = 0
  <2> DEFINE x == length + r.at
             w == r.width
  <2>1. x \in Int /\ w \in Int /\ x + w = length + b
    BY <1>2, <1>5, <1>6, <1>11
  <2>2. n \in 0 .. Word - 1 /\ (x + w) % Word = n
    BY <1>2, <1>4, <2>1 DEF Words
  <2>3. q.addend = SignedIn((Word - n) % Word, Word)
    BY <1>8, <1>11 DEF Addend, Signed
  <2>4. q.offset = x % Word /\ q.kind.width = w
    BY <1>8, <1>9
  <2> HIDE DEF x, w, n
  <2>5. (SignedIn((Word - n) % Word, Word) + (x % Word) + w) % Word = 0
    BY <1>3, <2>1, <2>2, AddendCancels
  <2> QED
    BY <2>3, <2>4, <2>5
<1>12. ~r.rel => q.addend = 0
  BY <1>8 DEF Addend
<1> HIDE DEF b
<1>13. ASSUME length + b <= Word
       PROVE  q.offset = length + r.at /\ q.offset < length + b
  <2> DEFINE x == length + r.at
  <2>1. x \in 0 .. Word - 1 /\ x < length + b
    BY <1>2, <1>3, <1>5, <1>6, <1>13
  <2>2. q.offset = x % Word
    BY <1>8
  <2> HIDE DEF x
  <2>3. x % Word = x
    BY <1>3, <2>1, SmallRemainder
  <2> QED
    BY <2>1, <2>2, <2>3 DEF x
<1>14. RelocInv(q)'
  BY <1>1, <1>7, <1>8, <1>9, <1>10, <1>11, <1>12, <1>13 DEF RelocInv
<1> QED
  BY <1>1, <1>13, <1>14

LEMMA OldRelocSound ==
  ASSUME NEW q, RelocInv(q), symbols' = symbols, objectMode' = objectMode,
         length \in Nat, length' \in Nat, length <= length', q.offset \in Nat
  PROVE  RelocInv(q)'
<1>1. Known(q.symbol)' = Known(q.symbol)
  BY NamesKept
<1>2. length' <= Word => q.offset < length'
  BY WordFacts DEF RelocInv
<1> QED
  BY <1>1, <1>2 DEF RelocInv

(* The relocations after one more item: those of its fields that need      *)
(* one, in their order, after all others.                                  *)
LEMMA RelocsEncoded ==
  TypeInv /\ LayoutInv /\ EncodeInv /\ RelocsInv /\ EncodeItem => RelocsInv'
<1> SUFFICES ASSUME TypeInv, LayoutInv, EncodeInv, RelocsInv, EncodeItem
             PROVE  RelocsInv'
  OBVIOUS
<1> DEFINE b == BytesWritten(Current.statement)
           refs == References(Current.statement)
           S == {i \in DOMAIN refs : NeedsReloc(refs[i])}
           kept == Relocated(refs)
           f == NewFields(refs, Current)
           q == NewRelocs(kept, Current)
           l == Len(relocs)
           m == Len(fields)
<1>1. /\ Len(placed) < Len(items) /\ refs \in Seq(Refs) /\ kept \in Seq(Refs)
      /\ fields' = fields \o f /\ relocs' = relocs \o q
      /\ length' = length + b
      /\ objectMode' = objectMode /\ symbols' = symbols
  BY EncodeItemFacts DEF source
<1>2. /\ Current \in Items /\ b \in Nat /\ RefsFit(refs, b)
  BY <1>1, CurrentIsTyped
<1>3. RefsFit(kept, b)
  BY <1>2, SelectedRefsFit DEF Relocated
<1>4. PICK h : IsSelection(h, kept, Len(refs), refs, S)
  BY <1>1, SelectedFacts DEF Relocated
<1>5. /\ f \in Seq(FieldsOf) /\ Len(f) = Len(refs)
      /\ \A i \in 1 .. Len(refs) : f[i] = Field(refs[i], Current)
  BY <1>1, <1>2, FieldsAreTyped
<1>6. /\ q \in Seq(RelocsOf) /\ Len(q) = Len(kept)
      /\ \A i \in 1 .. Len(kept) : q[i] = Reloc(kept[i], Current)
  BY <1>1, <1>2, RelocsAreTyped
<1>7. /\ \A j \in 1 .. Len(kept) : h[j] \in S /\ kept[j] = refs[h[j]]
      /\ \A i \in (1 .. Len(refs)) \cap S : \E j \in 1 .. Len(kept) : h[j] = i
      /\ Len(kept) <= Len(refs)
  BY <1>4 DEF IsSelection
<1>8. \A j \in 1 .. Len(kept) : NeedsReloc(kept[j])
  BY <1>7
<1>9. \A i \in 1 .. Len(refs) : NeedsReloc(refs[i]) =>
        \E j \in 1 .. Len(kept) : kept[j] = refs[i]
  <2> TAKE i \in 1 .. Len(refs)
  <2> HAVE NeedsReloc(refs[i])
  <2>1. i \in DOMAIN refs
    <3> HIDE DEF refs
    <3> QED
      BY <1>1
  <2>2. i \in S
    BY <2>1
  <2> HIDE DEF S, kept, refs
  <2> QED
    BY <1>7, <2>2
<1> HIDE DEF f, q, kept, S, refs
<1>10. /\ fields \in Seq(FieldsOf) /\ relocs \in Seq(RelocsOf) /\ length \in Nat
  BY TypeFacts
<1>11. /\ Len(fields') = m + Len(refs) /\ m \in Nat /\ Len(refs) \in Nat
       /\ \A i \in 1 .. Len(fields') :
            \/ i \in 1 .. m /\ fields'[i] = fields[i]
            \/ i > m /\ i - m \in 1 .. Len(refs) /\ fields'[i] = f[i - m]
  <2>1. /\ Len(fields) \in Nat /\ Len(f) \in Nat /\ Len(fields') = Len(fields) + Len(f)
        /\ \A i \in 1 .. Len(fields') :
             \/ i \in 1 .. Len(fields) /\ fields'[i] = fields[i]
             \/ /\ i > Len(fields) /\ i - Len(fields) \in 1 .. Len(f)
                /\ fields'[i] = f[i - Len(fields)]
    <3>1. f \in Seq(FieldsOf) /\ fields \in Seq(FieldsOf) /\ fields' = fields \o f
      BY <1>1, <1>5, <1>10
    <3> QED
      BY <3>1, JoinedPlaces
  <2>2. Len(f) = Len(refs)
    BY <1>5
  <2> HIDE DEF m
  <2>3. m = Len(fields)
    BY DEF m
  <2> QED
    BY <2>1, <2>2, <2>3
<1>12. /\ Len(relocs') = l + Len(kept) /\ l \in Nat /\ Len(kept) \in Nat
       /\ \A i \in 1 .. l : i \in 1 .. Len(relocs') /\ relocs'[i] = relocs[i]
       /\ \A i \in 1 .. Len(kept) : l + i \in 1 .. Len(relocs') /\ relocs'[l + i] = q[i]
       /\ \A i \in 1 .. Len(relocs') :
            \/ i \in 1 .. l /\ relocs'[i] = relocs[i]
            \/ i > l /\ i - l \in 1 .. Len(kept) /\ relocs'[i] = q[i - l]
  <2>1. relocs \in Seq(RelocsOf) /\ q \in Seq(RelocsOf) /\ relocs' = relocs \o q
    BY <1>1, <1>6, <1>10
  <2>2. /\ Len(relocs) \in Nat /\ Len(q) \in Nat
        /\ Len(relocs') = Len(relocs) + Len(q)
        /\ \A i \in 1 .. Len(relocs) : i \in 1 .. Len(relocs') /\ relocs'[i] = relocs[i]
        /\ \A i \in 1 .. Len(q) :
             Len(relocs) + i \in 1 .. Len(relocs') /\ relocs'[Len(relocs) + i] = q[i]
        /\ \A i \in 1 .. Len(relocs') :
             \/ i \in 1 .. Len(relocs) /\ relocs'[i] = relocs[i]
             \/ /\ i > Len(relocs) /\ i - Len(relocs) \in 1 .. Len(q)
                /\ relocs'[i] = q[i - Len(relocs)]
    BY <2>1, JoinedPlaces
  <2>3. Len(q) = Len(kept)
    BY <1>6
  <2> HIDE DEF l
  <2>4. l = Len(relocs)
    BY DEF l
  <2> QED
    BY <2>2, <2>3, <2>4
<1>13. /\ \A j \in 1 .. Len(kept) : kept[j] \in Refs /\ RefFits(kept[j], b)
       /\ \A i, j \in 1 .. Len(kept) : i < j => kept[i].at < kept[j].at
  <2>1. \A j \in 1 .. Len(kept) : kept[j] \in Refs
    BY <1>1
  <2>2. \A r \in Refs : r.at \in Nat /\ r.width \in Nat \ {0}
    BY DEF Refs, Widths
  <2>3. /\ \A j \in 1 .. Len(kept) : RefFits(kept[j], b)
        /\ \A i, j \in 1 .. Len(kept) :
             i < j => kept[i].at + kept[i].width <= kept[j].at
    BY <1>3 DEF RefsFit
  <2>4. \A i, j \in 1 .. Len(kept) : i < j => kept[i].at < kept[j].at
    BY <2>1, <2>2, <2>3
  <2> QED
    BY <2>1, <2>3, <2>4
<1>14. length' \in Nat /\ length <= length'
  BY <1>1, <1>2, <1>10
<1>15. \A i \in 1 .. l : relocs[i].offset \in Nat
  <2>1. \A x \in RelocsOf : x.offset \in Words
    BY DEF RelocsOf
  <2>2. \A i \in 1 .. l : relocs[i] \in RelocsOf
    BY <1>10
  <2>3. Words \subseteq Nat
    BY WordFacts DEF Words
  <2> QED
    BY <2>1, <2>2, <2>3
<1>16. \A i \in 1 .. l : RelocInv(relocs[i])
  BY DEF RelocsInv
<1>17. \A i \in 1 .. Len(relocs') : \A x : x = relocs'[i] => RelocInv(x)'
  <2> TAKE i \in 1 .. Len(relocs')
  <2> TAKE x
  <2> HAVE x = relocs'[i]
  <2>1. CASE i \in 1 .. l /\ relocs'[i] = relocs[i]
    <3>1. RelocInv(x) /\ x.offset \in Nat
      BY <1>15, <1>16, <2>1
    <3> QED
      BY <1>1, <1>10, <1>14, <3>1, OldRelocSound
  <2>2. CASE i - l \in 1 .. Len(kept) /\ relocs'[i] = q[i - l]
    <3> DEFINE j == i - l
    <3>1. j \in 1 .. Len(kept) /\ x = q[j]
      BY <2>2
    <3> HIDE DEF j
    <3>2. x = Reloc(kept[j], Current)
      BY <1>6, <3>1
    <3>3. kept[j] \in Refs /\ RefFits(kept[j], b) /\ NeedsReloc(kept[j])
      BY <1>8, <1>13, <3>1
    <3> QED
      BY <3>2, <3>3, NewRelocSound
  <2> QED
    BY <1>12, <2>1, <2>2
<1>18. \A i \in 1 .. Len(kept) : length' <= Word => q[i].offset = length + kept[i].at
  <2> TAKE i \in 1 .. Len(kept)
  <2>1. q[i] = Reloc(kept[i], Current)
    BY <1>6
  <2>2. kept[i] \in Refs /\ RefFits(kept[i], b) /\ NeedsReloc(kept[i])
    BY <1>8, <1>13
  <2>3. \A x : x = q[i] => (length' <= Word => x.offset = length + kept[i].at)
    BY <2>1, <2>2, NewRelocSound
  <2> QED
    BY <2>3
<1>19. ASSUME length' <= Word
       PROVE  \A i, j \in 1 .. Len(relocs') :
                i < j => relocs'[i].offset < relocs'[j].offset
  <2>1. length <= Word
    BY <1>10, <1>14, <1>19, WordFacts
  <2>2. \A i, j \in 1 .. l : i < j => relocs[i].offset < relocs[j].offset
    BY <2>1 DEF RelocsInv, RelocsOrdered
  <2>3. \A i \in 1 .. l : relocs[i].offset < length
    BY <1>16, <2>1 DEF RelocInv
  <2>4. \A i \in 1 .. Len(kept) : /\ q[i].offset = length + kept[i].at
                                  /\ kept[i].at \in Nat
    BY <1>13, <1>18, <1>19 DEF Refs
  <2> TAKE i, j \in 1 .. Len(relocs')
  <2> HAVE i < j
  <2>5. i \in Nat /\ j \in Nat
    BY <1>12
  <2> HIDE DEF l
  <2>6. CASE j \in 1 .. l
    <3>1. i \in 1 .. l
      BY <1>12, <2>5, <2>6
    <3>2. relocs'[i] = relocs[i] /\ relocs'[j] = relocs[j]
      BY <1>12, <2>6, <3>1
    <3>3. relocs[i].offset < relocs[j].offset
      BY <2>2, <2>6, <3>1 DEF l
    <3> QED
      BY <3>2, <3>3
  <2>7. CASE j > l /\ j - l \in 1 .. Len(kept) /\ relocs'[j] = q[j - l]
    <3> DEFINE k == j - l
    <3>1. k \in 1 .. Len(kept) /\ relocs'[j] = q[k] /\ k = j - l
      BY <2>7
    <3> HIDE DEF k
    <3>2. relocs'[j].offset = length + kept[k].at /\ kept[k].at \in Nat
      BY <2>4, <3>1
    <3>3. CASE i \in 1 .. l /\ relocs'[i] = relocs[i]
      <4>1. relocs'[i].offset < length /\ relocs'[i].offset \in Nat
        BY <1>15, <2>3, <3>3 DEF l
      <4> QED
        BY <1>10, <3>2, <4>1
    <3>4. CASE i - l \in 1 .. Len(kept) /\ relocs'[i] = q[i - l]
      <4> DEFINE n == i - l
      <4>1. n \in 1 .. Len(kept) /\ relocs'[i] = q[n] /\ n = i - l
        BY <3>4
      <4> HIDE DEF n
      <4>2. n < k
        BY <1>12, <2>5, <3>1, <4>1
      <4>3. kept[n].at < kept[k].at /\ kept[n].at \in Nat
        BY <1>13, <2>4, <3>1, <4>1, <4>2
      <4>4. relocs'[i].offset = length + kept[n].at
        BY <2>4, <4>1
      <4> QED
        BY SMTT(30), <1>10, <3>2, <4>3, <4>4
    <3> QED
      BY <1>12, <3>3, <3>4
  <2> QED
    BY <1>12, <2>6, <2>7
<1>20. \A k \in 1 .. Len(fields') : \A x : x = fields'[k] => IsRelocated(x)'
  <2> TAKE k \in 1 .. Len(fields')
  <2> TAKE x
  <2> HAVE x = fields'[k]
  <2>1. Known(x.name)' = Known(x.name)
    BY <1>1, NamesKept
  <2> SUFFICES ASSUME objectMode, ~(x.rel /\ Known(x.name))
               PROVE  \E i \in 1 .. Len(relocs') : RelocatedBy(x, relocs'[i])
    BY <1>1, <2>1 DEF IsRelocated, RelocatedBy
  <2>2. CASE k \in 1 .. m /\ fields'[k] = fields[k]
    <3>1. IsRelocated(x)
      BY <2>2 DEF RelocsInv
    <3>2. PICK i \in 1 .. l : RelocatedBy(x, relocs[i])
      BY <3>1 DEF IsRelocated
    <3>3. i \in 1 .. Len(relocs') /\ relocs'[i] = relocs[i]
      BY <1>12
    <3> QED
      BY <3>2, <3>3
  <2>3. CASE k - m \in 1 .. Len(refs) /\ fields'[k] = f[k - m]
    <3> DEFINE n == k - m
    <3>1. n \in 1 .. Len(refs) /\ x = f[n]
      BY <2>3
    <3> HIDE DEF n
    <3>2. x = Field(refs[n], Current)
      BY <1>5, <3>1
    <3> DEFINE r == refs[n]
    <3>3. /\ x.at = length + r.at /\ x.width = r.width /\ x.rel = r.rel
          /\ x.name = r.name
      BY <3>2 DEF Field
    <3>4. NeedsReloc(refs[n])
      BY <3>3 DEF NeedsReloc
    <3>5. PICK j \in 1 .. Len(kept) : kept[j] = refs[n]
      BY <1>9, <3>1, <3>4
    <3>6. q[j] = Reloc(r, Current)
      BY <1>6, <3>5
    <3>7. RelocatedBy(x, q[j])
      BY <3>3, <3>6 DEF Reloc, RelocatedBy
    <3>8. l + j \in 1 .. Len(relocs') /\ relocs'[l + j] = q[j]
      BY <1>12
    <3> QED
      BY <3>7, <3>8
  <2> QED
    BY <1>11, <2>2, <2>3
<1>21. Len(relocs') <= Len(fields')
  <2>1. l <= m
    BY DEF RelocsInv
  <2> QED
    BY <1>7, <1>11, <1>12, <2>1
<1>22. \A i \in 1 .. Len(relocs') : RelocInv(relocs[i])'
  BY <1>17 DEF RelocInv, Known
<1>23. \A k \in 1 .. Len(fields') : IsRelocated(fields[k])'
  BY <1>20 DEF IsRelocated, RelocatedBy, Known
<1> QED
  BY <1>19, <1>21, <1>22, <1>23 DEF RelocsInv, RelocsOrdered

(* RelocsInv is inductive.                                                 *)
LEMMA RelocsPreserved ==
  TypeInv /\ PhaseInv /\ LayoutInv /\ EncodeInv /\ RelocsInv /\ [Next]_vars
  => RelocsInv'
<1> SUFFICES ASSUME TypeInv, PhaseInv, LayoutInv, EncodeInv, RelocsInv, [Next]_vars
             PROVE  RelocsInv'
  OBVIOUS
<1>1. CASE EncodeItem
  BY <1>1, RelocsEncoded
<1>2. CASE pc' \in {"read", "literals"}
  <2>1. fields' = << >> /\ relocs' = << >>
    BY <1>2, PhasePreserved DEF PhaseInv
  <2>2. Len(fields') = 0 /\ Len(relocs') = 0
    BY <2>1
  <2> QED
    BY <2>2 DEF RelocsInv, RelocsOrdered
<1>3. CASE UNCHANGED <<source, items, symbols, origin, encoding>>
  BY <1>3 DEF RelocsInv, RelocInv, RelocsOrdered, IsRelocated, RelocatedBy, Known,
              source, encoding
<1> QED
  BY <1>1, <1>2, <1>3, EarlyOrQuiet

-----------------------------------------------------------------------------
(* Spans.                                                                  *)

(* The fields after one more item are apart, since the new ones are after  *)
(* the old length, and the relocations new with it are those of new fields.*)
LEMMA SpansEncoded == TypeInv /\ LayoutInv /\ EncodeInv /\ SpansInv /\ EncodeItem
                      => SpansInv'
<1> SUFFICES ASSUME TypeInv, LayoutInv, EncodeInv, SpansInv, EncodeItem
             PROVE  SpansInv'
  OBVIOUS
<1> DEFINE b == BytesWritten(Current.statement)
           refs == References(Current.statement)
           S == {i \in DOMAIN refs : NeedsReloc(refs[i])}
           kept == Relocated(refs)
           f == NewFields(refs, Current)
           q == NewRelocs(kept, Current)
           l == Len(relocs)
           m == Len(fields)
           n == Len(refs)
<1>1. /\ Len(placed) < Len(items) /\ refs \in Seq(Refs) /\ kept \in Seq(Refs)
      /\ fields' = fields \o f /\ relocs' = relocs \o q
      /\ length' = length + b
  BY EncodeItemFacts
<1>2. /\ Current \in Items /\ b \in Nat /\ RefsFit(refs, b)
  BY <1>1, CurrentIsTyped
<1>3. PICK h : IsSelection(h, kept, n, refs, S)
  BY <1>1, SelectedFacts DEF Relocated
<1>4. /\ f \in Seq(FieldsOf) /\ Len(f) = n
      /\ \A i \in 1 .. n : f[i] = Field(refs[i], Current)
  BY <1>1, <1>2, FieldsAreTyped
<1>5. /\ q \in Seq(RelocsOf) /\ Len(q) = Len(kept)
      /\ \A i \in 1 .. Len(kept) : q[i] = Reloc(kept[i], Current)
  BY <1>1, <1>2, RelocsAreTyped
<1>6. \A j \in 1 .. Len(kept) : \E i \in 1 .. n : kept[j] = refs[i]
  BY <1>3 DEF IsSelection
<1>7. n \in Nat /\ \A i \in 1 .. n : refs[i] \in Refs
  <2> HIDE DEF refs
  <2> QED
    BY <1>1
<1>8. \A r \in Refs : r.at \in Nat /\ r.width \in Nat
  BY DEF Refs, Widths
<1>9. /\ \A i \in 1 .. n : RefFits(refs[i], b)
      /\ \A i, j \in 1 .. n : i < j => refs[i].at + refs[i].width <= refs[j].at
  BY <1>2 DEF RefsFit
<1>10. \A i \in 1 .. n : /\ f[i].at = length + refs[i].at /\ f[i].width = refs[i].width
                         /\ f[i].rel = refs[i].rel /\ f[i].name = refs[i].name
  <2> TAKE i \in 1 .. n
  <2> DEFINE r == refs[i]
  <2>1. f[i] = Field(r, Current)
    BY <1>4
  <2> HIDE DEF f, r
  <2>2. f[i].at = length + r.at /\ f[i].width = r.width
    BY <2>1 DEF Field
  <2>3. f[i].rel = r.rel
    BY <2>1 DEF Field
  <2>4. f[i].name = r.name
    BY <2>1 DEF Field
  <2> QED
    BY <2>2, <2>3, <2>4 DEF r
<1>11. /\ fields \in Seq(FieldsOf) /\ relocs \in Seq(RelocsOf) /\ length \in Nat
  BY TypeFacts
<1> HIDE DEF f, q, kept, S, refs, b
<1>12. /\ \A i \in 1 .. m : i \in 1 .. Len(fields') /\ fields'[i] = fields[i]
       /\ \A i \in 1 .. n : m + i \in 1 .. Len(fields') /\ fields'[m + i] = f[i]
       /\ \A i \in 1 .. Len(fields') :
            \/ i \in 1 .. m /\ fields'[i] = fields[i]
            \/ i > m /\ i - m \in 1 .. n /\ fields'[i] = f[i - m]
       /\ m \in Nat /\ Len(fields') \in Nat
  <2>1. f \in Seq(FieldsOf) /\ fields \in Seq(FieldsOf) /\ fields' = fields \o f
    BY <1>1, <1>4, <1>11
  <2>2. /\ Len(fields) \in Nat /\ Len(f) \in Nat /\ Len(fields') = Len(fields) + Len(f)
        /\ \A i \in 1 .. Len(fields) : i \in 1 .. Len(fields') /\ fields'[i] = fields[i]
        /\ \A i \in 1 .. Len(f) :
             Len(fields) + i \in 1 .. Len(fields') /\ fields'[Len(fields) + i] = f[i]
        /\ \A i \in 1 .. Len(fields') :
             \/ i \in 1 .. Len(fields) /\ fields'[i] = fields[i]
             \/ /\ i > Len(fields) /\ i - Len(fields) \in 1 .. Len(f)
                /\ fields'[i] = f[i - Len(fields)]
    BY <2>1, JoinedPlaces
  <2>3. Len(f) = n
    BY <1>4
  <2> HIDE DEF m, n
  <2>4. m = Len(fields)
    BY DEF m
  <2> QED
    BY <1>7, <2>2, <2>3, <2>4
<1>13. \A i \in 1 .. Len(relocs') :
         \/ i \in 1 .. l /\ relocs'[i] = relocs[i]
         \/ i - l \in 1 .. Len(kept) /\ relocs'[i] = q[i - l]
  <2>1. relocs \in Seq(RelocsOf) /\ q \in Seq(RelocsOf) /\ relocs' = relocs \o q
    BY <1>1, <1>5, <1>11
  <2>2. \A i \in 1 .. Len(relocs') :
          \/ i \in 1 .. Len(relocs) /\ relocs'[i] = relocs[i]
          \/ i - Len(relocs) \in 1 .. Len(q) /\ relocs'[i] = q[i - Len(relocs)]
    BY <2>1, JoinedPlaces
  <2>3. Len(q) = Len(kept)
    BY <1>5
  <2> QED
    BY <2>2, <2>3
<1>14. \A i \in 1 .. m : fields[i].at \in Nat /\ fields[i].width \in Nat
  <2>1. \A x \in FieldsOf : x.at \in Nat /\ x.width \in Nat
    BY DEF FieldsOf, Widths
  <2> QED
    BY <1>11, <2>1
<1>15. /\ \A k \in 1 .. m : /\ fields[k].at + fields[k].width <= length
                            /\ fields[k].rel => fields[k].width \in {1, 4}
       /\ \A i, j \in 1 .. m : i < j => fields[i].at + fields[i].width <= fields[j].at
       /\ \A i \in 1 .. l : \E k \in 1 .. m : RelocatedBy(fields[k], relocs[i])
  BY DEF SpansInv
<1>16. \A i \in 1 .. n : /\ f[i].at \in Nat /\ length <= f[i].at
                         /\ f[i].at + f[i].width <= length + b
                         /\ f[i].rel => f[i].width \in {1, 4}
  <2> TAKE i \in 1 .. n
  <2> DEFINE r == refs[i]
  <2>1. /\ r.at \in Nat /\ r.width \in Nat /\ r.at + r.width <= b
        /\ r.rel => r.width \in {1, 4}
    BY <1>7, <1>8, <1>9 DEF RefFits
  <2> HIDE DEF r
  <2>2. f[i].at = length + r.at /\ f[i].width = r.width /\ f[i].rel = r.rel
    BY <1>10 DEF r
  <2> QED
    BY <1>2, <1>11, <2>1, <2>2
<1>17. \A i, j \in 1 .. n : i < j => f[i].at + f[i].width <= f[j].at
  <2> TAKE i, j \in 1 .. n
  <2> HAVE i < j
  <2> DEFINE r == refs[i]
             s == refs[j]
  <2>1. r.at \in Nat /\ r.width \in Nat /\ s.at \in Nat /\ r.at + r.width <= s.at
    BY <1>7, <1>8, <1>9
  <2>2. f[i].at = length + r.at /\ f[i].width = r.width /\ f[j].at = length + s.at
    BY <1>10
  <2> HIDE DEF r, s
  <2> QED
    BY <1>11, <2>1, <2>2
<1> HIDE DEF m, n, l
<1>18. \A k \in 1 .. Len(fields') : /\ fields'[k].at + fields'[k].width <= length'
                                    /\ fields'[k].rel => fields'[k].width \in {1, 4}
  <2> TAKE k \in 1 .. Len(fields')
  <2>1. CASE k \in 1 .. m /\ fields'[k] = fields[k]
    <3> DEFINE x == fields[k].at
               w == fields[k].width
    <3>1. x + w <= length /\ x \in Nat /\ w \in Nat
          /\ (fields[k].rel => w \in {1, 4})
      BY <1>14, <1>15, <2>1
    <3> HIDE DEF x, w
    <3>2. x + w <= length'
      BY <1>1, <1>2, <1>11, <3>1
    <3> QED
      BY <2>1, <3>1, <3>2 DEF x, w
  <2>2. CASE k - m \in 1 .. n /\ fields'[k] = f[k - m]
    BY <1>1, <1>16, <2>2
  <2> QED
    BY <1>12, <2>1, <2>2
<1>19. \A i, j \in 1 .. Len(fields') :
         i < j => fields'[i].at + fields'[i].width <= fields'[j].at
  <2> TAKE i, j \in 1 .. Len(fields')
  <2> HAVE i < j
  <2>1. CASE i \in 1 .. m /\ fields'[i] = fields[i]
    <3>1. CASE j \in 1 .. m /\ fields'[j] = fields[j]
      BY <1>15, <2>1, <3>1
    <3>2. CASE j - m \in 1 .. n /\ fields'[j] = f[j - m]
      <4>1. fields[i].at \in Nat /\ fields[i].width \in Nat
            /\ fields[i].at + fields[i].width <= length
        BY <1>14, <1>15, <2>1
      <4>2. fields'[j].at \in Nat /\ length <= fields'[j].at
        BY <1>16, <3>2
      <4> QED
        BY <1>11, <2>1, <4>1, <4>2
    <3> QED
      BY <1>12, <3>1, <3>2
  <2>2. CASE i > m /\ i - m \in 1 .. n /\ fields'[i] = f[i - m]
    <3>1. j - m \in 1 .. n /\ fields'[j] = f[j - m]
      <4>1. j \notin 1 .. m
        BY <1>12, <2>2
      <4> QED
        BY <1>12, <4>1
    <3>2. i - m < j - m
      BY <1>12
    <3> QED
      BY <1>17, <2>2, <3>1, <3>2
  <2> QED
    BY <1>12, <2>1, <2>2
<1>20. \A i \in 1 .. Len(relocs') :
         \E k \in 1 .. Len(fields') : RelocatedBy(fields'[k], relocs'[i])
  <2> TAKE i \in 1 .. Len(relocs')
  <2>1. CASE i \in 1 .. l /\ relocs'[i] = relocs[i]
    <3>1. PICK k \in 1 .. m : RelocatedBy(fields[k], relocs[i])
      BY <1>15, <2>1
    <3> QED
      BY <1>12, <2>1, <3>1
  <2>2. CASE i - l \in 1 .. Len(kept) /\ relocs'[i] = q[i - l]
    <3> DEFINE j == i - l
    <3>1. j \in 1 .. Len(kept) /\ relocs'[i] = q[j]
      BY <2>2
    <3> HIDE DEF j
    <3>2. PICK k \in 1 .. n : kept[j] = refs[k]
      BY <1>6, <3>1
    <3>3. q[j] = Reloc(refs[k], Current)
      BY <1>5, <3>1, <3>2
    <3>4. RelocatedBy(f[k], q[j])
      BY <1>10, <3>3 DEF RelocatedBy, Reloc
    <3> QED
      BY <1>12, <3>1, <3>4
  <2> QED
    BY <1>13, <2>1, <2>2
<1> QED
  BY <1>18, <1>19, <1>20 DEF SpansInv, RelocatedBy

(* SpansInv is inductive.                                                  *)
LEMMA SpansPreserved ==
  TypeInv /\ PhaseInv /\ LayoutInv /\ EncodeInv /\ SpansInv /\ [Next]_vars => SpansInv'
<1> SUFFICES ASSUME TypeInv, PhaseInv, LayoutInv, EncodeInv, SpansInv, [Next]_vars
             PROVE  SpansInv'
  OBVIOUS
<1>1. CASE EncodeItem
  BY <1>1, SpansEncoded
<1>2. CASE pc' \in {"read", "literals"}
  <2>1. fields' = << >> /\ relocs' = << >>
    BY <1>2, PhasePreserved DEF PhaseInv
  <2>2. Len(fields') = 0 /\ Len(relocs') = 0
    BY <2>1
  <2> QED
    BY <2>2 DEF SpansInv
<1>3. CASE UNCHANGED <<source, items, symbols, origin, encoding>>
  BY <1>3 DEF SpansInv, RelocatedBy, encoding
<1> QED
  BY <1>1, <1>2, <1>3, EarlyOrQuiet

-----------------------------------------------------------------------------
(* Includes.                                                               *)

(* Calls that return, and calls that move on, stay in their files.         *)
LEMMA FilesKept ==
  ASSUME TypeInv, IncludeInv, UNCHANGED <<program, included>>,
         frames' \in Seq(Frames), Len(frames') <= Len(frames),
         \A i \in 1 .. Len(frames') : frames'[i].file = frames[i].file
  PROVE  IncludeInv'
<1>1. /\ frames \in Seq(Frames) /\ Len(frames) \in Nat /\ Len(frames') \in Nat
      /\ DOMAIN frames = 1 .. Len(frames) /\ DOMAIN frames' = 1 .. Len(frames')
  BY DEF TypeInv
<1>2. \A i \in DOMAIN frames' : i \in DOMAIN frames
  BY <1>1
<1>3. Forces(program)' = Forces(program)
  BY DEF Forces
<1>4. \A i \in DOMAIN frames' : frames'[i].file = frames[i].file
  BY <1>1
<1> QED
  BY <1>2, <1>3, <1>4 DEF IncludeInv

LEMMA SteppedIncludes ==
  ASSUME TypeInv, IncludeInv, InFile, NEW n \in Nat, frames' = Stepped(n),
         UNCHANGED <<source, included>>
  PROVE  IncludeInv'
<1>1. /\ Stepped(n) \in Seq(Frames) /\ Len(Stepped(n)) = Len(frames)
      /\ \A i \in 1 .. Len(frames) : Stepped(n)[i].file = frames[i].file
  BY SteppedFacts
<1> DEFINE g == Stepped(n)
<1> HIDE DEF g
<1>2. g \in Seq(Frames) /\ Len(g) = Len(frames) /\ frames' = g
  BY <1>1 DEF g
<1>3. \A i \in 1 .. Len(g) : g[i].file = frames[i].file
  BY <1>1 DEF g
<1>4. Len(frames) \in Nat /\ program' = program /\ included' = included
  BY DEF TypeInv, source
<1> QED
  BY <1>2, <1>3, <1>4, FilesKept

(* Without force a file that is entered was never entered before.          *)
LEMMA NewFileIncluded == TypeInv /\ IncludeInv /\ Include => IncludeInv'
<1> SUFFICES ASSUME TypeInv, IncludeInv, Include
             PROVE  IncludeInv'
  OBVIOUS
<1> DEFINE g == Stepped(0)
           x == Frame(Here.file, 1, local_pc)
<1>1. /\ InFile /\ Here.op = "include" /\ Here.file \in DOMAIN program
      /\ Here.force \/ Here.file \notin included
      /\ included' = IF Here.force THEN included ELSE Interned(Here.file)
      /\ frames' = Append(g, x) /\ program' = program
  BY DEF Include, Enters, source
<1>2. /\ g \in Seq(Frames) /\ Len(g) = Len(frames)
      /\ \A i \in 1 .. Len(frames) : g[i].file = frames[i].file
  BY <1>1, SteppedFacts
<1> HIDE DEF g
<1>4. x.file = Here.file
  BY DEF Frame
<1> HIDE DEF x
<1>5. Len(frames) \in Nat /\ DOMAIN frames = 1 .. Len(frames)
  BY DEF TypeInv
<1> DEFINE l == Len(frames)
<1>6. /\ DOMAIN frames' = 1 .. l + 1
      /\ \A i \in 1 .. l : frames'[i].file = frames[i].file
      /\ frames'[l + 1].file = Here.file
  <2>1. Len(g) = l /\ l \in Nat /\ frames' = Append(g, x) /\ g \in Seq(Frames)
    BY <1>1, <1>2, <1>5
  <2>2. /\ DOMAIN frames' = 1 .. l + 1 /\ frames'[l + 1] = x
        /\ \A i \in 1 .. l : frames'[i] = g[i]
    BY <2>1
  <2> QED
    BY <1>2, <1>4, <2>2
<1> HIDE DEF l
<1>7. l \in Nat /\ DOMAIN frames = 1 .. l
  BY <1>5 DEF l
<1>8. included' \subseteq DOMAIN program'
  BY <1>1 DEF IncludeInv, Interned
<1>9. Forces(program)' = Forces(program)
  BY <1>1 DEF Forces
<1>10. ASSUME ~Forces(program)
       PROVE  /\ \A i \in DOMAIN frames' : frames'[i].file \in included'
              /\ \A i, j \in DOMAIN frames' : frames'[i].file = frames'[j].file => i = j
  <2>1. ~Here.force
    <3>1. Top.file \in DOMAIN program /\ Top.line \in Nat \ {0}
      BY <1>1, TopFacts DEF InFile
    <3>2. Top.line <= Len(program[Top.file]) /\ program \in Programs
      BY <1>1 DEF InFile, TypeInv
    <3>3. Top.line \in DOMAIN program[Top.file]
      <4>1. Len(program[Top.file]) \in Nat
        BY <3>1, <3>2, ProgramsAssumption
      <4> QED
        BY <3>1, <3>2, <4>1
    <3> QED
      BY <1>1, <1>10, <3>1, <3>3 DEF Forces, Here
  <2>2. Here.file \notin included /\ included' = included \cup {Here.file}
    BY <1>1, <2>1 DEF Interned
  <2>3. /\ \A i \in 1 .. l : frames[i].file \in included
        /\ \A i, j \in 1 .. l : frames[i].file = frames[j].file => i = j
    BY <1>7, <1>10 DEF IncludeInv
  <2>4. \A i \in DOMAIN frames' : i \in 1 .. l \/ i = l + 1
    BY <1>6, <1>7
  <2>5. \A i \in DOMAIN frames' : frames'[i].file \in included'
    BY <1>6, <2>2, <2>3, <2>4
  <2>6. \A i \in 1 .. l : frames'[i].file # frames'[l + 1].file
    BY <1>6, <2>2, <2>3
  <2> QED
    BY <1>6, <2>3, <2>4, <2>5, <2>6
<1> QED
  BY <1>8, <1>9, <1>10 DEF IncludeInv

(* IncludeInv is inductive.                                                *)
LEMMA IncludesPreserved == TypeInv /\ IncludeInv /\ [Next]_vars => IncludeInv'
<1> SUFFICES ASSUME TypeInv, IncludeInv, [Next]_vars
             PROVE  IncludeInv'
  OBVIOUS
<1>1. CASE Emits
  <2>1. InFile /\ UNCHANGED <<source, included>>
    BY <1>1 DEF Emits
  <2>2. CASE frames' = Stepped(0)
    BY <2>1, <2>2, SteppedIncludes
  <2>3. ASSUME NEW s \in Statements, Emit(s)
        PROVE  IncludeInv'
    <3>1. local_pc \in Words
      BY <2>1, TopFacts DEF InFile
    <3>2. Size(s) \in Nat
      BY <3>1, ItemIsTyped
    <3> QED
      BY <2>1, <2>3, <3>2, SteppedIncludes DEF Emit
  <2> QED
    BY <1>1, <2>2, <2>3 DEF Emits
<1>2. CASE Moves
  BY <1>2, SteppedIncludes DEF Moves
<1>3. CASE Label
  BY <1>3, SteppedIncludes DEF Label
<1>4. CASE EndOfFile
  <2> DEFINE g == Resumed(SubSeq(frames, 1, Len(frames) - 1), local_pc)
  <2>1. /\ frames # << >> /\ frames' = g /\ UNCHANGED <<program, included>>
    BY <1>4 DEF EndOfFile, source
  <2>2. /\ g \in Seq(Frames) /\ Len(g) = Len(frames) - 1
        /\ \A i \in 1 .. Len(g) : g[i].file = frames[i].file
    BY <2>1, ResumedFacts
  <2> HIDE DEF g
  <2>3. Len(frames) \in Nat
    BY DEF TypeInv
  <2> QED
    BY <2>1, <2>2, <2>3, FilesKept
<1>5. CASE UNCHANGED <<program, frames, included>>
  BY <1>5 DEF IncludeInv, Forces
<1>6. CASE EndReading \/ PlaceLiteral \/ EndLiterals \/ EncodeItem \/ EndEncode
           \/ Write \/ WriteFails \/ Fails \/ UNCHANGED vars
  BY <1>5, <1>6 DEF EndReading, PlaceLiteral, EndLiterals, EncodeItem, EndEncode,
                    Write, WriteFails, Fails, Fail, vars, source, reading
<1> QED
  BY <1>1, <1>2, <1>3, <1>4, <1>6, NewFileIncluded, StepKinds

-----------------------------------------------------------------------------
(* The output.                                                             *)

(* The object depends on the labels, relocations and length only.          *)
LEMMA ContentsKept ==
  ASSUME UNCHANGED <<objectMode, symbols, relocs, length>>
  PROVE  Contents' = Contents
BY DEF Contents, SymbolRecords, RelocationRecords, FirstUses, Known, SymbolIndex

(* OutputInv is inductive.                                                 *)
LEMMA OutputPreserved == TypeInv /\ PhaseInv /\ OutputInv /\ [Next]_vars => OutputInv'
<1> SUFFICES ASSUME TypeInv, PhaseInv, OutputInv, [Next]_vars
             PROVE  OutputInv'
  OBVIOUS
<1>1. CASE \/ Emits \/ Moves \/ Label \/ Include \/ EndOfFile \/ EndReading
           \/ PlaceLiteral \/ EndLiterals \/ EncodeItem \/ EndEncode
  <2>1. /\ pc \in {"read", "literals", "encode"} /\ pc' # "done" /\ UNCHANGED files
    BY <1>1 DEF Emits, Moves, Label, Include, EndOfFile, EndReading, PlaceLiteral,
                EndLiterals, EncodeItem, EndEncode, InFile
  <2> QED
    BY <2>1 DEF OutputInv, files
<1>2. CASE Fails
  <2>1. /\ pc \in {"read", "literals", "encode", "write"} /\ pc' = "failed"
        /\ UNCHANGED files
    BY <1>2 DEF Fails, Fail
  <2> QED
    BY <2>1 DEF OutputInv, files
<1>3. CASE Write \/ WriteFails
  <2>1. /\ pc = "write" /\ pc' \in {"done", "failed"}
        /\ UNCHANGED <<source, frames, literals, items, symbols, encoding>>
        /\ \/ bso' = Contents /\ pc' = "done" /\ (objectMode => length < Word)
           \/ bso' = bso /\ output' # "written"
    BY <1>3 DEF Write, WriteFails, FitsObject, reading
  <2>2. frames = << >> /\ literals = << >> /\ Len(placed) = Len(items)
    BY <2>1 DEF PhaseInv
  <2>3. Contents' = Contents
    BY <2>1, ContentsKept DEF source, encoding
  <2>4. bso = << >>
    BY <2>1 DEF OutputInv
  <2> QED
    BY <2>1, <2>2, <2>3, <2>4 DEF OutputInv, encoding, source
<1>4. CASE UNCHANGED vars
  <2>1. Contents' = Contents
    BY <1>4, ContentsKept DEF vars
  <2> QED
    BY <1>4, <2>1 DEF vars, OutputInv
<1> QED
  BY <1>1, <1>2, <1>3, <1>4, StepKinds

-----------------------------------------------------------------------------
(* The invariant holds at the start, and every step keeps it.              *)
LEMMA InitInv == Init => Inv
<1> SUFFICES ASSUME Init
             PROVE  Inv
  OBVIOUS
<1>1. TypeInv /\ LayoutInv
  BY InitTyped, InitLaidOut
<1>2. /\ pc = "read" /\ placed = << >> /\ fields = << >> /\ relocs = << >> /\ length = 0
      /\ bso = << >> /\ output = "untouched" /\ frames = <<Frame(Root, 1, 0)>>
      /\ included = {Root} /\ Root \in DOMAIN program
  BY RootAssumption DEF Init
<1>3. PhaseInv /\ OutputInv
  BY <1>2 DEF PhaseInv, OutputInv
<1>4. Len(placed) = 0 /\ Len(relocs) = 0 /\ Len(fields) = 0 /\ DOMAIN placed = {}
      /\ DOMAIN fields = {}
  BY <1>2
<1>5. EncodeInv
  <2>1. Len(items) \in Nat
    BY <1>1 DEF TypeInv
  <2>2. 0 % Word = 0
    BY WordFacts
  <2> QED
    BY <1>2, <1>4, <2>1, <2>2 DEF EncodeInv, StartOf, EndOf, EndIn
<1>6. FieldsInv /\ RelocsInv /\ SpansInv
  BY <1>4 DEF FieldsInv, RelocsInv, RelocsOrdered, SpansInv
<1>7. IncludeInv
  <2>1. DOMAIN frames = {1} /\ frames[1].file = Root
    BY <1>2 DEF Frame
  <2> QED
    BY <1>2, <2>1 DEF IncludeInv
<1> QED
  BY <1>1, <1>3, <1>5, <1>6, <1>7 DEF Inv

(* The files and the kind of output stay what they are.                    *)
LEMMA SourceKept == TypeInv /\ [Next]_vars => UNCHANGED source
<1> SUFFICES ASSUME TypeInv, [Next]_vars
             PROVE  UNCHANGED source
  OBVIOUS
<1>1. CASE Emits \/ Moves
  BY <1>1 DEF Emits, Moves
<1>2. CASE Label \/ Include \/ EndOfFile \/ EndReading
  BY <1>2 DEF Label, Include, EndOfFile, EndReading
<1>3. CASE PlaceLiteral \/ EndLiterals \/ EncodeItem \/ EndEncode
  BY <1>3 DEF PlaceLiteral, EndLiterals, EncodeItem, EndEncode
<1>4. CASE Write \/ WriteFails \/ Fails
  BY <1>4 DEF Write, WriteFails, Fails, Fail
<1>5. CASE UNCHANGED vars
  BY <1>5 DEF vars, source
<1> QED
  BY StepKinds, <1>1, <1>2, <1>3, <1>4, <1>5

LEMMA StepInv == Inv /\ [Next]_vars => Inv'
BY TypePreserved, PhasePreserved, LayoutPreserved, EncodePreserved,
   FieldsPreserved, RelocsPreserved, SpansPreserved, IncludesPreserved,
   OutputPreserved DEF Inv

(* All layers of the invariant hold in every state of every program.       *)
THEOREM Invariance == Spec => []Inv
<1>1. Init => Inv
  BY InitInv
<1>2. Inv /\ [Next]_vars => Inv'
  BY StepInv
<1> QED
  BY <1>1, <1>2, PTL DEF Spec

-----------------------------------------------------------------------------
(* What the invariant implies, property by property.                       *)
LEMMA Typed == Inv => TypeOK
<1> SUFFICES ASSUME TypeInv, EncodeInv
             PROVE  TypeOK
  BY DEF Inv
<1>1. \A i \in DOMAIN frames :
        /\ frames[i].file \in DOMAIN program
        /\ frames[i].line \in 1 .. Len(program[frames[i].file]) + 1
        /\ frames[i].at \in 0 .. Word - 1
  <2> TAKE i \in DOMAIN frames
  <2>1. frames[i] \in Frames /\ i \in 1 .. Len(frames)
    BY DEF TypeInv
  <2>2. /\ frames[i].file \in DOMAIN program /\ frames[i].line \in Nat \ {0}
        /\ frames[i].at \in Words
    BY <2>1 DEF Frames
  <2>3. Len(program[frames[i].file]) \in Nat
    BY <2>2, ProgramsAssumption DEF TypeInv
  <2>4. frames[i].line <= Len(program[frames[i].file]) + 1
    BY <2>1 DEF TypeInv
  <2> QED
    BY <2>2, <2>3, <2>4 DEF Words
<1>2. \A i \in DOMAIN symbols : symbols[i].address \in 0 .. Word - 1
  <2> TAKE i \in DOMAIN symbols
  <2>1. symbols[i] \in Labels
    BY DEF TypeInv
  <2> QED
    BY <2>1 DEF Labels, Words
<1>3. \A i \in DOMAIN items : items[i].offset \in 0 .. Word - 1
  <2> TAKE i \in DOMAIN items
  <2>1. items[i] \in Items
    BY DEF TypeInv
  <2> QED
    BY <2>1 DEF Items, Words
<1>4. origin.base \in 0 .. Word - 1 /\ shared \in 0 .. Word - 1
  BY DEF TypeInv, Words
<1> QED
  BY <1>1, <1>2, <1>3, <1>4 DEF TypeOK, TypeInv, EncodeInv

LEMMA LaidOut == Inv => LayoutHolds
<1> SUFFICES ASSUME TypeInv, PhaseInv, LayoutInv, EncodeInv
             PROVE  LayoutHolds
  BY DEF Inv
<1>1. /\ Len(placed) \in Nat /\ DOMAIN placed = 1 .. Len(placed)
      /\ DOMAIN symbols = 1 .. Len(symbols) /\ Len(items) \in Nat
      /\ Len(placed) <= Len(items)
  BY DEF TypeInv, EncodeInv
<1>2. \A i \in DOMAIN placed : placed[i] % Word = items[i].offset
  BY DEF EncodeInv
<1>3. ASSUME NEW i \in DOMAIN symbols, NEW before, before = symbols[i].before
      PROVE  /\ before < Len(placed) => placed[before + 1] % Word = symbols[i].address
             /\ pc = "write" /\ before = Len(items) => length % Word = symbols[i].address
  <2>1. before \in 0 .. Len(items) /\ symbols[i].address = EndOf(before)
    BY <1>1, <1>3 DEF LayoutInv, LabelsLaidOut
  <2>2. ASSUME before < Len(placed)
        PROVE  placed[before + 1] % Word = symbols[i].address
    <3>1. before + 1 \in DOMAIN placed /\ before + 1 \in 1 .. Len(items)
          /\ (before + 1) - 1 = before
      BY <1>1, <2>1, <2>2
    <3>2. items[before + 1].offset = EndOf((before + 1) - 1)
      BY <3>1 DEF LayoutInv, ItemsLaidOut
    <3> QED
      BY <1>2, <2>1, <3>1, <3>2
  <2>3. ASSUME pc = "write", before = Len(items)
        PROVE  length % Word = symbols[i].address
    BY <2>1, <2>3 DEF PhaseInv, EncodeInv
  <2> QED
    BY <2>2, <2>3
<1> QED
  BY <1>2, <1>3 DEF LayoutHolds

(* Calls that are open are in different files, so the files bound them.    *)
LEMMA Acyclic == Inv => IncludesAreAcyclic
<1> SUFFICES ASSUME TypeInv, IncludeInv, ~Forces(program)
             PROVE  Len(frames) <= Cardinality(DOMAIN program)
  BY DEF Inv, IncludesAreAcyclic
<1>1. IsFiniteSet(DOMAIN program)
  BY ProgramsAssumption DEF TypeInv
<1> DEFINE l == Len(frames)
           f == [i \in 1 .. l |-> frames[i].file]
<1>2. l \in Nat /\ DOMAIN frames = 1 .. l
  BY DEF TypeInv
<1>3. /\ \A i \in 1 .. l : frames[i].file \in DOMAIN program
      /\ \A i, j \in 1 .. l : frames[i].file = frames[j].file => i = j
  BY <1>2 DEF IncludeInv
<1> HIDE DEF l
<1>4. f \in Injection(1 .. l, DOMAIN program)
  BY <1>3 DEF Injection, IsInjective
<1>5. Cardinality(1 .. l) = l
  BY <1>2, FS_Interval
<1> HIDE DEF f
<1> QED
  BY <1>1, <1>4, <1>5, FS_Injection DEF l

(* A field of an object has its relocation, and only that one because      *)
(* offsets of relocations grow.                                            *)
LEMMA Resolved == Inv => ReferencesResolved
<1> SUFFICES ASSUME TypeInv, FieldsInv, RelocsInv
             PROVE  ReferencesResolved
  BY DEF Inv
<1>1. /\ fields \in Seq(FieldsOf) /\ relocs \in Seq(RelocsOf) /\ placed \in Seq(Nat)
      /\ DOMAIN fields = 1 .. Len(fields) /\ DOMAIN relocs = 1 .. Len(relocs)
      /\ Len(relocs) <= Len(fields)
  BY DEF TypeInv, RelocsInv
<1>2. Word \in Nat \ {0} /\ Words \subseteq Int
  BY WordFacts DEF Words
<1>3. ASSUME NEW k \in DOMAIN fields, NEW f, f = fields[k],
             NEW mine, mine = {i \in DOMAIN relocs : RelocatedBy(f, relocs[i])}
      PROVE  /\ placed[f.item] < f.at + 1
             /\ f.at + f.width <= ItemEnd(f.item)
             /\ (f.rel /\ Known(f.name)) \/ ~objectMode =>
                  /\ mine = {}
                  /\ Known(f.name)
                  /\ (Pointed(f) - AddressOf(f.name)) % Word = 0
             /\ objectMode /\ ~(f.rel /\ Known(f.name)) =>
                  /\ mine # {}
                  /\ length <= Word => Cardinality(mine) = 1
                  /\ \A i \in mine :
                       (relocs[i].addend + (IF f.rel THEN ItemEnd(f.item) ELSE 0))
                         % Word = 0
  <2>1. f \in FieldsOf /\ FieldInv(f) /\ IsRelocated(f)
    BY <1>1, <1>3 DEF FieldsInv, RelocsInv
  <2>2. /\ f.at \in Nat /\ f.width \in Nat /\ f.rel \in BOOLEAN /\ f.item \in DOMAIN placed
    BY <2>1 DEF FieldsOf, Widths, FieldInv
  <2>3. placed[f.item] \in Nat /\ placed[f.item] <= f.at
    BY <1>1, <2>1, <2>2 DEF FieldInv
  <2>4. \A i \in mine : /\ i \in 1 .. Len(relocs) /\ RelocatedBy(f, relocs[i])
                        /\ RelocInv(relocs[i]) /\ relocs[i] \in RelocsOf
    BY <1>1, <1>3 DEF RelocsInv
  <2>5. \A i \in mine : /\ relocs[i].kind.rel = f.rel /\ relocs[i].kind.width = f.width
                        /\ relocs[i].offset = f.at % Word /\ relocs[i].symbol = f.name
    BY <2>4 DEF RelocatedBy
  <2>6. ASSUME (f.rel /\ Known(f.name)) \/ ~objectMode
        PROVE  /\ mine = {} /\ Known(f.name)
               /\ (Pointed(f) - AddressOf(f.name)) % Word = 0
    <3>1. ASSUME NEW i \in mine
          PROVE  FALSE
      BY <2>4, <2>5, <2>6, <3>1 DEF RelocInv
    <3> QED
      BY <2>1, <2>6, <3>1 DEF FieldInv
  <2>7. ASSUME objectMode, ~(f.rel /\ Known(f.name))
        PROVE  mine # {}
    BY <1>1, <1>3, <2>1, <2>7 DEF IsRelocated
  <2>8. ASSUME NEW i \in mine, NEW j \in mine, length <= Word
        PROVE  i = j
    <3>1. /\ relocs[i].offset = relocs[j].offset /\ i \in 1 .. Len(relocs)
          /\ j \in 1 .. Len(relocs) /\ relocs[i].offset \in Int
      BY <1>2, <2>4, <2>5 DEF RelocsOf
    <3>2. /\ i < j => relocs[i].offset < relocs[j].offset
          /\ j < i => relocs[j].offset < relocs[i].offset
      BY <2>8, <3>1 DEF RelocsInv, RelocsOrdered
    <3> QED
      BY <3>1, <3>2
  <2>9. ASSUME mine # {}, length <= Word
        PROVE  Cardinality(mine) = 1
    <3>1. PICK i : i \in mine
      BY <2>9
    <3>2. mine = {i}
      BY <2>8, <2>9, <3>1
    <3> QED
      BY <3>2, FS_Singleton
  <2>10. ASSUME NEW i \in mine
         PROVE  (relocs[i].addend + (IF f.rel THEN ItemEnd(f.item) ELSE 0)) % Word = 0
    <3> DEFINE a == relocs[i].addend
               x == f.at
               w == f.width
    <3>1. a \in Int
      BY <2>4 DEF RelocsOf
    <3>2. CASE f.rel
      <4>1. ItemEnd(f.item) = x + w
        BY <2>1, <3>2 DEF FieldInv
      <4>2. (a + relocs[i].offset + relocs[i].kind.width) % Word = 0
        BY <2>4, <2>5, <3>2 DEF RelocInv
      <4>3. (a + (x % Word) + w) % Word = 0
        BY <2>5, <4>2
      <4>4. x \in Int /\ w \in Int
        BY <2>2
      <4> HIDE DEF a, x, w
      <4>5. x % Word \in Int /\ a + w \in Int
        BY <1>2, <3>1, <4>4, IntDivision
      <4>6. ((x % Word) + (a + w)) % Word = (x + (a + w)) % Word
        BY <1>2, <4>4, <4>5, RemainderOfSum
      <4> DEFINE y == x % Word
      <4>7. (a + y + w) = y + (a + w) /\ x + (a + w) = a + (x + w)
        <5>1. y \in Int
          BY <4>5
        <5> HIDE DEF y
        <5> QED
          BY <3>1, <4>4, <5>1
      <4>8. (a + (x + w)) % Word = 0
        BY <4>3, <4>6, <4>7
      <4> QED
        BY <3>2, <4>1, <4>8 DEF a
    <3>3. CASE ~f.rel
      <4>1. a = 0
        BY <2>4, <2>5, <3>3 DEF RelocInv
      <4>2. (0 + 0) % Word = 0
        BY <1>2
      <4> QED
        BY <3>3, <4>1, <4>2
    <3> QED
      BY <3>2, <3>3
  <2> QED
    BY <2>1, <2>2, <2>3, <2>6, <2>7, <2>9, <2>10 DEF FieldInv
<1> QED
  BY <1>1, <1>3 DEF ReferencesResolved

-----------------------------------------------------------------------------
(* The undefined names: every use of one has a first use.                  *)
IsFirstUse(i) ==
  /\ ~Known(relocs[i].symbol)
  /\ \A j \in 1 .. i - 1 : relocs[j].symbol # relocs[i].symbol

(* The first uses, each of another name, and that every use has one.       *)
LEMMA FirstUseFacts ==
  ASSUME TypeInv
  PROVE  /\ FirstUses \in Seq(DOMAIN relocs)
         /\ \A k \in DOMAIN FirstUses : ~Known(relocs[FirstUses[k]].symbol)
         /\ \A j, k \in DOMAIN FirstUses :
              relocs[FirstUses[j]].symbol = relocs[FirstUses[k]].symbol => j = k
         /\ \A i \in DOMAIN relocs : ~Known(relocs[i].symbol) =>
              \E k \in DOMAIN FirstUses :
                relocs[FirstUses[k]].symbol = relocs[i].symbol
<1> DEFINE l == Len(relocs)
           s == [i \in DOMAIN relocs |-> i]
           S == {i \in DOMAIN relocs : IsFirstUse(i)}
           u == Selected(s, S)
<1>1. FirstUses = u
  BY DEF FirstUses, IsFirstUse
<1>2. l \in Nat /\ DOMAIN relocs = 1 .. l
  BY DEF TypeInv
<1> HIDE DEF l
<1>3. s \in Seq(1 .. l) /\ Len(s) = l /\ \A i \in 1 .. l : s[i] = i
  BY <1>2
<1>4. S \subseteq 1 .. l /\ \A i \in S : IsFirstUse(i)
  BY <1>2
<1>5. \A i \in 1 .. l : IsFirstUse(i) => i \in S
  BY <1>2
<1> HIDE DEF s, S
<1>6. u \in Seq(1 .. l) /\ \E h : IsSelection(h, u, l, s, S)
  BY <1>3, SelectedFacts
<1> HIDE DEF u
<1>7. PICK h : IsSelection(h, u, l, s, S)
  BY <1>6
<1>8. DOMAIN u = 1 .. Len(u)
  BY <1>6
<1>9. \A k \in 1 .. Len(u) : h[k] \in 1 .. l /\ h[k] \in S /\ u[k] = h[k]
  BY <1>3, <1>7 DEF IsSelection
<1>10. \A k \in DOMAIN u : ~Known(relocs[u[k]].symbol)
  BY <1>4, <1>8, <1>9 DEF IsFirstUse
<1>11. ASSUME NEW i \in 1 .. l, ~Known(relocs[i].symbol)
       PROVE  \E k \in DOMAIN u : relocs[u[k]].symbol = relocs[i].symbol
  <2> DEFINE M == {j \in 1 .. l : relocs[j].symbol = relocs[i].symbol}
  <2>1. M \in SUBSET Nat /\ M # {}
    BY <1>2
  <2>2. PICK m \in M : \A j \in M : m <= j
    BY <2>1, LeastElement
  <2>3. m \in 1 .. l /\ relocs[m].symbol = relocs[i].symbol
    OBVIOUS
  <2>4. \A j \in 1 .. m - 1 : relocs[j].symbol # relocs[m].symbol
    <3> TAKE j \in 1 .. m - 1
    <3>1. j \in 1 .. l /\ ~(m <= j)
      BY <1>2, <2>3
    <3>2. j \notin M
      BY <2>2, <3>1
    <3> QED
      BY <2>3, <3>1, <3>2
  <2>5. IsFirstUse(m)
    BY <1>11, <2>3, <2>4 DEF IsFirstUse
  <2>6. m \in (1 .. l) \cap S
    BY <1>5, <2>3, <2>5
  <2>7. PICK k \in 1 .. Len(u) : h[k] = m
    BY <1>7, <2>6 DEF IsSelection
  <2>8. u[k] = m
    BY <1>9, <2>7
  <2> QED
    BY <1>8, <2>3, <2>7, <2>8
<1>12. ASSUME NEW j \in DOMAIN u, NEW k \in DOMAIN u, j < k
       PROVE  relocs[u[j]].symbol # relocs[u[k]].symbol
  <2>1. h[j] < h[k]
    BY <1>7, <1>8, <1>12 DEF IsSelection
  <2>2. h[j] \in 1 .. h[k] - 1
    BY <1>2, <1>8, <1>9, <2>1
  <2>3. IsFirstUse(h[k])
    BY <1>4, <1>8, <1>9
  <2> QED
    BY <1>8, <1>9, <2>2, <2>3 DEF IsFirstUse
<1>13. \A j, k \in DOMAIN u : relocs[u[j]].symbol = relocs[u[k]].symbol => j = k
  <2>1. Len(u) \in Nat
    BY <1>6
  <2> QED
    BY <1>8, <1>12, <2>1
<1> QED
  BY <1>1, <1>2, <1>6, <1>10, <1>11, <1>13

(* What an index finds: every label and every name that is relocated has   *)
(* one record, and no other name has.                                      *)
LEMMA RecordFacts ==
  ASSUME TypeInv, LabelsUnique
  PROVE  /\ Len(SymbolRecords) \in Nat
         /\ DOMAIN SymbolRecords = 1 .. Len(SymbolRecords)
         /\ \A i \in DOMAIN relocs : \E k \in DOMAIN SymbolRecords :
              SymbolRecords[k].name = relocs[i].symbol
         /\ \A i \in DOMAIN symbols : \E k \in DOMAIN SymbolRecords :
              SymbolRecords[k].name = symbols[i].name
         /\ \A k \in DOMAIN SymbolRecords :
              \/ \E i \in DOMAIN symbols : SymbolRecords[k].name = symbols[i].name
              \/ \E i \in DOMAIN relocs : SymbolRecords[k].name = relocs[i].symbol
         /\ \A j, k \in DOMAIN SymbolRecords :
              SymbolRecords[j].name = SymbolRecords[k].name => j = k
         /\ \A k \in DOMAIN SymbolRecords :
              LET s == SymbolRecords[k]
              IN  /\ s.defined = Known(s.name)
                  /\ s.defined => s.value = AddressOf(s.name)
<1> DEFINE n == Len(symbols)
           m == Len(FirstUses)
           p == [i \in DOMAIN symbols |->
                   SymbolRecord(symbols[i].name, symbols[i].address, TRUE)]
           q == [i \in DOMAIN FirstUses |->
                   SymbolRecord(relocs[FirstUses[i]].symbol, 0, FALSE)]
           t == SymbolRecords
           R == {p[i] : i \in 1 .. n} \cup {q[i] : i \in 1 .. m}
<1>1. n \in Nat /\ DOMAIN symbols = 1 .. n
  BY DEF TypeInv
<1>2. FirstUses \in Seq(DOMAIN relocs) /\ m \in Nat /\ DOMAIN FirstUses = 1 .. m
  BY FirstUseFacts
<1>3. t = p \o q
  BY DEF SymbolRecords
<1>4. \A i \in 1 .. n : /\ p[i].name = symbols[i].name
                        /\ p[i].value = symbols[i].address
                        /\ p[i].defined = TRUE
  <2> TAKE i \in 1 .. n
  <2>1. p[i] = SymbolRecord(symbols[i].name, symbols[i].address, TRUE)
    BY <1>1
  <2> HIDE DEF p
  <2>2. p[i].name = symbols[i].name
    BY <2>1 DEF SymbolRecord
  <2>3. p[i].value = symbols[i].address
    BY <2>1 DEF SymbolRecord
  <2>4. p[i].defined = TRUE
    BY <2>1 DEF SymbolRecord
  <2> QED
    BY <2>2, <2>3, <2>4
<1>5. \A i \in 1 .. m : /\ q[i].name = relocs[FirstUses[i]].symbol
                        /\ q[i].defined = FALSE
  <2> TAKE i \in 1 .. m
  <2>1. q[i] = SymbolRecord(relocs[FirstUses[i]].symbol, 0, FALSE)
    BY <1>2
  <2> HIDE DEF q
  <2>2. q[i].name = relocs[FirstUses[i]].symbol
    BY <2>1 DEF SymbolRecord
  <2>3. q[i].defined = FALSE
    BY <2>1 DEF SymbolRecord
  <2> QED
    BY <2>2, <2>3
<1>6. DOMAIN p = 1 .. n /\ DOMAIN q = 1 .. m
  BY <1>1, <1>2
<1>7. p = [i \in 1 .. n |-> p[i]] /\ q = [i \in 1 .. m |-> q[i]]
  BY <1>1, <1>2
<1> HIDE DEF p, q
<1>8. p \in Seq(R) /\ Len(p) = n
  <2>1. \A i \in 1 .. n : p[i] \in R
    OBVIOUS
  <2> HIDE DEF R
  <2>2. p \in [1 .. n -> R]
    BY <1>6, <1>7, <2>1
  <2> QED
    BY <1>1, <2>2
<1>9. q \in Seq(R) /\ Len(q) = m
  <2>1. \A i \in 1 .. m : q[i] \in R
    OBVIOUS
  <2> HIDE DEF R
  <2>2. q \in [1 .. m -> R]
    BY <1>6, <1>7, <2>1
  <2> QED
    BY <1>2, <2>2
<1> HIDE DEF R, t, n, m
<1>10. /\ DOMAIN t = 1 .. Len(t)
       /\ \A i \in 1 .. n : i \in 1 .. Len(t) /\ t[i] = p[i]
       /\ \A i \in 1 .. m : n + i \in 1 .. Len(t) /\ t[n + i] = q[i]
       /\ \A i \in 1 .. Len(t) : \/ i \in 1 .. n /\ t[i] = p[i]
                                 \/ i - n \in 1 .. m /\ t[i] = q[i - n]
  <2>1. p \in Seq(R) /\ q \in Seq(R) /\ t = p \o q
    BY <1>3, <1>8, <1>9
  <2>2. /\ DOMAIN t = 1 .. Len(t)
        /\ \A i \in 1 .. Len(p) : i \in 1 .. Len(t) /\ t[i] = p[i]
        /\ \A i \in 1 .. Len(q) : Len(p) + i \in 1 .. Len(t) /\ t[Len(p) + i] = q[i]
        /\ \A i \in 1 .. Len(t) :
             \/ i \in 1 .. Len(p) /\ t[i] = p[i]
             \/ i - Len(p) \in 1 .. Len(q) /\ t[i] = q[i - Len(p)]
    BY <2>1, JoinedPlaces
  <2> QED
    BY <1>8, <1>9, <2>2
<1>11. ASSUME NEW i \in DOMAIN relocs
       PROVE  \E k \in DOMAIN t : t[k].name = relocs[i].symbol
  <2>1. CASE Known(relocs[i].symbol)
    <3>1. PICK k \in 1 .. n : symbols[k].name = relocs[i].symbol
      BY <1>1, <2>1 DEF Known
    <3>2. k \in DOMAIN t /\ t[k].name = symbols[k].name
      BY <1>4, <1>10
    <3> QED
      BY <3>1, <3>2
  <2>2. CASE ~Known(relocs[i].symbol)
    <3>1. PICK k \in 1 .. m : relocs[FirstUses[k]].symbol = relocs[i].symbol
      BY <1>2, <2>2, FirstUseFacts
    <3>2. n + k \in DOMAIN t /\ t[n + k] = q[k]
      BY <1>10
    <3>3. q[k].name = relocs[i].symbol
      BY <1>5, <3>1
    <3> QED
      BY <3>2, <3>3
  <2> QED
    BY <2>1, <2>2
<1>12. ASSUME NEW k \in DOMAIN t
       PROVE  /\ t[k].defined = Known(t[k].name)
              /\ t[k].defined => t[k].value = AddressOf(t[k].name)
  <2>1. CASE k \in 1 .. n /\ t[k] = p[k]
    <3> DEFINE a == symbols[k].name
    <3>1. t[k].name = a /\ t[k].value = symbols[k].address /\ t[k].defined = TRUE
      BY <1>4, <2>1
    <3>2. Known(a)
      BY <1>1, <2>1 DEF Known
    <3>3. PICK i \in DOMAIN symbols : /\ symbols[i].name = a
                                      /\ AddressOf(a) = symbols[i].address
      BY <3>2, LabelFacts
    <3>4. i = k
      BY <1>1, <2>1, <3>3 DEF LabelsUnique, n
    <3>5. Known(t[k].name) = TRUE
      BY <3>1, <3>2 DEF Known
    <3> QED
      BY <3>1, <3>3, <3>4, <3>5
  <2>2. CASE k - n \in 1 .. m /\ t[k] = q[k - n]
    <3> DEFINE j == k - n
    <3>1. j \in 1 .. m /\ t[k] = q[j]
      BY <2>2
    <3> HIDE DEF j
    <3>2. t[k].name = relocs[FirstUses[j]].symbol /\ t[k].defined = FALSE
      BY <1>5, <3>1
    <3>3. ~Known(t[k].name)
      BY <1>2, <3>1, <3>2, FirstUseFacts
    <3>4. Known(t[k].name) = FALSE
      BY <3>3 DEF Known
    <3> QED
      BY <3>2, <3>4
  <2> QED
    BY <1>10, <2>1, <2>2
<1>13. ASSUME NEW i \in DOMAIN symbols
       PROVE  \E k \in DOMAIN t : t[k].name = symbols[i].name
  BY <1>1, <1>4, <1>10
<1>14. ASSUME NEW k \in DOMAIN t
       PROVE  \/ \E i \in DOMAIN symbols : t[k].name = symbols[i].name
              \/ \E i \in DOMAIN relocs : t[k].name = relocs[i].symbol
  <2>1. CASE k \in 1 .. n /\ t[k] = p[k]
    BY <1>1, <1>4, <2>1
  <2>2. CASE k - n \in 1 .. m /\ t[k] = q[k - n]
    <3>1. FirstUses[k - n] \in DOMAIN relocs
      BY <1>2, <2>2
    <3> QED
      BY <1>5, <2>2, <3>1
  <2> QED
    BY <1>10, <2>1, <2>2
<1>15. ASSUME NEW j \in DOMAIN t, NEW k \in DOMAIN t, t[j].name = t[k].name
       PROVE  j = k
  <2>1. \A i \in 1 .. n : Known(p[i].name)
    BY <1>1, <1>4 DEF Known
  <2>2. \A i \in 1 .. m : ~Known(q[i].name)
    BY <1>2, <1>5, FirstUseFacts
  <2>3. \A i, g \in 1 .. n : p[i].name = p[g].name => i = g
    BY <1>4 DEF LabelsUnique, n
  <2>4. \A i, g \in 1 .. m : q[i].name = q[g].name => i = g
    BY <1>2, <1>5, FirstUseFacts
  <2>5. j \in Int /\ k \in Int
    BY <1>10
  <2>6. CASE j \in 1 .. n /\ t[j] = p[j]
    <3>1. CASE k \in 1 .. n /\ t[k] = p[k]
      BY <1>15, <2>3, <2>6, <3>1
    <3>2. CASE k - n \in 1 .. m /\ t[k] = q[k - n]
      BY <1>15, <2>1, <2>2, <2>6, <3>2
    <3> QED
      BY <1>10, <3>1, <3>2
  <2>7. CASE j - n \in 1 .. m /\ t[j] = q[j - n]
    <3>1. CASE k \in 1 .. n /\ t[k] = p[k]
      BY <1>15, <2>1, <2>2, <2>7, <3>1
    <3>2. CASE k - n \in 1 .. m /\ t[k] = q[k - n]
      <4>1. j - n = k - n
        BY <1>15, <2>4, <2>7, <3>2
      <4> QED
        BY <1>1, <2>5, <4>1
    <3> QED
      BY <1>10, <3>1, <3>2
  <2> QED
    BY <1>10, <2>6, <2>7
<1>16. Len(t) \in Nat
  <2>1. p \in Seq(R) /\ q \in Seq(R) /\ t = p \o q
    BY <1>3, <1>8, <1>9
  <2> QED
    BY <2>1, ConcatProperties
<1> QED
  BY <1>10, <1>11, <1>12, <1>13, <1>14, <1>15, <1>16 DEF t

(* What is written once everything is encoded.                             *)
LEMMA Complete == Inv => OutputIsComplete
<1> SUFFICES ASSUME TypeInv, LabelsUnique, OutputInv, output # "untouched"
             PROVE  /\ pc \in {"done", "failed"}
                    /\ frames = << >> /\ literals = << >> /\ Len(placed) = Len(items)
                    /\ \A b \in {bso[i] : i \in DOMAIN bso} :
                         /\ b.code_size = length
                         /\ \A i \in DOMAIN relocs :
                              LET s == b.symbols[b.relocations[i].symbol_index]
                              IN  /\ s.name = relocs[i].symbol
                                  /\ s.defined = Known(s.name)
                                  /\ s.defined => s.value = AddressOf(s.name)
  BY DEF Inv, LayoutInv, OutputIsComplete
<1>1. ASSUME NEW b \in {bso[i] : i \in DOMAIN bso}
      PROVE  /\ b.code_size = length
             /\ \A i \in DOMAIN relocs :
                  LET s == b.symbols[b.relocations[i].symbol_index]
                  IN  /\ s.name = relocs[i].symbol
                      /\ s.defined = Known(s.name)
                      /\ s.defined => s.value = AddressOf(s.name)
  <2> DEFINE x == [code_size |-> length, symbols |-> SymbolRecords,
                   relocations |-> RelocationRecords]
  <2>1. bso # << >> /\ bso = Contents
    BY DEF OutputInv
  <2>2. objectMode /\ bso = <<x>>
    BY <2>1 DEF Contents
  <2>3. b = x
    <3> HIDE DEF x
    <3> QED
      BY <2>2
  <2>4. /\ b.code_size = length /\ b.symbols = SymbolRecords
        /\ b.relocations = RelocationRecords
    BY <2>3
  <2>5. ASSUME NEW i \in DOMAIN relocs
        PROVE  LET s == b.symbols[b.relocations[i].symbol_index]
               IN  /\ s.name = relocs[i].symbol
                   /\ s.defined = Known(s.name)
                   /\ s.defined => s.value = AddressOf(s.name)
    <3> DEFINE c == SymbolIndex(relocs[i].symbol)
    <3>1. b.relocations[i].symbol_index = c
      BY <2>4 DEF RelocationRecords
    <3>2. c \in DOMAIN SymbolRecords /\ SymbolRecords[c].name = relocs[i].symbol
      BY RecordFacts DEF SymbolIndex
    <3>3. /\ SymbolRecords[c].defined = Known(SymbolRecords[c].name)
          /\ SymbolRecords[c].defined =>
               SymbolRecords[c].value = AddressOf(SymbolRecords[c].name)
      BY <3>2, RecordFacts
    <3> HIDE DEF c
    <3> QED
      BY <2>4, <3>1, <3>2, <3>3
  <2> QED
    BY <2>4, <2>5
<1> QED
  BY <1>1 DEF OutputInv

-----------------------------------------------------------------------------
(* What the reader of an object file needs to know of it.                  *)

(* Its symbols: one for each label and each name that is relocated.        *)
SymbolsRead(t) ==
  /\ Len(t) \in Nat /\ DOMAIN t = 1 .. Len(t)
  /\ \A j, k \in 1 .. Len(t) : t[j].name = t[k].name => j = k
  /\ \A k \in 1 .. Len(t) :
       /\ \/ \E i \in DOMAIN symbols : t[k].name = symbols[i].name
          \/ \E i \in DOMAIN relocs : t[k].name = relocs[i].symbol
       /\ t[k].defined = Known(t[k].name)
       /\ t[k].defined => t[k].value = AddressOf(t[k].name)
  /\ \A i \in DOMAIN symbols : \E k \in 1 .. Len(t) : t[k].name = symbols[i].name

(* Its relocations: those of bas, with an index for the name.              *)
RelocationsRead(q, t) ==
  /\ Len(relocs) \in Nat /\ DOMAIN relocs = 1 .. Len(relocs)
  /\ Len(q) = Len(relocs) /\ DOMAIN q = 1 .. Len(q)
  /\ \A i \in 1 .. Len(relocs) :
       /\ q[i].offset = relocs[i].offset /\ q[i].kind = relocs[i].kind
       /\ q[i].addend = relocs[i].addend
       /\ q[i].symbol_index \in 1 .. Len(t)
       /\ t[q[i].symbol_index].name = relocs[i].symbol
       /\ relocs[i].kind \in Kinds /\ relocs[i].addend \in Int
       /\ relocs[i].kind.rel => relocs[i].kind.width \in {1, 4}
  /\ \A i, j \in 1 .. Len(relocs) : i < j => relocs[i].offset < relocs[j].offset

(* Its fields: apart, and a relocation covers one of them.                 *)
FieldsRead ==
  /\ Len(fields) \in Nat /\ DOMAIN fields = 1 .. Len(fields)
  /\ \A k \in 1 .. Len(fields) : fields[k].at \in Nat /\ fields[k].width \in Widths
  /\ \A j, k \in 1 .. Len(fields) :
       j < k => fields[j].at + fields[j].width <= fields[k].at
  /\ \A i \in 1 .. Len(relocs) : \E k \in 1 .. Len(fields) :
       /\ fields[k].at = relocs[i].offset
       /\ fields[k].width = relocs[i].kind.width

Handover ==
  /\ SymbolsRead(bso[1].symbols)
  /\ RelocationsRead(bso[1].relocations, bso[1].symbols)
  /\ FieldsRead

LEMMA HandedOver ==
  ASSUME Inv, objectMode, output = "written"
  PROVE  pc = "done" /\ Handover
<1> DEFINE x == [code_size |-> length, symbols |-> SymbolRecords,
                 relocations |-> RelocationRecords]
           t == SymbolRecords
           q == RelocationRecords
<1>1. /\ TypeInv /\ LabelsUnique /\ RelocsInv /\ SpansInv
      /\ pc = "done" /\ bso = Contents /\ length < Word
  BY DEF Inv, LayoutInv, OutputInv
<1>2. bso = <<x>>
  BY <1>1 DEF Contents
<1>3. bso[1].symbols = t /\ bso[1].relocations = q
  <2>1. bso[1] = x
    <3> HIDE DEF x
    <3> QED
      BY <1>2
  <2> QED
    BY <2>1
<1>4. /\ Len(relocs) \in Nat /\ DOMAIN relocs = 1 .. Len(relocs)
      /\ relocs \in Seq(RelocsOf) /\ fields \in Seq(FieldsOf) /\ length \in Nat
      /\ Len(fields) \in Nat /\ DOMAIN fields = 1 .. Len(fields)
  BY <1>1 DEF TypeInv
<1>5. SymbolsRead(t)
  BY <1>1, RecordFacts DEF SymbolsRead
<1>6. \A k \in 1 .. Len(fields) : fields[k].at \in Nat /\ fields[k].width \in Widths
  <2>1. \A f \in FieldsOf : f.at \in Nat /\ f.width \in Widths
    BY DEF FieldsOf
  <2> QED
    BY <1>4, <2>1
<1>7. ASSUME NEW i \in 1 .. Len(relocs)
      PROVE  \E k \in 1 .. Len(fields) :
               /\ fields[k].at = relocs[i].offset
               /\ fields[k].width = relocs[i].kind.width
               /\ relocs[i].kind.rel => relocs[i].kind.width \in {1, 4}
  <2>1. PICK k \in 1 .. Len(fields) : RelocatedBy(fields[k], relocs[i])
    BY <1>1 DEF SpansInv
  <2> DEFINE a == fields[k].at
             w == fields[k].width
  <2>2. a + w <= length /\ a \in Nat /\ w \in Nat \ {0}
    BY SMTT(30), <1>1, <1>6 DEF SpansInv, Widths
  <2>3. fields[k].rel => w \in {1, 4}
    BY <1>1 DEF SpansInv
  <2>4. /\ relocs[i].offset = a % Word /\ relocs[i].kind.rel = fields[k].rel
        /\ relocs[i].kind.width = w
    BY <2>1 DEF RelocatedBy
  <2> HIDE DEF a, w
  <2>5. a % Word = a
    <3>1. Word \in Nat \ {0} /\ a \in 0 .. Word - 1
      BY <1>1, <1>4, <2>2, WordFacts
    <3> QED
      BY <3>1, SmallRemainder
  <2> QED
    BY <2>3, <2>4, <2>5 DEF a, w
<1>8. FieldsRead
  BY <1>1, <1>4, <1>6, <1>7 DEF FieldsRead, SpansInv
<1>9. \A i, j \in 1 .. Len(relocs) : i < j => relocs[i].offset < relocs[j].offset
  <2>1. length <= Word
    BY <1>1, <1>4, WordFacts
  <2> QED
    BY <1>1, <2>1 DEF RelocsInv, RelocsOrdered
<1>10. \A i \in 1 .. Len(relocs) : relocs[i].kind \in Kinds /\ relocs[i].addend \in Int
  <2>1. \A r \in RelocsOf : r.kind \in Kinds /\ r.addend \in Int
    BY DEF RelocsOf
  <2> QED
    BY <1>4, <2>1
<1>11. Len(q) = Len(relocs) /\ DOMAIN q = 1 .. Len(q)
  BY <1>4 DEF RelocationRecords
<1>12. ASSUME NEW i \in 1 .. Len(relocs)
       PROVE  /\ q[i].offset = relocs[i].offset /\ q[i].kind = relocs[i].kind
              /\ q[i].addend = relocs[i].addend
              /\ q[i].symbol_index \in 1 .. Len(t)
              /\ t[q[i].symbol_index].name = relocs[i].symbol
  <2> DEFINE c == SymbolIndex(relocs[i].symbol)
             y == [offset |-> relocs[i].offset, addend |-> relocs[i].addend,
                   symbol_index |-> c, kind |-> relocs[i].kind]
  <2>1. q[i] = y
    BY <1>4 DEF RelocationRecords
  <2>2. c \in DOMAIN t /\ t[c].name = relocs[i].symbol
    BY <1>1, <1>4, RecordFacts DEF SymbolIndex
  <2> HIDE DEF q
  <2>3. q[i].offset = relocs[i].offset /\ q[i].kind = relocs[i].kind
        /\ q[i].addend = relocs[i].addend /\ q[i].symbol_index = c
    BY <2>1
  <2> HIDE DEF c, t
  <2>4. DOMAIN t = 1 .. Len(t)
    BY <1>5 DEF SymbolsRead
  <2> QED
    BY <2>2, <2>3, <2>4
<1> HIDE DEF t, q
<1>13. RelocationsRead(q, t)
  BY <1>4, <1>7, <1>9, <1>10, <1>11, <1>12 DEF RelocationsRead
<1> QED
  BY <1>1, <1>3, <1>5, <1>8, <1>13 DEF Handover

-----------------------------------------------------------------------------
(* Every value stays in its type: counters, addresses and offsets are      *)
(* words, and a call never leaves its file but at the end.                 *)
THEOREM TypeCorrect == Spec => []TypeOK
BY Typed, Invariance, PTL

(* Every item and every label is in the output where the first pass        *)
(* counted it to be, for all programs, sizes and nestings of includes.     *)
THEOREM LayoutCorrect == Spec => []LayoutHolds
BY LaidOut, Invariance, PTL

(* Every field leads to the label it names or has one relocation whose     *)
(* addend makes up for its place, whatever the origin and the widths.      *)
THEOREM ReferencesCorrect == Spec => []ReferencesResolved
BY Resolved, Invariance, PTL

(* Without force there are no more calls open than there are files.        *)
THEOREM IncludesCorrect == Spec => []IncludesAreAcyclic
BY Acyclic, Invariance, PTL

(* The output is touched only when everything is encoded, and every        *)
(* relocation finds its name, at the label's address if it has one.        *)
THEOREM OutputCorrect == Spec => []OutputIsComplete
BY Complete, Invariance, PTL
=============================================================================
