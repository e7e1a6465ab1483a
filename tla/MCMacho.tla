-------------------------------- MODULE MCMacho ------------------------------
(***************************************************************************)
(* Small instances of ChsMachoWriter: every list of up to MaxSymbols symbols *)
(* of every binding, hidden or not, over a few section lists with          *)
(* relocations against any of them, and objects with the most of something *)
(* that a field can tell apart, and with one more.                         *)
(***************************************************************************)
EXTENDS ChsMachoWriter

CONSTANTS MaxSymbols, MCWordBits

A == INSTANCE ChsAlign WITH WordBits <- MCWordBits
MCAlignUp(v, a) == A!AlignUpWord(v, a)

MCCapacities == {64, 128, 256, 512, 1024, 2048}

MCHidden   == {"L1", "L2", "L3", "L4"}
MCNameSize(n) ==
  CASE n \in {"__text", "__data"} -> 7
    [] n = "__sixteen" -> 17
    [] n = "__seventeen" -> 18
    [] n \in {"f1", "f3"} -> 5
    [] OTHER -> 3

MCFixedName(n) == IF n = "__seventeen" THEN "__sixteen" ELSE n

Plain == <<"f1", "f2", "f3", "f4">>
Local == <<"L1", "L2", "L3", "L4">>

(* The bindings a symbol can end with: a label, one made global, one that  *)
(* was declared extern, and a name nobody defines.                         *)
Binding(d, g, e) == [defined |-> d, global |-> g, external |-> e]
Bindings ==
  {Binding(TRUE, FALSE, FALSE), Binding(TRUE, TRUE, FALSE),
   Binding(TRUE, FALSE, TRUE), Binding(FALSE, FALSE, FALSE)}

Symbol(i, hidden, b) ==
  [name |-> IF hidden THEN Local[i] ELSE Plain[i], defined |-> b.defined,
   global |-> b.global, external |-> b.external,
   section |-> IF b.defined THEN 1 + (i % 2) ELSE 0,
   value |-> IF b.defined THEN i ELSE 0]

SymbolLists(n) ==
  {[i \in 1 .. n |-> Symbol(i, f[i][1], f[i][2])] :
     f \in [1 .. n -> BOOLEAN \X Bindings]}

Relocation(offset, kind, symbol) ==
  [offset |-> offset, kind |-> kind, symbol |-> symbol]
Section(name, align, size, relocations) ==
  [name |-> name, align |-> align, size |-> size, relocations |-> relocations]

(* Architectures and sections for objects of n symbols.                    *)
Bodies(n) ==
  {<<"arm64", <<Section("__text", 4, 8, << >>), Section("__data", 3, 5, << >>)>>>>}
  \cup
  UNION {
    {<<"arm64", <<Section("__text", 4, 12, <<Relocation(4, "BRANCH26", a),
                                           Relocation(0, "PAGE21", b),
                                           Relocation(8, "PAGEOFF12", b)>>),
                 Section("__data", 16, 9, <<Relocation(1, "ABS64", a)>>)>>>>,
     <<"x86_64", <<Section("__text", 1, 13, <<Relocation(1, "BRANCH32", b),
                                            Relocation(5, "ABS32", b),
                                            Relocation(9, "SIGNED32", b)>>),
                  Section("empty", 1, 0, << >>),
                  Section("__data", 1, 8, <<Relocation(0, "ABS64", b)>>)>>>>} :
    a \in {1} \cap (1 .. n), b \in {1, n} \ {0}}
  \cup
  {<<"bslash", <<Section("__text", 1, 30,
      <<Relocation(0, "ABS8", a), Relocation(1, "ABS16", a),
        Relocation(3, "ABS32", a), Relocation(7, "ABS64", a),
        Relocation(15, "REL8", a), Relocation(16, "REL32", a)>>),
      Section("__data", 1, 0, << >>)>>>> : a \in {n} \cap {1}}

(* Both kinds of file for the small objects, one for the large ones.       *)
Builds(n) == IF n < MaxSymbols THEN BOOLEAN ELSE {TRUE}

Object(body, names) ==
  [arch |-> "arm64", sections |-> body, symbols |-> names, build |-> FALSE]

Local1(i, section) ==
  [Symbol(i, FALSE, Binding(TRUE, FALSE, FALSE)) EXCEPT !.section = section]

(* Files of 1023 and 1024 bytes and one whose second section starts behind *)
(* them, three and four sections and symbols, and names of 16 and 17 bytes.*)
AtTheLimits ==
  {Object(<<Section("__text", 4, size, <<Relocation(4, "ABS64", 1)>>)>>,
          <<Local1(1, 1)>>) : size \in {705, 706}}
  \cup
  {Object(<<Section("__text", 4, 700, << >>),
            Section("__data", 8, 9, <<Relocation(1, "ABS64", 1)>>)>>,
          <<Local1(1, 2)>>)}
  \cup
  {Object([i \in 1 .. n |-> Section("__text", 1, i, << >>)],
          <<Local1(1, n)>>) : n \in {3, 4}}
  \cup
  {Object(<<Section("__text", 4, 8, <<Relocation(0, "ABS64", n)>>)>>,
          [i \in 1 .. n |-> Local1(i, 1)]) : n \in {3, 4}}
  \cup
  {Object(<<Section(name, 1, 1, << >>)>>, << >>) :
     name \in {"__sixteen", "__seventeen"}}

MCObjects ==
  {[arch |-> p[1][1], sections |-> p[1][2], symbols |-> p[2], build |-> p[3]] :
     p \in UNION {Bodies(n) \X SymbolLists(n) \X Builds(n) :
                   n \in 0 .. MaxSymbols}}
  \cup AtTheLimits
=============================================================================
