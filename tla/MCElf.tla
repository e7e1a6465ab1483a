-------------------------------- MODULE MCElf --------------------------------
(***************************************************************************)
(* Small instances of ChsElfWriter: every list of up to MaxSymbols symbols *)
(* of every binding, hidden or not, over a few section lists with          *)
(* relocations against any of them; and a few objects at and beyond what   *)
(* the fields of the format can count.                                     *)
(***************************************************************************)
EXTENDS ChsElfWriter

CONSTANTS MaxSymbols, MCWordBits

A == INSTANCE ChsAlign WITH WordBits <- MCWordBits
MCAlignUp(v, a) == A!AlignUpWord(v, a)

MCCapacities == {64, 128, 256, 512, 1024, 2048}

MCHidden   == {"L1", "L2", "L3", "L4"}
MCDotNames == {".text", ".data"}
MCNameSize(n) ==
  CASE n \in {".symtab", ".strtab"} -> 8
    [] n = ".shstrtab" -> 10
    [] n \in {".text", ".data"} -> 6
    [] n = "__text" -> 7
    [] n \in {"f1", "f3"} -> 5
    [] n = ".near" -> 470
    [] n = ".wide" -> 520
    [] OTHER -> 3

Plain == <<"f1", "f2", "f3", "f4">>
Local == <<"L1", "L2", "L3", "L4">>

(* The bindings a symbol can end with: a label, one made global, one that  *)
(* was declared extern, and a name nobody defines.                         *)
Binding(d, g, e) == [defined |-> d, global |-> g, external |-> e]
Bindings ==
  {Binding(TRUE, FALSE, FALSE), Binding(TRUE, TRUE, FALSE),
   Binding(TRUE, FALSE, TRUE), Binding(FALSE, FALSE, FALSE)}

Symbol(i, hidden, b) ==
  [name |-> IF hidden THEN Local[i] ELSE Plain[i], defined |-> b.defined,
   global |-> b.global, external |-> b.external,
   section |-> IF b.defined THEN 1 + (i % 2) ELSE 0,
   value |-> IF b.defined THEN i ELSE 0]

SymbolLists(n) ==
  {[i \in 1 .. n |-> Symbol(i, f[i][1], f[i][2])] :
     f \in [1 .. n -> BOOLEAN \X Bindings]}

Relocation(offset, kind, symbol) ==
  [offset |-> offset, kind |-> kind, symbol |-> symbol]
Section(name, align, size, relocations) ==
  [name |-> name, align |-> align, size |-> size, relocations |-> relocations]

(* Architectures and sections for objects of n symbols.                    *)
Bodies(n) ==
  {<<"arm64", <<Section(".text", 4, 8, << >>), Section(".data", 3, 5, << >>)>>>>}
  \cup
  UNION {
    {<<"arm64", <<Section("__text", 4, 12, <<Relocation(4, "BRANCH26", a),
                                           Relocation(0, "PAGE21", b),
                                           Relocation(8, "PAGEOFF12", b)>>),
                 Section(".data", 16, 9, <<Relocation(1, "ABS64", a)>>)>>>>,
     <<"x86_64", <<Section(".text", 1, 13, <<Relocation(1, "BRANCH32", b),
                                            Relocation(5, "ABS32", b),
                                            Relocation(9, "SIGNED32", b)>>),
                  Section("empty", 1, 0, << >>),
                  Section(".data", 1, 8, <<Relocation(0, "ABS64", b)>>)>>>>} :
    a \in {1} \cap (1 .. n), b \in {1, n} \ {0}}
  \cup
  {<<"bslash", <<Section(".text", 1, 30,
      <<Relocation(0, "ABS8", a), Relocation(1, "ABS16", a),
        Relocation(3, "ABS32", a), Relocation(7, "ABS64", a),
        Relocation(15, "REL8", a), Relocation(16, "REL32", a)>>),
      Section(".data", 1, 0, << >>)>>>> : a \in {n} \cap {1}}

(* Nine sections are the last that can be counted: with ten and eleven the *)
(* header count reaches the reserved numbers, with seventeen they are cut  *)
(* to 16 values.  A long name leaves those after it below 512, a longer    *)
(* one takes them beyond.                                                  *)
Many(n) == [i \in 1 .. n |-> Section("s", 1, 1, << >>)]
Long(name) ==
  <<Section(name, 1, 1, << >>),
    Section("s", 4, 8, <<Relocation(0, "ABS64", 2)>>)>>

AtTheLimits ==
  {[arch |-> "arm64", sections |-> Many(n),
    symbols |-> <<[name |-> "f1", defined |-> TRUE, global |-> g,
                   external |-> FALSE, section |-> n, value |-> 0]>>] :
     n \in {9, 10, 11, 17}, g \in BOOLEAN}
  \cup
  {[arch |-> "arm64", sections |-> Long(p[1]),
    symbols |-> <<[Symbol(1, FALSE, b) EXCEPT !.name = p[2]],
                  Symbol(2, FALSE, b)>>] :
     p \in {<<".near", "f1">>, <<".wide", "f1">>, <<".text", ".near">>,
            <<".text", ".wide">>}, b \in Bindings}

MCObjects ==
  AtTheLimits \cup
  {[arch |-> p[1][1], sections |-> p[1][2], symbols |-> p[2]] :
     p \in UNION {Bodies(n) \X SymbolLists(n) : n \in 0 .. MaxSymbols}}
=============================================================================
