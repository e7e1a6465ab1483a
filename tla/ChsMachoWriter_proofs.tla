------------------------- MODULE ChsMachoWriter_proofs -----------------------
(***************************************************************************)
(* Proofs about the Mach-O writer.  The invariant is built in layers, each *)
(* proved with those below it: the order of the symbols, the symbol table  *)
(* and its counts, the length of the file at every step, and the pieces    *)
(* that lie where the load commands say.                                   *)
(***************************************************************************)
EXTENDS ChsMachoWriter, ChsBuffer_proofs

-----------------------------------------------------------------------------
(* The insertion sort.                                                     *)

RankOf(i) == Rank(Symbols[i])

(* Locals, then defined externals, then undefined symbols, and among       *)
(* equals the first of the object.                                         *)
Before(i, j) == RankOf(i) < RankOf(j) \/ (RankOf(i) = RankOf(j) /\ i < j)

VisibleUpTo(n) == {i \in DOMAIN Symbols : i <= n /\ ~HideSymbol(Symbols[i])}

Steps == {"collect", "sort", "symbols", "sections", "build", "data",
          "relocations", "strings", "write", "done", "failed"}

Collecting ==
  /\ k <= Len(Symbols) + 1 /\ Len(order) <= k - 1
  /\ Members(order) = VisibleUpTo(k - 1)
  /\ \A p, q \in DOMAIN order : p < q => order[p] < order[q]

(* The places before k are sorted, those from k on as they were collected. *)
Sorting ==
  /\ Len(order) <= Len(Symbols)
  /\ Members(order) = VisibleUpTo(Len(Symbols))
  /\ \A p, q \in DOMAIN order :
       p < q =>
         /\ q < k => Before(order[p], order[q])
         /\ q >= k => order[p] < order[q]

Sorted ==
  /\ Len(order) <= Len(Symbols)
  /\ Members(order) = VisibleUpTo(Len(Symbols))
  /\ \A p, q \in DOMAIN order : p < q => Before(order[p], order[q])

OrderInv ==
  /\ object \in Objects
  /\ pc \in Steps
  /\ k \in Nat \ {0}
  /\ order \in Seq(DOMAIN Symbols)
  /\ pc = "collect" => Collecting
  /\ pc = "sort" => Sorting
  /\ pc \notin {"collect", "sort", "failed"} => Sorted

(* The steps after the sort leave the order alone.                         *)
Later ==
  \/ EndSort \/ AddSymbol \/ PutHeader \/ PutSectionHeader \/ PutTables
  \/ PutBuildVersion \/ PutData \/ EndData \/ PutRelocations \/ RejectHidden
  \/ PutSymbols \/ PutStrings \/ WriteFile \/ WriteFails \/ OutOfMemory

LEMMA SymbolsAreTyped ==
  ASSUME object \in Objects
  PROVE  /\ Symbols \in Seq(SymbolOf(object))
         /\ Sections \in Seq(SectionOf(object))
         /\ Len(Symbols) \in Nat /\ DOMAIN Symbols = 1 .. Len(Symbols)
         /\ Len(Sections) \in Nat /\ DOMAIN Sections = 1 .. Len(Sections)
BY ObjectsAssumption DEF Symbols, Sections

LEMMA RankIsNat ==
  \A i : RankOf(i) \in {0, 1, 2}
BY DEF RankOf, Rank

LEMMA OrderFrame ==
  ASSUME UNCHANGED object
  PROVE  /\ Symbols' = Symbols /\ Sections' = Sections
         /\ \A i : RankOf(i)' = RankOf(i)
         /\ \A i, j : Before(i, j)' <=> Before(i, j)
         /\ \A n : VisibleUpTo(n)' = VisibleUpTo(n)
BY DEF Symbols, Sections, RankOf, Rank, Before, VisibleUpTo, HideSymbol

LEMMA InitOrder == Init => OrderInv
<1> SUFFICES ASSUME Init
             PROVE  OrderInv
  OBVIOUS
<1>1. object \in Objects /\ pc = "collect" /\ k = 1 /\ order = << >>
  BY DEF Init
<1>2. Members(order) = {}
  BY <1>1 DEF Members
<1>3. Len(Symbols) \in Nat /\ DOMAIN Symbols = 1 .. Len(Symbols)
  BY <1>1, SymbolsAreTyped
<1>4. VisibleUpTo(k - 1) = {}
  BY <1>1, <1>3 DEF VisibleUpTo
<1>5. Collecting
  <2>1. DOMAIN order = {} /\ Len(order) = 0
    BY <1>1
  <2>2. k <= Len(Symbols) + 1 /\ Len(order) <= k - 1
    BY <1>1, <1>3, <2>1
  <2>3. Members(order) = VisibleUpTo(k - 1)
    BY <1>2, <1>4
  <2> QED
    BY <2>1, <2>2, <2>3 DEF Collecting
<1> QED
  BY <1>1, <1>5 DEF OrderInv, Steps

LEMMA CollectOrder ==
  ASSUME OrderInv, Collect
  PROVE  OrderInv'
<1>1. /\ object \in Objects /\ pc = "collect" /\ k \in Nat \ {0}
      /\ order \in Seq(DOMAIN Symbols) /\ Collecting
  BY DEF OrderInv, Collect
<1>2. /\ object' = object /\ pc' = pc /\ k' = k + 1
      /\ k <= Len(Symbols)
      /\ order' = IF HideSymbol(Symbols[k]) THEN order ELSE Append(order, k)
  BY DEF Collect, Advance
<1>3. Len(Symbols) \in Nat /\ DOMAIN Symbols = 1 .. Len(Symbols)
  BY <1>1, SymbolsAreTyped
<1>4. k \in DOMAIN Symbols
  BY <1>1, <1>2, <1>3
<1>5. \A p \in DOMAIN order : order[p] < k
  <2>1. \A p \in DOMAIN order : order[p] \in Members(order)
    BY DEF Members
  <2> QED
    BY <1>1, <1>3, <2>1 DEF Collecting, VisibleUpTo
<1>6. CASE HideSymbol(Symbols[k])
  <2>1. order' = order
    BY <1>2, <1>6
  <2>2. VisibleUpTo(k) = VisibleUpTo(k - 1)
    BY <1>1, <1>3, <1>6 DEF VisibleUpTo
  <2>3. Collecting'
    <3>1. Len(order') <= k' - 1 /\ k' <= Len(Symbols') + 1
      BY <1>1, <1>2, <1>3, <2>1, OrderFrame DEF Collecting
    <3>2. VisibleUpTo(k - 1)' = VisibleUpTo(k)
      BY <1>1, <1>2, OrderFrame
    <3> QED
      BY <1>1, <2>1, <2>2, <3>1, <3>2 DEF Collecting
  <2> QED
    BY <1>1, <1>2, <2>1, <2>3, OrderFrame DEF OrderInv
<1>7. CASE ~HideSymbol(Symbols[k])
  <2>1. order' = Append(order, k)
    BY <1>2, <1>7
  <2>2. VisibleUpTo(k) = VisibleUpTo(k - 1) \cup {k}
    BY <1>1, <1>3, <1>4, <1>7 DEF VisibleUpTo
  <2>3. Members(order') = Members(order) \cup {k}
    BY <1>1, <2>1, AppendMembers
  <2>4. order' \in Seq(DOMAIN Symbols) /\ Len(order') = Len(order) + 1
    BY <1>1, <1>4, <2>1
  <2>5. \A p, q \in DOMAIN order' : p < q => order'[p] < order'[q]
    <3>1. /\ DOMAIN order' = 1 .. Len(order) + 1 /\ Len(order) \in Nat
          /\ DOMAIN order = 1 .. Len(order)
          /\ \A p \in 1 .. Len(order) : order'[p] = order[p]
          /\ order'[Len(order) + 1] = k
      BY <1>1, <2>1
    <3>2. \A p, q \in DOMAIN order : p < q => order[p] < order[q]
      BY <1>1 DEF Collecting
    <3> TAKE p, q \in DOMAIN order'
    <3>3. CASE q = Len(order) + 1
      BY <1>5, <3>1, <3>3
    <3>4. CASE q # Len(order) + 1
      BY <3>1, <3>2, <3>4
    <3> QED
      BY <3>3, <3>4
  <2>6. Collecting'
    <3>1. k' <= Len(Symbols') + 1
      BY <1>1, <1>2, <1>3, OrderFrame
    <3>2. VisibleUpTo(k - 1)' = VisibleUpTo(k)
      BY <1>1, <1>2, OrderFrame
    <3>3. Len(order) \in Nat /\ Len(order) <= k - 1
      BY <1>1 DEF Collecting
    <3>4. Len(order') <= k' - 1
      BY <1>1, <1>2, <2>4, <3>3
    <3> QED
      BY <1>1, <2>2, <2>3, <2>5, <3>1, <3>2, <3>4 DEF Collecting
  <2> QED
    BY <1>1, <1>2, <2>4, <2>6, OrderFrame DEF OrderInv
<1> QED
  BY <1>6, <1>7

LEMMA EndCollectOrder ==
  ASSUME OrderInv, EndCollect
  PROVE  OrderInv'
<1>1. /\ object \in Objects /\ pc = "collect" /\ k \in Nat \ {0}
      /\ order \in Seq(DOMAIN Symbols) /\ Collecting
  BY DEF OrderInv, EndCollect
<1>2. /\ object' = object /\ pc' = "sort" /\ k' = 1
      /\ k > Len(Symbols) /\ order' = order
  BY DEF EndCollect, Goto
<1>3. Len(Symbols) \in Nat /\ DOMAIN Symbols = 1 .. Len(Symbols)
  BY <1>1, SymbolsAreTyped
<1>4. k - 1 = Len(Symbols)
  BY <1>1, <1>2, <1>3 DEF Collecting
<1>5. Len(order) \in Nat /\ DOMAIN order = 1 .. Len(order)
  BY <1>1
<1>6. \A p, q \in DOMAIN order : p < q => order[p] < order[q]
  BY <1>1 DEF Collecting
<1>7. Sorting'
  BY <1>1, <1>2, <1>4, <1>5, <1>6, OrderFrame DEF Collecting, Sorting
<1> QED
  BY <1>1, <1>2, <1>7, OrderFrame DEF OrderInv, Steps

(* The place that an entry moves to exists: the lowest one above which     *)
(* every entry up to it has a higher rank.                                 *)
LEMMA PlaceFacts ==
  ASSUME NEW p \in Nat \ {0}
  PROVE  /\ PlaceOf(p) \in 1 .. p
         /\ \A r \in PlaceOf(p) .. p - 1 : RankAt(r) > RankAt(p)
         /\ PlaceOf(p) > 1 => RankAt(PlaceOf(p) - 1) <= RankAt(p)
<1> DEFINE Above == {q \in 1 .. p : \A r \in q .. p - 1 : RankAt(r) > RankAt(p)}
           Fits(q) == /\ \A r \in q .. p - 1 : RankAt(r) > RankAt(p)
                      /\ q > 1 => RankAt(q - 1) <= RankAt(p)
<1>1. p \in Above /\ Above \in SUBSET Nat
  OBVIOUS
<1>2. PICK q \in Above : \A r \in Above : q <= r
  BY <1>1, LeastElement
<1>3. \A r : RankAt(r) \in {0, 1, 2}
  BY DEF RankAt, Rank
<1>4. Fits(q)
  <2>1. ASSUME q > 1, ~(RankAt(q - 1) <= RankAt(p))
        PROVE  FALSE
    <3>1. RankAt(q - 1) > RankAt(p)
      BY <1>3, <2>1
    <3>2. q - 1 \in 1 .. p
      BY <2>1
    <3>3. \A r \in q - 1 .. p - 1 : r = q - 1 \/ r \in q .. p - 1
      OBVIOUS
    <3>4. q - 1 \in Above
      BY <3>1, <3>2, <3>3
    <3> QED
      BY <1>2, <3>4
  <2> QED
    BY <2>1
<1>5. q \in 1 .. p
  OBVIOUS
<1> HIDE DEF Above, Fits
<1>6. PlaceOf(p) = CHOOSE r \in 1 .. p : Fits(r)
  BY DEF PlaceOf, Fits
<1>7. PlaceOf(p) \in 1 .. p /\ Fits(PlaceOf(p))
  BY <1>4, <1>5, <1>6
<1> QED
  BY <1>7 DEF Fits

LEMMA InsertOrder ==
  ASSUME OrderInv, Insert
  PROVE  OrderInv'
<1> DEFINE q == PlaceOf(k)
<1>1. /\ object \in Objects /\ pc = "sort" /\ k \in Nat \ {0}
      /\ order \in Seq(DOMAIN Symbols) /\ Sorting
  BY DEF OrderInv, Insert
<1>2. /\ object' = object /\ pc' = "sort" /\ k' = k + 1 /\ k <= Len(order)
      /\ order' = [p \in DOMAIN order |->
                     IF p = q THEN order[k]
                     ELSE IF p \in q + 1 .. k THEN order[p - 1] ELSE order[p]]
  BY DEF Insert, Advance
<1>3. Len(Symbols) \in Nat /\ DOMAIN Symbols = 1 .. Len(Symbols)
  BY <1>1, SymbolsAreTyped
<1>4. /\ Len(order) \in Nat /\ DOMAIN order = 1 .. Len(order)
      /\ \A p \in DOMAIN order : order[p] \in DOMAIN Symbols
  BY <1>1
<1>5. /\ q \in 1 .. k
      /\ \A r \in q .. k - 1 : RankOf(order[r]) > RankOf(order[k])
      /\ q > 1 => RankOf(order[q - 1]) <= RankOf(order[k])
  BY <1>1, PlaceFacts DEF RankAt, RankOf
<1> HIDE DEF q
<1> DEFINE was(p) == IF p = q THEN k ELSE IF p \in q + 1 .. k THEN p - 1 ELSE p
           now(p) == IF p = k THEN q ELSE IF p \in q .. k - 1 THEN p + 1 ELSE p
<1>6. /\ DOMAIN order' = DOMAIN order
      /\ \A p \in DOMAIN order :
           was(p) \in DOMAIN order /\ order'[p] = order[was(p)]
  BY <1>1, <1>2, <1>4, <1>5
<1>7. \A p \in DOMAIN order : now(p) \in DOMAIN order /\ order'[now(p)] = order[p]
  <2> TAKE p \in DOMAIN order
  <2>1. CASE p = k
    BY <1>1, <1>2, <1>4, <1>5, <1>6, <2>1
  <2>2. CASE p \in q .. k - 1
    <3>1. now(p) = p + 1 /\ was(p + 1) = p /\ p + 1 \in DOMAIN order
      BY <1>1, <1>2, <1>4, <1>5, <2>2
    <3> QED
      BY <1>6, <3>1
  <2>3. CASE p # k /\ p \notin q .. k - 1
    <3>1. now(p) = p /\ was(p) = p
      BY <1>1, <1>2, <1>4, <1>5, <2>3
    <3> QED
      BY <1>6, <3>1
  <2> QED
    BY <2>1, <2>2, <2>3
<1>8. order' \in Seq(DOMAIN Symbols) /\ Len(order') = Len(order)
  <2>1. order' \in [1 .. Len(order) -> DOMAIN Symbols]
    BY <1>2, <1>4, <1>6
  <2> QED
    BY <1>4, <2>1
<1>9. Members(order') = Members(order)
  <2> HIDE DEF was, now
  <2> QED
    BY <1>6, <1>7 DEF Members
<1>10. \A p, r \in DOMAIN order :
        p < r =>
          /\ r < k => Before(order[p], order[r])
          /\ r >= k => order[p] < order[r]
  BY <1>1 DEF Sorting
<1>11. \A p, r \in DOMAIN order :
         p < r =>
           /\ r < k + 1 => Before(order'[p], order'[r])
           /\ r >= k + 1 => order'[p] < order'[r]
  <2> SUFFICES ASSUME NEW p \in DOMAIN order, NEW r \in DOMAIN order, p < r
               PROVE  /\ r < k + 1 => Before(order'[p], order'[r])
                      /\ r >= k + 1 => order'[p] < order'[r]
    OBVIOUS
  <2>1. /\ p \in Nat /\ r \in Nat /\ was(p) \in DOMAIN order
        /\ order'[p] = order[was(p)] /\ order'[r] = order[was(r)]
    BY <1>4, <1>6
  <2>2. r >= k + 1 => order'[p] < order'[r]
    BY <1>1, <1>2, <1>4, <1>5, <1>10, <2>1
  <2>3. ASSUME r < k + 1
        PROVE  Before(order'[p], order'[r])
    <3>1. CASE r = q
      <4>1. was(p) = p /\ was(r) = k /\ p < k /\ k \in DOMAIN order
        BY <1>1, <1>2, <1>4, <1>5, <2>1, <3>1
      <4>2. order[p] < order[k]
        BY <1>1, <1>10, <4>1
      <4>3. RankOf(order[p]) <= RankOf(order[q - 1])
        <5>1. q - 1 \in DOMAIN order /\ q - 1 < k /\ (p = q - 1 \/ p < q - 1)
          BY <1>1, <1>2, <1>4, <1>5, <2>1, <3>1
        <5> QED
          BY <1>10, <5>1, RankIsNat DEF Before
      <4>4. RankOf(order[q - 1]) <= RankOf(order[k])
        BY <1>1, <1>4, <1>5, <2>1, <3>1
      <4> QED
        BY <2>1, <4>1, <4>2, <4>3, <4>4, RankIsNat DEF Before
    <3>2. CASE r # q /\ p = q
      <4>1. was(p) = k /\ was(r) = r - 1 /\ r - 1 \in q .. k - 1
        BY <1>1, <1>4, <1>5, <2>1, <2>3, <3>2
      <4> QED
        BY <1>5, <2>1, <4>1, RankIsNat DEF Before
    <3>3. CASE r # q /\ p # q
      <4>1. was(p) < was(r) /\ was(r) < k /\ was(r) \in DOMAIN order
        BY <1>1, <1>2, <1>4, <1>5, <2>1, <2>3, <3>3
      <4> QED
        BY <1>10, <2>1, <4>1
    <3> QED
      BY <3>1, <3>2, <3>3
  <2> QED
    BY <2>2, <2>3
<1>12. Sorting'
  <2>1. /\ \A i, j : Before(i, j)' <=> Before(i, j)
        /\ VisibleUpTo(Len(Symbols))' = VisibleUpTo(Len(Symbols))
        /\ Len(Symbols)' = Len(Symbols)
    BY <1>2, OrderFrame
  <2>2. \A p, r \in DOMAIN order' :
          p < r =>
            /\ r < k' => Before(order[p], order[r])'
            /\ r >= k' => order'[p] < order'[r]
    BY <1>2, <1>6, <1>11, <2>1
  <2>3. Len(order') <= Len(Symbols') /\ Members(order') = VisibleUpTo(Len(Symbols))'
    BY <1>1, <1>8, <1>9, <2>1 DEF Sorting
  <2> QED
    BY <2>2, <2>3 DEF Sorting
<1> QED
  BY <1>1, <1>2, <1>8, <1>12, OrderFrame DEF OrderInv, Steps

LEMMA LaterOrder ==
  ASSUME OrderInv, Later
  PROVE  OrderInv'
<1>1. /\ object' = object /\ order' = order
      /\ pc' \in Steps \ {"collect", "sort"}
  BY DEF OrderInv, Later, EndSort, AddSymbol, PutHeader, PutSectionHeader,
         PutTables, PutBuildVersion, PutData, EndData, PutRelocations,
         RejectHidden, PutSymbols, PutStrings, WriteFile, WriteFails,
         OutOfMemory, Fail, Goto, Advance, Steps
<1>2. k' \in Nat \ {0}
  BY DEF OrderInv, Later, EndSort, AddSymbol, PutHeader, PutSectionHeader,
         PutTables, PutBuildVersion, PutData, EndData, PutRelocations,
         RejectHidden, PutSymbols, PutStrings, WriteFile, WriteFails,
         OutOfMemory, Fail, Goto, Advance
<1>3. pc' = "failed" \/ Sorted
  <2>1. CASE EndSort
    <3>1. pc = "sort" /\ k > Len(order) /\ Sorting /\ k \in Nat
          /\ order \in Seq(DOMAIN Symbols)
      BY <2>1 DEF EndSort, OrderInv
    <3>2. Len(order) \in Nat /\ DOMAIN order = 1 .. Len(order)
      BY <3>1
    <3> QED
      BY <3>1, <3>2 DEF Sorting, Sorted
  <2>2. CASE pc \notin {"collect", "sort", "failed"}
    BY <2>2 DEF OrderInv
  <2>3. CASE pc \in {"collect", "sort", "failed"} /\ ~EndSort
    BY <2>3 DEF Later, EndSort, AddSymbol, PutHeader, PutSectionHeader,
         PutTables, PutBuildVersion, PutData, EndData, PutRelocations,
         RejectHidden, PutSymbols, PutStrings, WriteFile, WriteFails,
         OutOfMemory, Fail
  <2> QED
    BY <2>1, <2>2, <2>3
<1>4. Sorted' <=> Sorted
  BY <1>1, OrderFrame DEF Sorted
<1> QED
  BY <1>1, <1>2, <1>3, <1>4, OrderFrame DEF OrderInv

LEMMA OrderSteps == OrderInv /\ [Next]_vars => OrderInv'
<1> SUFFICES ASSUME OrderInv, [Next]_vars
             PROVE  OrderInv'
  OBVIOUS
<1>1. CASE UNCHANGED vars
  <2>1. object' = object /\ order' = order /\ pc' = pc /\ k' = k
    BY <1>1 DEF vars
  <2>2. /\ Collecting' <=> Collecting
        /\ Sorting' <=> Sorting
        /\ Sorted' <=> Sorted
    BY <2>1, OrderFrame DEF Collecting, Sorting, Sorted
  <2> QED
    BY <2>1, <2>2, OrderFrame DEF OrderInv
<1>2. CASE Next
  <2>1. CASE Terminated
    BY <1>1, <2>1 DEF Terminated
  <2>2. CASE Collect \/ EndCollect \/ Insert
    BY <2>2, CollectOrder, EndCollectOrder, InsertOrder
  <2>3. CASE Later
    BY <2>3, LaterOrder
  <2> QED
    BY <1>2, <2>1, <2>2, <2>3 DEF Next, Later
<1> QED
  BY <1>1, <1>2

-----------------------------------------------------------------------------
(* The two buffers: what every action appends.                             *)

LEMMA ObjectIsTyped ==
  ASSUME object \in Objects
  PROVE  /\ \A i \in DOMAIN Symbols :
              /\ NameSize(Symbols[i].name) \in Nat \ {0}
              /\ Symbols[i].section \in 0 .. Len(Sections)
         /\ \A i \in DOMAIN Sections :
              /\ Sections[i].size \in Nat
              /\ Sections[i].relocations \in Seq(RelocationOf(object))
              /\ RelocationBytes[i] = 8 * Len(Sections[i].relocations)
              /\ RelocationBytes[i] \in Nat
              /\ \A r \in DOMAIN Sections[i].relocations :
                   Sections[i].relocations[r].offset < Sections[i].size
<1>1. \A i \in DOMAIN Symbols : NameSize(Symbols[i].name) \in Nat \ {0}
  BY ObjectsAssumption DEF Symbols
<1>2. \A i \in DOMAIN Symbols : Symbols[i].section \in 0 .. Len(Sections)
  <2>1. \A i \in DOMAIN Symbols : Symbols[i] \in SymbolOf(object)
    BY SymbolsAreTyped
  <2> QED
    BY <2>1 DEF SymbolOf, Sections
<1>3. \A i \in DOMAIN Sections :
        /\ Sections[i].size \in Nat
        /\ Sections[i].relocations \in Seq(RelocationOf(object))
  <2>1. \A i \in DOMAIN Sections : Sections[i] \in SectionOf(object)
    BY SymbolsAreTyped
  <2> QED
    BY <2>1 DEF SectionOf
<1>4. \A i \in DOMAIN Sections :
        /\ RelocationBytes[i] = 8 * Len(Sections[i].relocations)
        /\ Len(Sections[i].relocations) \in Nat
  BY <1>3 DEF RelocationBytes, RelocationSize
<1>5. \A i \in DOMAIN Sections : \A r \in DOMAIN Sections[i].relocations :
        Sections[i].relocations[r].offset < Sections[i].size
  BY ObjectsAssumption DEF Sections
<1> QED
  BY <1>1, <1>2, <1>3, <1>4, <1>5

Buffers ==
  /\ IsBuffer(buffer)
  /\ IsBuffer(strings)
  /\ symbols \in Seq(Members(symbols))

StringOf(i) == [is |-> "string", name |-> Symbols[i].name]

LEMMA EndSortEffect ==
  ASSUME Buffers, EndSort
  PROVE  Grown(strings, strings', strings.length, 1,
               {[at |-> strings.length, size |-> 1, holds |-> Zeros]})
<1>1. /\ IsBuffer(strings) /\ HasRoom(strings, 1) /\ 1 \in Nat
      /\ strings' = Put(strings, Zeros, 1)
  BY DEF Buffers, EndSort
<1> QED
  BY <1>1, PutGrows

LEMMA AddSymbolEffect ==
  ASSUME OrderInv, Buffers, AddSymbol
  PROVE  /\ order[k] \in DOMAIN Symbols
         /\ NameSize(Symbols[order[k]].name) \in Nat \ {0}
         /\ Grown(strings, strings', strings.length,
                  NameSize(Symbols[order[k]].name),
                  {[at |-> strings.length,
                    size |-> NameSize(Symbols[order[k]].name),
                    holds |-> StringOf(order[k])]})
<1> DEFINE n == NameSize(Symbols[order[k]].name)
<1>1. order[k] \in DOMAIN Symbols
  <2>1. k \in Nat \ {0} /\ k <= Len(order) /\ order \in Seq(DOMAIN Symbols)
    BY DEF OrderInv, AddSymbol
  <2> QED
    BY <2>1
<1>2. n \in Nat \ {0}
  BY <1>1, ObjectIsTyped DEF OrderInv
<1>3. HasRoom(strings, n) /\ strings' = Put(strings, StringOf(order[k]), n)
  BY DEF AddSymbol, StringOf
<1>4. IsBuffer(strings)
  BY DEF Buffers
<1> HIDE DEF n
<1>5. Grown(strings, strings', strings.length, n,
            {[at |-> strings.length, size |-> n, holds |-> StringOf(order[k])]})
  BY <1>2, <1>3, <1>4, PutGrows
<1> QED
  BY <1>1, <1>2, <1>5 DEF n

Mach == [is |-> "mach", sizeofcmds |-> uint32(CommandsSize)]

Segment == [is |-> "segment", nsects |-> uint32(Len(Sections))]

LEMMA PutHeaderEffect ==
  ASSUME Buffers, PutHeader
  PROVE  Grown(buffer, buffer', buffer.length, 104,
               {[at |-> buffer.length, size |-> 32, holds |-> Mach],
                [at |-> buffer.length + 32, size |-> 72, holds |-> Segment]})
<1> DEFINE m == 32
           n == 72
           l == 104
<1>1. /\ IsBuffer(buffer) /\ HasRoom(buffer, l) /\ l = m + n
      /\ m \in Nat /\ n \in Nat
      /\ buffer' = Put(Put(buffer, Mach, m), Segment, n)
  BY DEF Buffers, PutHeader, HeaderSize, SegmentSize, Mach, Segment
<1> HIDE DEF m, n, l
<1>2. Grown(buffer, buffer', buffer.length, l,
            {[at |-> buffer.length, size |-> m, holds |-> Mach],
             [at |-> buffer.length + m, size |-> n, holds |-> Segment]})
  BY <1>1, PutTwiceGrows
<1> QED
  BY <1>2 DEF m, n, l

LEMMA PutSectionHeaderEffect ==
  ASSUME Buffers, PutSectionHeader
  PROVE  Grown(buffer, buffer', buffer.length, 80,
               {[at |-> buffer.length, size |-> 80,
                 holds |-> SectionHeader(k)]})
<1>1. /\ IsBuffer(buffer) /\ HasRoom(buffer, 80) /\ 80 \in Nat
      /\ buffer' = Put(buffer, SectionHeader(k), 80)
  BY DEF Buffers, PutSectionHeader, SectionSize
<1> QED
  BY <1>1, PutGrows

LEMMA PutTablesEffect ==
  ASSUME Buffers, PutTables
  PROVE  Grown(buffer, buffer', buffer.length, 104,
               {[at |-> buffer.length, size |-> 24, holds |-> Symtab],
                [at |-> buffer.length + 24, size |-> 80, holds |-> Dysymtab]})
<1> DEFINE m == 24
           n == 80
           l == 104
<1>1. /\ IsBuffer(buffer) /\ HasRoom(buffer, l) /\ l = m + n
      /\ m \in Nat /\ n \in Nat
      /\ buffer' = Put(Put(buffer, Symtab, m), Dysymtab, n)
  BY DEF Buffers, PutTables, SymtabSize, DysymtabSize
<1> HIDE DEF m, n, l
<1>2. Grown(buffer, buffer', buffer.length, l,
            {[at |-> buffer.length, size |-> m, holds |-> Symtab],
             [at |-> buffer.length + m, size |-> n, holds |-> Dysymtab]})
  BY <1>1, PutTwiceGrows
<1> QED
  BY <1>2 DEF m, n, l

LEMMA PutBuildVersionEffect ==
  ASSUME Buffers, PutBuildVersion
  PROVE  /\ BuildSize \in Nat
         /\ Grown(buffer, buffer', buffer.length, BuildSize,
               {[at |-> buffer.length, size |-> BuildSize,
                 holds |-> [is |-> "build"]]})
<1>1. BuildSize \in Nat
  BY DEF BuildSize
<1>2. /\ IsBuffer(buffer) /\ HasRoom(buffer, BuildSize)
      /\ buffer' = Put(buffer, [is |-> "build"], BuildSize)
  BY DEF Buffers, PutBuildVersion
<1> QED
  BY <1>1, <1>2, PutGrows

LEMMA PutDataEffect ==
  ASSUME OrderInv, Buffers, PutData
  PROVE  /\ k \in DOMAIN Sections /\ Sections[k].size \in Nat
         /\ Grown(buffer, buffer', buffer.length, Sections[k].size,
                  {[at |-> buffer.length, size |-> Sections[k].size,
                    holds |-> [is |-> "data", index |-> k]]})
<1> DEFINE n == Sections[k].size
<1>1. k \in DOMAIN Sections
  BY SymbolsAreTyped DEF OrderInv, PutData
<1>2. n \in Nat
  BY <1>1, ObjectIsTyped DEF OrderInv
<1>3. /\ IsBuffer(buffer) /\ HasRoom(buffer, n)
      /\ buffer' = Put(buffer, [is |-> "data", index |-> k], n)
  BY DEF Buffers, PutData
<1> HIDE DEF n
<1>4. Grown(buffer, buffer', buffer.length, n,
            {[at |-> buffer.length, size |-> n,
              holds |-> [is |-> "data", index |-> k]]})
  BY <1>2, <1>3, PutGrows
<1> QED
  BY <1>1, <1>2, <1>4 DEF n

PackedOf(i) ==
  [r \in DOMAIN Sections[i].relocations |-> Packed(Sections[i].relocations[r])]

LEMMA PutRelocationsEffect ==
  ASSUME OrderInv, Buffers, PutRelocations
  PROVE  /\ k \in DOMAIN Sections /\ RelocationBytes[k] \in Nat
         /\ Grown(buffer, buffer', buffer.length, RelocationBytes[k],
                  Records(buffer.length, PackedOf(k), 8))
<1> DEFINE xs == PackedOf(k)
           l  == Len(Sections[k].relocations)
<1>1. k \in DOMAIN Sections
  BY SymbolsAreTyped DEF OrderInv, PutRelocations
<1>2. /\ Sections[k].relocations \in Seq(RelocationOf(object))
      /\ RelocationBytes[k] = 8 * l /\ RelocationBytes[k] \in Nat
  BY <1>1, ObjectIsTyped DEF OrderInv
<1>3. l \in Nat /\ DOMAIN Sections[k].relocations = 1 .. l
  BY <1>2
<1>4. /\ IsBuffer(buffer) /\ HasRoom(buffer, RelocationBytes[k])
      /\ buffer' = PutAll(buffer, xs, 8)
  BY DEF Buffers, PutRelocations, RelocationSize, PackedOf
<1>5. xs \in Seq(Members(xs)) /\ Len(xs) = l
  <2>1. xs \in [1 .. l -> Members(xs)]
    BY <1>3 DEF PackedOf, Members
  <2> HIDE DEF xs, l
  <2> QED
    BY <1>3, <2>1
<1> HIDE DEF xs, l
<1>6. 8 \in Nat \ {0} /\ RelocationBytes[k] = 8 * Len(xs)
  BY <1>2, <1>5
<1>7. Grown(buffer, buffer', buffer.length, 8 * Len(xs),
            Records(buffer.length, xs, 8))
  BY <1>4, <1>5, <1>6, PutAllGrows
<1> QED
  BY <1>1, <1>2, <1>6, <1>7 DEF xs

LEMMA PutSymbolsEffect ==
  ASSUME Buffers, PutSymbols
  PROVE  Grown(buffer, buffer', buffer.length, 16 * Len(symbols),
               Records(buffer.length, symbols, 16))
<1>1. /\ IsBuffer(buffer) /\ HasRoom(buffer, 16 * Len(symbols))
      /\ buffer' = PutAll(buffer, symbols, 16)
      /\ symbols \in Seq(Members(symbols))
  BY DEF Buffers, PutSymbols, SymbolSize
<1>2. 16 \in Nat \ {0}
  OBVIOUS
<1> QED
  BY <1>1, <1>2, PutAllGrows

LEMMA PutStringsEffect ==
  ASSUME Buffers, PutStrings
  PROVE  Grown(buffer, buffer', buffer.length, strings.length,
               {Moved(p, buffer.length) : p \in Pieces(strings)})
BY PutCopyGrows DEF Buffers, PutStrings

-----------------------------------------------------------------------------
Sized(b) == \A p \in Pieces(b) : p.size > 0

(* Only a section may be empty.                                            *)
SizedOrData(b) == \A p \in Pieces(b) : p.size > 0 \/ p.holds.is = "data"

(* Before the file is written nothing happens to the output, and a run     *)
(* that gives up leaves no complete file.                                  *)
OutputInv ==
  /\ output \in {"untouched", "partial", "written"}
  /\ pc \notin {"done", "failed"} => output = "untouched"
  /\ pc = "failed" => output # "written"
  /\ pc = "done" => output # "untouched"

TableInv ==
  /\ Buffers
  /\ SizedOrData(buffer)
  /\ Sized(strings)
  /\ pc \in {"collect", "sort"} => strings = EmptyBuffer
  /\ pc = "build" => object.build
  /\ OutputInv

Appending ==
  \/ EndSort \/ AddSymbol \/ PutHeader \/ PutSectionHeader \/ PutTables
  \/ PutBuildVersion \/ PutData \/ PutRelocations \/ PutSymbols \/ PutStrings

LEMMA QuietStep ==
  ASSUME [Next]_vars, ~Appending
  PROVE  /\ UNCHANGED <<object, buffer, strings, symbols, map, counts>>
         /\ pc' \in {"collect", "sort"} => pc \in {"collect", "sort"}
         /\ pc' = "build" => pc = "build"
         /\ order' = order \/ Collect \/ Insert
BY DEF Next, vars, Appending, Collect, EndCollect, Insert,
       EndData, RejectHidden, WriteFile, WriteFails,
       OutOfMemory, Terminated, Fail, Goto, Advance

LEMMA InitTables == Init => TableInv
<1> SUFFICES ASSUME Init
             PROVE  TableInv
  OBVIOUS
<1>1. /\ buffer = EmptyBuffer /\ strings = EmptyBuffer /\ symbols = << >>
      /\ pc = "collect" /\ output = "untouched"
  BY DEF Init
<1>2. symbols \in Seq(Members(symbols))
  BY <1>1
<1>3. OutputInv
  BY <1>1 DEF OutputInv
<1> QED
  BY <1>1, <1>2, <1>3, EmptyIsBuffer DEF TableInv, Buffers, Sized, SizedOrData

LEMMA FileGrows ==
  ASSUME NEW b, IsBuffer(b), SizedOrData(b), NEW c, NEW at, NEW n, NEW new,
         Grown(b, c, at, n, new), \A p \in new : p.size > 0 \/ p.holds.is = "data"
  PROVE  IsBuffer(c) /\ SizedOrData(c)
BY DEF Grown, SizedOrData

LEMMA TableGrows ==
  ASSUME NEW b, IsBuffer(b), Sized(b), NEW c, NEW at, NEW n, NEW new,
         Grown(b, c, at, n, new), \A p \in new : p.size > 0
  PROVE  IsBuffer(c) /\ Sized(c)
BY DEF Grown, Sized

LEMMA RecordsAreSized ==
  ASSUME NEW n \in Nat \ {0}
  PROVE  \A at, xs : \A p \in Records(at, xs, n) : p.size > 0
BY DEF Records

LEMMA MovedAreSized ==
  ASSUME NEW t, Sized(t), NEW at
  PROVE  \A p \in {Moved(q, at) : q \in Pieces(t)} : p.size > 0
BY DEF Moved, Sized

LEMMA OutputSteps ==
  ASSUME OutputInv, [Next]_vars
  PROVE  OutputInv'
<1>1. CASE UNCHANGED vars
  BY <1>1 DEF OutputInv, vars
<1>2. CASE Terminated
  BY <1>2 DEF OutputInv, vars, Terminated
<1>3. CASE WriteFile \/ WriteFails
  BY <1>3 DEF OutputInv, WriteFile, WriteFails, Goto
<1>4. CASE Next /\ ~(Terminated \/ WriteFile \/ WriteFails)
  <2>1. /\ output' = output /\ pc' # "done" /\ pc \notin {"done", "failed"}
    BY <1>4 DEF Next, Collect, EndCollect, Insert, EndSort, AddSymbol,
         PutHeader, PutSectionHeader, PutTables, PutBuildVersion, PutData,
         EndData, PutRelocations, RejectHidden, PutSymbols, PutStrings,
         OutOfMemory, Fail, Goto, Advance
  <2> QED
    BY <2>1 DEF OutputInv
<1> QED
  BY <1>1, <1>2, <1>3, <1>4

LEMMA TableSteps == OrderInv /\ TableInv /\ [Next]_vars => TableInv'
<1> SUFFICES ASSUME OrderInv, TableInv, [Next]_vars
             PROVE  TableInv'
  OBVIOUS
<1>1. /\ Buffers /\ IsBuffer(buffer) /\ IsBuffer(strings)
      /\ symbols \in Seq(Members(symbols))
      /\ SizedOrData(buffer) /\ Sized(strings)
  BY DEF TableInv, Buffers
<1>2. OutputInv'
  BY OutputSteps DEF TableInv
<1>3. CASE ~Appending
  <2>1. /\ UNCHANGED <<buffer, strings, symbols>>
        /\ pc' \in {"collect", "sort"} => pc \in {"collect", "sort"}
        /\ object' = object /\ (pc' = "build" => pc = "build")
    BY <1>3, QuietStep
  <2> QED
    BY <1>2, <2>1 DEF TableInv, Buffers, Sized, SizedOrData
<1>4. CASE EndSort \/ AddSymbol
  <2>1. buffer' = buffer /\ pc' = "symbols"
    BY <1>4 DEF EndSort, AddSymbol, Goto, Advance
  <2>2. IsBuffer(strings') /\ Sized(strings')
    <3>1. CASE EndSort
      BY <1>1, <3>1, EndSortEffect, TableGrows
    <3>2. CASE AddSymbol
      <4> DEFINE n == NameSize(Symbols[order[k]].name)
                 p == [at |-> strings.length, size |-> n,
                       holds |-> StringOf(order[k])]
      <4>1. Grown(strings, strings', strings.length, n, {p}) /\ n \in Nat \ {0}
        BY <1>1, <3>2, AddSymbolEffect
      <4>2. p.size > 0
        BY <4>1
      <4> HIDE DEF p, n
      <4> QED
        BY <1>1, <4>1, <4>2, TableGrows
    <3> QED
      BY <1>4, <3>1, <3>2
  <2>3. symbols' \in Seq(Members(symbols'))
    <3>1. CASE symbols' = symbols
      BY <1>1, <3>1
    <3>2. CASE AddSymbol
      <4> DEFINE e == Entry(Symbols[order[k]])
      <4>1. symbols' = Append(symbols, e)
        BY <3>2 DEF AddSymbol
      <4> HIDE DEF e
      <4>2. symbols' \in Seq(Members(symbols) \cup {e})
        BY <1>1, <4>1, SeqMonotonic
      <4> QED
        BY <4>2, SeqOfMembers
    <3> QED
      BY <1>4, <3>1, <3>2 DEF EndSort
  <2> QED
    BY <1>1, <1>2, <2>1, <2>2, <2>3 DEF TableInv, Buffers, SizedOrData
<1>5. ASSUME Appending, ~(EndSort \/ AddSymbol)
      PROVE  TableInv'
  <2>1. /\ UNCHANGED <<object, strings, symbols>> /\ pc' \notin {"collect", "sort"}
        /\ pc' = "build" => object.build
    BY <1>5 DEF Appending, PutHeader, PutSectionHeader, PutTables,
         PutBuildVersion, PutData, PutRelocations, PutSymbols, PutStrings,
         Goto, Advance
  <2>2. IsBuffer(buffer') /\ SizedOrData(buffer')
    <3>1. CASE PutHeader
      BY <1>1, <3>1, PutHeaderEffect, FileGrows
    <3>2. CASE PutSectionHeader
      BY <1>1, <3>2, PutSectionHeaderEffect, FileGrows
    <3>3. CASE PutTables
      BY <1>1, <3>3, PutTablesEffect, FileGrows
    <3>4. CASE PutBuildVersion
      <4>1. BuildSize = 24
        BY <3>4 DEF PutBuildVersion, BuildSize, TableInv
      <4> QED
        BY <1>1, <3>4, <4>1, PutBuildVersionEffect, FileGrows
    <3>5. CASE PutData
      <4> DEFINE p == [at |-> buffer.length, size |-> Sections[k].size,
                       holds |-> [is |-> "data", index |-> k]]
      <4>1. Grown(buffer, buffer', buffer.length, Sections[k].size, {p})
        BY <1>1, <3>5, PutDataEffect
      <4>2. p.holds.is = "data"
        OBVIOUS
      <4> HIDE DEF p
      <4> QED
        BY <1>1, <4>1, <4>2, FileGrows
    <3>6. CASE PutRelocations
      <4>1. 8 \in Nat \ {0}
        OBVIOUS
      <4>2. \A at, xs : \A p \in Records(at, xs, 8) : p.size > 0
        BY <4>1, RecordsAreSized
      <4> QED
        BY <1>1, <3>6, <4>2, PutRelocationsEffect, FileGrows
    <3>7. CASE PutSymbols
      <4>1. 16 \in Nat \ {0}
        OBVIOUS
      <4>2. \A at, xs : \A p \in Records(at, xs, 16) : p.size > 0
        BY <4>1, RecordsAreSized
      <4> QED
        BY <1>1, <3>7, <4>2, PutSymbolsEffect, FileGrows
    <3>8. CASE PutStrings
      <4>1. \A p \in {Moved(q, buffer.length) : q \in Pieces(strings)} : p.size > 0
        BY <1>1, MovedAreSized
      <4> QED
        BY <1>1, <3>8, <4>1, PutStringsEffect, FileGrows
    <3> QED
      BY <1>5, <3>1, <3>2, <3>3, <3>4, <3>5, <3>6, <3>7, <3>8 DEF Appending
  <2> QED
    BY <1>1, <1>2, <2>1, <2>2 DEF TableInv, Buffers, Sized
<1> QED
  BY <1>3, <1>4, <1>5

-----------------------------------------------------------------------------
(* The symbol table: entry p is the symbol at place p of the order, its    *)
(* name lies in the string table, the map leads back to it, and the counts *)
(* say where the ranges of the three ranks end.                            *)

Described == {"sections", "build", "data", "relocations", "strings", "write",
              "done"}

SymbolEntry(i, name) ==
  [is      |-> "symbol",
   name    |-> name,
   type    |-> IF RankOf(i) = 2 THEN "undf ext"
               ELSE IF RankOf(i) = 1 THEN "sect ext" ELSE "sect",
   section |-> IF Symbols[i].defined THEN SectionNumber(Symbols[i]) ELSE 0,
   value   |-> IF Symbols[i].defined THEN Symbols[i].value ELSE 0]

Lies(b, at, x) == \E p \in Pieces(b) : p.at = at /\ p.holds = x

(* It lies where a 32-bit field says, or beyond what the field can say.    *)
LiesNear(b, n, x) == \E at \in Nat : n = uint32(at) /\ Lies(b, at, x)

Describes(p) ==
  /\ symbols[p] = SymbolEntry(order[p], symbols[p].name)
  /\ LiesNear(strings, symbols[p].name, StringOf(order[p]))

RangeOf(p) ==
  IF p <= counts.local THEN 0
  ELSE IF p <= counts.local + counts.extdef THEN 1 ELSE 2

CountsInv ==
  /\ counts \in [local : Nat, extdef : Nat, undef : Nat]
  /\ counts.local + counts.extdef + counts.undef = Len(symbols)
  /\ \A p \in DOMAIN symbols : RankOf(order[p]) = RangeOf(p)

SymbolInv ==
  /\ symbols \in Seq(Members(symbols))
  /\ Len(symbols) <= Len(order)
  /\ map \in [DOMAIN Symbols -> 0 .. WordSpan - 1]
  /\ pc \in {"collect", "sort"} => symbols = << >>
  /\ pc = "symbols" => Len(symbols) = k - 1
  /\ pc \in Described => Len(symbols) = Len(order)
  /\ \A i \in DOMAIN Symbols :
       map[i] # Unmapped =>
         \E p \in DOMAIN symbols : order[p] = i /\ map[i] = uint32(p - 1)
  /\ \A p \in DOMAIN symbols : Describes(p)
  /\ CountsInv

LEMMA InitSymbols == Init => SymbolInv
<1> SUFFICES ASSUME Init
             PROVE  SymbolInv
  OBVIOUS
<1>1. /\ symbols = << >> /\ order = << >> /\ pc = "collect"
      /\ map = [i \in DOMAIN Symbols |-> Unmapped]
      /\ counts = [local |-> 0, extdef |-> 0, undef |-> 0]
  BY DEF Init
<1>2. Len(symbols) = 0 /\ DOMAIN symbols = {} /\ Len(order) = 0
  BY <1>1
<1>3. symbols \in Seq(Members(symbols))
  BY <1>1
<1>4. map \in [DOMAIN Symbols -> 0 .. WordSpan - 1]
  <2>1. Unmapped \in 0 .. WordSpan - 1
    BY WidthAssumption DEF Unmapped
  <2> QED
    BY <1>1, <2>1
<1>5. \A i \in DOMAIN Symbols : map[i] = Unmapped
  BY <1>1
<1>6. pc \notin Described /\ pc # "symbols"
  BY <1>1 DEF Described
<1>7. CountsInv
  BY <1>1, <1>2 DEF CountsInv
<1> QED
  BY <1>1, <1>2, <1>3, <1>4, <1>5, <1>6, <1>7 DEF SymbolInv

(* A number cut to a field that can hold it stays what it is.              *)
LEMMA Uncut ==
  /\ \A n \in Nat : uint32(n) \in 0 .. WordSpan - 1
  /\ \A n \in Nat : n < WordSpan => uint32(n) = n
BY WidthAssumption DEF uint32

(* Steps that leave the table and what it depends on alone.                *)
LEMMA SymbolFrame ==
  ASSUME SymbolInv,
         UNCHANGED <<object, symbols, order, map, counts>>,
         Pieces(strings) \subseteq Pieces(strings'),
         pc' \in {"collect", "sort"} => symbols = << >>,
         pc' = "symbols" => Len(symbols) = k' - 1,
         pc' \in Described => Len(symbols) = Len(order)
  PROVE  SymbolInv'
<1>1. \A i : RankOf(i)' = RankOf(i)
  BY OrderFrame
<1>2. Symbols' = Symbols
  BY OrderFrame
<1>3. \A p \in DOMAIN symbols : Describes(p)'
  <2>1. \A p \in DOMAIN symbols : Describes(p)
    BY DEF SymbolInv
  <2>2. \A at, x : Lies(strings, at, x) => Lies(strings', at, x)
    BY DEF Lies
  <2> QED
    BY <1>1, <1>2, <2>1, <2>2
       DEF Describes, SymbolEntry, SectionNumber, StringOf, LiesNear, uint32
<1>4. CountsInv'
  <2>1. CountsInv
    BY DEF SymbolInv
  <2>2. \A p : RangeOf(p)' = RangeOf(p)
    BY DEF RangeOf
  <2> QED
    BY <1>1, <2>1, <2>2 DEF CountsInv
<1> QED
  BY <1>2, <1>3, <1>4 DEF SymbolInv, Unmapped, uint32

(* The ranks along the order do not fall, so the next entry extends the    *)
(* range of its rank, and the ranges behind it are still empty.            *)
LEMMA CountsGrow ==
  ASSUME CountsInv, NEW l \in Nat, l = Len(symbols), DOMAIN symbols = 1 .. l,
         NEW i, order[l + 1] = i,
         \A p \in 1 .. l : RankOf(order[p]) <= RankOf(i),
         UNCHANGED <<object, order>>,
         Len(symbols') = l + 1, DOMAIN symbols' = 1 .. l + 1,
         counts' = Counted(Symbols[i])
  PROVE  CountsInv'
<1> DEFINE a == counts.local
           b == counts.extdef
           c == counts.undef
<1>1. /\ counts = [local |-> a, extdef |-> b, undef |-> c]
      /\ a \in Nat /\ b \in Nat /\ c \in Nat /\ a + b + c = l
      /\ \A p \in 1 .. l : RankOf(order[p]) = RangeOf(p)
  BY DEF CountsInv
<1>2. /\ RankOf(i) = 2 => counts' = [local |-> a, extdef |-> b, undef |-> c + 1]
      /\ RankOf(i) = 1 => counts' = [local |-> a, extdef |-> b + 1, undef |-> c]
      /\ RankOf(i) = 0 => counts' = [local |-> a + 1, extdef |-> b, undef |-> c]
  BY <1>1 DEF Counted, RankOf, Rank
<1>3. \A p : RangeOf(p) = IF p <= a THEN 0 ELSE IF p <= a + b THEN 1 ELSE 2
  BY DEF RangeOf
<1>4. \A p : RangeOf(p)' = IF p <= counts'.local THEN 0
                           ELSE IF p <= counts'.local + counts'.extdef THEN 1
                           ELSE 2
  BY DEF RangeOf
<1>5. RankOf(i) \in {0, 1, 2} /\ \A j : RankOf(j)' = RankOf(j)
  BY RankIsNat, OrderFrame
<1> HIDE DEF a, b, c
<1>6. \A p \in 1 .. l :
        RankOf(order[p]) = IF p <= a THEN 0 ELSE IF p <= a + b THEN 1 ELSE 2
  BY <1>1, <1>3
<1>7. RankOf(i) < 2 => c = 0
  <2>1. ASSUME c # 0, RankOf(i) < 2
        PROVE  FALSE
    <3>1. l \in 1 .. l /\ ~(l <= a) /\ ~(l <= a + b)
      BY <1>1, <2>1
    <3>2. RankOf(order[l]) = 2 /\ RankOf(order[l]) <= RankOf(i)
      BY <1>6, <3>1
    <3> QED
      BY <1>5, <2>1, <3>2
  <2> QED
    BY <2>1
<1>8. RankOf(i) < 1 => b = 0
  <2>1. ASSUME b # 0, RankOf(i) < 1
        PROVE  FALSE
    <3>1. a + 1 \in 1 .. l /\ ~(a + 1 <= a)
      BY <1>1, <2>1
    <3>2. RankOf(order[a + 1]) \in {1, 2} /\ RankOf(order[a + 1]) <= RankOf(i)
      BY <1>6, <3>1
    <3> QED
      BY <1>5, <2>1, <3>2
  <2> QED
    BY <2>1
<1>9. /\ counts' \in [local : Nat, extdef : Nat, undef : Nat]
      /\ counts'.local + counts'.extdef + counts'.undef = l + 1
  BY <1>1, <1>2, <1>5
<1>10. \A p \in 1 .. l + 1 :
        RankOf(order[p]) = IF p <= counts'.local THEN 0
                           ELSE IF p <= counts'.local + counts'.extdef THEN 1
                           ELSE 2
  <2>1. CASE RankOf(i) = 2
    <3>1. counts'.local = a /\ counts'.extdef = b
      BY <1>2, <2>1
    <3> QED
      BY <1>1, <1>6, <2>1, <3>1
  <2>2. CASE RankOf(i) = 1
    <3>1. counts'.local = a /\ counts'.extdef = b + 1 /\ c = 0
      BY <1>2, <1>7, <2>2
    <3> QED
      BY <1>1, <1>6, <2>2, <3>1
  <2>3. CASE RankOf(i) = 0
    <3>1. counts'.local = a + 1 /\ counts'.extdef = 0 /\ b = 0 /\ c = 0
      BY <1>2, <1>7, <1>8, <2>3
    <3> QED
      BY <1>1, <1>6, <2>3, <3>1
  <2> QED
    BY <1>5, <2>1, <2>2, <2>3
<1>11. \A p \in DOMAIN symbols' : RankOf(order[p])' = RangeOf(p)'
  BY <1>4, <1>5, <1>10
<1> QED
  BY <1>9, <1>11 DEF CountsInv

LEMMA AddSymbolSymbols ==
  ASSUME OrderInv, TableInv, SymbolInv, AddSymbol
  PROVE  SymbolInv'
<1> DEFINE i == order[k]
           l == Len(symbols)
           e == Entry(Symbols[i])
<1>1. /\ pc = "symbols" /\ pc' = "symbols" /\ k' = k + 1 /\ k <= Len(order)
      /\ UNCHANGED <<object, order>>
      /\ symbols' = Append(symbols, e)
      /\ map' = [map EXCEPT ![i] = uint32(k - 1)]
      /\ counts' = Counted(Symbols[i])
  BY DEF AddSymbol, Advance
<1>2. /\ object \in Objects /\ order \in Seq(DOMAIN Symbols)
      /\ k \in Nat \ {0} /\ Sorted
  BY <1>1 DEF OrderInv
<1>3. /\ symbols \in Seq(Members(symbols)) /\ l = k - 1 /\ l \in Nat
      /\ map \in [DOMAIN Symbols -> 0 .. WordSpan - 1]
      /\ DOMAIN symbols = 1 .. l
  BY <1>1 DEF SymbolInv
<1>4. /\ Len(order) \in Nat /\ DOMAIN order = 1 .. Len(order)
      /\ i \in DOMAIN Symbols /\ k \in DOMAIN order
      /\ \A p \in 1 .. l : p \in DOMAIN order /\ p < k
  BY <1>1, <1>2, <1>3
<1>5. /\ l + 1 = k /\ order[l + 1] = i
      /\ \A p \in 1 .. l : order[p] \in DOMAIN Symbols
  BY <1>2, <1>3, <1>4
<1>6. \A p \in 1 .. l : order[p] # i /\ RankOf(order[p]) <= RankOf(i)
  <2> TAKE p \in 1 .. l
  <2>1. Before(order[p], i) /\ order[p] \in DOMAIN Symbols
    BY <1>2, <1>4 DEF Sorted
  <2>2. order[p] \in Nat /\ i \in Nat
    BY <1>2, <1>4, <2>1, SymbolsAreTyped
  <2> QED
    BY <2>1, <2>2, RankIsNat DEF Before
<1>7. /\ DOMAIN symbols' = 1 .. l + 1 /\ Len(symbols') = l + 1
      /\ \A p \in 1 .. l : symbols'[p] = symbols[p]
      /\ symbols'[l + 1] = e
  <2>1. symbols \in Seq(Members(symbols) \cup {e})
    BY <1>3, SeqMonotonic
  <2> HIDE DEF e
  <2> QED
    BY <1>1, <1>3, <2>1
<1>8. e = SymbolEntry(i, uint32(strings.length))
  <2> DEFINE s == Symbols[i]
             type(r) == IF r = 2 THEN "undf ext"
                        ELSE IF r = 1 THEN "sect ext" ELSE "sect"
  <2>2. (IF ~s.defined THEN "undf ext"
         ELSE IF s.global \/ s.external THEN "sect ext" ELSE "sect")
          = type(Rank(s))
    <3>1. CASE ~s.defined
      <4>1. Rank(s) = 2
        BY <3>1 DEF Rank
      <4> QED
        BY <3>1, <4>1
    <3>2. CASE s.defined /\ (s.global \/ s.external)
      <4>1. Rank(s) = 1
        BY <3>2 DEF Rank
      <4> QED
        BY <3>2, <4>1
    <3>3. CASE s.defined /\ ~(s.global \/ s.external)
      <4>1. Rank(s) = 0
        BY <3>3 DEF Rank
      <4> QED
        BY <3>3, <4>1
    <3> QED
      BY <3>1, <3>2, <3>3
  <2> HIDE DEF s, type
  <2>4. Entry(s) =
          [is      |-> "symbol",
           name    |-> uint32(strings.length),
           type    |-> type(Rank(s)),
           section |-> IF s.defined THEN SectionNumber(s) ELSE 0,
           value   |-> IF s.defined THEN s.value ELSE 0]
    BY <2>2 DEF Entry
  <2> QED
    BY <2>4 DEF SymbolEntry, RankOf, s, type
<1>9. /\ Symbols' = Symbols /\ \A j : RankOf(j)' = RankOf(j)
      /\ \A j : StringOf(j)' = StringOf(j)
  BY <1>1, OrderFrame DEF StringOf
<1>10. /\ Pieces(strings) \subseteq Pieces(strings')
       /\ Lies(strings', strings.length, StringOf(i))
  <2> DEFINE n == NameSize(Symbols[i].name)
             x == StringOf(i)
             q == [at |-> strings.length, size |-> n, holds |-> x]
  <2>1. Grown(strings, strings', strings.length, n, {q})
    BY AddSymbolEffect DEF TableInv
  <2>2. q.at = strings.length /\ q.holds = x
    OBVIOUS
  <2> HIDE DEF q, x
  <2>3. /\ Pieces(strings) \subseteq Pieces(strings')
        /\ Lies(strings', strings.length, x)
    BY <2>1, <2>2 DEF Grown, Lies
  <2> QED
    BY <2>3 DEF x
<1>11. symbols' \in Seq(Members(symbols'))
  BY TableSteps DEF TableInv, Buffers, Next
<1> HIDE DEF i, e
<1>12. \A p \in 1 .. l + 1 : Describes(p)'
  <2> TAKE p \in 1 .. l + 1
  <2>1. CASE p = l + 1
    <3>1. /\ order'[p] = i /\ symbols'[p] = e
          /\ e.name = uint32(strings.length)
      BY <1>1, <1>5, <1>7, <1>8, <2>1 DEF SymbolEntry
    <3>2. LiesNear(strings', e.name, StringOf(i))
      <4>1. strings.length \in Nat
        BY DEF TableInv, Buffers, IsBuffer
      <4> QED
        BY <1>10, <3>1, <4>1 DEF LiesNear
    <3>3. LiesNear(strings, symbols[p].name, StringOf(order[p]))'
      BY <1>9, <3>1, <3>2 DEF LiesNear, Lies, uint32
    <3>4. (symbols[p] = SymbolEntry(order[p], symbols[p].name))'
      BY <1>8, <1>9, <3>1 DEF SymbolEntry, SectionNumber
    <3> QED
      BY <3>3, <3>4 DEF Describes
  <2>2. CASE p \in 1 .. l
    <3>1. Describes(p) /\ order' = order /\ symbols'[p] = symbols[p]
      BY <1>1, <1>3, <1>7, <2>2 DEF SymbolInv
    <3>2. LiesNear(strings', symbols[p].name, StringOf(order[p]))
      BY <1>10, <3>1 DEF Describes, LiesNear, Lies
    <3>3. LiesNear(strings, symbols[p].name, StringOf(order[p]))'
      BY <1>9, <3>1, <3>2 DEF LiesNear, Lies, uint32
    <3>4. (symbols[p] = SymbolEntry(order[p], symbols[p].name))'
      BY <1>9, <3>1 DEF Describes, SymbolEntry, SectionNumber
    <3> QED
      BY <3>3, <3>4 DEF Describes
  <2> QED
    BY <1>3, <2>1, <2>2
<1>13. map' \in [DOMAIN Symbols -> 0 .. WordSpan - 1]
  <2>1. uint32(k - 1) \in 0 .. WordSpan - 1
    BY <1>2, Uncut
  <2> QED
    BY <1>1, <1>3, <1>4, <2>1
<1>14. \A j \in DOMAIN Symbols :
         map'[j] # Unmapped =>
           \E p \in 1 .. l + 1 : order[p] = j /\ map'[j] = uint32(p - 1)
  <2> SUFFICES ASSUME NEW j \in DOMAIN Symbols, map'[j] # Unmapped
               PROVE  \E p \in 1 .. l + 1 : order[p] = j /\ map'[j] = uint32(p - 1)
    OBVIOUS
  <2>1. CASE j = i
    <3>1. /\ map'[j] = uint32((l + 1) - 1) /\ order[l + 1] = j
          /\ l + 1 \in 1 .. l + 1
      BY <1>1, <1>3, <1>4, <1>5, <2>1
    <3> QED
      BY <3>1
  <2>2. CASE j # i
    <3>1. map'[j] = map[j]
      BY <1>1, <1>3, <2>2
    <3>2. PICK p \in DOMAIN symbols : order[p] = j /\ map[j] = uint32(p - 1)
      BY <3>1 DEF SymbolInv
    <3>3. p \in 1 .. l + 1
      BY <1>3, <3>2
    <3> QED
      BY <3>1, <3>2, <3>3
  <2> QED
    BY <2>1, <2>2
<1>16. CountsInv'
  <2>1. CountsInv
    BY DEF SymbolInv
  <2> QED
    BY <1>1, <1>3, <1>5, <1>6, <1>7, <2>1, CountsGrow
<1>17. /\ Len(symbols') <= Len(order') /\ Len(symbols') = k' - 1
       /\ Len(symbols') - 1 = l
       /\ pc' \notin {"collect", "sort"} /\ pc' \notin Described
  BY <1>1, <1>2, <1>3, <1>4, <1>7 DEF Described
<1>18. Symbols' = Symbols /\ order' = order
  BY <1>1, <1>9
<1> HIDE DEF l
<1> QED
  BY <1>7, <1>11, <1>12, <1>13, <1>14, <1>16, <1>17, <1>18
     DEF SymbolInv, Unmapped, uint32

LEMMA SymbolSteps ==
  OrderInv /\ TableInv /\ SymbolInv /\ [Next]_vars => SymbolInv'
<1> SUFFICES ASSUME OrderInv, TableInv, SymbolInv, [Next]_vars
             PROVE  SymbolInv'
  OBVIOUS
<1>1. CASE AddSymbol
  BY <1>1, AddSymbolSymbols
<1>2. CASE Collect \/ EndCollect \/ Insert
  <2>1. /\ symbols = << >> /\ pc' \in {"collect", "sort"}
        /\ UNCHANGED <<object, symbols, strings, map, counts>>
    BY <1>2 DEF SymbolInv, Collect, EndCollect, Insert, Goto, Advance
  <2>2. /\ Len(symbols) = 0 /\ DOMAIN symbols = {}
    BY <2>1
  <2>3. order' \in Seq(DOMAIN Symbols')
    BY <1>2, OrderSteps DEF OrderInv
  <2>4. Len(order') \in Nat /\ Symbols' = Symbols
    BY <2>1, <2>3, OrderFrame
  <2>5. \A j \in DOMAIN Symbols : map[j] = Unmapped
    BY <2>2 DEF SymbolInv, Unmapped
  <2>6. pc' \notin Described /\ pc' # "symbols"
    BY <2>1 DEF Described
  <2>7. CountsInv'
    BY <2>1, <2>2 DEF SymbolInv, CountsInv
  <2> QED
    BY <2>1, <2>2, <2>4, <2>5, <2>6, <2>7 DEF SymbolInv
<1>3. CASE UNCHANGED vars
  BY <1>3, SymbolFrame DEF SymbolInv, vars
<1>4. CASE Terminated
  BY <1>4, SymbolFrame DEF SymbolInv, vars, Terminated
<1>5. CASE EndSort
  <2>1. /\ UNCHANGED <<object, symbols, order, map, counts>>
        /\ pc = "sort" /\ pc' = "symbols" /\ k' = 1
    BY <1>5 DEF EndSort, Goto
  <2>2. Len(symbols) = k' - 1
    BY <2>1 DEF SymbolInv
  <2>3. Pieces(strings) \subseteq Pieces(strings')
    BY <1>5, EndSortEffect DEF TableInv, Grown
  <2> QED
    BY <2>1, <2>2, <2>3, SymbolFrame DEF Described
<1>6. CASE PutHeader
  <2>1. /\ UNCHANGED <<object, symbols, order, strings, map, counts>>
        /\ pc = "symbols" /\ pc' = "sections" /\ k > Len(order)
    BY <1>6 DEF PutHeader, Goto
  <2>2. Len(symbols) = Len(order)
    <3>1. /\ Len(symbols) = k - 1 /\ Len(symbols) <= Len(order)
          /\ Len(order) \in Nat /\ k \in Nat
      BY <2>1 DEF SymbolInv, OrderInv
    <3> QED
      BY <2>1, <3>1
  <2> QED
    BY <2>1, <2>2, SymbolFrame DEF Described
<1>7. CASE \/ PutSectionHeader \/ PutTables \/ PutBuildVersion \/ PutData
           \/ EndData \/ PutRelocations \/ RejectHidden \/ PutSymbols
           \/ PutStrings \/ WriteFile \/ WriteFails
  <2>1. /\ UNCHANGED <<object, symbols, order, strings, map, counts>>
        /\ pc \in Described /\ pc' \in Described \cup {"failed"}
    BY <1>7 DEF PutSectionHeader, PutTables, PutBuildVersion, PutData,
         EndData, PutRelocations, RejectHidden, PutSymbols, PutStrings,
         WriteFile, WriteFails, Fail, Goto, Advance, Described
  <2>2. Len(symbols) = Len(order)
    BY <2>1 DEF SymbolInv
  <2> QED
    BY <2>1, <2>2, SymbolFrame DEF Described
<1>8. CASE OutOfMemory
  <2>1. /\ UNCHANGED <<object, symbols, order, strings, map, counts>>
        /\ pc' = "failed"
    BY <1>8 DEF OutOfMemory, Fail
  <2> QED
    BY <2>1, SymbolFrame DEF Described
<1> QED
  BY <1>1, <1>2, <1>3, <1>4, <1>5, <1>6, <1>7, <1>8 DEF Next

-----------------------------------------------------------------------------
(* The sums that the offsets are made of.                                  *)

(* The equation of the recursive function in SumTo.                        *)
IsSum(sum, n, bytes) ==
  sum = [i \in 0 .. n |-> IF i = 0 THEN 0 ELSE sum[i - 1] + bytes[i]]

LEMMA SumsAgree ==
  ASSUME NEW m \in Nat, NEW n \in Nat, NEW bytes, NEW f, NEW g,
         IsSum(f, m, bytes), IsSum(g, n, bytes)
  PROVE  \A i \in 0 .. m : i <= n => f[i] = g[i]
<1> DEFINE S == {i \in Nat : i <= m /\ i <= n => f[i] = g[i]}
<1>1. /\ \A i \in 0 .. m : f[i] = IF i = 0 THEN 0 ELSE f[i - 1] + bytes[i]
      /\ \A i \in 0 .. n : g[i] = IF i = 0 THEN 0 ELSE g[i - 1] + bytes[i]
  BY DEF IsSum
<1>2. 0 \in S
  BY <1>1
<1>3. ASSUME NEW i \in Nat, i \in S
      PROVE  i + 1 \in S
  <2>1. ASSUME i + 1 <= m, i + 1 <= n
        PROVE  f[i + 1] = g[i + 1]
    <3>1. i + 1 \in 0 .. m /\ i + 1 \in 0 .. n /\ i + 1 # 0 /\ (i + 1) - 1 = i
      BY <2>1
    <3>2. f[i] = g[i]
      BY <1>3, <2>1
    <3>3. f[i + 1] = f[i] + bytes[i + 1] /\ g[i + 1] = g[i] + bytes[i + 1]
      BY <1>1, <3>1
    <3> QED
      BY <3>2, <3>3
  <2> QED
    BY <2>1
<1>4. \A i \in Nat : i \in S
  <2> HIDE DEF S
  <2> QED
    BY <1>2, <1>3, Induction
<1> QED
  BY <1>4

LEMMA SumsExist ==
  ASSUME NEW l \in Nat, NEW bytes, \A i \in 1 .. l : bytes[i] \in Nat
  PROVE  \A n \in 0 .. l : \E sum \in [0 .. n -> Nat] : IsSum(sum, n, bytes)
<1> DEFINE S == {n \in Nat : n <= l => \E sum \in [0 .. n -> Nat] :
                                          IsSum(sum, n, bytes)}
<1>1. 0 \in S
  <2> DEFINE z == [i \in 0 .. 0 |-> 0]
  <2>1. z \in [0 .. 0 -> Nat] /\ IsSum(z, 0, bytes)
    BY DEF IsSum
  <2> QED
    BY <2>1
<1>2. ASSUME NEW n \in Nat, n \in S
      PROVE  n + 1 \in S
  <2>1. ASSUME n + 1 <= l
        PROVE  \E sum \in [0 .. n + 1 -> Nat] : IsSum(sum, n + 1, bytes)
    <3>1. PICK f \in [0 .. n -> Nat] : IsSum(f, n, bytes)
      BY <1>2, <2>1
    <3> DEFINE g == [i \in 0 .. n + 1 |->
                       IF i = n + 1 THEN f[n] + bytes[n + 1] ELSE f[i]]
    <3>2. bytes[n + 1] \in Nat /\ n \in 0 .. n
      BY <2>1
    <3>3. f[n] \in Nat /\ f[n] + bytes[n + 1] \in Nat
      BY <3>2
    <3>4. g \in [0 .. n + 1 -> Nat]
      BY <3>3
    <3>5. \A i \in 0 .. n : f[i] = IF i = 0 THEN 0 ELSE f[i - 1] + bytes[i]
      BY <3>1 DEF IsSum
    <3>6. \A i \in 0 .. n + 1 : g[i] = IF i = 0 THEN 0 ELSE g[i - 1] + bytes[i]
      <4> TAKE i \in 0 .. n + 1
      <4>1. CASE i = n + 1
        <5>1. i # 0 /\ i - 1 = n /\ i - 1 \in 0 .. n + 1 /\ i - 1 # n + 1
          BY <4>1
        <5>2. g[i - 1] = f[n] /\ g[i] = f[n] + bytes[n + 1]
          BY <4>1, <5>1
        <5> QED
          BY <4>1, <5>1, <5>2
      <4>2. CASE i \in 0 .. n
        <5>1. g[i] = f[i] /\ (i # 0 => g[i - 1] = f[i - 1])
          BY <4>2
        <5> QED
          BY <3>5, <4>2, <5>1
      <4> QED
        BY <4>1, <4>2
    <3>7. IsSum(g, n + 1, bytes)
      <4> HIDE DEF g
      <4> QED
        BY <3>4, <3>6 DEF IsSum
    <3> QED
      BY <3>4, <3>7
  <2> QED
    BY <2>1
<1>3. \A n \in Nat : n \in S
  <2> HIDE DEF S
  <2> QED
    BY <1>1, <1>2, Induction
<1> QED
  <2> TAKE n \in 0 .. l
  <2>1. n \in Nat /\ n <= l
    OBVIOUS
  <2> HIDE DEF S
  <2>2. n \in S
    BY <1>3, <2>1
  <2> QED
    BY <2>1, <2>2 DEF S

(* The sums add up one by one.                                             *)
LEMMA SumUnfolds ==
  ASSUME NEW l \in Nat, NEW bytes, \A i \in 1 .. l : bytes[i] \in Nat
  PROVE  /\ SumTo(0, bytes) = 0
         /\ \A n \in 0 .. l : SumTo(n, bytes) \in Nat
         /\ \A n \in 1 .. l : SumTo(n, bytes) = SumTo(n - 1, bytes) + bytes[n]
<1>1. \A n \in 0 .. l : \E sum \in [0 .. n -> Nat] :
        IsSum(sum, n, bytes) /\ SumTo(n, bytes) = sum[n]
  <2> TAKE n \in 0 .. l
  <2> DEFINE f == CHOOSE sum : IsSum(sum, n, bytes)
  <2>1. PICK g \in [0 .. n -> Nat] : IsSum(g, n, bytes)
    BY SumsExist
  <2>2. IsSum(f, n, bytes)
    BY <2>1
  <2>3. SumTo(n, bytes) = f[n]
    BY DEF SumTo, IsSum
  <2> HIDE DEF f
  <2>4. \A i \in 0 .. n : f[i] = g[i]
    BY <2>1, <2>2, SumsAgree
  <2>5. SumTo(n, bytes) = g[n]
    BY <2>3, <2>4
  <2> QED
    BY <2>1, <2>5
<1>2. \A n \in 0 .. l : SumTo(n, bytes) \in Nat
  BY <1>1
<1>3. SumTo(0, bytes) = 0
  BY <1>1 DEF IsSum
<1>4. ASSUME NEW n \in 1 .. l
      PROVE  SumTo(n, bytes) = SumTo(n - 1, bytes) + bytes[n]
  <2>1. n \in 0 .. l /\ n - 1 \in 0 .. l /\ n \in 0 .. n /\ n # 0
        /\ n - 1 \in 0 .. n /\ n - 1 <= n - 1
    OBVIOUS
  <2>2. PICK f \in [0 .. n -> Nat] : IsSum(f, n, bytes) /\ SumTo(n, bytes) = f[n]
    BY <1>1, <2>1
  <2>3. PICK g \in [0 .. n - 1 -> Nat] :
          IsSum(g, n - 1, bytes) /\ SumTo(n - 1, bytes) = g[n - 1]
    BY <1>1, <2>1
  <2>4. f[n - 1] = g[n - 1]
    BY <2>1, <2>2, <2>3, SumsAgree
  <2>5. f[n] = f[n - 1] + bytes[n]
    BY <2>1, <2>2 DEF IsSum
  <2> QED
    BY <2>2, <2>3, <2>4, <2>5
<1> QED
  BY <1>2, <1>3, <1>4
-----------------------------------------------------------------------------
(* The offsets that the load commands promise, and the length of the file  *)
(* when it gets there.                                                     *)

DataAt(i) == DataPlace + SumTo(i - 1, Bytes)

RelocationsAt(i) == RelocationPlace + SumTo(i - 1, RelocationBytes)

HeadersEnd == 104 + 80 * Len(Sections)

LengthInv ==
  /\ pc \in {"collect", "sort", "symbols"} => buffer.length = 0
  /\ pc = "sections" =>
       k <= Len(Sections) + 1 /\ buffer.length = 104 + 80 * (k - 1)
  /\ pc = "build" => buffer.length = HeadersEnd + 104
  /\ pc = "data" => k <= Len(Sections) + 1 /\ buffer.length = DataAt(k)
  /\ pc = "relocations" =>
       k <= Len(Sections) + 1 /\ buffer.length = RelocationsAt(k)
  /\ pc = "strings" => buffer.length = StringPlace
  /\ pc \in {"write", "done"} => buffer.length = StringPlace + strings.length

LEMMA OffsetFacts ==
  ASSUME object \in Objects
  PROVE  /\ HeadersEnd \in Nat /\ BuildSize \in {0, 24}
         /\ DataPlace = HeadersEnd + 104 + BuildSize
         /\ DataAt(1) = DataPlace
         /\ RelocationsAt(1) = DataAt(Len(Sections) + 1)
         /\ SymbolPlace = RelocationsAt(Len(Sections) + 1)
         /\ \A i \in 1 .. Len(Sections) + 1 :
              DataAt(i) \in Nat /\ RelocationsAt(i) \in Nat
         /\ \A i \in DOMAIN Sections :
              /\ DataAt(i + 1) = DataAt(i) + Sections[i].size
              /\ RelocationsAt(i + 1) = RelocationsAt(i) + RelocationBytes[i]
<1> DEFINE l == Len(Sections)
<1>1. /\ l \in Nat /\ DOMAIN Sections = 1 .. l
      /\ \A i \in 1 .. l : /\ Bytes[i] = Sections[i].size /\ Bytes[i] \in Nat
                           /\ RelocationBytes[i] \in Nat
  BY SymbolsAreTyped, ObjectIsTyped DEF Bytes
<1>2. BuildSize \in {0, 24}
  BY DEF BuildSize
<1>3. /\ HeadersEnd \in Nat /\ DataPlace = HeadersEnd + 104 + BuildSize
      /\ DataPlace \in Nat
  BY <1>1, <1>2 DEF HeadersEnd, DataPlace, CommandsSize, HeaderSize,
     SegmentSize, SectionSize, SymtabSize, DysymtabSize
<1> DEFINE a(n) == SumTo(n, Bytes)
           b(n) == SumTo(n, RelocationBytes)
<1>4. /\ a(0) = 0 /\ \A n \in 0 .. l : a(n) \in Nat
      /\ \A n \in 1 .. l : a(n) = a(n - 1) + Sections[n].size
  <2>1. /\ a(0) = 0 /\ \A n \in 0 .. l : a(n) \in Nat
        /\ \A n \in 1 .. l : a(n) = a(n - 1) + Bytes[n]
    BY <1>1, SumUnfolds
  <2> QED
    BY <1>1, <2>1
<1>5. /\ b(0) = 0 /\ \A n \in 0 .. l : b(n) \in Nat
      /\ \A n \in 1 .. l : b(n) = b(n - 1) + RelocationBytes[n]
  BY <1>1, SumUnfolds
<1>6. /\ RelocationPlace = DataPlace + a(l)
      /\ SymbolPlace = RelocationPlace + b(l)
  BY DEF RelocationPlace, SymbolPlace
<1>7. \A i : /\ DataAt(i) = DataPlace + a(i - 1)
             /\ RelocationsAt(i) = RelocationPlace + b(i - 1)
  BY DEF DataAt, RelocationsAt
<1>8. \A i \in 1 .. l : Sections[i].size \in Nat /\ RelocationBytes[i] \in Nat
  BY <1>1
<1> HIDE DEF l, a, b
<1>9. RelocationPlace \in Nat
  <2>1. a(l) \in Nat
    BY <1>1, <1>4
  <2> QED
    BY <1>3, <1>6, <2>1
<1>10. DataAt(1) = DataPlace /\ RelocationsAt(1) = RelocationPlace
  <2>1. 1 - 1 = 0
    OBVIOUS
  <2>2. DataAt(1) = DataPlace + 0 /\ RelocationsAt(1) = RelocationPlace + 0
    BY <1>4, <1>5, <1>7, <2>1
  <2> QED
    BY <1>3, <1>9, <2>2
<1>11. /\ DataAt(l + 1) = RelocationPlace
       /\ RelocationsAt(l + 1) = SymbolPlace
  <2>1. (l + 1) - 1 = l
    BY <1>1
  <2> QED
    BY <1>6, <1>7, <2>1
<1>12. \A i \in 1 .. l + 1 : DataAt(i) \in Nat /\ RelocationsAt(i) \in Nat
  <2> TAKE i \in 1 .. l + 1
  <2>1. i - 1 \in 0 .. l
    BY <1>1
  <2>2. a(i - 1) \in Nat /\ b(i - 1) \in Nat
    BY <1>4, <1>5, <2>1
  <2> QED
    BY <1>3, <1>7, <1>9, <2>2
<1>13. \A i \in 1 .. l :
        /\ DataAt(i + 1) = DataAt(i) + Sections[i].size
        /\ RelocationsAt(i + 1) = RelocationsAt(i) + RelocationBytes[i]
  <2> TAKE i \in 1 .. l
  <2>1. (i + 1) - 1 = i /\ i - 1 \in 0 .. l
    BY <1>1
  <2>2. a(i) = a(i - 1) + Sections[i].size /\ a(i - 1) \in Nat
    BY <1>4, <2>1
  <2>3. b(i) = b(i - 1) + RelocationBytes[i] /\ b(i - 1) \in Nat
    BY <1>5, <2>1
  <2>4. /\ DataAt(i + 1) = DataPlace + a(i)
        /\ RelocationsAt(i + 1) = RelocationPlace + b(i)
        /\ DataAt(i) = DataPlace + a(i - 1)
        /\ RelocationsAt(i) = RelocationPlace + b(i - 1)
    BY <1>7, <2>1
  <2> QED
    BY <1>3, <1>8, <1>9, <2>2, <2>3, <2>4
<1> QED
  BY <1>1, <1>2, <1>3, <1>10, <1>11, <1>12, <1>13 DEF l

LEMMA OffsetFrame ==
  ASSUME UNCHANGED object
  PROVE  /\ \A i : DataAt(i)' = DataAt(i)
         /\ \A i : RelocationsAt(i)' = RelocationsAt(i)
         /\ HeadersEnd' = HeadersEnd /\ BuildSize' = BuildSize
         /\ DataPlace' = DataPlace /\ SymbolPlace' = SymbolPlace
         /\ CommandsSize' = CommandsSize
         /\ RelocationPlace' = RelocationPlace
         /\ \A n : SumTo(n, Bytes)' = SumTo(n, Bytes)
         /\ \A n : SumTo(n, RelocationBytes)' = SumTo(n, RelocationBytes)
         /\ \A i : DataOffset(i)' = DataOffset(i)
         /\ \A i : RelocationOffset(i)' = RelocationOffset(i)
         /\ SymbolOffset' = SymbolOffset
         /\ order' = order =>
              StringPlace' = StringPlace /\ StringOffset' = StringOffset
<1>1. Sections' = Sections /\ Bytes' = Bytes /\ RelocationBytes' = RelocationBytes
  BY DEF Sections, Bytes, RelocationBytes
<1>2. /\ \A n : SumTo(n, Bytes)' = SumTo(n, Bytes)
      /\ \A n : SumTo(n, RelocationBytes)' = SumTo(n, RelocationBytes)
  BY <1>1 DEF SumTo
<1>3. /\ BuildSize' = BuildSize /\ CommandsSize' = CommandsSize
      /\ HeadersEnd' = HeadersEnd
  BY <1>1 DEF BuildSize, CommandsSize, HeadersEnd
<1>4. DataPlace' = DataPlace
  BY <1>3 DEF DataPlace
<1>5. /\ RelocationPlace' = RelocationPlace
      /\ SymbolPlace' = SymbolPlace
  BY <1>1, <1>2, <1>4 DEF RelocationPlace, SymbolPlace
<1>6. /\ \A i : DataOffset(i)' = DataOffset(i)
      /\ \A i : RelocationOffset(i)' = RelocationOffset(i)
      /\ SymbolOffset' = SymbolOffset
  BY <1>2, <1>4, <1>5 DEF DataOffset, RelocationOffset, SymbolOffset, uint32
<1>7. ASSUME order' = order
      PROVE  StringPlace' = StringPlace /\ StringOffset' = StringOffset
  BY <1>5, <1>7 DEF StringPlace, StringOffset, uint32
<1> QED
  BY <1>1, <1>2, <1>3, <1>4, <1>5, <1>6, <1>7 DEF DataAt, RelocationsAt

(* The parts of the file follow each other in it.                          *)
LEMMA PlacesInOrder ==
  ASSUME object \in Objects
  PROVE  \A i \in 1 .. Len(Sections) + 1 :
           /\ HeadersEnd + 104 <= DataAt(i) /\ DataAt(i) <= RelocationPlace
           /\ RelocationPlace <= RelocationsAt(i) /\ RelocationsAt(i) <= SymbolPlace
<1> DEFINE l == Len(Sections)
           c == DataPlace
           S == {n \in Nat : n <= l =>
                   /\ c <= DataAt(n + 1) /\ DataAt((l + 1) - n) <= DataAt(l + 1)
                   /\ RelocationsAt(1) <= RelocationsAt(n + 1)
                   /\ RelocationsAt((l + 1) - n) <= RelocationsAt(l + 1)}
<1>1. /\ l \in Nat /\ DOMAIN Sections = 1 .. l
      /\ \A i \in 1 .. l : Sections[i].size \in Nat /\ RelocationBytes[i] \in Nat
  BY SymbolsAreTyped, ObjectIsTyped
<1>2. /\ HeadersEnd \in Nat /\ BuildSize \in {0, 24}
      /\ c = HeadersEnd + 104 + BuildSize /\ DataAt(1) = c
      /\ RelocationsAt(1) = DataAt(l + 1)
      /\ SymbolPlace = RelocationsAt(l + 1)
      /\ \A i \in 1 .. l + 1 : DataAt(i) \in Nat /\ RelocationsAt(i) \in Nat
      /\ \A i \in 1 .. l :
           /\ DataAt(i + 1) = DataAt(i) + Sections[i].size
           /\ RelocationsAt(i + 1) = RelocationsAt(i) + RelocationBytes[i]
  BY <1>1, OffsetFacts
<1> HIDE DEF l, c
<1>3. 0 \in S
  <2>1. 0 + 1 = 1 /\ (l + 1) - 0 = l + 1 /\ 1 \in 1 .. l + 1 /\ l + 1 \in 1 .. l + 1
    BY <1>1
  <2> QED
    BY <1>2, <2>1
<1>4. ASSUME NEW n \in Nat, n \in S
      PROVE  n + 1 \in S
  <2> SUFFICES ASSUME n + 1 <= l
               PROVE  /\ c <= DataAt((n + 1) + 1)
                      /\ DataAt((l + 1) - (n + 1)) <= DataAt(l + 1)
                      /\ RelocationsAt(1) <= RelocationsAt((n + 1) + 1)
                      /\ RelocationsAt((l + 1) - (n + 1)) <= RelocationsAt(l + 1)
    OBVIOUS
  <2> DEFINE a == n + 1
             b == (l + 1) - (n + 1)
  <2>1. /\ a \in 1 .. l /\ b \in 1 .. l /\ b + 1 = (l + 1) - n
        /\ a \in 1 .. l + 1 /\ b \in 1 .. l + 1 /\ b + 1 \in 1 .. l + 1
        /\ a + 1 \in 1 .. l + 1 /\ 1 \in 1 .. l + 1 /\ l + 1 \in 1 .. l + 1
        /\ n <= l
    BY <1>1
  <2>2. /\ c <= DataAt(a) /\ DataAt(b + 1) <= DataAt(l + 1)
        /\ RelocationsAt(1) <= RelocationsAt(a)
        /\ RelocationsAt(b + 1) <= RelocationsAt(l + 1)
    BY <1>4, <2>1
  <2>3. /\ DataAt(a + 1) = DataAt(a) + Sections[a].size
        /\ DataAt(b + 1) = DataAt(b) + Sections[b].size
        /\ RelocationsAt(a + 1) = RelocationsAt(a) + RelocationBytes[a]
        /\ RelocationsAt(b + 1) = RelocationsAt(b) + RelocationBytes[b]
        /\ Sections[a].size \in Nat /\ Sections[b].size \in Nat
        /\ RelocationBytes[a] \in Nat /\ RelocationBytes[b] \in Nat
        /\ DataAt(a) \in Nat /\ DataAt(b) \in Nat /\ DataAt(l + 1) \in Nat
        /\ RelocationsAt(a) \in Nat /\ RelocationsAt(b) \in Nat
        /\ RelocationsAt(1) \in Nat /\ RelocationsAt(l + 1) \in Nat /\ c \in Nat
    BY <1>1, <1>2, <2>1
  <2> HIDE DEF a, b
  <2>4. /\ c <= DataAt(a + 1) /\ DataAt(b) <= DataAt(l + 1)
        /\ RelocationsAt(1) <= RelocationsAt(a + 1)
        /\ RelocationsAt(b) <= RelocationsAt(l + 1)
    BY <2>2, <2>3
  <2> QED
    BY <2>4 DEF a, b
<1>5. \A n \in Nat : n \in S
  <2> HIDE DEF S
  <2> QED
    BY <1>3, <1>4, Induction
<1>6. RelocationPlace = RelocationsAt(1)
  <2>1. RelocationPlace = DataAt(l + 1)
    BY <1>1 DEF RelocationPlace, DataAt, l
  <2> QED
    BY <1>2, <2>1
<1> SUFFICES ASSUME NEW i \in 1 .. l + 1
             PROVE  /\ HeadersEnd + 104 <= DataAt(i) /\ DataAt(i) <= RelocationPlace
                    /\ RelocationPlace <= RelocationsAt(i)
                    /\ RelocationsAt(i) <= SymbolPlace
  BY DEF l
<1>7. /\ i - 1 \in Nat /\ i - 1 <= l /\ (i - 1) + 1 = i
      /\ (l + 1) - i \in Nat /\ (l + 1) - i <= l /\ (l + 1) - ((l + 1) - i) = i
  BY <1>1
<1>8. /\ c <= DataAt(i) /\ RelocationsAt(1) <= RelocationsAt(i)
      /\ DataAt(i) <= DataAt(l + 1) /\ RelocationsAt(i) <= RelocationsAt(l + 1)
  <2>1. i - 1 \in S /\ (l + 1) - i \in S
    BY <1>5, <1>7
  <2> QED
    BY <1>7, <2>1
<1>9. DataAt(i) \in Nat
  BY <1>2
<1> QED
  BY <1>2, <1>6, <1>8, <1>9

LEMMA InitLength == Init => LengthInv
BY DEF Init, LengthInv, EmptyBuffer

LEMMA LengthSteps ==
  OrderInv /\ TableInv /\ SymbolInv /\ LengthInv /\ [Next]_vars => LengthInv'
<1> SUFFICES ASSUME OrderInv, TableInv, SymbolInv, LengthInv, [Next]_vars
             PROVE  LengthInv'
  OBVIOUS
<1> DEFINE l == Len(Sections)
<1>1. /\ object \in Objects /\ k \in Nat \ {0} /\ Buffers
      /\ buffer.length \in Nat /\ strings.length \in Nat
  BY DEF OrderInv, TableInv, Buffers, IsBuffer
<1>2. l \in Nat /\ DOMAIN Sections = 1 .. l
  BY <1>1, SymbolsAreTyped
<1>3. /\ HeadersEnd = 104 + 80 * l /\ BuildSize \in {0, 24}
      /\ DataAt(1) = HeadersEnd + 104 + BuildSize
      /\ RelocationsAt(1) = DataAt(l + 1)
      /\ SymbolPlace = RelocationsAt(l + 1)
      /\ \A i \in 1 .. l :
           /\ DataAt(i + 1) = DataAt(i) + Sections[i].size
           /\ RelocationsAt(i + 1) = RelocationsAt(i) + RelocationBytes[i]
  BY <1>1, <1>2, OffsetFacts DEF HeadersEnd
<1>4. ASSUME object' = object
      PROVE  /\ Len(Sections') = l /\ HeadersEnd' = HeadersEnd
             /\ \A i : DataAt(i)' = DataAt(i)
             /\ \A i : RelocationsAt(i)' = RelocationsAt(i)
             /\ order' = order => StringPlace' = StringPlace
  BY <1>4, OffsetFrame DEF Sections
<1> HIDE DEF l
<1>5. CASE UNCHANGED vars \/ Terminated
  <2>1. UNCHANGED <<object, pc, k, order, strings, buffer>>
    BY <1>5 DEF vars, Terminated
  <2> QED
    BY <1>4, <2>1 DEF LengthInv, l
<1>6. CASE Collect \/ EndCollect \/ Insert \/ EndSort \/ AddSymbol
  <2>1. /\ buffer' = buffer /\ pc' \in {"collect", "sort", "symbols"}
        /\ pc \in {"collect", "sort", "symbols"}
    BY <1>6 DEF Collect, EndCollect, Insert, EndSort, AddSymbol, Goto, Advance
  <2> QED
    BY <2>1 DEF LengthInv
<1>7. CASE PutHeader
  <2>1. /\ pc' = "sections" /\ k' = 1 /\ object' = object
        /\ buffer.length = 0
    BY <1>7 DEF PutHeader, Goto, LengthInv
  <2>2. buffer'.length = buffer.length + 104
    BY <1>1, <1>7, PutHeaderEffect DEF Grown
  <2>3. Len(Sections') \in Nat
    BY <1>2, <1>4, <2>1
  <2> QED
    BY <2>1, <2>2, <2>3 DEF LengthInv
<1>8. CASE PutSectionHeader
  <2>1. /\ pc' = "sections" /\ k' = k + 1 /\ object' = object /\ k <= l
        /\ buffer.length = 104 + 80 * (k - 1)
    BY <1>8 DEF PutSectionHeader, Advance, LengthInv, l
  <2>2. buffer'.length = buffer.length + 80
    BY <1>1, <1>8, PutSectionHeaderEffect DEF Grown
  <2>3. Len(Sections') = l
    BY <1>4, <2>1
  <2>4. buffer'.length = 104 + 80 * (k' - 1) /\ k' <= l + 1
    BY <1>1, <1>2, <2>1, <2>2
  <2> QED
    BY <2>1, <2>3, <2>4 DEF LengthInv
<1>9. CASE PutTables
  <2>1. /\ pc' \in {"build", "data"} /\ k' = 1 /\ object' = object /\ k > l
        /\ k <= l + 1 /\ buffer.length = 104 + 80 * (k - 1)
        /\ pc' = "data" => ~object.build
    BY <1>9 DEF PutTables, Goto, LengthInv, l
  <2>2. buffer'.length = buffer.length + 104
    BY <1>1, <1>9, PutTablesEffect DEF Grown
  <2>3. /\ Len(Sections') = l /\ HeadersEnd' = HeadersEnd
        /\ \A i : DataAt(i)' = DataAt(i)
    BY <1>4, <2>1
  <2>4. buffer'.length = HeadersEnd + 104
    BY <1>1, <1>2, <1>3, <2>1, <2>2
  <2>5. pc' = "data" => BuildSize = 0
    BY <2>1 DEF BuildSize
  <2>6. pc' = "data" => buffer'.length = DataAt(1)
    BY <1>2, <1>3, <2>4, <2>5
  <2>7. 1 <= l + 1
    BY <1>2
  <2>8. pc' = "data" => k' <= Len(Sections') + 1 /\ buffer'.length = DataAt(k)'
    BY <2>1, <2>3, <2>6, <2>7
  <2> QED
    BY <2>1, <2>3, <2>4, <2>8 DEF LengthInv
<1>10. CASE PutBuildVersion
  <2>1. /\ pc' = "data" /\ k' = 1 /\ object' = object
        /\ buffer.length = HeadersEnd + 104 /\ object.build
    BY <1>10 DEF PutBuildVersion, Goto, LengthInv, TableInv
  <2>2. buffer'.length = buffer.length + BuildSize
    BY <1>1, <1>10, PutBuildVersionEffect DEF Grown
  <2>3. Len(Sections') = l /\ \A i : DataAt(i)' = DataAt(i)
    BY <1>4, <2>1
  <2>4. buffer'.length = DataAt(1) /\ 1 <= l + 1
    BY <1>2, <1>3, <2>1, <2>2
  <2> QED
    BY <2>1, <2>3, <2>4 DEF LengthInv
<1>11. CASE PutData
  <2>1. /\ pc' = "data" /\ k' = k + 1 /\ object' = object /\ k <= l
        /\ buffer.length = DataAt(k) /\ k \in 1 .. l
    BY <1>1, <1>2, <1>11 DEF PutData, Advance, LengthInv, l
  <2>2. buffer'.length = buffer.length + Sections[k].size
    BY <1>1, <1>11, PutDataEffect DEF Grown
  <2>3. Len(Sections') = l /\ \A i : DataAt(i)' = DataAt(i)
    BY <1>4, <2>1
  <2>4. buffer'.length = DataAt(k + 1) /\ k + 1 <= l + 1
    BY <1>1, <1>2, <1>3, <2>1, <2>2
  <2> QED
    BY <2>1, <2>3, <2>4 DEF LengthInv
<1>12. CASE EndData
  <2>1. /\ pc' = "relocations" /\ k' = 1 /\ object' = object /\ k > l
        /\ k <= l + 1 /\ buffer' = buffer /\ buffer.length = DataAt(k)
    BY <1>12 DEF EndData, Goto, LengthInv, l
  <2>2. k = l + 1 /\ 1 <= l + 1
    BY <1>1, <1>2, <2>1
  <2>3. Len(Sections') = l /\ \A i : RelocationsAt(i)' = RelocationsAt(i)
    BY <1>4, <2>1
  <2> QED
    BY <1>3, <2>1, <2>2, <2>3 DEF LengthInv
<1>13. CASE PutRelocations
  <2>1. /\ pc' = "relocations" /\ k' = k + 1 /\ object' = object /\ k <= l
        /\ buffer.length = RelocationsAt(k) /\ k \in 1 .. l
    BY <1>1, <1>2, <1>13 DEF PutRelocations, Advance, LengthInv, l
  <2>2. buffer'.length = buffer.length + RelocationBytes[k]
    BY <1>1, <1>13, PutRelocationsEffect DEF Grown
  <2>3. Len(Sections') = l /\ \A i : RelocationsAt(i)' = RelocationsAt(i)
    BY <1>4, <2>1
  <2>4. buffer'.length = RelocationsAt(k + 1) /\ k + 1 <= l + 1
    BY <1>1, <1>2, <1>3, <2>1, <2>2
  <2> QED
    BY <2>1, <2>3, <2>4 DEF LengthInv
<1>14. CASE PutSymbols
  <2>1. /\ pc' = "strings" /\ object' = object /\ order' = order /\ k > l
        /\ k <= l + 1 /\ buffer.length = RelocationsAt(k)
    BY <1>14 DEF PutSymbols, Goto, LengthInv, l
  <2>2. k = l + 1
    BY <1>1, <1>2, <2>1
  <2>3. Len(symbols) = Len(order)
    BY <1>14 DEF PutSymbols, SymbolInv, Described
  <2>4. buffer'.length = buffer.length + 16 * Len(symbols)
    BY <1>1, <1>14, PutSymbolsEffect DEF Grown
  <2>5. buffer'.length = StringPlace
    BY <1>3, <2>1, <2>2, <2>3, <2>4 DEF StringPlace, SymbolSize
  <2> QED
    BY <1>4, <2>1, <2>5 DEF LengthInv
<1>15. CASE PutStrings
  <2>1. /\ pc' = "write" /\ object' = object /\ order' = order
        /\ strings' = strings /\ buffer.length = StringPlace
    BY <1>15 DEF PutStrings, Goto, LengthInv
  <2>2. buffer'.length = buffer.length + strings.length
    BY <1>1, <1>15, PutStringsEffect DEF Grown
  <2> QED
    BY <1>4, <2>1, <2>2 DEF LengthInv
<1>16. CASE WriteFile \/ WriteFails
  <2>1. /\ pc' \in {"done", "failed"} /\ pc = "write"
        /\ UNCHANGED <<object, order, strings, buffer>>
    BY <1>16 DEF WriteFile, WriteFails, Goto
  <2> QED
    BY <1>4, <2>1 DEF LengthInv
<1>17. CASE RejectHidden \/ OutOfMemory
  <2>1. pc' = "failed"
    BY <1>17 DEF RejectHidden, OutOfMemory, Fail
  <2> QED
    BY <2>1 DEF LengthInv
<1> QED
  BY <1>5, <1>6, <1>7, <1>8, <1>9, <1>10, <1>11, <1>12, <1>13, <1>14, <1>15,
     <1>16, <1>17 DEF Next

-----------------------------------------------------------------------------
(* The contents: what the load commands promise lies where they say.       *)

Has(at, size, x) == [at |-> at, size |-> size, holds |-> x] \in Pieces(buffer)

HeadersLie == Has(0, 32, Mach) /\ Has(32, 72, Segment)

SectionLies(i) == Has(104 + 80 * (i - 1), 80, SectionHeader(i))

TablesLie ==
  Has(HeadersEnd, 24, Symtab) /\ Has(HeadersEnd + 24, 80, Dysymtab)

DataLies(i) ==
  Has(DataAt(i), Sections[i].size, [is |-> "data", index |-> i])

RelocationsLie(i) ==
  /\ ~RefersToHidden(Sections[i])
  /\ \A r \in DOMAIN Sections[i].relocations :
       Has(RelocationsAt(i) + 8 * (r - 1), 8, Packed(Sections[i].relocations[r]))

SymbolLies(p) == Has(SymbolPlace + 16 * (p - 1), 16, symbols[p])

StringsLie ==
  \A q \in Pieces(strings) : Moved(q, StringPlace) \in Pieces(buffer)

(* The steps at which the tables, the data, and the relocations and the    *)
(* symbols are in the file.                                                *)
AfterTables  == {"build", "data", "relocations", "strings", "write", "done"}
AfterData    == {"relocations", "strings", "write", "done"}
AfterSymbols == {"strings", "write", "done"}

ContentInv ==
  /\ pc \in Described => HeadersLie
  /\ pc = "sections" => \A i \in 1 .. k - 1 : SectionLies(i)
  /\ pc \in AfterTables => TablesLie /\ \A i \in DOMAIN Sections : SectionLies(i)
  /\ pc = "data" => \A i \in 1 .. k - 1 : DataLies(i)
  /\ pc \in AfterData => \A i \in DOMAIN Sections : DataLies(i)
  /\ pc = "relocations" => \A i \in 1 .. k - 1 : RelocationsLie(i)
  /\ pc \in AfterSymbols => /\ \A i \in DOMAIN Sections : RelocationsLie(i)
                            /\ \A p \in DOMAIN symbols : SymbolLies(p)
  /\ pc \in {"write", "done"} => StringsLie

LEMMA ContentStays ==
  ASSUME UNCHANGED <<object, order, map, symbols, counts, strings>>,
         Pieces(buffer) \subseteq Pieces(buffer')
  PROVE  /\ Sections' = Sections /\ symbols' = symbols
         /\ HeadersLie => HeadersLie'
         /\ \A i : SectionLies(i) => SectionLies(i)'
         /\ TablesLie => TablesLie'
         /\ \A i : DataLies(i) => DataLies(i)'
         /\ \A i : RelocationsLie(i) => RelocationsLie(i)'
         /\ \A p : SymbolLies(p) => SymbolLies(p)'
         /\ StringsLie => StringsLie'
<1>1. \A at, size, x : Has(at, size, x) => Has(at, size, x)'
  BY DEF Has
<1>2. Sections' = Sections
  BY DEF Sections
<1>3. /\ \A i : DataAt(i)' = DataAt(i)
      /\ \A i : RelocationsAt(i)' = RelocationsAt(i)
      /\ HeadersEnd' = HeadersEnd /\ DataPlace' = DataPlace
      /\ SymbolPlace' = SymbolPlace /\ CommandsSize' = CommandsSize
      /\ RelocationPlace' = RelocationPlace
      /\ \A n : SumTo(n, Bytes)' = SumTo(n, Bytes)
      /\ \A i : DataOffset(i)' = DataOffset(i)
      /\ \A i : RelocationOffset(i)' = RelocationOffset(i)
      /\ SymbolOffset' = SymbolOffset
      /\ StringPlace' = StringPlace /\ StringOffset' = StringOffset
  BY OffsetFrame
<1>4. Mach' = Mach /\ Segment' = Segment
  BY <1>2, <1>3 DEF Mach, Segment, uint32
<1>5. \A i : SectionHeader(i)' = SectionHeader(i)
  BY <1>2, <1>3 DEF SectionHeader, uint32
<1>7. Symtab' = Symtab /\ Dysymtab' = Dysymtab
  BY <1>3 DEF Symtab, Dysymtab, uint32
<1>8. \A rel : Packed(rel)' = Packed(rel)
  BY DEF Packed, SymbolNumber, RelocationType, uint32
<1>9. \A s : RefersToHidden(s)' <=> RefersToHidden(s)
  BY DEF RefersToHidden, Unmapped
<1>10. HeadersLie => HeadersLie'
  BY <1>1, <1>4 DEF HeadersLie
<1>11. \A i : SectionLies(i) => SectionLies(i)'
  BY <1>1, <1>5 DEF SectionLies
<1>12. TablesLie => TablesLie'
  BY <1>1, <1>3, <1>7 DEF TablesLie
<1>13. \A i : DataLies(i) => DataLies(i)'
  BY <1>1, <1>2, <1>3 DEF DataLies
<1>14. \A i : RelocationsLie(i) => RelocationsLie(i)'
  BY <1>1, <1>2, <1>3, <1>8, <1>9 DEF RelocationsLie
<1>15. \A p : SymbolLies(p) => SymbolLies(p)'
  BY <1>1, <1>3 DEF SymbolLies
<1>16. StringsLie => StringsLie'
  BY <1>3 DEF StringsLie
<1> QED
  BY <1>2, <1>10, <1>11, <1>12, <1>13, <1>14, <1>15, <1>16

LEMMA InitContent == Init => ContentInv
BY DEF Init, ContentInv, Described, AfterTables, AfterData, AfterSymbols

LEMMA PutHeaderContent ==
  ASSUME OrderInv, TableInv, LengthInv, ContentInv, PutHeader
  PROVE  ContentInv'
<1>1. /\ UNCHANGED <<object, order, map, symbols, counts, strings>>
      /\ pc' = "sections" /\ k' = 1 /\ buffer.length = 0
  BY DEF PutHeader, Goto, LengthInv
<1>2. Grown(buffer, buffer', 0, 104,
            {[at |-> 0, size |-> 32, holds |-> Mach],
             [at |-> 32, size |-> 72, holds |-> Segment]})
  <2>1. Grown(buffer, buffer', buffer.length, 104,
              {[at |-> buffer.length, size |-> 32, holds |-> Mach],
               [at |-> buffer.length + 32, size |-> 72, holds |-> Segment]})
    BY PutHeaderEffect DEF TableInv
  <2>2. 0 + 32 = 32
    OBVIOUS
  <2> QED
    BY <1>1, <2>1, <2>2
<1>3. Mach' = Mach /\ Segment' = Segment
  BY <1>1, OffsetFrame DEF Mach, Segment, Sections, uint32
<1>4. HeadersLie'
  BY <1>2, <1>3 DEF HeadersLie, Has, Grown
<1>5. \A i \in 1 .. k' - 1 : SectionLies(i)'
  BY <1>1
<1> QED
  BY <1>1, <1>4, <1>5 DEF ContentInv, AfterTables, AfterData, AfterSymbols

LEMMA PutSectionHeaderContent ==
  ASSUME OrderInv, TableInv, LengthInv, ContentInv, PutSectionHeader
  PROVE  ContentInv'
<1>1. /\ UNCHANGED <<object, order, map, symbols, counts, strings>>
      /\ pc = "sections" /\ pc' = "sections" /\ k' = k + 1
      /\ buffer.length = 104 + 80 * (k - 1) /\ k \in Nat \ {0}
  BY DEF PutSectionHeader, Advance, LengthInv, OrderInv
<1>2. Grown(buffer, buffer', buffer.length, 80,
            {[at |-> buffer.length, size |-> 80, holds |-> SectionHeader(k)]})
  BY PutSectionHeaderEffect DEF TableInv
<1>3. /\ Pieces(buffer) \subseteq Pieces(buffer')
      /\ [at |-> buffer.length, size |-> 80, holds |-> SectionHeader(k)]
           \in Pieces(buffer')
  BY <1>2 DEF Grown
<1>4. \A i : i = k => SectionLies(i)'
  <2>1. \A i : SectionHeader(i)' = SectionHeader(i)
    BY <1>1, OffsetFrame DEF SectionHeader, Sections, uint32
  <2> QED
    BY <1>1, <1>3, <2>1 DEF SectionLies, Has
<1>5. HeadersLie /\ \A i \in 1 .. k - 1 : SectionLies(i)
  BY <1>1 DEF ContentInv, Described
<1>6. HeadersLie' /\ \A i \in 1 .. k - 1 : SectionLies(i)'
  BY <1>1, <1>3, <1>5, ContentStays
<1>7. \A i \in 1 .. k' - 1 : SectionLies(i)'
  <2>1. \A i \in 1 .. k' - 1 : i \in 1 .. k - 1 \/ i = k
    BY <1>1
  <2> QED
    BY <1>4, <1>6, <2>1
<1> QED
  BY <1>1, <1>6, <1>7 DEF ContentInv, AfterTables, AfterData, AfterSymbols

LEMMA PutTablesContent ==
  ASSUME OrderInv, TableInv, LengthInv, ContentInv, PutTables
  PROVE  ContentInv'
<1> DEFINE l == Len(Sections)
<1>1. /\ UNCHANGED <<object, order, map, symbols, counts, strings>>
      /\ pc = "sections" /\ pc' \in {"build", "data"} /\ k' = 1
      /\ k > l /\ k <= l + 1
      /\ buffer.length = 104 + 80 * (k - 1) /\ k \in Nat \ {0}
      /\ object \in Objects
  BY DEF PutTables, Goto, LengthInv, OrderInv
<1>2. l \in Nat /\ DOMAIN Sections = 1 .. l
  BY <1>1, SymbolsAreTyped
<1>3. k = l + 1 /\ k - 1 = l /\ buffer.length = HeadersEnd
  BY <1>1, <1>2 DEF HeadersEnd
<1>4. Grown(buffer, buffer', buffer.length, 104,
            {[at |-> buffer.length, size |-> 24, holds |-> Symtab],
             [at |-> buffer.length + 24, size |-> 80, holds |-> Dysymtab]})
  BY PutTablesEffect DEF TableInv
<1>5. /\ Pieces(buffer) \subseteq Pieces(buffer')
      /\ [at |-> HeadersEnd, size |-> 24, holds |-> Symtab] \in Pieces(buffer')
      /\ [at |-> HeadersEnd + 24, size |-> 80, holds |-> Dysymtab]
           \in Pieces(buffer')
  BY <1>3, <1>4 DEF Grown
<1>6. TablesLie'
  <2>1. StringOffset' = StringOffset /\ SymbolOffset' = SymbolOffset
    BY <1>1, OffsetFrame
  <2>2. Symtab' = Symtab /\ Dysymtab' = Dysymtab
    BY <1>1, <2>1 DEF Symtab, Dysymtab, uint32
  <2>3. HeadersEnd' = HeadersEnd
    BY <1>1, OffsetFrame
  <2> QED
    BY <1>5, <2>2, <2>3 DEF TablesLie, Has
<1>7. HeadersLie /\ \A i \in DOMAIN Sections : SectionLies(i)
  BY <1>1, <1>2, <1>3 DEF ContentInv, Described
<1>8. HeadersLie' /\ \A i \in DOMAIN Sections' : SectionLies(i)'
  BY <1>1, <1>5, <1>7, ContentStays
<1>9. \A i \in 1 .. k' - 1 : DataLies(i)'
  BY <1>1
<1> QED
  BY <1>1, <1>6, <1>8, <1>9 DEF ContentInv, AfterTables, AfterData, AfterSymbols

LEMMA PutBuildVersionContent ==
  ASSUME OrderInv, TableInv, LengthInv, ContentInv, PutBuildVersion
  PROVE  ContentInv'
<1>1. /\ UNCHANGED <<object, order, map, symbols, counts, strings>>
      /\ pc = "build" /\ pc' = "data" /\ k' = 1
  BY DEF PutBuildVersion, Goto
<1>2. Pieces(buffer) \subseteq Pieces(buffer')
  BY PutBuildVersionEffect DEF TableInv, Grown
<1>3. HeadersLie /\ TablesLie /\ \A i \in DOMAIN Sections : SectionLies(i)
  BY <1>1 DEF ContentInv, Described, AfterTables
<1>4. HeadersLie' /\ TablesLie' /\ \A i \in DOMAIN Sections' : SectionLies(i)'
  BY <1>1, <1>2, <1>3, ContentStays
<1>5. \A i \in 1 .. k' - 1 : DataLies(i)'
  BY <1>1
<1> QED
  BY <1>1, <1>4, <1>5 DEF ContentInv, AfterData, AfterSymbols

LEMMA PutDataContent ==
  ASSUME OrderInv, TableInv, LengthInv, ContentInv, PutData
  PROVE  ContentInv'
<1>1. /\ UNCHANGED <<object, order, map, symbols, counts, strings>>
      /\ pc = "data" /\ pc' = "data" /\ k' = k + 1
      /\ buffer.length = DataAt(k) /\ k \in Nat \ {0}
  BY DEF PutData, Advance, LengthInv, OrderInv
<1>2. Grown(buffer, buffer', buffer.length, Sections[k].size,
            {[at |-> buffer.length, size |-> Sections[k].size,
              holds |-> [is |-> "data", index |-> k]]})
  BY PutDataEffect DEF TableInv
<1>3. /\ Pieces(buffer) \subseteq Pieces(buffer')
      /\ [at |-> DataAt(k), size |-> Sections[k].size,
          holds |-> [is |-> "data", index |-> k]] \in Pieces(buffer')
  BY <1>1, <1>2 DEF Grown
<1>4. \A i : i = k => DataLies(i)'
  <2>1. Sections' = Sections /\ \A i : DataAt(i)' = DataAt(i)
    BY <1>1, OffsetFrame DEF Sections
  <2> QED
    BY <1>3, <2>1 DEF DataLies, Has
<1>5. /\ HeadersLie /\ TablesLie /\ \A i \in DOMAIN Sections : SectionLies(i)
      /\ \A i \in 1 .. k - 1 : DataLies(i)
  BY <1>1 DEF ContentInv, Described, AfterTables
<1>6. /\ HeadersLie' /\ TablesLie' /\ \A i \in DOMAIN Sections' : SectionLies(i)'
      /\ \A i \in 1 .. k - 1 : DataLies(i)'
  BY <1>1, <1>3, <1>5, ContentStays
<1>7. \A i \in 1 .. k' - 1 : DataLies(i)'
  <2>1. \A i \in 1 .. k' - 1 : i \in 1 .. k - 1 \/ i = k
    BY <1>1
  <2> QED
    BY <1>4, <1>6, <2>1
<1> QED
  BY <1>1, <1>6, <1>7 DEF ContentInv, AfterData, AfterSymbols

LEMMA EndDataContent ==
  ASSUME OrderInv, TableInv, LengthInv, ContentInv, EndData
  PROVE  ContentInv'
<1> DEFINE l == Len(Sections)
<1>1. /\ UNCHANGED <<object, order, map, symbols, counts, strings>>
      /\ pc = "data" /\ pc' = "relocations" /\ k' = 1 /\ k > l /\ k <= l + 1
      /\ k \in Nat \ {0} /\ buffer' = buffer /\ object \in Objects
  BY DEF EndData, Goto, LengthInv, OrderInv
<1>2. l \in Nat /\ DOMAIN Sections = 1 .. l
  BY <1>1, SymbolsAreTyped
<1>3. k - 1 = l
  BY <1>1, <1>2
<1>4. /\ HeadersLie /\ TablesLie /\ \A i \in DOMAIN Sections : SectionLies(i)
      /\ \A i \in DOMAIN Sections : DataLies(i)
  BY <1>1, <1>2, <1>3 DEF ContentInv, Described, AfterTables
<1>5. /\ HeadersLie' /\ TablesLie' /\ \A i \in DOMAIN Sections' : SectionLies(i)'
      /\ \A i \in DOMAIN Sections' : DataLies(i)'
  BY <1>1, <1>4, ContentStays
<1>6. \A i \in 1 .. k' - 1 : RelocationsLie(i)'
  BY <1>1
<1> QED
  BY <1>1, <1>5, <1>6 DEF ContentInv, AfterSymbols

LEMMA PutRelocationsContent ==
  ASSUME OrderInv, TableInv, LengthInv, ContentInv, PutRelocations
  PROVE  ContentInv'
<1>1. /\ UNCHANGED <<object, order, map, symbols, counts, strings>>
      /\ pc = "relocations" /\ pc' = "relocations" /\ k' = k + 1
      /\ buffer.length = RelocationsAt(k) /\ k \in Nat \ {0}
      /\ ~RefersToHidden(Sections[k])
  BY DEF PutRelocations, Advance, LengthInv, OrderInv
<1>2. Grown(buffer, buffer', buffer.length, RelocationBytes[k],
            Records(buffer.length, PackedOf(k), 8))
  BY PutRelocationsEffect DEF TableInv
<1>3. /\ Pieces(buffer) \subseteq Pieces(buffer')
      /\ \A r \in DOMAIN Sections[k].relocations :
           [at |-> RelocationsAt(k) + 8 * (r - 1), size |-> 8,
            holds |-> Packed(Sections[k].relocations[r])] \in Pieces(buffer')
  <2>1. /\ DOMAIN PackedOf(k) = DOMAIN Sections[k].relocations
        /\ \A r \in DOMAIN Sections[k].relocations :
             PackedOf(k)[r] = Packed(Sections[k].relocations[r])
    BY DEF PackedOf
  <2>2. /\ Pieces(buffer) \subseteq Pieces(buffer')
        /\ Records(RelocationsAt(k), PackedOf(k), 8) \subseteq Pieces(buffer')
    BY <1>1, <1>2 DEF Grown
  <2> QED
    BY <2>1, <2>2 DEF Records
<1>4. \A i : i = k => RelocationsLie(i)'
  <2>1. /\ Sections' = Sections
        /\ \A i : RelocationsAt(i)' = RelocationsAt(i)
        /\ \A rel : Packed(rel)' = Packed(rel)
        /\ \A s : RefersToHidden(s)' <=> RefersToHidden(s)
    BY <1>1, OffsetFrame DEF Sections, Packed, SymbolNumber, RelocationType,
       RefersToHidden, Unmapped, uint32
  <2> QED
    BY <1>1, <1>3, <2>1 DEF RelocationsLie, Has
<1>5. /\ HeadersLie /\ TablesLie /\ \A i \in DOMAIN Sections : SectionLies(i)
      /\ \A i \in DOMAIN Sections : DataLies(i)
      /\ \A i \in 1 .. k - 1 : RelocationsLie(i)
  BY <1>1 DEF ContentInv, Described, AfterTables, AfterData
<1>6. /\ HeadersLie' /\ TablesLie' /\ \A i \in DOMAIN Sections' : SectionLies(i)'
      /\ \A i \in DOMAIN Sections' : DataLies(i)'
      /\ \A i \in 1 .. k - 1 : RelocationsLie(i)'
  BY <1>1, <1>3, <1>5, ContentStays
<1>7. \A i \in 1 .. k' - 1 : RelocationsLie(i)'
  <2>1. \A i \in 1 .. k' - 1 : i \in 1 .. k - 1 \/ i = k
    BY <1>1
  <2> QED
    BY <1>4, <1>6, <2>1
<1> QED
  BY <1>1, <1>6, <1>7 DEF ContentInv, AfterSymbols

LEMMA PutSymbolsContent ==
  ASSUME OrderInv, TableInv, LengthInv, ContentInv, PutSymbols
  PROVE  ContentInv'
<1> DEFINE l == Len(Sections)
<1>1. /\ UNCHANGED <<object, order, map, symbols, counts, strings>>
      /\ pc = "relocations" /\ pc' = "strings" /\ k > l /\ k <= l + 1
      /\ k \in Nat \ {0} /\ object \in Objects
      /\ buffer.length = RelocationsAt(k)
  BY DEF PutSymbols, Goto, LengthInv, OrderInv
<1>2. l \in Nat /\ DOMAIN Sections = 1 .. l
  BY <1>1, SymbolsAreTyped
<1>3. k - 1 = l /\ k = l + 1 /\ buffer.length = SymbolPlace
  BY <1>1, <1>2, OffsetFacts
<1>4. Grown(buffer, buffer', buffer.length, 16 * Len(symbols),
            Records(buffer.length, symbols, 16))
  BY PutSymbolsEffect DEF TableInv
<1>5. /\ Pieces(buffer) \subseteq Pieces(buffer')
      /\ \A p \in DOMAIN symbols :
           [at |-> SymbolPlace + 16 * (p - 1), size |-> 16,
            holds |-> symbols[p]] \in Pieces(buffer')
  BY <1>3, <1>4 DEF Grown, Records
<1>6. \A p \in DOMAIN symbols' : SymbolLies(p)'
  BY <1>1, <1>5, OffsetFrame DEF SymbolLies, Has
<1>7. /\ HeadersLie /\ TablesLie /\ \A i \in DOMAIN Sections : SectionLies(i)
      /\ \A i \in DOMAIN Sections : DataLies(i)
      /\ \A i \in DOMAIN Sections : RelocationsLie(i)
  BY <1>1, <1>2, <1>3 DEF ContentInv, Described, AfterTables, AfterData
<1>8. /\ HeadersLie' /\ TablesLie' /\ \A i \in DOMAIN Sections' : SectionLies(i)'
      /\ \A i \in DOMAIN Sections' : DataLies(i)'
      /\ \A i \in DOMAIN Sections' : RelocationsLie(i)'
  BY <1>1, <1>5, <1>7, ContentStays
<1> QED
  BY <1>1, <1>6, <1>8 DEF ContentInv

LEMMA PutStringsContent ==
  ASSUME OrderInv, TableInv, LengthInv, ContentInv, PutStrings
  PROVE  ContentInv'
<1>1. /\ UNCHANGED <<object, order, map, symbols, counts, strings>>
      /\ pc = "strings" /\ pc' = "write" /\ buffer.length = StringPlace
  BY DEF PutStrings, Goto, LengthInv
<1>2. Grown(buffer, buffer', buffer.length, strings.length,
            {Moved(q, buffer.length) : q \in Pieces(strings)})
  BY PutStringsEffect DEF TableInv
<1>3. /\ Pieces(buffer) \subseteq Pieces(buffer')
      /\ \A q \in Pieces(strings) : Moved(q, StringPlace) \in Pieces(buffer')
  BY <1>1, <1>2 DEF Grown
<1>4. StringsLie'
  <2>1. StringPlace' = StringPlace
    BY <1>1, OffsetFrame
  <2> QED
    BY <1>1, <1>3, <2>1 DEF StringsLie
<1>5. /\ HeadersLie /\ TablesLie /\ \A i \in DOMAIN Sections : SectionLies(i)
      /\ \A i \in DOMAIN Sections : DataLies(i)
      /\ \A i \in DOMAIN Sections : RelocationsLie(i)
      /\ \A p \in DOMAIN symbols : SymbolLies(p)
  BY <1>1 DEF ContentInv, Described, AfterTables, AfterData, AfterSymbols
<1>6. /\ HeadersLie' /\ TablesLie' /\ \A i \in DOMAIN Sections' : SectionLies(i)'
      /\ \A i \in DOMAIN Sections' : DataLies(i)'
      /\ \A i \in DOMAIN Sections' : RelocationsLie(i)'
      /\ \A p \in DOMAIN symbols' : SymbolLies(p)'
  BY <1>1, <1>3, <1>5, ContentStays
<1> QED
  BY <1>1, <1>4, <1>6 DEF ContentInv

LEMMA ContentSteps ==
  OrderInv /\ TableInv /\ LengthInv /\ ContentInv /\ [Next]_vars => ContentInv'
<1> SUFFICES ASSUME OrderInv, TableInv, LengthInv, ContentInv, [Next]_vars
             PROVE  ContentInv'
  OBVIOUS
<1>1. CASE UNCHANGED vars \/ Terminated
  <2>1. UNCHANGED <<object, pc, k, order, map, symbols, counts, strings, buffer>>
    BY <1>1 DEF vars, Terminated
  <2> QED
    BY <2>1, ContentStays DEF ContentInv
<1>2. CASE \/ Collect \/ EndCollect \/ Insert \/ EndSort \/ AddSymbol
           \/ RejectHidden \/ OutOfMemory
  <2>1. pc' \in {"collect", "sort", "symbols", "failed"}
    BY <1>2 DEF Collect, EndCollect, Insert, EndSort, AddSymbol, RejectHidden,
       OutOfMemory, Fail, Goto, Advance
  <2> QED
    BY <2>1 DEF ContentInv, Described, AfterTables, AfterData, AfterSymbols
<1>3. CASE WriteFile \/ WriteFails
  <2>1. /\ UNCHANGED <<object, order, map, symbols, counts, strings, buffer>>
        /\ pc = "write" /\ pc' \in {"done", "failed"}
    BY <1>3 DEF WriteFile, WriteFails, Goto
  <2>2. CASE pc' = "failed"
    BY <2>2 DEF ContentInv, Described, AfterTables, AfterData, AfterSymbols
  <2>3. CASE pc' = "done"
    <3>1. /\ HeadersLie /\ TablesLie /\ StringsLie
          /\ \A i \in DOMAIN Sections : SectionLies(i)
          /\ \A i \in DOMAIN Sections : DataLies(i)
          /\ \A i \in DOMAIN Sections : RelocationsLie(i)
          /\ \A p \in DOMAIN symbols : SymbolLies(p)
      BY <2>1 DEF ContentInv, Described, AfterTables, AfterData, AfterSymbols
    <3>2. /\ HeadersLie' /\ TablesLie' /\ StringsLie'
          /\ \A i \in DOMAIN Sections' : SectionLies(i)'
          /\ \A i \in DOMAIN Sections' : DataLies(i)'
          /\ \A i \in DOMAIN Sections' : RelocationsLie(i)'
          /\ \A p \in DOMAIN symbols' : SymbolLies(p)'
      BY <2>1, <3>1, ContentStays
    <3> QED
      BY <2>3, <3>2 DEF ContentInv
  <2> QED
    BY <2>1, <2>2, <2>3
<1> QED
  BY <1>1, <1>2, <1>3, PutHeaderContent, PutSectionHeaderContent,
     PutTablesContent, PutBuildVersionContent, PutDataContent, EndDataContent,
     PutRelocationsContent, PutSymbolsContent, PutStringsContent DEF Next

-----------------------------------------------------------------------------
(* The invariants, for all objects, names and capacities.                  *)

Inv == OrderInv /\ TableInv /\ SymbolInv /\ LengthInv /\ ContentInv

(* The five layers hold of every state the writer can be in.               *)
THEOREM Invariance == Spec => []Inv
<1>1. Init => Inv
  BY InitOrder, InitTables, InitSymbols, InitLength, InitContent DEF Inv
<1>2. Inv /\ [Next]_vars => Inv'
  BY OrderSteps, TableSteps, SymbolSteps, LengthSteps, ContentSteps DEF Inv
<1> QED
  BY <1>1, <1>2, PTL DEF Spec

(* Every value stays in its type: a symbol is mapped to a 32-bit number,   *)
(* and no buffer's length passes its capacity.                             *)
THEOREM TypeCorrect == Spec => []TypeOK
<1>1. ASSUME Inv
      PROVE  TypeOK
  <2>1. pc \in Steps /\ k \in Nat \ {0} /\ order \in Seq(DOMAIN Symbols)
    BY <1>1 DEF Inv, OrderInv
  <2>2. map \in [DOMAIN Symbols -> 0 .. WordSpan - 1]
    BY <1>1 DEF Inv, SymbolInv
  <2>3. /\ Len(symbols) <= Len(order)
        /\ counts \in [local : Nat, extdef : Nat, undef : Nat]
    BY <1>1 DEF Inv, SymbolInv, CountsInv
  <2>4. /\ buffer.length <= buffer.capacity /\ strings.length <= strings.capacity
        /\ output \in {"untouched", "partial", "written"}
    BY <1>1 DEF Inv, TableInv, OutputInv, Buffers, IsBuffer
  <2> QED
    BY <2>1, <2>2, <2>3, <2>4 DEF TypeOK, Steps
<1> QED
  BY <1>1, Invariance, PTL

(* Every place in a file of less than 4 GiB, and every count of what takes *)
(* room in it, fits 32 bits.                                               *)
LEMMA PlacesFit ==
  ASSUME Inv
  PROVE  /\ Len(Sections) \in Nat /\ Len(order) \in Nat /\ strings.length \in Nat
         /\ SymbolPlace \in Nat /\ StringPlace \in Nat
         /\ \A i \in 1 .. Len(Sections) + 1 :
              /\ DataAt(i) \in Nat /\ RelocationsAt(i) \in Nat
              /\ OffsetsFit => DataAt(i) < WordSpan /\ RelocationsAt(i) < WordSpan
         /\ OffsetsFit =>
              /\ SymbolPlace < WordSpan /\ StringPlace < WordSpan
              /\ Len(Sections) < WordSpan /\ Len(order) < WordSpan
              /\ strings.length < WordSpan
<1> DEFINE l == Len(Sections)
           n == Len(order)
           s == strings.length
<1>1. object \in Objects /\ l \in Nat /\ n \in Nat /\ s \in Nat
  BY SymbolsAreTyped DEF Inv, OrderInv, TableInv, Buffers, IsBuffer
<1>2. /\ HeadersEnd = 104 + 80 * l
      /\ SymbolPlace = RelocationsAt(l + 1)
      /\ \A i \in 1 .. l + 1 : DataAt(i) \in Nat /\ RelocationsAt(i) \in Nat
  BY <1>1, OffsetFacts DEF HeadersEnd
<1>3. \A i \in 1 .. l + 1 :
        /\ HeadersEnd + 104 <= DataAt(i) /\ DataAt(i) <= RelocationPlace
        /\ RelocationPlace <= RelocationsAt(i) /\ RelocationsAt(i) <= SymbolPlace
  BY <1>1, PlacesInOrder
<1>4. /\ StringPlace = SymbolPlace + 16 * n /\ FileSize = StringPlace + s
      /\ OffsetsFit <=> FileSize < WordSpan
  BY DEF StringPlace, SymbolSize, FileSize, OffsetsFit
<1>5. RelocationPlace \in Int /\ WordSpan \in Nat
  <2>1. l + 1 \in 1 .. l + 1
    BY <1>1
  <2>2. RelocationPlace = DataAt(l + 1)
    BY <1>1 DEF RelocationPlace, DataAt
  <2> QED
    BY <1>2, <2>1, <2>2, WidthAssumption
<1> HIDE DEF l, n, s
<1>6. l + 1 \in 1 .. l + 1 /\ SymbolPlace \in Nat /\ StringPlace \in Nat
  BY <1>1, <1>2, <1>4
<1>7. ASSUME OffsetsFit
      PROVE  /\ SymbolPlace < WordSpan /\ StringPlace < WordSpan
             /\ n < WordSpan /\ s < WordSpan
  BY <1>1, <1>4, <1>5, <1>6, <1>7
<1>8. ASSUME OffsetsFit, NEW i \in 1 .. l + 1
      PROVE  DataAt(i) < WordSpan /\ RelocationsAt(i) < WordSpan
  <2>1. /\ DataAt(i) \in Nat /\ RelocationsAt(i) \in Nat
        /\ DataAt(i) <= RelocationPlace /\ RelocationPlace <= RelocationsAt(i)
        /\ RelocationsAt(i) <= SymbolPlace /\ SymbolPlace < WordSpan
    BY <1>2, <1>3, <1>7, <1>8
  <2> QED
    BY <1>5, <1>6, <2>1
<1>9. OffsetsFit => l < WordSpan
  <2>1. HeadersEnd + 104 <= DataAt(l + 1) /\ DataAt(l + 1) \in Nat
    BY <1>2, <1>3, <1>6
  <2>2. OffsetsFit => DataAt(l + 1) < WordSpan
    BY <1>6, <1>8
  <2> QED
    BY <1>1, <1>2, <1>5, <2>1, <2>2
<1> QED
  BY <1>1, <1>2, <1>6, <1>7, <1>8, <1>9 DEF l, n, s

(* At the data, the relocations, the symbols and the names the file is as  *)
(* long as the load commands already in it say, unless it reaches 4 GiB,   *)
(* and then the low 32 bits are.                                           *)
THEOREM PromisesHold == Spec => []PromisesKept
<1>1. ASSUME Inv
      PROVE  PromisesKept
  <2> DEFINE says(offset) == /\ uint32(buffer.length) = offset
                             /\ OffsetsFit => buffer.length = offset
  <2>1. /\ pc = "data" => k <= Len(Sections) + 1 /\ buffer.length = DataAt(k)
        /\ pc = "relocations" =>
             k <= Len(Sections) + 1 /\ buffer.length = RelocationsAt(k)
        /\ pc = "strings" => buffer.length = StringPlace
        /\ pc \in {"write", "done"} => buffer.length = StringPlace + strings.length
        /\ k \in Nat \ {0}
    BY <1>1 DEF Inv, LengthInv, OrderInv
  <2>2. ASSUME NEW at \in Nat, buffer.length = at, OffsetsFit => at < WordSpan
        PROVE  says(uint32(at))
    BY <2>2, Uncut
  <2> HIDE DEF says
  <2>3. ASSUME pc = "data"
        PROVE  says(DataOffset(k))
    <3>1. k \in 1 .. Len(Sections) + 1
      BY <1>1, <2>1, <2>3, PlacesFit
    <3>2. DataAt(k) \in Nat /\ (OffsetsFit => DataAt(k) < WordSpan)
      BY <1>1, <3>1, PlacesFit
    <3>3. DataOffset(k) = uint32(DataAt(k))
      BY DEF DataOffset, DataAt
    <3> QED
      BY <2>1, <2>2, <2>3, <3>2, <3>3
  <2>4. ASSUME pc = "relocations"
        PROVE  says(RelocationOffset(k))
    <3>1. k \in 1 .. Len(Sections) + 1
      BY <1>1, <2>1, <2>4, PlacesFit
    <3>2. RelocationsAt(k) \in Nat /\ (OffsetsFit => RelocationsAt(k) < WordSpan)
      BY <1>1, <3>1, PlacesFit
    <3>3. RelocationOffset(k) = uint32(RelocationsAt(k))
      BY DEF RelocationOffset, RelocationsAt
    <3> QED
      BY <2>1, <2>2, <2>4, <3>2, <3>3
  <2>5. ASSUME pc = "strings"
        PROVE  says(StringOffset)
    <3>1. StringPlace \in Nat /\ (OffsetsFit => StringPlace < WordSpan)
      BY <1>1, PlacesFit
    <3> QED
      BY <2>1, <2>2, <2>5, <3>1 DEF StringOffset
  <2>6. pc \in {"write", "done"} => buffer.length = FileSize
    BY <2>1 DEF FileSize
  <2> QED
    BY <2>3, <2>4, <2>5, <2>6 DEF PromisesKept, says
<1> QED
  BY <1>1, Invariance, PTL

-----------------------------------------------------------------------------
(* Reading the file back: what lies at an offset a command names is one    *)
(* piece, the one that was put there.                                      *)

Finished == pc \in {"write", "done"}

LiesIn(b) == \A n, x : LiesNear(b, n, x) => Lies(b, n, x)

(* Of a file of less than 4 GiB no offset, count or name is cut.           *)
LEMMA NothingCut ==
  ASSUME Inv, Finished, OffsetsFit
  PROVE  /\ Segment.nsects = Len(Sections)
         /\ Symtab.symoff = SymbolPlace /\ Symtab.stroff = StringPlace
         /\ Symtab.nsyms = Len(order)
         /\ Dysymtab.nlocalsym = counts.local /\ Dysymtab.iextdefsym = counts.local
         /\ Dysymtab.nextdefsym = counts.extdef
         /\ Dysymtab.iundefsym = counts.local + counts.extdef
         /\ Dysymtab.nundefsym = counts.undef
         /\ \A i \in DOMAIN Sections :
              /\ SectionHeader(i).offset = DataAt(i)
              /\ SectionHeader(i).reloff = RelocationsAt(i)
              /\ SectionHeader(i).nreloc = Len(Sections[i].relocations)
              /\ \A r \in DOMAIN Sections[i].relocations :
                   LET offset == Sections[i].relocations[r].offset
                   IN  uint32(offset) = offset
         /\ \A p \in DOMAIN symbols : uint32(p - 1) = p - 1
         /\ LiesIn(strings)
<1>1. /\ object \in Objects /\ Len(Sections) \in Nat /\ Len(order) \in Nat
      /\ strings.length \in Nat /\ DOMAIN Sections = 1 .. Len(Sections)
      /\ Len(symbols) = Len(order) /\ DOMAIN symbols = 1 .. Len(symbols)
      /\ WordSpan \in Nat
  <2>1. symbols \in Seq(Members(symbols)) /\ Len(symbols) = Len(order)
    BY DEF Inv, SymbolInv, Finished, Described
  <2> QED
    BY <2>1, PlacesFit, SymbolsAreTyped, WidthAssumption DEF Inv, OrderInv
<1>2. Segment.nsects = Len(Sections)
  <2>1. uint32(Len(Sections)) = Len(Sections)
    BY PlacesFit, Uncut
  <2> QED
    BY <2>1 DEF Segment
<1>3. /\ Symtab.symoff = SymbolPlace /\ Symtab.stroff = StringPlace
      /\ Symtab.nsyms = Len(order)
  <2>1. /\ uint32(SymbolPlace) = SymbolPlace /\ uint32(StringPlace) = StringPlace
        /\ uint32(Len(order)) = Len(order)
    BY PlacesFit, Uncut
  <2> QED
    BY <2>1 DEF Symtab, SymbolOffset, StringOffset
<1>4. /\ Dysymtab.nlocalsym = counts.local /\ Dysymtab.iextdefsym = counts.local
      /\ Dysymtab.nextdefsym = counts.extdef
      /\ Dysymtab.iundefsym = counts.local + counts.extdef
      /\ Dysymtab.nundefsym = counts.undef
  <2> DEFINE a == counts.local
             b == counts.extdef
             c == counts.undef
  <2>1. a \in Nat /\ b \in Nat /\ c \in Nat /\ a + b + c = Len(order)
    BY <1>1 DEF Inv, SymbolInv, CountsInv
  <2>2. Len(order) < WordSpan
    BY PlacesFit
  <2> HIDE DEF a, b, c
  <2>3. /\ uint32(a) = a /\ uint32(b) = b /\ uint32(c) = c
        /\ uint32(a + b) = a + b
    <3>1. /\ a < WordSpan /\ b < WordSpan /\ c < WordSpan
          /\ a + b < WordSpan /\ a + b \in Nat
      BY <1>1, <2>1, <2>2
    <3> QED
      BY <2>1, <3>1, Uncut
  <2> QED
    BY <2>3 DEF Dysymtab, a, b, c
<1>5. ASSUME NEW i \in DOMAIN Sections
      PROVE  /\ SectionHeader(i).offset = DataAt(i)
             /\ SectionHeader(i).reloff = RelocationsAt(i)
             /\ SectionHeader(i).nreloc = Len(Sections[i].relocations)
             /\ \A r \in DOMAIN Sections[i].relocations :
                  LET offset == Sections[i].relocations[r].offset
                  IN  uint32(offset) = offset
  <2> DEFINE n == Len(Sections[i].relocations)
             size == Sections[i].size
  <2>1. /\ n \in Nat /\ size \in Nat /\ RelocationBytes[i] = 8 * n
        /\ Sections[i].relocations \in Seq(RelocationOf(object))
        /\ \A r \in DOMAIN Sections[i].relocations :
             Sections[i].relocations[r].offset < size
    BY <1>1, ObjectIsTyped
  <2>2. i \in 1 .. Len(Sections) + 1 /\ i + 1 \in 1 .. Len(Sections) + 1
    BY <1>1
  <2>3. /\ DataAt(i) \in Nat /\ DataAt(i) < WordSpan
        /\ RelocationsAt(i) \in Nat /\ RelocationsAt(i) < WordSpan
        /\ DataAt(i + 1) < WordSpan /\ RelocationsAt(i + 1) < WordSpan
    BY <2>2, PlacesFit
  <2>4. /\ DataAt(i + 1) = DataAt(i) + size
        /\ RelocationsAt(i + 1) = RelocationsAt(i) + RelocationBytes[i]
    BY <1>1, OffsetFacts
  <2>5. \A r \in DOMAIN Sections[i].relocations :
          Sections[i].relocations[r].offset \in Nat
    <3> TAKE r \in DOMAIN Sections[i].relocations
    <3>1. Sections[i].relocations[r] \in RelocationOf(object)
      BY <2>1
    <3> QED
      BY <3>1 DEF RelocationOf
  <2> HIDE DEF n, size
  <2>6. size < WordSpan /\ n < WordSpan
    BY <1>1, <2>1, <2>3, <2>4
  <2>7. \A r \in DOMAIN Sections[i].relocations :
          LET offset == Sections[i].relocations[r].offset
          IN  uint32(offset) = offset
    <3> TAKE r \in DOMAIN Sections[i].relocations
    <3> DEFINE offset == Sections[i].relocations[r].offset
    <3>1. offset \in Nat /\ offset < size
      BY <2>1, <2>5
    <3> HIDE DEF offset
    <3>2. offset < WordSpan
      BY <1>1, <2>1, <2>6, <3>1
    <3>3. uint32(offset) = offset
      BY <3>1, <3>2, Uncut
    <3> QED
      BY <3>3 DEF offset
  <2>8. /\ SectionHeader(i).offset = uint32(DataAt(i))
        /\ SectionHeader(i).reloff = uint32(RelocationsAt(i))
        /\ SectionHeader(i).nreloc = uint32(n)
    BY DEF SectionHeader, DataOffset, RelocationOffset, DataAt, RelocationsAt, n
  <2> QED
    BY <2>1, <2>3, <2>6, <2>7, <2>8, Uncut DEF n
<1>6. \A p \in DOMAIN symbols : uint32(p - 1) = p - 1
  <2> TAKE p \in DOMAIN symbols
  <2>1. Len(order) < WordSpan
    BY PlacesFit
  <2>2. p - 1 \in Nat /\ p - 1 < WordSpan
    BY <1>1, <2>1
  <2> QED
    BY <2>2, Uncut
<1>7. LiesIn(strings)
  <2> SUFFICES ASSUME NEW n, NEW x, LiesNear(strings, n, x)
               PROVE  Lies(strings, n, x)
    BY DEF LiesIn
  <2>1. PICK at \in Nat : n = uint32(at) /\ Lies(strings, at, x)
    BY DEF LiesNear
  <2>2. PICK p \in Pieces(strings) : p.at = at /\ p.holds = x
    BY <2>1 DEF Lies
  <2>3. p.size \in Nat /\ at + p.size <= strings.length
    BY <2>2 DEF Inv, TableInv, Buffers, IsBuffer, IsPiece
  <2>4. at < WordSpan
    <3>1. strings.length < WordSpan
      BY PlacesFit
    <3> QED
      BY <1>1, <2>3, <3>1
  <2> QED
    BY <2>1, <2>4, Uncut
<1> QED
  BY <1>2, <1>3, <1>4, <1>5, <1>6, <1>7

LEMMA HoldsOne ==
  ASSUME Inv, NEW at, NEW x, x.is # "data", Lies(buffer, at, x)
  PROVE  Holding(at, x.is) = {x}
<1>1. PICK p \in Pieces(buffer) : p.at = at /\ p.holds = x
  BY DEF Lies
<1>2. ASSUME NEW q \in Pieces(buffer), q.at = at, q.holds.is = x.is
      PROVE  q.holds = x
  <2>1. p.size > 0 /\ q.size > 0
    BY <1>1, <1>2 DEF Inv, TableInv, SizedOrData
  <2>2. /\ p.at \in Nat /\ p.size \in Nat /\ q.at \in Nat /\ q.size \in Nat
    BY <1>1, <1>2 DEF Inv, TableInv, Buffers, IsBuffer, IsPiece
  <2>3. p = q \/ Apart(p, q)
    BY <1>1, <1>2 DEF Inv, TableInv, Buffers, IsBuffer, PiecesApart
  <2> QED
    BY <1>1, <1>2, <2>1, <2>2, <2>3 DEF Apart
<1>3. Holding(at, x.is) =
        {q.holds : q \in {r \in Pieces(buffer) : r.at = at /\ r.holds.is = x.is}}
  BY DEF Holding, Pieces, Members
<1> QED
  BY <1>1, <1>2, <1>3

LEMMA HasOne ==
  ASSUME Inv, NEW at, NEW size, NEW x, x.is # "data", Has(at, size, x)
  PROVE  Holding(at, x.is) = {x}
<1> DEFINE p == [at |-> at, size |-> size, holds |-> x]
<1>1. p \in Pieces(buffer) /\ p.at = at /\ p.holds = x
  BY DEF Has
<1> HIDE DEF p
<1>2. Lies(buffer, at, x)
  BY <1>1 DEF Lies
<1> QED
  BY <1>2, HoldsOne

LEMMA ReadsCommands ==
  ASSUME Inv, Finished, OffsetsFit
  PROVE  /\ Segments = {Segment}
         /\ SymtabsRead = {Symtab}
         /\ DysymtabsRead = {Dysymtab}
<1>1. HeadersLie /\ TablesLie
  BY DEF Inv, ContentInv, Finished, Described, AfterTables
<1>2. Segments = {Segment}
  <2>1. Segment.is = "segment" /\ Has(32, 72, Segment)
    BY <1>1 DEF Segment, HeadersLie
  <2>2. Holding(32, "segment") = {Segment}
    BY <2>1, HasOne
  <2> QED
    BY <2>2 DEF Segments, HeaderSize
<1>3. /\ Symtab.is = "symtab" /\ Has(HeadersEnd, 24, Symtab)
      /\ Dysymtab.is = "dysymtab" /\ Has(HeadersEnd + 24, 80, Dysymtab)
  BY <1>1 DEF Symtab, Dysymtab, TablesLie
<1>4. /\ Holding(HeadersEnd, "symtab") = {Symtab}
      /\ Holding(HeadersEnd + 24, "dysymtab") = {Dysymtab}
  BY <1>3, HasOne
<1>5. Len(Sections) \in Nat
  BY SymbolsAreTyped DEF Inv, OrderInv
<1>6. /\ HeaderSize + SegmentSize + SectionSize * Segment.nsects + 0 = HeadersEnd
      /\ HeaderSize + SegmentSize + SectionSize * Segment.nsects + SymtabSize
           = HeadersEnd + 24
  <2>1. Segment.nsects = Len(Sections)
    BY NothingCut
  <2> QED
    BY <1>5, <2>1 DEF HeadersEnd, HeaderSize, SegmentSize, SectionSize, SymtabSize
<1>7. \A is, distance :
        TableAt(is, distance) =
          Holding(HeaderSize + SegmentSize + SectionSize * Segment.nsects
                    + distance, is)
  <2> TAKE is, distance
  <2> DEFINE H(g) == Holding(HeaderSize + SegmentSize + SectionSize * g.nsects
                               + distance, is)
  <2>1. TableAt(is, distance) = UNION {H(g) : g \in Segments}
    BY DEF TableAt
  <2> HIDE DEF H
  <2>2. TableAt(is, distance) = H(Segment)
    BY <1>2, <2>1
  <2> QED
    BY <2>2 DEF H
<1> QED
  BY <1>2, <1>4, <1>6, <1>7 DEF SymtabsRead, DysymtabsRead

(* Each symbol is read from where the symbol table command points.         *)
LEMMA ReadsEntry ==
  ASSUME Inv, Finished, OffsetsFit, NEW p \in DOMAIN symbols
  PROVE  Holding(Symtab.symoff + SymbolSize * (p - 1), "symbol") = {symbols[p]}
<1>1. Has(SymbolPlace + 16 * (p - 1), 16, symbols[p])
  BY DEF Inv, ContentInv, Finished, AfterSymbols, SymbolLies
<1>2. symbols[p].is = "symbol"
  <2>1. symbols[p] = SymbolEntry(order[p], symbols[p].name)
    BY DEF Inv, SymbolInv, Describes
  <2>2. \A i, n : SymbolEntry(i, n).is = "symbol"
    BY DEF SymbolEntry
  <2> QED
    BY <2>1, <2>2
<1>3. Holding(SymbolPlace + 16 * (p - 1), "symbol") = {symbols[p]}
  BY <1>1, <1>2, HasOne
<1>4. Symtab.symoff = SymbolPlace
  BY NothingCut
<1> QED
  BY <1>3, <1>4 DEF SymbolSize

(* The announced ranges follow each other, end with the table, and hold    *)
(* the entries of their type, in every file below 4 GiB: the counts agree  *)
(* with the sort.                                                          *)
THEOREM RangesCorrect == Spec => []RangesCounted
<1>1. ASSUME Inv, pc = "done", OffsetsFit
      PROVE  RangesCounted
  <2>1. SymtabsRead = {Symtab} /\ DysymtabsRead = {Dysymtab} /\ Finished
    BY <1>1, ReadsCommands DEF Finished
  <2> DEFINE l == counts.local
             e == counts.extdef
             u == counts.undef
  <2>2. /\ l \in Nat /\ e \in Nat /\ u \in Nat
        /\ l + e + u = Len(symbols) /\ Len(symbols) = Len(order)
        /\ symbols \in Seq(Members(symbols))
    BY <1>1 DEF Inv, SymbolInv, CountsInv, Described
  <2>3. Symtab.nsyms = Len(symbols) /\ Len(symbols) \in Nat
        /\ DOMAIN symbols = 1 .. Len(symbols)
    BY <1>1, <2>1, <2>2, NothingCut
  <2>4. /\ Dysymtab.ilocalsym = 0 /\ Dysymtab.nlocalsym = l
        /\ Dysymtab.iextdefsym = l /\ Dysymtab.nextdefsym = e
        /\ Dysymtab.iundefsym = l + e /\ Dysymtab.nundefsym = u
    <3>1. Dysymtab.ilocalsym = 0
      BY DEF Dysymtab
    <3> QED
      BY <1>1, <2>1, <3>1, NothingCut
  <2>5. ASSUME NEW i \in 0 .. Len(symbols) - 1
        PROVE  \A x \in Holding(Symtab.symoff + SymbolSize * i, "symbol") :
                 x.type = IF i < l THEN "sect"
                          ELSE IF i < l + e THEN "sect ext" ELSE "undf ext"
    <3> DEFINE p == i + 1
    <3>1. p \in DOMAIN symbols /\ p - 1 = i
      BY <2>3
    <3>2. Holding(Symtab.symoff + SymbolSize * i, "symbol") = {symbols[p]}
      <4> HIDE DEF p
      <4>1. Holding(Symtab.symoff + SymbolSize * (p - 1), "symbol") = {symbols[p]}
        BY <1>1, <2>1, <3>1, ReadsEntry
      <4> QED
        BY <3>1, <4>1
    <3>3. RankOf(order[p]) = RangeOf(p)
      BY <1>1, <3>1 DEF Inv, SymbolInv, CountsInv
    <3>4. symbols[p].type = IF RankOf(order[p]) = 2 THEN "undf ext"
                            ELSE IF RankOf(order[p]) = 1 THEN "sect ext" ELSE "sect"
      <4>1. symbols[p] = SymbolEntry(order[p], symbols[p].name)
        BY <1>1, <3>1 DEF Inv, SymbolInv, Describes
      <4>2. \A j, n : SymbolEntry(j, n).type
                        = IF RankOf(j) = 2 THEN "undf ext"
                          ELSE IF RankOf(j) = 1 THEN "sect ext" ELSE "sect"
        BY DEF SymbolEntry
      <4> HIDE DEF p
      <4> QED
        BY <4>1, <4>2
    <3>5. RangeOf(p) = IF i < l THEN 0 ELSE IF i < l + e THEN 1 ELSE 2
      BY <2>2, <2>3 DEF RangeOf
    <3>6. symbols[p].type = IF i < l THEN "sect"
                            ELSE IF i < l + e THEN "sect ext" ELSE "undf ext"
      <4> HIDE DEF p, l, e
      <4>1. CASE i < l
        BY <3>3, <3>4, <3>5, <4>1
      <4>2. CASE ~(i < l) /\ i < l + e
        <5>1. RankOf(order[p]) = 1 /\ ~(1 = 2)
          BY <3>3, <3>5, <4>2
        <5>2. symbols[p].type = "sect ext"
          BY <3>4, <5>1
        <5> QED
          BY <4>2, <5>2
      <4>3. CASE ~(i < l) /\ ~(i < l + e)
        BY <3>3, <3>4, <3>5, <4>3
      <4> QED
        BY <4>1, <4>2, <4>3
    <3> HIDE DEF p, l, e
    <3> QED
      BY <3>2, <3>6
  <2> HIDE DEF l, e, u
  <2>6. /\ Dysymtab.ilocalsym + Dysymtab.nlocalsym = Dysymtab.iextdefsym
        /\ Dysymtab.iextdefsym + Dysymtab.nextdefsym = Dysymtab.iundefsym
        /\ Dysymtab.iundefsym + Dysymtab.nundefsym = Symtab.nsyms
    BY <2>2, <2>3, <2>4
  <2>7. \A i \in 0 .. Symtab.nsyms - 1 :
          \A x \in Holding(Symtab.symoff + SymbolSize * i, "symbol") :
            x.type = IF i < Dysymtab.iextdefsym THEN "sect"
                     ELSE IF i < Dysymtab.iundefsym THEN "sect ext" ELSE "undf ext"
    BY <2>3, <2>4, <2>5
  <2> QED
    BY <2>1, <2>6, <2>7 DEF RangesCounted
<1>2. Inv => RangesCounted
  BY <1>1 DEF RangesCounted
<1> QED
  BY <1>2, Invariance, PTL

LEMMA ReadsSectionHeaders ==
  ASSUME Inv, Finished, OffsetsFit
  PROVE  SectionHeaders = {[index |-> i, header |-> SectionHeader(i)] :
                             i \in DOMAIN Sections}
<1> DEFINE P(i, h) == [index |-> i, header |-> h]
           H(i)    == Holding(HeaderSize + SegmentSize + SectionSize * (i - 1),
                              "section")
           R(i)    == {P(i, h) : h \in H(i)}
           S(g)    == UNION {R(i) : i \in 1 .. g.nsects}
<1>1. SectionHeaders = UNION {S(g) : g \in Segments}
  BY DEF SectionHeaders
<1>2. Len(Sections) \in Nat /\ DOMAIN Sections = 1 .. Len(Sections)
  BY SymbolsAreTyped DEF Inv, OrderInv
<1>3. ASSUME NEW i \in DOMAIN Sections
      PROVE  H(i) = {SectionHeader(i)}
  <2>1. Has(104 + 80 * (i - 1), 80, SectionHeader(i))
    BY DEF Inv, ContentInv, Finished, AfterTables, SectionLies
  <2>2. SectionHeader(i).is = "section"
    BY DEF SectionHeader
  <2>3. Holding(104 + 80 * (i - 1), "section") = {SectionHeader(i)}
    BY <2>1, <2>2, HasOne
  <2>4. HeaderSize + SegmentSize + SectionSize * (i - 1) = 104 + 80 * (i - 1)
    BY <1>2 DEF HeaderSize, SegmentSize, SectionSize
  <2> QED
    BY <2>3, <2>4
<1>4. Segments = {Segment} /\ Segment.nsects = Len(Sections)
  BY ReadsCommands, NothingCut
<1> HIDE DEF H, P
<1>5. \A i \in DOMAIN Sections : R(i) = {P(i, SectionHeader(i))}
  BY <1>3
<1> HIDE DEF R
<1>6. S(Segment) = {P(i, SectionHeader(i)) : i \in DOMAIN Sections}
  BY <1>2, <1>4, <1>5
<1> HIDE DEF S
<1>7. SectionHeaders = {P(i, SectionHeader(i)) : i \in DOMAIN Sections}
  BY <1>1, <1>4, <1>6
<1> QED
  BY <1>7 DEF P

LEMMA ReadsSections ==
  ASSUME Inv, Finished, FieldsFit
  PROVE  ReadSections = Contract!MeaningOf(object).sections
<1> DEFINE P(i) == [index |-> i, header |-> SectionHeader(i)]
           N(s) == [index |-> s.index, name |-> s.header.name,
                    size |-> s.header.size]
           M(i) == [index |-> i, name |-> Sections[i].name, size |-> Sections[i].size]
<1>1. SectionHeaders = {P(i) : i \in DOMAIN Sections}
  BY ReadsSectionHeaders DEF FieldsFit
<1>2. ASSUME NEW i \in DOMAIN Sections
      PROVE  HasData(P(i).index, P(i).header) /\ N(P(i)) = M(i)
  <2> DEFINE h == SectionHeader(i)
  <2>1. h.name = Sections[i].name /\ h.size = Sections[i].size /\ h.offset = DataAt(i)
    <3>1. h.offset = DataAt(i)
      BY NothingCut DEF FieldsFit
    <3>2. NameSize(Sections[i].name) <= 17 /\ object \in Objects
      BY DEF FieldsFit, Inv, OrderInv
    <3>3. FixedName(Sections[i].name) = Sections[i].name
      BY <3>2, NamesAssumption DEF Sections
    <3> QED
      BY <3>1, <3>3 DEF SectionHeader
  <2>2. P(i).index = i /\ P(i).header = h
    OBVIOUS
  <2>3. Has(DataAt(i), Sections[i].size, [is |-> "data", index |-> i])
    BY DEF Inv, ContentInv, Finished, AfterData, DataLies
  <2> HIDE DEF h
  <2>4. \E p \in DOMAIN buffer.pieces :
          buffer.pieces[p] = [at |-> h.offset, size |-> h.size,
                              holds |-> [is |-> "data", index |-> i]]
    BY <2>1, <2>3 DEF Has, Pieces, Members
  <2>5. HasData(i, h)
    BY <2>4 DEF HasData
  <2> HIDE DEF P
  <2> QED
    BY <2>1, <2>2, <2>5
<1>3. ReadSections = {N(s) : s \in {t \in SectionHeaders : HasData(t.index, t.header)}}
  BY DEF ReadSections
<1>4. Contract!MeaningOf(object).sections = {M(i) : i \in DOMAIN Sections}
  BY DEF Contract!MeaningOf, Sections
<1> HIDE DEF P, N, M
<1> QED
  BY <1>1, <1>2, <1>3, <1>4

(* An entry of the table with its name, as a reader takes it.              *)
Named(e, name) ==
  [name |-> name, exported |-> e.type # "sect", section |-> e.section,
   value |-> e.value]

LEMMA EntryMeans ==
  ASSUME Inv, FieldsFit, NEW p \in DOMAIN symbols
  PROVE  LET e == symbols[p]
             s == Symbols[order[p]]
         IN  /\ LiesNear(strings, e.name, StringOf(order[p]))
             /\ Named(e, s.name) = Contract!MeaningOfSymbol(s)
<1> DEFINE e == symbols[p]
           i == order[p]
           s == Symbols[i]
<1>1. e = SymbolEntry(i, e.name) /\ LiesNear(strings, e.name, StringOf(i))
  BY DEF Inv, SymbolInv, Describes
<1>2. \A j, n :
        /\ RankOf(j) = 0 => SymbolEntry(j, n).type = "sect"
        /\ RankOf(j) = 1 => SymbolEntry(j, n).type = "sect ext"
        /\ RankOf(j) = 2 => SymbolEntry(j, n).type = "undf ext"
        /\ SymbolEntry(j, n).section
             = IF Symbols[j].defined THEN SectionNumber(Symbols[j]) ELSE 0
        /\ SymbolEntry(j, n).value
             = IF Symbols[j].defined THEN Symbols[j].value ELSE 0
  <2> TAKE j, n
  <2>1. 0 # 1 /\ 0 # 2 /\ 1 # 2
    OBVIOUS
  <2> QED
    BY <2>1 DEF SymbolEntry
<1>8. SectionNumber(s) = s.section
  <2>1. i \in DOMAIN Symbols
    <3>1. /\ symbols \in Seq(Members(symbols)) /\ order \in Seq(DOMAIN Symbols)
          /\ Len(symbols) <= Len(order)
      BY DEF Inv, SymbolInv, OrderInv
    <3> QED
      BY <3>1
  <2>2. /\ s.section \in 0 .. Len(Sections) /\ Len(Sections) \in Nat
        /\ Len(Sections) < SectionSpan /\ SectionSpan \in Nat \ {0}
    BY <2>1, ObjectIsTyped, SymbolsAreTyped, WidthAssumption
       DEF Inv, OrderInv, FieldsFit
  <2> HIDE DEF s
  <2>3. s.section % SectionSpan = s.section
    BY <2>2, SmallRemainder
  <2> QED
    BY <2>3 DEF SectionNumber
<1> HIDE DEF e, i
<1>3. /\ RankOf(i) = 0 => e.type = "sect"
      /\ RankOf(i) = 1 => e.type = "sect ext"
      /\ RankOf(i) = 2 => e.type = "undf ext"
      /\ e.section = IF s.defined THEN s.section ELSE 0
      /\ e.value = IF s.defined THEN s.value ELSE 0
  <2> DEFINE n == e.name
  <2>1. e = SymbolEntry(i, n)
    BY <1>1
  <2> HIDE DEF n
  <2> QED
    BY <1>2, <1>8, <2>1
<1>4. \/ RankOf(i) = 0 /\ ~Contract!Exported(s)
      \/ RankOf(i) = 1 /\ Contract!Exported(s)
      \/ RankOf(i) = 2 /\ Contract!Exported(s)
  BY DEF RankOf, Rank, Contract!Exported
<1>5. (e.type # "sect") <=> Contract!Exported(s)
  <2>1. "sect ext" # "sect" /\ "undf ext" # "sect"
    OBVIOUS
  <2> QED
    BY <1>3, <1>4, <2>1
<1>6. (e.type # "sect") = Contract!Exported(s)
  BY <1>5 DEF Contract!Exported
<1> HIDE DEF s
<1>7. Named(e, s.name) = Contract!MeaningOfSymbol(s)
  BY <1>3, <1>6 DEF Contract!MeaningOfSymbol, Named
<1> QED
  BY <1>1, <1>7 DEF e, i, s

(* Names of the string table are found behind the symbols.                 *)
LEMMA ReadsName ==
  ASSUME Inv, Finished, OffsetsFit, NEW at, NEW i,
         LiesNear(strings, at, StringOf(i))
  PROVE  Holding(Symtab.stroff + at, "string") = {StringOf(i)}
<1> DEFINE x == StringOf(i)
<1>1. PICK q \in Pieces(strings) : q.at = at /\ q.holds = x
  <2>1. Lies(strings, at, x)
    BY NothingCut DEF LiesIn
  <2> QED
    BY <2>1 DEF Lies
<1>2. Moved(q, StringPlace) \in Pieces(buffer)
  BY <1>1 DEF Inv, ContentInv, Finished, StringsLie
<1>3. /\ Moved(q, StringPlace).at = StringPlace + at
      /\ Moved(q, StringPlace).holds = x
  BY <1>1 DEF Moved
<1>4. x.is = "string"
  BY DEF StringOf
<1> HIDE DEF x
<1>5. Lies(buffer, StringPlace + at, x)
  BY <1>2, <1>3 DEF Lies
<1>6. Holding(StringPlace + at, "string") = {x}
  BY <1>4, <1>5, HoldsOne
<1>7. Symtab.stroff = StringPlace
  BY NothingCut
<1> QED
  BY <1>6, <1>7 DEF x

LEMMA ReadsSymbol ==
  ASSUME Inv, Finished, FieldsFit, NEW p \in DOMAIN symbols
  PROVE  ReadSymbol(p - 1) = {Contract!MeaningOfSymbol(Symbols[order[p]])}
<1> DEFINE e == symbols[p]
           i == order[p]
           s == Symbols[i]
           t == Symtab
           N(x, n) == Named(x, n.name)
           R(y, x) == {N(x, n) : n \in Holding(y.stroff + x.name, "string")}
           E(y)    == Holding(y.symoff + SymbolSize * (p - 1), "symbol")
           Q(y)    == UNION {R(y, x) : x \in E(y)}
<1>0. OffsetsFit
  BY DEF FieldsFit
<1>1. /\ LiesNear(strings, e.name, StringOf(i))
      /\ Named(e, s.name) = Contract!MeaningOfSymbol(s)
  BY EntryMeans
<1>2. E(t) = {e}
  BY <1>0, ReadsEntry
<1>3. Holding(t.stroff + e.name, "string") = {StringOf(i)}
  BY <1>0, <1>1, ReadsName
<1>4. StringOf(i).name = s.name
  BY DEF StringOf
<1>5. SymtabsRead = {t}
  BY <1>0, ReadsCommands
<1>6. ReadSymbol(p - 1) = UNION {Q(y) : y \in SymtabsRead}
  BY DEF ReadSymbol, Named
<1>7. N(e, StringOf(i)) = Contract!MeaningOfSymbol(s)
  BY <1>1, <1>4
<1> HIDE DEF e, i, s, t, N
<1>8. R(t, e) = {Contract!MeaningOfSymbol(s)}
  BY <1>3, <1>7
<1> HIDE DEF R, E
<1>9. Q(t) = {Contract!MeaningOfSymbol(s)}
  BY <1>2, <1>8
<1> HIDE DEF Q
<1>10. ReadSymbol(p - 1) = {Contract!MeaningOfSymbol(s)}
  BY <1>5, <1>6, <1>9
<1> QED
  BY <1>10 DEF s, i

LEMMA ReadsSymbols ==
  ASSUME Inv, Finished, FieldsFit
  PROVE  ReadSymbols = Contract!MeaningOf(object).symbols
<1> DEFINE M(i) == Contract!MeaningOfSymbol(Symbols[i])
           l    == Len(symbols)
           S(t) == UNION {ReadSymbol(i) : i \in 0 .. t.nsyms - 1}
<1>1. /\ l \in Nat /\ l = Len(order) /\ DOMAIN symbols = 1 .. l
      /\ order \in Seq(DOMAIN Symbols) /\ Sorted
      /\ object \in Objects
  <2>1. symbols \in Seq(Members(symbols))
    BY DEF Inv, SymbolInv
  <2> QED
    BY <2>1 DEF Inv, SymbolInv, OrderInv, Finished, Described
<1>2. SymtabsRead = {Symtab} /\ Symtab.nsyms = l
  BY <1>1, ReadsCommands, NothingCut DEF FieldsFit
<1>3. \A p \in 1 .. l : ReadSymbol(p - 1) = {M(order[p])}
  BY <1>1, ReadsSymbol
<1> HIDE DEF l
<1>4. /\ \A i \in 0 .. l - 1 : i + 1 \in 1 .. l /\ (i + 1) - 1 = i
      /\ \A p \in 1 .. l : p - 1 \in 0 .. l - 1 /\ (p - 1) + 1 = p
  BY <1>1
<1> HIDE DEF M
<1>5. S(Symtab) = {M(order[p]) : p \in 1 .. l}
  <2>1. S(Symtab) = UNION {ReadSymbol(i) : i \in 0 .. l - 1}
    BY <1>2
  <2>2. UNION {ReadSymbol(i) : i \in 0 .. l - 1}
          = UNION {ReadSymbol(p - 1) : p \in 1 .. l}
    BY <1>4
  <2>3. UNION {ReadSymbol(p - 1) : p \in 1 .. l} = {M(order[p]) : p \in 1 .. l}
    BY <1>3
  <2> QED
    BY <2>1, <2>2, <2>3
<1>6. ReadSymbols = UNION {S(t) : t \in SymtabsRead}
  BY DEF ReadSymbols
<1> HIDE DEF S
<1>7. ReadSymbols = {M(order[p]) : p \in 1 .. l}
  BY <1>2, <1>5, <1>6
<1>8. {order[p] : p \in 1 .. l} = Contract!Visible(object)
  <2>1. Members(order) = VisibleUpTo(Len(Symbols))
    BY <1>1 DEF Sorted
  <2>2. Members(order) = {order[p] : p \in 1 .. l}
    BY <1>1 DEF Members
  <2>3. Len(Symbols) \in Nat /\ DOMAIN Symbols = 1 .. Len(Symbols)
    BY <1>1, SymbolsAreTyped
  <2>4. VisibleUpTo(Len(Symbols)) = {s \in DOMAIN Symbols : ~HideSymbol(Symbols[s])}
    BY <2>3 DEF VisibleUpTo
  <2>5. Contract!Visible(object) = {s \in DOMAIN Symbols : ~HideSymbol(Symbols[s])}
    BY DEF Contract!Visible, Contract!Hide, HideSymbol, Symbols
  <2> QED
    BY <2>1, <2>2, <2>4, <2>5
<1>9. Contract!MeaningOf(object).symbols = {M(i) : i \in Contract!Visible(object)}
  BY DEF Contract!MeaningOf, Symbols, M
<1>10. {M(order[p]) : p \in 1 .. l} = {M(i) : i \in Contract!Visible(object)}
  BY <1>8
<1> QED
  BY <1>7, <1>9, <1>10

(* No two kinds of an architecture share both their number and their       *)
(* width, so that a linker tells them apart.                               *)
LEMMA KindsDiffer ==
  ASSUME object \in Objects, NEW kind \in DOMAIN RelocationTypes[object.arch],
         NEW e, e.type = RelocationType(kind), e.length = RelocationWidth(kind)
  PROVE  KindOf(e) = kind
<1>1. object.arch \in DOMAIN RelocationTypes
  BY ObjectsAssumption
<1>2. DOMAIN RelocationTypes = {"arm64", "x86_64", "bslash"}
  BY DEF RelocationTypes
<1>3. \A i, j \in DOMAIN RelocationTypes[object.arch] :
        /\ RelocationTypes[object.arch][i] = RelocationTypes[object.arch][j]
        /\ RelocationWidth(i) = RelocationWidth(j)
        => i = j
  <2>1. CASE object.arch = "arm64"
    BY <2>1 DEF RelocationTypes
  <2>2. CASE object.arch = "x86_64"
    BY <2>2 DEF RelocationTypes, RelocationWidth
  <2>3. CASE object.arch = "bslash"
    BY <2>3 DEF RelocationTypes
  <2> QED
    BY <1>1, <1>2, <2>1, <2>2, <2>3
<1> QED
  BY <1>3 DEF KindOf, RelocationType

(* The number of a visible symbol is its place in the table, counted from  *)
(* zero, if 24 bits can say it.                                            *)
LEMMA NumberPoints ==
  ASSUME Inv, Finished, FieldsFit, NEW rel, rel.symbol \in DOMAIN Symbols,
         map[rel.symbol] # Unmapped
  PROVE  \E p \in DOMAIN symbols :
           SymbolNumber(rel) = p - 1 /\ order[p] = rel.symbol
<1>1. PICK p \in DOMAIN symbols :
        order[p] = rel.symbol /\ map[rel.symbol] = uint32(p - 1)
  BY DEF Inv, SymbolInv
<1>2. uint32(p - 1) = p - 1
  BY NothingCut DEF FieldsFit
<1>3. p - 1 \in 0 .. SymbolSpan - 1 /\ SymbolSpan \in Nat \ {0}
  <2>1. /\ symbols \in Seq(Members(symbols)) /\ order \in Seq(DOMAIN Symbols)
        /\ Len(symbols) <= Len(order) /\ Len(order) <= SymbolSpan
    BY DEF Inv, SymbolInv, OrderInv, FieldsFit
  <2>2. DOMAIN symbols = 1 .. Len(symbols) /\ Len(symbols) \in Nat /\ Len(order) \in Nat
    BY <2>1
  <2> QED
    BY <2>1, <2>2, WidthAssumption
<1>4. SymbolNumber(rel) = p - 1
  <2>1. (p - 1) % SymbolSpan = p - 1
    BY <1>3, SmallRemainder
  <2> QED
    BY <1>1, <1>2, <2>1 DEF SymbolNumber
<1> QED
  BY <1>1, <1>4

LEMMA ReadsRelocation ==
  ASSUME Inv, Finished, FieldsFit, NEW j \in DOMAIN Sections,
         NEW r \in DOMAIN Sections[j].relocations
  PROVE  LET h   == SectionHeader(j)
             rel == Sections[j].relocations[r]
         IN  /\ Holding(h.reloff + RelocationSize * (r - 1), "relocation")
                  = {Packed(rel)}
             /\ Packed(rel).offset = rel.offset
             /\ KindOf(Packed(rel)) = rel.kind
             /\ ReadSymbol(Packed(rel).symbol)
                  = {Contract!MeaningOfSymbol(Symbols[rel.symbol])}
<1> DEFINE h   == SectionHeader(j)
           rel == Sections[j].relocations[r]
           e   == Packed(rel)
<1>1. object \in Objects
  BY DEF Inv, OrderInv
<1>2. /\ rel.symbol \in DOMAIN Symbols
      /\ rel.kind \in DOMAIN RelocationTypes[object.arch]
  <2>1. Sections[j].relocations \in Seq(RelocationOf(object))
    BY <1>1, ObjectIsTyped
  <2>2. rel \in RelocationOf(object)
    BY <2>1
  <2> HIDE DEF rel
  <2> QED
    BY <2>2 DEF RelocationOf, Symbols
<1>3. RelocationsLie(j)
  BY DEF Inv, ContentInv, Finished, AfterSymbols
<1>4. Has(RelocationsAt(j) + 8 * (r - 1), 8, e) /\ map[rel.symbol] # Unmapped
  BY <1>3 DEF RelocationsLie, RefersToHidden
<1>5. /\ e.is = "relocation" /\ e.offset = rel.offset /\ e.symbol = SymbolNumber(rel)
      /\ e.length = RelocationWidth(rel.kind) /\ e.type = RelocationType(rel.kind)
  <2>1. uint32(rel.offset) = rel.offset
    BY NothingCut DEF FieldsFit
  <2> QED
    BY <2>1 DEF Packed
<1>6. h.reloff = RelocationsAt(j)
  BY NothingCut DEF FieldsFit
<1> HIDE DEF h, e, rel
<1>7. Holding(h.reloff + RelocationSize * (r - 1), "relocation") = {e}
  BY <1>4, <1>5, <1>6, HasOne DEF RelocationSize
<1>8. KindOf(e) = rel.kind
  BY <1>1, <1>2, <1>5, KindsDiffer
<1>9. PICK p \in DOMAIN symbols : SymbolNumber(rel) = p - 1 /\ order[p] = rel.symbol
  BY <1>2, <1>4, NumberPoints
<1>10. ReadSymbol(p - 1) = {Contract!MeaningOfSymbol(Symbols[order[p]])}
  BY ReadsSymbol
<1>11. ReadSymbol(e.symbol) = {Contract!MeaningOfSymbol(Symbols[rel.symbol])}
  BY <1>5, <1>9, <1>10
<1> QED
  BY <1>5, <1>7, <1>8, <1>11 DEF h, e, rel

LEMMA ReadsRelocations ==
  ASSUME Inv, Finished, FieldsFit
  PROVE  ReadRelocations = Contract!MeaningOf(object).relocations
<1> DEFINE H(j)      == SectionHeader(j)
           P(j)      == [index |-> j, header |-> H(j)]
           Rel(j, r) == Sections[j].relocations[r]
           M(j, r)   == [section |-> j, offset |-> Rel(j, r).offset,
                         kind |-> Rel(j, r).kind,
                         name |-> Symbols[Rel(j, r).symbol].name]
           N(s, e, n) == [section |-> s.index, offset |-> e.offset,
                          kind |-> KindOf(e), name |-> n.name]
           E(s, r)   == Holding(s.header.reloff + RelocationSize * r, "relocation")
           T(s, e)   == {N(s, e, n) : n \in ReadSymbol(e.symbol)}
           U(s, r)   == UNION {T(s, e) : e \in E(s, r)}
           V(s)      == UNION {U(s, r) : r \in 0 .. s.header.nreloc - 1}
<1>0. \A j : P(j).index = j /\ P(j).header = H(j)
  OBVIOUS
<1>1. ASSUME NEW j \in DOMAIN Sections, NEW r \in DOMAIN Sections[j].relocations
      PROVE  U(P(j), r - 1) = {M(j, r)}
  <2> DEFINE e == Packed(Rel(j, r))
             n == Contract!MeaningOfSymbol(Symbols[Rel(j, r).symbol])
  <2>1. /\ Holding(H(j).reloff + RelocationSize * (r - 1), "relocation") = {e}
        /\ e.offset = Rel(j, r).offset /\ KindOf(e) = Rel(j, r).kind
        /\ ReadSymbol(e.symbol) = {n}
    BY ReadsRelocation
  <2>2. n.name = Symbols[Rel(j, r).symbol].name
    BY DEF Contract!MeaningOfSymbol
  <2> HIDE DEF e, n, P, H
  <2>3. E(P(j), r - 1) = {e}
    BY <1>0, <2>1
  <2>4. N(P(j), e, n) = M(j, r)
    BY <1>0, <2>1, <2>2
  <2> HIDE DEF N, M, E
  <2>5. T(P(j), e) = {M(j, r)}
    BY <2>1, <2>4
  <2> HIDE DEF T
  <2> QED
    BY <2>3, <2>5
<1>2. ASSUME NEW j \in DOMAIN Sections
      PROVE  V(P(j)) = {M(j, r) : r \in DOMAIN Sections[j].relocations}
  <2> DEFINE n == Len(Sections[j].relocations)
             s == P(j)
  <2>1. n \in Nat /\ DOMAIN Sections[j].relocations = 1 .. n
    <3>1. Sections[j].relocations \in Seq(RelocationOf(object))
      BY ObjectIsTyped DEF Inv, OrderInv
    <3> QED
      BY <3>1
  <2>2. s.header.nreloc = n
    BY <1>0, NothingCut DEF FieldsFit
  <2>3. \A r \in 1 .. n : U(s, r - 1) = {M(j, r)}
    BY <1>1, <2>1
  <2> HIDE DEF n, P, s, H, U, M
  <2>4. /\ \A r \in 0 .. n - 1 : r + 1 \in 1 .. n /\ (r + 1) - 1 = r
        /\ \A r \in 1 .. n : r - 1 \in 0 .. n - 1
    BY <2>1
  <2>5. V(s) = UNION {U(s, r) : r \in 0 .. n - 1}
    BY <2>2
  <2>6. UNION {U(s, r) : r \in 0 .. n - 1} = UNION {U(s, r - 1) : r \in 1 .. n}
    BY <2>4
  <2>7. UNION {U(s, r - 1) : r \in 1 .. n} = {M(j, r) : r \in 1 .. n}
    BY <2>3
  <2> HIDE DEF V
  <2>8. V(s) = {M(j, r) : r \in 1 .. n}
    BY <2>5, <2>6, <2>7
  <2> QED
    BY <2>1, <2>8 DEF s
<1>3. SectionHeaders = {P(j) : j \in DOMAIN Sections}
  BY ReadsSectionHeaders DEF FieldsFit
<1>4. ReadRelocations = UNION {V(s) : s \in SectionHeaders}
  BY DEF ReadRelocations
<1>5. Contract!MeaningOf(object).relocations =
        UNION {{M(j, r) : r \in DOMAIN Sections[j].relocations} :
               j \in DOMAIN Sections}
  <2> DEFINE K(j, rel) == [section |-> j, offset |-> rel.offset, kind |-> rel.kind,
                           name |-> Symbols[rel.symbol].name]
             W(j) == {K(j, rel) : rel \in {Sections[j].relocations[r] :
                                             r \in DOMAIN Sections[j].relocations}}
  <2>1. Contract!MeaningOf(object).relocations = UNION {W(j) : j \in DOMAIN Sections}
    BY DEF Contract!MeaningOf, Sections, Symbols
  <2>2. \A j, r : K(j, Sections[j].relocations[r]) = M(j, r)
    OBVIOUS
  <2> HIDE DEF K, M
  <2>3. \A j : W(j) = {M(j, r) : r \in DOMAIN Sections[j].relocations}
    BY <2>2
  <2> HIDE DEF W
  <2> QED
    BY <2>1, <2>3
<1> HIDE DEF V, H, M, P
<1>6. UNION {V(s) : s \in SectionHeaders} = UNION {V(P(j)) : j \in DOMAIN Sections}
  BY <1>3
<1>7. UNION {V(P(j)) : j \in DOMAIN Sections}
        = UNION {{M(j, r) : r \in DOMAIN Sections[j].relocations} :
                 j \in DOMAIN Sections}
  BY <1>2
<1> QED
  BY <1>4, <1>5, <1>6, <1>7

(* What a linker reads from a finished file is the object, if its numbers  *)
(* fit their fields.                                                       *)
LEMMA ReadsObject ==
  ASSUME Inv, Finished, FieldsFit
  PROVE  ReadBack = Contract!MeaningOf(object)
BY ReadsSections, ReadsSymbols, ReadsRelocations DEF ReadBack, Contract!MeaningOf

(* A finished file has no relocation against a hidden symbol.              *)
LEMMA NothingHidden ==
  ASSUME Inv, Finished
  PROVE  ~Contract!HiddenReference(object)
<1> SUFFICES ASSUME NEW i \in DOMAIN Sections,
                    NEW r \in DOMAIN Sections[i].relocations
             PROVE  Sections[i].relocations[r].symbol \in Contract!Visible(object)
  BY DEF Contract!HiddenReference, Sections
<1> DEFINE rel == Sections[i].relocations[r]
<1>1. rel.symbol \in DOMAIN Symbols
  <2>1. Sections[i].relocations \in Seq(RelocationOf(object))
    BY ObjectIsTyped DEF Inv, OrderInv
  <2>2. rel \in RelocationOf(object)
    BY <2>1
  <2> HIDE DEF rel
  <2> QED
    BY <2>2 DEF RelocationOf, Symbols
<1>2. map[rel.symbol] # Unmapped
  BY DEF Inv, ContentInv, Finished, AfterSymbols, RelocationsLie, RefersToHidden
<1> HIDE DEF rel
<1>3. PICK p \in DOMAIN symbols : order[p] = rel.symbol
  BY <1>1, <1>2 DEF Inv, SymbolInv
<1>4. p \in DOMAIN order
  <2>1. /\ symbols \in Seq(Members(symbols)) /\ order \in Seq(DOMAIN Symbols)
        /\ Len(symbols) <= Len(order)
    BY DEF Inv, SymbolInv, OrderInv
  <2> QED
    BY <2>1
<1>5. rel.symbol \in VisibleUpTo(Len(Symbols))
  BY <1>3, <1>4 DEF Inv, OrderInv, Sorted, Finished, Members
<1> QED
  BY <1>5 DEF VisibleUpTo, Contract!Visible, Contract!Hide, HideSymbol, Symbols, rel

LEMMA ReadFrame ==
  ASSUME UNCHANGED <<object, buffer>>
  PROVE  ReadBack' = ReadBack
<1>1. \A at, is : Holding(at, is)' = Holding(at, is)
  BY DEF Holding
<1>2. Segments' = Segments
  BY <1>1 DEF Segments, HeaderSize
<1>3. SectionHeaders' = SectionHeaders
  BY <1>1, <1>2 DEF SectionHeaders, HeaderSize, SegmentSize, SectionSize
<1>4. SymtabsRead' = SymtabsRead
  BY <1>1, <1>2 DEF SymtabsRead, TableAt, HeaderSize, SegmentSize, SectionSize
<1>5. \A i, h : HasData(i, h)' <=> HasData(i, h)
  BY DEF HasData
<1>6. ReadSections' = ReadSections
  BY <1>3, <1>5 DEF ReadSections
<1>7. \A i : ReadSymbol(i)' = ReadSymbol(i)
  BY <1>1, <1>4 DEF ReadSymbol, SymbolSize
<1>8. ReadSymbols' = ReadSymbols
  BY <1>4, <1>7 DEF ReadSymbols
<1>9. \A e : KindOf(e)' = KindOf(e)
  BY DEF KindOf, RelocationType
<1>10. ReadRelocations' = ReadRelocations
  BY <1>1, <1>3, <1>7, <1>9 DEF ReadRelocations, RelocationSize
<1> QED
  BY <1>6, <1>8, <1>10 DEF ReadBack

LEMMA FitFrame ==
  ASSUME UNCHANGED <<object, order, strings>>
  PROVE  FieldsFit' = FieldsFit
<1>1. FileSize' = FileSize /\ Sections' = Sections
  BY OffsetFrame DEF FileSize, Sections
<1> QED
  BY <1>1 DEF FieldsFit, OffsetsFit

(* The writer does what the contract of an object file allows: the file it *)
(* leaves is the object whenever it stays below 4 GiB and its sections,    *)
(* symbols and section names fit the 8 and 24 bits and 16 bytes of their   *)
(* fields, and otherwise the output is as it was.                          *)
THEOREM ObjectFileImplemented == Spec => ImplementsObjectFile
<1>1. ASSUME Init
      PROVE  Contract!Init
  BY <1>1 DEF Init, Contract!Init, Result
<1>2. ASSUME Inv, [Next]_vars
      PROVE  [Contract!Next]_Contract!vars
  <2> DEFINE file == IF output = "written" THEN {ReadBack} ELSE {}
  <2>1. pc \notin {"done", "failed"} => output = "untouched"
    BY <1>2 DEF Inv, TableInv, OutputInv
  <2>2. CASE WriteFile
    <3>1. /\ pc = "write" /\ pc' = "done" /\ output' = "written"
          /\ UNCHANGED <<object, order, strings, buffer>>
      BY <2>2 DEF WriteFile, Goto
    <3>2. ~Contract!HiddenReference(object) /\ FieldsFit' = FieldsFit
      BY <1>2, <3>1, NothingHidden, FitFrame DEF Finished
    <3>3. CASE FieldsFit
      <4>1. ReadBack' = Contract!MeaningOf(object)
        BY <1>2, <3>1, <3>3, ReadsObject, ReadFrame DEF Finished
      <4> QED
        BY <2>1, <3>1, <3>2, <3>3, <4>1 DEF Contract!Next, Contract!Finish, Result
    <3>4. CASE ~FieldsFit
      BY <2>1, <3>1, <3>2, <3>4 DEF Contract!Next, Contract!Cut, Result
    <3> QED
      BY <3>3, <3>4
  <2>3. CASE WriteFails
    <3>1. /\ pc = "write" /\ UNCHANGED <<object, order, strings>>
          /\ \/ output' \in {"untouched", "partial"} /\ pc' = "failed"
             \/ output' = "partial" /\ pc' = "done"
      BY <2>3 DEF WriteFails, Goto
    <3>2. ~Contract!HiddenReference(object) /\ FieldsFit' = FieldsFit
      BY <1>2, <3>1, NothingHidden, FitFrame DEF Finished
    <3> QED
      BY <2>1, <3>1, <3>2
         DEF Contract!Next, Contract!Finish, Contract!Give, Contract!Cut, Result
  <2>4. CASE RejectHidden \/ OutOfMemory
    <3>1. /\ pc \notin {"done", "failed"} /\ pc' = "failed" /\ UNCHANGED <<object, output>>
      BY <2>4 DEF RejectHidden, OutOfMemory, Fail
    <3> QED
      BY <2>1, <3>1 DEF Contract!Next, Contract!Give, Result
  <2>5. CASE UNCHANGED vars
    <3>1. /\ ReadBack' = ReadBack /\ FieldsFit' = FieldsFit
          /\ UNCHANGED <<object, pc, output>>
      BY <2>5, ReadFrame, FitFrame DEF vars
    <3> QED
      BY <3>1 DEF Contract!vars, Result
  <2>6. CASE \/ Collect \/ EndCollect \/ Insert \/ EndSort \/ AddSymbol
             \/ PutHeader \/ PutSectionHeader \/ PutTables \/ PutBuildVersion
             \/ PutData \/ EndData \/ PutRelocations \/ PutSymbols \/ PutStrings
    <3>1. /\ {pc, pc'} \cap {"done", "failed"} = {} /\ UNCHANGED <<object, output>>
      BY <2>6 DEF Collect, EndCollect, Insert, EndSort, AddSymbol, PutHeader,
         PutSectionHeader, PutTables, PutBuildVersion, PutData, EndData,
         PutRelocations, PutSymbols, PutStrings, Goto, Advance
    <3> QED
      BY <2>1, <3>1 DEF Contract!vars, Result
  <2> QED
    BY <1>2, <2>2, <2>3, <2>4, <2>5, <2>6 DEF Next, Terminated
<1> QED
  BY <1>1, <1>2, Invariance, PTL DEF Spec, ImplementsObjectFile, Contract!Spec
=============================================================================
