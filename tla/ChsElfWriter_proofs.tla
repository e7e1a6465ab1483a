-------------------------- MODULE ChsElfWriter_proofs ------------------------
(***************************************************************************)
(* Proofs about the ELF writer.  The invariant is built in layers, each    *)
(* proved with those below it: the order of the symbols, the buffers and   *)
(* tables, the section headers, and the pieces that hold what a header     *)
(* points to.                                                              *)
(***************************************************************************)
EXTENDS ChsElfWriter, ChsBuffer_proofs, FiniteSetTheorems

-----------------------------------------------------------------------------
(* The insertion sort.                                                     *)

RankOf(i) == Rank(Symbols[i])

(* Locals first, and among equals the first of the object.                 *)
Before(i, j) == RankOf(i) < RankOf(j) \/ (RankOf(i) = RankOf(j) /\ i < j)

VisibleUpTo(n) == {i \in DOMAIN Symbols : i <= n /\ ~HideSymbol(Symbols[i])}

Steps == {"collect", "sort", "symbols", "sections", "relas", "strtab",
          "shstrtab", "headers", "write", "done", "failed"}

Collecting ==
  /\ k <= Len(Symbols) + 1
  /\ Members(order) = VisibleUpTo(k - 1)
  /\ \A p, q \in DOMAIN order : p < q => order[p] < order[q]

(* The first k places are sorted but for the one at rank, which belongs    *)
(* there or further down; those after k are as they were collected.        *)
Sorting ==
  /\ k >= 2 /\ rank \in 1 .. k
  /\ k > Len(order) => rank = k
  /\ Members(order) = VisibleUpTo(Len(Symbols))
  /\ \A p, q \in DOMAIN order :
       p < q =>
         /\ q > k => order[p] < order[q]
         /\ q <= k /\ p # rank /\ q # rank => Before(order[p], order[q])
         /\ q <= k /\ p = rank => RankOf(order[p]) < RankOf(order[q])
  /\ \A p \in DOMAIN order :
       p <= k /\ p # rank /\ k <= Len(order) => order[p] < order[rank]

Sorted ==
  /\ Members(order) = VisibleUpTo(Len(Symbols))
  /\ \A p, q \in DOMAIN order : p < q => Before(order[p], order[q])

OrderInv ==
  /\ object \in Objects
  /\ pc \in Steps
  /\ k \in Nat \ {0}
  /\ rank \in Nat
  /\ order \in Seq(DOMAIN Symbols)
  /\ pc = "collect" => Collecting
  /\ pc = "sort" => Sorting
  /\ pc \notin {"collect", "sort", "failed"} => Sorted

(* The steps after the sort leave the order alone.                         *)
Later ==
  \/ EndSort \/ AddSymbol \/ PutIdent \/ PutSection \/ EndSections
  \/ SkipSection \/ PutRelas \/ RejectHidden \/ PutSymtab \/ PutStrtab
  \/ PutShstrtab \/ PutHeaders \/ WriteFile \/ WriteFails \/ OutOfMemory

LEMMA SymbolsAreTyped ==
  ASSUME object \in Objects
  PROVE  /\ Symbols \in Seq(SymbolOf(object))
         /\ Sections \in Seq(SectionOf(object))
         /\ Len(Symbols) \in Nat /\ DOMAIN Symbols = 1 .. Len(Symbols)
         /\ Len(Sections) \in Nat /\ DOMAIN Sections = 1 .. Len(Sections)
BY ObjectsAssumption DEF Symbols, Sections

LEMMA RankIsNat ==
  \A i : RankOf(i) \in {0, 1}
BY DEF RankOf, Rank

LEMMA OrderFrame ==
  ASSUME UNCHANGED object
  PROVE  /\ Symbols' = Symbols /\ Sections' = Sections
         /\ \A i : RankOf(i)' = RankOf(i)
         /\ \A i, j : Before(i, j)' <=> Before(i, j)
         /\ \A n : VisibleUpTo(n)' = VisibleUpTo(n)
BY DEF Symbols, Sections, RankOf, Rank, Before, VisibleUpTo, HideSymbol

LEMMA InitOrder == Init => OrderInv
<1> SUFFICES ASSUME Init
             PROVE  OrderInv
  OBVIOUS
<1>1. /\ object \in Objects /\ pc = "collect" /\ k = 1 /\ rank = 1
      /\ order = << >>
  BY DEF Init
<1>2. Members(order) = {}
  BY <1>1 DEF Members
<1>3. Len(Symbols) \in Nat /\ DOMAIN Symbols = 1 .. Len(Symbols)
  BY <1>1, SymbolsAreTyped
<1>4. VisibleUpTo(k - 1) = {}
  BY <1>1, <1>3 DEF VisibleUpTo
<1>5. Collecting
  <2>1. DOMAIN order = {}
    BY <1>1
  <2>2. k <= Len(Symbols) + 1
    BY <1>1, <1>3
  <2>3. Members(order) = VisibleUpTo(k - 1)
    BY <1>2, <1>4
  <2> QED
    BY <2>1, <2>2, <2>3 DEF Collecting
<1> QED
  BY <1>1, <1>5 DEF OrderInv, Steps

LEMMA CollectOrder ==
  ASSUME OrderInv, Collect
  PROVE  OrderInv'
<1>1. /\ object \in Objects /\ pc = "collect" /\ k \in Nat \ {0} /\ rank \in Nat
      /\ order \in Seq(DOMAIN Symbols) /\ Collecting
  BY DEF OrderInv, Collect
<1>2. /\ object' = object /\ pc' = pc /\ rank' = rank /\ k' = k + 1
      /\ k <= Len(Symbols)
      /\ order' = IF HideSymbol(Symbols[k]) THEN order ELSE Append(order, k)
  BY DEF Collect
<1>3. Len(Symbols) \in Nat /\ DOMAIN Symbols = 1 .. Len(Symbols)
  BY <1>1, SymbolsAreTyped
<1>4. k \in DOMAIN Symbols
  BY <1>1, <1>2, <1>3
<1>5. \A p \in DOMAIN order : order[p] < k
  <2>1. \A p \in DOMAIN order : order[p] \in Members(order)
    BY DEF Members
  <2> QED
    BY <1>1, <1>3, <2>1 DEF Collecting, VisibleUpTo
<1>6. CASE HideSymbol(Symbols[k])
  <2>1. order' = order
    BY <1>2, <1>6
  <2>2. VisibleUpTo(k) = VisibleUpTo(k - 1)
    BY <1>1, <1>3, <1>6 DEF VisibleUpTo
  <2>3. Collecting'
    BY <1>1, <1>2, <1>3, <2>1, <2>2, OrderFrame DEF Collecting
  <2> QED
    BY <1>1, <1>2, <2>1, <2>3, OrderFrame DEF OrderInv
<1>7. CASE ~HideSymbol(Symbols[k])
  <2>1. order' = Append(order, k)
    BY <1>2, <1>7
  <2>2. VisibleUpTo(k) = VisibleUpTo(k - 1) \cup {k}
    BY <1>1, <1>3, <1>4, <1>7 DEF VisibleUpTo
  <2>3. Members(order') = Members(order) \cup {k}
    BY <1>1, <2>1, AppendMembers
  <2>4. order' \in Seq(DOMAIN Symbols)
    BY <1>1, <1>4, <2>1
  <2>5. \A p, q \in DOMAIN order' : p < q => order'[p] < order'[q]
    <3>1. /\ DOMAIN order' = 1 .. Len(order) + 1 /\ Len(order) \in Nat
          /\ DOMAIN order = 1 .. Len(order)
          /\ \A p \in 1 .. Len(order) : order'[p] = order[p]
          /\ order'[Len(order) + 1] = k
      BY <1>1, <2>1
    <3>2. \A p, q \in DOMAIN order : p < q => order[p] < order[q]
      BY <1>1 DEF Collecting
    <3> TAKE p, q \in DOMAIN order'
    <3>3. CASE q = Len(order) + 1
      BY <1>5, <3>1, <3>3
    <3>4. CASE q # Len(order) + 1
      BY <3>1, <3>2, <3>4
    <3> QED
      BY <3>3, <3>4
  <2>6. Collecting'
    <3>1. k' <= Len(Symbols') + 1
      BY <1>1, <1>2, <1>3, OrderFrame
    <3>2. VisibleUpTo(k - 1)' = VisibleUpTo(k)
      BY <1>1, <1>2, OrderFrame
    <3> QED
      BY <1>1, <2>2, <2>3, <2>5, <3>1, <3>2 DEF Collecting
  <2> QED
    BY <1>1, <1>2, <2>4, <2>6, OrderFrame DEF OrderInv
<1> QED
  BY <1>6, <1>7

LEMMA EndCollectOrder ==
  ASSUME OrderInv, EndCollect
  PROVE  OrderInv'
<1>1. /\ object \in Objects /\ pc = "collect" /\ k \in Nat \ {0}
      /\ order \in Seq(DOMAIN Symbols) /\ Collecting
  BY DEF OrderInv, EndCollect
<1>2. /\ object' = object /\ pc' = "sort" /\ rank' = 2 /\ k' = 2
      /\ k > Len(Symbols) /\ order' = order
  BY DEF EndCollect
<1>3. Len(Symbols) \in Nat /\ DOMAIN Symbols = 1 .. Len(Symbols)
  BY <1>1, SymbolsAreTyped
<1>4. k - 1 = Len(Symbols)
  BY SMTT(30), <1>1, <1>2, <1>3 DEF Collecting
<1>5. Len(order) \in Nat /\ DOMAIN order = 1 .. Len(order)
  BY <1>1
<1>6. \A p, q \in DOMAIN order : p < q => order[p] < order[q]
  BY <1>1 DEF Collecting
<1>7. Sorting'
  BY <1>1, <1>2, <1>4, <1>5, <1>6, OrderFrame DEF Collecting, Sorting
<1> QED
  BY <1>1, <1>2, <1>7, OrderFrame DEF OrderInv, Steps

LEMMA SwapOrder ==
  ASSUME OrderInv, Swap
  PROVE  OrderInv'
<1>1. /\ object \in Objects /\ pc = "sort" /\ k \in Nat /\ k >= 2
      /\ rank \in 1 .. k /\ order \in Seq(DOMAIN Symbols) /\ Sorting
  BY DEF OrderInv, Swap, Sorting
<1>2. /\ object' = object /\ pc' = "sort" /\ k' = k /\ rank' = rank - 1
      /\ k <= Len(order) /\ rank > 1
      /\ RankOf(order[rank - 1]) > RankOf(order[rank])
      /\ order' = [order EXCEPT ![rank] = order[rank - 1],
                                ![rank - 1] = order[rank]]
  BY DEF Swap, OutOfPlace, RankOf
<1>3. Len(Symbols) \in Nat /\ DOMAIN Symbols = 1 .. Len(Symbols)
  BY <1>1, SymbolsAreTyped
<1>4. /\ Len(order) \in Nat /\ DOMAIN order = 1 .. Len(order)
      /\ rank \in DOMAIN order /\ rank - 1 \in DOMAIN order
      /\ \A p \in DOMAIN order : order[p] \in DOMAIN Symbols
  BY <1>1, <1>2
<1>5. /\ DOMAIN order' = DOMAIN order /\ Len(order') = Len(order)
      /\ order'[rank] = order[rank - 1] /\ order'[rank - 1] = order[rank]
      /\ \A p \in DOMAIN order : p # rank /\ p # rank - 1 => order'[p] = order[p]
      /\ order' \in Seq(DOMAIN Symbols)
  BY <1>1, <1>2, <1>4
<1>6. Members(order') = Members(order)
  <2>1. \A p \in DOMAIN order : order'[p] \in Members(order)
    BY <1>4, <1>5 DEF Members
  <2>2. \A p \in DOMAIN order : order[p] \in Members(order')
    BY <1>4, <1>5 DEF Members
  <2> QED
    BY <1>5, <2>1, <2>2 DEF Members
<1> DEFINE was(p) == IF p = rank THEN rank - 1
                     ELSE IF p = rank - 1 THEN rank ELSE p
<1>7. \A p \in DOMAIN order : order'[p] = order[was(p)] /\ was(p) \in DOMAIN order
  BY <1>4, <1>5
<1>8. \A p, q \in DOMAIN order :
        p < q =>
          /\ q > k => order[p] < order[q]
          /\ q <= k /\ p # rank /\ q # rank => Before(order[p], order[q])
          /\ q <= k /\ p = rank => RankOf(order[p]) < RankOf(order[q])
  BY <1>1 DEF Sorting
<1>9. \A p \in DOMAIN order : p <= k /\ p # rank => order[p] < order[rank]
  BY <1>1, <1>2 DEF Sorting
<1>10. \A p, q \in DOMAIN order :
        p < q =>
          /\ q > k => order'[p] < order'[q]
          /\ q <= k /\ p # rank - 1 /\ q # rank - 1 => Before(order'[p], order'[q])
          /\ q <= k /\ p = rank - 1 => RankOf(order'[p]) < RankOf(order'[q])
  <2> SUFFICES ASSUME NEW p \in DOMAIN order, NEW q \in DOMAIN order, p < q
               PROVE  /\ q > k => order'[p] < order'[q]
                      /\ q <= k /\ p # rank - 1 /\ q # rank - 1 =>
                           Before(order'[p], order'[q])
                      /\ q <= k /\ p = rank - 1 =>
                           RankOf(order'[p]) < RankOf(order'[q])
    OBVIOUS
  <2>1. /\ p \in Nat /\ q \in Nat /\ was(p) \in DOMAIN order
        /\ order'[p] = order[was(p)] /\ order'[q] = order[was(q)]
    BY <1>4, <1>7
  <2>2. q > k => order'[p] < order'[q]
    BY <1>1, <1>2, <1>4, <1>8, <2>1
  <2>3. q <= k /\ p # rank - 1 /\ q # rank - 1 => Before(order'[p], order'[q])
    BY <1>1, <1>2, <1>4, <1>8, <2>1
  <2>4. q <= k /\ p = rank - 1 => RankOf(order'[p]) < RankOf(order'[q])
    <3>1. CASE q = rank
      BY <1>2, <1>5, <3>1
    <3>2. CASE q # rank
      BY <1>1, <1>2, <1>4, <1>8, <2>1, <3>2
    <3> QED
      BY <3>1, <3>2
  <2> QED
    BY <2>2, <2>3, <2>4
<1>11. \A p \in DOMAIN order : p <= k /\ p # rank - 1 => order'[p] < order'[rank - 1]
  BY <1>1, <1>2, <1>4, <1>5, <1>9
<1>12. Sorting'
  <2>1. rank' \in 1 .. k'
    BY <1>1, <1>2
  <2>2. k' <= Len(order')
    BY <1>2, <1>5
  <2>3. Members(order') = VisibleUpTo(Len(Symbols))'
    BY <1>1, <1>2, <1>6, OrderFrame DEF Sorting
  <2>4. \A p, q \in DOMAIN order' :
          p < q =>
            /\ q > k' => order'[p] < order'[q]
            /\ q <= k' /\ p # rank' /\ q # rank' => Before(order[p], order[q])'
            /\ q <= k' /\ p = rank' => (RankOf(order[p]) < RankOf(order[q]))'
    <3>1. \A i, j : Before(i, j)' <=> Before(i, j)
      BY <1>2, OrderFrame
    <3>2. \A i : RankOf(i)' = RankOf(i)
      BY <1>2, OrderFrame
    <3> QED
      BY <1>2, <1>5, <1>10, <3>1, <3>2
  <2>5. \A p \in DOMAIN order' : p <= k' /\ p # rank' => order'[p] < order'[rank']
    BY <1>2, <1>5, <1>11
  <2>6. k' >= 2 /\ ~(k' > Len(order'))
    BY <1>1, <1>2, <1>4, <1>5
  <2> QED
    BY <2>1, <2>3, <2>4, <2>5, <2>6 DEF Sorting
<1> QED
  BY <1>1, <1>2, <1>5, <1>12, OrderFrame DEF OrderInv, Steps

LEMMA InPlaceOrder ==
  ASSUME OrderInv, InPlace
  PROVE  OrderInv'
<1>1. /\ object \in Objects /\ pc = "sort" /\ k \in Nat /\ k >= 2
      /\ rank \in 1 .. k /\ order \in Seq(DOMAIN Symbols) /\ Sorting
  BY DEF OrderInv, InPlace, Sorting
<1>2. /\ object' = object /\ pc' = "sort" /\ k' = k + 1 /\ rank' = k + 1
      /\ k <= Len(order) /\ order' = order
      /\ rank > 1 => RankOf(order[rank - 1]) <= RankOf(order[rank])
  BY RankIsNat DEF InPlace, OutOfPlace, RankOf
<1>3. Len(Symbols) \in Nat /\ DOMAIN Symbols = 1 .. Len(Symbols)
  BY <1>1, SymbolsAreTyped
<1>4. /\ Len(order) \in Nat /\ DOMAIN order = 1 .. Len(order)
      /\ rank \in DOMAIN order
      /\ \A p \in DOMAIN order : order[p] \in DOMAIN Symbols
  BY <1>1, <1>2
<1>5. \A p, q \in DOMAIN order :
        p < q =>
          /\ q > k => order[p] < order[q]
          /\ q <= k /\ p # rank /\ q # rank => Before(order[p], order[q])
          /\ q <= k /\ p = rank => RankOf(order[p]) < RankOf(order[q])
  BY <1>1 DEF Sorting
<1>6. \A p \in DOMAIN order : p <= k /\ p # rank => order[p] < order[rank]
  BY <1>1, <1>2 DEF Sorting
<1>7. \A p, q \in DOMAIN order : p < q /\ q <= k => Before(order[p], order[q])
  <2> SUFFICES ASSUME NEW p \in DOMAIN order, NEW q \in DOMAIN order,
                      p < q, q <= k
               PROVE  Before(order[p], order[q])
    OBVIOUS
  <2>1. CASE p = rank
    BY <1>5, <2>1 DEF Before
  <2>2. CASE q = rank
    <3>1. order[p] < order[q] /\ rank > 1 /\ rank - 1 \in DOMAIN order
      BY <1>1, <1>4, <1>6, <2>2
    <3>2. p # rank - 1 => Before(order[p], order[rank - 1])
      BY <1>1, <1>4, <1>5, <2>2, <3>1
    <3>3. RankOf(order[p]) <= RankOf(order[rank - 1])
      BY <3>2, RankIsNat DEF Before
    <3>4. RankOf(order[p]) <= RankOf(order[q])
      BY <1>2, <2>2, <3>1, <3>3, RankIsNat
    <3> QED
      BY <3>1, <3>4, RankIsNat DEF Before
  <2>3. CASE p # rank /\ q # rank
    BY <1>5, <2>3
  <2> QED
    BY <2>1, <2>2, <2>3
<1>8. Sorting'
  <2>1. Members(order') = VisibleUpTo(Len(Symbols))'
    BY <1>1, <1>2, OrderFrame DEF Sorting
  <2>2. \A p, q \in DOMAIN order :
         p < q =>
           /\ q > k + 1 => order[p] < order[q]
           /\ q <= k + 1 /\ p # k + 1 /\ q # k + 1 => Before(order[p], order[q])
           /\ q <= k + 1 /\ p = k + 1 => RankOf(order[p]) < RankOf(order[q])
    BY <1>1, <1>4, <1>5, <1>7
  <2>3. \A p \in DOMAIN order :
          p <= k + 1 /\ p # k + 1 /\ k + 1 <= Len(order) => order[p] < order[k + 1]
    BY <1>1, <1>4, <1>5
  <2>4. rank' \in 1 .. k' /\ k' >= 2 /\ (k' > Len(order') => rank' = k')
    BY <1>1, <1>2
  <2> QED
    BY <1>1, <1>2, <2>1, <2>2, <2>3, <2>4, OrderFrame DEF Sorting
<1> QED
  BY <1>1, <1>2, <1>8, OrderFrame DEF OrderInv, Steps

LEMMA LaterOrder ==
  ASSUME OrderInv, Later
  PROVE  OrderInv'
<1>1. /\ object' = object /\ order' = order
      /\ rank' = rank /\ pc' \in Steps \ {"collect", "sort"}
  BY DEF Later, EndSort, AddSymbol, PutIdent, PutSection, EndSections,
         SkipSection, PutRelas, RejectHidden, PutSymtab, PutStrtab,
         PutShstrtab, PutHeaders, WriteFile, WriteFails, OutOfMemory, Fail,
         Goto, Steps
<1>2. k' \in Nat \ {0}
  BY DEF OrderInv, Later, EndSort, AddSymbol, PutIdent, PutSection, EndSections,
         SkipSection, PutRelas, RejectHidden, PutSymtab, PutStrtab,
         PutShstrtab, PutHeaders, WriteFile, WriteFails, OutOfMemory, Fail, Goto
<1>3. pc' = "failed" \/ Sorted
  <2>1. CASE EndSort
    <3>1. pc = "sort" /\ k > Len(order) /\ Sorting /\ k \in Nat
          /\ order \in Seq(DOMAIN Symbols)
      BY <2>1 DEF EndSort, OrderInv
    <3>2. Len(order) \in Nat /\ DOMAIN order = 1 .. Len(order)
      BY <3>1
    <3> QED
      BY <3>1, <3>2 DEF Sorting, Sorted
  <2>2. CASE pc \notin {"collect", "sort", "failed"}
    BY <2>2 DEF OrderInv
  <2>3. CASE pc \in {"collect", "sort", "failed"} /\ ~EndSort
    BY <2>3 DEF Later, EndSort, AddSymbol, PutIdent, PutSection, EndSections,
         SkipSection, PutRelas, RejectHidden, PutSymtab, PutStrtab,
         PutShstrtab, PutHeaders, WriteFile, WriteFails, OutOfMemory, Fail
  <2> QED
    BY <2>1, <2>2, <2>3
<1>4. Sorted' <=> Sorted
  BY <1>1, OrderFrame DEF Sorted
<1> QED
  BY <1>1, <1>2, <1>3, <1>4, OrderFrame DEF OrderInv

LEMMA OrderSteps == OrderInv /\ [Next]_vars => OrderInv'
<1> SUFFICES ASSUME OrderInv, [Next]_vars
             PROVE  OrderInv'
  OBVIOUS
<1>1. CASE UNCHANGED vars
  <2>1. /\ object' = object /\ order' = order /\ rank' = rank /\ pc' = pc
        /\ k' = k
    BY <1>1 DEF vars
  <2>2. /\ Collecting' <=> Collecting
        /\ Sorting' <=> Sorting
        /\ Sorted' <=> Sorted
    BY <2>1, OrderFrame DEF Collecting, Sorting, Sorted
  <2> QED
    BY <2>1, <2>2, OrderFrame DEF OrderInv
<1>2. CASE Next
  <2>1. CASE Terminated
    BY <1>1, <2>1 DEF Terminated
  <2>2. CASE Collect \/ EndCollect \/ Swap \/ InPlace
    BY <2>2, CollectOrder, EndCollectOrder, SwapOrder, InPlaceOrder
  <2>3. CASE Later
    BY <2>3, LaterOrder
  <2> QED
    BY <1>2, <2>1, <2>2, <2>3 DEF Next, Progress, Later
<1> QED
  BY <1>1, <1>2

-----------------------------------------------------------------------------
(* Header indices.                                                         *)

(* The relocation sections of the sections before number n.                *)
RelasBefore(n) == Cardinality({j \in WithRelocations : j < n})

LEMMA IndexFacts ==
  ASSUME object \in Objects
  PROVE  /\ Cardinality(WithRelocations) \in Nat
         /\ Total = Len(Sections) + Cardinality(WithRelocations) + 4
         /\ Total \in Nat
         /\ RelasBefore(1) = 0
         /\ RelasBefore(Len(Sections) + 1) = Cardinality(WithRelocations)
         /\ \A n \in Nat : RelasBefore(n) \in 0 .. Cardinality(WithRelocations)
         /\ \A n \in DOMAIN Sections :
              Sections[n].relocations = << >> => RelasBefore(n + 1) = RelasBefore(n)
         /\ \A n \in WithRelocations :
              /\ RelaIndex(n) = Len(Sections) + RelasBefore(n) + 1
              /\ RelasBefore(n + 1) = RelasBefore(n) + 1
         /\ \A m, n \in Nat : m <= n => RelasBefore(m) <= RelasBefore(n)
<1> DEFINE W    == WithRelocations
           B(n) == {j \in W : j < n}
<1>1. Len(Sections) \in Nat /\ DOMAIN Sections = 1 .. Len(Sections)
  BY SymbolsAreTyped
<1>2. W \subseteq 1 .. Len(Sections)
  BY <1>1 DEF WithRelocations
<1>3. IsFiniteSet(W) /\ Cardinality(W) \in Nat
  <2>1. IsFiniteSet(1 .. Len(Sections))
    BY <1>1, FS_Interval
  <2>2. IsFiniteSet(W)
    BY <1>2, <2>1, FS_Subset
  <2> QED
    BY <2>2, FS_CardinalityType
<1>4. \A n : /\ IsFiniteSet(B(n)) /\ Cardinality(B(n)) \in Nat
             /\ Cardinality(B(n)) <= Cardinality(W)
  <2> TAKE n
  <2>1. B(n) \subseteq W
    OBVIOUS
  <2> HIDE DEF B, W
  <2> QED
    BY <1>3, <2>1, FS_Subset, FS_CardinalityType
<1>9. \A n \in DOMAIN Sections : Sections[n].relocations = << >> => n \notin W
  BY DEF WithRelocations
<1>19. \A j \in W : j \in Nat /\ 1 <= j /\ j <= Len(Sections)
  BY <1>1, <1>2
<1>10. /\ \A n : RelasBefore(n) = Cardinality(B(n))
       /\ \A n : RelaIndex(n) = Len(Sections) + Cardinality({j \in W : j <= n})
  BY DEF RelasBefore, RelaIndex
<1>11. Total = 1 + Len(Sections) + Cardinality(W) + 3
  BY DEF Total
<1> HIDE DEF W
<1>5. B(1) = {} /\ B(Len(Sections) + 1) = W
  BY <1>1, <1>19
<1>6. \A n \in DOMAIN Sections : n \notin W => B(n + 1) = B(n)
  <2> TAKE n \in DOMAIN Sections
  <2>1. n \in Nat
    BY <1>1
  <2>2. \A j \in W : n \notin W => (j < n + 1 <=> j < n)
    BY <1>19, <2>1
  <2> QED
    BY <2>2
<1>7. \A n \in W :
        /\ B(n + 1) = B(n) \cup {n} /\ n \notin B(n)
        /\ {j \in W : j <= n} = B(n + 1)
  <2> TAKE n \in W
  <2>1. \A j \in W : /\ j < n + 1 <=> j < n \/ j = n
                     /\ j <= n <=> j < n + 1
                     /\ ~(n < n)
    BY <1>19
  <2> QED
    BY <2>1
<1>8. \A m, n \in Nat : m <= n => B(m) \subseteq B(n)
  BY <1>19
<1> HIDE DEF B
<1>12. \A n \in W : Cardinality(B(n + 1)) = Cardinality(B(n)) + 1
  BY <1>4, <1>7, FS_AddElement
<1>13. \A m, n \in Nat : m <= n => Cardinality(B(m)) <= Cardinality(B(n))
  BY <1>4, <1>8, FS_Subset
<1>14. RelasBefore(1) = 0
  BY <1>5, <1>10, FS_EmptySet
<1>15. \A n \in W : RelaIndex(n) = Len(Sections) + RelasBefore(n) + 1
  <2> TAKE n \in W
  <2>1. RelaIndex(n) = Len(Sections) + Cardinality(B(n + 1))
    BY <1>7, <1>10
  <2>2. Cardinality(B(n + 1)) = Cardinality(B(n)) + 1
    BY <1>12
  <2> QED
    BY <1>1, <1>4, <1>10, <2>1, <2>2
<1>16. Total \in Nat /\ Total = Len(Sections) + Cardinality(W) + 4
  BY <1>1, <1>3, <1>11
<1>17. \A n \in Nat : RelasBefore(n) \in 0 .. Cardinality(W)
  BY <1>3, <1>4, <1>10
<1>18. \A n \in DOMAIN Sections :
         Sections[n].relocations = << >> => RelasBefore(n + 1) = RelasBefore(n)
  BY <1>6, <1>9, <1>10
<1> QED
  BY <1>3, <1>5, <1>10, <1>12, <1>13, <1>14, <1>15, <1>16, <1>17, <1>18 DEF W

LEMMA IndexFrame ==
  ASSUME UNCHANGED object
  PROVE  /\ Sections' = Sections /\ Symbols' = Symbols
         /\ WithRelocations' = WithRelocations /\ Total' = Total
         /\ SymtabIndex' = SymtabIndex /\ StrtabIndex' = StrtabIndex
         /\ ShstrtabIndex' = ShstrtabIndex
         /\ \A n : RelasBefore(n)' = RelasBefore(n)
         /\ \A n : RelaIndex(n)' = RelaIndex(n)
<1>1. Sections' = Sections /\ Symbols' = Symbols
  BY DEF Sections, Symbols
<1>2. WithRelocations' = WithRelocations
  BY <1>1 DEF WithRelocations
<1> QED
  BY <1>1, <1>2 DEF Total, SymtabIndex, StrtabIndex, ShstrtabIndex, RelasBefore,
                    RelaIndex

-----------------------------------------------------------------------------
(* What the steps that append do to the buffers and the headers.           *)

HeaderRecord(type, name, offset, size, link, info, align) ==
  [is |-> "header", type |-> type, name |-> name, offset |-> offset,
   size |-> size, link |-> link, info |-> info, align |-> align]

Buffers ==
  /\ IsBuffer(buffer)
  /\ IsBuffer(strtab)
  /\ IsBuffer(shstrtab)
  /\ symtab \in Seq(Members(symtab))

LEMMA NameSizes ==
  ASSUME object \in Objects
  PROVE  /\ \A i \in DOMAIN Symbols :
              NameSize(Symbols[i].name) \in Nat \ {0}
         /\ \A i \in DOMAIN Sections :
              /\ NameSize(Sections[i].name) \in Nat \ {0}
              /\ Sections[i].size \in Nat /\ AlignOf(Sections[i]) \in Nat \ {0}
              /\ Sections[i].align \in Nat
              /\ Sections[i].relocations \in Seq(RelocationOf(object))
              /\ RelaNameSizes(Sections[i]) \subseteq Nat \ {0}
         /\ NameSize(".symtab") \in Nat \ {0}
         /\ NameSize(".strtab") \in Nat \ {0}
         /\ NameSize(".shstrtab") \in Nat \ {0}
<1>1. /\ \A i \in DOMAIN Symbols : NameSize(Symbols[i].name) \in Nat \ {0}
      /\ \A i \in DOMAIN Sections : NameSize(Sections[i].name) \in Nat \ {0}
  BY NameSizeAssumption DEF Symbols, Sections
<1>2. /\ NameSize(".symtab") \in Nat \ {0} /\ NameSize(".strtab") \in Nat \ {0}
      /\ NameSize(".shstrtab") \in Nat \ {0} /\ NameSize(".text") \in Nat \ {0}
      /\ StaleSizes \subseteq Nat \ {0}
  BY NameSizeAssumption DEF FixedNames
<1>3. \A i \in DOMAIN Sections : Sections[i] \in SectionOf(object)
  BY SymbolsAreTyped
<1>4. \A i \in DOMAIN Sections :
        /\ Sections[i].size \in Nat /\ Sections[i].align \in Nat
        /\ Sections[i].relocations \in Seq(RelocationOf(object))
  BY <1>3 DEF SectionOf
<1>5. \A i \in DOMAIN Sections : AlignOf(Sections[i]) \in Nat \ {0}
  BY <1>4 DEF AlignOf
<1>6. \A i \in DOMAIN Sections : RelaNameSizes(Sections[i]) \subseteq Nat \ {0}
  <2> TAKE i \in DOMAIN Sections
  <2>1. NameSize(RelaSuffix(Sections[i])) \in Nat \ {0}
    BY <1>1, <1>2 DEF RelaSuffix
  <2>2. RelaNameSize(Sections[i]) \in Nat \ {0}
    BY <2>1 DEF RelaNameSize
  <2> QED
    BY <1>2, <2>2 DEF RelaNameSizes
<1> QED
  BY <1>1, <1>2, <1>4, <1>5, <1>6

LEMMA AddSymbolEffect ==
  ASSUME OrderInv, Buffers, AddSymbol
  PROVE  LET s == Symbols[order[k]]
         IN  /\ order[k] \in DOMAIN Symbols
             /\ NameSize(s.name) \in Nat \ {0}
             /\ Grown(strtab, strtab', strtab.length, NameSize(s.name),
                      {[at |-> strtab.length, size |-> NameSize(s.name),
                        holds |-> String("", s.name)]})
<1> DEFINE s == Symbols[order[k]]
<1>1. order[k] \in DOMAIN Symbols
  <2>1. k \in Nat \ {0} /\ k <= Len(order) /\ order \in Seq(DOMAIN Symbols)
    BY DEF OrderInv, AddSymbol
  <2> QED
    BY <2>1
<1>2. NameSize(s.name) \in Nat \ {0}
  BY <1>1, NameSizes DEF OrderInv
<1>3. /\ HasRoom(strtab, NameSize(s.name))
      /\ strtab' = Put(strtab, String("", s.name), NameSize(s.name))
  BY DEF AddSymbol, PutName
<1>4. IsBuffer(strtab)
  BY DEF Buffers
<1> HIDE DEF s
<1> QED
  BY <1>1, <1>2, <1>3, <1>4, PutGrows DEF s

LEMMA PutIdentEffect ==
  ASSUME OrderInv, Buffers, PutIdent
  PROVE  Grown(buffer, buffer', buffer.length, 64,
               {[at |-> buffer.length, size |-> 64, holds |-> Ident]})
<1>1. /\ HasRoom(buffer, 64) /\ buffer' = Put(buffer, Ident, 64)
      /\ IsBuffer(buffer) /\ 64 \in Nat
  BY DEF PutIdent, ElfHeaderSize, Buffers
<1> QED
  BY <1>1, PutGrows

LEMMA PutSectionEffect ==
  ASSUME OrderInv, Buffers, PutSection
  PROVE  LET section == Sections[k]
             at      == Pad(buffer, AlignOf(section)).length
         IN  /\ k \in DOMAIN Sections
             /\ at % AlignOf(section) = 0
             /\ Grown(buffer, buffer', at, section.size,
                      {[at |-> at, size |-> section.size,
                        holds |-> [is |-> "data", index |-> k]]})
             /\ Grown(shstrtab, shstrtab', shstrtab.length,
                      NameSize(section.name),
                      {[at |-> shstrtab.length, size |-> NameSize(section.name),
                        holds |-> String("", section.name)]})
             /\ headers' = [headers EXCEPT ![k] =
                  HeaderRecord("PROGBITS", uint32(shstrtab.length), at,
                               section.size, 0, 0, section.align)]
<1> DEFINE section == Sections[k]
           a       == AlignOf(section)
           padded  == Pad(buffer, a)
           data    == [is |-> "data", index |-> k]
<1>1. k \in DOMAIN Sections
  BY SymbolsAreTyped DEF OrderInv, PutSection
<1>2. /\ NameSize(section.name) \in Nat \ {0} /\ section.size \in Nat
      /\ a \in Nat \ {0}
  BY <1>1, NameSizes DEF OrderInv
<1>3. /\ HasRoom(shstrtab, NameSize(section.name))
      /\ HasRoom(buffer, Gap(buffer, a) + section.size)
      /\ headers' = [headers EXCEPT ![k] =
           HeaderRecord("PROGBITS", uint32(shstrtab.length), padded.length, section.size,
                        0, 0, section.align)]
      /\ shstrtab' = Put(shstrtab, String("", section.name),
                         NameSize(section.name))
      /\ buffer' = Put(padded, data, section.size)
  BY DEF PutSection, PutName, HeaderRecord
<1>4. IsBuffer(buffer) /\ IsBuffer(shstrtab)
  BY DEF Buffers
<1> HIDE DEF section, a, data
<1>5. IsBuffer(padded) /\ HasRoom(padded, section.size) /\ padded.length % a = 0
  BY <1>2, <1>3, <1>4, PadIsBuffer
<1>6. Grown(buffer, buffer', padded.length, section.size,
            {[at |-> padded.length, size |-> section.size, holds |-> data]})
  <2>1. Grown(padded, buffer', padded.length, section.size,
              {[at |-> padded.length, size |-> section.size, holds |-> data]})
    <3> HIDE DEF padded
    <3> QED
      BY <1>2, <1>3, <1>5, PutGrows
  <2> QED
    BY <1>2, <1>3, <1>4, <2>1, GrownAfterPad
<1>7. Grown(shstrtab, shstrtab', shstrtab.length, NameSize(section.name),
            {[at |-> shstrtab.length, size |-> NameSize(section.name),
              holds |-> String("", section.name)]})
  BY <1>2, <1>3, <1>4, PutGrows
<1> QED
  BY <1>1, <1>3, <1>5, <1>6, <1>7 DEF section, a, data

LEMMA PutRelasEffect ==
  ASSUME OrderInv, Buffers, PutRelas
  PROVE  LET section == Sections[k]
             at      == Skip(buffer).length
             size    == 24 * Len(section.relocations)
         IN  /\ k \in WithRelocations
             /\ at % 8 = 0
             /\ Len(Relas(section)) = Len(section.relocations)
             /\ Relas(section) \in Seq(Members(Relas(section)))
             /\ Grown(buffer, buffer', at, size, Records(at, Relas(section), 24))
             /\ \E n \in Nat \ {0} :
                  Grown(shstrtab, shstrtab', shstrtab.length, n,
                        {[at |-> shstrtab.length, size |-> n,
                          holds |-> RelaName(section, n)]})
             /\ headers' = [headers EXCEPT ![RelaIndex(k)] =
                  HeaderRecord("RELA", uint32(shstrtab.length), at, size,
                               uint32(Total - 2), uint32(k), 8)]
<1> DEFINE section == Sections[k]
           relas   == Relas(section)
           skipped == Skip(buffer)
           l       == Len(section.relocations)
<1>1. k \in DOMAIN Sections /\ k \in WithRelocations
  BY SymbolsAreTyped DEF OrderInv, PutRelas, WithRelocations
<1>2. /\ section.relocations \in Seq(RelocationOf(object))
      /\ RelaNameSizes(section) \subseteq Nat \ {0}
  BY <1>1, NameSizes DEF OrderInv
<1>3. /\ \E n \in RelaNameSizes(section) :
           /\ HasRoom(shstrtab, n)
           /\ shstrtab' = Put(shstrtab, RelaName(section, n), n)
      /\ HasRoom(skipped, 24 * l)
      /\ headers' = [headers EXCEPT ![RelaIndex(k)] =
           HeaderRecord("RELA", uint32(shstrtab.length), skipped.length, 24 * l,
                        uint32(Total - 2), uint32(k), 8)]
      /\ buffer' = PutAll(skipped, relas, 24)
  BY DEF PutRelas, HeaderRecord, RecordSize
<1>4. IsBuffer(buffer) /\ IsBuffer(shstrtab)
  BY DEF Buffers
<1>5. IsBuffer(skipped) /\ skipped.length % 8 = 0
  BY <1>4, SkipIsBuffer
<1>6. relas \in Seq(Members(relas)) /\ Len(relas) = l
  <2>1. /\ Len(section.relocations) \in Nat
        /\ DOMAIN section.relocations = 1 .. Len(section.relocations)
    BY <1>2
  <2>2. relas = [r \in 1 .. l |-> Rela(section.relocations[r])]
    BY <2>1 DEF Relas
  <2>3. relas \in [1 .. l -> Members(relas)]
    BY <2>2 DEF Members
  <2> HIDE DEF relas
  <2> QED
    BY <2>1, <2>2, <2>3
<1> HIDE DEF section, relas, l
<1>7. Grown(buffer, buffer', skipped.length, 24 * l,
            Records(skipped.length, relas, 24))
  <2>1. Grown(skipped, buffer', skipped.length, 24 * Len(relas),
              Records(skipped.length, relas, 24))
    <3> HIDE DEF skipped
    <3>1. 24 \in Nat \ {0}
      OBVIOUS
    <3> QED
      BY <1>3, <1>5, <1>6, <3>1, PutAllGrows
  <2> QED
    BY <1>4, <1>6, <2>1, GrownAfterSkip
<1>8. \E n \in Nat \ {0} :
        Grown(shstrtab, shstrtab', shstrtab.length, n,
              {[at |-> shstrtab.length, size |-> n,
                holds |-> RelaName(section, n)]})
  <2>1. PICK n \in RelaNameSizes(section) :
          /\ HasRoom(shstrtab, n)
          /\ shstrtab' = Put(shstrtab, RelaName(section, n), n)
    BY <1>3
  <2>2. n \in Nat \ {0}
    BY <1>2, <2>1
  <2>3. Grown(shstrtab, shstrtab', shstrtab.length, n,
              {[at |-> shstrtab.length, size |-> n,
                holds |-> RelaName(section, n)]})
    BY <1>4, <2>1, <2>2, PutGrows
  <2> QED
    BY <2>2, <2>3
<1> QED
  BY <1>1, <1>3, <1>5, <1>6, <1>7, <1>8 DEF section, relas, l

LEMMA PutSymtabEffect ==
  ASSUME OrderInv, Buffers, PutSymtab
  PROVE  LET at      == Pad(buffer, 8).length
             size    == 24 * (Len(symtab) + 1)
             entries == <<NullSymbol>> \o symtab
         IN  /\ at % 8 = 0
             /\ Len(entries) = Len(symtab) + 1
             /\ entries \in Seq(Members(entries))
             /\ Grown(buffer, buffer', at, size, Records(at, entries, 24))
             /\ Grown(shstrtab, shstrtab', shstrtab.length, NameSize(".symtab"),
                      {[at |-> shstrtab.length, size |-> NameSize(".symtab"),
                        holds |-> String("", ".symtab")]})
             /\ headers' = [headers EXCEPT ![SymtabIndex] =
                  HeaderRecord("SYMTAB", uint32(shstrtab.length), at, size,
                               uint32(Total - 2), uint32(locals), 8)]
<1> DEFINE padded  == Pad(buffer, 8)
           l       == Len(symtab)
           entries == <<NullSymbol>> \o symtab
<1>1. NameSize(".symtab") \in Nat \ {0}
  BY NameSizes DEF OrderInv
<1>2. /\ HasRoom(shstrtab, NameSize(".symtab"))
      /\ HasRoom(buffer, Gap(buffer, 8) + 24 * (l + 1))
      /\ headers' = [headers EXCEPT ![SymtabIndex] =
           HeaderRecord("SYMTAB", uint32(shstrtab.length), padded.length, 24 * (l + 1),
                        uint32(Total - 2), uint32(locals), 8)]
      /\ shstrtab' = Put(shstrtab, String("", ".symtab"), NameSize(".symtab"))
      /\ buffer' = PutAll(padded, entries, 24)
  BY DEF PutSymtab, PutName, HeaderRecord, RecordSize
<1>3. IsBuffer(buffer) /\ IsBuffer(shstrtab) /\ symtab \in Seq(Members(symtab))
  BY DEF Buffers
<1>4. l \in Nat /\ 24 * (l + 1) \in Nat /\ 8 \in Nat \ {0}
  BY <1>3
<1>5. Len(entries) = l + 1 /\ entries \in Seq(Members(entries))
  <2>1. <<NullSymbol>> \in Seq({NullSymbol})
    OBVIOUS
  <2>2. /\ <<NullSymbol>> \in Seq(Members(symtab) \cup {NullSymbol})
        /\ symtab \in Seq(Members(symtab) \cup {NullSymbol})
        /\ Len(<<NullSymbol>>) = 1
    BY <1>3, <2>1, SeqMonotonic
  <2>3. /\ entries \in Seq(Members(symtab) \cup {NullSymbol})
        /\ Len(entries) = 1 + l
    BY <2>2, ConcatProperties
  <2> HIDE DEF entries
  <2> QED
    BY <1>4, <2>3, SeqOfMembers
<1> HIDE DEF l, entries
<1>6. IsBuffer(padded) /\ HasRoom(padded, 24 * (l + 1)) /\ padded.length % 8 = 0
  BY <1>2, <1>3, <1>4, PadIsBuffer
<1>7. Grown(buffer, buffer', padded.length, 24 * (l + 1),
            Records(padded.length, entries, 24))
  <2>1. Grown(padded, buffer', padded.length, 24 * Len(entries),
              Records(padded.length, entries, 24))
    <3> HIDE DEF padded
    <3>1. 24 \in Nat \ {0}
      OBVIOUS
    <3> QED
      BY <1>2, <1>5, <1>6, <3>1, PutAllGrows
  <2> QED
    BY <1>2, <1>3, <1>4, <1>5, <2>1, GrownAfterPad
<1>8. Grown(shstrtab, shstrtab', shstrtab.length, NameSize(".symtab"),
            {[at |-> shstrtab.length, size |-> NameSize(".symtab"),
              holds |-> String("", ".symtab")]})
  BY <1>1, <1>2, <1>3, PutGrows
<1> QED
  BY <1>2, <1>5, <1>6, <1>7, <1>8 DEF l, entries

LEMMA PutStrtabEffect ==
  ASSUME OrderInv, Buffers, PutStrtab
  PROVE  /\ Grown(buffer, buffer', buffer.length, strtab.length,
                  {Moved(p, buffer.length) : p \in Pieces(strtab)})
         /\ Grown(shstrtab, shstrtab', shstrtab.length, NameSize(".strtab"),
                  {[at |-> shstrtab.length, size |-> NameSize(".strtab"),
                    holds |-> String("", ".strtab")]})
         /\ headers' = [headers EXCEPT ![StrtabIndex] =
              HeaderRecord("STRTAB", uint32(shstrtab.length), buffer.length,
                           strtab.length, 0, 0, 1)]
<1>1. NameSize(".strtab") \in Nat \ {0}
  BY NameSizes DEF OrderInv
<1>2. /\ HasRoom(shstrtab, NameSize(".strtab")) /\ HasRoom(buffer, strtab.length)
      /\ headers' = [headers EXCEPT ![StrtabIndex] =
           HeaderRecord("STRTAB", uint32(shstrtab.length), buffer.length, strtab.length,
                        0, 0, 1)]
      /\ shstrtab' = Put(shstrtab, String("", ".strtab"), NameSize(".strtab"))
      /\ buffer' = PutCopy(buffer, strtab)
  BY DEF PutStrtab, PutName, HeaderRecord, StringHeader
<1>3. IsBuffer(buffer) /\ IsBuffer(strtab) /\ IsBuffer(shstrtab)
  BY DEF Buffers
<1> QED
  BY <1>1, <1>2, <1>3, PutGrows, PutCopyGrows

LEMMA PutShstrtabEffect ==
  ASSUME OrderInv, Buffers, PutShstrtab
  PROVE  /\ Grown(buffer, buffer', buffer.length, shstrtab'.length,
                  {Moved(p, buffer.length) : p \in Pieces(shstrtab')})
         /\ Grown(shstrtab, shstrtab', shstrtab.length, NameSize(".shstrtab"),
                  {[at |-> shstrtab.length, size |-> NameSize(".shstrtab"),
                    holds |-> String("", ".shstrtab")]})
         /\ headers' = [headers EXCEPT ![ShstrtabIndex] =
              HeaderRecord("STRTAB", uint32(shstrtab.length), buffer.length,
                           shstrtab'.length, 0, 0, 1)]
<1>1. NameSize(".shstrtab") \in Nat \ {0}
  BY NameSizes DEF OrderInv
<1>2. /\ HasRoom(shstrtab, NameSize(".shstrtab"))
      /\ shstrtab' = NamesWithOwn
      /\ HasRoom(buffer, shstrtab'.length)
      /\ headers' = [headers EXCEPT ![ShstrtabIndex] =
           HeaderRecord("STRTAB", uint32(shstrtab.length), buffer.length,
                        shstrtab'.length, 0, 0, 1)]
      /\ buffer' = PutCopy(buffer, shstrtab')
  <2>1. shstrtab' = NamesWithOwn
    BY DEF PutShstrtab
  <2> QED
    BY <2>1 DEF PutShstrtab, HeaderRecord, StringHeader
<1>3. shstrtab' = Put(shstrtab, String("", ".shstrtab"), NameSize(".shstrtab"))
  BY <1>2 DEF NamesWithOwn, PutName
<1>4. IsBuffer(buffer) /\ IsBuffer(shstrtab)
  BY DEF Buffers
<1>5. Grown(shstrtab, shstrtab', shstrtab.length, NameSize(".shstrtab"),
            {[at |-> shstrtab.length, size |-> NameSize(".shstrtab"),
              holds |-> String("", ".shstrtab")]})
  BY <1>1, <1>2, <1>3, <1>4, PutGrows
<1>6. IsBuffer(shstrtab')
  BY <1>5 DEF Grown
<1> QED
  BY <1>2, <1>4, <1>5, <1>6, PutCopyGrows

HeaderTable == [i \in 1 .. Total |-> headers[i - 1]]

LEMMA PutHeadersEffect ==
  ASSUME OrderInv, Buffers, PutHeaders
  PROVE  LET at == Pad(buffer, 8).length
         IN  /\ shoff' = at
             /\ Len(HeaderTable) = Total
             /\ Grown(buffer, buffer', at, 64 * Total,
                      Records(at, HeaderTable, 64))
<1> DEFINE padded == Pad(buffer, 8)
<1>1. /\ HasRoom(buffer, Gap(buffer, 8) + 64 * Total)
      /\ shoff' = padded.length
      /\ buffer' = PutAll(padded, HeaderTable, 64)
  BY DEF PutHeaders, HeaderTable, SectionHeaderSize
<1>2. IsBuffer(buffer) /\ 8 \in Nat \ {0}
  BY DEF Buffers
<1>3. Total \in Nat /\ 64 * Total \in Nat
  <2>1. Total \in Nat
    BY IndexFacts DEF OrderInv
  <2> QED
    BY <2>1
<1>4. Len(HeaderTable) = Total /\ HeaderTable \in Seq(Members(HeaderTable))
  <2>1. HeaderTable \in [1 .. Total -> Members(HeaderTable)]
    BY DEF HeaderTable, Members
  <2> QED
    BY <1>3, <2>1
<1>5. IsBuffer(padded) /\ HasRoom(padded, 64 * Total)
  BY <1>1, <1>2, <1>3, PadIsBuffer
<1>6. Grown(padded, buffer', padded.length, 64 * Len(HeaderTable),
            Records(padded.length, HeaderTable, 64))
  <2> HIDE DEF padded
  <2>1. 64 \in Nat \ {0}
    OBVIOUS
  <2> QED
    BY <1>1, <1>4, <1>5, <2>1, PutAllGrows
<1> QED
  BY <1>1, <1>2, <1>3, <1>4, <1>6, GrownAfterPad

-----------------------------------------------------------------------------
(* The buffers hold: no piece of a table is empty, and a table has no gap. *)

Sized(b) == \A p \in Pieces(b) : p.size > 0

(* Only a section may be empty.                                            *)
SizedOrData(b) == \A p \in Pieces(b) : p.size > 0 \/ p.holds.is = "data"

Outputs == {"untouched", "partial", "written"}

TableInv ==
  /\ Buffers
  /\ SizedOrData(buffer)
  /\ Sized(strtab) /\ CoveredIn(strtab, 0, strtab.length)
  /\ Sized(shstrtab) /\ CoveredIn(shstrtab, 0, shstrtab.length)
  /\ DOMAIN headers = 0 .. Total - 1
  /\ shoff \in Nat
  /\ output \in Outputs

Appending ==
  \/ AddSymbol \/ PutIdent \/ PutSection \/ PutRelas \/ PutSymtab \/ PutStrtab
  \/ PutShstrtab \/ PutHeaders

LEMMA QuietStep ==
  ASSUME [Next]_vars, ~Appending
  PROVE  /\ UNCHANGED <<object, buffer, strtab, shstrtab, symtab, map, locals,
                        headers, shoff>>
         /\ output' = output \/ output' \in Outputs
BY DEF Next, Progress, vars, Appending, Collect, EndCollect, Swap, InPlace,
       EndSort, EndSections, SkipSection, RejectHidden, WriteFile, WriteFails,
       OutOfMemory, Terminated, Fail, Goto, Outputs

LEMMA InitTables == Init => TableInv
<1> SUFFICES ASSUME Init
             PROVE  TableInv
  OBVIOUS
<1> USE DEF SizedOrData
<1>1. PICK c \in Capacities : c >= 1 /\ c \in Nat
  BY CapacityAssumption
<1>2. EmptyBuffer.length = 0 /\ EmptyBuffer.capacity = 0
  BY DEF EmptyBuffer
<1>3. HasRoom(EmptyBuffer, 1)
  BY <1>1, <1>2 DEF HasRoom, Larger
<1> DEFINE t == Put(EmptyBuffer, Zeros, 1)
           p == [at |-> 0, size |-> 1, holds |-> Zeros]
<1>4. /\ Grown(EmptyBuffer, t, 0, 1, {p})
      /\ IsBuffer(EmptyBuffer) /\ Pieces(EmptyBuffer) = {}
  BY <1>2, <1>3, EmptyIsBuffer, PutGrows
<1>5. strtab = t /\ shstrtab = t /\ buffer = EmptyBuffer
  BY DEF Init
<1> HIDE DEF t
<1>6. IsBuffer(t) /\ Pieces(t) = {p}
  <2>1. \A q \in Pieces(t) : q.at \in Nat /\ q.size \in Nat
    BY <1>4 DEF Grown, IsBuffer, IsPiece
  <2>2. \A q \in Pieces(t) : q = p \/ (q.size > 0 /\ q.at + q.size <= 0)
    BY <1>4 DEF Grown
  <2>3. \A q \in Pieces(t) : q = p
    BY <2>1, <2>2
  <2> QED
    BY <1>4, <2>3 DEF Grown
<1>7. Sized(t)
  BY <1>6 DEF Sized
<1>8. CoveredIn(t, 0, t.length)
  <2>1. CoveredIn(EmptyBuffer, 0, 0)
    BY <1>4 DEF CoveredIn, Within
  <2>2. EmptyBuffer.length = 0 /\ 1 \in Nat \ {0}
    BY <1>2
  <2> QED
    BY <1>4, <2>1, <2>2, TableStaysCovered
<1>9. symtab = << >> /\ symtab \in Seq(Members(symtab))
  BY DEF Init
<1>10. DOMAIN headers = 0 .. Total - 1 /\ shoff \in Nat /\ output \in Outputs
  BY DEF Init, Outputs
<1> QED
  BY <1>4, <1>5, <1>6, <1>7, <1>8, <1>9, <1>10 DEF TableInv, Buffers

(* A name appended to a table.                                             *)
LEMMA TableGrows ==
  ASSUME NEW t, IsBuffer(t), Sized(t), CoveredIn(t, 0, t.length),
         NEW c, NEW x, NEW n \in Nat \ {0},
         Grown(t, c, t.length, n, {[at |-> t.length, size |-> n, holds |-> x]})
  PROVE  IsBuffer(c) /\ Sized(c) /\ CoveredIn(c, 0, c.length)
<1>1. CoveredIn(c, 0, c.length)
  BY TableStaysCovered
<1> QED
  BY <1>1 DEF Grown, Sized

LEMMA FileGrows ==
  ASSUME NEW b, IsBuffer(b), SizedOrData(b), NEW c, NEW at, NEW n, NEW new,
         Grown(b, c, at, n, new), \A p \in new : p.size > 0 \/ p.holds.is = "data"
  PROVE  IsBuffer(c) /\ SizedOrData(c)
BY DEF Grown, SizedOrData

LEMMA RecordsAreSized ==
  ASSUME NEW at, NEW xs, NEW n \in Nat \ {0}
  PROVE  \A p \in Records(at, xs, n) : p.size > 0
BY DEF Records

LEMMA MovedAreSized ==
  ASSUME NEW t, Sized(t), NEW at
  PROVE  \A p \in {Moved(q, at) : q \in Pieces(t)} : p.size > 0
BY DEF Moved, Sized

LEMMA TableSteps == OrderInv /\ TableInv /\ [Next]_vars => TableInv'
<1> SUFFICES ASSUME OrderInv, TableInv, [Next]_vars
             PROVE  TableInv'
  OBVIOUS
<1> USE DEF TableInv
<1>1. /\ Buffers /\ IsBuffer(buffer) /\ IsBuffer(strtab) /\ IsBuffer(shstrtab)
      /\ symtab \in Seq(Members(symtab))
  BY DEF Buffers
<1>2. CASE ~Appending
  <2>1. /\ UNCHANGED <<object, buffer, strtab, shstrtab, symtab, headers, shoff>>
        /\ output' \in Outputs
    BY <1>2, QuietStep
  <2>2. Total' = Total
    BY <2>1, IndexFrame
  <2> QED
    BY <1>1, <2>1, <2>2 DEF Buffers
<1>3. CASE AddSymbol
  <2>1. UNCHANGED <<object, buffer, shstrtab, headers, shoff, output>>
    BY <1>3 DEF AddSymbol
  <2>2. Total' = Total
    BY <2>1, IndexFrame
  <2>3. IsBuffer(strtab') /\ Sized(strtab') /\ CoveredIn(strtab', 0, strtab'.length)
    BY <1>1, <1>3, AddSymbolEffect, TableGrows
  <2>4. symtab' \in Seq(Members(symtab'))
    <3>1. symtab' = Append(symtab, Entry(Symbols[order[k]]))
      BY <1>3 DEF AddSymbol
    <3>2. symtab' \in Seq(Members(symtab) \cup {Entry(Symbols[order[k]])})
      BY <1>1, <3>1, SeqMonotonic
    <3> QED
      BY <3>2, SeqOfMembers
  <2> QED
    BY <1>1, <2>1, <2>2, <2>3, <2>4 DEF Buffers
<1>4. CASE PutIdent
  <2>1. UNCHANGED <<object, strtab, shstrtab, symtab, headers, shoff, output>>
    BY <1>4 DEF PutIdent
  <2>2. Total' = Total
    BY <2>1, IndexFrame
  <2>3. IsBuffer(buffer') /\ SizedOrData(buffer')
    BY <1>1, <1>4, PutIdentEffect, FileGrows
  <2> QED
    BY <1>1, <2>1, <2>2, <2>3 DEF Buffers
<1>5. CASE PutSection
  <2>1. UNCHANGED <<object, strtab, symtab, shoff, output>>
    BY <1>5 DEF PutSection
  <2>2. Total' = Total
    BY <2>1, IndexFrame
  <2>3. IsBuffer(buffer') /\ SizedOrData(buffer')
    <3> DEFINE at   == Pad(buffer, AlignOf(Sections[k])).length
               data == [at |-> at, size |-> Sections[k].size,
                        holds |-> [is |-> "data", index |-> k]]
    <3>1. Grown(buffer, buffer', at, Sections[k].size, {data})
      BY <1>1, <1>5, PutSectionEffect
    <3>2. data.holds.is = "data"
      OBVIOUS
    <3> HIDE DEF data
    <3> QED
      BY <1>1, <3>1, <3>2, FileGrows
  <2>4. /\ IsBuffer(shstrtab') /\ Sized(shstrtab')
        /\ CoveredIn(shstrtab', 0, shstrtab'.length)
    <3>1. k \in DOMAIN Sections /\ NameSize(Sections[k].name) \in Nat \ {0}
      BY <1>1, <1>5, PutSectionEffect, NameSizes DEF OrderInv
    <3> QED
      BY <1>1, <1>5, <3>1, PutSectionEffect, TableGrows
  <2>5. DOMAIN headers' = DOMAIN headers
    BY <1>1, <1>5, PutSectionEffect
  <2> QED
    BY <1>1, <2>1, <2>2, <2>3, <2>4, <2>5 DEF Buffers
<1>6. CASE PutRelas
  <2>1. UNCHANGED <<object, strtab, symtab, shoff, output>>
    BY <1>6 DEF PutRelas
  <2>2. Total' = Total
    BY <2>1, IndexFrame
  <2>3. IsBuffer(buffer') /\ SizedOrData(buffer')
    BY <1>1, <1>6, PutRelasEffect, FileGrows, RecordsAreSized
  <2>4. /\ IsBuffer(shstrtab') /\ Sized(shstrtab')
        /\ CoveredIn(shstrtab', 0, shstrtab'.length)
    BY <1>1, <1>6, PutRelasEffect, TableGrows
  <2>5. DOMAIN headers' = DOMAIN headers
    BY <1>1, <1>6, PutRelasEffect
  <2> QED
    BY <1>1, <2>1, <2>2, <2>3, <2>4, <2>5 DEF Buffers
<1>7. CASE PutSymtab
  <2>1. UNCHANGED <<object, strtab, symtab, shoff, output>>
    BY <1>7 DEF PutSymtab
  <2>2. Total' = Total
    BY <2>1, IndexFrame
  <2>3. IsBuffer(buffer') /\ SizedOrData(buffer')
    <3>1. 24 \in Nat \ {0}
      OBVIOUS
    <3>2. \A at, xs : \A p \in Records(at, xs, 24) : p.size > 0
      BY <3>1, RecordsAreSized
    <3> QED
      BY <1>1, <1>7, <3>2, PutSymtabEffect, FileGrows
  <2>4. /\ IsBuffer(shstrtab') /\ Sized(shstrtab')
        /\ CoveredIn(shstrtab', 0, shstrtab'.length)
    <3>1. NameSize(".symtab") \in Nat \ {0}
      BY NameSizes DEF OrderInv
    <3> QED
      BY <1>1, <1>7, <3>1, PutSymtabEffect, TableGrows
  <2>5. DOMAIN headers' = DOMAIN headers
    BY <1>1, <1>7, PutSymtabEffect
  <2> QED
    BY <1>1, <2>1, <2>2, <2>3, <2>4, <2>5 DEF Buffers
<1>8. CASE PutStrtab
  <2>1. UNCHANGED <<object, strtab, symtab, shoff, output>>
    BY <1>8 DEF PutStrtab
  <2>2. Total' = Total
    BY <2>1, IndexFrame
  <2>3. IsBuffer(buffer') /\ SizedOrData(buffer')
    <3>1. \A p \in {Moved(q, buffer.length) : q \in Pieces(strtab)} : p.size > 0
      BY MovedAreSized
    <3> QED
      BY <1>1, <1>8, <3>1, PutStrtabEffect, FileGrows
  <2>4. /\ IsBuffer(shstrtab') /\ Sized(shstrtab')
        /\ CoveredIn(shstrtab', 0, shstrtab'.length)
    <3>1. NameSize(".strtab") \in Nat \ {0}
      BY NameSizes DEF OrderInv
    <3> QED
      BY <1>1, <1>8, <3>1, PutStrtabEffect, TableGrows
  <2>5. DOMAIN headers' = DOMAIN headers
    BY <1>1, <1>8, PutStrtabEffect
  <2> QED
    BY <1>1, <2>1, <2>2, <2>3, <2>4, <2>5 DEF Buffers
<1>9. CASE PutShstrtab
  <2>1. UNCHANGED <<object, strtab, symtab, shoff, output>>
    BY <1>9 DEF PutShstrtab
  <2>2. Total' = Total
    BY <2>1, IndexFrame
  <2>3. /\ IsBuffer(shstrtab') /\ Sized(shstrtab')
        /\ CoveredIn(shstrtab', 0, shstrtab'.length)
    <3>1. NameSize(".shstrtab") \in Nat \ {0}
      BY NameSizes DEF OrderInv
    <3> QED
      BY <1>1, <1>9, <3>1, PutShstrtabEffect, TableGrows
  <2>4. IsBuffer(buffer') /\ SizedOrData(buffer')
    <3>1. \A p \in {Moved(q, buffer.length) : q \in Pieces(shstrtab')} : p.size > 0
      BY <2>3, MovedAreSized
    <3> QED
      BY <1>1, <1>9, <3>1, PutShstrtabEffect, FileGrows
  <2>5. DOMAIN headers' = DOMAIN headers
    BY <1>1, <1>9, PutShstrtabEffect
  <2> QED
    BY <1>1, <2>1, <2>2, <2>3, <2>4, <2>5 DEF Buffers
<1>10. CASE PutHeaders
  <2>1. UNCHANGED <<object, strtab, shstrtab, symtab, headers, output>>
    BY <1>10 DEF PutHeaders
  <2>2. Total' = Total
    BY <2>1, IndexFrame
  <2>3. IsBuffer(buffer') /\ SizedOrData(buffer')
    BY <1>1, <1>10, PutHeadersEffect, FileGrows, RecordsAreSized
  <2>4. shoff' \in Nat
    BY <1>1, <1>10, PutHeadersEffect DEF Grown
  <2> QED
    BY <1>1, <2>1, <2>2, <2>3, <2>4 DEF Buffers
<1> QED
  BY <1>2, <1>3, <1>4, <1>5, <1>6, <1>7, <1>8, <1>9, <1>10 DEF Appending

-----------------------------------------------------------------------------
(* The symbol table: entry p is the symbol at place p of the order, its    *)
(* name lies in the string table, and the map leads back to it.            *)

Described == {"sections", "relas", "strtab", "shstrtab", "headers", "write",
              "done"}

SymbolEntry(i, name) ==
  [is      |-> "symbol",
   name    |-> name,
   binding |-> IF RankOf(i) = 0 THEN "local" ELSE "global",
   shndx   |-> IF Symbols[i].defined THEN uint16(Symbols[i].section) ELSE 0,
   value   |-> IF Symbols[i].defined THEN Symbols[i].value ELSE 0]

Lies(b, at, x) == \E p \in Pieces(b) : p.at = at /\ p.holds = x

(* It lies where a 32-bit field says, or beyond what the field can say.    *)
LiesNear(b, n, x) == \E at \in Nat : n = uint32(at) /\ Lies(b, at, x)

Describes(p) ==
  /\ symtab[p] = SymbolEntry(order[p], symtab[p].name)
  /\ LiesNear(strtab, symtab[p].name, String("", Symbols[order[p]].name))

SymbolInv ==
  /\ symtab \in Seq(Members(symtab))
  /\ Len(symtab) <= Len(order)
  /\ locals \in 1 .. Len(symtab) + 1
  /\ map \in [DOMAIN Symbols -> 0 .. WordSpan - 1]
  /\ pc \in {"collect", "sort"} => symtab = << >>
  /\ pc = "symbols" => Len(symtab) = k - 1
  /\ pc \in Described => Len(symtab) = Len(order)
  /\ \A i \in DOMAIN Symbols :
       map[i] # Unmapped =>
         \E p \in DOMAIN symtab : order[p] = i /\ map[i] = uint32(p)
  /\ \A p \in DOMAIN symtab : Describes(p)
  /\ \A p \in DOMAIN symtab : RankOf(order[p]) = 0 <=> p < locals

LEMMA InitSymbols == Init => SymbolInv
<1> SUFFICES ASSUME Init
             PROVE  SymbolInv
  OBVIOUS
<1>1. /\ symtab = << >> /\ order = << >> /\ locals = 1 /\ pc = "collect"
      /\ map = [i \in DOMAIN Symbols |-> Unmapped]
  BY DEF Init
<1>2. Len(symtab) = 0 /\ DOMAIN symtab = {} /\ Len(order) = 0
  BY <1>1
<1>3. symtab \in Seq(Members(symtab))
  BY <1>1
<1>4. map \in [DOMAIN Symbols -> 0 .. WordSpan - 1]
  <2>1. Unmapped \in 0 .. WordSpan - 1
    BY WidthAssumption DEF Unmapped
  <2> QED
    BY <1>1, <2>1
<1>5. \A i \in DOMAIN Symbols : map[i] = Unmapped
  BY <1>1
<1>6. pc \notin Described /\ pc # "symbols"
  BY <1>1 DEF Described
<1> QED
  BY <1>1, <1>2, <1>3, <1>4, <1>5, <1>6 DEF SymbolInv

(* A number cut to a field that can hold it stays what it is.              *)
LEMMA Uncut ==
  /\ \A n \in Nat : uint32(n) \in 0 .. WordSpan - 1
  /\ \A n \in Nat : n < WordSpan => uint32(n) = n
  /\ \A n \in Nat : n < HalfSpan => uint16(n) = n
BY WidthAssumption DEF uint32, uint16

(* Steps that leave the table and what it depends on alone.                *)
LEMMA SymbolFrame ==
  ASSUME SymbolInv, UNCHANGED <<object, symtab, order, strtab, map, locals>>,
         pc' \in {"collect", "sort"} => symtab = << >>,
         pc' = "symbols" => Len(symtab) = k' - 1,
         pc' \in Described => Len(symtab) = Len(order)
  PROVE  SymbolInv'
<1>1. \A i : RankOf(i)' = RankOf(i)
  BY OrderFrame
<1>2. Symbols' = Symbols
  BY OrderFrame
<1>3. \A p : Describes(p)' <=> Describes(p)
  BY <1>1, <1>2 DEF Describes, SymbolEntry, LiesNear, Lies, uint32, uint16
<1> QED
  BY <1>1, <1>2, <1>3 DEF SymbolInv, Unmapped, uint32

LEMMA AddSymbolSymbols ==
  ASSUME OrderInv, TableInv, SymbolInv, AddSymbol
  PROVE  SymbolInv'
<1> DEFINE i == order[k]
           l == Len(symtab)
           e == Entry(Symbols[i])
<1>1. /\ pc = "symbols" /\ pc' = "symbols" /\ k' = k + 1 /\ k <= Len(order)
      /\ UNCHANGED <<object, order>>
      /\ symtab' = Append(symtab, e)
      /\ map' = [map EXCEPT ![i] = uint32(k)]
      /\ locals' = IF RankOf(i) = 0 THEN locals + 1 ELSE locals
  BY DEF AddSymbol, FileIndex, RankOf
<1>2. /\ order \in Seq(DOMAIN Symbols) /\ k \in Nat \ {0} /\ Sorted
  BY <1>1 DEF OrderInv
<1>3. /\ symtab \in Seq(Members(symtab)) /\ l = k - 1 /\ l \in Nat
      /\ locals \in 1 .. l + 1 /\ map \in [DOMAIN Symbols -> 0 .. WordSpan - 1]
      /\ DOMAIN symtab = 1 .. l
  BY <1>1 DEF SymbolInv
<1>4. /\ Len(order) \in Nat /\ DOMAIN order = 1 .. Len(order)
      /\ i \in DOMAIN Symbols /\ k \in DOMAIN order
      /\ \A p \in 1 .. l : p \in DOMAIN order /\ p < k
  BY <1>1, <1>2, <1>3
<1>19. /\ l + 1 = k /\ order[l + 1] = i
       /\ \A p \in 1 .. l : order[p] \in DOMAIN Symbols
  BY <1>2, <1>3, <1>4
<1>5. \A p \in 1 .. l : Before(order[p], i)
  BY <1>2, <1>4 DEF Sorted
<1>6. \A p \in 1 .. l : order[p] # i /\ RankOf(order[p]) <= RankOf(i)
  <2> TAKE p \in 1 .. l
  <2>1. Before(order[p], i) /\ order[p] \in DOMAIN Symbols
    BY <1>2, <1>4, <1>5
  <2>2. order[p] \in Nat /\ i \in Nat
    BY <1>4, <2>1, SymbolsAreTyped DEF OrderInv
  <2> QED
    BY <2>1, <2>2, RankIsNat DEF Before
<1>7. /\ DOMAIN symtab' = 1 .. l + 1 /\ Len(symtab') = l + 1
      /\ \A p \in 1 .. l : symtab'[p] = symtab[p]
      /\ symtab'[l + 1] = e
      /\ symtab' \in Seq(Members(symtab'))
  <2>1. symtab \in Seq(Members(symtab) \cup {e})
    BY <1>3, SeqMonotonic
  <2> HIDE DEF e, l
  <2>2. symtab' \in Seq(Members(symtab) \cup {e})
    BY <1>1, <2>1
  <2>3. symtab' \in Seq(Members(symtab'))
    BY <2>2, SeqOfMembers
  <2> QED
    BY <1>1, <1>3, <2>1, <2>3 DEF l
<1>8. e = SymbolEntry(i, uint32(strtab.length))
  BY DEF Entry, SymbolEntry, RankOf
<1>9. /\ Symbols' = Symbols /\ \A j : RankOf(j)' = RankOf(j)
  BY <1>1, OrderFrame
<1>10. /\ Pieces(strtab) \subseteq Pieces(strtab')
       /\ Lies(strtab', strtab.length, String("", Symbols[i].name))
  <2> DEFINE n == NameSize(Symbols[i].name)
             x == String("", Symbols[i].name)
             q == [at |-> strtab.length, size |-> n, holds |-> x]
  <2>1. Grown(strtab, strtab', strtab.length, n, {q})
    BY AddSymbolEffect DEF TableInv
  <2>2. q.at = strtab.length /\ q.holds = x
    OBVIOUS
  <2> HIDE DEF q, x
  <2>3. /\ Pieces(strtab) \subseteq Pieces(strtab')
        /\ Lies(strtab', strtab.length, x)
    BY <2>1, <2>2 DEF Grown, Lies
  <2> QED
    BY <2>3 DEF x
<1> HIDE DEF i, e
<1>11. \A p \in 1 .. l + 1 : Describes(p)'
  <2> TAKE p \in 1 .. l + 1
  <2>1. CASE p = l + 1
    <3>1. order'[p] = i /\ symtab'[p] = e /\ e.name = uint32(strtab.length)
      BY <1>1, <1>7, <1>8, <1>19, <2>1 DEF SymbolEntry
    <3>2. LiesNear(strtab', e.name, String("", Symbols[i].name))
      <4>1. strtab.length \in Nat
        BY DEF TableInv, Buffers, IsBuffer
      <4> QED
        BY <1>10, <3>1, <4>1 DEF LiesNear
    <3>3. LiesNear(strtab, symtab[p].name, String("", Symbols[order[p]].name))'
      BY <1>9, <3>1, <3>2 DEF LiesNear, Lies, uint32
    <3>4. (symtab[p] = SymbolEntry(order[p], symtab[p].name))'
      BY <1>8, <1>9, <3>1 DEF SymbolEntry, uint16
    <3> QED
      BY <3>3, <3>4 DEF Describes
  <2>2. CASE p \in 1 .. l
    <3>1. Describes(p) /\ order' = order /\ symtab'[p] = symtab[p]
      BY <1>1, <1>3, <1>7, <2>2 DEF SymbolInv
    <3>2. LiesNear(strtab', symtab[p].name, String("", Symbols[order[p]].name))
      BY <1>10, <3>1 DEF Describes, LiesNear, Lies
    <3>3. LiesNear(strtab, symtab[p].name, String("", Symbols[order[p]].name))'
      BY <1>9, <3>1, <3>2 DEF LiesNear, Lies, uint32
    <3>4. (symtab[p] = SymbolEntry(order[p], symtab[p].name))'
      BY <1>9, <3>1 DEF Describes, SymbolEntry, uint16
    <3> QED
      BY <3>3, <3>4 DEF Describes
  <2> QED
    BY <1>3, <2>1, <2>2
<1>12. map' \in [DOMAIN Symbols -> 0 .. WordSpan - 1]
  <2>1. uint32(k) \in 0 .. WordSpan - 1
    BY <1>2, Uncut
  <2> QED
    BY <1>1, <1>3, <1>4, <2>1
<1>13. \A j \in DOMAIN Symbols :
         map'[j] # Unmapped =>
           \E p \in 1 .. l + 1 : order[p] = j /\ map'[j] = uint32(p)
  <2> SUFFICES ASSUME NEW j \in DOMAIN Symbols, map'[j] # Unmapped
               PROVE  \E p \in 1 .. l + 1 : order[p] = j /\ map'[j] = uint32(p)
    OBVIOUS
  <2>1. CASE j = i
    <3>1. map'[j] = uint32(l + 1) /\ order[l + 1] = j /\ l + 1 \in 1 .. l + 1
      BY <1>1, <1>3, <1>4, <1>19, <2>1
    <3> QED
      BY <3>1
  <2>2. CASE j # i
    <3>1. map'[j] = map[j]
      BY <1>1, <1>3, <2>2
    <3>2. PICK p \in DOMAIN symtab : order[p] = j /\ map[j] = uint32(p)
      BY <3>1 DEF SymbolInv
    <3>3. p \in 1 .. l + 1
      BY <1>3, <3>2
    <3> QED
      BY <3>1, <3>2, <3>3
  <2> QED
    BY <2>1, <2>2
<1>15. \A p \in 1 .. l : RankOf(order[p]) = 0 <=> p < locals
  BY <1>3 DEF SymbolInv
<1>16. /\ locals' \in 1 .. l + 2
       /\ \A p \in 1 .. l + 1 : RankOf(order[p]) = 0 <=> p < locals'
  <2>1. CASE RankOf(i) = 0
    <3>1. \A p \in 1 .. l : p < locals
      BY <1>6, <1>15, <2>1, RankIsNat
    <3>2. locals = l + 1
      BY <1>3, <3>1
    <3>3. locals' = l + 2
      BY <1>1, <1>3, <2>1, <3>2
    <3>4. RankOf(order[l + 1]) = 0
      BY <1>19, <2>1
    <3> QED
      BY <1>3, <1>15, <3>1, <3>3, <3>4
  <2>2. CASE RankOf(i) # 0
    <3>1. locals' = locals /\ RankOf(order[l + 1]) # 0
      BY <1>1, <1>19, <2>2
    <3> QED
      BY <1>3, <1>15, <3>1
  <2> QED
    BY <2>1, <2>2
<1>17. /\ Len(symtab') <= Len(order') /\ Len(symtab') = k' - 1
       /\ pc' \notin {"collect", "sort"} /\ pc' \notin Described
  BY <1>1, <1>2, <1>3, <1>4, <1>7 DEF Described
<1>18. locals' \in 1 .. Len(symtab') + 1 /\ Symbols' = Symbols /\ order' = order
  BY <1>1, <1>3, <1>7, <1>9, <1>16
<1> HIDE DEF l
<1> QED
  BY <1>7, <1>9, <1>11, <1>12, <1>13, <1>16, <1>17, <1>18
     DEF SymbolInv, Unmapped, uint32

LEMMA SymbolSteps ==
  OrderInv /\ TableInv /\ SymbolInv /\ [Next]_vars => SymbolInv'
<1> SUFFICES ASSUME OrderInv, TableInv, SymbolInv, [Next]_vars
             PROVE  SymbolInv'
  OBVIOUS
<1>1. CASE AddSymbol
  BY <1>1, AddSymbolSymbols
<1>2. CASE Collect \/ EndCollect \/ Swap \/ InPlace
  <2>1. /\ symtab = << >> /\ pc' \in {"collect", "sort"}
        /\ UNCHANGED <<object, symtab, strtab, map, locals>>
    BY <1>2 DEF SymbolInv, Collect, EndCollect, Swap, InPlace
  <2>2. /\ Len(symtab) = 0 /\ DOMAIN symtab = {}
    BY <2>1
  <2>3. order' \in Seq(DOMAIN Symbols')
    BY <1>2, OrderSteps DEF OrderInv
  <2>4. Len(order') \in Nat /\ Symbols' = Symbols
    BY <2>1, <2>3, OrderFrame
  <2>5. \A j \in DOMAIN Symbols : map[j] = Unmapped
    BY <2>2 DEF SymbolInv
  <2>6. pc' \notin Described /\ pc' # "symbols"
    BY <2>1 DEF Described
  <2> QED
    BY <2>1, <2>2, <2>4, <2>5, <2>6 DEF SymbolInv, Unmapped
<1>3. CASE UNCHANGED vars
  BY <1>3, SymbolFrame DEF SymbolInv, vars
<1>4. CASE Terminated
  BY <1>4, SymbolFrame DEF SymbolInv, vars, Terminated
<1>5. CASE EndSort
  <2>1. /\ UNCHANGED <<object, symtab, order, strtab, map, locals>>
        /\ pc = "sort" /\ pc' = "symbols" /\ k' = 1
    BY <1>5 DEF EndSort, Goto
  <2>2. Len(symtab) = k' - 1
    BY <2>1 DEF SymbolInv
  <2> QED
    BY <2>1, <2>2, SymbolFrame DEF Described
<1>6. CASE PutIdent
  <2>1. /\ UNCHANGED <<object, symtab, order, strtab, map, locals>>
        /\ pc = "symbols" /\ pc' = "sections" /\ k > Len(order)
    BY <1>6 DEF PutIdent, Goto
  <2>2. Len(symtab) = Len(order)
    <3>1. /\ Len(symtab) = k - 1 /\ Len(symtab) <= Len(order)
          /\ Len(order) \in Nat /\ k \in Nat
      BY <2>1 DEF SymbolInv, OrderInv
    <3> QED
      BY <2>1, <3>1
  <2> QED
    BY <2>1, <2>2, SymbolFrame DEF Described
<1>7. CASE \/ PutSection \/ EndSections \/ SkipSection \/ PutRelas \/ PutSymtab
           \/ PutStrtab \/ PutShstrtab \/ PutHeaders \/ WriteFile \/ WriteFails
           \/ RejectHidden
  <2>1. /\ UNCHANGED <<object, symtab, order, strtab, map, locals>>
        /\ pc \in Described /\ pc' \in Described \cup {"failed"}
    BY <1>7 DEF PutSection, EndSections, SkipSection, PutRelas, PutSymtab,
                PutStrtab, PutShstrtab, PutHeaders, WriteFile, WriteFails,
                RejectHidden, Fail, Goto, Described
  <2>2. Len(symtab) = Len(order)
    BY <2>1 DEF SymbolInv
  <2> QED
    BY <2>1, <2>2, SymbolFrame DEF Described
<1>8. CASE OutOfMemory
  <2>1. /\ UNCHANGED <<object, symtab, order, strtab, map, locals>>
        /\ pc' = "failed"
    BY <1>8 DEF OutOfMemory, Fail
  <2> QED
    BY <2>1, SymbolFrame DEF Described
<1> QED
  BY <1>1, <1>2, <1>3, <1>4, <1>5, <1>6, <1>7, <1>8 DEF Next, Progress

-----------------------------------------------------------------------------
(* The layout: the headers filled in so far point to stretches of the file *)
(* that are aligned, without gaps and apart from each other.               *)

IsSet(i) == headers[i].type # "NULL"

Laid(i) ==
  LET h == headers[i]
  IN  /\ h.offset \in Nat /\ h.size \in Nat
      /\ h.align # 0 => h.offset % h.align = 0
      /\ 64 <= h.offset
      /\ h.offset + h.size <= buffer.length
      /\ CoveredIn(buffer, h.offset, h.size)

ApartHeaders(i, j) ==
  \/ headers[i].offset + headers[i].size <= headers[j].offset
  \/ headers[j].offset + headers[j].size <= headers[i].offset

FilledUpTo(n) == \A i \in 1 .. n : IsSet(i)

LaidOut ==
  /\ \A i \in DOMAIN headers : IsSet(i) => Laid(i)
  /\ \A i, j \in DOMAIN headers :
       IsSet(i) /\ IsSet(j) /\ i # j => ApartHeaders(i, j)

LayoutInv ==
  /\ pc \in {"collect", "sort", "symbols"} =>
       /\ buffer = EmptyBuffer
       /\ \A i \in DOMAIN headers : headers[i] = NullHeader
  /\ pc \in Described => 64 <= buffer.length
  /\ LaidOut
  /\ pc \in {"sections", "relas"} => k <= Len(Sections) + 1
  /\ pc = "sections" => FilledUpTo(k - 1)
  /\ pc = "relas" => FilledUpTo(Len(Sections) + RelasBefore(k))
  /\ pc = "strtab" => FilledUpTo(SymtabIndex)
  /\ pc = "shstrtab" => FilledUpTo(StrtabIndex)
  /\ pc \in {"headers", "write", "done"} => FilledUpTo(ShstrtabIndex)
  /\ pc \in {"write", "done"} =>
       \A i \in DOMAIN headers : IsSet(i) => headers[i].offset + headers[i].size <= shoff

(* A stretch appended, and the header that points to it.                   *)
LEMMA LayoutGrows ==
  ASSUME IsBuffer(buffer), LaidOut, 64 <= buffer.length,
         NEW at, NEW n, NEW new, Grown(buffer, buffer', at, n, new),
         CoveredIn(buffer', at, n),
         NEW x \in DOMAIN headers, NEW h, h.offset = at, h.size = n,
         h.align # 0 => at % h.align = 0, h.type # "NULL",
         headers' = [headers EXCEPT ![x] = h],
         NEW m \in Nat, FilledUpTo(m), x = m + 1
  PROVE  /\ LaidOut' /\ 64 <= buffer'.length
         /\ \A i \in 1 .. m + 1 : IsSet(i)'
<1>1. /\ buffer.length \in Nat /\ at \in Nat /\ n \in Nat /\ buffer.length <= at
      /\ buffer'.length = at + n
  BY DEF IsBuffer, Grown
<1>2. /\ DOMAIN headers' = DOMAIN headers /\ headers'[x] = h
      /\ \A i \in DOMAIN headers : i # x => headers'[i] = headers[i]
  OBVIOUS
<1>3. Laid(x)'
  BY <1>1, <1>2 DEF Laid
<1>4. ASSUME NEW i \in DOMAIN headers, i # x, IsSet(i)'
      PROVE  /\ Laid(i)' /\ IsSet(i) /\ headers'[i] = headers[i]
             /\ headers[i].offset \in Nat /\ headers[i].size \in Nat
             /\ headers[i].offset + headers[i].size <= at
  <2>1. headers'[i] = headers[i] /\ IsSet(i)
    BY <1>2, <1>4 DEF IsSet
  <2>2. Laid(i)
    BY <2>1 DEF LaidOut
  <2>3. /\ headers[i].offset \in Nat /\ headers[i].size \in Nat
        /\ headers[i].offset + headers[i].size <= buffer.length
        /\ CoveredIn(buffer, headers[i].offset, headers[i].size)
        /\ headers[i].align # 0 => headers[i].offset % headers[i].align = 0
        /\ 64 <= headers[i].offset
    BY <2>2 DEF Laid
  <2>4. CoveredIn(buffer', headers[i].offset, headers[i].size)
    BY <2>3, CoveredStays
  <2>5. headers[i].offset + headers[i].size <= buffer'.length
    BY <1>1, <2>3
  <2> QED
    BY <1>1, <2>1, <2>3, <2>4, <2>5 DEF Laid
<1>5. \A i, j \in DOMAIN headers :
        IsSet(i)' /\ IsSet(j)' /\ i # j => ApartHeaders(i, j)'
  <2> TAKE i, j \in DOMAIN headers
  <2> HAVE IsSet(i)' /\ IsSet(j)' /\ i # j
  <2>1. CASE i = x
    BY <1>1, <1>2, <1>4, <2>1 DEF ApartHeaders
  <2>2. CASE j = x
    BY <1>1, <1>2, <1>4, <2>2 DEF ApartHeaders
  <2>3. CASE i # x /\ j # x
    <3>1. IsSet(i) /\ IsSet(j) /\ headers'[i] = headers[i] /\ headers'[j] = headers[j]
      BY <1>4, <2>3
    <3>2. ApartHeaders(i, j)
      BY <3>1 DEF LaidOut
    <3> QED
      BY <3>1, <3>2 DEF ApartHeaders
  <2> QED
    BY <2>1, <2>2, <2>3
<1>6. LaidOut'
  BY <1>2, <1>3, <1>4, <1>5 DEF LaidOut
<1>7. \A i \in 1 .. m : i # x /\ IsSet(i)
  BY DEF FilledUpTo
<1>8. \A i \in 1 .. m : IsSet(i)'
  BY <1>2, <1>7 DEF IsSet
<1>9. IsSet(x)'
  BY <1>2 DEF IsSet
<1>10. \A i \in 1 .. m + 1 : i \in 1 .. m \/ i = x
  OBVIOUS
<1>11. \A i \in 1 .. m + 1 : IsSet(i)'
  BY <1>8, <1>9, <1>10
<1> QED
  BY <1>1, <1>6, <1>11

LEMMA LayoutFrame ==
  ASSUME UNCHANGED <<object, buffer, headers>>
  PROVE  /\ \A i : IsSet(i)' <=> IsSet(i)
         /\ LaidOut' <=> LaidOut
         /\ \A n : FilledUpTo(n)' <=> FilledUpTo(n)
<1>1. \A i : IsSet(i)' <=> IsSet(i)
  BY DEF IsSet
<1>2. /\ \A i : Laid(i)' <=> Laid(i)
      /\ \A i, j : ApartHeaders(i, j)' <=> ApartHeaders(i, j)
  BY DEF Laid, ApartHeaders
<1> QED
  BY <1>1, <1>2 DEF LaidOut, FilledUpTo

LEMMA InitLayout == Init => LayoutInv
<1> SUFFICES ASSUME Init
             PROVE  LayoutInv
  OBVIOUS
<1>1. /\ pc = "collect" /\ buffer = EmptyBuffer
      /\ headers = [i \in 0 .. Total - 1 |-> NullHeader]
  BY DEF Init
<1>2. \A i \in DOMAIN headers : headers[i] = NullHeader
  BY <1>1
<1>3. NullHeader.type = "NULL"
  BY DEF NullHeader
<1>4. LaidOut
  BY <1>2, <1>3 DEF LaidOut, IsSet
<1> QED
  BY <1>1, <1>2, <1>4 DEF LayoutInv, Described

LEMMA PutIdentLayout ==
  ASSUME OrderInv, TableInv, LayoutInv, PutIdent
  PROVE  LayoutInv'
<1>1. /\ pc = "symbols" /\ pc' = "sections" /\ k' = 1 /\ UNCHANGED <<object, headers>>
  BY DEF PutIdent, Goto
<1>2. /\ buffer = EmptyBuffer
      /\ \A i \in DOMAIN headers : headers[i] = NullHeader
  BY <1>1 DEF LayoutInv
<1>3. buffer.length = 0 /\ NullHeader.type = "NULL"
  BY <1>2 DEF EmptyBuffer, NullHeader
<1>4. 64 <= buffer'.length
  BY <1>3, PutIdentEffect DEF Grown, TableInv
<1>5. \A i \in DOMAIN headers' : ~IsSet(i)'
  BY <1>1, <1>2, <1>3 DEF IsSet
<1>6. LaidOut'
  BY <1>5 DEF LaidOut
<1>7. FilledUpTo(k - 1)'
  BY <1>1 DEF FilledUpTo
<1>8. Len(Sections) \in Nat /\ Sections' = Sections
  BY <1>1, SymbolsAreTyped, IndexFrame DEF OrderInv
<1> QED
  BY <1>1, <1>4, <1>6, <1>7, <1>8 DEF LayoutInv, Described

LEMMA PutSectionLayout ==
  ASSUME OrderInv, TableInv, LayoutInv, PutSection
  PROVE  LayoutInv'
<1> DEFINE section == Sections[k]
           at == Pad(buffer, AlignOf(section)).length
           x  == [is |-> "data", index |-> k]
           h  == HeaderRecord("PROGBITS", uint32(shstrtab.length), at, section.size, 0, 0,
                              section.align)
<1>1. /\ pc = "sections" /\ pc' = "sections" /\ k' = k + 1 /\ UNCHANGED object
      /\ k <= Len(Sections)
  BY DEF PutSection
<1>2. /\ k \in Nat \ {0} /\ k \in DOMAIN Sections /\ at % AlignOf(section) = 0
      /\ Grown(buffer, buffer', at, section.size,
               {[at |-> at, size |-> section.size, holds |-> x]})
      /\ headers' = [headers EXCEPT ![k] = h]
      /\ IsBuffer(buffer)
  BY PutSectionEffect DEF TableInv, Buffers, OrderInv
<1>3. CoveredIn(buffer', at, section.size)
  <2> HIDE DEF section, at, x
  <2> QED
    BY <1>2, CoveredByOne
<1>4. /\ LaidOut /\ 64 <= buffer.length /\ FilledUpTo(k - 1)
  BY <1>1 DEF LayoutInv, Described
<1>5. /\ k \in DOMAIN headers /\ Len(Sections) \in Nat /\ Sections' = Sections
  <2>1. DOMAIN headers = 0 .. Total - 1
    BY DEF TableInv
  <2>2. /\ Total = Len(Sections) + Cardinality(WithRelocations) + 4
        /\ Cardinality(WithRelocations) \in Nat /\ Len(Sections) \in Nat
    BY IndexFacts, SymbolsAreTyped DEF OrderInv
  <2> QED
    BY <1>1, <1>2, <2>1, <2>2, IndexFrame
<1>6. /\ h.offset = at /\ h.size = section.size /\ h.type # "NULL"
      /\ h.align = section.align
  BY DEF HeaderRecord
<1>7. h.align # 0 => at % h.align = 0
  <2> HIDE DEF h, at
  <2> QED
    BY <1>2, <1>6 DEF AlignOf
<1> HIDE DEF section, at, x, h
<1>8. k - 1 \in Nat /\ k = (k - 1) + 1
  BY <1>2
<1>9. LaidOut' /\ 64 <= buffer'.length /\ \A i \in 1 .. (k - 1) + 1 : IsSet(i)'
  BY <1>2, <1>3, <1>4, <1>5, <1>6, <1>7, <1>8, LayoutGrows
<1>10. FilledUpTo(k - 1)'
  <2>1. k' - 1 = (k - 1) + 1
    BY <1>1, <1>2
  <2> QED
    BY <1>9, <2>1 DEF FilledUpTo
<1> QED
  BY <1>1, <1>2, <1>5, <1>9, <1>10 DEF LayoutInv, Described

LEMMA PutRelasLayout ==
  ASSUME OrderInv, TableInv, LayoutInv, PutRelas
  PROVE  LayoutInv'
<1> DEFINE relas == Relas(Sections[k])
           at == Skip(buffer).length
           n  == 24 * Len(relas)
           h  == HeaderRecord("RELA", uint32(shstrtab.length), at, n,
                              uint32(Total - 2), uint32(k), 8)
<1>1. /\ pc = "relas" /\ pc' = "relas" /\ k' = k + 1 /\ UNCHANGED object
      /\ k <= Len(Sections)
  BY DEF PutRelas
<1>2. /\ k \in Nat \ {0} /\ k \in WithRelocations /\ at % 8 = 0
      /\ relas \in Seq(Members(relas))
      /\ Grown(buffer, buffer', at, n, Records(at, relas, 24))
      /\ headers' = [headers EXCEPT ![RelaIndex(k)] = h]
      /\ IsBuffer(buffer)
  <2>1. Len(relas) = Len(Sections[k].relocations)
    BY PutRelasEffect DEF TableInv
  <2> QED
    BY <2>1, PutRelasEffect DEF TableInv, Buffers, OrderInv
<1>3. CoveredIn(buffer', at, n)
  <2> HIDE DEF at, relas
  <2> QED
    BY <1>2, CoveredByRecords
<1> DEFINE m == Len(Sections) + RelasBefore(k)
<1>4. /\ LaidOut /\ 64 <= buffer.length /\ FilledUpTo(m)
  BY <1>1 DEF LayoutInv, Described
<1>5. /\ RelaIndex(k) \in DOMAIN headers /\ m \in Nat /\ RelaIndex(k) = m + 1
      /\ Len(Sections) \in Nat
      /\ Len(Sections) + RelasBefore(k + 1) = m + 1
  <2>1. DOMAIN headers = 0 .. Total - 1
    BY DEF TableInv
  <2>2. /\ Total = Len(Sections) + Cardinality(WithRelocations) + 4
        /\ Cardinality(WithRelocations) \in Nat /\ Len(Sections) \in Nat
        /\ RelasBefore(k) \in 0 .. Cardinality(WithRelocations)
        /\ RelaIndex(k) = Len(Sections) + RelasBefore(k) + 1
        /\ RelasBefore(k + 1) = RelasBefore(k) + 1
    BY <1>2, IndexFacts, SymbolsAreTyped DEF OrderInv
  <2> QED
    BY <2>1, <2>2
<1>6. h.offset = at /\ h.size = n /\ h.type # "NULL" /\ h.align = 8
  BY DEF HeaderRecord
<1> HIDE DEF relas, at, n, h, m
<1>7. LaidOut' /\ 64 <= buffer'.length /\ \A i \in 1 .. m + 1 : IsSet(i)'
  BY <1>2, <1>3, <1>4, <1>5, <1>6, LayoutGrows
<1>8. FilledUpTo(Len(Sections) + RelasBefore(k))'
  <2>1. /\ Sections' = Sections
        /\ \A i : RelasBefore(i)' = RelasBefore(i)
    BY <1>1, IndexFrame
  <2>2. (Len(Sections) + RelasBefore(k))' = m + 1
    BY <1>1, <1>5, <2>1
  <2> QED
    BY <1>7, <2>2 DEF FilledUpTo
<1>9. k' <= Len(Sections') + 1
  BY <1>1, <1>2, <1>5, IndexFrame
<1> QED
  BY <1>1, <1>7, <1>8, <1>9 DEF LayoutInv, Described

LEMMA TableIndices ==
  ASSUME object \in Objects, DOMAIN headers = 0 .. Total - 1
  PROVE  /\ SymtabIndex = Len(Sections) + RelasBefore(Len(Sections) + 1) + 1
         /\ SymtabIndex \in Nat \ {0} /\ SymtabIndex \in DOMAIN headers
         /\ StrtabIndex = SymtabIndex + 1 /\ StrtabIndex \in DOMAIN headers
         /\ ShstrtabIndex = StrtabIndex + 1 /\ ShstrtabIndex \in DOMAIN headers
         /\ ShstrtabIndex = Total - 1
<1>1. /\ Total = Len(Sections) + Cardinality(WithRelocations) + 4
      /\ Cardinality(WithRelocations) \in Nat /\ Len(Sections) \in Nat
      /\ RelasBefore(Len(Sections) + 1) = Cardinality(WithRelocations)
  BY IndexFacts, SymbolsAreTyped
<1> QED
  BY <1>1 DEF SymtabIndex, StrtabIndex, ShstrtabIndex

LEMMA PutSymtabLayout ==
  ASSUME OrderInv, TableInv, LayoutInv, PutSymtab
  PROVE  LayoutInv'
<1> DEFINE entries == <<NullSymbol>> \o symtab
           at == Pad(buffer, 8).length
           n  == 24 * Len(entries)
           h  == HeaderRecord("SYMTAB", uint32(shstrtab.length), at, n,
                              uint32(Total - 2), uint32(locals), 8)
           m  == Len(Sections) + RelasBefore(k)
<1>1. /\ pc = "relas" /\ pc' = "strtab" /\ UNCHANGED object /\ k > Len(Sections)
  BY DEF PutSymtab, Goto
<1>2. /\ k \in Nat \ {0} /\ at % 8 = 0
      /\ entries \in Seq(Members(entries))
      /\ Grown(buffer, buffer', at, n, Records(at, entries, 24))
      /\ headers' = [headers EXCEPT ![SymtabIndex] = h]
      /\ IsBuffer(buffer)
  <2>1. Len(entries) = Len(symtab) + 1
    BY PutSymtabEffect DEF TableInv
  <2> QED
    BY <2>1, PutSymtabEffect DEF TableInv, Buffers, OrderInv
<1>3. CoveredIn(buffer', at, n)
  <2> HIDE DEF at, entries
  <2> QED
    BY <1>2, CoveredByRecords
<1>4. /\ LaidOut /\ 64 <= buffer.length /\ FilledUpTo(m) /\ k <= Len(Sections) + 1
  BY <1>1 DEF LayoutInv, Described
<1>5. /\ SymtabIndex \in DOMAIN headers /\ m \in Nat /\ SymtabIndex = m + 1
  <2>1. k = Len(Sections) + 1
    BY <1>1, <1>2, <1>4, SymbolsAreTyped DEF OrderInv
  <2>2. object \in Objects /\ DOMAIN headers = 0 .. Total - 1
    BY DEF TableInv, OrderInv
  <2>3. /\ SymtabIndex = Len(Sections) + RelasBefore(Len(Sections) + 1) + 1
        /\ SymtabIndex \in Nat \ {0} /\ SymtabIndex \in DOMAIN headers
    BY <2>2, TableIndices
  <2>4. RelasBefore(k) = RelasBefore(Len(Sections) + 1)
    BY <2>1
  <2>5. Len(Sections) \in Nat /\ RelasBefore(Len(Sections) + 1) \in Nat
    BY <2>2, IndexFacts, SymbolsAreTyped
  <2>6. m = Len(Sections) + RelasBefore(Len(Sections) + 1)
    BY <2>4
  <2> HIDE DEF m
  <2> QED
    BY <2>3, <2>5, <2>6
<1>6. h.offset = at /\ h.size = n /\ h.type # "NULL" /\ h.align = 8
  BY DEF HeaderRecord
<1> HIDE DEF entries, at, n, h, m
<1>7. LaidOut' /\ 64 <= buffer'.length /\ \A i \in 1 .. m + 1 : IsSet(i)'
  BY <1>2, <1>3, <1>4, <1>5, <1>6, LayoutGrows
<1>8. FilledUpTo(SymtabIndex)'
  <2>1. SymtabIndex' = m + 1
    BY <1>1, <1>5, IndexFrame
  <2> QED
    BY <1>7, <2>1 DEF FilledUpTo
<1> QED
  BY <1>1, <1>7, <1>8 DEF LayoutInv, Described

LEMMA PutStrtabLayout ==
  ASSUME OrderInv, TableInv, LayoutInv, PutStrtab
  PROVE  LayoutInv'
<1> DEFINE at == buffer.length
           n  == strtab.length
           h  == HeaderRecord("STRTAB", uint32(shstrtab.length), at, n, 0, 0, 1)
           m  == SymtabIndex
<1>1. /\ pc = "strtab" /\ pc' = "shstrtab" /\ UNCHANGED object
  BY DEF PutStrtab, Goto
<1>2. /\ Grown(buffer, buffer', at, n, {Moved(p, at) : p \in Pieces(strtab)})
      /\ headers' = [headers EXCEPT ![StrtabIndex] = h]
      /\ IsBuffer(buffer) /\ IsBuffer(strtab) /\ CoveredIn(strtab, 0, n)
  BY PutStrtabEffect DEF TableInv, Buffers
<1>3. CoveredIn(buffer', at, n)
  <2> HIDE DEF at
  <2> QED
    BY <1>2, CoveredByCopy
<1>4. /\ LaidOut /\ 64 <= buffer.length /\ FilledUpTo(m)
  BY <1>1 DEF LayoutInv, Described
<1>5. /\ StrtabIndex \in DOMAIN headers /\ m \in Nat /\ StrtabIndex = m + 1
  BY TableIndices DEF TableInv, OrderInv
<1>6. h.offset = at /\ h.size = n /\ h.type # "NULL" /\ h.align = 1
  BY DEF HeaderRecord
<1>7. at % 1 = 0
  BY <1>2 DEF Grown
<1> HIDE DEF at, n, h, m
<1>8. LaidOut' /\ 64 <= buffer'.length /\ \A i \in 1 .. m + 1 : IsSet(i)'
  BY <1>2, <1>3, <1>4, <1>5, <1>6, <1>7, LayoutGrows
<1>9. FilledUpTo(StrtabIndex)'
  <2>1. StrtabIndex' = m + 1
    BY <1>1, <1>5, IndexFrame
  <2> QED
    BY <1>8, <2>1 DEF FilledUpTo
<1> QED
  BY <1>1, <1>8, <1>9 DEF LayoutInv, Described

LEMMA PutShstrtabLayout ==
  ASSUME OrderInv, TableInv, LayoutInv, PutShstrtab
  PROVE  LayoutInv'
<1> DEFINE at == buffer.length
           n  == shstrtab'.length
           h  == HeaderRecord("STRTAB", uint32(shstrtab.length), at, n, 0, 0, 1)
           m  == StrtabIndex
<1>1. /\ pc = "shstrtab" /\ pc' = "headers" /\ UNCHANGED object
  BY DEF PutShstrtab, Goto
<1>2. /\ Grown(buffer, buffer', at, n, {Moved(p, at) : p \in Pieces(shstrtab')})
      /\ headers' = [headers EXCEPT ![ShstrtabIndex] = h]
      /\ IsBuffer(buffer)
  BY PutShstrtabEffect DEF TableInv, Buffers
<1>10. IsBuffer(shstrtab') /\ CoveredIn(shstrtab', 0, n)
  <2>1. TableInv'
    BY TableSteps DEF Next, Progress
  <2> QED
    BY <2>1 DEF TableInv, Buffers
<1>3. CoveredIn(buffer', at, n)
  <2> HIDE DEF at
  <2> QED
    BY <1>2, <1>10, CoveredByCopy
<1>4. /\ LaidOut /\ 64 <= buffer.length /\ FilledUpTo(m)
  BY <1>1 DEF LayoutInv, Described
<1>5. /\ ShstrtabIndex \in DOMAIN headers /\ m \in Nat /\ ShstrtabIndex = m + 1
  BY TableIndices DEF TableInv, OrderInv
<1>6. h.offset = at /\ h.size = n /\ h.type # "NULL" /\ h.align = 1
  BY DEF HeaderRecord
<1>7. at % 1 = 0
  BY <1>2 DEF Grown
<1> HIDE DEF at, n, h, m
<1>8. LaidOut' /\ 64 <= buffer'.length /\ \A i \in 1 .. m + 1 : IsSet(i)'
  BY <1>2, <1>3, <1>4, <1>5, <1>6, <1>7, LayoutGrows
<1>9. FilledUpTo(ShstrtabIndex)'
  <2>1. ShstrtabIndex' = m + 1
    BY <1>1, <1>5, IndexFrame
  <2> QED
    BY <1>8, <2>1 DEF FilledUpTo
<1> QED
  BY <1>1, <1>8, <1>9 DEF LayoutInv, Described

LEMMA PutHeadersLayout ==
  ASSUME OrderInv, TableInv, LayoutInv, PutHeaders
  PROVE  LayoutInv'
<1> DEFINE at == Pad(buffer, 8).length
<1>1. /\ pc = "headers" /\ pc' = "write" /\ UNCHANGED <<object, headers>>
  BY DEF PutHeaders, Goto
<1>2. /\ Grown(buffer, buffer', at, 64 * Total, Records(at, HeaderTable, 64))
      /\ shoff' = at /\ IsBuffer(buffer)
  BY PutHeadersEffect DEF TableInv, Buffers
<1>3. LaidOut /\ 64 <= buffer.length /\ FilledUpTo(ShstrtabIndex)
  BY <1>1 DEF LayoutInv, Described
<1> HIDE DEF at
<1>4. /\ buffer.length \in Nat /\ at \in Nat /\ buffer.length <= at
      /\ 64 * Total \in Nat /\ buffer'.length = at + 64 * Total
  BY <1>2 DEF IsBuffer, Grown
<1>5. \A i : IsSet(i)' <=> IsSet(i)
  BY <1>1 DEF IsSet
<1>6. ASSUME NEW i \in DOMAIN headers, IsSet(i)
      PROVE  Laid(i)' /\ headers'[i].offset + headers'[i].size <= shoff'
  <2>1. /\ headers[i].offset \in Nat /\ headers[i].size \in Nat
        /\ headers[i].offset + headers[i].size <= buffer.length
        /\ CoveredIn(buffer, headers[i].offset, headers[i].size)
        /\ headers[i].align # 0 => headers[i].offset % headers[i].align = 0
        /\ 64 <= headers[i].offset
    BY <1>3, <1>6 DEF Laid, LaidOut
  <2>2. CoveredIn(buffer', headers[i].offset, headers[i].size)
    BY <1>2, <2>1, CoveredStays
  <2>3. /\ headers[i].offset + headers[i].size <= buffer'.length
        /\ headers[i].offset + headers[i].size <= at
    BY <1>4, <2>1
  <2> QED
    BY <1>1, <1>2, <2>1, <2>2, <2>3 DEF Laid
<1>7. \A i, j : ApartHeaders(i, j)' <=> ApartHeaders(i, j)
  BY <1>1 DEF ApartHeaders
<1>8. LaidOut'
  BY <1>1, <1>3, <1>5, <1>6, <1>7 DEF LaidOut
<1>9. FilledUpTo(ShstrtabIndex)'
  <2>1. ShstrtabIndex' = ShstrtabIndex
    BY <1>1, IndexFrame
  <2> QED
    BY <1>3, <1>5, <2>1 DEF FilledUpTo
<1>10. 64 <= buffer'.length
  BY <1>3, <1>4
<1> QED
  BY <1>1, <1>5, <1>6, <1>8, <1>9, <1>10 DEF LayoutInv, Described

LEMMA LayoutSteps ==
  OrderInv /\ TableInv /\ LayoutInv /\ [Next]_vars => LayoutInv'
<1> SUFFICES ASSUME OrderInv, TableInv, LayoutInv, [Next]_vars
             PROVE  LayoutInv'
  OBVIOUS
<1>1. CASE \/ PutIdent \/ PutSection \/ PutRelas \/ PutSymtab \/ PutStrtab
           \/ PutShstrtab \/ PutHeaders
  BY <1>1, PutIdentLayout, PutSectionLayout, PutRelasLayout, PutSymtabLayout,
     PutStrtabLayout, PutShstrtabLayout, PutHeadersLayout
<1>2. CASE UNCHANGED <<object, buffer, headers, shoff>>
  <2>1. /\ \A i : IsSet(i)' <=> IsSet(i)
        /\ LaidOut' <=> LaidOut
        /\ \A n : FilledUpTo(n)' <=> FilledUpTo(n)
    BY <1>2, LayoutFrame
  <2>2. /\ Sections' = Sections /\ SymtabIndex' = SymtabIndex
        /\ StrtabIndex' = StrtabIndex /\ ShstrtabIndex' = ShstrtabIndex
        /\ \A n : RelasBefore(n)' = RelasBefore(n)
    BY <1>2, IndexFrame
  <2>3. CASE k' = k /\ pc' = pc
    BY <1>2, <2>1, <2>2, <2>3 DEF LayoutInv
  <2>4. CASE pc' = "failed"
    BY <1>2, <2>1, <2>4 DEF LayoutInv, Described
  <2>5. CASE \/ pc \in {"collect", "sort", "symbols"}
                /\ pc' \in {"collect", "sort", "symbols"}
             \/ pc = "write" /\ pc' = "done"
    BY <1>2, <2>1, <2>2, <2>5 DEF LayoutInv, Described
  <2>6. CASE EndSections
    <3>1. /\ pc = "sections" /\ pc' = "relas" /\ k' = 1 /\ k > Len(Sections)
      BY <2>6 DEF EndSections, Goto
    <3>2. FilledUpTo(k - 1) /\ k <= Len(Sections) + 1
      BY <3>1 DEF LayoutInv
    <3>3. /\ Len(Sections) \in Nat /\ k \in Nat /\ RelasBefore(1) = 0
      BY SymbolsAreTyped, IndexFacts DEF OrderInv
    <3>4. FilledUpTo(Len(Sections) + RelasBefore(k))'
      <4>1. k - 1 = Len(Sections) /\ (Len(Sections) + RelasBefore(k))' = Len(Sections)
        BY <2>2, <3>1, <3>2, <3>3
      <4> QED
        BY <2>1, <3>2, <4>1
    <3> QED
      BY <1>2, <2>1, <2>2, <3>1, <3>3, <3>4 DEF LayoutInv, Described
  <2>7. CASE SkipSection
    <3>1. /\ pc = "relas" /\ pc' = "relas" /\ k' = k + 1 /\ k <= Len(Sections)
          /\ Sections[k].relocations = << >>
      BY <2>7 DEF SkipSection
    <3>2. /\ Len(Sections) \in Nat /\ k \in Nat \ {0} /\ k \in DOMAIN Sections
      BY <3>1, SymbolsAreTyped DEF OrderInv
    <3>3. RelasBefore(k + 1) = RelasBefore(k)
      BY <3>1, <3>2, IndexFacts DEF OrderInv
    <3>4. FilledUpTo(Len(Sections) + RelasBefore(k))'
      <4>1. (Len(Sections) + RelasBefore(k))' = Len(Sections) + RelasBefore(k)
        BY <2>2, <3>1, <3>3
      <4> QED
        BY <2>1, <3>1, <4>1 DEF LayoutInv
    <3>5. k' <= Len(Sections') + 1
      BY <2>2, <3>1, <3>2
    <3> QED
      BY <1>2, <2>1, <3>1, <3>4, <3>5 DEF LayoutInv, Described
  <2>8. CASE AddSymbol \/ Swap \/ InPlace \/ EndSort \/ Collect \/ EndCollect
             \/ RejectHidden \/ WriteFile \/ WriteFails \/ OutOfMemory
    BY <2>4, <2>5, <2>8 DEF AddSymbol, Swap, InPlace, EndSort, Collect, EndCollect,
       RejectHidden, WriteFile, WriteFails, OutOfMemory, Fail, Goto
  <2>9. CASE Terminated \/ UNCHANGED vars
    BY <2>3, <2>9 DEF Terminated, vars
  <2>10. CASE \/ PutIdent \/ PutSection \/ PutRelas \/ PutSymtab \/ PutStrtab
             \/ PutShstrtab \/ PutHeaders
    BY <1>1, <2>10
  <2> QED
    BY <2>6, <2>7, <2>8, <2>9, <2>10 DEF Next, Progress
<1>3. CASE AddSymbol
  BY <1>2, <1>3 DEF AddSymbol
<1>4. CASE ~Appending
  BY <1>2, <1>4, QuietStep
<1> QED
  BY <1>1, <1>3, <1>4 DEF Appending

-----------------------------------------------------------------------------
(* The content: what lies in the file where a header points.               *)

SectionContent(i, h) ==
  /\ h.type = "PROGBITS"
  /\ h.size = Sections[i].size
  /\ [at |-> h.offset, size |-> h.size, holds |-> [is |-> "data", index |-> i]]
       \in Pieces(buffer)
  /\ LiesNear(shstrtab, h.name, String("", Sections[i].name))

RelaContent(j, h) ==
  /\ h.type = "RELA" /\ h.info = uint32(j)
  /\ h.size = 24 * Len(Sections[j].relocations)
  /\ Records(h.offset, Relas(Sections[j]), 24) \subseteq Pieces(buffer)
  /\ ~RefersToHidden(Sections[j])

Content(i, h) ==
  /\ h.is = "header"
  /\ \/ h.type = "NULL"
     \/ i \in DOMAIN Sections /\ SectionContent(i, h)
     \/ \E j \in WithRelocations : i = RelaIndex(j) /\ RelaContent(j, h)
     \/ i = SymtabIndex /\ h.type = "SYMTAB"
     \/ i \in {StrtabIndex, ShstrtabIndex} /\ h.type = "STRTAB"

SymtabContent ==
  LET h == headers[SymtabIndex]
  IN  /\ h.link = uint32(StrtabIndex) /\ h.info = uint32(locals)
      /\ h.size = 24 * (Len(symtab) + 1)
      /\ Records(h.offset, <<NullSymbol>> \o symtab, 24) \subseteq Pieces(buffer)

CopyContent(i, table) ==
  {Moved(p, headers[i].offset) : p \in Pieces(table)} \subseteq Pieces(buffer)

ContentInv ==
  /\ pc \in Described => Lies(buffer, 0, Ident)
  /\ \A i \in DOMAIN headers : Content(i, headers[i])
  /\ pc \in {"strtab", "shstrtab", "headers", "write", "done"} => SymtabContent
  /\ pc \in {"shstrtab", "headers", "write", "done"} =>
       CopyContent(StrtabIndex, strtab)
  /\ pc \in {"headers", "write", "done"} => CopyContent(ShstrtabIndex, shstrtab)
  /\ pc \in {"write", "done"} =>
       Records(shoff, HeaderTable, 64) \subseteq Pieces(buffer)
  /\ pc \notin {"done", "failed"} => output = "untouched"

LEMMA LiesOn ==
  ASSUME NEW b, NEW c, Pieces(b) \subseteq Pieces(c), NEW at, NEW x, Lies(b, at, x)
  PROVE  Lies(c, at, x)
BY DEF Lies

(* Bytes and names are only added, so what a header says stays true.       *)
LEMMA ContentStays ==
  ASSUME UNCHANGED <<object, map>>, Pieces(buffer) \subseteq Pieces(buffer'),
         Pieces(shstrtab) \subseteq Pieces(shstrtab')
  PROVE  \A i, h : Content(i, h) => Content(i, h)'
<1>1. /\ Sections' = Sections /\ WithRelocations' = WithRelocations
      /\ SymtabIndex' = SymtabIndex /\ StrtabIndex' = StrtabIndex
      /\ ShstrtabIndex' = ShstrtabIndex /\ \A j : RelaIndex(j)' = RelaIndex(j)
  BY IndexFrame
<1>2. \A s : Relas(s)' = Relas(s) /\ (RefersToHidden(s)' <=> RefersToHidden(s))
  BY DEF Relas, Rela, RelocationType, RefersToHidden, Unmapped
<1>3. \A i, h : SectionContent(i, h) => SectionContent(i, h)'
  BY <1>1 DEF SectionContent, LiesNear, Lies, uint32
<1>4. \A j, h : RelaContent(j, h) => RelaContent(j, h)'
  BY <1>1, <1>2 DEF RelaContent, uint32
<1> QED
  BY <1>1, <1>3, <1>4 DEF Content

LEMMA TablesStay ==
  ASSUME UNCHANGED <<object, symtab, locals>>,
         Pieces(buffer) \subseteq Pieces(buffer')
  PROVE  /\ headers'[SymtabIndex] = headers[SymtabIndex] /\ SymtabContent
              => SymtabContent'
         /\ \A i, t : headers'[i] = headers[i] /\ CopyContent(i, t)
              => CopyContent(i, t)'
<1>1. SymtabIndex' = SymtabIndex /\ StrtabIndex' = StrtabIndex
  BY IndexFrame
<1>2. NullSymbol' = NullSymbol
  BY DEF NullSymbol
<1> QED
  BY <1>1, <1>2 DEF SymtabContent, CopyContent, uint32

LEMMA InitContent == Init => ContentInv
<1> SUFFICES ASSUME Init
             PROVE  ContentInv
  OBVIOUS
<1>1. pc = "collect" /\ output = "untouched" /\ pc \notin Described
  BY DEF Init, Described
<1>2. \A i \in DOMAIN headers : headers[i] = NullHeader
  BY DEF Init
<1>3. \A i \in DOMAIN headers : Content(i, headers[i])
  BY <1>2 DEF Content, NullHeader
<1> QED
  BY <1>1, <1>3 DEF ContentInv

LEMMA OthersStay ==
  ASSUME ContentInv, UNCHANGED <<object, map>>,
         Pieces(buffer) \subseteq Pieces(buffer'),
         Pieces(shstrtab) \subseteq Pieces(shstrtab'),
         NEW x, NEW h, headers' = [headers EXCEPT ![x] = h]
  PROVE  /\ DOMAIN headers' = DOMAIN headers
         /\ \A i \in DOMAIN headers : i # x => headers'[i] = headers[i]
         /\ \A i \in DOMAIN headers : i # x => Content(i, headers[i])'
<1>1. /\ DOMAIN headers' = DOMAIN headers
      /\ \A i \in DOMAIN headers : i # x => headers'[i] = headers[i]
  OBVIOUS
<1>2. \A i \in DOMAIN headers : i # x => Content(i, headers[i])'
  <2> TAKE i \in DOMAIN headers
  <2> HAVE i # x
  <2>1. Content(i, headers[i]) /\ headers'[i] = headers[i]
    BY <1>1 DEF ContentInv
  <2>2. \A g : Content(i, g) => Content(i, g)'
    BY ContentStays
  <2> QED
    BY <2>1, <2>2
<1> QED
  BY <1>1, <1>2

LEMMA IdentStays ==
  ASSUME UNCHANGED object, Pieces(buffer) \subseteq Pieces(buffer'),
         Lies(buffer, 0, Ident)
  PROVE  Lies(buffer, 0, Ident)'
<1>1. Ident' = Ident
  BY IndexFrame DEF Ident, uint16
<1> QED
  BY <1>1 DEF Lies

LEMMA PutIdentContent ==
  ASSUME OrderInv, TableInv, LayoutInv, ContentInv, PutIdent
  PROVE  ContentInv'
<1>1. /\ pc = "symbols" /\ pc' = "sections" /\ UNCHANGED <<object, headers, output>>
  BY DEF PutIdent, Goto
<1>2. \A i \in DOMAIN headers : headers[i] = NullHeader
  BY <1>1 DEF LayoutInv
<1>3. \A i \in DOMAIN headers' : Content(i, headers[i])'
  BY <1>1, <1>2 DEF Content, NullHeader
<1>4. Lies(buffer', 0, Ident)
  <2> DEFINE p == [at |-> 0, size |-> 64, holds |-> Ident]
  <2>1. Grown(buffer, buffer', buffer.length, 64,
              {[at |-> buffer.length, size |-> 64, holds |-> Ident]})
    BY PutIdentEffect DEF TableInv
  <2>2. buffer.length = 0
    BY <1>1 DEF LayoutInv, EmptyBuffer
  <2>3. p \in Pieces(buffer')
    BY <2>1, <2>2 DEF Grown
  <2>4. p.at = 0 /\ p.holds = Ident
    OBVIOUS
  <2> QED
    BY <2>3, <2>4 DEF Lies
<1>5. Ident' = Ident
  BY <1>1, IndexFrame DEF Ident, uint16
<1>6. Lies(buffer, 0, Ident)'
  BY <1>4, <1>5 DEF Lies
<1>7. output' = "untouched"
  BY <1>1 DEF ContentInv
<1> QED
  BY <1>1, <1>3, <1>6, <1>7 DEF ContentInv

LEMMA PutSectionContent ==
  ASSUME OrderInv, TableInv, ContentInv, PutSection
  PROVE  ContentInv'
<1> DEFINE section == Sections[k]
           at == Pad(buffer, AlignOf(section)).length
           h  == HeaderRecord("PROGBITS", uint32(shstrtab.length), at, section.size, 0, 0,
                              section.align)
           p  == [at |-> at, size |-> section.size,
                  holds |-> [is |-> "data", index |-> k]]
           q  == [at |-> shstrtab.length, size |-> NameSize(section.name),
                  holds |-> String("", section.name)]
<1>1. /\ pc = "sections" /\ pc' = "sections"
      /\ UNCHANGED <<object, map, output>>
  BY DEF PutSection
<1>2. /\ k \in DOMAIN Sections /\ headers' = [headers EXCEPT ![k] = h]
      /\ Grown(buffer, buffer', at, section.size, {p})
      /\ Grown(shstrtab, shstrtab', shstrtab.length, NameSize(section.name), {q})
  BY PutSectionEffect DEF TableInv
<1>3. /\ h.is = "header" /\ h.type = "PROGBITS" /\ h.size = section.size
      /\ h.offset = at /\ h.name = uint32(shstrtab.length)
      /\ p = [at |-> h.offset, size |-> h.size,
              holds |-> [is |-> "data", index |-> k]]
      /\ q.at = shstrtab.length /\ q.holds = String("", section.name)
  BY DEF HeaderRecord
<1> HIDE DEF at, h, p, q
<1>4. /\ Pieces(buffer) \subseteq Pieces(buffer') /\ p \in Pieces(buffer')
      /\ Pieces(shstrtab) \subseteq Pieces(shstrtab') /\ q \in Pieces(shstrtab')
  BY <1>2 DEF Grown
<1>5. /\ DOMAIN headers' = DOMAIN headers
      /\ \A i \in DOMAIN headers : i # k => Content(i, headers[i])'
  BY <1>1, <1>2, <1>4, OthersStay
<1>6. \A i \in DOMAIN headers : i = k => Content(i, headers[i])'
  <2> TAKE i \in DOMAIN headers
  <2> HAVE i = k
  <2>1. headers'[i] = h /\ Sections' = Sections
    BY <1>1, <1>2, IndexFrame
  <2>2. LiesNear(shstrtab', h.name, String("", section.name))
    <3>1. Lies(shstrtab', shstrtab.length, String("", section.name))
      BY <1>3, <1>4 DEF Lies
    <3>2. shstrtab.length \in Nat
      BY DEF TableInv, Buffers, IsBuffer
    <3> QED
      BY <1>3, <3>1, <3>2 DEF LiesNear
  <2>3. SectionContent(i, headers[i])'
    BY <1>3, <1>4, <2>1, <2>2 DEF SectionContent, LiesNear, Lies, uint32
  <2> QED
    BY <1>2, <1>3, <2>1, <2>3 DEF Content
<1>7. Lies(buffer, 0, Ident)' /\ output' = "untouched"
  BY <1>1, <1>4, IdentStays DEF ContentInv, Described
<1> QED
  BY <1>1, <1>5, <1>6, <1>7 DEF ContentInv

LEMMA PutRelasContent ==
  ASSUME OrderInv, TableInv, ContentInv, PutRelas
  PROVE  ContentInv'
<1> DEFINE section == Sections[k]
           relas == Relas(section)
           at == Skip(buffer).length
           n  == 24 * Len(section.relocations)
           h  == HeaderRecord("RELA", uint32(shstrtab.length), at, n,
                              uint32(Total - 2), uint32(k), 8)
           x  == RelaIndex(k)
<1>1. /\ pc = "relas" /\ pc' = "relas" /\ UNCHANGED <<object, map, output>>
      /\ ~RefersToHidden(section)
  BY DEF PutRelas
<1>2. /\ k \in WithRelocations /\ headers' = [headers EXCEPT ![x] = h]
      /\ Grown(buffer, buffer', at, n, Records(at, relas, 24))
      /\ Pieces(shstrtab) \subseteq Pieces(shstrtab')
  BY PutRelasEffect DEF TableInv, Grown
<1>3. /\ h.is = "header" /\ h.type = "RELA" /\ h.size = n
      /\ h.offset = at /\ h.info = uint32(k)
  BY DEF HeaderRecord
<1>4. /\ Sections' = Sections /\ WithRelocations' = WithRelocations
      /\ \A j : RelaIndex(j)' = RelaIndex(j)
      /\ \A s : Relas(s)' = Relas(s) /\ (RefersToHidden(s)' <=> RefersToHidden(s))
  BY <1>1, IndexFrame DEF Relas, Rela, RelocationType, RefersToHidden, Unmapped
<1> HIDE DEF at, h, n, x
<1>5. Pieces(buffer) \subseteq Pieces(buffer')
  BY <1>2 DEF Grown
<1>6. /\ DOMAIN headers' = DOMAIN headers
      /\ \A i \in DOMAIN headers : i # x => Content(i, headers[i])'
  BY <1>1, <1>2, <1>5, OthersStay
<1>7. \A i \in DOMAIN headers : i = x => Content(i, headers[i])'
  <2> TAKE i \in DOMAIN headers
  <2> HAVE i = x
  <2>1. headers'[i] = h
    BY <1>2
  <2>2. Records(h.offset, Relas(Sections[k]), 24) \subseteq Pieces(buffer')
    BY <1>2, <1>3 DEF Grown
  <2>3. \E j \in WithRelocations :
          i = RelaIndex(j) /\ RelaContent(j, headers[i])'
    <3>1. \A j : j = k => RelaContent(j, headers[i])'
      <4> TAKE j
      <4> HAVE j = k
      <4> QED
        BY <1>1, <1>3, <1>4, <2>1, <2>2 DEF RelaContent, n, uint32
    <3> QED
      BY <1>2, <3>1 DEF x
  <2> QED
    BY <1>3, <1>4, <2>1, <2>3 DEF Content
<1>8. Lies(buffer, 0, Ident)' /\ output' = "untouched"
  BY <1>1, <1>5, IdentStays DEF ContentInv, Described
<1> QED
  BY <1>1, <1>6, <1>7, <1>8 DEF ContentInv

LEMMA PutSymtabContent ==
  ASSUME OrderInv, TableInv, ContentInv, PutSymtab
  PROVE  ContentInv'
<1> DEFINE at == Pad(buffer, 8).length
           n  == 24 * (Len(symtab) + 1)
           h  == HeaderRecord("SYMTAB", uint32(shstrtab.length), at, n,
                              uint32(Total - 2), uint32(locals), 8)
           entries == <<NullSymbol>> \o symtab
           x == SymtabIndex
<1>1. /\ pc = "relas" /\ pc' = "strtab"
      /\ UNCHANGED <<object, map, output, symtab, locals>>
  BY DEF PutSymtab, Goto
<1>2. /\ headers' = [headers EXCEPT ![x] = h]
      /\ Grown(buffer, buffer', at, n, Records(at, entries, 24))
      /\ Pieces(shstrtab) \subseteq Pieces(shstrtab')
  BY PutSymtabEffect DEF TableInv, Grown
<1>3. /\ h.is = "header" /\ h.type = "SYMTAB" /\ h.size = n
      /\ h.offset = at /\ h.info = uint32(locals)
      /\ h.link = uint32(StrtabIndex)
  BY DEF HeaderRecord, StrtabIndex
<1>4. /\ SymtabIndex' = SymtabIndex /\ StrtabIndex' = StrtabIndex
      /\ SymtabIndex \in DOMAIN headers
  BY <1>1, IndexFrame, TableIndices DEF TableInv, OrderInv
<1> HIDE DEF at, h, n, x
<1>5. Pieces(buffer) \subseteq Pieces(buffer')
  BY <1>2 DEF Grown
<1>6. /\ DOMAIN headers' = DOMAIN headers
      /\ \A i \in DOMAIN headers : i # x => Content(i, headers[i])'
  BY <1>1, <1>2, <1>5, OthersStay
<1>7. headers'[SymtabIndex] = h
  BY <1>2, <1>4 DEF x
<1>8. \A i \in DOMAIN headers : i = x => Content(i, headers[i])'
  BY <1>3, <1>4, <1>7 DEF Content, x
<1>9. SymtabContent'
  <2>1. Records(h.offset, <<NullSymbol>> \o symtab, 24) \subseteq Pieces(buffer')
    BY <1>2, <1>3 DEF Grown
  <2>2. NullSymbol' = NullSymbol
    BY DEF NullSymbol
  <2> HIDE DEF entries
  <2> QED
    BY <1>1, <1>3, <1>4, <1>7, <2>1, <2>2 DEF SymtabContent, n, uint32
<1>10. Lies(buffer, 0, Ident)' /\ output' = "untouched"
  BY <1>1, <1>5, IdentStays DEF ContentInv, Described
<1> QED
  BY <1>1, <1>6, <1>8, <1>9, <1>10 DEF ContentInv

LEMMA PutStrtabContent ==
  ASSUME OrderInv, TableInv, ContentInv, PutStrtab
  PROVE  ContentInv'
<1> DEFINE at == buffer.length
           h  == HeaderRecord("STRTAB", uint32(shstrtab.length), at, strtab.length, 0, 0, 1)
           x  == StrtabIndex
<1>1. /\ pc = "strtab" /\ pc' = "shstrtab"
      /\ UNCHANGED <<object, map, output, symtab, locals, strtab>>
  BY DEF PutStrtab, Goto
<1>2. /\ headers' = [headers EXCEPT ![x] = h]
      /\ Grown(buffer, buffer', at, strtab.length,
               {Moved(p, at) : p \in Pieces(strtab)})
      /\ Pieces(shstrtab) \subseteq Pieces(shstrtab')
  BY PutStrtabEffect DEF TableInv, Grown
<1>3. h.is = "header" /\ h.type = "STRTAB" /\ h.offset = at
  BY DEF HeaderRecord
<1>4. /\ SymtabIndex' = SymtabIndex /\ StrtabIndex' = StrtabIndex
      /\ SymtabIndex \in DOMAIN headers /\ SymtabIndex # StrtabIndex
      /\ StrtabIndex \in DOMAIN headers
  BY <1>1, IndexFrame, TableIndices DEF TableInv, OrderInv
<1> HIDE DEF at, h, x
<1>5. Pieces(buffer) \subseteq Pieces(buffer')
  BY <1>2 DEF Grown
<1>6. /\ DOMAIN headers' = DOMAIN headers
      /\ \A i \in DOMAIN headers : i # x => Content(i, headers[i])'
  BY <1>1, <1>2, <1>5, OthersStay
<1>7. headers'[StrtabIndex] = h /\ headers'[SymtabIndex] = headers[SymtabIndex]
  BY <1>2, <1>4 DEF x
<1>8. \A i \in DOMAIN headers : i = x => Content(i, headers[i])'
  BY <1>3, <1>4, <1>7 DEF Content, x
<1>9. SymtabContent'
  BY <1>1, <1>5, <1>7, TablesStay DEF ContentInv
<1>10. CopyContent(StrtabIndex, strtab)'
  BY <1>1, <1>2, <1>3, <1>4, <1>7 DEF CopyContent, Grown
<1>11. Lies(buffer, 0, Ident)' /\ output' = "untouched"
  BY <1>1, <1>5, IdentStays DEF ContentInv, Described
<1> QED
  BY <1>1, <1>6, <1>8, <1>9, <1>10, <1>11 DEF ContentInv

LEMMA PutShstrtabContent ==
  ASSUME OrderInv, TableInv, ContentInv, PutShstrtab
  PROVE  ContentInv'
<1> DEFINE at == buffer.length
           n  == shstrtab'.length
           h  == HeaderRecord("STRTAB", uint32(shstrtab.length), at, n, 0, 0, 1)
           x  == ShstrtabIndex
<1>1. /\ pc = "shstrtab" /\ pc' = "headers"
      /\ UNCHANGED <<object, map, output, symtab, locals, strtab>>
  BY DEF PutShstrtab, Goto
<1>2. /\ headers' = [headers EXCEPT ![x] = h]
      /\ Grown(buffer, buffer', at, n, {Moved(p, at) : p \in Pieces(shstrtab')})
      /\ Pieces(shstrtab) \subseteq Pieces(shstrtab')
  BY PutShstrtabEffect DEF TableInv, Grown
<1>3. h.is = "header" /\ h.type = "STRTAB" /\ h.offset = at
  BY DEF HeaderRecord
<1>4. /\ SymtabIndex' = SymtabIndex /\ StrtabIndex' = StrtabIndex
      /\ ShstrtabIndex' = ShstrtabIndex
      /\ ShstrtabIndex \notin {SymtabIndex, StrtabIndex}
      /\ SymtabIndex \in DOMAIN headers /\ StrtabIndex \in DOMAIN headers
      /\ ShstrtabIndex \in DOMAIN headers
  BY <1>1, IndexFrame, TableIndices DEF TableInv, OrderInv
<1> HIDE DEF at, h, x, n
<1>5. Pieces(buffer) \subseteq Pieces(buffer')
  BY <1>2 DEF Grown
<1>6. /\ DOMAIN headers' = DOMAIN headers
      /\ \A i \in DOMAIN headers : i # x => Content(i, headers[i])'
  BY <1>1, <1>2, <1>5, OthersStay
<1>7. /\ headers'[ShstrtabIndex] = h
      /\ headers'[StrtabIndex] = headers[StrtabIndex]
      /\ headers'[SymtabIndex] = headers[SymtabIndex]
  BY <1>2, <1>4 DEF x
<1>8. \A i \in DOMAIN headers : i = x => Content(i, headers[i])'
  BY <1>3, <1>4, <1>7 DEF Content, x
<1>9. SymtabContent'
  BY <1>1, <1>5, <1>7, TablesStay DEF ContentInv
<1>10. CopyContent(StrtabIndex, strtab)'
  <2>1. CopyContent(StrtabIndex, strtab)
    BY <1>1 DEF ContentInv
  <2> QED
    BY <1>1, <1>4, <1>5, <1>7, <2>1 DEF CopyContent
<1>11. CopyContent(ShstrtabIndex, shstrtab)'
  BY <1>2, <1>3, <1>4, <1>7 DEF CopyContent, Grown
<1>12. Lies(buffer, 0, Ident)' /\ output' = "untouched"
  BY <1>1, <1>5, IdentStays DEF ContentInv, Described
<1> QED
  BY <1>1, <1>6, <1>8, <1>9, <1>10, <1>11, <1>12 DEF ContentInv

LEMMA PutHeadersContent ==
  ASSUME OrderInv, TableInv, ContentInv, PutHeaders
  PROVE  ContentInv'
<1> DEFINE at == Pad(buffer, 8).length
           new == Records(at, HeaderTable, 64)
<1>1. /\ pc = "headers" /\ pc' = "write"
      /\ UNCHANGED <<object, map, output, symtab, locals, strtab, shstrtab, headers>>
  BY DEF PutHeaders, Goto
<1>2. Grown(buffer, buffer', at, 64 * Total, new) /\ shoff' = at
  BY PutHeadersEffect DEF TableInv
<1> HIDE DEF at
<1>3. Pieces(buffer) \subseteq Pieces(buffer') /\ new \subseteq Pieces(buffer')
  BY <1>2 DEF Grown
<1>4. /\ SymtabIndex' = SymtabIndex /\ StrtabIndex' = StrtabIndex
      /\ ShstrtabIndex' = ShstrtabIndex /\ Total' = Total
  BY <1>1, IndexFrame
<1>5. \A i \in DOMAIN headers' : Content(i, headers[i])'
  <2>1. \A i, h : Content(i, h) => Content(i, h)'
    BY <1>1, <1>3, ContentStays
  <2> TAKE i \in DOMAIN headers'
  <2>2. Content(i, headers[i])
    BY <1>1 DEF ContentInv
  <2>3. \A h : h = headers[i] => Content(i, h)'
    BY <2>1, <2>2
  <2> QED
    BY <1>1, <2>3
<1>6. SymtabContent'
  BY <1>1, <1>3, <1>4, TablesStay DEF ContentInv
<1>7. CopyContent(StrtabIndex, strtab)' /\ CopyContent(ShstrtabIndex, shstrtab)'
  <2>1. CopyContent(StrtabIndex, strtab) /\ CopyContent(ShstrtabIndex, shstrtab)
    BY <1>1 DEF ContentInv
  <2> QED
    BY <1>1, <1>3, <1>4, <2>1 DEF CopyContent
<1>8. (Records(shoff, HeaderTable, 64) \subseteq Pieces(buffer))'
  <2>1. HeaderTable' = HeaderTable
    BY <1>1, <1>4 DEF HeaderTable
  <2> QED
    BY <1>2, <1>3, <2>1
<1>9. Lies(buffer, 0, Ident)' /\ output' = "untouched"
  BY <1>1, <1>3, IdentStays DEF ContentInv, Described
<1> QED
  BY <1>1, <1>5, <1>6, <1>7, <1>8, <1>9 DEF ContentInv

LEMMA ContentFrame ==
  ASSUME UNCHANGED <<object, map, symtab, locals, strtab, shstrtab, headers,
                     buffer, shoff>>,
         ContentInv,
         pc' = pc \/ pc' = "failed" \/ {pc, pc'} \subseteq {"collect", "sort", "symbols"}
           \/ {pc, pc'} \subseteq {"sections", "relas"} \/ (pc = "write" /\ pc' = "done"),
         pc' \notin {"done", "failed"} => output' = output
  PROVE  ContentInv'
<1>1. /\ SymtabIndex' = SymtabIndex /\ StrtabIndex' = StrtabIndex
      /\ ShstrtabIndex' = ShstrtabIndex /\ Total' = Total
  BY IndexFrame
<1>2. \A i \in DOMAIN headers' : Content(i, headers[i])'
  <2>1. \A i, h : Content(i, h) => Content(i, h)'
    BY ContentStays
  <2> TAKE i \in DOMAIN headers'
  <2>2. \A h : h = headers[i] => Content(i, h)'
    BY <2>1 DEF ContentInv
  <2> QED
    BY <2>2
<1>3. SymtabContent => SymtabContent'
  BY <1>1, TablesStay
<1>4. /\ CopyContent(StrtabIndex, strtab) => CopyContent(StrtabIndex, strtab)'
      /\ CopyContent(ShstrtabIndex, shstrtab) => CopyContent(ShstrtabIndex, shstrtab)'
  BY <1>1 DEF CopyContent
<1>5. HeaderTable' = HeaderTable
  BY <1>1 DEF HeaderTable
<1>6. Lies(buffer, 0, Ident) => Lies(buffer, 0, Ident)'
  BY IdentStays
<1>7. pc' \in Described => pc \in Described
  BY DEF Described
<1>8. /\ pc' \in {"strtab", "shstrtab", "headers", "write", "done"} =>
           pc \in {"strtab", "shstrtab", "headers", "write", "done"}
      /\ pc' \in {"shstrtab", "headers", "write", "done"} =>
           pc \in {"shstrtab", "headers", "write", "done"}
      /\ pc' \in {"headers", "write", "done"} => pc \in {"headers", "write", "done"}
      /\ pc' \in {"write", "done"} => pc \in {"write", "done"}
      /\ pc' \notin {"done", "failed"} => pc \notin {"done", "failed"}
  OBVIOUS
<1> QED
  BY <1>2, <1>3, <1>4, <1>5, <1>6, <1>7, <1>8 DEF ContentInv

LEMMA ContentSteps ==
  OrderInv /\ TableInv /\ LayoutInv /\ ContentInv /\ [Next]_vars => ContentInv'
<1> SUFFICES ASSUME OrderInv, TableInv, LayoutInv, ContentInv, [Next]_vars
             PROVE  ContentInv'
  OBVIOUS
<1>1. CASE \/ PutIdent \/ PutSection \/ PutRelas \/ PutSymtab \/ PutStrtab
           \/ PutShstrtab \/ PutHeaders
  BY <1>1, PutIdentContent, PutSectionContent, PutRelasContent, PutSymtabContent,
     PutStrtabContent, PutShstrtabContent, PutHeadersContent
<1>2. CASE AddSymbol
  <2>1. /\ pc = "symbols" /\ pc' = "symbols"
        /\ UNCHANGED <<headers, output>>
    BY <1>2 DEF AddSymbol
  <2>2. \A i \in DOMAIN headers : headers[i] = NullHeader
    BY <2>1 DEF LayoutInv
  <2>3. \A i \in DOMAIN headers' : Content(i, headers[i])'
    BY <2>1, <2>2 DEF Content, NullHeader
  <2> QED
    BY <2>1, <2>3 DEF ContentInv, Described
<1>3. CASE ~Appending
  <2>1. \/ pc' = pc \/ pc' = "failed"
        \/ {pc, pc'} \subseteq {"collect", "sort", "symbols"}
        \/ {pc, pc'} \subseteq {"sections", "relas"} \/ (pc = "write" /\ pc' = "done")
    BY <1>3 DEF Next, Progress, vars, Appending, Collect, EndCollect, Swap,
       InPlace, EndSort, EndSections, SkipSection, RejectHidden, WriteFile,
       WriteFails, OutOfMemory, Terminated, Fail, Goto
  <2>2. pc' \notin {"done", "failed"} => output' = output
    BY <1>3 DEF Next, Progress, vars, Appending, Collect, EndCollect, Swap,
       InPlace, EndSort, EndSections, SkipSection, RejectHidden, WriteFile,
       WriteFails, OutOfMemory, Terminated, Fail, Goto
  <2>3. UNCHANGED <<object, buffer, strtab, shstrtab, symtab, map, locals,
                    headers, shoff>>
    BY <1>3, QuietStep
  <2> QED
    BY <2>1, <2>2, <2>3, ContentFrame
<1> QED
  BY <1>1, <1>2, <1>3 DEF Appending

-----------------------------------------------------------------------------
(* The invariants, for all objects, names and capacities.                  *)

Inv == OrderInv /\ TableInv /\ SymbolInv /\ LayoutInv /\ ContentInv

(* The five layers hold of every state the writer can be in.               *)
THEOREM Invariance == Spec => []Inv
<1>1. Init => Inv
  BY InitOrder, InitTables, InitSymbols, InitLayout, InitContent DEF Inv
<1>2. Inv /\ [Next]_vars => Inv'
  BY OrderSteps, TableSteps, SymbolSteps, LayoutSteps, ContentSteps DEF Inv
<1> QED
  BY <1>1, <1>2, PTL DEF Spec

(* Every value stays in its type: a symbol is mapped to a 32-bit number,   *)
(* and the local count never passes the number of entries.                 *)
THEOREM TypeCorrect == Spec => []TypeOK
<1>1. ASSUME Inv
      PROVE  TypeOK
  <2>1. /\ pc \in Steps /\ k \in Nat \ {0} /\ rank \in Nat
        /\ order \in Seq(DOMAIN Symbols)
    BY <1>1 DEF Inv, OrderInv
  <2>2. map \in [DOMAIN Symbols -> (0 .. Len(order)) \cup {Unmapped}]
    <3> SUFFICES ASSUME NEW i \in DOMAIN Symbols, map[i] # Unmapped
                 PROVE  map[i] \in 0 .. Len(order)
      BY <1>1 DEF Inv, SymbolInv
    <3>1. PICK p \in DOMAIN symtab : map[i] = uint32(p)
      BY <1>1 DEF Inv, SymbolInv
    <3>2. symtab \in Seq(Members(symtab)) /\ Len(symtab) <= Len(order)
      BY <1>1 DEF Inv, SymbolInv
    <3>3. /\ DOMAIN symtab = 1 .. Len(symtab) /\ Len(symtab) \in Nat
          /\ p \in Nat /\ p <= Len(symtab)
      BY <3>2
    <3>4. Len(order) \in Nat
      BY <2>1
    <3>5. uint32(p) \in 0 .. p
      BY <3>3, WidthAssumption DEF uint32
    <3> QED
      BY <3>1, <3>2, <3>3, <3>4, <3>5
  <2>3. locals \in 1 .. Len(symtab) + 1
    BY <1>1 DEF Inv, SymbolInv
  <2>4. DOMAIN headers = 0 .. Total - 1 /\ shoff \in Nat /\ output \in Outputs
    BY <1>1 DEF Inv, TableInv
  <2> QED
    BY <2>1, <2>2, <2>3, <2>4 DEF TypeOK, Steps, Outputs
<1> QED
  BY <1>1, Invariance, PTL

(* No buffer's length passes its capacity, the hand-moved one of PutRelas  *)
(* included: capacities are multiples of eight.                            *)
THEOREM InBounds == Spec => []BufferInBounds
<1>1. Inv => BufferInBounds
  BY DEF Inv, TableInv, Buffers, IsBuffer, BufferInBounds
<1> QED
  BY <1>1, Invariance, PTL

LEMMA CoveredMeans ==
  \A offset, size : CoveredIn(buffer, offset, size) => Covered(offset, size)
BY DEF CoveredIn, Within, Covered, Pieces, Members

(* Every section of a finished file is aligned, before the header table,   *)
(* without a gap and apart from every other.                               *)
THEOREM LayoutCorrect == Spec => []SectionsLaidOut
<1>1. ASSUME Inv
      PROVE  SectionsLaidOut
  <2> SUFFICES ASSUME pc \in {"write", "done"}, NEW i \in 1 .. Total - 1
               PROVE  LET h == headers[i]
                      IN  /\ h.align # 0 => h.offset % h.align = 0
                          /\ 64 <= h.offset
                          /\ h.offset + h.size <= shoff
                          /\ Covered(h.offset, h.size)
                          /\ \A j \in 1 .. i - 1 :
                               \/ h.offset + h.size <= headers[j].offset
                               \/ headers[j].offset + headers[j].size <= h.offset
    BY DEF SectionsLaidOut, ElfHeaderSize
  <2>1. /\ DOMAIN headers = 0 .. Total - 1 /\ Total \in Nat
        /\ ShstrtabIndex = Total - 1
    BY <1>1, IndexFacts DEF Inv, OrderInv, TableInv, ShstrtabIndex
  <2>2. /\ LaidOut /\ \A j \in 1 .. Total - 1 : IsSet(j)
        /\ \A j \in DOMAIN headers :
             IsSet(j) => headers[j].offset + headers[j].size <= shoff
    BY <1>1, <2>1 DEF Inv, LayoutInv, FilledUpTo
  <2>3. i \in DOMAIN headers /\ IsSet(i) /\ Laid(i)
    BY <2>1, <2>2 DEF LaidOut
  <2>4. Covered(headers[i].offset, headers[i].size)
    BY <2>3, CoveredMeans DEF Laid
  <2>5. \A j \in 1 .. i - 1 : ApartHeaders(i, j)
    <3> TAKE j \in 1 .. i - 1
    <3>1. j \in 1 .. Total - 1 /\ j \in DOMAIN headers /\ i # j
      BY <2>1
    <3> QED
      BY <2>2, <2>3, <3>1 DEF LaidOut
  <2> QED
    BY <2>2, <2>3, <2>4, <2>5 DEF Laid, ApartHeaders
<1> QED
  BY <1>1, Invariance, PTL

(* Locals come first, each half in object order, and sh_info of the symbol *)
(* table is the index of the first entry that is not local, as long as 32  *)
(* bits count the symbols.                                                 *)
THEOREM OrderCorrect == Spec => []LocalsPrecedeGlobals
<1>1. ASSUME Inv
      PROVE  LocalsPrecedeGlobals
  <2>1. ASSUME pc \notin {"collect", "sort", "failed"}
        PROVE  \A p, q \in DOMAIN order :
                 p < q => \/ Rank(Symbols[order[p]]) < Rank(Symbols[order[q]])
                          \/ /\ Rank(Symbols[order[p]]) = Rank(Symbols[order[q]])
                             /\ order[p] < order[q]
    BY <1>1, <2>1 DEF Inv, OrderInv, Sorted, Before, RankOf
  <2>2. ASSUME pc \in {"strtab", "shstrtab", "headers", "write", "done"},
               SymbolsCount, NEW p \in DOMAIN symtab
        PROVE  symtab[p].binding = "local" <=> p < headers[SymtabIndex].info
    <3>1. headers[SymtabIndex].info = locals
      <4>1. headers[SymtabIndex].info = uint32(locals)
        BY <1>1, <2>2 DEF Inv, ContentInv, SymtabContent
      <4>2. /\ locals \in 1 .. Len(symtab) + 1 /\ Len(symtab) \in Nat
            /\ Len(symtab) <= Len(order) /\ Len(order) \in Nat
        BY <1>1 DEF Inv, SymbolInv, OrderInv
      <4>3. locals \in Nat /\ locals < WordSpan
        BY <2>2, <4>2, WidthAssumption DEF SymbolsCount
      <4> QED
        BY <4>1, <4>3, Uncut
    <3>2. Describes(p) /\ (RankOf(order[p]) = 0 <=> p < locals)
      BY <1>1 DEF Inv, SymbolInv
    <3>3. symtab[p].binding = IF RankOf(order[p]) = 0 THEN "local" ELSE "global"
      <4>1. \A i, n : SymbolEntry(i, n).binding
                        = IF RankOf(i) = 0 THEN "local" ELSE "global"
        BY DEF SymbolEntry
      <4>2. symtab[p] = SymbolEntry(order[p], symtab[p].name)
        BY <3>2 DEF Describes
      <4> QED
        BY <4>1, <4>2
    <3> QED
      BY <3>1, <3>2, <3>3
  <2> QED
    BY <2>1, <2>2 DEF LocalsPrecedeGlobals
<1> QED
  BY <1>1, Invariance, PTL

-----------------------------------------------------------------------------
(* Reading the file back: what lies at an offset a header names is one     *)
(* piece, the one that was put there.                                      *)

LEMMA HoldsOne ==
  ASSUME IsBuffer(buffer), SizedOrData(buffer),
         NEW at, NEW x, x.is # "data", Lies(buffer, at, x)
  PROVE  Holding(at, x.is) = {x}
<1>1. PICK p \in Pieces(buffer) : p.at = at /\ p.holds = x
  BY DEF Lies
<1>2. ASSUME NEW q \in Pieces(buffer), q.at = at, q.holds.is = x.is
      PROVE  q.holds = x
  <2>1. p.size > 0 /\ q.size > 0
    BY <1>1, <1>2 DEF SizedOrData
  <2>2. /\ p.at \in Nat /\ p.size \in Nat /\ q.at \in Nat /\ q.size \in Nat
    BY <1>1, <1>2 DEF IsBuffer, IsPiece
  <2>3. p = q \/ Apart(p, q)
    BY <1>1, <1>2 DEF IsBuffer, PiecesApart
  <2> QED
    BY <1>1, <1>2, <2>1, <2>2, <2>3 DEF Apart
<1>3. Holding(at, x.is) =
        {q.holds : q \in {r \in Pieces(buffer) : r.at = at /\ r.holds.is = x.is}}
  BY DEF Holding, Pieces, Members
<1> QED
  BY <1>1, <1>2, <1>3

(* The header indices are shared out among the sections, their relocations *)
(* and the tables.                                                         *)
LEMMA IndicesDiffer ==
  ASSUME object \in Objects
  PROVE  /\ \A i \in DOMAIN Sections :
              /\ i \in 1 .. Total - 1
              /\ i \notin {SymtabIndex, StrtabIndex, ShstrtabIndex}
              /\ \A j \in WithRelocations : i # RelaIndex(j)
         /\ \A j \in WithRelocations :
              /\ RelaIndex(j) \in 1 .. Total - 1
              /\ RelaIndex(j) \notin {SymtabIndex, StrtabIndex, ShstrtabIndex}
              /\ \A i \in WithRelocations : RelaIndex(i) = RelaIndex(j) => i = j
         /\ SymtabIndex \notin {StrtabIndex, ShstrtabIndex}
         /\ SymtabIndex \in 1 .. Total - 1 /\ StrtabIndex \in 1 .. Total - 1
         /\ ShstrtabIndex \in 1 .. Total - 1
<1> DEFINE c == Cardinality(WithRelocations)
           l == Len(Sections)
<1>1. c \in Nat /\ l \in Nat /\ DOMAIN Sections = 1 .. l /\ Total = l + c + 4
  BY IndexFacts, SymbolsAreTyped
<1>2. /\ \A n \in Nat : RelasBefore(n) \in 0 .. c
      /\ \A m, n \in Nat : m <= n => RelasBefore(m) <= RelasBefore(n)
      /\ \A n \in WithRelocations :
           RelaIndex(n) = l + RelasBefore(n) + 1
           /\ RelasBefore(n + 1) = RelasBefore(n) + 1
  BY IndexFacts
<1> HIDE DEF c, l
<1>3. /\ SymtabIndex = l + c + 1 /\ StrtabIndex = l + c + 2
      /\ ShstrtabIndex = l + c + 3
  BY <1>1 DEF SymtabIndex, StrtabIndex, ShstrtabIndex
<1>4. ASSUME NEW j \in WithRelocations
      PROVE  /\ j \in Nat /\ j + 1 \in Nat /\ RelaIndex(j) = l + RelasBefore(j) + 1
             /\ RelasBefore(j + 1) = RelasBefore(j) + 1
             /\ RelasBefore(j) \in 0 .. c - 1
  <2>1. j \in DOMAIN Sections
    BY DEF WithRelocations
  <2>2. j \in Nat /\ j + 1 \in Nat
    BY <1>1, <2>1
  <2>3. /\ RelasBefore(j + 1) \in 0 .. c /\ RelasBefore(j) \in 0 .. c
        /\ RelasBefore(j + 1) = RelasBefore(j) + 1
        /\ RelaIndex(j) = l + RelasBefore(j) + 1
    BY <1>2, <2>2
  <2> QED
    BY <1>1, <2>2, <2>3
<1>5. ASSUME NEW i \in WithRelocations, NEW j \in WithRelocations, i < j
      PROVE  RelaIndex(i) # RelaIndex(j)
  <2>1. i + 1 <= j /\ i + 1 \in Nat /\ j \in Nat
    BY <1>4, <1>5
  <2>2. RelasBefore(i + 1) <= RelasBefore(j)
    BY <1>2, <2>1
  <2>3. /\ RelaIndex(i) = l + RelasBefore(i) + 1
        /\ RelaIndex(j) = l + RelasBefore(j) + 1
        /\ RelasBefore(i + 1) = RelasBefore(i) + 1
        /\ RelasBefore(i) \in 0 .. c - 1 /\ RelasBefore(j) \in 0 .. c - 1
    BY <1>4
  <2> QED
    BY <1>1, <2>2, <2>3
<1>6. \A i, j \in WithRelocations : RelaIndex(i) = RelaIndex(j) => i = j
  <2> TAKE i, j \in WithRelocations
  <2>1. i \in Nat /\ j \in Nat
    BY <1>4
  <2>2. i = j \/ i < j \/ j < i
    BY <2>1
  <2> QED
    BY <1>5, <2>2
<1>7. \A j \in WithRelocations : RelaIndex(j) \in l + 1 .. l + c
  <2> TAKE j \in WithRelocations
  <2>1. RelaIndex(j) = l + RelasBefore(j) + 1 /\ RelasBefore(j) \in 0 .. c - 1
    BY <1>4
  <2> QED
    BY <1>1, <2>1
<1>8. \A i \in DOMAIN Sections :
        /\ i \in 1 .. Total - 1
        /\ i \notin {SymtabIndex, StrtabIndex, ShstrtabIndex}
        /\ \A j \in WithRelocations : i # RelaIndex(j)
  <2> TAKE i \in DOMAIN Sections
  <2>1. i \in 1 .. l
    BY <1>1
  <2>2. \A j \in WithRelocations : i # RelaIndex(j)
    BY <1>1, <1>7, <2>1
  <2>3. i \in 1 .. Total - 1
    BY <1>1, <2>1
  <2>4. i # SymtabIndex /\ i # StrtabIndex /\ i # ShstrtabIndex
    BY <1>1, <1>3, <2>1
  <2> QED
    BY <2>2, <2>3, <2>4
<1>9. \A j \in WithRelocations :
        /\ RelaIndex(j) \in 1 .. Total - 1
        /\ RelaIndex(j) \notin {SymtabIndex, StrtabIndex, ShstrtabIndex}
  <2> TAKE j \in WithRelocations
  <2>1. RelaIndex(j) \in l + 1 .. l + c
    BY <1>7
  <2>2. RelaIndex(j) \in 1 .. Total - 1
    BY <1>1, <2>1
  <2>3. /\ RelaIndex(j) # SymtabIndex /\ RelaIndex(j) # StrtabIndex
        /\ RelaIndex(j) # ShstrtabIndex
    BY <1>1, <1>3, <2>1
  <2> QED
    BY <2>2, <2>3
<1>10. /\ SymtabIndex # StrtabIndex /\ SymtabIndex # ShstrtabIndex
       /\ SymtabIndex \in 1 .. Total - 1 /\ StrtabIndex \in 1 .. Total - 1
       /\ ShstrtabIndex \in 1 .. Total - 1
  BY <1>1, <1>3
<1> QED
  BY <1>6, <1>8, <1>9, <1>10

Finished == pc \in {"write", "done"}

LiesIn(b) == \A n, x : LiesNear(b, n, x) => Lies(b, n, x)

(* Of an object whose numbers fit, no field of the file was cut.           *)
LEMMA NothingCut ==
  ASSUME Inv, Finished, FieldsFit
  PROVE  /\ Ident.shnum = Total /\ Ident.shstrndx = ShstrtabIndex
         /\ uint32(StrtabIndex) = StrtabIndex
         /\ \A i \in DOMAIN Sections :
              uint32(i) = i /\ uint16(i) = i /\ i < LoReserve
         /\ \A p \in 1 .. Len(symtab) : uint32(p) = p
         /\ LiesIn(strtab) /\ LiesIn(shstrtab)
<1>1. /\ object \in Objects /\ Len(Sections) \in Nat
      /\ DOMAIN Sections = 1 .. Len(Sections)
      /\ Total = Len(Sections) + Cardinality(WithRelocations) + 4
      /\ Cardinality(WithRelocations) \in Nat
  BY IndexFacts, SymbolsAreTyped DEF Inv, OrderInv
<1>2. /\ Total \in Nat /\ Total - 1 \in Nat /\ Total - 2 \in Nat
      /\ Total < LoReserve /\ Total < HalfSpan /\ Total < WordSpan
      /\ Len(Sections) < Total
  BY <1>1, WidthAssumption DEF FieldsFit
<1>3. Ident.shnum = Total /\ Ident.shstrndx = ShstrtabIndex
  <2>1. Total - 1 < HalfSpan
    BY <1>2, WidthAssumption
  <2>2. uint16(Total) = Total /\ uint16(Total - 1) = Total - 1
    BY <1>2, <2>1, Uncut
  <2> QED
    BY <2>2 DEF Ident, ShstrtabIndex
<1>4. uint32(StrtabIndex) = StrtabIndex
  <2>1. Total - 2 < WordSpan
    BY <1>2, WidthAssumption
  <2>2. uint32(Total - 2) = Total - 2
    BY <1>2, <2>1, Uncut
  <2> QED
    BY <2>2 DEF StrtabIndex
<1>5. \A i \in DOMAIN Sections :
        uint32(i) = i /\ uint16(i) = i /\ i < LoReserve
  <2> TAKE i \in DOMAIN Sections
  <2>1. i \in Nat /\ i < WordSpan /\ i < HalfSpan /\ i < LoReserve
    BY <1>1, <1>2, WidthAssumption
  <2> QED
    BY <2>1, Uncut
<1>6. \A p \in 1 .. Len(symtab) : uint32(p) = p
  <2> TAKE p \in 1 .. Len(symtab)
  <2>1. /\ Len(symtab) \in Nat /\ Len(symtab) <= Len(order) /\ Len(order) \in Nat
        /\ Len(order) + 1 < WordSpan
    BY DEF Inv, SymbolInv, OrderInv, FieldsFit, SymbolsCount
  <2>2. p \in Nat /\ p < WordSpan
    BY <2>1, WidthAssumption
  <2> QED
    BY <2>2, Uncut
<1>7. ASSUME NEW b, IsBuffer(b), Sized(b), b.length <= WordSpan
      PROVE  LiesIn(b)
  <2> SUFFICES ASSUME NEW n, NEW x, LiesNear(b, n, x)
               PROVE  Lies(b, n, x)
    BY DEF LiesIn
  <2>1. PICK at \in Nat : n = uint32(at) /\ Lies(b, at, x)
    BY DEF LiesNear
  <2>2. PICK p \in Pieces(b) : p.at = at /\ p.holds = x
    BY <2>1 DEF Lies
  <2>3. p.size \in Nat /\ p.size > 0 /\ at + p.size <= b.length /\ b.length \in Nat
    BY <1>7, <2>2 DEF IsBuffer, IsPiece, Sized
  <2>4. at < WordSpan
    BY <1>7, <2>3, WidthAssumption
  <2> QED
    BY <2>1, <2>4, Uncut
<1>8. LiesIn(strtab) /\ LiesIn(shstrtab)
  BY <1>7 DEF Inv, TableInv, Buffers, FieldsFit
<1> QED
  BY <1>3, <1>4, <1>5, <1>6, <1>8

LEMMA HeadersPoint ==
  ASSUME Inv, Finished
  PROVE  /\ \A i \in DOMAIN Sections : SectionContent(i, headers[i])
         /\ \A j \in WithRelocations : RelaContent(j, headers[RelaIndex(j)])
         /\ headers[SymtabIndex].type = "SYMTAB"
         /\ \A i \in 0 .. Total - 1 :
              /\ headers[i].is = "header"
              /\ headers[i].type = "PROGBITS" => i \in DOMAIN Sections
              /\ headers[i].type = "RELA" =>
                   \E j \in WithRelocations : i = RelaIndex(j)
              /\ headers[i].type = "SYMTAB" => i = SymtabIndex
<1>1. /\ object \in Objects /\ DOMAIN headers = 0 .. Total - 1
      /\ ShstrtabIndex = Total - 1 /\ Total \in Nat
  BY IndexFacts DEF Inv, OrderInv, TableInv, ShstrtabIndex
<1>2. \A i \in 1 .. Total - 1 : i \in DOMAIN headers /\ headers[i].type # "NULL"
  <2>1. FilledUpTo(ShstrtabIndex)
    BY DEF Inv, LayoutInv, Finished
  <2> QED
    BY <1>1, <2>1 DEF FilledUpTo, IsSet
<1>3. \A i \in DOMAIN headers : Content(i, headers[i])
  BY DEF Inv, ContentInv
<1>4. \A i \in DOMAIN Sections : SectionContent(i, headers[i])
  <2> TAKE i \in DOMAIN Sections
  <2>1. /\ Content(i, headers[i]) /\ headers[i].type # "NULL"
        /\ i \notin {SymtabIndex, StrtabIndex, ShstrtabIndex}
        /\ \A j \in WithRelocations : i # RelaIndex(j)
    BY <1>1, <1>2, <1>3, IndicesDiffer
  <2> QED
    BY <2>1 DEF Content
<1>5. \A j \in WithRelocations : RelaContent(j, headers[RelaIndex(j)])
  <2> TAKE j \in WithRelocations
  <2> DEFINE x == RelaIndex(j)
  <2>1. /\ x \in 1 .. Total - 1
        /\ x \notin {SymtabIndex, StrtabIndex, ShstrtabIndex}
        /\ \A i \in WithRelocations : RelaIndex(i) = x => i = j
        /\ x \notin DOMAIN Sections
    BY <1>1, IndicesDiffer
  <2>2. Content(x, headers[x]) /\ headers[x].type # "NULL"
    BY <1>2, <1>3, <2>1
  <2> QED
    BY <2>1, <2>2 DEF Content
<1>6. headers[SymtabIndex].type = "SYMTAB"
  <2>1. /\ SymtabIndex \in 1 .. Total - 1
        /\ SymtabIndex \notin {StrtabIndex, ShstrtabIndex}
        /\ SymtabIndex \notin DOMAIN Sections
        /\ \A j \in WithRelocations : SymtabIndex # RelaIndex(j)
    BY <1>1, IndicesDiffer
  <2>2. Content(SymtabIndex, headers[SymtabIndex]) /\ headers[SymtabIndex].type # "NULL"
    BY <1>2, <1>3, <2>1
  <2> QED
    BY <2>1, <2>2 DEF Content
<1>7. ASSUME NEW i \in 0 .. Total - 1
      PROVE  /\ headers[i].is = "header"
             /\ headers[i].type = "PROGBITS" => i \in DOMAIN Sections
             /\ headers[i].type = "RELA" =>
                  \E j \in WithRelocations : i = RelaIndex(j)
             /\ headers[i].type = "SYMTAB" => i = SymtabIndex
  <2>1. Content(i, headers[i])
    BY <1>1, <1>3
  <2> QED
    BY <2>1 DEF Content, SectionContent, RelaContent
<1> QED
  BY <1>4, <1>5, <1>6, <1>7

LEMMA ReadsHeaders ==
  ASSUME Inv, Finished
  PROVE  \A i \in 0 .. Total - 1 : HeaderAt(i) = {headers[i]}
<1> TAKE i \in 0 .. Total - 1
<1> DEFINE p == [at |-> shoff + 64 * i, size |-> 64, holds |-> headers[i]]
<1>1. Total \in Nat /\ i \in Nat /\ i + 1 \in 1 .. Total
  BY IndexFacts DEF Inv, OrderInv
<1>2. /\ DOMAIN HeaderTable = 1 .. Total /\ HeaderTable[i + 1] = headers[i]
  BY <1>1 DEF HeaderTable
<1>3. p \in Records(shoff, HeaderTable, 64)
  <2>1. (i + 1) - 1 = i
    BY <1>1
  <2> QED
    BY <1>1, <1>2, <2>1 DEF Records
<1>4. p \in Pieces(buffer)
  BY <1>3 DEF Inv, ContentInv, Finished
<1>5. p.at = shoff + 64 * i /\ p.holds = headers[i]
  OBVIOUS
<1>6. Lies(buffer, shoff + 64 * i, headers[i])
  BY <1>4, <1>5 DEF Lies
<1>7. headers[i].is = "header"
  BY HeadersPoint
<1>8. IsBuffer(buffer) /\ SizedOrData(buffer)
  BY DEF Inv, TableInv, Buffers
<1>9. Holding(shoff + 64 * i, "header") = {headers[i]}
  BY <1>6, <1>7, <1>8, HoldsOne
<1> QED
  BY <1>9 DEF HeaderAt, SectionHeaderSize

LEMMA ReadsNames ==
  ASSUME Inv, Finished, FieldsFit, NEW at, NEW name
  PROVE  /\ LiesNear(strtab, at, String("", name)) =>
              StringsAt(StrtabIndex, at) = {name}
         /\ LiesNear(shstrtab, at, String("", name)) =>
              StringsAt(ShstrtabIndex, at) = {name}
<1> DEFINE x == String("", name)
<1>1. IsBuffer(buffer) /\ SizedOrData(buffer)
  BY DEF Inv, TableInv, Buffers
<1>2. x.is = "string" /\ x.name = name
  BY DEF String
<1> HIDE DEF x
<1>3. ASSUME NEW i \in 0 .. Total - 1, NEW t, CopyContent(i, t), Lies(t, at, x)
      PROVE  StringsAt(i, at) = {name}
  <2>1. PICK p \in Pieces(t) : p.at = at /\ p.holds = x
    BY <1>3 DEF Lies
  <2>2. Moved(p, headers[i].offset) \in Pieces(buffer)
    BY <1>3, <2>1 DEF CopyContent
  <2>3. /\ Moved(p, headers[i].offset).at = headers[i].offset + at
        /\ Moved(p, headers[i].offset).holds = x
    BY <2>1 DEF Moved
  <2>4. Lies(buffer, headers[i].offset + at, x)
    BY <2>2, <2>3 DEF Lies
  <2>5. Holding(headers[i].offset + at, "string") = {x}
    BY <1>1, <1>2, <2>4, HoldsOne
  <2>6. HeaderAt(i) = {headers[i]}
    BY ReadsHeaders
  <2> QED
    BY <1>2, <2>5, <2>6 DEF StringsAt
<1>4. StrtabIndex \in 0 .. Total - 1 /\ ShstrtabIndex \in 0 .. Total - 1
  BY IndicesDiffer DEF Inv, OrderInv
<1>5. CopyContent(StrtabIndex, strtab) /\ CopyContent(ShstrtabIndex, shstrtab)
  BY DEF Inv, ContentInv, Finished
<1>6. LiesIn(strtab) /\ LiesIn(shstrtab)
  BY NothingCut
<1> QED
  BY <1>3, <1>4, <1>5, <1>6 DEF x, LiesIn

(* The ELF header says how many headers there are.                         *)
LEMMA ReadsIdent ==
  ASSUME Inv, Finished, FieldsFit
  PROVE  Holding(0, "ident") = {Ident} /\ HeaderNumbers = 0 .. Total - 1
<1>1. Holding(0, "ident") = {Ident}
  <2>1. Lies(buffer, 0, Ident) /\ IsBuffer(buffer) /\ SizedOrData(buffer)
    BY DEF Inv, ContentInv, TableInv, Buffers, Finished, Described
  <2>2. Ident.is = "ident"
    BY DEF Ident
  <2> QED
    BY <2>1, <2>2, HoldsOne
<1>2. HeaderNumbers = 0 .. Ident.shnum - 1
  BY <1>1 DEF HeaderNumbers
<1> QED
  BY <1>1, <1>2, NothingCut

LEMMA ReadsSections ==
  ASSUME Inv, Finished, FieldsFit
  PROVE  ReadSections = Contract!MeaningOf(object).sections
<1> DEFINE M(i) == [index |-> i, name |-> Sections[i].name, size |-> Sections[i].size]
           Good(i) == {g \in HeaderAt(i) : g.type = "PROGBITS" /\ HasData(i, g)}
           Read(i) == UNION {{[index |-> i, name |-> n, size |-> h.size] :
                                n \in SectionNames(h)} : h \in Good(i)}
<1>1. /\ \A i \in DOMAIN Sections : i \in 0 .. Total - 1
      /\ \A i \in 0 .. Total - 1 : HeaderAt(i) = {headers[i]}
  BY IndicesDiffer, ReadsHeaders DEF Inv, OrderInv
<1>2. ASSUME NEW i \in DOMAIN Sections
      PROVE  Read(i) = {M(i)}
  <2> DEFINE h == headers[i]
  <2>1. SectionContent(i, h)
    BY HeadersPoint
  <2>2. \E p \in DOMAIN buffer.pieces :
          buffer.pieces[p] = [at |-> h.offset, size |-> h.size,
                              holds |-> [is |-> "data", index |-> i]]
    BY <2>1 DEF SectionContent, Pieces, Members
  <2>3. HasData(i, h)
    BY <2>2 DEF HasData
  <2>4. Good(i) = {h}
    BY <1>1, <2>1, <2>3 DEF SectionContent
  <2>5. SectionNames(h) = {Sections[i].name}
    <3>1. StringsAt(ShstrtabIndex, h.name) = {Sections[i].name}
      BY <2>1, ReadsNames DEF SectionContent
    <3>2. Holding(0, "ident") = {Ident}
      BY ReadsIdent
    <3>3. Ident.shstrndx = ShstrtabIndex
      BY NothingCut
    <3> QED
      BY <3>1, <3>2, <3>3 DEF SectionNames
  <2>6. h.size = Sections[i].size
    BY <2>1 DEF SectionContent
  <2> HIDE DEF h, Good
  <2> QED
    BY <2>4, <2>5, <2>6
<1>3. ASSUME NEW i \in 0 .. Total - 1, i \notin DOMAIN Sections
      PROVE  Read(i) = {}
  <2>1. headers[i].type # "PROGBITS"
    BY <1>3, HeadersPoint
  <2>2. Good(i) = {}
    BY <1>1, <2>1
  <2> HIDE DEF Good
  <2> QED
    BY <2>2
<1>4. ReadSections = UNION {Read(i) : i \in 0 .. Total - 1}
  BY ReadsIdent DEF ReadSections
<1>5. Contract!MeaningOf(object).sections = {M(i) : i \in DOMAIN Sections}
  BY DEF Contract!MeaningOf, Sections
<1> HIDE DEF M, Read
<1> QED
  BY <1>1, <1>2, <1>3, <1>4, <1>5

Symtab == headers[SymtabIndex]

LEMMA FindsSymtab ==
  ASSUME Inv, Finished, FieldsFit
  PROVE  HeadersOf("SYMTAB") = {Symtab}
<1>1. SymtabIndex \in 0 .. Total - 1
  BY IndicesDiffer DEF Inv, OrderInv
<1>2. \A i \in 0 .. Total - 1 : HeaderAt(i) = {headers[i]}
  BY ReadsHeaders
<1>3. /\ headers[SymtabIndex].type = "SYMTAB"
      /\ \A i \in 0 .. Total - 1 : headers[i].type = "SYMTAB" => i = SymtabIndex
  BY HeadersPoint
<1> QED
  BY <1>1, <1>2, <1>3, ReadsIdent DEF HeadersOf, Symtab

(* An entry of the table with its name, as a reader takes it.              *)
Named(e, n) ==
  [name |-> n, exported |-> e.binding = "global", section |-> e.shndx,
   value |-> e.value]

LEMMA EntryMeans ==
  ASSUME Inv, Finished, FieldsFit, NEW p \in 1 .. Len(symtab)
  PROVE  LET e == symtab[p]
             s == Symbols[order[p]]
         IN  /\ e.is = "symbol" /\ e.shndx < LoReserve
             /\ LiesNear(strtab, e.name, String("", s.name))
             /\ Named(e, s.name) = Contract!MeaningOfSymbol(s)
<1> DEFINE e == symtab[p]
           s == Symbols[order[p]]
<1>1. p \in DOMAIN symtab
  BY DEF Inv, SymbolInv
<1>2. /\ e = SymbolEntry(order[p], e.name)
      /\ LiesNear(strtab, e.name, String("", s.name))
  BY <1>1 DEF Inv, SymbolInv, Describes
<1>3. \A i, n :
        /\ SymbolEntry(i, n).is = "symbol"
        /\ SymbolEntry(i, n).binding = IF RankOf(i) = 0 THEN "local" ELSE "global"
        /\ SymbolEntry(i, n).shndx
             = IF Symbols[i].defined THEN uint16(Symbols[i].section) ELSE 0
        /\ SymbolEntry(i, n).value
             = IF Symbols[i].defined THEN Symbols[i].value ELSE 0
  BY DEF SymbolEntry
<1>4. /\ e.is = "symbol"
      /\ e.binding = IF RankOf(order[p]) = 0 THEN "local" ELSE "global"
      /\ e.shndx = IF s.defined THEN uint16(s.section) ELSE 0
      /\ e.value = IF s.defined THEN s.value ELSE 0
  <2> DEFINE i == order[p]
  <2>1. e = SymbolEntry(i, e.name)
    BY <1>2
  <2> HIDE DEF e, i
  <2>2. /\ e.is = "symbol"
        /\ e.binding = IF RankOf(i) = 0 THEN "local" ELSE "global"
        /\ e.shndx = IF Symbols[i].defined THEN uint16(Symbols[i].section) ELSE 0
        /\ e.value = IF Symbols[i].defined THEN Symbols[i].value ELSE 0
    BY <1>3, <2>1
  <2> QED
    BY <2>2 DEF i
<1>9. s.section \in 0 .. Len(Sections)
  <2>1. /\ object \in Objects /\ order \in Seq(DOMAIN Symbols)
        /\ p \in DOMAIN order
    BY <1>1 DEF Inv, OrderInv, SymbolInv
  <2>2. s \in SymbolOf(object)
    BY <2>1, SymbolsAreTyped
  <2> QED
    BY <2>2 DEF SymbolOf, Sections
<1>10. uint16(s.section) = s.section /\ s.section < LoReserve
  <2>1. \A i \in DOMAIN Sections : uint16(i) = i /\ i < LoReserve
    BY NothingCut
  <2>2. uint16(0) = 0 /\ 0 < LoReserve
    BY Uncut, WidthAssumption
  <2>3. Len(Sections) \in Nat /\ DOMAIN Sections = 1 .. Len(Sections)
    BY SymbolsAreTyped DEF Inv, OrderInv
  <2> HIDE DEF s
  <2> QED
    BY <1>9, <2>1, <2>2, <2>3
<1>11. /\ e.shndx = IF s.defined THEN s.section ELSE 0
       /\ e.shndx < LoReserve
  <2> HIDE DEF s, e
  <2> QED
    BY <1>4, <1>10, WidthAssumption
<1>5. RankOf(order[p]) = 0 <=> ~Contract!Exported(s)
  BY DEF RankOf, Rank, Contract!Exported
<1>6. (e.binding = "global") <=> Contract!Exported(s)
  BY <1>4, <1>5
<1>7. (e.binding = "global") = Contract!Exported(s)
  BY <1>6 DEF Contract!Exported
<1> HIDE DEF e, s
<1>8. Named(e, s.name) = Contract!MeaningOfSymbol(s)
  BY <1>4, <1>7, <1>11 DEF Contract!MeaningOfSymbol, Named
<1> QED
  BY <1>2, <1>4, <1>8, <1>11 DEF e, s

LEMMA ReadsSymbol ==
  ASSUME Inv, Finished, FieldsFit, NEW p \in 1 .. Len(symtab)
  PROVE  ReadSymbol(p) = {Contract!MeaningOfSymbol(Symbols[order[p]])}
<1> DEFINE e == symtab[p]
           s == Symbols[order[p]]
           h == Symtab
           entries == <<NullSymbol>> \o symtab
           q == [at |-> h.offset + 24 * p, size |-> 24, holds |-> e]
<1>1. symtab \in Seq(Members(symtab)) /\ Len(symtab) \in Nat /\ p \in Nat
  BY DEF Inv, SymbolInv
<1>2. SymtabContent
  BY DEF Inv, ContentInv, Finished
<1>3. p + 1 \in DOMAIN entries /\ entries[p + 1] = e
  <2>1. /\ <<NullSymbol>> \in Seq({NullSymbol} \cup Members(symtab))
        /\ symtab \in Seq({NullSymbol} \cup Members(symtab))
        /\ Len(<<NullSymbol>>) = 1
    BY <1>1, SeqMonotonic
  <2>2. /\ Len(entries) = 1 + Len(symtab)
        /\ entries \in Seq({NullSymbol} \cup Members(symtab))
        /\ \A i \in 1 .. 1 + Len(symtab) :
             entries[i] = IF i <= 1 THEN <<NullSymbol>>[i] ELSE symtab[i - 1]
    BY <2>1, ConcatProperties
  <2> HIDE DEF entries
  <2>3. p + 1 \in 1 .. 1 + Len(symtab) /\ ~(p + 1 <= 1) /\ (p + 1) - 1 = p
    BY <1>1
  <2>4. DOMAIN entries = 1 .. 1 + Len(symtab)
    BY <1>1, <2>2
  <2> QED
    BY <2>2, <2>3, <2>4
<1>4. q \in Records(h.offset, entries, 24)
  <2>1. (p + 1) - 1 = p
    BY <1>1
  <2> HIDE DEF entries, e, h
  <2> QED
    BY <1>3, <2>1 DEF Records
<1>5. q \in Pieces(buffer) /\ h.link = StrtabIndex
  BY <1>2, <1>4, NothingCut DEF SymtabContent, Symtab
<1>6. Lies(buffer, h.offset + 24 * p, e)
  <2>1. q.at = h.offset + 24 * p /\ q.holds = e
    OBVIOUS
  <2> QED
    BY <1>5, <2>1 DEF Lies
<1>7. /\ e.is = "symbol" /\ LiesNear(strtab, e.name, String("", s.name))
      /\ e.shndx < LoReserve
      /\ Named(e, s.name) = Contract!MeaningOfSymbol(s)
  BY EntryMeans
<1>8. IsBuffer(buffer) /\ SizedOrData(buffer)
  BY DEF Inv, TableInv, Buffers
<1> HIDE DEF e, s, h, q, entries
<1>9. Holding(h.offset + RecordSize * p, "symbol") = {e}
  BY <1>6, <1>7, <1>8, HoldsOne DEF RecordSize
<1>10. StringsAt(h.link, e.name) = {s.name}
  BY <1>5, <1>7, ReadsNames
<1>11. HeadersOf("SYMTAB") = {h}
  BY FindsSymtab DEF h
<1>12. ReadSymbol(p) = {Contract!MeaningOfSymbol(s)}
  <2> DEFINE R(g, x) == {Named(x, n) : n \in StringsAt(g.link, x.name)}
             E(g) == {x \in Holding(g.offset + RecordSize * p, "symbol") :
                        x.shndx < LoReserve}
  <2>1. ReadSymbol(p) =
          UNION {UNION {R(g, x) : x \in E(g)} : g \in HeadersOf("SYMTAB")}
    BY DEF ReadSymbol, Named
  <2>2. R(h, e) = {Contract!MeaningOfSymbol(s)}
    <3>1. \A N : N = {s.name} => {Named(e, n) : n \in N} = {Named(e, s.name)}
      OBVIOUS
    <3>2. R(h, e) = {Named(e, s.name)}
      BY <1>10, <3>1
    <3> QED
      BY <1>7, <3>2
  <2>3. E(h) = {e}
    BY <1>7, <1>9
  <2> HIDE DEF R, E
  <2>4. UNION {R(h, x) : x \in E(h)} = R(h, e)
    BY <2>3
  <2> QED
    BY <1>11, <2>1, <2>2, <2>4
<1> QED
  BY <1>12 DEF s

LEMMA ReadsSymbols ==
  ASSUME Inv, Finished, FieldsFit
  PROVE  ReadSymbols = Contract!MeaningOf(object).symbols
<1> DEFINE M(i) == Contract!MeaningOfSymbol(Symbols[i])
<1>1. /\ Len(symtab) \in Nat /\ Len(symtab) = Len(order)
      /\ order \in Seq(DOMAIN Symbols) /\ Sorted
      /\ object \in Objects
  BY DEF Inv, SymbolInv, OrderInv, Finished, Described
<1>2. (Symtab.size \div RecordSize) - 1 = Len(symtab)
  <2>1. Symtab.size = 24 * (Len(symtab) + 1)
    BY DEF Inv, ContentInv, SymtabContent, Finished, Symtab
  <2> QED
    BY <1>1, <2>1 DEF RecordSize
<1>3. ReadSymbols = UNION {ReadSymbol(p) : p \in 1 .. Len(symtab)}
  <2>1. HeadersOf("SYMTAB") = {Symtab}
    BY FindsSymtab
  <2> DEFINE S(h) == UNION {ReadSymbol(p) : p \in 1 .. (h.size \div RecordSize) - 1}
  <2>2. ReadSymbols = UNION {S(h) : h \in {Symtab}}
    BY <2>1 DEF ReadSymbols
  <2>3. S(Symtab) = UNION {ReadSymbol(p) : p \in 1 .. Len(symtab)}
    BY <1>2
  <2> HIDE DEF S
  <2> QED
    BY <2>2, <2>3
<1>4. \A p \in 1 .. Len(symtab) : ReadSymbol(p) = {M(order[p])}
  BY ReadsSymbol
<1>5. {order[p] : p \in 1 .. Len(symtab)} = Contract!Visible(object)
  <2>1. Members(order) = VisibleUpTo(Len(Symbols))
    BY <1>1 DEF Sorted
  <2>2. Members(order) = {order[p] : p \in 1 .. Len(symtab)}
    BY <1>1 DEF Members
  <2>3. Len(Symbols) \in Nat /\ DOMAIN Symbols = 1 .. Len(Symbols)
    BY <1>1, SymbolsAreTyped
  <2>4. VisibleUpTo(Len(Symbols)) = {s \in DOMAIN Symbols : ~HideSymbol(Symbols[s])}
    BY <2>3 DEF VisibleUpTo
  <2>5. Contract!Visible(object) = {s \in DOMAIN Symbols : ~HideSymbol(Symbols[s])}
    BY DEF Contract!Visible, Contract!Hide, HideSymbol, Symbols
  <2> QED
    BY <2>1, <2>2, <2>4, <2>5
<1>6. Contract!MeaningOf(object).symbols = {M(i) : i \in Contract!Visible(object)}
  BY DEF Contract!MeaningOf, Symbols
<1> HIDE DEF M
<1>7. ReadSymbols = {M(order[p]) : p \in 1 .. Len(symtab)}
  BY <1>3, <1>4
<1>8. {M(order[p]) : p \in 1 .. Len(symtab)} = {M(i) : i \in Contract!Visible(object)}
  BY <1>5
<1> QED
  BY <1>6, <1>7, <1>8

(* No two kinds of an architecture share their number.                     *)
LEMMA KindsDiffer ==
  ASSUME object \in Objects
  PROVE  \A kind \in DOMAIN RelocationTypes[object.arch] :
           KindOfType(RelocationType(kind)) = kind
<1>1. object.arch \in DOMAIN RelocationTypes
  BY ObjectsAssumption
<1>2. DOMAIN RelocationTypes = {"arm64", "x86_64", "bslash"}
  BY DEF RelocationTypes
<1>3. \A i, j \in DOMAIN RelocationTypes[object.arch] :
        RelocationTypes[object.arch][i] = RelocationTypes[object.arch][j] => i = j
  <2>1. CASE object.arch = "arm64"
    BY <2>1 DEF RelocationTypes
  <2>2. CASE object.arch = "x86_64"
    BY <2>2 DEF RelocationTypes
  <2>3. CASE object.arch = "bslash"
    BY <2>3 DEF RelocationTypes
  <2> QED
    BY <1>1, <1>2, <2>1, <2>2, <2>3
<1> QED
  BY <1>3 DEF KindOfType, RelocationType

LEMMA ReadsRela ==
  ASSUME Inv, Finished, FieldsFit, NEW j \in WithRelocations,
         NEW r \in DOMAIN Sections[j].relocations
  PROVE  LET h   == headers[RelaIndex(j)]
             rel == Sections[j].relocations[r]
         IN  /\ Holding(h.offset + RecordSize * (r - 1), "rela") = {Rela(rel)}
             /\ Rela(rel).offset = rel.offset
             /\ KindOfType(Rela(rel).type) = rel.kind
             /\ ReadSymbol(Rela(rel).symbol)
                  = {Contract!MeaningOfSymbol(Symbols[rel.symbol])}
<1> DEFINE h   == headers[RelaIndex(j)]
           rel == Sections[j].relocations[r]
           relas == Relas(Sections[j])
           q   == [at |-> h.offset + 24 * (r - 1), size |-> 24, holds |-> Rela(rel)]
<1>1. object \in Objects /\ j \in DOMAIN Sections
  BY DEF Inv, OrderInv, WithRelocations
<1>2. rel \in RelocationOf(object)
  <2>1. Sections[j].relocations \in Seq(RelocationOf(object))
    BY <1>1, NameSizes
  <2> QED
    BY <2>1
<1>3. RelaContent(j, h)
  BY HeadersPoint
<1>4. r \in DOMAIN relas /\ relas[r] = Rela(rel)
  BY DEF Relas
<1>5. q \in Pieces(buffer)
  <2>1. q \in Records(h.offset, relas, 24)
    <3> HIDE DEF h, relas
    <3> QED
      BY <1>4 DEF Records
  <2> QED
    BY <1>3, <2>1 DEF RelaContent
<1>6. Holding(h.offset + RecordSize * (r - 1), "rela") = {Rela(rel)}
  <2>1. q.at = h.offset + 24 * (r - 1) /\ q.holds = Rela(rel)
    OBVIOUS
  <2>2. Rela(rel).is = "rela"
    BY DEF Rela
  <2>3. IsBuffer(buffer) /\ SizedOrData(buffer)
    BY DEF Inv, TableInv, Buffers
  <2> HIDE DEF q, h, rel
  <2>4. Lies(buffer, h.offset + 24 * (r - 1), Rela(rel))
    BY <1>5, <2>1 DEF Lies
  <2> QED
    BY <2>2, <2>3, <2>4, HoldsOne DEF RecordSize
<1>7. /\ rel.symbol \in DOMAIN Symbols
      /\ rel.kind \in DOMAIN RelocationTypes[object.arch]
  BY <1>2 DEF RelocationOf, Symbols
<1>8. KindOfType(Rela(rel).type) = rel.kind
  <2>1. Rela(rel).type = RelocationType(rel.kind)
    BY DEF Rela
  <2> QED
    BY <1>1, <1>7, <2>1, KindsDiffer
<1>9. map[rel.symbol] # Unmapped
  BY <1>3 DEF RelaContent, RefersToHidden
<1>10. map[rel.symbol] \in 1 .. Len(symtab) /\ order[map[rel.symbol]] = rel.symbol
  <2>1. PICK p \in DOMAIN symtab : order[p] = rel.symbol /\ map[rel.symbol] = uint32(p)
    BY <1>7, <1>9 DEF Inv, SymbolInv
  <2>2. DOMAIN symtab = 1 .. Len(symtab)
    BY DEF Inv, SymbolInv
  <2>3. uint32(p) = p
    BY <2>1, <2>2, NothingCut
  <2> QED
    BY <2>1, <2>2, <2>3
<1>11. ReadSymbol(Rela(rel).symbol) = {Contract!MeaningOfSymbol(Symbols[rel.symbol])}
  <2>1. Rela(rel).symbol = map[rel.symbol]
    BY DEF Rela
  <2> QED
    BY <1>10, <2>1, ReadsSymbol
<1>12. Rela(rel).offset = rel.offset
  BY DEF Rela
<1> QED
  BY <1>6, <1>8, <1>11, <1>12

LEMMA ReadsRelocations ==
  ASSUME Inv, Finished, FieldsFit
  PROVE  ReadRelocations = Contract!MeaningOf(object).relocations
<1> DEFINE H(j)    == headers[RelaIndex(j)]
           Rel(j, r) == Sections[j].relocations[r]
           M(j, r) == [section |-> j, offset |-> Rel(j, r).offset,
                       kind |-> Rel(j, r).kind, name |-> Symbols[Rel(j, r).symbol].name]
           N(h, e, s) == [section |-> h.info, offset |-> e.offset,
                          kind |-> KindOfType(e.type), name |-> s.name]
           E(h, r) == Holding(h.offset + RecordSize * r, "rela")
           T(h, e) == {N(h, e, s) : s \in ReadSymbol(e.symbol)}
           U(h, r) == UNION {T(h, e) : e \in E(h, r)}
           V(h)    == UNION {U(h, r) : r \in 0 .. (h.size \div RecordSize) - 1}
<1>1. ASSUME NEW j \in WithRelocations, NEW r \in DOMAIN Sections[j].relocations
      PROVE  U(H(j), r - 1) = {M(j, r)}
  <2> DEFINE e == Rela(Rel(j, r))
             s == Contract!MeaningOfSymbol(Symbols[Rel(j, r).symbol])
  <2>1. /\ E(H(j), r - 1) = {e} /\ e.offset = Rel(j, r).offset
        /\ KindOfType(e.type) = Rel(j, r).kind /\ ReadSymbol(e.symbol) = {s}
    BY ReadsRela
  <2>2. H(j).info = j
    <3>1. j \in DOMAIN Sections
      BY DEF WithRelocations
    <3> QED
      BY <3>1, HeadersPoint, NothingCut DEF RelaContent
  <2>3. s.name = Symbols[Rel(j, r).symbol].name
    BY DEF Contract!MeaningOfSymbol
  <2>4. N(H(j), e, s) = M(j, r)
    <3> HIDE DEF e, s
    <3> QED
      BY <2>1, <2>2, <2>3
  <2>5. T(H(j), e) = {N(H(j), e, s)}
    <3> HIDE DEF e, s, N, H
    <3> QED
      BY <2>1
  <2> HIDE DEF T, E, e, H, N, M
  <2> QED
    BY <2>1, <2>4, <2>5
<1>2. ASSUME NEW j \in WithRelocations
      PROVE  V(H(j)) = {M(j, r) : r \in DOMAIN Sections[j].relocations}
  <2> DEFINE n == Len(Sections[j].relocations)
  <2>1. n \in Nat /\ DOMAIN Sections[j].relocations = 1 .. n
    <3>1. object \in Objects /\ j \in DOMAIN Sections
      BY DEF Inv, OrderInv, WithRelocations
    <3>2. Sections[j].relocations \in Seq(RelocationOf(object))
      BY <3>1, NameSizes
    <3> QED
      BY <3>2
  <2>2. (H(j).size \div RecordSize) - 1 = n - 1
    <3>1. H(j).size = 24 * n
      BY HeadersPoint DEF RelaContent
    <3> HIDE DEF n, H
    <3> QED
      BY <2>1, <3>1 DEF RecordSize
  <2> HIDE DEF n, H, U, M
  <2>3. V(H(j)) = UNION {U(H(j), r) : r \in 0 .. n - 1}
    BY <2>2
  <2>4. \A r \in 1 .. n : U(H(j), r - 1) = {M(j, r)}
    BY <1>1, <2>1
  <2>5. \A r \in 0 .. n - 1 : r + 1 \in 1 .. n /\ (r + 1) - 1 = r
    BY <2>1
  <2>6. \A r \in 0 .. n - 1 : U(H(j), r) = {M(j, r + 1)}
    <3> TAKE r \in 0 .. n - 1
    <3>1. r + 1 \in 1 .. n /\ (r + 1) - 1 = r
      BY <2>5
    <3> QED
      BY <2>4, <3>1
  <2>7. \A r \in 1 .. n : r - 1 \in 0 .. n - 1
    BY <2>1
  <2> HIDE DEF V
  <2>8. V(H(j)) = {M(j, r + 1) : r \in 0 .. n - 1}
    BY <2>3, <2>6
  <2>9. {M(j, r + 1) : r \in 0 .. n - 1} = {M(j, r) : r \in 1 .. n}
    <3>1. \A r \in 1 .. n : r - 1 \in 0 .. n - 1 /\ (r - 1) + 1 = r
      BY <2>1
    <3> QED
      BY <2>5, <3>1
  <2> QED
    BY <2>1, <2>8, <2>9
<1>3. HeadersOf("RELA") = {H(j) : j \in WithRelocations}
  <2>1. \A i \in 0 .. Total - 1 : HeaderAt(i) = {headers[i]}
    BY ReadsHeaders
  <2>2. \A j \in WithRelocations : RelaIndex(j) \in 0 .. Total - 1
    BY IndicesDiffer DEF Inv, OrderInv
  <2>3. \A j \in WithRelocations : H(j).type = "RELA"
    BY HeadersPoint DEF RelaContent
  <2>4. \A i \in 0 .. Total - 1 :
          headers[i].type = "RELA" => \E j \in WithRelocations : i = RelaIndex(j)
    BY HeadersPoint
  <2> QED
    BY <2>1, <2>2, <2>3, <2>4, ReadsIdent DEF HeadersOf
<1>4. ReadRelocations = UNION {V(h) : h \in HeadersOf("RELA")}
  BY DEF ReadRelocations
<1>5. Contract!MeaningOf(object).relocations =
        UNION {{M(j, r) : r \in DOMAIN Sections[j].relocations} :
               j \in DOMAIN Sections}
  <2> DEFINE K(j, rel) == [section |-> j, offset |-> rel.offset, kind |-> rel.kind,
                           name |-> Symbols[rel.symbol].name]
             W(j) == {K(j, rel) : rel \in {Sections[j].relocations[r] :
                                             r \in DOMAIN Sections[j].relocations}}
  <2>1. Contract!MeaningOf(object).relocations = UNION {W(j) : j \in DOMAIN Sections}
    BY DEF Contract!MeaningOf, Sections, Symbols
  <2>2. \A j, r : K(j, Sections[j].relocations[r]) = M(j, r)
    OBVIOUS
  <2> HIDE DEF K, M
  <2>3. \A j : W(j) = {M(j, r) : r \in DOMAIN Sections[j].relocations}
    BY <2>2
  <2> HIDE DEF W
  <2> QED
    BY <2>1, <2>3
<1>6. \A j \in DOMAIN Sections : j \notin WithRelocations =>
        DOMAIN Sections[j].relocations = {}
  BY DEF WithRelocations
<1>7. WithRelocations \subseteq DOMAIN Sections
  BY DEF WithRelocations
<1> HIDE DEF V, H, M
<1>8. ReadRelocations =
        UNION {{M(j, r) : r \in DOMAIN Sections[j].relocations} :
               j \in WithRelocations}
  BY <1>2, <1>3, <1>4
<1> QED
  BY <1>5, <1>6, <1>7, <1>8

(* What a linker reads from a finished file is the object.                 *)
LEMMA ReadsObject ==
  ASSUME Inv, Finished, FieldsFit
  PROVE  ReadBack = Contract!MeaningOf(object)
BY ReadsSections, ReadsSymbols, ReadsRelocations DEF ReadBack, Contract!MeaningOf

(* A finished file has no relocation against a hidden symbol.              *)
LEMMA NothingHidden ==
  ASSUME Inv, Finished
  PROVE  ~Contract!HiddenReference(object)
<1> SUFFICES ASSUME NEW i \in DOMAIN Sections,
                    NEW r \in DOMAIN Sections[i].relocations
             PROVE  Sections[i].relocations[r].symbol \in Contract!Visible(object)
  BY DEF Contract!HiddenReference, Sections
<1> DEFINE symbol == Sections[i].relocations[r].symbol
<1>1. i \in WithRelocations
  BY DEF WithRelocations
<1>2. map[symbol] # Unmapped
  BY <1>1, HeadersPoint DEF RelaContent, RefersToHidden
<1>3. symbol \in DOMAIN Symbols
  <2>1. object \in Objects
    BY DEF Inv, OrderInv
  <2>2. Sections[i].relocations \in Seq(RelocationOf(object))
    BY <2>1, NameSizes
  <2>3. Sections[i].relocations[r] \in RelocationOf(object)
    BY <2>2
  <2> QED
    BY <2>3 DEF RelocationOf, Symbols
<1>4. symbol \in Members(order)
  <2>1. PICK p \in DOMAIN symtab : order[p] = symbol
    BY <1>2, <1>3 DEF Inv, SymbolInv
  <2>2. p \in DOMAIN order
    BY <2>1 DEF Inv, SymbolInv, OrderInv, Finished, Described
  <2> QED
    BY <2>1, <2>2 DEF Members
<1>5. symbol \in VisibleUpTo(Len(Symbols))
  <2>1. Members(order) = VisibleUpTo(Len(Symbols))
    BY DEF Inv, OrderInv, Sorted, Finished
  <2> HIDE DEF symbol
  <2> QED
    BY <1>4, <2>1
<1> QED
  BY <1>5 DEF VisibleUpTo, Contract!Visible, Contract!Hide, HideSymbol, Symbols

LEMMA ReadFrame ==
  ASSUME UNCHANGED <<object, buffer, shoff>>
  PROVE  ReadBack' = ReadBack
<1>2. \A at, is : Holding(at, is)' = Holding(at, is)
  BY DEF Holding
<1>1. HeaderNumbers' = HeaderNumbers
  BY <1>2 DEF HeaderNumbers
<1>3. \A i : HeaderAt(i)' = HeaderAt(i)
  BY <1>2 DEF HeaderAt, SectionHeaderSize
<1>4. \A i, n : StringsAt(i, n)' = StringsAt(i, n)
  BY <1>2, <1>3 DEF StringsAt
<1>5. \A h : SectionNames(h)' = SectionNames(h)
  BY <1>2, <1>4 DEF SectionNames
<1>6. \A i, h : HasData(i, h)' <=> HasData(i, h)
  BY DEF HasData
<1>7. ReadSections' = ReadSections
  BY <1>1, <1>3, <1>5, <1>6 DEF ReadSections
<1>8. \A type : HeadersOf(type)' = HeadersOf(type)
  BY <1>1, <1>3 DEF HeadersOf
<1>9. \A i : ReadSymbol(i)' = ReadSymbol(i)
  BY <1>2, <1>4, <1>8 DEF ReadSymbol, RecordSize
<1>10. ReadSymbols' = ReadSymbols
  BY <1>8, <1>9 DEF ReadSymbols, RecordSize
<1>11. \A type : KindOfType(type)' = KindOfType(type)
  BY DEF KindOfType, RelocationType
<1>12. ReadRelocations' = ReadRelocations
  BY <1>2, <1>8, <1>9, <1>11 DEF ReadRelocations, RecordSize
<1> QED
  BY <1>7, <1>10, <1>12 DEF ReadBack

LEMMA FitFrame ==
  ASSUME UNCHANGED <<object, order, strtab, shstrtab>>
  PROVE  FieldsFit' = FieldsFit
<1>1. Total' = Total
  BY IndexFrame
<1> QED
  BY <1>1 DEF FieldsFit, SymbolsCount

(* The writer does what the contract of an object file allows: the file it *)
(* leaves is the object whenever sections, symbols and names fit the 16    *)
(* and 32 bits of their fields, and otherwise the output is as it was.     *)
THEOREM ObjectFileImplemented == Spec => ImplementsObjectFile
<1>1. ASSUME Init
      PROVE  Contract!Init
  BY <1>1 DEF Init, Contract!Init, Result
<1>2. ASSUME Inv, [Next]_vars
      PROVE  [Contract!Next]_Contract!vars
  <2> DEFINE file == IF output = "written" THEN {ReadBack} ELSE {}
  <2>1. pc \notin {"done", "failed"} => output = "untouched"
    BY <1>2 DEF Inv, ContentInv
  <2>2. CASE WriteFile
    <3>1. /\ pc = "write" /\ pc' = "done" /\ output' = "written"
          /\ UNCHANGED <<object, order, strtab, shstrtab, buffer, shoff>>
      BY <2>2 DEF WriteFile, Goto
    <3>2. ~Contract!HiddenReference(object) /\ FieldsFit' = FieldsFit
      BY <1>2, <3>1, NothingHidden, FitFrame DEF Finished
    <3>3. CASE FieldsFit
      <4>1. ReadBack' = Contract!MeaningOf(object)
        BY <1>2, <3>1, <3>3, ReadsObject, ReadFrame DEF Finished
      <4> QED
        BY <2>1, <3>1, <3>2, <3>3, <4>1 DEF Contract!Next, Contract!Finish, Result
    <3>4. CASE ~FieldsFit
      BY <2>1, <3>1, <3>2, <3>4 DEF Contract!Next, Contract!Cut, Result
    <3> QED
      BY <3>3, <3>4
  <2>3. CASE WriteFails
    <3>1. /\ pc = "write" /\ UNCHANGED <<object, order, strtab, shstrtab>>
          /\ \/ output' \in {"untouched", "partial"} /\ pc' = "failed"
             \/ output' = "partial" /\ pc' = "done"
      BY <2>3 DEF WriteFails, Goto
    <3>2. ~Contract!HiddenReference(object) /\ FieldsFit' = FieldsFit
      BY <1>2, <3>1, NothingHidden, FitFrame DEF Finished
    <3> QED
      BY <2>1, <3>1, <3>2
         DEF Contract!Next, Contract!Finish, Contract!Give, Contract!Cut, Result
  <2>4. CASE RejectHidden \/ OutOfMemory
    <3>1. /\ pc \notin {"done", "failed"} /\ pc' = "failed" /\ UNCHANGED <<object, output>>
      BY <2>4 DEF RejectHidden, OutOfMemory, Fail
    <3> QED
      BY <2>1, <3>1 DEF Contract!Next, Contract!Give, Result
  <2>5. CASE UNCHANGED vars
    <3>1. /\ ReadBack' = ReadBack /\ FieldsFit' = FieldsFit
          /\ UNCHANGED <<object, pc, output>>
      BY <2>5, ReadFrame, FitFrame DEF vars
    <3> QED
      BY <3>1 DEF Contract!vars, Result
  <2>6. CASE \/ Collect \/ EndCollect \/ Swap \/ InPlace \/ EndSort \/ AddSymbol
             \/ PutIdent \/ PutSection \/ EndSections \/ SkipSection \/ PutRelas
             \/ PutSymtab \/ PutStrtab \/ PutShstrtab \/ PutHeaders
    <3>1. /\ {pc, pc'} \cap {"done", "failed"} = {} /\ UNCHANGED <<object, output>>
      BY <2>6 DEF Collect, EndCollect, Swap, InPlace, EndSort, AddSymbol, PutIdent,
         PutSection, EndSections, SkipSection, PutRelas, PutSymtab, PutStrtab,
         PutShstrtab, PutHeaders, Goto
    <3> QED
      BY <2>1, <3>1 DEF Contract!vars, Result
  <2> QED
    BY <1>2, <2>2, <2>3, <2>4, <2>5, <2>6 DEF Next, Progress, Terminated
<1> QED
  BY <1>1, <1>2, Invariance, PTL DEF Spec, ImplementsObjectFile, Contract!Spec
=============================================================================
