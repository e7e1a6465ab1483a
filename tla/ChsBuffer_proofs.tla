--------------------------- MODULE ChsBuffer_proofs --------------------------
(***************************************************************************)
(* What the operators on buffers do, for the proofs of both writers: a     *)
(* buffer stays within its capacity, its pieces lie apart and inside it,   *)
(* and every append adds its piece and moves no other.  The last part is   *)
(* about the alignment that buffers and sections are padded to.            *)
(***************************************************************************)
EXTENDS ChsBuffer, ChsLemmas

Pieces(b) == Members(b.pieces)

Apart(p, q) == p.at + p.size <= q.at \/ q.at + q.size <= p.at

IsPiece(p) ==
  /\ p = [at |-> p.at, size |-> p.size, holds |-> p.holds]
  /\ p.at \in Nat
  /\ p.size \in Nat

PiecesApart(b) == \A p, q \in Pieces(b) : p = q \/ Apart(p, q)

IsBuffer(b) ==
  /\ b = [length |-> b.length, capacity |-> b.capacity, pieces |-> b.pieces]
  /\ b.length \in Nat
  /\ b.capacity \in Capacities \cup {0}
  /\ b.length <= b.capacity
  /\ b.pieces \in Seq(Pieces(b))
  /\ \A p \in Pieces(b) : IsPiece(p) /\ p.at + p.size <= b.length
  /\ PiecesApart(b)

-----------------------------------------------------------------------------
(* Capacities.                                                             *)

LEMMA CapacityIsRound ==
  ASSUME NEW c \in Capacities \cup {0}
  PROVE  c \in 0 .. MaxBuffer /\ c % 8 = 0
<1>1. CASE c = 0
  BY <1>1, CapacityAssumption
<1>2. CASE c \in Capacities
  <2>1. PICK m \in 1 .. MaxBuffer \div 64 : c = 64 * m
    BY <1>2, CapacityAssumption
  <2>2. MaxBuffer \in Nat
    BY CapacityAssumption
  <2>3. 64 * (MaxBuffer \div 64) <= MaxBuffer
    BY <2>2
  <2> QED
    BY <2>1, <2>2, <2>3
<1> QED
  BY <1>1, <1>2

(* The capacity that chs_buffer_reserve leaves holds the new bytes.        *)
LEMMA ReservedIsEnough ==
  ASSUME NEW b, IsBuffer(b), NEW n \in Nat, HasRoom(b, n)
  PROVE  /\ Reserved(b, n) \in Capacities \cup {0}
         /\ b.length + n <= Reserved(b, n)
<1>1. b.length \in Nat /\ b.capacity \in Capacities \cup {0}
  BY DEF IsBuffer
<1>2. CASE b.length + n <= b.capacity
  BY <1>1, <1>2 DEF Reserved
<1>3. CASE ~(b.length + n <= b.capacity)
  <2>1. Larger(b, n) # {}
    BY <1>3 DEF HasRoom
  <2>2. Larger(b, n) \in SUBSET Nat
    BY CapacityIsRound DEF Larger
  <2>3. \E c \in Larger(b, n) : \A d \in Larger(b, n) : c <= d
    BY <2>1, <2>2, LeastElement
  <2>4. Reserved(b, n) \in Larger(b, n)
    BY <1>3, <2>3 DEF Reserved
  <2> QED
    BY <2>4 DEF Larger
<1> QED
  BY <1>2, <1>3

-----------------------------------------------------------------------------
(* Appending.                                                              *)

LEMMA EmptyIsBuffer ==
  /\ IsBuffer(EmptyBuffer)
  /\ Pieces(EmptyBuffer) = {}
<1>1. Pieces(EmptyBuffer) = {}
  BY DEF Pieces, Members, EmptyBuffer
<1> QED
  BY <1>1 DEF IsBuffer, EmptyBuffer, PiecesApart

LEMMA PutAppends ==
  ASSUME NEW b, IsBuffer(b), NEW x, NEW n \in Nat, HasRoom(b, n)
  PROVE  /\ IsBuffer(Put(b, x, n))
         /\ Put(b, x, n).length = b.length + n
         /\ Pieces(Put(b, x, n)) = Pieces(b) \cup {Piece(b, x, n)}
<1> DEFINE c == Put(b, x, n)
           p == Piece(b, x, n)
<1>1. /\ c.length = b.length + n /\ c.capacity = Reserved(b, n)
      /\ c.pieces = Append(b.pieces, p)
      /\ c = [length |-> c.length, capacity |-> c.capacity, pieces |-> c.pieces]
  BY DEF Put
<1>2. b.length \in Nat /\ b.pieces \in Seq(Pieces(b))
  BY DEF IsBuffer
<1>4. /\ IsPiece(p) /\ p.at + p.size <= c.length
      /\ \A q \in Pieces(b) : Apart(q, p)
  BY <1>1, <1>2 DEF Piece, IsPiece, Apart, IsBuffer
<1> HIDE DEF c, p
<1>3. /\ Pieces(c) = Pieces(b) \cup {p}
      /\ c.pieces \in Seq(Pieces(c))
  <2>1. Members(Append(b.pieces, p)) = Members(b.pieces) \cup {p}
    BY <1>2, AppendMembers
  <2>2. Append(b.pieces, p) \in Seq(Pieces(b) \cup {p})
    BY <1>2, SeqMonotonic
  <2> QED
    BY <1>1, <2>1, <2>2 DEF Pieces
<1>5. \A q \in Pieces(c) : IsPiece(q) /\ q.at + q.size <= c.length
  BY <1>1, <1>2, <1>3, <1>4 DEF IsBuffer, IsPiece
<1>6. PiecesApart(c)
  BY <1>3, <1>4 DEF IsBuffer, PiecesApart, Apart
<1>7. /\ c.capacity \in Capacities \cup {0} /\ c.length <= c.capacity
      /\ c.length \in Nat
  BY <1>1, <1>2, ReservedIsEnough
<1>8. IsBuffer(c)
  BY <1>1, <1>3, <1>5, <1>6, <1>7 DEF IsBuffer
<1> QED
  BY <1>1, <1>3, <1>8 DEF c, p

(* A run of records: one piece for each.                                   *)
RecordPiece(b, xs, n, i) ==
  [at |-> b.length + n * (i - 1), size |-> n, holds |-> xs[i]]

LEMMA PutAllAppends ==
  ASSUME NEW b, IsBuffer(b), NEW n \in Nat \ {0},
         NEW S, NEW xs \in Seq(S), HasRoom(b, n * Len(xs))
  PROVE  /\ IsBuffer(PutAll(b, xs, n))
         /\ PutAll(b, xs, n).length = b.length + n * Len(xs)
         /\ Pieces(PutAll(b, xs, n)) =
              Pieces(b) \cup {RecordPiece(b, xs, n, i) : i \in DOMAIN xs}
<1> DEFINE c    == PutAll(b, xs, n)
           P(i) == RecordPiece(b, xs, n, i)
           new  == [i \in DOMAIN xs |-> P(i)]
<1>1. /\ c.length = b.length + n * Len(xs)
      /\ c.capacity = Reserved(b, n * Len(xs))
      /\ c.pieces = b.pieces \o new
      /\ c = [length |-> c.length, capacity |-> c.capacity, pieces |-> c.pieces]
  BY DEF PutAll, RecordPiece
<1>2. /\ b.length \in Nat /\ b.pieces \in Seq(Pieces(b))
      /\ Len(xs) \in Nat /\ DOMAIN xs = 1 .. Len(xs)
  BY DEF IsBuffer
<1>3. /\ n * Len(xs) \in Nat /\ n \in Nat
      /\ \A i \in DOMAIN xs :
           n * (i - 1) \in Nat /\ n * (i - 1) + n <= n * Len(xs)
      /\ \A i, j \in DOMAIN xs : i < j => n * (i - 1) + n <= n * (j - 1)
  <2> DEFINE l == Len(xs)
  <2>1. l \in Nat /\ DOMAIN xs = 1 .. l
    BY <1>2
  <2> HIDE DEF l
  <2>2. n * l \in Nat
    BY <2>1
  <2>3. /\ \A i \in 1 .. l : n * (i - 1) \in Nat /\ n * (i - 1) + n <= n * l
        /\ \A i, j \in 1 .. l : i < j => n * (i - 1) + n <= n * (j - 1)
    BY <2>1, Strides
  <2> QED
    BY <2>1, <2>2, <2>3 DEF l
<1>4. \A i \in DOMAIN xs :
        /\ IsPiece(P(i)) /\ P(i).at + P(i).size <= c.length
        /\ P(i).at = b.length + n * (i - 1) /\ P(i).size = n
        /\ b.length <= P(i).at
  <2> TAKE i \in DOMAIN xs
  <2> DEFINE m == n * (i - 1)
  <2>1. m \in Nat /\ m + n <= n * Len(xs)
    BY <1>3
  <2>2. P(i) = [at |-> b.length + m, size |-> n, holds |-> xs[i]]
    BY DEF RecordPiece
  <2>3. P(i).at = b.length + m /\ P(i).size = n
    BY <2>2
  <2> HIDE DEF m
  <2>4. IsPiece(P(i))
    BY SMTT(30), <1>2, <1>3, <2>1, <2>2 DEF IsPiece
  <2> DEFINE e == n * Len(xs)
  <2>5. e \in Nat /\ m + n <= e /\ c.length = b.length + e
    BY <1>1, <1>3, <2>1
  <2>6. b.length \in Nat /\ n \in Nat
    BY <1>2
  <2> HIDE DEF e, c, P
  <2>7. P(i).at + P(i).size <= c.length /\ b.length <= P(i).at
    BY <2>1, <2>3, <2>5, <2>6
  <2> QED
    BY <2>3, <2>4, <2>7 DEF m
<1>5. \A i, j \in DOMAIN xs : i = j \/ Apart(P(i), P(j))
  <2> TAKE i, j \in DOMAIN xs
  <2> DEFINE a == n * (i - 1)
             d == n * (j - 1)
  <2>1. /\ a \in Nat /\ d \in Nat /\ P(i).at = b.length + a /\ P(i).size = n
        /\ P(j).at = b.length + d /\ P(j).size = n
    BY <1>3, <1>4
  <2>2. i = j \/ a + n <= d \/ d + n <= a
    <3>1. i \in Nat /\ j \in Nat
      BY <1>2
    <3>2. i = j \/ i < j \/ j < i
      BY <3>1
    <3> QED
      BY <1>3, <3>2
  <2>3. b.length \in Nat /\ n \in Nat
    BY <1>2
  <2> HIDE DEF a, d, P
  <2> QED
    BY <2>1, <2>2, <2>3 DEF Apart
<1>6. /\ Pieces(c) = Pieces(b) \cup {P(i) : i \in DOMAIN xs}
      /\ c.pieces \in Seq(Pieces(c))
  <2> HIDE DEF P
  <2>1. /\ DOMAIN new = 1 .. Len(xs)
        /\ \A i \in 1 .. Len(xs) : new[i] = P(i)
    BY <1>2
  <2>2. Members(new) = {P(i) : i \in DOMAIN xs}
    BY <1>2, <2>1 DEF Members
  <2>3. new \in Seq(Members(new))
    <3>1. new \in [1 .. Len(xs) -> Members(new)]
      BY <1>2, <2>1 DEF Members
    <3> QED
      BY <1>2, <3>1
  <2> HIDE DEF new, c
  <2>4. Members(b.pieces \o new) = Members(b.pieces) \cup Members(new)
    BY <1>2, <2>3, JoinMembers
  <2>5. b.pieces \o new \in Seq(Pieces(b) \cup Members(new))
    BY <1>2, <2>3, SeqMonotonic, ConcatProperties
  <2> QED
    BY <1>1, <2>2, <2>4, <2>5 DEF Pieces
<1> HIDE DEF c, P
<1>7. \A q \in Pieces(c) : IsPiece(q) /\ q.at + q.size <= c.length
  <2> DEFINE e == n * Len(xs)
  <2>1. b.length \in Nat /\ e \in Nat /\ c.length = b.length + e
    BY <1>1, <1>2, <1>3
  <2> HIDE DEF e
  <2>2. ASSUME NEW q \in Pieces(b)
        PROVE  IsPiece(q) /\ q.at + q.size <= c.length
    BY <2>1 DEF IsBuffer, IsPiece
  <2> QED
    BY <1>4, <1>6, <2>2
<1>8. PiecesApart(c)
  <2>1. \A q \in Pieces(b), i \in DOMAIN xs : Apart(q, P(i)) /\ Apart(P(i), q)
    BY SMTT(30), <1>2, <1>4 DEF IsBuffer, IsPiece, Apart
  <2>2. PiecesApart(b)
    BY DEF IsBuffer
  <2> QED
    BY <1>5, <1>6, <2>1, <2>2 DEF PiecesApart
<1>9. /\ c.capacity \in Capacities \cup {0} /\ c.length <= c.capacity
      /\ c.length \in Nat
  BY <1>1, <1>2, <1>3, ReservedIsEnough
<1>10. IsBuffer(c)
  BY <1>1, <1>6, <1>7, <1>8, <1>9 DEF IsBuffer
<1> QED
  BY <1>1, <1>6, <1>10 DEF c, P

(* Another buffer, moved.                                                  *)
Moved(p, by) == [at |-> by + p.at, size |-> p.size, holds |-> p.holds]

LEMMA PutCopyAppends ==
  ASSUME NEW b, IsBuffer(b), NEW t, IsBuffer(t), HasRoom(b, t.length)
  PROVE  /\ IsBuffer(PutCopy(b, t))
         /\ PutCopy(b, t).length = b.length + t.length
         /\ Pieces(PutCopy(b, t)) =
              Pieces(b) \cup {Moved(p, b.length) : p \in Pieces(t)}
<1> DEFINE c    == PutCopy(b, t)
           M(p) == Moved(p, b.length)
           moved == [i \in DOMAIN t.pieces |-> M(t.pieces[i])]
<1>1. /\ b.length \in Nat /\ b.pieces \in Seq(Pieces(b))
      /\ t.length \in Nat /\ t.pieces \in Seq(Pieces(t))
      /\ Len(t.pieces) \in Nat /\ DOMAIN t.pieces = 1 .. Len(t.pieces)
  BY DEF IsBuffer
<1>2. \A i \in DOMAIN t.pieces :
        [t.pieces[i] EXCEPT !.at = b.length + @] = M(t.pieces[i])
  <2> TAKE i \in DOMAIN t.pieces
  <2> DEFINE p == t.pieces[i]
  <2>1. p = [at |-> p.at, size |-> p.size, holds |-> p.holds]
    BY DEF IsBuffer, IsPiece, Pieces, Members
  <2> HIDE DEF p
  <2>2. [p EXCEPT !.at = b.length + @] = M(p)
    BY <2>1 DEF Moved
  <2> QED
    BY <2>2 DEF p
<1>3. /\ c.length = b.length + t.length
      /\ c.capacity = Reserved(b, t.length)
      /\ c.pieces = b.pieces \o moved
      /\ c = [length |-> c.length, capacity |-> c.capacity, pieces |-> c.pieces]
  <2>1. moved = [i \in DOMAIN t.pieces |->
                   [t.pieces[i] EXCEPT !.at = b.length + @]]
    BY <1>2
  <2> HIDE DEF moved
  <2> QED
    BY <2>1 DEF PutCopy
<1>4. \A p \in Pieces(t) :
        /\ IsPiece(M(p)) /\ M(p).at + M(p).size <= c.length
        /\ M(p).at = b.length + p.at /\ M(p).size = p.size
        /\ b.length <= M(p).at
  BY <1>1, <1>3 DEF Moved, IsPiece, IsBuffer
<1>5. \A p, q \in Pieces(t) : p = q \/ Apart(M(p), M(q))
  <2>1. \A p \in Pieces(t) : IsPiece(p)
    BY DEF IsBuffer
  <2>2. PiecesApart(t)
    BY DEF IsBuffer
  <2> HIDE DEF c, M
  <2> TAKE p, q \in Pieces(t)
  <2>3. /\ p.at \in Nat /\ p.size \in Nat /\ q.at \in Nat /\ q.size \in Nat
        /\ M(p).at = b.length + p.at /\ M(p).size = p.size
        /\ M(q).at = b.length + q.at /\ M(q).size = q.size
    BY <1>4, <2>1 DEF IsPiece
  <2>4. p = q \/ Apart(p, q)
    BY <2>2 DEF PiecesApart
  <2> QED
    BY <1>1, <2>3, <2>4 DEF Apart
<1>6. /\ Pieces(c) = Pieces(b) \cup {M(p) : p \in Pieces(t)}
      /\ c.pieces \in Seq(Pieces(c))
  <2> HIDE DEF M
  <2>1. /\ DOMAIN moved = 1 .. Len(t.pieces)
        /\ \A i \in 1 .. Len(t.pieces) : moved[i] = M(t.pieces[i])
    BY <1>1
  <2>2. Members(moved) = {M(p) : p \in Pieces(t)}
    BY <1>1, <2>1 DEF Members, Pieces
  <2>3. moved \in Seq(Members(moved))
    <3>1. moved \in [1 .. Len(t.pieces) -> Members(moved)]
      BY <1>1, <2>1 DEF Members
    <3> QED
      BY <1>1, <3>1
  <2> HIDE DEF moved, c
  <2>4. Members(b.pieces \o moved) = Members(b.pieces) \cup Members(moved)
    BY <1>1, <2>3, JoinMembers
  <2>5. b.pieces \o moved \in Seq(Pieces(b) \cup Members(moved))
    BY <1>1, <2>3, SeqMonotonic, ConcatProperties
  <2> QED
    BY <1>3, <2>2, <2>4, <2>5 DEF Pieces
<1> HIDE DEF c, M
<1>7. \A q \in Pieces(c) : IsPiece(q) /\ q.at + q.size <= c.length
  BY <1>1, <1>3, <1>4, <1>6 DEF IsBuffer, IsPiece
<1>8. PiecesApart(c)
  <2>1. \A q \in Pieces(b), p \in Pieces(t) : Apart(q, M(p)) /\ Apart(M(p), q)
    BY <1>1, <1>4 DEF IsBuffer, IsPiece, Apart
  <2>2. PiecesApart(b)
    BY DEF IsBuffer
  <2> QED
    BY <1>5, <1>6, <2>1, <2>2 DEF PiecesApart
<1>9. /\ c.capacity \in Capacities \cup {0} /\ c.length <= c.capacity
      /\ c.length \in Nat
  BY <1>1, <1>3, ReservedIsEnough
<1>10. IsBuffer(c)
  BY <1>3, <1>6, <1>7, <1>8, <1>9 DEF IsBuffer
<1> QED
  BY <1>3, <1>6, <1>10 DEF c, M

-----------------------------------------------------------------------------
(* Padding, and the length moved by hand.                                  *)

LEMMA GapReachesMultiple ==
  ASSUME NEW b, b.length \in Nat, NEW a \in Nat \ {0}
  PROVE  /\ Gap(b, a) \in Nat
         /\ (b.length + Gap(b, a)) % a = 0
<1>1. /\ Gap(b, a) \in 0 .. a - 1
      /\ (b.length + Gap(b, a)) % a = 0
  BY RoundedUp DEF Gap
<1> QED
  BY <1>1

(* Room for the padding and more is room for the padding, and for the rest *)
(* after it.                                                               *)
LEMMA PadIsBuffer ==
  ASSUME NEW b, IsBuffer(b), NEW a \in Nat \ {0}, NEW n \in Nat,
         HasRoom(b, Gap(b, a) + n)
  PROVE  /\ IsBuffer(Pad(b, a))
         /\ Pad(b, a).length = b.length + Gap(b, a)
         /\ Pad(b, a).length % a = 0
         /\ Gap(b, a) \in Nat
         /\ Pieces(b) \subseteq Pieces(Pad(b, a))
         /\ \A p \in Pieces(Pad(b, a)) :
              \/ p \in Pieces(b)
              \/ Gap(b, a) > 0 /\ p = Piece(b, Zeros, Gap(b, a))
         /\ HasRoom(Pad(b, a), n)
<1> DEFINE g == Gap(b, a)
<1>1. b.length \in Nat /\ b.capacity \in 0 .. MaxBuffer
  BY CapacityIsRound DEF IsBuffer
<1>2. g \in Nat /\ (b.length + g) % a = 0
  BY <1>1, GapReachesMultiple
<1> HIDE DEF g
<1>3. CASE g = 0
  <2>1. Pad(b, a) = b
    BY <1>3 DEF Pad, g
  <2>2. b.length + g = b.length /\ g + n = n
    BY <1>1, <1>3
  <2> QED
    BY <1>2, <2>1, <2>2 DEF g
<1>4. CASE g # 0
  <2>1. Pad(b, a) = Put(b, Zeros, g)
    BY <1>4 DEF Pad, g
  <2>2. \A c \in Capacities : c \in Nat
    BY CapacityIsRound
  <2>3. HasRoom(b, g)
    BY <1>1, <1>2, <2>2 DEF HasRoom, Larger, g
  <2> DEFINE c == Put(b, Zeros, g)
  <2>4. /\ IsBuffer(c) /\ c.length = b.length + g
        /\ Pieces(c) = Pieces(b) \cup {Piece(b, Zeros, g)}
        /\ c.capacity = Reserved(b, g)
    BY <1>2, <2>3, PutAppends DEF Put
  <2>5. g > 0
    BY <1>2, <1>4
  <2> HIDE DEF c
  <2>6. HasRoom(c, n)
    <3>1. CASE b.length + (g + n) <= b.capacity
      <4>1. Reserved(b, g) = b.capacity
        BY <1>1, <1>2, <3>1 DEF Reserved
      <4>2. c.length + n <= c.capacity
        BY <1>1, <1>2, <2>4, <3>1, <4>1
      <4> QED
        BY <4>2 DEF HasRoom
    <3>2. CASE Larger(b, g + n) # {}
      <4>1. PICK d \in Capacities : d >= b.length + (g + n)
        BY <3>2 DEF Larger
      <4>2. d >= c.length + n
        BY <1>1, <1>2, <2>2, <2>4, <4>1
      <4> QED
        BY <4>1, <4>2 DEF HasRoom, Larger
    <3> QED
      BY <3>1, <3>2 DEF HasRoom, g
  <2>7. c.length % a = 0
    BY <1>2, <2>4
  <2> QED
    BY <1>2, <2>1, <2>4, <2>5, <2>6, <2>7 DEF c, g
<1> QED
  BY <1>3, <1>4

(* Capacities are multiples of eight, so a length moved to one stays       *)
(* within its capacity.                                                    *)
LEMMA SkipIsBuffer ==
  ASSUME NEW b, IsBuffer(b)
  PROVE  /\ IsBuffer(Skip(b))
         /\ Skip(b).length \in Nat /\ Skip(b).length >= b.length
         /\ Skip(b).length % 8 = 0
         /\ Pieces(Skip(b)) = Pieces(b)
<1> DEFINE c == Skip(b)
<1>1. /\ b = [length |-> b.length, capacity |-> b.capacity, pieces |-> b.pieces]
      /\ b.length \in Nat /\ b.length <= b.capacity
      /\ b.capacity \in 0 .. MaxBuffer /\ b.capacity % 8 = 0
  BY CapacityIsRound DEF IsBuffer
<1>2. MaxBuffer \in Nat /\ b.length \in 0 .. MaxBuffer
  BY <1>1, CapacityAssumption
<1>3. /\ AlignUp(b.length, 8) \in b.length .. b.length + 7
      /\ AlignUp(b.length, 8) % 8 = 0
  BY <1>2, AlignUpAssumption
<1>4. c = [length |-> AlignUp(b.length, 8), capacity |-> b.capacity,
           pieces |-> b.pieces]
  BY <1>1 DEF Skip
<1>5. /\ c.length = AlignUp(b.length, 8) /\ c.capacity = b.capacity
      /\ c.pieces = b.pieces
      /\ c = [length |-> c.length, capacity |-> c.capacity, pieces |-> c.pieces]
  BY <1>4
<1> HIDE DEF c
<1>6. /\ c.length \in Nat /\ c.length >= b.length /\ c.length % 8 = 0
      /\ c.length <= b.length + 7
  BY <1>1, <1>3, <1>5
<1>7. c.length <= c.capacity
  <2> DEFINE l == b.length
             m == c.length
             h == b.capacity
  <2>1. /\ l \in Nat /\ m \in Nat /\ h \in Nat /\ l <= h /\ m <= l + 7
        /\ m % 8 = 0 /\ h % 8 = 0
    BY <1>1, <1>2, <1>6
  <2> HIDE DEF l, m, h
  <2>2. m <= h
    BY <2>1
  <2> QED
    BY <1>5, <2>2 DEF l, m, h
<1>8. Pieces(c) = Pieces(b)
  BY <1>5 DEF Pieces
<1>9. \A p \in Pieces(c) : IsPiece(p) /\ p.at + p.size <= c.length
  BY <1>1, <1>6, <1>8 DEF IsBuffer, IsPiece
<1>10. IsBuffer(c)
  BY <1>5, <1>6, <1>7, <1>8, <1>9 DEF IsBuffer, PiecesApart
<1> QED
  BY <1>6, <1>8, <1>10 DEF c

-----------------------------------------------------------------------------
(* What any of the writers' appends does: n bytes from "at" on, the pieces *)
(* "new" among them, and zeros before.  Everything that was there stays.   *)

Grown(b, c, at, n, new) ==
  /\ IsBuffer(c)
  /\ at \in Nat /\ b.length <= at /\ n \in Nat /\ c.length = at + n
  /\ Pieces(b) \subseteq Pieces(c) /\ new \subseteq Pieces(c)
  /\ \A p \in new : at <= p.at
  /\ \A p \in Pieces(c) :
       \/ p \in Pieces(b)
       \/ p \in new
       \/ /\ p.holds = Zeros /\ p.size > 0
          /\ b.length <= p.at /\ p.at + p.size <= at

Records(at, xs, n) ==
  {[at |-> at + n * (i - 1), size |-> n, holds |-> xs[i]] : i \in DOMAIN xs}

LEMMA PutGrows ==
  ASSUME NEW b, IsBuffer(b), NEW x, NEW n \in Nat, HasRoom(b, n)
  PROVE  Grown(b, Put(b, x, n), b.length, n,
               {[at |-> b.length, size |-> n, holds |-> x]})
<1>1. b.length \in Nat
  BY DEF IsBuffer
<1>2. Piece(b, x, n) = [at |-> b.length, size |-> n, holds |-> x]
  BY DEF Piece
<1> QED
  BY <1>1, <1>2, PutAppends DEF Grown

(* Two appends for which room was reserved at once.                        *)
LEMMA PutTwiceGrows ==
  ASSUME NEW b, IsBuffer(b), NEW x, NEW y, NEW m \in Nat, NEW n \in Nat,
         NEW l, l = m + n, HasRoom(b, l)
  PROVE  Grown(b, Put(Put(b, x, m), y, n), b.length, l,
               {[at |-> b.length, size |-> m, holds |-> x],
                [at |-> b.length + m, size |-> n, holds |-> y]})
<1> DEFINE c == Put(b, x, m)
           d == Put(c, y, n)
           p == [at |-> b.length, size |-> m, holds |-> x]
           q == [at |-> b.length + m, size |-> n, holds |-> y]
<1>1. b.length \in Nat /\ b.capacity \in 0 .. MaxBuffer
  BY CapacityIsRound DEF IsBuffer
<1>2. \A e \in Capacities : e \in Nat
  BY CapacityIsRound
<1>3. HasRoom(b, m)
  BY <1>1, <1>2 DEF HasRoom, Larger
<1>4. /\ IsBuffer(c) /\ c.length = b.length + m
      /\ Pieces(c) = Pieces(b) \cup {p}
  BY <1>3, PutAppends DEF Piece
<1>5. c.capacity = Reserved(b, m)
  BY DEF Put
<1> HIDE DEF c
<1>6. HasRoom(c, n)
  <2>1. CASE b.length + (m + n) <= b.capacity
    <3>1. c.capacity = b.capacity
      BY <1>1, <1>5, <2>1 DEF Reserved
    <3> QED
      BY <1>1, <1>4, <2>1, <3>1 DEF HasRoom
  <2>2. CASE Larger(b, m + n) # {}
    <3>1. Larger(b, m + n) \subseteq Larger(c, n)
      BY <1>1, <1>2, <1>4 DEF Larger
    <3> QED
      BY <2>2, <3>1 DEF HasRoom
  <2> QED
    BY <2>1, <2>2 DEF HasRoom
<1>7. /\ IsBuffer(d) /\ d.length = b.length + m + n
      /\ Pieces(d) = Pieces(b) \cup {p, q}
  BY <1>4, <1>6, PutAppends DEF Piece
<1>8. p.at = b.length /\ q.at = b.length + m
  OBVIOUS
<1> HIDE DEF d, p, q
<1>9. Grown(b, d, b.length, m + n, {p, q})
  BY <1>1, <1>7, <1>8 DEF Grown
<1> QED
  BY <1>9 DEF c, d, p, q

LEMMA PutAllGrows ==
  ASSUME NEW b, IsBuffer(b), NEW n \in Nat \ {0},
         NEW S, NEW xs \in Seq(S), HasRoom(b, n * Len(xs))
  PROVE  Grown(b, PutAll(b, xs, n), b.length, n * Len(xs),
               Records(b.length, xs, n))
<1>1. b.length \in Nat /\ n \in Nat /\ Len(xs) \in Nat /\ DOMAIN xs = 1 .. Len(xs)
  BY DEF IsBuffer
<1>2. n * Len(xs) \in Nat
  BY <1>1
<1>3. {RecordPiece(b, xs, n, i) : i \in DOMAIN xs} = Records(b.length, xs, n)
  BY DEF RecordPiece, Records
<1>4. \A p \in Records(b.length, xs, n) : b.length <= p.at
  <2>1. \A i \in DOMAIN xs : n * (i - 1) \in Nat
    BY <1>1, Strides
  <2> QED
    BY <1>1, <2>1 DEF Records
<1> DEFINE c   == PutAll(b, xs, n)
           new == Records(b.length, xs, n)
           e   == n * Len(xs)
<1>5. /\ IsBuffer(c) /\ c.length = b.length + e
      /\ Pieces(c) = Pieces(b) \cup new
  BY <1>3, PutAllAppends
<1>6. e \in Nat
  BY <1>2
<1>7. \A p \in new : b.length <= p.at
  BY <1>4
<1> HIDE DEF c, new, e
<1>8. Grown(b, c, b.length, e, new)
  BY <1>1, <1>5, <1>6, <1>7 DEF Grown
<1> QED
  BY <1>8 DEF c, new, e

LEMMA PutCopyGrows ==
  ASSUME NEW b, IsBuffer(b), NEW t, IsBuffer(t), HasRoom(b, t.length)
  PROVE  Grown(b, PutCopy(b, t), b.length, t.length,
               {Moved(p, b.length) : p \in Pieces(t)})
<1>1. b.length \in Nat /\ t.length \in Nat
  BY DEF IsBuffer
<1>2. \A p \in Pieces(t) : b.length <= Moved(p, b.length).at
  BY <1>1 DEF Moved, IsBuffer, IsPiece
<1> QED
  BY <1>1, <1>2, PutCopyAppends DEF Grown

(* Appending after padding, or after moving the length.                    *)
LEMMA GrownAfterPad ==
  ASSUME NEW b, IsBuffer(b), NEW a \in Nat \ {0}, NEW n \in Nat,
         HasRoom(b, Gap(b, a) + n), NEW c, NEW new,
         Grown(Pad(b, a), c, Pad(b, a).length, n, new)
  PROVE  Grown(b, c, Pad(b, a).length, n, new)
<1> DEFINE d == Pad(b, a)
<1>1. /\ IsBuffer(d) /\ b.length \in Nat /\ b.length <= d.length
      /\ Pieces(b) \subseteq Pieces(d)
  BY PadIsBuffer DEF IsBuffer
<1>2. \A p \in Pieces(d) :
        \/ p \in Pieces(b)
        \/ /\ p.holds = Zeros /\ p.size > 0
           /\ b.length <= p.at /\ p.at + p.size <= d.length
  <2>1. Gap(b, a) \in Nat /\ d.length = b.length + Gap(b, a)
    BY PadIsBuffer
  <2>2. /\ Piece(b, Zeros, Gap(b, a)).at = b.length
        /\ Piece(b, Zeros, Gap(b, a)).size = Gap(b, a)
        /\ Piece(b, Zeros, Gap(b, a)).holds = Zeros
    BY DEF Piece
  <2>3. \A p \in Pieces(d) :
          p \in Pieces(b) \/ (Gap(b, a) > 0 /\ p = Piece(b, Zeros, Gap(b, a)))
    BY PadIsBuffer
  <2> HIDE DEF d
  <2> QED
    BY <1>1, <2>1, <2>2, <2>3
<1> HIDE DEF d
<1>3. Grown(d, c, d.length, n, new)
  BY DEF d
<1>4. d.length \in Nat
  BY <1>1 DEF IsBuffer
<1>5. Grown(b, c, d.length, n, new)
  <2>1. \A p \in Pieces(c) :
          \/ p \in Pieces(b)
          \/ p \in new
          \/ /\ p.holds = Zeros /\ p.size > 0
             /\ b.length <= p.at /\ p.at + p.size <= d.length
    <3> TAKE p \in Pieces(c)
    <3>1. CASE p \in Pieces(d)
      BY <1>2, <3>1
    <3>2. CASE p \in new
      BY <3>2
    <3>3. CASE /\ p.holds = Zeros /\ p.size > 0
               /\ d.length <= p.at /\ p.at + p.size <= d.length
      <4>1. p.at \in Nat /\ p.size \in Nat
        BY <1>3 DEF Grown, IsBuffer, IsPiece
      <4> QED
        BY <1>4, <3>3, <4>1
    <3> QED
      BY <1>3, <3>1, <3>2, <3>3 DEF Grown
  <2> QED
    BY <1>1, <1>3, <1>4, <2>1 DEF Grown
<1> QED
  BY <1>5 DEF d

LEMMA GrownAfterSkip ==
  ASSUME NEW b, IsBuffer(b), NEW n, NEW c, NEW new,
         Grown(Skip(b), c, Skip(b).length, n, new)
  PROVE  Grown(b, c, Skip(b).length, n, new)
<1>1. /\ b.length \in Nat /\ Skip(b).length \in Nat /\ b.length <= Skip(b).length
      /\ Pieces(Skip(b)) = Pieces(b)
  BY SkipIsBuffer DEF IsBuffer
<1>2. \A p \in Pieces(c) : p.at \in Nat
  BY DEF Grown, IsBuffer, IsPiece
<1> QED
  BY <1>1, <1>2 DEF Grown

-----------------------------------------------------------------------------
(* Stretches of a buffer without a gap, as Covered of the writers has it.  *)

Within(b, offset, size) ==
  {p \in Pieces(b) : p.size > 0 /\ p.at >= offset /\ p.at < offset + size}

CoveredIn(b, offset, size) ==
  /\ size > 0 => \E p \in Within(b, offset, size) : p.at = offset
  /\ \A p \in Within(b, offset, size) :
       \/ p.at + p.size = offset + size
       \/ /\ p.at + p.size < offset + size
          /\ \E q \in Within(b, offset, size) : q.at = p.at + p.size

LEMMA CoveredStays ==
  ASSUME NEW b, IsBuffer(b), NEW c, NEW at, NEW n, NEW new,
         Grown(b, c, at, n, new),
         NEW offset \in Nat, NEW size \in Nat, offset + size <= b.length,
         CoveredIn(b, offset, size)
  PROVE  CoveredIn(c, offset, size)
<1>1. /\ b.length \in Nat
      /\ \A p \in Pieces(c) : p.at \in Nat
  BY DEF IsBuffer, Grown, IsPiece
<1>2. Within(c, offset, size) = Within(b, offset, size)
  BY <1>1 DEF Within, Grown
<1> QED
  BY <1>2 DEF CoveredIn

(* What lies in the appended stretch is what was appended.                 *)
LEMMA WithinNew ==
  ASSUME NEW b, IsBuffer(b), NEW c, NEW at, NEW n, NEW new,
         Grown(b, c, at, n, new)
  PROVE  Within(c, at, n) = {p \in new : p.size > 0 /\ p.at < at + n}
<1>1. /\ b.length \in Nat /\ at \in Nat /\ n \in Nat /\ b.length <= at
      /\ \A p \in Pieces(c) : p.at \in Nat /\ p.size \in Nat
      /\ new \subseteq Pieces(c)
  BY DEF IsBuffer, Grown, IsPiece
<1>2. \A p \in Pieces(b) : ~(p.size > 0 /\ p.at >= at)
  BY <1>1 DEF IsBuffer, IsPiece
<1>3. ASSUME NEW p \in Within(c, at, n)
      PROVE  p \in new
  BY <1>1, <1>2, <1>3 DEF Within, Grown
<1>4. ASSUME NEW p \in new, p.size > 0, p.at < at + n
      PROVE  p \in Within(c, at, n)
  <2>1. p \in Pieces(c) /\ p.at \in Nat /\ p.size \in Nat
    BY <1>1
  <2>2. p.at >= at
    BY <1>1, <2>1 DEF Grown
  <2> QED
    BY <1>4, <2>1, <2>2 DEF Within
<1> QED
  BY <1>3, <1>4 DEF Within

LEMMA CoveredByOne ==
  ASSUME NEW b, IsBuffer(b), NEW c, NEW at, NEW n, NEW x,
         Grown(b, c, at, n, {[at |-> at, size |-> n, holds |-> x]})
  PROVE  CoveredIn(c, at, n)
<1> DEFINE p == [at |-> at, size |-> n, holds |-> x]
<1>1. at \in Nat /\ n \in Nat
  BY DEF Grown
<1>2. Within(c, at, n) = IF n > 0 THEN {p} ELSE {}
  BY <1>1, WithinNew
<1>3. p.at = at /\ p.size = n
  OBVIOUS
<1> HIDE DEF p
<1>4. CASE n > 0
  <2>1. Within(c, at, n) = {p}
    BY <1>2, <1>4
  <2> QED
    BY <1>3, <2>1 DEF CoveredIn
<1>5. CASE ~(n > 0)
  BY <1>2, <1>5 DEF CoveredIn
<1> QED
  BY <1>4, <1>5

LEMMA CoveredByRecords ==
  ASSUME NEW b, IsBuffer(b), NEW c, NEW at, NEW n \in Nat \ {0},
         NEW S, NEW xs \in Seq(S),
         Grown(b, c, at, n * Len(xs), Records(at, xs, n))
  PROVE  CoveredIn(c, at, n * Len(xs))
<1> DEFINE l    == Len(xs)
           P(i) == [at |-> at + n * (i - 1), size |-> n, holds |-> xs[i]]
           W    == Within(c, at, n * l)
<1>1. at \in Nat /\ n \in Nat /\ l \in Nat /\ DOMAIN xs = 1 .. l
  BY DEF Grown
<1>2. W = {p \in Records(at, xs, n) : p.size > 0 /\ p.at < at + n * l}
  BY WithinNew
<1>3. Records(at, xs, n) = {P(i) : i \in 1 .. l}
  BY <1>1 DEF Records
<1>4. \A i \in 1 .. l : P(i).at = at + n * (i - 1) /\ P(i).size = n
  OBVIOUS
<1> HIDE DEF P, W, l
<1>5. \A i \in 1 .. l :
        /\ P(i).size > 0 /\ P(i).at < at + n * l
        /\ P(i).at + P(i).size = at + n * i
        /\ i < l => P(i + 1).at = at + n * i
        /\ i < l => at + n * i < at + n * l
  <2> TAKE i \in 1 .. l
  <2> DEFINE m == n * (i - 1)
             e == n * l
             d == n * i
  <2>1. m \in Nat /\ m + n = d /\ m + n <= e
    BY <1>1, Strides
  <2>2. e \in Nat /\ d \in Nat
    BY <1>1
  <2>3. P(i).at = at + m /\ P(i).size = n
    BY <1>4
  <2>4. ASSUME i < l
        PROVE  P(i + 1).at = at + d /\ d < e
    <3>1. i + 1 \in 1 .. l /\ (i + 1) - 1 = i /\ i \in 1 .. l
      BY <1>1, <2>4
    <3>2. P(i + 1).at = at + n * ((i + 1) - 1)
      BY <1>4, <3>1
    <3>3. n * ((i + 1) - 1) + n <= n * l
      BY <1>1, <3>1, Strides
    <3>4. n * ((i + 1) - 1) = d
      BY <3>1
    <3> HIDE DEF d, e
    <3>5. d + n <= n * l
      BY <3>3, <3>4
    <3> QED
      BY <1>1, <2>2, <3>2, <3>4, <3>5 DEF e
  <2> HIDE DEF m, e, d
  <2>5. P(i).size > 0 /\ P(i).at < at + e /\ P(i).at + P(i).size = at + d
    BY <1>1, <2>1, <2>2, <2>3
  <2>6. i < l => at + d < at + e
    BY <1>1, <2>2, <2>4
  <2> QED
    BY <2>4, <2>5, <2>6 DEF d, e
<1>6. W = {P(i) : i \in 1 .. l}
  BY <1>2, <1>3, <1>5
<1>7. n * l > 0 => 1 \in 1 .. l /\ P(1).at = at
  <2> HAVE n * l > 0
  <2>1. l # 0
    BY <1>1
  <2>2. 1 \in 1 .. l /\ n * (1 - 1) = 0
    BY <1>1, <2>1
  <2> QED
    BY <1>1, <1>4, <2>2
<1>8. \A i \in 1 .. l :
        \/ P(i).at + P(i).size = at + n * l
        \/ /\ P(i).at + P(i).size < at + n * l
           /\ \E q \in W : q.at = P(i).at + P(i).size
  <2> TAKE i \in 1 .. l
  <2>1. CASE i = l
    BY <1>5, <2>1
  <2>2. CASE i < l
    <3>1. i + 1 \in 1 .. l
      BY <1>1, <2>2
    <3>2. P(i + 1) \in W
      BY <1>6, <3>1
    <3> QED
      BY <1>5, <2>2, <3>2
  <2>3. i = l \/ i < l
    BY <1>1
  <2> QED
    BY <2>1, <2>2, <2>3
<1>9. CoveredIn(c, at, n * l)
  <2>1. n * l > 0 => \E p \in W : p.at = at
    BY <1>6, <1>7
  <2>2. \A p \in W :
          \/ p.at + p.size = at + n * l
          \/ /\ p.at + p.size < at + n * l
             /\ \E q \in W : q.at = p.at + p.size
    BY <1>6, <1>8
  <2> QED
    BY <2>1, <2>2 DEF CoveredIn, W
<1> QED
  BY <1>9 DEF l

(* A table whose own bytes have no gap has none where it is copied to.     *)
LEMMA CoveredByCopy ==
  ASSUME NEW b, IsBuffer(b), NEW c, NEW at, NEW t, IsBuffer(t),
         Grown(b, c, at, t.length, {Moved(p, at) : p \in Pieces(t)}),
         CoveredIn(t, 0, t.length)
  PROVE  CoveredIn(c, at, t.length)
<1> DEFINE W == Within(c, at, t.length)
           V == Within(t, 0, t.length)
<1>1. at \in Nat /\ t.length \in Nat
  BY DEF Grown
<1>2. \A p \in Pieces(t) :
        /\ p.at \in Nat /\ p.size \in Nat
        /\ Moved(p, at).at = at + p.at /\ Moved(p, at).size = p.size
  BY DEF IsBuffer, IsPiece, Moved
<1>3. W = {m \in {Moved(p, at) : p \in Pieces(t)} :
             m.size > 0 /\ m.at < at + t.length}
  BY WithinNew
<1>4. W = {Moved(p, at) : p \in V}
  <2>1. \A p \in Pieces(t) :
          Moved(p, at).size > 0 /\ Moved(p, at).at < at + t.length <=> p \in V
    BY <1>1, <1>2 DEF Within
  <2>2. V \subseteq Pieces(t)
    BY DEF Within
  <2> HIDE DEF V, W
  <2> QED
    BY <1>3, <2>1, <2>2
<1>5. /\ t.length > 0 => \E p \in V : p.at = 0
      /\ \A p \in V :
           \/ p.at + p.size = 0 + t.length
           \/ /\ p.at + p.size < 0 + t.length
              /\ \E q \in V : q.at = p.at + p.size
  BY DEF CoveredIn
<1>6. V \subseteq Pieces(t)
  BY DEF Within
<1> HIDE DEF V, W
<1>7. t.length > 0 => \E p \in W : p.at = at
  BY <1>1, <1>2, <1>4, <1>5, <1>6
<1>8. ASSUME NEW m \in W
      PROVE  \/ m.at + m.size = at + t.length
             \/ /\ m.at + m.size < at + t.length
                /\ \E q \in W : q.at = m.at + m.size
  <2>1. PICK p \in V : m = Moved(p, at)
    BY <1>4
  <2>2. /\ p.at \in Nat /\ p.size \in Nat
        /\ m.at = at + p.at /\ m.size = p.size
    BY <1>2, <1>6, <2>1
  <2>3. CASE p.at + p.size = 0 + t.length
    BY <1>1, <2>2, <2>3
  <2>4. CASE p.at + p.size < 0 + t.length /\ \E q \in V : q.at = p.at + p.size
    <3>1. PICK q \in V : q.at = p.at + p.size
      BY <2>4
    <3>2. Moved(q, at) \in W /\ Moved(q, at).at = at + q.at
      BY <1>2, <1>4, <1>6
    <3> QED
      BY <1>1, <2>2, <2>4, <3>1, <3>2
  <2> QED
    BY <1>5, <2>3, <2>4
<1>9. CoveredIn(c, at, t.length)
  BY <1>7, <1>8 DEF CoveredIn, W
<1> QED
  BY <1>9

(* A string appended leaves a table without gaps.                          *)
LEMMA TableStaysCovered ==
  ASSUME NEW t, IsBuffer(t), NEW c, NEW x, NEW n \in Nat \ {0},
         Grown(t, c, t.length, n,
               {[at |-> t.length, size |-> n, holds |-> x]}),
         CoveredIn(t, 0, t.length)
  PROVE  CoveredIn(c, 0, c.length)
<1> DEFINE p == [at |-> t.length, size |-> n, holds |-> x]
           l == t.length
           V == Within(t, 0, l)
           W == Within(c, 0, l + n)
<1>1. l \in Nat /\ c.length = l + n
  BY DEF Grown
<1>2. \A q \in Pieces(t) : q.at \in Nat /\ q.size \in Nat /\ q.at + q.size <= l
  BY DEF IsBuffer, IsPiece
<1>3. W = V \cup {p}
  <2>1. Pieces(c) = Pieces(t) \cup {p}
    <3>1. \A q \in Pieces(c) : q \in Pieces(t) \/ q = p
      <4>1. \A q \in Pieces(c) : q.at \in Nat /\ q.size \in Nat
        BY DEF Grown, IsBuffer, IsPiece
      <4> QED
        BY <1>1, <4>1 DEF Grown
    <3> QED
      BY <3>1 DEF Grown
  <2>2. p.at = l /\ p.size = n
    OBVIOUS
  <2> HIDE DEF p
  <2> QED
    BY <1>1, <1>2, <2>1, <2>2 DEF Within
<1>4. /\ l > 0 => \E q \in V : q.at = 0
      /\ \A q \in V :
           \/ q.at + q.size = l
           \/ q.at + q.size < l /\ \E r \in V : r.at = q.at + q.size
  BY <1>1, <1>2 DEF CoveredIn, Within
<1>5. p.at = l /\ p.size = n
  OBVIOUS
<1>6. \A q \in V : q.at \in Nat /\ q.size \in Nat
  BY <1>2 DEF Within
<1> HIDE DEF p, V, W
<1>7. \E q \in W : q.at = 0
  BY <1>1, <1>3, <1>4, <1>5
<1>8. ASSUME NEW q \in W
      PROVE  \/ q.at + q.size = l + n
             \/ q.at + q.size < l + n /\ \E r \in W : r.at = q.at + q.size
  <2>1. CASE q = p
    BY <1>1, <1>5, <2>1
  <2>2. CASE q \in V /\ q.at + q.size = l
    <3>1. p \in W
      BY <1>3
    <3> QED
      BY <1>1, <1>5, <2>2, <3>1
  <2>3. CASE q \in V /\ q.at + q.size < l /\ \E r \in V : r.at = q.at + q.size
    BY <1>1, <1>3, <1>6, <2>3
  <2> QED
    BY <1>3, <1>4, <2>1, <2>2, <2>3
<1>9. CoveredIn(c, 0, l + n)
  BY <1>1, <1>7, <1>8 DEF CoveredIn, W
<1> QED
  BY <1>1, <1>9

-----------------------------------------------------------------------------
(* chs_align_up_u64, which the rest of this module and the proofs of the   *)
(* assembler know as AlignUp, in words of every width: Word(w, s, a) is    *)
(* MCAlign with words of w bits.  AndNot collects the bits of x outside    *)
(* the mask one by one: after b of them it lies below the lowest b bits of *)
(* x by at most the lowest b bits of the mask.                             *)

Word(WordBits, size, alignment) == INSTANCE MCAlign

MaskedTo(kept, b, x, mask) ==
  IF b = 0 THEN 0
  ELSE kept[b - 1] + (IF (mask \div 2 ^ (b - 1)) % 2 = 1 THEN 0
                      ELSE ((x \div 2 ^ (b - 1)) % 2) * 2 ^ (b - 1))

IsMasking(kept, w, x, mask) ==
  kept = [b \in 0 .. w |-> MaskedTo(kept, b, x, mask)]

(* AndNot is the last of the values its recursive function goes through.   *)
LEMMA AndNotUnfolds ==
  ASSUME NEW w \in Nat, NEW s, NEW a, NEW x \in Nat, NEW mask \in Nat
  PROVE  \E kept : /\ IsMasking(kept, w, x, mask)
                   /\ Word(w, s, a)!AndNot(x, mask) = kept[w]
<1> DEFINE Fits(kept, n) ==
             kept = [b \in 0 .. n |-> MaskedTo(kept, b, x, mask)]
           S == {n \in Nat : \E kept : Fits(kept, n)}
<1>1. 0 \in S
  <2>1. Fits([b \in 0 .. 0 |-> 0], 0)
    BY DEF MaskedTo
  <2> QED
    BY <2>1
<1>2. ASSUME NEW n \in Nat, n \in S
      PROVE  n + 1 \in S
  <2>1. PICK kept : Fits(kept, n)
    BY <1>2
  <2> DEFINE longer == [b \in 0 .. n + 1 |->
                          IF b = n + 1 THEN MaskedTo(kept, b, x, mask)
                          ELSE kept[b]]
  <2>2. Fits(longer, n + 1)
    <3>1. ASSUME NEW b \in 0 .. n + 1
          PROVE  longer[b] = MaskedTo(longer, b, x, mask)
      <4>1. b > 0 => b - 1 \in 0 .. n /\ longer[b - 1] = kept[b - 1]
        BY <3>1
      <4> HIDE DEF longer
      <4>2. MaskedTo(longer, b, x, mask) = MaskedTo(kept, b, x, mask)
        BY <3>1, <4>1 DEF MaskedTo
      <4>3. b <= n => kept[b] = MaskedTo(kept, b, x, mask)
        BY <2>1, <3>1
      <4>4. longer[b] = IF b = n + 1 THEN MaskedTo(kept, b, x, mask)
                        ELSE kept[b]
        BY <3>1 DEF longer
      <4> QED
        BY <3>1, <4>2, <4>3, <4>4
    <3> QED
      BY <3>1
  <2> HIDE DEF longer
  <2> QED
    BY <2>2
<1>3. w \in S
  <2> HIDE DEF S
  <2> QED
    BY <1>1, <1>2, Induction
<1>4. \E kept : Fits(kept, w)
  BY <1>3
<1> DEFINE last == CHOOSE kept : Fits(kept, w)
<1>5. Fits(last, w)
  BY <1>4
<1>6. Word(w, s, a)!AndNot(x, mask) = last[w]
  BY DEF Word!AndNot, Word!BitOf, MaskedTo
<1> HIDE DEF last
<1> QED
  BY <1>5, <1>6 DEF IsMasking

(* Clearing the bits of a mask takes no more than the mask away.           *)
LEMMA MaskTakesLittle ==
  ASSUME NEW w \in Nat, NEW s, NEW a, NEW x \in 0 .. 2 ^ w - 1,
         NEW mask \in 0 .. 2 ^ w - 1
  PROVE  /\ Word(w, s, a)!AndNot(x, mask) \in Nat
         /\ x - mask <= Word(w, s, a)!AndNot(x, mask)
         /\ Word(w, s, a)!AndNot(x, mask) <= x
<1>1. x \in Nat /\ mask \in Nat
  BY PowerIsNat
<1>2. PICK kept : /\ IsMasking(kept, w, x, mask)
                  /\ Word(w, s, a)!AndNot(x, mask) = kept[w]
  BY <1>1, AndNotUnfolds
<1>3. \A b \in 0 .. w : kept[b] = MaskedTo(kept, b, x, mask)
  BY <1>2 DEF IsMasking
<1> DEFINE Bounded(b) == /\ kept[b] \in Nat
                         /\ kept[b] <= x % 2 ^ b
                         /\ (x % 2 ^ b) - kept[b] <= mask % 2 ^ b
           S == {b \in Nat : b <= w => Bounded(b)}
<1>4. 0 \in S
  <2>1. 2 ^ 0 = 1 /\ x % 1 = 0 /\ mask % 1 = 0
    BY <1>1
  <2>2. kept[0] = 0
    BY <1>3 DEF MaskedTo
  <2> QED
    BY <2>1, <2>2
<1>5. ASSUME NEW b \in Nat, b \in S
      PROVE  b + 1 \in S
  <2>1. SUFFICES ASSUME b + 1 <= w
                 PROVE  Bounded(b + 1)
    OBVIOUS
  <2> DEFINE W == 2 ^ b
             t == (x \div W) % 2
             m == (mask \div W) % 2
  <2>2. Bounded(b)
    BY <1>5, <2>1
  <2>3. kept[b + 1] = kept[b] + (IF m = 1 THEN 0 ELSE t * W)
    <3>1. b + 1 \in 0 .. w /\ b + 1 # 0 /\ (b + 1) - 1 = b
      BY <2>1
    <3> QED
      BY <1>3, <3>1 DEF MaskedTo
  <2>4. /\ t \in {0, 1} /\ x % 2 ^ (b + 1) = (x % W) + t * W
        /\ m \in {0, 1} /\ mask % 2 ^ (b + 1) = (mask % W) + m * W
    BY <1>1, NextBit
  <2>5. W \in Nat \ {0} /\ x % W \in Nat /\ mask % W \in Nat
    <3>1. W \in Nat \ {0}
      BY PowerIsNat
    <3> HIDE DEF W
    <3> QED
      BY <1>1, <3>1, DivisionFacts
  <2> HIDE DEF W, t, m
  <2>6. t * W \in {0, W} /\ m * W = IF m = 1 THEN W ELSE 0
    BY <2>4, <2>5
  <2>7. /\ kept[b] \in Nat /\ kept[b] <= x % W /\ (x % W) - kept[b] <= mask % W
    BY <2>2 DEF W
  <2> QED
    BY <2>3, <2>4, <2>5, <2>6, <2>7
<1>6. Bounded(w)
  <2> HIDE DEF S
  <2>1. w \in S
    BY <1>4, <1>5, Induction
  <2> QED
    BY <2>1 DEF S
<1>7. x % 2 ^ w = x /\ mask % 2 ^ w = mask
  BY PowerIsNat, SmallRemainder
<1> QED
  BY <1>1, <1>2, <1>6, <1>7

(* Clearing the lowest n bits leaves a multiple of 2 ^ n.                  *)
LEMMA MaskLeavesMultiple ==
  ASSUME NEW w \in Nat, NEW s, NEW a, NEW x \in Nat, NEW n \in 0 .. w
  PROVE  Word(w, s, a)!AndNot(x, 2 ^ n - 1) % 2 ^ n = 0
<1> DEFINE mask == 2 ^ n - 1
           N == 2 ^ n
<1>1. n \in Nat /\ mask \in Nat /\ N \in Nat \ {0}
  BY PowerIsNat
<1>2. PICK kept : /\ IsMasking(kept, w, x, mask)
                  /\ Word(w, s, a)!AndNot(x, mask) = kept[w]
  BY <1>1, AndNotUnfolds
<1>3. \A b \in 0 .. w : kept[b] = MaskedTo(kept, b, x, mask)
  BY <1>2 DEF IsMasking
<1>4. \A b \in 0 .. n - 1 : (mask \div 2 ^ b) % 2 = 1
  BY <1>1, LowBitsSet
<1> HIDE DEF mask, N
<1> DEFINE S == {b \in Nat : b <= w =>
                   IF b <= n THEN kept[b] = 0
                   ELSE \E k \in Nat : kept[b] = N * k}
<1>5. 0 \in S
  BY <1>1, <1>3 DEF MaskedTo
<1>6. ASSUME NEW b \in Nat, b \in S
      PROVE  b + 1 \in S
  <2>1. SUFFICES ASSUME b + 1 <= w
                 PROVE  IF b + 1 <= n THEN kept[b + 1] = 0
                        ELSE \E k \in Nat : kept[b + 1] = N * k
    OBVIOUS
  <2> DEFINE W == 2 ^ b
             t == (x \div W) % 2
             m == (mask \div W) % 2
  <2>2. kept[b + 1] = kept[b] + (IF m = 1 THEN 0 ELSE t * W)
    <3>1. b + 1 \in 0 .. w /\ b + 1 # 0 /\ (b + 1) - 1 = b
      BY <2>1
    <3> QED
      BY <1>3, <3>1 DEF MaskedTo
  <2>3. t \in {0, 1}
    BY NextBit
  <2>4. CASE b + 1 <= n
    <3>1. m = 1
      BY <1>4, <2>4
    <3>2. kept[b] = 0
      BY <1>6, <2>1, <2>4
    <3> QED
      BY <2>2, <2>4, <3>1, <3>2
  <2>5. CASE b >= n
    <3>1. PICK k \in Nat : kept[b] = N * k
      <4>1. CASE b = n
        <5>1. kept[b] = 0 /\ N * 0 = 0
          BY <1>1, <1>6, <2>1, <4>1
        <5> QED
          BY <5>1
      <4>2. CASE b > n
        BY <1>1, <1>6, <2>1, <4>2
      <4> QED
        BY <1>1, <2>5, <4>1, <4>2
    <3> DEFINE j == 2 ^ (b - n)
    <3>2. j \in Nat /\ W = N * j
      <4>1. b - n \in Nat /\ n + (b - n) = b
        BY <1>1, <2>5
      <4> QED
        BY <1>1, <4>1, PowerIsNat, PowerSum DEF N
    <3> HIDE DEF W, t, m, j
    <3>3. \E l \in Nat : kept[b + 1] = N * l
      <4>1. CASE m = 1 \/ t = 0
        <5>1. t = 0 => t * W = 0
          BY <1>1, <3>2
        <5>2. kept[b + 1] = N * k
          BY <1>1, <2>2, <3>1, <4>1, <5>1
        <5> QED
          BY <5>2
      <4>2. CASE m # 1 /\ t = 1
        <5>1. t * W = N * j
          BY <1>1, <3>2, <4>2
        <5>2. N * k + N * j = N * (k + j) /\ k + j \in Nat
          BY <1>1, <3>1, <3>2
        <5> QED
          BY <2>2, <3>1, <4>2, <5>1, <5>2
      <4> QED
        BY <2>3, <4>1, <4>2
    <3> QED
      BY <1>1, <2>5, <3>3
  <2> QED
    BY <1>1, <2>4, <2>5
<1>7. \E k \in Nat : kept[w] = N * k
  <2>1. w \in S
    <3> HIDE DEF S
    <3> QED
      BY <1>5, <1>6, Induction
  <2>2. N * 0 = 0
    BY <1>1
  <2> QED
    BY <1>1, <2>1, <2>2
<1>8. kept[w] % N = 0
  BY <1>1, <1>7, MultipleIsRound
<1> QED
  BY <1>2, <1>8 DEF mask, N

(* One call of chs_align_up_u64, for a word of any width.                  *)
LEMMA AlignUpFacts ==
  ASSUME NEW w \in Nat, NEW s, NEW a,
         NEW value \in 0 .. 2 ^ w - 1, NEW alignment \in 0 .. 2 ^ w
  PROVE  LET aligned == Word(w, s, a)!AlignUpWord(value, alignment)
         IN  /\ aligned \in 0 .. 2 ^ w - 1
             /\ alignment > 0 /\ value + alignment - 1 < 2 ^ w =>
                  aligned \in value .. value + alignment - 1
             /\ \A n \in 0 .. w :
                  /\ alignment = 2 ^ n
                  /\ value + alignment - 1 < 2 ^ w
                  => aligned % alignment = 0
<1> DEFINE M == 2 ^ w
           mask == alignment - 1
           sum == value + alignment - 1
           x == sum % M
           aligned == Word(w, s, a)!AlignUpWord(value, alignment)
<1>1. M \in Nat \ {0}
  BY PowerIsNat
<1>2. CASE alignment <= 1
  <2>1. aligned = value
    BY <1>2 DEF Word!AlignUpWord
  <2>2. \A n \in 0 .. w : alignment = 2 ^ n => value % alignment = 0
    <3> TAKE n \in 0 .. w
    <3>1. 2 ^ n # 0
      BY PowerIsNat
    <3>2. alignment = 2 ^ n => alignment = 1
      BY <1>1, <1>2, <3>1
    <3>3. value % 1 = 0
      BY <1>1
    <3> QED
      BY <3>2, <3>3
  <2>3. alignment > 0 => value \in value .. value + alignment - 1
    BY <1>1
  <2> HIDE DEF aligned
  <2> QED
    BY <2>1, <2>2, <2>3 DEF aligned
<1>3. CASE alignment > 1
  <2>1. aligned = Word(w, s, a)!AndNot(x, mask)
    BY <1>1, <1>3 DEF Word!AlignUpWord
  <2>2. x \in 0 .. M - 1 /\ mask \in 0 .. M - 1 /\ sum \in Nat
    <3>1. sum \in Nat /\ mask \in 0 .. M - 1
      BY <1>1, <1>3
    <3> HIDE DEF M, sum
    <3>2. x \in 0 .. M - 1
      BY <1>1, <3>1, DivisionFacts
    <3> QED
      BY <3>1, <3>2
  <2>3. aligned \in Nat /\ x - mask <= aligned /\ aligned <= x
    BY <2>1, <2>2, MaskTakesLittle
  <2>4. sum < M => x = sum
    <3> HIDE DEF M, sum
    <3> QED
      BY <1>1, <2>2, SmallRemainder
  <2>5. \A n \in 0 .. w : alignment = 2 ^ n => aligned % alignment = 0
    <3> TAKE n \in 0 .. w
    <3>1. x \in Nat
      BY <1>1, <2>2
    <3> HIDE DEF x, aligned
    <3>2. Word(w, s, a)!AndNot(x, 2 ^ n - 1) % 2 ^ n = 0
      BY <3>1, MaskLeavesMultiple
    <3> QED
      BY <2>1, <3>2
  <2> HIDE DEF x, aligned, M
  <2>6. aligned \in 0 .. M - 1
    BY <1>1, <2>2, <2>3
  <2>7. sum < M => aligned \in value .. value + alignment - 1
    <3>1. value \in Nat /\ alignment \in Nat
      BY PowerIsNat
    <3> QED
      BY <2>3, <2>4, <3>1
  <2> QED
    BY <2>5, <2>6, <2>7 DEF M, aligned
<1> QED
  BY <1>1, <1>2, <1>3

(* Sizes aligned over and over stay words.                                 *)
LEMMA WordsStayWords ==
  ASSUME NEW w \in Nat, NEW VARIABLE size, NEW VARIABLE alignment
  PROVE  Word(w, size, alignment)!Spec =>
           [](size \in 0 .. 2 ^ w - 1 /\ alignment \in 0 .. 2 ^ w - 1)
<1> DEFINE I == size \in 0 .. 2 ^ w - 1 /\ alignment \in 0 .. 2 ^ w - 1
           Step == Word(w, size, alignment)!Next
           vs == Word(w, size, alignment)!vars
           aligned == Word(w, size, alignment)!AlignUpWord(size, alignment)
<1>1. Word(w, size, alignment)!Init => I
  BY DEF Word!Init, Word!Words
<1>2. I /\ [Step]_vs => I'
  <2> SUFFICES ASSUME I, [Step]_vs
               PROVE  I'
    OBVIOUS
  <2>1. CASE Step
    <3>1. PICK b \in 0 .. 2 ^ w - 1 : Word(w, size, alignment)!Again(b)
      BY <2>1 DEF Word!Next, Word!Words
    <3>2. size' = aligned /\ alignment' = b
      BY <3>1 DEF Word!Again
    <3>3. alignment \in 0 .. 2 ^ w
      BY PowerIsNat
    <3>4. aligned \in 0 .. 2 ^ w - 1
      BY <3>3, AlignUpFacts
    <3> QED
      BY <3>1, <3>2, <3>4
  <2>2. CASE UNCHANGED vs
    BY <2>2 DEF Word!vars
  <2> QED
    BY <2>1, <2>2
<1> QED
  BY <1>1, <1>2, PTL DEF Word!Spec

(* Rounding a size up to an alignment of any number takes less than one    *)
(* alignment, in a word of any width and however often it is done: what    *)
(* keeps the padding that chs_section_align appends from wrapping around.  *)
THEOREM PaddingStaysSmall ==
  ASSUME NEW w \in Nat, NEW VARIABLE size, NEW VARIABLE alignment
  PROVE  Word(w, size, alignment)!Spec =>
           []Word(w, size, alignment)!PaddingIsSmall
<1> DEFINE I == size \in 0 .. 2 ^ w - 1 /\ alignment \in 0 .. 2 ^ w - 1
<1>1. I => Word(w, size, alignment)!PaddingIsSmall
  <2> SUFFICES ASSUME I, alignment > 0, size + alignment - 1 < 2 ^ w
               PROVE  Word(w, size, alignment)!AlignUpWord(size, alignment)
                        \in size .. size + alignment - 1
    BY DEF Word!PaddingIsSmall, Word!NoWrap
  <2>1. alignment \in 0 .. 2 ^ w
    BY PowerIsNat
  <2> QED
    BY <2>1, AlignUpFacts
<1>2. Word(w, size, alignment)!Spec => []I
  BY WordsStayWords
<1> QED
  BY <1>1, <1>2, PTL

(* Rounding up to a power of two gives the least multiple of it that is    *)
(* not below the size, in a word of any width: what .p2align promises and  *)
(* the file offsets of both writers rest on (chs_align_up_u64).            *)
THEOREM AlignedIsLeast ==
  ASSUME NEW w \in Nat, NEW VARIABLE size, NEW VARIABLE alignment
  PROVE  Word(w, size, alignment)!Spec =>
           []Word(w, size, alignment)!LeastMultiple
<1> DEFINE I == size \in 0 .. 2 ^ w - 1 /\ alignment \in 0 .. 2 ^ w - 1
<1>1. I => Word(w, size, alignment)!LeastMultiple
  <2> DEFINE aligned == Word(w, size, alignment)!AlignUpWord(size, alignment)
  <2> SUFFICES ASSUME I, NEW n \in 0 .. w - 1, alignment = 2 ^ n,
                      size + alignment - 1 < 2 ^ w
               PROVE  /\ aligned % alignment = 0
                      /\ size <= aligned /\ aligned < size + alignment
    BY DEF Word!LeastMultiple, Word!NoWrap, Word!IsPowerOfTwo
  <2>1. /\ alignment \in 0 .. 2 ^ w /\ alignment > 0 /\ n \in 0 .. w
        /\ size \in Nat /\ alignment \in Nat
    BY PowerIsNat
  <2>2. aligned \in size .. size + alignment - 1 /\ aligned % alignment = 0
    BY <2>1, AlignUpFacts
  <2> HIDE DEF aligned
  <2> QED
    BY <2>1, <2>2
<1>2. Word(w, size, alignment)!Spec => []I
  BY WordsStayWords
<1> QED
  BY <1>1, <1>2, PTL

(* What ChsBuffer assumes of AlignUp is true of chs_align_up_u64 up to the *)
(* end of the word: eight is a power of two.                               *)
THEOREM EightIsMet ==
  ASSUME NEW w \in Nat, w >= 3, NEW s, NEW a, NEW n \in Nat, n + 7 < 2 ^ w
  PROVE  /\ Word(w, s, a)!AlignUpWord(n, 8) \in n .. n + 7
         /\ Word(w, s, a)!AlignUpWord(n, 8) % 8 = 0
<1>1. 2 ^ 3 = 8
  <2>1. 2 ^ 0 = 1 /\ 0 + 1 = 1 /\ 1 + 1 = 2 /\ 2 + 1 = 3
    OBVIOUS
  <2>2. /\ 2 ^ (0 + 1) = 2 * 2 ^ 0 /\ 2 ^ (1 + 1) = 2 * 2 ^ 1
        /\ 2 ^ (2 + 1) = 2 * 2 ^ 2
    BY PowerDoubles
  <2> QED
    BY <2>1, <2>2
<1>2. 2 ^ w \in Nat /\ 8 <= 2 ^ w
  <2>1. w - 3 \in Nat /\ 3 + (w - 3) = w
    OBVIOUS
  <2>2. 2 ^ w = 8 * 2 ^ (w - 3)
    BY <1>1, <2>1, PowerSum
  <2>3. 2 ^ (w - 3) \in Nat \ {0}
    BY <2>1, PowerIsNat
  <2> QED
    BY <2>2, <2>3
<1>3. /\ n \in 0 .. 2 ^ w - 1 /\ n + 8 - 1 < 2 ^ w
      /\ 8 \in 0 .. 2 ^ w /\ 3 \in 0 .. w
  BY <1>2
<1>4. Word(w, s, a)!AlignUpWord(n, 8) \in n .. n + 8 - 1
  BY <1>3, AlignUpFacts
<1>5. Word(w, s, a)!AlignUpWord(n, 8) % 8 = 0
  BY <1>1, <1>3, AlignUpFacts
<1> QED
  BY <1>4, <1>5
=============================================================================
