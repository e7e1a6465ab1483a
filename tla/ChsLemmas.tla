------------------------------ MODULE ChsLemmas ------------------------------
(***************************************************************************)
(* Facts about naturals and sequences that the proofs of several modules   *)
(* rest on.                                                                *)
(* Induction is stated for a set of naturals, not for a predicate: a proof *)
(* names the set of numbers for which its claim holds and shows that it    *)
(* contains zero and is closed under successor.                            *)
(***************************************************************************)
EXTENDS Integers, Sequences, FiniteSets, SequenceTheorems, FunctionTheorems,
        FiniteSetTheorems, WellFoundedInduction, TLAPS

(* A set of naturals that is not empty has a least element: the reason why *)
(* CHOOSE finds the smallest capacity that is large enough (ChsBuffer).    *)
LEMMA LeastElement ==
  ASSUME NEW S \in SUBSET Nat, S # {}
  PROVE  \E n \in S : \A m \in S : n <= m
<1>1. PICK n \in S : \A m \in S : ~ (<<m, n>> \in OpToRel(<, Nat))
  BY NatLessThanWellFounded, WFMin
<1>2. ASSUME NEW m \in S, m < n
      PROVE  FALSE
  <2>1. <<m, n>> \in {pair \in Nat \X Nat : pair[1] < pair[2]}
    BY <1>2
  <2>2. <<m, n>> \in OpToRel(<, Nat)
    BY <2>1 DEF OpToRel
  <2> QED
    BY <1>1, <2>2
<1> QED
  BY <1>2

(* Induction over the naturals: how the values of a recursive function     *)
(* such as Role (ChsDriver) or SumTo (ChsMachoWriter) are reached.         *)
LEMMA Induction ==
  ASSUME NEW S, 0 \in S, \A n \in Nat : n \in S => n + 1 \in S
  PROVE  \A n \in Nat : n \in S
<1>1. SUFFICES ASSUME Nat \ S # {}
               PROVE  FALSE
  OBVIOUS
<1>2. PICK n \in Nat \ S : \A m \in Nat \ S : n <= m
  BY <1>1, LeastElement
<1>3. n # 0
  BY <1>2
<1>4. n - 1 \in Nat /\ n - 1 \in S
  BY <1>2, <1>3
<1> QED
  BY <1>2, <1>4

-----------------------------------------------------------------------------
(* Division, multiples and rounding up.                                    *)

LEMMA DivisionFacts ==
  ASSUME NEW a \in Nat \ {0}, NEW n \in Nat
  PROVE  /\ n % a \in 0 .. a - 1
         /\ n \div a \in Nat
         /\ n = a * (n \div a) + (n % a)
<1>1. n % a \in 0 .. a - 1
  OBVIOUS
<1>2. n \div a \in Nat
  OBVIOUS
<1>3. n = a * (n \div a) + (n % a)
  OBVIOUS
<1> QED
  BY <1>1, <1>2, <1>3

LEMMA MultipleIsRound ==
  ASSUME NEW a \in Nat \ {0}, NEW m \in Nat
  PROVE  (a * m) % a = 0
OBVIOUS

LEMMA NextMultiple ==
  ASSUME NEW a \in Nat \ {0}, NEW m \in Nat
  PROVE  a * (m + 1) = a * m + a /\ a * m \in Nat
OBVIOUS

(* A number below the modulus is its own remainder.                        *)
LEMMA SmallRemainder ==
  ASSUME NEW a \in Nat \ {0}, NEW n \in 0 .. a - 1
  PROVE  n % a = n
OBVIOUS

(* Products grow with a factor.                                            *)
LEMMA ProductGrows ==
  ASSUME NEW n \in Nat, NEW i \in Nat, NEW j \in Nat, i <= j
  PROVE  n * i \in Nat /\ n * i <= n * j
<1>1. n * i \in Nat
  OBVIOUS
<1>2. PICK d \in Nat : j = i + d
  <2>1. j - i \in Nat /\ j = i + (j - i)
    OBVIOUS
  <2> QED
    BY <2>1
<1>3. n * (i + d) = n * i + n * d /\ n * d \in Nat
  OBVIOUS
<1> QED
  BY <1>1, <1>2, <1>3

(* Where l records of n bytes each start and end.                          *)
LEMMA Strides ==
  ASSUME NEW n \in Nat \ {0}, NEW l \in Nat
  PROVE  /\ \A i \in 1 .. l : /\ n * (i - 1) \in Nat /\ n * (i - 1) + n = n * i
                              /\ n * (i - 1) + n <= n * l
         /\ \A i, j \in 1 .. l : i < j => n * (i - 1) + n <= n * (j - 1)
<1>1. \A i \in 1 .. l : n * (i - 1) \in Nat /\ n * (i - 1) + n = n * i
  OBVIOUS
<1>2. \A i \in 1 .. l : n * i <= n * l
  BY ProductGrows
<1>3. \A i, j \in 1 .. l : i < j => n * i <= n * (j - 1)
  <2> TAKE i, j \in 1 .. l
  <2> HAVE i < j
  <2>1. i \in Nat /\ j - 1 \in Nat /\ i <= j - 1
    OBVIOUS
  <2> QED
    BY <2>1, ProductGrows
<1> QED
  BY <1>1, <1>2, <1>3

(* What is missing to the next multiple, added, gives a multiple.          *)
LEMMA RoundedUp ==
  ASSUME NEW a \in Nat \ {0}, NEW n \in Nat, NEW g, g = (a - (n % a)) % a
  PROVE  /\ g \in 0 .. a - 1
         /\ (n + g) % a = 0
<1> DEFINE r == n % a
           q == n \div a
           m == a * q
<1>1. r \in 0 .. a - 1 /\ q \in Nat /\ n = m + r
  BY DivisionFacts
<1>2. m \in Nat /\ a * (q + 1) = m + a
  BY <1>1, NextMultiple
<1>3. CASE r = 0
  <2>1. g = 0
    BY <1>3
  <2>2. n + g = n /\ n % a = 0
    BY <2>1, <1>3
  <2>3. (n + g) % a = 0 /\ g \in 0 .. a - 1
    BY <2>1, <2>2
  <2> QED
    BY <2>3
<1>4. CASE r > 0
  <2>1. a - r \in 0 .. a - 1
    BY <1>1, <1>4
  <2>2. g = a - r
    BY <2>1
  <2> HIDE DEF r, m
  <2>3. n + g = m + a
    BY <2>2, <1>1, <1>2
  <2> HIDE DEF q
  <2>4. q + 1 \in Nat
    BY <1>1
  <2>5. n + g = a * (q + 1)
    BY <2>3, <1>2
  <2>6. (a * (q + 1)) % a = 0
    BY <2>4, MultipleIsRound
  <2>7. (n + g) % a = 0
    BY <2>5, <2>6
  <2> QED
    BY <2>1, <2>2, <2>7
<1> QED
  BY <1>1, <1>3, <1>4

-----------------------------------------------------------------------------
(* What a sequence holds.                                                  *)
Members(s) == {s[i] : i \in DOMAIN s}

(* Appending to a sequence of anything.                                    *)
LEMMA AppendMembers ==
  ASSUME NEW S, NEW s \in Seq(S), NEW x
  PROVE  Members(Append(s, x)) = Members(s) \cup {x}
<1> DEFINE t == Append(s, x)
<1>1. Len(s) \in Nat /\ DOMAIN s = 1 .. Len(s)
  OBVIOUS
<1>2. s \in Seq(S \cup {x})
  BY SeqMonotonic
<1>3. /\ DOMAIN t = 1 .. Len(s) + 1
      /\ \A i \in 1 .. Len(s) : t[i] = s[i]
      /\ t[Len(s) + 1] = x
  BY <1>2
<1> HIDE DEF t
<1>4. \A i \in DOMAIN t : i \in DOMAIN s \/ i = Len(s) + 1
  BY <1>1, <1>3
<1>5. DOMAIN s \subseteq DOMAIN t /\ Len(s) + 1 \in DOMAIN t
  BY <1>1, <1>3
<1>6. Members(t) = Members(s) \cup {x}
  BY <1>1, <1>3, <1>4, <1>5 DEF Members
<1> QED
  BY <1>6 DEF t

(* A sequence is one of its own members.                                   *)
LEMMA SeqOfMembers ==
  ASSUME NEW S, NEW s \in Seq(S)
  PROVE  s \in Seq(Members(s))
<1>1. s \in [1 .. Len(s) -> Members(s)] /\ Len(s) \in Nat
  BY DEF Members
<1> QED
  BY <1>1

(* Joining two sequences of anything.                                      *)
LEMMA JoinMembers ==
  ASSUME NEW S, NEW T, NEW s \in Seq(S), NEW t \in Seq(T)
  PROVE  Members(s \o t) = Members(s) \cup Members(t)
<1> DEFINE u == s \o t
<1>1. /\ Len(s) \in Nat /\ DOMAIN s = 1 .. Len(s)
      /\ Len(t) \in Nat /\ DOMAIN t = 1 .. Len(t)
  OBVIOUS
<1>2. s \in Seq(S \cup T) /\ t \in Seq(S \cup T)
  BY SeqMonotonic
<1>3. /\ u \in Seq(S \cup T) /\ Len(u) = Len(s) + Len(t)
      /\ \A i \in 1 .. Len(s) + Len(t) :
           u[i] = IF i <= Len(s) THEN s[i] ELSE t[i - Len(s)]
  BY <1>2, ConcatProperties
<1>4. DOMAIN u = 1 .. Len(s) + Len(t)
  BY <1>3
<1> HIDE DEF u
<1>5. \A i \in DOMAIN s : i \in DOMAIN u /\ u[i] = s[i]
  BY <1>1, <1>3, <1>4
<1>6. \A i \in DOMAIN t : Len(s) + i \in DOMAIN u /\ u[Len(s) + i] = t[i]
  BY <1>1, <1>3, <1>4
<1>7. \A i \in DOMAIN u :
        \/ i \in DOMAIN s /\ u[i] = s[i]
        \/ i - Len(s) \in DOMAIN t /\ u[i] = t[i - Len(s)]
  BY <1>1, <1>3, <1>4
<1>8. Members(u) = Members(s) \cup Members(t)
  BY <1>5, <1>6, <1>7 DEF Members
<1> QED
  BY <1>8 DEF u

-----------------------------------------------------------------------------
(* Remainders of integers: counters that wrap around.                      *)
LEMMA IntDivision ==
  ASSUME NEW W \in Nat \ {0}, NEW n \in Int
  PROVE  /\ n % W \in 0 .. W - 1
         /\ n \div W \in Int
         /\ n = W * (n \div W) + (n % W)
<1>1. n % W \in 0 .. W - 1
  OBVIOUS
<1>2. n \div W \in Int
  OBVIOUS
<1>3. n = W * (n \div W) + (n % W)
  OBVIOUS
<1> QED
  BY <1>1, <1>2, <1>3

LEMMA RemainderIsUnique ==
  ASSUME NEW W \in Nat \ {0}, NEW q \in Int, NEW r \in 0 .. W - 1
  PROVE  (W * q + r) % W = r
<1> DEFINE n == W * q + r
           p == n \div W
           s == n % W
<1>1. n \in Int /\ r \in Int
  OBVIOUS
<1> HIDE DEF n
<1>2. s \in 0 .. W - 1 /\ p \in Int /\ n = W * p + s
  BY <1>1, IntDivision
<1> HIDE DEF p, s
<1>3. W * q + r = W * p + s
  BY <1>2 DEF n
<1>4. CASE q < p
  <2>1. q + 1 <= p /\ p - q \in Nat /\ 1 <= p - q
    BY <1>2, <1>4
  <2>2. W * 1 <= W * (p - q)
    BY <2>1, ProductGrows
  <2>3. W * (p - q) = W * p - W * q
    BY <1>2
  <2>4. W * p \in Int /\ W * q \in Int
    BY <1>2
  <2> QED
    BY <1>1, <1>2, <1>3, <2>2, <2>3, <2>4
<1>5. CASE p < q
  <2>1. q - p \in Nat /\ 1 <= q - p
    BY <1>2, <1>5
  <2>2. W * 1 <= W * (q - p)
    BY <2>1, ProductGrows
  <2>3. W * (q - p) = W * q - W * p
    BY <1>2
  <2>4. W * p \in Int /\ W * q \in Int
    BY <1>2
  <2> QED
    BY <1>1, <1>2, <1>3, <2>2, <2>3, <2>4
<1>6. CASE p = q
  <2>1. W * p \in Int
    BY <1>2
  <2> QED
    BY <1>2, <1>3, <1>6, <2>1 DEF s, n
<1> QED
  BY <1>2, <1>4, <1>5, <1>6

(* It does not matter when a counter wraps around.                         *)
LEMMA RemainderOfSum ==
  ASSUME NEW W \in Nat \ {0}, NEW a \in Int, NEW b \in Int
  PROVE  ((a % W) + b) % W = (a + b) % W
<1> DEFINE r == a % W
           q == a \div W
           c == r + b
           p == c \div W
           s == c % W
<1>1. r \in 0 .. W - 1 /\ q \in Int /\ a = W * q + r
  BY IntDivision
<1> HIDE DEF r, q
<1>2. c \in Int
  BY <1>1
<1>3. s \in 0 .. W - 1 /\ p \in Int /\ c = W * p + s
  <2> HIDE DEF c
  <2> QED
    BY <1>2, IntDivision
<1> HIDE DEF s, p
<1>4. a + b = W * (q + p) + s
  <2>1. W * (q + p) = W * q + W * p
    BY <1>1, <1>3
  <2>2. W * q \in Int /\ W * p \in Int
    BY <1>1, <1>3
  <2>3. a + b = W * q + c
    BY <1>1, <2>2
  <2> HIDE DEF c
  <2> QED
    BY <1>1, <1>2, <1>3, <2>1, <2>2, <2>3
<1>5. q + p \in Int
  BY <1>1, <1>3
<1>6. (a + b) % W = s
  <2> DEFINE t == q + p
  <2> HIDE DEF t
  <2>1. (W * t + s) % W = s
    BY <1>3, <1>5, RemainderIsUnique DEF t
  <2> QED
    BY <1>4, <2>1 DEF t
<1> QED
  BY <1>6 DEF s, r

(* Numbers of one remainder are a multiple apart.                          *)
LEMMA SameRemainder ==
  ASSUME NEW W \in Nat \ {0}, NEW a \in Int, NEW b \in Int, a % W = b % W
  PROVE  (a - b) % W = 0
<1>1. ((a % W) + (0 - b)) % W = (a - b) % W
  <2>1. 0 - b \in Int /\ a + (0 - b) = a - b
    OBVIOUS
  <2> QED
    BY <2>1, RemainderOfSum
<1>2. ((b % W) + (0 - b)) % W = 0
  <2>1. 0 - b \in Int /\ b + (0 - b) = 0
    OBVIOUS
  <2>2. ((b % W) + (0 - b)) % W = 0 % W
    BY <2>1, RemainderOfSum
  <2>3. 0 % W = 0
    OBVIOUS
  <2> QED
    BY <2>2, <2>3
<1> QED
  BY <1>1, <1>2

(* Adding multiples changes no remainder.                                  *)
LEMMA MultiplesVanish ==
  ASSUME NEW W \in Nat \ {0}, NEW a \in Int, NEW q \in Int
  PROVE  (a + W * q) % W = a % W
<1> DEFINE r == a % W
           p == a \div W
<1>1. r \in 0 .. W - 1 /\ p \in Int /\ a = W * p + r
  BY IntDivision
<1> HIDE DEF r, p
<1>2. a + W * q = W * (p + q) + r
  <2>1. W * (p + q) = W * p + W * q /\ W * p \in Int /\ W * q \in Int
    BY <1>1
  <2> QED
    BY <1>1, <2>1
<1> DEFINE t == p + q
<1>3. t \in Int
  BY <1>1
<1> HIDE DEF t
<1>4. (W * t + r) % W = r
  BY <1>1, <1>3, RemainderIsUnique
<1> QED
  BY <1>2, <1>4 DEF t, r

-----------------------------------------------------------------------------
(* Powers of two, counted as the subsets of an interval.                   *)
LEMMA SubsetsOfInterval ==
  ASSUME NEW n \in Nat
  PROVE  /\ IsFiniteSet(SUBSET (1 .. n))
         /\ Cardinality(SUBSET (1 .. n)) = 2 ^ n
<1>1. IsFiniteSet(1 .. n) /\ Cardinality(1 .. n) = n
  BY FS_Interval
<1> QED
  BY <1>1, FS_SUBSET

LEMMA PowerDoubles ==
  ASSUME NEW n \in Nat
  PROVE  2 ^ (n + 1) = 2 * 2 ^ n
<1> DEFINE m == n + 1
           S == SUBSET (1 .. n)
           T == {X \cup {m} : X \in S}
           f == [X \in S |-> X \cup {m}]
<1>1. /\ m \in Nat /\ m \notin 1 .. n /\ 1 .. m = (1 .. n) \cup {m}
  OBVIOUS
<1>2. /\ IsFiniteSet(S) /\ Cardinality(S) = 2 ^ n /\ Cardinality(S) \in Nat
  BY SubsetsOfInterval, FS_CardinalityType
<1>3. Cardinality(SUBSET (1 .. m)) = 2 ^ m
  BY <1>1, SubsetsOfInterval
<1> HIDE DEF m
<1>4. SUBSET (1 .. m) = S \cup T
  <2>1. ASSUME NEW X \in SUBSET (1 .. m)
        PROVE  X \in S \cup T
    <3>1. CASE m \in X
      <4>1. X \ {m} \in S /\ X = (X \ {m}) \cup {m}
        BY <1>1, <3>1
      <4> QED
        BY <4>1
    <3>2. CASE m \notin X
      BY <1>1, <3>2
    <3> QED
      BY <3>1, <3>2
  <2>2. \A X \in S : X \in SUBSET (1 .. m) /\ X \cup {m} \in SUBSET (1 .. m)
    BY <1>1
  <2>3. \A X \in S \cup T : X \in SUBSET (1 .. m)
    BY <2>2
  <2> HIDE DEF S, T
  <2> QED
    BY <2>1, <2>3
<1>5. S \cap T = {}
  BY <1>1
<1>6. f \in Bijection(S, T)
  <2>1. f \in [S -> T]
    OBVIOUS
  <2>2. \A X, Y \in S : f[X] = f[Y] => X = Y
    BY <1>1
  <2>3. \A Y \in T : \E X \in S : f[X] = Y
    OBVIOUS
  <2> HIDE DEF f, S, T
  <2> QED
    BY <2>1, <2>2, <2>3, Fun_IsBij
<1> HIDE DEF S, T, f
<1>7. IsFiniteSet(T) /\ Cardinality(T) = Cardinality(S)
  <2>1. ExistsBijection(S, T)
    BY <1>6 DEF ExistsBijection
  <2> QED
    BY <1>2, <2>1, FS_Bijection
<1>8. Cardinality(S \cup T) = Cardinality(S) + Cardinality(T)
  BY <1>2, <1>5, <1>7, FS_Union, FS_EmptySet
<1>9. 2 ^ m = 2 ^ n + 2 ^ n /\ 2 ^ n \in Nat
  BY <1>2, <1>3, <1>4, <1>7, <1>8
<1> QED
  BY <1>9 DEF m

LEMMA PowerIsNat ==
  ASSUME NEW n \in Nat
  PROVE  2 ^ n \in Nat \ {0}
<1>1. IsFiniteSet(SUBSET (1 .. n)) /\ Cardinality(SUBSET (1 .. n)) = 2 ^ n
  BY SubsetsOfInterval
<1>2. 2 ^ n \in Nat
  BY <1>1, FS_CardinalityType
<1>3. {} \in SUBSET (1 .. n)
  OBVIOUS
<1>4. Cardinality(SUBSET (1 .. n)) # 0
  BY <1>1, <1>3, FS_EmptySet
<1> QED
  BY <1>1, <1>2, <1>4

LEMMA PowerSum ==
  ASSUME NEW m \in Nat, NEW n \in Nat
  PROVE  2 ^ (m + n) = 2 ^ m * 2 ^ n
<1> DEFINE S == {i \in Nat : 2 ^ (m + i) = 2 ^ m * 2 ^ i}
<1>1. 0 \in S
  <2>1. m + 0 = m /\ 2 ^ 0 = 1 /\ 2 ^ m \in Nat
    BY PowerIsNat
  <2> QED
    BY <2>1
<1>2. ASSUME NEW i \in Nat, i \in S
      PROVE  i + 1 \in S
  <2>1. 2 ^ (m + i) = 2 ^ m * 2 ^ i
    BY <1>2
  <2>2. m + i \in Nat /\ m + (i + 1) = (m + i) + 1 /\ i + 1 \in Nat
    OBVIOUS
  <2>3. 2 ^ ((m + i) + 1) = 2 * 2 ^ (m + i) /\ 2 ^ (i + 1) = 2 * 2 ^ i
    BY <2>2, PowerDoubles
  <2>4. 2 ^ m \in Nat /\ 2 ^ i \in Nat
    BY PowerIsNat
  <2> DEFINE x == 2 ^ m
             y == 2 ^ i
  <2>5. 2 ^ (m + (i + 1)) = 2 * (x * y) /\ x * 2 ^ (i + 1) = x * (2 * y)
    BY <2>1, <2>2, <2>3
  <2>6. x \in Nat /\ y \in Nat
    BY <2>4
  <2>7. 2 * (x * y) = x * (2 * y)
    <3> HIDE DEF x, y
    <3> QED
      BY <2>6
  <2> QED
    BY <2>2, <2>5, <2>7
<1>3. n \in S
  <2> HIDE DEF S
  <2> QED
    BY <1>1, <1>2, Induction
<1> QED
  BY <1>3

(* Of a number, the lowest n + 1 bits are the lowest n and one more.       *)
LEMMA NextBit ==
  ASSUME NEW x \in Nat, NEW n \in Nat
  PROVE  /\ (x \div 2 ^ n) % 2 \in {0, 1}
         /\ x % 2 ^ (n + 1) = (x % 2 ^ n) + ((x \div 2 ^ n) % 2) * 2 ^ n
<1> DEFINE W == 2 ^ n
           r == x % W
           q == x \div W
           t == q % 2
           h == q \div 2
<1>1. W \in Nat \ {0} /\ 2 ^ (n + 1) = 2 * W
  BY PowerIsNat, PowerDoubles
<1> HIDE DEF W
<1>2. r \in 0 .. W - 1 /\ q \in Nat /\ x = W * q + r
  BY <1>1, DivisionFacts
<1> HIDE DEF r, q
<1>3. t \in {0, 1} /\ h \in Nat /\ q = 2 * h + t
  BY <1>2
<1> HIDE DEF t, h
<1> DEFINE V == 2 * W
           low == r + t * W
<1>4. x = V * h + low
  <2>1. W * (2 * h + t) = (2 * W) * h + t * W
    BY <1>1, <1>3
  <2>2. W * (2 * h + t) \in Nat /\ (2 * W) * h \in Nat /\ t * W \in Nat
    BY <1>1, <1>3
  <2>3. x = W * (2 * h + t) + r
    BY <1>2, <1>3
  <2> QED
    BY <1>2, <2>1, <2>2, <2>3
<1>5. low \in 0 .. V - 1 /\ V \in Nat \ {0}
  <2>1. t * W \in Nat /\ t * W <= W
    BY <1>1, <1>3
  <2> QED
    BY <1>1, <1>2, <2>1
<1> HIDE DEF low, V
<1>6. x % V = low
  BY <1>3, <1>4, <1>5, RemainderIsUnique
<1>7. x % 2 ^ (n + 1) = r + t * W
  BY <1>1, <1>6 DEF low, V
<1> QED
  BY <1>3, <1>7 DEF r, t, q, W

(* All bits below n of 2 ^ n - 1 are set.                                  *)
LEMMA LowBitsSet ==
  ASSUME NEW n \in Nat, NEW i \in 0 .. n - 1
  PROVE  ((2 ^ n - 1) \div 2 ^ i) % 2 = 1
<1> DEFINE W == 2 ^ i
           k == 2 ^ (n - i - 1)
           x == 2 ^ n - 1
<1>1. i \in Nat /\ n - i - 1 \in Nat
  OBVIOUS
<1>2. W \in Nat \ {0} /\ k \in Nat \ {0}
  BY <1>1, PowerIsNat
<1>3. 2 ^ n = 2 * (W * k)
  <2>1. i + (n - i - 1) = n - 1 /\ n - 1 \in Nat /\ (n - 1) + 1 = n
    BY <1>1
  <2>2. 2 ^ (n - 1) = W * k
    BY <1>1, <2>1, PowerSum
  <2>3. 2 ^ ((n - 1) + 1) = 2 * 2 ^ (n - 1)
    BY <2>1, PowerDoubles
  <2> QED
    BY <2>1, <2>2, <2>3
<1> HIDE DEF W, k
<1> DEFINE q == 2 * k - 1
           r == W - 1
<1>4. x = W * q + r /\ q \in Nat /\ r \in 0 .. W - 1
  <2>1. W * (2 * k - 1) = 2 * (W * k) - W /\ W * k \in Nat
    BY <1>2
  <2>2. W * (2 * k - 1) \in Int
    BY <1>2
  <2> QED
    BY <1>2, <1>3, <2>1, <2>2
<1>5. x \in Nat /\ x % W \in 0 .. W - 1 /\ x = W * (x \div W) + (x % W)
      /\ x \div W \in Nat
  <2>1. x \in Nat
    BY <1>4, <1>2
  <2> HIDE DEF x
  <2> QED
    BY <1>2, <2>1, DivisionFacts
<1>6. x \div W = q
  <2>1. x % W = r
    <3> HIDE DEF x, q, r
    <3> QED
      BY <1>2, <1>4, RemainderIsUnique
  <2> DEFINE p == x \div W
  <2>2. W * p = W * q /\ p \in Nat
    <3> HIDE DEF q, r, x
    <3> QED
      BY <1>2, <1>4, <1>5, <2>1
  <2> HIDE DEF p, q, x
  <2>3. p = q
    BY <1>2, <1>4, <2>2
  <2> QED
    BY <2>3 DEF p
<1>7. q % 2 = 1
  BY <1>2
<1> QED
  BY <1>6, <1>7 DEF W

(* Where the members of a joined sequence come from.                       *)
LEMMA JoinedPlaces ==
  ASSUME NEW S, NEW s \in Seq(S), NEW t \in Seq(S), NEW u, u = s \o t
  PROVE  /\ Len(s) \in Nat /\ Len(t) \in Nat /\ Len(u) = Len(s) + Len(t)
         /\ u \in Seq(S) /\ DOMAIN u = 1 .. Len(u)
         /\ \A i \in 1 .. Len(s) : i \in 1 .. Len(u) /\ u[i] = s[i]
         /\ \A i \in 1 .. Len(t) :
              Len(s) + i \in 1 .. Len(u) /\ u[Len(s) + i] = t[i]
         /\ \A i \in 1 .. Len(u) :
              \/ i \in 1 .. Len(s) /\ u[i] = s[i]
              \/ i > Len(s) /\ i - Len(s) \in 1 .. Len(t) /\ u[i] = t[i - Len(s)]
<1>1. /\ u \in Seq(S) /\ Len(u) = Len(s) + Len(t)
      /\ \A i \in 1 .. Len(s) + Len(t) :
           u[i] = IF i <= Len(s) THEN s[i] ELSE t[i - Len(s)]
  BY ConcatProperties
<1>2. Len(s) \in Nat /\ Len(t) \in Nat /\ DOMAIN u = 1 .. Len(u)
  BY <1>1
<1> DEFINE m == Len(s)
           n == Len(t)
<1>3. m \in Nat /\ n \in Nat /\ Len(u) = m + n
  BY <1>1, <1>2
<1>4. \A i \in 1 .. m + n : u[i] = IF i <= m THEN s[i] ELSE t[i - m]
  BY <1>1
<1> HIDE DEF m, n
<1>5. \A i \in 1 .. m : i \in 1 .. Len(u) /\ u[i] = s[i]
  <2> TAKE i \in 1 .. m
  <2>1. i \in 1 .. m + n /\ i <= m
    BY <1>3
  <2> QED
    BY <1>3, <1>4, <2>1
<1>6. \A i \in 1 .. n : m + i \in 1 .. Len(u) /\ u[m + i] = t[i]
  <2> TAKE i \in 1 .. n
  <2>1. m + i \in 1 .. m + n /\ ~(m + i <= m) /\ (m + i) - m = i
    BY <1>3
  <2>2. u[m + i] = t[(m + i) - m]
    BY <1>4, <2>1
  <2> QED
    BY <1>3, <2>1, <2>2
<1>7. \A i \in 1 .. Len(u) :
        \/ i \in 1 .. m /\ u[i] = s[i]
        \/ i > m /\ i - m \in 1 .. n /\ u[i] = t[i - m]
  BY <1>3, <1>4
<1> QED
  BY <1>1, <1>2, <1>5, <1>6, <1>7 DEF m, n
=============================================================================
