------------------------------ MODULE ChsBuffer ------------------------------
(***************************************************************************)
(* The growing byte buffer of src/common.c (ChsBuffer), as pure operators. *)
(* Bytes are abstracted to pieces: what was written, where, and how long.  *)
(* A buffer grows by realloc to a capacity of 64 times a power of two, and *)
(* the writers move its length by hand once.                               *)
(***************************************************************************)
EXTENDS Integers, Sequences

CONSTANTS
  Capacities,       \* the capacities realloc grants
  MaxBuffer,        \* no capacity is above this bound
  AlignUp(_, _)     \* chs_align_up_u64, given by module ChsAlign

(* The first capacity is 64; without any there is nothing to write to.     *)
ASSUME CapacityAssumption ==
  /\ MaxBuffer \in Nat
  /\ Capacities # {}
  /\ Capacities \subseteq {64 * k : k \in 1 .. MaxBuffer \div 64}

ASSUME AlignUpAssumption ==
  \A n \in 0 .. MaxBuffer :
    /\ AlignUp(n, 8) \in n .. n + 7
    /\ AlignUp(n, 8) % 8 = 0

EmptyBuffer == [length |-> 0, capacity |-> 0, pieces |-> << >>]

(* Capacities that hold n more bytes.                                      *)
Larger(b, n) == {c \in Capacities : c >= b.length + n}

HasRoom(b, n) == b.length + n <= b.capacity \/ Larger(b, n) # {}

(* Wrong variant: room for the new bytes alone.                            *)
ReservedForNew(b, n) ==
  IF n <= b.capacity THEN b.capacity
  ELSE CHOOSE c \in Larger(b, n) : \A d \in Larger(b, n) : c <= d

(* The first doubling that is large enough, or the buffer as it is.        *)
Reserved(b, n) ==
  IF b.length + n <= b.capacity THEN b.capacity
  ELSE CHOOSE c \in Larger(b, n) : \A d \in Larger(b, n) : c <= d

Piece(b, x, n) == [at |-> b.length, size |-> n, holds |-> x]

Put(b, x, n) ==
  [length   |-> b.length + n,
   capacity |-> Reserved(b, n),
   pieces   |-> Append(b.pieces, Piece(b, x, n))]

(* A run of records of n bytes each.                                       *)
PutAll(b, xs, n) ==
  [length   |-> b.length + n * Len(xs),
   capacity |-> Reserved(b, n * Len(xs)),
   pieces   |-> b.pieces \o
                  [i \in DOMAIN xs |->
                     [at |-> b.length + n * (i - 1), size |-> n,
                      holds |-> xs[i]]]]

(* Another buffer's bytes, where they now lie.                             *)
PutCopy(b, table) ==
  [length   |-> b.length + table.length,
   capacity |-> Reserved(b, table.length),
   pieces   |-> b.pieces \o
                  [p \in DOMAIN table.pieces |->
                     [table.pieces[p] EXCEPT !.at = b.length + @]]]

Zeros == [is |-> "zeros"]

(* Wrong variant: what is over, instead of what is missing.                *)
Remainder(b, a) == b.length % a

(* Bytes between the length and the next multiple of a.                    *)
Gap(b, a) == (a - (b.length % a)) % a

(* Zeros up to the next multiple of a, byte by byte.                       *)
Pad(b, a) == IF Gap(b, a) = 0 THEN b ELSE Put(b, Zeros, Gap(b, a))

(* The length moved to the next multiple of eight: the bytes in between    *)
(* keep whatever the memory held.                                          *)
Skip(b) == [b EXCEPT !.length = AlignUp(b.length, 8)]
=============================================================================
