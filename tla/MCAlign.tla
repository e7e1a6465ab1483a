-------------------------------- MODULE MCAlign -------------------------------
(***************************************************************************)
(* chs_align_up_u64 over every value and every alignment of a small word,  *)
(* against alignment by its definition.  A size is aligned over and over,  *)
(* as a run of .balign directives does.                                    *)
(***************************************************************************)
EXTENDS ChsAlign

VARIABLES size, alignment

vars == <<size, alignment>>

Words == 0 .. 2 ^ WordBits - 1

Init == size \in Words /\ alignment \in Words

Again(a) ==
  /\ size' = AlignUpWord(size, alignment)
  /\ alignment' = a

Next == \E a \in Words : Again(a)

Spec == Init /\ [][Next]_vars

IsPowerOfTwo(a) == \E n \in 0 .. WordBits - 1 : a = 2 ^ n

(* The rounding the sum needs does not leave the word.                     *)
NoWrap == size + alignment - 1 < 2 ^ WordBits

(* For powers of two the mask gives the least multiple of the alignment    *)
(* that is not below the size: what .p2align promises, and what every file *)
(* offset of the Mach-O writer relies on.                                  *)
LeastMultiple ==
  IsPowerOfTwo(alignment) /\ NoWrap =>
    LET aligned == AlignUpWord(size, alignment)
    IN  /\ aligned % alignment = 0
        /\ size <= aligned /\ aligned < size + alignment

(* For any alignment, also the ones .balign does not check to be powers of *)
(* two, the result is not below the size and less than one alignment       *)
(* above it, as long as their sum stays in the word.                       *)
PaddingIsSmall ==
  alignment > 0 /\ NoWrap =>
    AlignUpWord(size, alignment) \in size .. size + alignment - 1
=============================================================================
