------------------------------- MODULE ChsAlign ------------------------------
(***************************************************************************)
(* chs_align_up_u64 (src/common.c): (value + a - 1) & ~(a - 1), evaluated  *)
(* bit by bit for any a, power of two or not.                              *)
(***************************************************************************)
EXTENDS Integers

CONSTANT WordBits    \* width of the machine word the sum is computed in

BitOf(x, b) == (x \div 2 ^ b) % 2

(* x & ~mask *)
AndNot(x, mask) ==
  LET kept[b \in 0 .. WordBits] ==
        IF b = 0 THEN 0
        ELSE kept[b - 1] + (IF BitOf(mask, b - 1) = 1 THEN 0
                            ELSE BitOf(x, b - 1) * 2 ^ (b - 1))
  IN  kept[WordBits]

(* Wrong variants: no rounding up, and rounding up what is aligned.        *)
AlignDownWord(value, alignment) ==
  IF alignment <= 1 THEN value ELSE AndNot(value, alignment - 1)
AlignPastWord(value, alignment) ==
  IF alignment <= 1 THEN value
  ELSE AndNot((value + alignment) % 2 ^ WordBits, alignment - 1)

AlignUpWord(value, alignment) ==
  IF alignment <= 1 THEN value
  ELSE AndNot((value + alignment - 1) % 2 ^ WordBits, alignment - 1)
=============================================================================
