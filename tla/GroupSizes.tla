---------------------------- MODULE GroupSizes ------------------------------
(***************************************************************************)
(* When group_and_check_equality works: the faults a call can have, from   *)
(* the sizes it is called with.  Module GroupEquality runs the check       *)
(* itself, limb by limb.                                                   *)
(***************************************************************************)
EXTENDS EmulatedParams

CONSTANTS
  MBS,  \* BaseF::MODULUS_BIT_SIZE
  Q     \* BaseF::MODULUS

ASSUME FieldAssumption ==
  MBS \in Nat \ {0} /\ Q \in Nat /\ Pow2[MBS - 1] < Q /\ Q < Pow2[MBS]

(* What can be wrong with a call: it panics, an integer it computes leaves *)
(* the field, or a witness it computes may not fit its bits.               *)
Faults(panic, wrap, unsat) ==
    (IF panic THEN {"panic"} ELSE {})
      \cup (IF wrap THEN {"wrap"} ELSE {})
      \cup (IF unsat THEN {"unsat"} ELSE {})

(* limb * (1 + 2^shift + ... + 2^(shift * (g - 1))): a group of g limbs.   *)
GroupTotal(limb, shift, g) ==
  limb * ((Pow2[shift * g] - 1) \div (Pow2[shift] - 1))

(* A carry that is not the last is below this: limb_to_bits.               *)
CarryRange(surfeit, bits) == Pow2[Min({MBS - 1, surfeit + bits})]

(* The right side of a group's equation, carry * 2^(shift * g) plus a      *)
(* remainder, is the prover's to choose: a carry that is not the last only *)
(* has to have the bits limb_to_bits allows, and with all of them set the  *)
(* right side may leave the field.                                         *)
CarryFaults(surfeit, bits, shift, len) ==
  LET size == GroupSize(MBS, surfeit, bits, shift)
  IN  IF size < len /\ CarryRange(surfeit, bits) * Pow2[shift * size] > Q
      THEN {"loose"} ELSE {}

(* group_and_check_equality over `len` limb pairs no larger than left and  *)
(* right: the padding must outweigh the right side, the sum of the left    *)
(* side, padding and carry must stay in the field, and every honest carry  *)
(* that is not the last must fit the bits limb_to_bits gives it.           *)
GroupFaults(surfeit, bits, shift, left, right, len) ==
  LET size  == GroupSize(MBS, surfeit, bits, shift)
      g     == Min({size, len})
      pad   == Pow2[PadExponent(surfeit, bits, shift, g)]
      carry == CarryRange(surfeit, bits)
      total == GroupTotal(left, shift, g) + pad + carry - 1
  IN  IF size < 1 THEN {"panic"}
      ELSE Faults(pad >= Q,
                  total >= Q \/ GroupTotal(right, shift, g) > pad,
                  size < len /\ total \div Pow2[shift * g] >= carry)
             \cup CarryFaults(surfeit, bits, shift, len)
=============================================================================
