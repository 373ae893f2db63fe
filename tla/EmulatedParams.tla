--------------------------- MODULE EmulatedParams ---------------------------
(***************************************************************************)
(* The sizes of an emulated field: how wide a limb is, how many limbs an   *)
(* element has, and how many of them `group_and_check_equality` packs into *)
(* one native field element.  Everything here is a pure function.          *)
(***************************************************************************)
EXTENDS PowersOfTwo, FiniteSetsExt

(* Mutant: a division without remainder is rounded up as well.             *)
FloorPlusOne(a, b) == a \div b + 1

CeilDiv(a, b) == (a + b - 1) \div b

(* Mutant: nothing is reserved for lazy reduction.                         *)
NoSearchSurfeit == 0

(* The surfeit find_parameters reserves, whatever the program does later.  *)
SearchSurfeit == 10

(* The widest limb find_parameters tries.                                  *)
MaxLimbSize(base, target) ==
  Min({(base - 1 - SearchSurfeit - 1) \div 2 - 1, target})

(* The cost find_parameters gives to limbs of l bits.                      *)
SearchCost(base, target, goal, l) ==
  LET limbs  == CeilDiv(target, l)
      size   == CeilDiv(base - 1 - SearchSurfeit - 1 - 1 - l, l)
      groups == CeilDiv(2 * limbs - 1, size)
  IN  IF goal = "Constraints"
      THEN (2 * limbs - 1) + target + (target + limbs)
             + groups + (groups - 1) * (2 * l + SearchSurfeit) + 1
      ELSE 6 * limbs * limbs + 4 * target + 4 * target + limbs
             + limbs * limbs + 2 * (2 * limbs - 1)
             + limbs + 7 * groups
             + (groups - 1) * (2 * l + SearchSurfeit) * 4 + 2

(* find_parameters: the first limb size of least cost.  With no limb size  *)
(* to try, the scan leaves both results at zero.                           *)
FindParameters(base, target, goal) ==
  LET sizes == 1 .. MaxLimbSize(base, target)
      cost  == [l \in sizes |-> SearchCost(base, target, goal, l)]
      best  == Min({l \in sizes : \A k \in sizes : cost[l] <= cost[k]})
  IN  IF sizes = {} THEN [limbs |-> 0, bits |-> 0]
                    ELSE [limbs |-> CeilDiv(target, best), bits |-> best]

(* num_limb_in_a_group.  The code subtracts in usize: a value below one    *)
(* stands for the underflow or for `chunks(0)`, which both panic.          *)
GroupSize(mbs, surfeit, bits, shift) ==
  (mbs - 1 - surfeit - 1 - 1 - 1 - (bits - shift)) \div shift

(* Mutant: the padding only covers the bits of the surfeit.                *)
PadExponentShort(surfeit, bits, shift, g) == surfeit + shift * g

(* The exponent of the padding of a group of g limbs.                      *)
PadExponent(surfeit, bits, shift, g) ==
  surfeit + (bits - shift) + shift * g + 1 + 1
=============================================================================
