---------------------------- MODULE EmulatedRepr ---------------------------
(***************************************************************************)
(* The representation of an emulated field element, and what each gadget   *)
(* does to it.                                                             *)
(*                                                                         *)
(* An emulated element is a vector of limbs, each a native field element;  *)
(* `num_of_additions_over_normal_form` is the only thing the library keeps *)
(* about how large they have become, and every decision to reduce is made  *)
(* on it.  The model keeps that counter (adds) and, beside it, the size    *)
(* the counter stands for: how many fresh ranges have been summed up in a  *)
(* limb, so that over all values the circuit can be run on a limb is below *)
(* size * 2^bits_per_limb.  A call whose limbs could leave the native      *)
(* field, whose group sizes underflow, or whose witnesses might not fit    *)
(* the bits given to them is a fault of that call.                         *)
(***************************************************************************)
EXTENDS GroupSizes

CONSTANTS
  TBits,         \* TargetF::MODULUS_BIT_SIZE
  P,             \* TargetF::MODULUS
  NumLimbs,      \* params.num_limbs
  BitsPerLimb    \* params.bits_per_limb

B == Pow2[BitsPerLimb]

(* The width of the most significant limb of a target field element.       *)
TopBits == TBits - BitsPerLimb * (NumLimbs - 1)

ASSUME TargetAssumption ==
  /\ TBits \in Nat /\ P \in Nat /\ P < Pow2[TBits] /\ Pow2[TBits - 1] <= P

ASSUME LimbAssumption ==
  /\ NumLimbs \in Nat \ {0} /\ BitsPerLimb \in Nat \ {0}
  /\ TopBits \in 1 .. BitsPerLimb

(* The loop of pre_mul_reduce can end: two witnesses may be multiplied.    *)
ASSUME MulAssumption ==
  2 * BitsPerLimb + Overhead(1 + 4 * NumLimbs) < MBS - 3

-----------------------------------------------------------------------------
(* Representations.                                                        *)

(* new_input, new_constant and the lookup tables: canonical limbs.         *)
Canonical == [adds |-> 0, normal |-> TRUE, size |-> 1]

(* three_bit_cond_neg_lookup: canonical limbs, but negated one by one in   *)
(* the native field, which they may fill, under the counter and the flag   *)
(* of canonical ones.                                                      *)
Negated == [adds |-> 0, normal |-> TRUE, size |-> Q \div B + 1]

(* new_witness: bits are enforced, the value is the prover's.              *)
Witness == [adds |-> 1, normal |-> FALSE, size |-> 1]

(* The sum of 2^TopBits at the top limb and 2^BitsPerLimb at every other   *)
(* one: what a subtraction pads with, before it is shifted by the surfeit. *)
PadUnit == Pow2[TBits] + (Pow2[BitsPerLimb * NumLimbs] - B) \div (B - 1)

(* The largest a limb and the whole integer of an element can be.          *)
LimbMax(x) == x.size * B - 1
ValMax(x) == x.size * PadUnit

-----------------------------------------------------------------------------
(* Subtraction, equality and reduction.                                    *)

(* The surfeit sub_without_reduce pads the subtrahend y with.              *)
SubSurfeit(y) == Overhead(y.adds + 1) + 1

(* Step 1 of sub_without_reduce: padding for y would not fit the field.    *)
SubMustReduce(y) ==
  \/ SubSurfeit(y) + BitsPerLimb > MBS - 1
  \/ SubSurfeit(y) + TopBits > MBS - 1

(* Steps 2 to 4 of sub_without_reduce.                                     *)
PaddedSub(x, y) ==
  LET s == SubSurfeit(y)
  IN  [adds |-> x.adds + Pow2[s] + 1, normal |-> FALSE,
       size |-> x.size + Pow2[s] + 1]

PaddedSubFaults(x, y) ==
  LET s == SubSurfeit(y)
      d == PaddedSub(x, y)
  IN  Faults(Pow2[s + BitsPerLimb] >= Q \/ Pow2[s + TopBits] >= Q,
             LimbMax(d) >= Q \/ d.adds >= Q \/ y.size > Pow2[s],
             FALSE)

(* conditional_enforce_equal(x, y) once y needs no reduction: k = delta/p  *)
(* must fit its surfeit bits, and delta = k * p is checked limb by limb.   *)
EqualFaults(x, y) ==
  LET d       == PaddedSub(x, y)
      surfeit == Overhead(d.adds + 1) + 1
      kMax    == Pow2[Min({MBS - 1, surfeit})] - 1
  IN  PaddedSubFaults(x, y)
        \cup Faults(FALSE, FALSE, ValMax(d) \div P > kMax)
        \cup GroupFaults(surfeit, BitsPerLimb, BitsPerLimb,
                         LimbMax(d), kMax * (B - 1), NumLimbs)

(* Reducer::reduce: a fresh witness, enforced equal to x, replaces x.      *)
ReduceFaults(x) == EqualFaults(x, Witness)

Subtrahend(y) == IF SubMustReduce(y) THEN Witness ELSE y

SubtrahendFaults(y) == IF SubMustReduce(y) THEN ReduceFaults(y) ELSE {}

SubWithoutReduce(x, y) == PaddedSub(x, Subtrahend(y))

SubFaults(x, y) == SubtrahendFaults(y) \cup PaddedSubFaults(x, Subtrahend(y))

ConditionalEnforceEqualFaults(x, y) ==
  SubtrahendFaults(y) \cup EqualFaults(x, Subtrahend(y))

(* post_add_reduce leaves x alone while a product of two such elements     *)
(* would still fit.                                                        *)
FitsAfterAdd(x) ==
  MBS > 2 * BitsPerLimb + (Overhead(x.adds + 1) + 1) + 1

(* Mutant: the sum is never reduced.                                       *)
PostAddReduceSkipped(x) == x

PostAddReduce(x) == IF FitsAfterAdd(x) THEN x ELSE Witness

PostAddFaults(x) == IF FitsAfterAdd(x) THEN {} ELSE ReduceFaults(x)

-----------------------------------------------------------------------------
(* Multiplication.                                                         *)

(* The test pre_mul_reduce leaves its loop on.                             *)
MulFits(x, y) ==
  2 * BitsPerLimb + Overhead(1 + (x.adds + 1) * (y.adds + 1) * NumLimbs)
    < MBS - 3

(* pre_mul_reduce: while the product would not fit, the operand with more  *)
(* additions, the first on a tie, becomes a witness; by MulAssumption two  *)
(* witnesses fit.                                                          *)
ReduceLarger(x, y) ==
  IF x.adds >= y.adds THEN <<Witness, y>> ELSE <<x, Witness>>

PreMulReduce(x, y) ==
  LET once == ReduceLarger(x, y)
  IN  IF MulFits(x, y) THEN <<x, y>>
      ELSE IF MulFits(once[1], once[2]) THEN once
      ELSE ReduceLarger(once[1], once[2])

PreMulFaults(x, y) ==
  LET red == PreMulReduce(x, y)
  IN  Faults(2 * BitsPerLimb + Log2Ceil(NumLimbs + 1) >= MBS - 3, FALSE, FALSE)
        \cup (IF red[1] = x THEN {} ELSE ReduceFaults(x))
        \cup (IF red[2] = y THEN {} ELSE ReduceFaults(y))

(* mul_without_reduce: the schoolbook product of the reduced operands.  A  *)
(* limb of a product is below size * 2^(2 * bits_per_limb).                *)
Product(x, y) ==
  LET red == PreMulReduce(x, y)
  IN  [sums |-> (red[1].adds + 1) * (red[2].adds + 1) * NumLimbs,
       size |-> red[1].size * red[2].size * NumLimbs,
       val  |-> ValMax(red[1]) * ValMax(red[2])]

(* From<&AllocatedEmulatedFpVar>: the same limbs under m - 1 zero limbs.   *)
FromVar(x) == [sums |-> x.adds + 1, size |-> x.size, val |-> ValMax(x)]

MulSum(u, v) ==
  [sums |-> u.sums + v.sums, size |-> u.size + v.size, val |-> u.val + v.val]

MulSumConstant(u) == MulSum(u, [sums |-> 1, size |-> 1, val |-> P - 1])

(* Mutant: room for the quotient of a canonical product only.              *)
QuotientBitsCanonical(u) == TBits

(* The bits the quotient k of a reduction is allocated with.               *)
QuotientBits(u) == TBits + Overhead(u.sums + 1)

(* AllocatedMulResultVar::reduce: u = k * p + r limb by limb.  The prover  *)
(* may choose k, of QuotientBits bits, as he likes, and any fresh limbs r: *)
(* all limbs of k but the top one, which has the bits the others leave,    *)
(* have bits_per_limb bits.  The honest k is val / p.                      *)
MulReduceFaults(u) ==
  LET surfeit == Overhead(u.sums + 1)
      kTop    == Pow2[TopBits + surfeit] - 1
      left    == u.size * B * B - 1
      right   == ((NumLimbs - 1) * (B - 1) + kTop) * (B - 1) + (B - 1)
  IN  Faults(FALSE, left >= Q \/ u.sums + 1 >= Q,
             u.val \div P >= Pow2[QuotientBits(u)])
        \cup GroupFaults(surfeit, 2 * BitsPerLimb, BitsPerLimb,
                         left, right, 2 * NumLimbs - 1)

(* mul: the product, reduced at once.                                      *)
MulFaults(x, y) == PreMulFaults(x, y) \cup MulReduceFaults(Product(x, y))

-----------------------------------------------------------------------------
(* Addition, selection and inversion.                                      *)

(* Mutant: the addition itself is not counted.                             *)
SumOfUncounted(x, y) ==
  [adds |-> x.adds + y.adds, normal |-> FALSE, size |-> x.size + y.size]

SumOf(x, y) ==
  [adds |-> x.adds + y.adds + 1, normal |-> FALSE, size |-> x.size + y.size]

(* Mutant: one branch in normal form is enough.                            *)
SelectedEitherNormal(x, y) ==
  [adds   |-> Max({x.adds, y.adds}),
   normal |-> x.normal \/ y.normal,
   size   |-> Max({x.size, y.size})]

Selected(x, y) ==
  [adds   |-> Max({x.adds, y.adds}),
   normal |-> x.normal /\ y.normal,
   size   |-> Max({x.size, y.size})]

(* inverse: a witness, multiplied by x and enforced equal to one.          *)
InverseFaults(x) ==
  MulFaults(x, Witness) \cup ConditionalEnforceEqualFaults(Witness, Canonical)
=============================================================================
