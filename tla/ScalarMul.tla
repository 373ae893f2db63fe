------------------------------ MODULE ScalarMul -----------------------------
(***************************************************************************)
(* ProjectiveVar::scalar_mul_le on short Weierstrass curves, one step per  *)
(* iteration of its loops.                                                 *)
(*                                                                         *)
(* The double-and-add loop of fixed_scalar_mul_le saves constraints with   *)
(* the affine formulae of NonZeroAffineVar, which are incomplete: they are *)
(* wrong for the sum of a point and itself, of a point and its negation,   *)
(* and have no zero.  The bits are therefore cut into chunks, only the     *)
(* first OrderBits - 2 of a chunk use them, the first bit is assumed to be *)
(* one and corrected afterwards, and a zero self is replaced by the        *)
(* generator until the end.                                                *)
(*                                                                         *)
(* All points here are multiples of one point, self or the generator: a    *)
(* point is that multiple, below Order.  The bits are the number `scalar`. *)
(***************************************************************************)
EXTENDS PowersOfTwo, FiniteSetsExt

CONSTANTS
  Order,      \* P::ScalarField::MODULUS, the prime order of the group
  OrderBits,  \* P::ScalarField::MODULUS_BIT_SIZE
  MaxLen      \* bound on the number of bits passed to scalar_mul_le

ASSUME OrderAssumption ==
  /\ Order \in Nat /\ Order % 2 = 1
  /\ OrderBits \in Nat /\ OrderBits >= 3
  /\ Pow2[OrderBits - 1] < Order /\ Order < Pow2[OrderBits]

ASSUME LenAssumption == MaxLen \in Nat

VARIABLES
  scalar,        \* the number the bits stand for
  len,           \* how many bits are left to process
  constants,     \* the positions of the bits that are constants
  selfZero,      \* self is the zero of the group
  selfConstant,  \* self is a constant
  pc,            \* where scalar_mul_le is
  off,           \* the position of the first bit of the current chunk
  i,             \* the next bit, counted from off
  accumulator,   \* the affine accumulator
  initialAcc,    \* initial_acc_value
  power,         \* multiple_of_power_of_two
  mulResult,     \* mul_result
  exceptional    \* an affine formula was used where it is wrong

vars == <<scalar, len, constants, selfZero, selfConstant, pc, off, i,
          accumulator, initialAcc, power, mulResult, exceptional>>

args == <<scalar, constants, selfZero, selfConstant>>

-----------------------------------------------------------------------------
(* Points and bits.                                                        *)

Bit(k) == (scalar \div Pow2[k]) % 2

Plus(x, y) == (x + y) % Order

Minus(x, y) == (x - y) % Order

Double(x) == Plus(x, x)

(* When the chord through two points does not give their sum.  Two         *)
(* constants are added natively and only the zero sum is wrong for them;   *)
(* both cases are asked of every call.                                     *)
Exceptional(x, y) == x = y \/ Plus(x, y) = 0

(* NonZeroAffineVar has no zero: double asserts it.                        *)
ExceptionalDouble(x) == Double(x) = 0

-----------------------------------------------------------------------------
Init ==
  /\ len \in 0 .. MaxLen
  /\ scalar \in 0 .. Pow2[len] - 1
  /\ constants \in SUBSET (0 .. len - 1)
  /\ selfZero \in BOOLEAN /\ selfConstant \in BOOLEAN
  /\ pc = "start"
  /\ off = 0 /\ i = 0
  /\ accumulator = 0 /\ initialAcc = 0 /\ power = 0 /\ mulResult = 0
  /\ exceptional = FALSE

(* A constant zero, or no bits: the answer is zero.                        *)
ReturnEarly ==
  /\ pc = "start"
  /\ (selfConstant /\ selfZero) \/ len = 0
  /\ pc' = "done"
  /\ UNCHANGED <<args, len, off, i, accumulator, initialAcc, power,
                 mulResult, exceptional>>

Begin ==
  /\ pc = "start"
  /\ ~(selfConstant /\ selfZero) /\ len # 0
  /\ pc' = "strip"
  /\ UNCHANGED <<args, len, off, i, accumulator, initialAcc, power,
                 mulResult, exceptional>>

(* Unnecessary constant zeros in the most significant positions.           *)
LeadingZero == len # 0 /\ len - 1 \in constants /\ Bit(len - 1) = 0

Strip ==
  /\ pc = "strip" /\ LeadingZero
  /\ len' = len - 1
  /\ UNCHANGED <<args, pc, off, i, accumulator, initialAcc, power,
                 mulResult, exceptional>>

StartLoop ==
  /\ pc = "strip" /\ ~LeadingZero
  /\ pc' = "chunk"
  /\ power' = 1 /\ mulResult' = 0
  /\ UNCHANGED <<args, len, off, i, accumulator, initialAcc, exceptional>>

-----------------------------------------------------------------------------
(* fixed_scalar_mul_le on one chunk.                                       *)

ChunkLen == Min({OrderBits, len - off})

(* Mutant: the affine formulae are used for the whole chunk.               *)
SplitLenWhole == ChunkLen

SplitLen == Min({OrderBits - 2, ChunkLen})

StartChunk ==
  /\ pc = "chunk" /\ off < len
  /\ accumulator' = power /\ initialAcc' = power
  /\ power' = Double(power)
  /\ exceptional' = (exceptional \/ ExceptionalDouble(power))
  /\ i' = 1
  /\ pc' = "affine"
  /\ UNCHANGED <<args, len, off, mulResult>>

(* A constant zero bit adds nothing; a variable bit always computes the    *)
(* sum and then selects.                                                   *)
Computed(k) == k \notin constants \/ Bit(k) = 1

AffineStep ==
  /\ pc = "affine" /\ i < SplitLen
  /\ accumulator' =
       IF Bit(off + i) = 1 THEN Plus(accumulator, power) ELSE accumulator
  /\ power' = Double(power)
  /\ exceptional' =
       (\/ exceptional
        \/ Computed(off + i) /\ Exceptional(accumulator, power)
        \/ ExceptionalDouble(power))
  /\ i' = i + 1
  /\ UNCHANGED <<args, len, pc, off, initialAcc, mulResult>>

(* Mutant: the accumulator is taken as it is.                              *)
SubtrahendNone == 0

(* The first bit was assumed to be one.                                    *)
Subtrahend == IF Bit(off) = 1 THEN 0 ELSE initialAcc

EndAffine ==
  /\ pc = "affine" /\ i >= SplitLen
  /\ mulResult' = Plus(mulResult, Minus(accumulator, Subtrahend))
  /\ i' = SplitLen
  /\ pc' = "projective"
  /\ UNCHANGED <<args, len, off, accumulator, initialAcc, power, exceptional>>

(* The remaining bits, with the complete formulae.                         *)
ProjectiveStep ==
  /\ pc = "projective" /\ i < ChunkLen
  /\ mulResult' =
       IF Bit(off + i) = 1 THEN Plus(mulResult, power) ELSE mulResult
  /\ power' = Double(power)
  /\ exceptional' = (exceptional \/ ExceptionalDouble(power))
  /\ i' = i + 1
  /\ UNCHANGED <<args, len, pc, off, accumulator, initialAcc>>

NextOff == off + ChunkLen

EndChunk ==
  /\ pc = "projective" /\ i >= ChunkLen
  /\ off' = NextOff
  /\ pc' = "chunk"
  /\ UNCHANGED <<args, len, i, accumulator, initialAcc, power, mulResult,
                 exceptional>>

(* Mutant: the generator's multiple is returned for zero.                  *)
SelectedAlways == mulResult

Selected == IF selfZero THEN 0 ELSE mulResult

Finish ==
  /\ pc = "chunk" /\ off >= len
  /\ mulResult' = Selected
  /\ pc' = "done"
  /\ UNCHANGED <<args, len, off, i, accumulator, initialAcc, power, exceptional>>

Step ==
  \/ ReturnEarly \/ Begin \/ Strip \/ StartLoop \/ StartChunk \/ AffineStep
  \/ EndAffine \/ ProjectiveStep \/ EndChunk \/ Finish

Done == pc = "done" /\ UNCHANGED vars

Next == Step \/ Done

Spec == Init /\ [][Next]_vars /\ WF_vars(Step)

-----------------------------------------------------------------------------
(* Properties.                                                             *)

TypeOK ==
  /\ scalar \in Nat /\ len \in Nat /\ scalar < Pow2[len]
  /\ selfZero \in BOOLEAN /\ selfConstant \in BOOLEAN
  /\ pc \in {"start", "strip", "chunk", "affine", "projective", "done"}
  /\ off \in Nat /\ i \in Nat
  /\ {accumulator, initialAcc, power, mulResult} \subseteq 0 .. Order - 1
  /\ exceptional \in BOOLEAN

(* The incomplete affine formulae of NonZeroAffineVar are never used on a  *)
(* pair for which they are wrong, whatever the bits and also for bits the  *)
(* circuit only computes to throw away: the claim the comment in           *)
(* fixed_scalar_mul_le argues for one chunk, here for all chunks.          *)
NeverExceptional == ~exceptional

(* What scalar_mul_le returns is the scalar times self, zero for zero,     *)
(* whether the scalar is below the order of the group or far above it.     *)
ResultIsProduct ==
  pc = "done" => mulResult = IF selfZero THEN 0 ELSE scalar % Order

(* The loops end and the one answer is the product: module ScalarMulSpec.  *)
Abstract == INSTANCE ScalarMulSpec WITH
  base    <- IF selfZero THEN 0 ELSE 1,
  answers <- IF pc = "done" THEN {mulResult} ELSE {}

ImplementsScalarMul == Abstract!Spec
=============================================================================
