----------------------------- MODULE EdwardsLaw -----------------------------
(***************************************************************************)
(* The gadgets of twisted_edwards/mod.rs on points: AffineVar, and         *)
(* MontgomeryAffineVar with the conversions between the two models.  An    *)
(* operation is the set of results its constraints admit, over all the     *)
(* witnesses a prover can choose.                                          *)
(*                                                                         *)
(* Any sequence of operations on an AffineVar: acc is what the constraints *)
(* let the variable be, point what it should stand for.  Module            *)
(* SignedDigitMul adds the multiplication that takes steps of its own.     *)
(***************************************************************************)
EXTENDS PrimeField, PowersOfTwo, Sequences, FiniteSetsExt

CONSTANTS
  A,       \* P::COEFF_A, a square
  D,       \* P::COEFF_D, not a square
  MaxBits  \* natural bound on the bits of a scalar and on the bases of a table

(* What makes the formulae complete.                                       *)
ASSUME EdwardsAssumption ==
  /\ A \in 1 .. P - 1 /\ D \in 1 .. P - 1
  /\ \E x \in Fp : Red(x * x) = A
  /\ \A x \in Fp : Red(x * x) # D

ASSUME BoundAssumption == MaxBits \in Nat

-----------------------------------------------------------------------------
(* The group.                                                              *)

OnCurve(q) ==
  Red(A * q[1] * q[1] + q[2] * q[2] - 1) = Red(D * Red(q[1] * q[2]) * Red(q[1] * q[2]))

Points == {q \in Fp \X Fp : OnCurve(q)}

Zero == <<0, 1>>

Opposite(q) == <<Red(-q[1]), q[2]>>

(* The unified law of the model.                                           *)
Sum(q, s) ==
  LET t == Red(D * Red(q[1] * s[1]) * Red(q[2] * s[2]))
  IN <<Red((q[1] * s[2] + s[1] * q[2]) * Inverse0(1 + t)),
       Red((q[2] * s[2] - A * q[1] * s[1]) * Inverse0(1 - t))>>

-----------------------------------------------------------------------------
(* AffineVar.                                                              *)

(* Mutant: the cross product with the coefficient a is left in u.          *)
NumeratorUncorrected(u, v0, v1) == u - v0 - v1

Numerator(u, v0, v1) == u + A * v0 - v1

Add(p, q) ==
  LET u  == Red((p[2] - A * p[1]) * (q[1] + q[2]))
      v0 == Red(q[2] * p[1])
      v1 == Red(q[1] * p[2])
      v2 == Red(v0 * v1 * D)
  IN Quotients(v0 + v1, v2 + 1) \X Quotients(Numerator(u, v0, v1), 1 - v2)

(* Mutant: the two is left out of the second denominator.                  *)
CofactorOne(s) == 1 - s

(* 1 - d x^2 y^2, which the equation of the curve turns into 2 minus s, the *)
(* sum of a x^2 and y^2.                                                   *)
Complement(s) == 2 - s

Double(p) ==
  LET xy  == Red(p[1] * p[2])
      ax2 == Red(A * p[1] * p[1])
      y2  == Red(p[2] * p[2])
  IN Quotients(2 * xy, ax2 + y2) \X Quotients(y2 - ax2, Complement(ax2 + y2))

Negate(p) == <<Red(-p[1]), p[2]>>

Sub(p, q) == Add(p, Negate(q))

IsEq(p, q) == p[1] = q[1] /\ p[2] = q[2]

(* Mutant: the one is left out of the right-hand side.                     *)
RightSideWhole(x2) == x2 * A

RightSide(x2) == x2 * A - 1

(* The equation enforced on allocated coordinates.                         *)
OnCurveCheck(p) ==
  LET x2 == Red(p[1] * p[1])
  IN Red((x2 * D - 1) * Red(p[2] * p[2]) - RightSide(x2)) = 0

-----------------------------------------------------------------------------
(* MontgomeryAffineVar.                                                    *)

(* The coefficients of the Montgomery model, COEFF_A and COEFF_B.          *)
MontA == Red(2 * (A + D) * Inverse0(A - D))

MontB == Red(4 * Inverse0(A - D))

(* An error for the zero of the group.                                     *)
CanConvert(q) == q[2] # 1

FromEdwards(q) ==
  IF q[1] = 0 THEN <<0, 0>>
  ELSE LET u == Red((1 + q[2]) * Inverse0(1 - q[2]))
       IN <<u, Red(u * Inverse0(q[1]))>>

IntoEdwards(m) == Quotients(m[1], m[2]) \X Quotients(m[1] - 1, m[1] + 1)

(* Mutant: the coefficient b is left out of the square.                    *)
ScaleNone(l) == l

Scale(l) == MontB * l

(* The incomplete addition of a chord.                                     *)
MontAdd(m, n) ==
  {LET x == Red(Scale(l) * l - MontA - m[1] - n[1])
   IN <<x, Red(l * (m[1] - x) - m[2])>> :
     l \in Quotients(n[2] - m[2], n[1] - m[1])}

-----------------------------------------------------------------------------
(* Operations on a variable.                                               *)
VARIABLES acc, point

AccIsZero == point = Zero /\ acc = Zero

(* A new variable: any coordinates the check of the curve accepts.         *)
AllocateVariable == acc' \in {q \in Fp \X Fp : OnCurveCheck(q)} /\ point' = acc'

AddVariable ==
  \E q \in Points : acc' \in Add(acc, q) /\ point' = Sum(point, q)

SubVariable ==
  \E q \in Points : acc' \in Sub(acc, q) /\ point' = Sum(point, Opposite(q))

DoubleInPlace == acc' \in Double(acc) /\ point' = Sum(point, point)

NegateIt == acc' = Negate(acc) /\ point' = Opposite(point)

-----------------------------------------------------------------------------
(* Multiplication by the bits of a scalar, low bit first.                  *)

Multiple(q, n) ==
  LET m[k \in 0 .. n] == IF k = 0 THEN Zero ELSE Sum(m[k - 1], q) IN m[n]

Number(bits) ==
  LET v[k \in 0 .. Len(bits)] ==
        IF k = 0 THEN 0 ELSE v[k - 1] + bits[k] * Pow2[k - 1]
  IN v[Len(bits)]

Scalars == UNION {[1 .. n -> {0, 1}] : n \in 0 .. MaxBits}

Selected(bit, t, f) == IF bit = 1 THEN t ELSE f

(* CurveVar::scalar_mul_le: what res and multiple can become at a bit.     *)
DoubleAndAdd(states, bit) ==
  UNION {{<<Selected(bit, tmp, s[1]), m>> : tmp \in Add(s[1], s[2]), m \in Double(s[2])} :
         s \in states}

ScalarMulLe(p, bits) ==
  LET s[k \in 0 .. Len(bits)] ==
        IF k = 0 THEN {<<Zero, p>>} ELSE DoubleAndAdd(s[k - 1], bits[k])
  IN {t[1] : t \in s[Len(bits)]}

ScalarMul ==
  \E bits \in Scalars :
    /\ acc' \in ScalarMulLe(acc, bits)
    /\ point' = Multiple(point, Number(bits))

(* Mutant: the first of the two bits is taken to be the high one.          *)
WindowIndexSwapped(low, high) == 2 * low + high

(* two_bit_lookup: the first bit is the low one.                           *)
WindowIndex(low, high) == low + 2 * high

WindowTable(first, second) == <<Zero, first, second, Sum(first, second)>>

(* precomputed_base_scalar_mul_le: two bits select one of the four sums of *)
(* two bases, an odd last bit between self and self plus its base.         *)
TwoBits(p, bits, bases, k) ==
  Add(p, WindowTable(bases[k], bases[k + 1])[1 + WindowIndex(bits[k], bits[k + 1])])

LastBit(p, bits, bases, k) == {Selected(bits[k], tmp, p) : tmp \in Add(p, bases[k])}

PrecomputedMul(p, bits, bases) ==
  LET windows == Len(bits) \div 2
      r[k \in 0 .. windows] ==
        IF k = 0 THEN {p} ELSE UNION {TwoBits(q, bits, bases, 2 * k - 1) : q \in r[k - 1]}
  IN IF Len(bits) % 2 = 0 THEN r[windows]
     ELSE UNION {LastBit(q, bits, bases, Len(bits)) : q \in r[windows]}

(* One scalar of precomputed_base_multiscalar_mul_le.  The bases are the   *)
(* power-of-two multiples of one; the shorter of bits and bases decides.   *)
BaseTable(q, n) == [k \in 1 .. n |-> Multiple(q, Pow2[k - 1])]

TableMul ==
  \E scalar \in Scalars, q \in Points, n \in 0 .. MaxBits :
    LET bits == SubSeq(scalar, 1, Min({Len(scalar), n}))
    IN /\ acc' \in PrecomputedMul(acc, bits, BaseTable(q, n))
       /\ point' = Sum(point, Multiple(q, Number(bits)))

LawNext ==
  \/ AllocateVariable \/ AddVariable \/ SubVariable \/ DoubleInPlace \/ NegateIt
  \/ ScalarMul \/ TableMul
=============================================================================
