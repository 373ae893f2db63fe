------------------------------ MODULE ExtField ------------------------------
(***************************************************************************)
(* The extension of degree D of a field of prime order: Fp2Var or Fp3Var.  *)
(***************************************************************************)
EXTENDS Naturals

CONSTANTS
  D,
  BaseZero, BaseOne, BaseAdd(_, _), BaseSub(_, _), BaseNegate(_), BaseMul(_, _),
  BaseScale(_, _), BaseMulEquals(_, _, _), BaseInverse(_), BaseFrobenius(_, _),
  Coefficient(_, _),  \* the Frobenius coefficient of w^j for a power
  Nonresidue

LOCAL BaseSquare(a) == BaseMul(a, a)

(* mul_base_field_vars_by_frob_coeff of fp2.rs and fp3.rs.                 *)
FrobeniusC1(fe, power) == BaseScale(fe, Coefficient(1, power % D))

FrobeniusC2(fe, power) == BaseScale(fe, Coefficient(2, power % D))

LOCAL F2 == INSTANCE QuadExt

LOCAL F3 == INSTANCE CubicExt

Zero == IF D = 2 THEN F2!Zero ELSE F3!Zero

One == IF D = 2 THEN F2!One ELSE F3!One

Add(a, b) == IF D = 2 THEN F2!Add(a, b) ELSE F3!Add(a, b)

Sub(a, b) == IF D = 2 THEN F2!Sub(a, b) ELSE F3!Sub(a, b)

Negate(a) == IF D = 2 THEN F2!Negate(a) ELSE F3!Negate(a)

Double(a) == IF D = 2 THEN F2!Double(a) ELSE F3!Double(a)

Mul(a, b) == IF D = 2 THEN F2!Mul(a, b) ELSE F3!Mul(a, b)

Square(a) == IF D = 2 THEN F2!Square(a) ELSE F3!Square(a)

MulByBaseFieldConstant(a, k) ==
  IF D = 2 THEN F2!MulByBaseFieldConstant(a, k) ELSE F3!MulByBaseFieldConstant(a, k)

MulEquals(a, b, r) == IF D = 2 THEN F2!MulEquals(a, b, r) ELSE F3!MulEquals(a, b, r)

InverseValue(a) == IF D = 2 THEN F2!InverseValue(a) ELSE F3!InverseValue(a)

FrobeniusMap(a, power) == IF D = 2 THEN F2!FrobeniusMap(a, power) ELSE F3!FrobeniusMap(a, power)

(* Of quadratic extensions only.                                           *)
UnitaryInverse(a) == F2!UnitaryInverse(a)

CyclotomicExp(a, n) == F2!CyclotomicExp(a, n)
=============================================================================
