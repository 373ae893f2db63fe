------------------------------- MODULE QuadExt ------------------------------
(***************************************************************************)
(* QuadExtVar of fields/quadratic_extension, over any base: an element is  *)
(* the pair of its coefficients and stands for c0 + c1 * w, where w * w is *)
(* the nonresidue.  Fp2Var, Fp4Var, Fp12Var and the Fp6Var of fp6_2over3   *)
(* are instances of this module.                                           *)
(***************************************************************************)
EXTENDS Integers, Sequences

CONSTANTS
  BaseZero, BaseOne, BaseAdd(_, _), BaseSub(_, _), BaseNegate(_), BaseMul(_, _),
  BaseScale(_, _),         \* product with an element that is not a variable
  BaseMulEquals(_, _, _),  \* whether a product can be enforced
  BaseInverse(_),
  BaseFrobenius(_, _),     \* of an element, so many times
  FrobeniusC1(_, _),       \* an element times the coefficient of a power
  Nonresidue

Zero == <<BaseZero, BaseZero>>

One == <<BaseOne, BaseZero>>

Add(a, b) == <<BaseAdd(a[1], b[1]), BaseAdd(a[2], b[2])>>

Sub(a, b) == <<BaseSub(a[1], b[1]), BaseSub(a[2], b[2])>>

Negate(a) == <<BaseNegate(a[1]), BaseNegate(a[2])>>

Double(a) == Add(a, a)

TimesNonresidue(fe) == BaseScale(fe, Nonresidue)

MulByBaseFieldConstant(a, k) == <<BaseScale(a[1], k), BaseScale(a[2], k)>>

UnitaryInverse(a) == <<a[1], BaseNegate(a[2])>>

(* Karatsuba.                                                              *)
Mul(a, b) ==
  LET v0 == BaseMul(a[1], b[1])
      v1 == BaseMul(a[2], b[2])
  IN <<BaseAdd(v0, TimesNonresidue(v1)),
       BaseSub(BaseSub(BaseMul(BaseAdd(a[2], a[1]), BaseAdd(b[1], b[2])), v0), v1)>>

(* Complex squaring.                                                       *)
Square(a) ==
  LET v2 == BaseMul(a[1], a[2])
      v0 == BaseAdd(BaseMul(BaseSub(a[1], a[2]), BaseSub(a[1], TimesNonresidue(a[2]))), v2)
  IN <<BaseAdd(v0, TimesNonresidue(v2)), BaseAdd(v2, v2)>>

(* Mutant: the last of the three constraints is left out.                  *)
MulEqualsHalf(a, b, r) ==
  BaseMulEquals(a[1], b[1], BaseSub(r[1], TimesNonresidue(BaseMul(a[2], b[2]))))

MulEquals(a, b, r) ==
  LET v1   == BaseMul(a[2], b[2])
      nrv1 == TimesNonresidue(v1)
  IN /\ BaseMulEquals(a[1], b[1], BaseSub(r[1], nrv1))
     /\ BaseMulEquals(BaseAdd(a[1], a[2]), BaseAdd(b[1], b[2]),
                      BaseAdd(BaseAdd(r[2], r[1]), BaseSub(v1, nrv1)))

(* Mutant: the norm is the sum of the squares.                             *)
InverseValueOfSum(a) ==
  LET d == BaseInverse(BaseAdd(BaseMul(a[1], a[1]), TimesNonresidue(BaseMul(a[2], a[2]))))
  IN <<BaseMul(a[1], d), BaseNegate(BaseMul(a[2], d))>>

(* The value an honest prover gives an inverse, zero for zero.             *)
InverseValue(a) ==
  LET d == BaseInverse(BaseSub(BaseMul(a[1], a[1]), TimesNonresidue(BaseMul(a[2], a[2]))))
  IN <<BaseMul(a[1], d), BaseNegate(BaseMul(a[2], d))>>

FrobeniusMap(a, power) ==
  <<BaseFrobenius(a[1], power), FrobeniusC1(BaseFrobenius(a[2], power), power)>>

-----------------------------------------------------------------------------
(* Exponentiation.  An exponent is the sequence of its signed digits, the  *)
(* top one first.                                                          *)

(* find_naf: no two neighbouring digits of the form are both nonzero.      *)
Naf(n) ==
  LET naf[k \in 0 .. n + 1] ==
        CASE k = 0     -> << >>
          [] k % 2 = 0 -> Append(naf[k \div 2], 0)
          [] k % 4 = 1 -> Append(naf[k \div 2], 1)
          [] OTHER     -> Append(naf[(k + 1) \div 2], -1)
  IN naf[n]

TimesDigit(res, a, digit) ==
  CASE digit = 0 -> res
    [] digit > 0 -> Mul(res, a)
    [] OTHER     -> Mul(res, UnitaryInverse(a))

(* The loop of cyclotomic_exp, by the squaring of the field.  Nothing is   *)
(* squared before the top digit, which is not zero.                        *)
CyclotomicExp(a, n) ==
  LET naf == Naf(n)
      res[k \in 0 .. Len(naf)] ==
        IF k = 0 THEN One
        ELSE TimesDigit(IF k = 1 THEN One ELSE Square(res[k - 1]), a, naf[k])
  IN res[Len(naf)]
=============================================================================
