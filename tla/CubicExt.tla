------------------------------ MODULE CubicExt ------------------------------
(***************************************************************************)
(* CubicExtVar of fields/cubic_extension, over any base: an element is the *)
(* triple of its coefficients and stands for c0 + c1 * v + c2 * v^2, where *)
(* v^3 is the nonresidue.  Fp3Var and the Fp6Var of fp6_3over2 are         *)
(* instances of this module.                                               *)
(***************************************************************************)
CONSTANTS
  BaseZero, BaseOne, BaseAdd(_, _), BaseSub(_, _), BaseNegate(_), BaseMul(_, _),
  BaseSquare(_),
  BaseScale(_, _),         \* product with an element that is not a variable
  BaseMulEquals(_, _, _),  \* whether a product can be enforced
  BaseInverse(_),
  BaseFrobenius(_, _),     \* of an element, so many times
  FrobeniusC1(_, _),       \* an element times the coefficient of a power
  FrobeniusC2(_, _),
  Nonresidue

Zero == <<BaseZero, BaseZero, BaseZero>>

One == <<BaseOne, BaseZero, BaseZero>>

Add(a, b) == <<BaseAdd(a[1], b[1]), BaseAdd(a[2], b[2]), BaseAdd(a[3], b[3])>>

Sub(a, b) == <<BaseSub(a[1], b[1]), BaseSub(a[2], b[2]), BaseSub(a[3], b[3])>>

Negate(a) == <<BaseNegate(a[1]), BaseNegate(a[2]), BaseNegate(a[3])>>

Double(a) == Add(a, a)

TimesNonresidue(fe) == BaseScale(fe, Nonresidue)

MulByBaseFieldConstant(a, k) == <<BaseScale(a[1], k), BaseScale(a[2], k), BaseScale(a[3], k)>>

(* A product of sums less the two products it contains.                    *)
Cross(a, b, i, j, vi, vj) ==
  BaseSub(BaseSub(BaseMul(BaseAdd(a[i], a[j]), BaseAdd(b[i], b[j])), vi), vj)

(* Karatsuba.                                                              *)
Mul(a, b) ==
  LET v0 == BaseMul(a[1], b[1])
      v1 == BaseMul(a[2], b[2])
      v2 == BaseMul(a[3], b[3])
  IN <<BaseAdd(TimesNonresidue(Cross(a, b, 2, 3, v1, v2)), v0),
       BaseAdd(Cross(a, b, 1, 2, v0, v1), TimesNonresidue(v2)),
       BaseAdd(Cross(a, b, 1, 3, v0, v2), v1)>>

(* Mutant: the middle coefficient keeps its sign.                          *)
SquareOfSum(a) == BaseSquare(BaseAdd(BaseAdd(a[1], a[2]), a[3]))

SquareOfAlternating(a) == BaseSquare(BaseAdd(BaseSub(a[1], a[2]), a[3]))

(* Chung and Hasan.                                                        *)
Square(a) ==
  LET s0 == BaseSquare(a[1])
      ab == BaseMul(a[1], a[2])
      s1 == BaseAdd(ab, ab)
      s2 == SquareOfAlternating(a)
      bc == BaseMul(a[2], a[3])
      s3 == BaseAdd(bc, bc)
      s4 == BaseSquare(a[3])
  IN <<BaseAdd(TimesNonresidue(s3), s0),
       BaseAdd(TimesNonresidue(s4), s1),
       BaseSub(BaseSub(BaseAdd(BaseAdd(s1, s2), s3), s0), s4)>>

MulEquals(a, b, r) ==
  LET v0 == BaseMul(a[1], b[1])
      v1 == BaseMul(a[2], b[2])
      v2 == BaseMul(a[3], b[3])
  IN /\ BaseMulEquals(TimesNonresidue(BaseAdd(a[2], a[3])), BaseAdd(b[2], b[3]),
                      BaseAdd(BaseAdd(BaseSub(r[1], v0), TimesNonresidue(v1)), TimesNonresidue(v2)))
     /\ BaseMulEquals(BaseAdd(a[1], a[2]), BaseAdd(b[1], b[2]),
                      BaseAdd(BaseAdd(BaseSub(r[2], TimesNonresidue(v2)), v0), v1))
     /\ BaseMulEquals(BaseAdd(a[1], a[3]), BaseAdd(b[1], b[3]),
                      BaseAdd(BaseSub(BaseAdd(r[3], v0), v1), v2))

(* The value an honest prover gives an inverse, zero for zero.             *)
InverseValue(a) ==
  LET t0 == BaseSub(BaseMul(a[1], a[1]), TimesNonresidue(BaseMul(a[2], a[3])))
      t1 == BaseSub(TimesNonresidue(BaseMul(a[3], a[3])), BaseMul(a[1], a[2]))
      t2 == BaseSub(BaseMul(a[2], a[2]), BaseMul(a[1], a[3]))
      d  == BaseInverse(BaseAdd(BaseMul(a[1], t0),
              TimesNonresidue(BaseAdd(BaseMul(a[3], t1), BaseMul(a[2], t2)))))
  IN <<BaseMul(t0, d), BaseMul(t1, d), BaseMul(t2, d)>>

FrobeniusMap(a, power) ==
  <<BaseFrobenius(a[1], power), FrobeniusC1(BaseFrobenius(a[2], power), power),
    FrobeniusC2(BaseFrobenius(a[3], power), power)>>
=============================================================================
