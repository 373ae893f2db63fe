------------------------------ MODULE BlsCurve ------------------------------
(***************************************************************************)
(* The tower of a BLS12 pairing: Fp2Var, the Fp6Var of fp6_3over2 and      *)
(* Fp12Var, with the products by sparse elements and the squaring in the   *)
(* cyclotomic subgroup; then the groups and the pairing of such a curve.   *)
(***************************************************************************)
EXTENDS PrimeField, Sequences

CONSTANTS
  TWIST_TYPE, G1, G2, Order, X, X_IS_NEGATIVE, E,
  Beta,  \* the nonresidue of Fp2
  Xi,    \* that of Fp6, in Fp2
  FROBENIUS_COEFF_FP12_C1  \* from the power 0; only the powers 0 to 3 are taken

(* The powers of Beta to (P^power - 1) / 2, of which it has no square root. *)
FROBENIUS_COEFF_FP2_C1 == <<1, P - 1>>

(* mul_base_field_var_by_frob_coeff of fp2.rs.                             *)
LOCAL FrobeniusOfFp2(fe, power) == FMul(fe, FROBENIUS_COEFF_FP2_C1[1 + (power % 2)])

F2 == INSTANCE QuadExt WITH
        BaseZero <- 0, BaseOne <- 1, BaseAdd <- FAdd, BaseSub <- FSub, BaseNegate <- FNegate,
        BaseMul <- FMul, BaseScale <- FMul, BaseMulEquals <- FMulEquals, BaseInverse <- FInverse,
        BaseFrobenius <- FFrobenius, FrobeniusC1 <- FrobeniusOfFp2, Nonresidue <- Beta

(* The coefficient for Fp6 is the square of that for Fp12.                 *)
FrobeniusC1OfFp6(fe, power) == F2!Mul(fe, F2!Square(FROBENIUS_COEFF_FP12_C1[power + 1]))

FrobeniusC2OfFp6(fe, power) == FrobeniusC1OfFp6(FrobeniusC1OfFp6(fe, power), power)

F6 == INSTANCE CubicExt WITH
        BaseZero <- F2!Zero, BaseOne <- F2!One, BaseAdd <- F2!Add, BaseSub <- F2!Sub,
        BaseNegate <- F2!Negate, BaseMul <- F2!Mul, BaseSquare <- F2!Square, BaseScale <- F2!Mul,
        BaseMulEquals <- F2!MulEquals, BaseInverse <- F2!InverseValue,
        BaseFrobenius <- F2!FrobeniusMap, FrobeniusC1 <- FrobeniusC1OfFp6,
        FrobeniusC2 <- FrobeniusC2OfFp6, Nonresidue <- Xi

(* MulAssign of an Fp6Var by an element of Fp2.                            *)
ScaleFp6(a, c) == [j \in 1 .. 3 |-> F2!Mul(a[j], c)]

(* mul_base_field_var_by_frob_coeff of fp12.rs.                            *)
LOCAL FrobeniusC1OfFp12(fe, power) == ScaleFp6(fe, FROBENIUS_COEFF_FP12_C1[power + 1])

F12 == INSTANCE QuadExt WITH
         BaseZero <- F6!Zero, BaseOne <- F6!One, BaseAdd <- F6!Add, BaseSub <- F6!Sub,
         BaseNegate <- F6!Negate, BaseMul <- F6!Mul, BaseScale <- F6!Mul,
         BaseMulEquals <- F6!MulEquals, BaseInverse <- F6!InverseValue,
         BaseFrobenius <- F6!FrobeniusMap, FrobeniusC1 <- FrobeniusC1OfFp12,
         Nonresidue <- <<F2!Zero, F2!One, F2!Zero>>

(* Each is a power of the nonresidue, to (P^power - 1) / 6.                *)
CoefficientsArePowers ==
  LET C  == FROBENIUS_COEFF_FP12_C1
      xi[n \in 0 .. P] == IF n = 0 THEN F2!One
                          ELSE IF n % 2 = 0 THEN F2!Square(xi[n \div 2]) ELSE F2!Mul(xi[n - 1], Xi)
  IN /\ C[1] = F2!One /\ C[2] = xi[(P - 1) \div 6] /\ (P - 1) % 6 = 0
     /\ \A j \in 3 .. 4 : C[j] = F2!Mul(F2!FrobeniusMap(C[j - 1], 1), C[2])

-----------------------------------------------------------------------------
(* Products by elements with coefficients that are zero.                   *)

MulBy0C10(a, c1) ==
  LET v1 == F2!Mul(a[2], c1)
  IN <<F2!Mul(F2!Sub(F2!Mul(F2!Add(a[2], a[3]), c1), v1), Xi),
       F2!Sub(F2!Mul(F2!Add(a[1], a[2]), c1), v1),
       v1>>

MulByC0C10(a, c0, c1) ==
  LET v0 == F2!Mul(a[1], c0)
      v1 == F2!Mul(a[2], c1)
  IN <<F2!Add(F2!Mul(F2!Sub(F2!Mul(F2!Add(a[2], a[3]), c1), v1), Xi), v0),
       F2!Sub(F2!Sub(F2!Mul(F2!Add(a[1], a[2]), F2!Add(c0, c1)), v0), v1),
       F2!Add(F2!Sub(F2!Mul(F2!Add(a[1], a[3]), c0), v0), v1)>>

(* By ((c0, c1, 0), (0, d1, 0)).                                           *)
MulBy014(a, c0, c1, d1) ==
  LET v0 == MulByC0C10(a[1], c0, c1)
      v1 == MulBy0C10(a[2], d1)
  IN <<F6!Add(F12!TimesNonresidue(v1), v0),
       F6!Sub(F6!Sub(MulByC0C10(F6!Add(a[1], a[2]), c0, F2!Add(c1, d1)), v0), v1)>>

(* By ((c0, 0, 0), (d0, d1, 0)).                                           *)
MulBy034(a, c0, d0, d1) ==
  LET a0 == ScaleFp6(a[1], c0)
      b  == MulByC0C10(a[2], d0, d1)
      e  == MulByC0C10(F6!Add(a[1], a[2]), F2!Add(c0, d0), d1)
  IN <<F6!Add(F12!TimesNonresidue(b), a0), F6!Sub(e, F6!Add(a0, b))>>

(* The square of x + y * w where w^2 is Xi.                                *)
LOCAL SquareOfPair(x, y) ==
  LET t == F2!Mul(x, y)
  IN <<F2!Sub(F2!Mul(F2!Add(x, y), F2!Add(F2!Mul(y, Xi), x)), F2!Add(F2!Mul(t, Xi), t)),
       F2!Double(t)>>

(* 3 t - 2 z and 3 t + 2 z.                                                *)
LOCAL ThreeMinus(t, z) == F2!Add(F2!Double(F2!Sub(t, z)), t)

LOCAL ThreePlus(t, z) == F2!Add(F2!Double(F2!Add(t, z)), t)

CyclotomicSquare(a) ==
  IF (P * P) % 6 # 1 THEN F12!Square(a)
  ELSE LET A == SquareOfPair(a[1][1], a[2][2])
           B == SquareOfPair(a[2][1], a[1][3])
           C == SquareOfPair(a[1][2], a[2][3])
       IN <<<<ThreeMinus(A[1], a[1][1]), ThreeMinus(B[1], a[1][2]), ThreeMinus(C[1], a[1][3])>>,
            <<ThreePlus(F2!Mul(C[2], Xi), a[2][1]), ThreePlus(A[2], a[2][2]),
              ThreePlus(B[2], a[2][3])>>>>

Fp12 == [1 .. 2 -> [1 .. 3 -> [1 .. 2 -> Fp]]]

(* The loop of optimized_cyclotomic_exp over the digits from k on.         *)
OptimizedCyclotomicExp(a, n) ==
  LET naf == F12!Naf(n)
      loop[k \in 1 .. Len(naf) + 1, self \in Fp12, res \in Fp12] ==
        IF k > Len(naf) THEN res
        ELSE loop[k + 1, self,
                  F12!TimesDigit(IF k = 1 THEN res ELSE CyclotomicSquare(res), self, naf[k])]
  IN loop[1, a, F12!One]

-----------------------------------------------------------------------------
(* The groups, and the pairing.                                            *)

C1 == INSTANCE AffineLaw WITH Coordinate <- Fp, Zero <- 0, Add <- FAdd, Sub <- FSub, Mul <- FMul,
                              Inverse <- FInverse, A <- 0

C2 == INSTANCE AffineLaw WITH Coordinate <- [1 .. 2 -> Fp], Zero <- F2!Zero, Add <- F2!Add,
                              Sub <- F2!Sub, Mul <- F2!Mul,
                              Inverse <- F2!InverseValue, A <- F2!Zero

TimesG1(n) == C1!Times(n, G1)

TimesG2(n) == C2!Times(n, G2)

VARIABLES as, bs, pc, k, i, r, coeffs, prepared, f, result

INSTANCE BlsPairing WITH
  Half <- FInverse(2),
  F2Zero <- F2!Zero, F2One <- F2!One, F2Add <- F2!Add, F2Sub <- F2!Sub, F2Negate <- F2!Negate,
  F2Double <- F2!Double, F2Mul <- F2!Mul, F2Square <- F2!Square,
  F2MulByBaseFieldConstant <- F2!MulByBaseFieldConstant, F2MulEquals <- F2!MulEquals,
  F2InverseValue <- F2!InverseValue,
  F12One <- F12!One, F12Mul <- F12!Mul, F12Square <- F12!Square, F12MulEquals <- F12!MulEquals,
  F12InverseValue <- F12!InverseValue, F12UnitaryInverse <- F12!UnitaryInverse,
  F12FrobeniusMap <- F12!FrobeniusMap
=============================================================================
