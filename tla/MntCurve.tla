------------------------------ MODULE MntCurve ------------------------------
(***************************************************************************)
(* The fields, the groups and the pairing of a curve of the MNT4 or MNT6   *)
(* family: the twist is over the extension K of degree D, the results are  *)
(* in the quadratic extension T of K.                                      *)
(***************************************************************************)
EXTENDS PrimeField, Sequences

CONSTANTS
  D, NR,                  \* the field of the twist is the extension of degree D by NR
  CurveA,                 \* coefficient a of the curve; the twist is by the root of NR
  G1, G2, Order,          \* generators of two groups of one order
  ATE_LOOP_COUNT, ATE_IS_LOOP_COUNT_NEG, W1, ABS_OF_W0, W0_IS_NEG, E

-----------------------------------------------------------------------------
(* The fields: Fp2 and Fp4, or Fp3 and Fp6.                                *)

(* That of w^j, a power of the nonresidue.                                 *)
Coefficient(j, power) == FPow(FPow(NR, (P - 1) \div D), j * power)

K == INSTANCE ExtField WITH
       BaseZero <- 0, BaseOne <- 1, BaseAdd <- FAdd, BaseSub <- FSub, BaseNegate <- FNegate,
       BaseMul <- FMul, BaseScale <- FMul, BaseMulEquals <- FMulEquals, BaseInverse <- FInverse,
       BaseFrobenius <- FFrobenius, Nonresidue <- NR

(* P::TWIST, the root of NR.                                               *)
Twist == [j \in 1 .. D |-> IF j = 2 THEN 1 ELSE 0]

Embedded(x) == [j \in 1 .. D |-> IF j = 1 THEN x ELSE 0]

(* mul_base_field_var_by_frob_coeff of fp4.rs and fp6_2over3.rs.           *)
FrobeniusC1(fe, power) ==
  K!MulByBaseFieldConstant(fe, FPow(FPow(NR, (P - 1) \div (2 * D)), power % (2 * D)))

T == INSTANCE QuadExt WITH
       BaseZero <- K!Zero, BaseOne <- K!One, BaseAdd <- K!Add, BaseSub <- K!Sub,
       BaseNegate <- K!Negate, BaseMul <- K!Mul, BaseScale <- K!Mul,
       BaseMulEquals <- K!MulEquals, BaseInverse <- K!InverseValue, BaseFrobenius <- K!FrobeniusMap,
       Nonresidue <- Twist

TWIST_COEFF_A == K!Mul(Embedded(CurveA), K!Square(Twist))

-----------------------------------------------------------------------------
(* The groups, and the pairing.                                            *)

C1 == INSTANCE AffineLaw WITH Coordinate <- Fp, Zero <- 0, Add <- FAdd, Sub <- FSub, Mul <- FMul,
                              Inverse <- FInverse, A <- CurveA

C2 == INSTANCE AffineLaw WITH Coordinate <- [1 .. D -> Fp], Zero <- K!Zero, Add <- K!Add,
                              Sub <- K!Sub, Mul <- K!Mul,
                              Inverse <- K!InverseValue, A <- TWIST_COEFF_A

TimesG1(n) == C1!Times(n, G1)

TimesG2(n) == C2!Times(n, G2)

VARIABLES as, bs, pc, k, i, r, coeffs, prepared, f, result

INSTANCE MntPairing WITH
  KZero <- K!Zero, KOne <- K!One, KAdd <- K!Add, KSub <- K!Sub, KNegate <- K!Negate,
  KDouble <- K!Double, KMul <- K!Mul, KSquare <- K!Square,
  KMulByBaseFieldConstant <- K!MulByBaseFieldConstant, KMulEquals <- K!MulEquals,
  KInverseValue <- K!InverseValue,
  TZero <- T!Zero, TOne <- T!One, TMul <- T!Mul, TSquare <- T!Square, TMulEquals <- T!MulEquals,
  TInverseValue <- T!InverseValue, TUnitaryInverse <- T!UnitaryInverse,
  TFrobeniusMap <- T!FrobeniusMap, TCyclotomicExp <- T!CyclotomicExp
=============================================================================
