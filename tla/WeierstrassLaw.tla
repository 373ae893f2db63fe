--------------------------- MODULE WeierstrassLaw ---------------------------
(***************************************************************************)
(* The arithmetic of points on a short Weierstrass curve: ProjectiveVar,   *)
(* whose complete formulae know no exception, and NonZeroAffineVar, whose  *)
(* incomplete ones do.                                                     *)
(*                                                                         *)
(* projective is a ProjectiveVar that went through any sequence of         *)
(* operations, affine the point it should stand for by the                 *)
(* chord-and-tangent law, or NoPoint.                                      *)
(***************************************************************************)
EXTENDS PrimeField

CONSTANT CurveCoeffs  \* pairs <<COEFF_A, COEFF_B>> of curves of odd order

(* An odd order, which the complete formulae need, is that no point has    *)
(* order two: none has y = 0.                                              *)
ASSUME CubicsAssumption ==
  /\ P > 3
  /\ CurveCoeffs \subseteq Fp \X Fp
  /\ \A c \in CurveCoeffs : \A x \in Fp : Red(x * x * x + c[1] * x + c[2]) # 0

VARIABLES coeff_a, coeff_b, projective, affine

cubicVars == <<coeff_a, coeff_b, projective, affine>>

-----------------------------------------------------------------------------
(* The group of the curve.                                                 *)

Infinity == <<>>

OnCubic(x, y) == Red(y * y - x * x * x - coeff_a * x - coeff_b) = 0

CubicPoints == {Infinity} \cup {q \in Fp \X Fp : OnCubic(q[1], q[2])}

Mirror(q) == IF q = Infinity THEN Infinity ELSE <<q[1], Red(-q[2])>>

Slope(q, s) ==
  IF q = s THEN (3 * q[1] * q[1] + coeff_a) * Inverse0(2 * q[2])
           ELSE (s[2] - q[2]) * Inverse0(s[1] - q[1])

ChordSum(q, s) ==
  IF q = Infinity THEN s
  ELSE IF s = Infinity THEN q
  ELSE IF s = Mirror(q) THEN Infinity
  ELSE LET l == Red(Slope(q, s))
           x == Red(l * l - q[1] - s[1])
       IN <<x, Red(l * (q[1] - x) - q[2])>>

(* The projective coordinates of a point, up to a factor.                  *)
Representations(q) ==
  IF q = Infinity THEN {<<0, c, 0>> : c \in 1 .. P - 1}
  ELSE {<<Red(c * q[1]), Red(c * q[2]), c>> : c \in 1 .. P - 1}

(* Coordinates that are all zero pass every check but stand for no point.  *)
NoPoint == <<0, 0, 0>>

Operands == CubicPoints \cup {NoPoint}

CoordinatesOf(q) == IF q = NoPoint THEN {NoPoint} ELSE Representations(q)

(* The point a result should stand for: none, if an operand stands for     *)
(* none.                                                                   *)
Meant(p, q) == IF NoPoint \in {p, q} THEN NoPoint ELSE ChordSum(p, q)

Opposite(q) == IF q = NoPoint THEN NoPoint ELSE Mirror(q)

-----------------------------------------------------------------------------
(* ProjectiveVar.  The comments of the code number the steps of the        *)
(* algorithms of Renes, Costello and Batina; the names are the code's.     *)

ThreeB == 3 * coeff_b

(* Mutant: the coefficient a is left out of the products with zz.          *)
AzzNone(zz) == 0

Azz(zz) == Red(coeff_a * zz)

(* The common end of the three additions.                                  *)
CommonEnd(xx, yy, xy_pairs, xz_pairs, yz_pairs, zz) ==
  LET bz3_part    == Red(coeff_a * xz_pairs + ThreeB * zz)
      yy_m_bz3    == yy - bz3_part
      yy_p_bz3    == yy + bz3_part
      azz         == Azz(zz)
      xx3_p_azz   == Red(3 * xx + azz)
      b3_xz_pairs == Red(coeff_a * (xx - azz) + ThreeB * xz_pairs)
  IN <<Red(yy_m_bz3 * xy_pairs - yz_pairs * b3_xz_pairs),
       Red(yy_p_bz3 * yy_m_bz3 + xx3_p_azz * b3_xz_pairs),
       Red(yy_p_bz3 * yz_pairs + xy_pairs * xx3_p_azz)>>

(* Complete addition of two variables.                                     *)
ProjAdd(p, q) ==
  LET xx == Red(p[1] * q[1])
      yy == Red(p[2] * q[2])
      zz == Red(p[3] * q[3])
  IN CommonEnd(xx, yy,
       Red((p[1] + p[2]) * (q[1] + q[2]) - (xx + yy)),
       Red((p[1] + p[3]) * (q[1] + q[3]) - (xx + zz)),
       Red((p[2] + p[3]) * (q[2] + q[3]) - (yy + zz)), zz)

(* Addition of an affine point that is not zero.                           *)
ProjAddMixed(p, q) ==
  LET xx == Red(p[1] * q[1])
      yy == Red(p[2] * q[2])
  IN CommonEnd(xx, yy,
       Red((p[1] + p[2]) * (q[1] + q[2]) - (xx + yy)),
       Red(q[1] * p[3] + p[1]), Red(q[2] * p[3] + p[2]), p[3])

(* A constant is added natively if it is zero and by its affine            *)
(* coordinates if not.                                                     *)
ProjAddConstant(p, q) == IF q = Infinity THEN p ELSE ProjAddMixed(p, q)

ProjDouble(p) ==
  LET xx   == Red(p[1] * p[1])
      yy   == Red(p[2] * p[2])
      zz   == Red(p[3] * p[3])
      xz2  == Red(2 * p[1] * p[3])
      yz2  == Red(2 * p[2] * p[3])
      bzz3 == Red(coeff_a * xz2 + ThreeB * zz)
      azz  == Azz(zz)
      b3   == Red(coeff_a * (xx - azz) + ThreeB * xz2)
  IN <<Red((yy - bzz3) * Red(2 * p[1] * p[2]) - b3 * yz2),
       Red((yy + bzz3) * (yy - bzz3) + (3 * xx + azz) * b3),
       Red(4 * yz2 * yy)>>

ProjNegate(p) == <<p[1], Red(-p[2]), p[3]>>

ProjSub(p, q) == ProjAdd(p, ProjNegate(q))

IsZero(p) == p[3] = 0

(* Mutant: one zero is enough for both.                                    *)
ProjIsEqEitherZero(p, q) ==
  \/ IsZero(p) \/ IsZero(q)
  \/ Red(p[1] * q[3] - q[1] * p[3]) = 0 /\ Red(p[2] * q[3] - q[2] * p[3]) = 0

(* Cross products, or both zero.                                           *)
ProjIsEq(p, q) ==
  \/ IsZero(p) /\ IsZero(q)
  \/ Red(p[1] * q[3] - q[1] * p[3]) = 0 /\ Red(p[2] * q[3] - q[2] * p[3]) = 0

(* to_affine: the witness z_inv is bound by z_inv * z = !infinity.         *)
ZInverses(p) == Quotients(IF IsZero(p) THEN 0 ELSE 1, p[3])

(* Mutant: the coordinates of zero are not replaced.                       *)
ToAffineUnselected(p, zInv) ==
  <<Red(p[1] * zInv), Red(p[2] * zInv), IsZero(p)>>

ToAffine(p, zInv) ==
  IF IsZero(p) THEN <<0, 0, TRUE>>
  ELSE <<Red(p[1] * zInv), Red(p[2] * zInv), FALSE>>

(* The equation enforced on allocated coordinates.                         *)
OnCubicCheck(p) ==
  LET t == Red(p[1] * (p[1] * p[1] + coeff_a * p[3] * p[3]))
  IN Red(p[3] * (p[2] * p[2] - coeff_b * p[3] * p[3]) - t) = 0

-----------------------------------------------------------------------------
(* NonZeroAffineVar: the sets of results the constraints admit.            *)

AddUnchecked(p, q) ==
  {LET x == Red(l * l - p[1] - q[1]) IN <<x, Red(l * (p[1] - x) - p[2])>> :
     l \in Quotients(q[2] - p[2], q[1] - p[1])}

(* Mutant: the tangent of the curve with a = 0.                            *)
DoubleUncheckedFlat(p) ==
  {LET x == Red(l * l - 2 * p[1]) IN <<x, Red(l * (p[1] - x) - p[2])>> :
     l \in Quotients(3 * p[1] * p[1], 2 * p[2])}

DoubleUnchecked(p) ==
  {LET x == Red(l * l - 2 * p[1]) IN <<x, Red(l * (p[1] - x) - p[2])>> :
     l \in Quotients(3 * p[1] * p[1] + coeff_a, 2 * p[2])}

(* (p + q) + p in fewer constraints: the y coordinate of p + q is never    *)
(* computed.                                                               *)
DoubleAndAddOfVariables(p, q) ==
  UNION {LET x3 == Red(l1 * l1 - p[1] - q[1])
         IN {LET l2 == Red(-(l1 + m))
                 x4 == Red(l2 * l2 - p[1] - x3)
             IN <<x4, Red(l2 * (p[1] - x4) - p[2])>> :
               m \in Quotients(2 * p[2], x3 - p[1])} :
         l1 \in Quotients(q[2] - p[2], q[1] - p[1])}

(* If p or q is a constant p is doubled and q added, without a check that  *)
(* q differs from the double of p.                                         *)
DoubleAndAddUnchecked(p, q, someConstant) ==
  IF someConstant THEN UNION {AddUnchecked(r, q) : r \in DoubleUnchecked(p)}
                  ELSE DoubleAndAddOfVariables(p, q)

-----------------------------------------------------------------------------
(* new_variable_omit_on_curve_check: a variable starts with z = 1, or as   *)
(* (0, 1, 0).                                                              *)
ProjAllocated(q) == IF q = Infinity THEN <<0, 1, 0>> ELSE <<q[1], q[2], 1>>

CubicInit ==
  /\ \E c \in CurveCoeffs : coeff_a = c[1] /\ coeff_b = c[2]
  /\ affine \in CubicPoints
  /\ projective = ProjAllocated(affine)

(* new_variable_omit_prime_order_check: any coordinates that the check     *)
(* accepts, all zero among them.                                           *)
AllocateCoordinates ==
  /\ projective' \in {p \in Fp \X Fp \X Fp : OnCubicCheck(p)}
  /\ affine' = IF projective' = NoPoint THEN NoPoint
               ELSE IF IsZero(projective') THEN Infinity
               ELSE LET zInv == Inverse0(projective'[3])
                    IN <<Red(projective'[1] * zInv), Red(projective'[2] * zInv)>>
  /\ UNCHANGED <<coeff_a, coeff_b>>

AddProjective ==
  /\ \E q \in Operands : \E s \in CoordinatesOf(q) :
       projective' = ProjAdd(projective, s) /\ affine' = Meant(affine, q)
  /\ UNCHANGED <<coeff_a, coeff_b>>

SubProjective ==
  /\ \E q \in Operands : \E s \in CoordinatesOf(q) :
       projective' = ProjSub(projective, s) /\ affine' = Meant(affine, Opposite(q))
  /\ UNCHANGED <<coeff_a, coeff_b>>

AddAConstant ==
  /\ \E q \in CubicPoints :
       projective' = ProjAddConstant(projective, q) /\ affine' = Meant(affine, q)
  /\ UNCHANGED <<coeff_a, coeff_b>>

DoubleProjective ==
  /\ projective' = ProjDouble(projective) /\ affine' = Meant(affine, affine)
  /\ UNCHANGED <<coeff_a, coeff_b>>

NegateProjective ==
  /\ projective' = ProjNegate(projective) /\ affine' = Opposite(affine)
  /\ UNCHANGED <<coeff_a, coeff_b>>

CubicNext ==
  \/ AllocateCoordinates \/ AddProjective \/ SubProjective \/ AddAConstant
  \/ DoubleProjective \/ NegateProjective

CubicSpec == CubicInit /\ [][CubicNext]_cubicVars

-----------------------------------------------------------------------------
(* Properties.                                                             *)

(* The coordinates stand for the point after every sequence of operations, *)
(* also where the chord-and-tangent law has its exceptions: for zero, for  *)
(* a point and itself, for a point and its opposite, and after the checked *)
(* allocation of any coordinates.  All-zero coordinates stay what they     *)
(* are through every operation.                                            *)
ProjectiveIsPoint ==
  affine \in Operands /\ projective \in CoordinatesOf(affine)

(* to_affine has a witness and, whatever witness satisfies its constraint, *)
(* one result, also where z_inv is not bound at all.                       *)
ToAffineIsPoint ==
  affine # NoPoint =>
    /\ ZInverses(projective) # {}
    /\ \A zInv \in ZInverses(projective) :
         ToAffine(projective, zInv) =
           IF affine = Infinity THEN <<0, 0, TRUE>>
                                ELSE <<affine[1], affine[2], FALSE>>

(* Both: after any program the coordinates stand for the point that the    *)
(* law of the curve makes of the operands, and to_affine returns it.       *)
CoordinatesAreMeant == ProjectiveIsPoint /\ ToAffineIsPoint

(* Equality is that of points, whatever the factor of the coordinates;     *)
(* coordinates that are all zero stand for none and equal every point      *)
(* there is.                                                               *)
EqualityIsOfPoints ==
  \A q \in CubicPoints : \A s \in Representations(q) :
    ProjIsEq(projective, s) <=> affine \in {q, NoPoint}

(* The constraints of the affine formulae admit the right result and no    *)
(* other, on every pair their comments allow: add_unchecked for points     *)
(* that are neither equal nor opposite, double_and_add_unchecked of        *)
(* variables also not for p and -2p, and with a constant not for p and 2p  *)
(* either, where it divides zero by zero.                                  *)
AffineFormulaeAreExact ==
  affine \notin {Infinity, NoPoint} =>
    LET double == ChordSum(affine, affine)
    IN  /\ DoubleUnchecked(affine) = {double}
        /\ \A q \in CubicPoints \ {Infinity, affine, Mirror(affine)} :
             LET sum == ChordSum(affine, q)
             IN  /\ AddUnchecked(affine, q) = {sum}
                 /\ ChordSum(affine, sum) # Infinity =>
                      DoubleAndAddUnchecked(affine, q, FALSE) = {ChordSum(affine, sum)}
                 /\ q \notin {double, Mirror(double)} =>
                      DoubleAndAddUnchecked(affine, q, TRUE) = {ChordSum(double, q)}
=============================================================================
