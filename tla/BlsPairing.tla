----------------------------- MODULE BlsPairing -----------------------------
(***************************************************************************)
(* The pairing of pairing/bls12, with the preparation of                   *)
(* short_weierstrass/bls12: points of the twist are kept affine and        *)
(* prepared into the slopes and intercepts of lines, and the Miller loop   *)
(* takes all pairs together.  The inputs are multiples, as[k] and bs[k],   *)
(* of two generators.                                                      *)
(***************************************************************************)
EXTENDS Integers, FiniteSets, Sequences

CONSTANTS
  FMul(_, _), Half,  \* the prime field, and the inverse of 2 in it
  F2Zero, F2One, F2Add(_, _), F2Sub(_, _), F2Negate(_), F2Double(_), F2Mul(_, _), F2Square(_),
  F2MulByBaseFieldConstant(_, _), F2MulEquals(_, _, _), F2InverseValue(_),
  Fp12, F12One, F12Mul(_, _), F12Square(_), F12MulEquals(_, _, _), F12InverseValue(_),
  F12UnitaryInverse(_), F12FrobeniusMap(_, _),
  CyclotomicSquare(_), OptimizedCyclotomicExp(_, _), MulBy014(_, _, _, _), MulBy034(_, _, _, _),
  TWIST_TYPE,                     \* "M" or "D"
  TimesG1(_), TimesG2(_), Order,  \* multiples of generators of two groups of one order
  X,                              \* the bits of a word whose top bit is set, from the top
  X_IS_NEGATIVE,
  E                               \* the native pairing of the generators

VARIABLES
  as, bs,    \* the inputs
  pc,        \* what the program is about to do
  k, i,      \* the pair and the position in the loop it is at
  r,         \* the multiple of a point that its preparation has reached
  coeffs,    \* the coefficients of the pair so far
  prepared,  \* those of the pairs that are done
  f, result  \* the Miller value, and what it is raised to

vars == <<as, bs, pc, k, i, r, coeffs, prepared, f, result>>

-----------------------------------------------------------------------------
(* Preparation.  ToAffine gives zeros for the point at infinity.           *)

Affine(p, zero) == IF p = << >> THEN <<zero, zero>> ELSE p

(* G1PreparedVar::from_group_var.                                          *)
PreparedP(a) == Affine(TimesG1(a), 0)

Q(b) == Affine(TimesG2(b), F2Zero)

(* A line and the point it leads to.                                       *)
Step(c, e, x3, y3) ==
  LET g == F2Negate(c)
  IN [point |-> <<x3, y3>>, coeff |-> IF TWIST_TYPE = "M" THEN <<e, g>> ELSE <<g, e>>]

DoubleOf(p) ==
  LET xx == F2Square(p[1])
      c  == F2Mul(F2InverseValue(p[2]),
                   F2Add(F2MulByBaseFieldConstant(xx, Half), xx))
      x3 == F2Sub(F2Square(c), F2Double(p[1]))
      e  == F2Sub(F2Mul(c, p[1]), p[2])
  IN Step(c, e, x3, F2Sub(e, F2Mul(c, x3)))

AddTo(p, q) ==
  LET c  == F2Mul(F2InverseValue(F2Sub(q[1], p[1])), F2Sub(q[2], p[2]))
      x3 == F2Sub(F2Square(c), F2Add(p[1], q[1]))
  IN Step(c, F2Sub(F2Mul(c, p[1]), p[2]), x3,
          F2Sub(F2Mul(F2Sub(p[1], x3), c), p[2]))

(* An inverse is a witness bound by a product with the value.              *)
Invertible(v) == F2MulEquals(v, F2InverseValue(v), F2One)

Init ==
  /\ pc = "start" /\ k = 1 /\ i = 2
  /\ r = Q(bs[1]) /\ coeffs = << >> /\ prepared = << >>
  /\ f = F12One /\ result = F12One

Reject == pc' = "rejected" /\ UNCHANGED <<as, bs, k, i, r, coeffs, prepared, f, result>>

(* from_group_var enforces that the point is not at infinity.              *)
PrepareStart ==
  /\ pc = "start"
  /\ IF TimesG2(bs[k]) = << >> THEN Reject
     ELSE /\ pc' = "prepare" /\ r' = Q(bs[k]) /\ coeffs' = << >> /\ i' = 2
          /\ UNCHANGED <<as, bs, k, prepared, f, result>>

PrepareBit ==
  /\ pc = "prepare" /\ i <= Len(X)
  /\ LET d == DoubleOf(r)
         q == Q(bs[k])
         a == AddTo(d.point, q)
     IN IF ~ Invertible(r[2]) \/ (X[i] = 1 /\ ~ Invertible(F2Sub(q[1], d.point[1]))) THEN Reject
        ELSE /\ r' = IF X[i] = 1 THEN a.point ELSE d.point
             /\ coeffs' = coeffs \o IF X[i] = 1 THEN <<d.coeff, a.coeff>> ELSE <<d.coeff>>
             /\ i' = i + 1
             /\ UNCHANGED <<as, bs, pc, k, prepared, f, result>>

PrepareEnd ==
  /\ pc = "prepare" /\ i > Len(X)
  /\ prepared' = Append(prepared, coeffs)
  /\ IF k < Len(bs) THEN pc' = "start" /\ k' = k + 1 ELSE pc' = "miller" /\ k' = 1
  /\ i' = 2
  /\ UNCHANGED <<as, bs, r, coeffs, f, result>>

-----------------------------------------------------------------------------
(* The Miller loop.                                                        *)

(* The line of a coefficient at a point of G1.                             *)
Ell(g, c, p) ==
  LET yFp2      == <<p[2], 0>>
      timesX(v) == <<FMul(v[1], p[1]), FMul(v[2], p[1])>>
  IN IF TWIST_TYPE = "M" THEN MulBy014(g, c[1], timesX(c[2]), yFp2)
     ELSE MulBy034(g, yFp2, timesX(c[1]), c[2])

(* The coefficients that the loop took before a position.                  *)
Taken(n) == (n - 2) + Cardinality({m \in 2 .. n - 1 : X[m] = 1})

(* Mutant: the value is squared once more for each pair.                   *)
EllOfAllSquared(g, index) ==
  LET product[m \in 0 .. Len(as)] ==
        IF m = 0 THEN g
        ELSE Ell(IF m = 1 THEN product[m - 1] ELSE F12Square(product[m - 1]),
                 prepared[m][index], PreparedP(as[m]))
  IN product[Len(as)]

(* The lines with one index of all pairs.                                  *)
EllOfAll(g, index) ==
  LET product[m \in 0 .. Len(as)] ==
        IF m = 0 THEN g ELSE Ell(product[m - 1], prepared[m][index], PreparedP(as[m]))
  IN product[Len(as)]

MillerBit ==
  /\ pc = "miller" /\ i <= Len(X)
  /\ LET indices  == IF X[i] = 1 THEN <<Taken(i) + 1, Taken(i) + 2>> ELSE <<Taken(i) + 1>>
         g[n \in 0 .. 2] == IF n = 0 THEN F12Square(f) ELSE EllOfAll(g[n - 1], indices[n])
     IN f' = g[Len(indices)]
  /\ i' = i + 1
  /\ UNCHANGED <<as, bs, pc, k, r, coeffs, prepared, result>>

(* The inverse, of an element of the cyclotomic subgroup.                   *)
IfNegative(a) == IF X_IS_NEGATIVE THEN F12UnitaryInverse(a) ELSE a

MillerEnd ==
  /\ pc = "miller" /\ i > Len(X)
  /\ result' = IfNegative(f)
  /\ pc' = "first"
  /\ UNCHANGED <<as, bs, k, i, r, coeffs, prepared, f>>

-----------------------------------------------------------------------------
(* The final exponentiation.                                               *)

XValue ==
  LET v[m \in 0 .. Len(X)] == IF m = 0 THEN 0 ELSE 2 * v[m - 1] + X[m]
  IN v[Len(X)]

ExpByX(a) == IfNegative(OptimizedCyclotomicExp(a, XValue))

(* f^((P^6 - 1)(P^2 + 1)).                                                 *)
EasyPart(a, inv) ==
  LET timesItsFrobenius(g) == F12Mul(F12FrobeniusMap(g, 2), g)
  IN timesItsFrobenius(F12Mul(F12UnitaryInverse(a), inv))

Y3(g, y5) == F12Mul(F12UnitaryInverse(CyclotomicSquare(g)), y5)

Y4(y5, e) == F12Mul(e, CyclotomicSquare(y5))

(* The first part is kept in f, and the results of exp_by_x in the order   *)
(* of the calls: y5, y0, y2, and what y4 and y1 begin as.                  *)
FirstPart ==
  /\ pc = "first"
  /\ LET inv == F12InverseValue(result)
     IN IF ~ F12MulEquals(result, inv, F12One) THEN Reject
        ELSE /\ f' = EasyPart(result, inv)
             /\ pc' = "second" /\ result' = << >>
             /\ UNCHANGED <<as, bs, k, i, r, coeffs, prepared>>

SecondPartPower ==
  /\ pc = "second" /\ Len(result) < 5
  /\ result' = Append(result,
       ExpByX(CASE Len(result) = 0 -> f
                [] Len(result) = 1 -> Y3(f, result[1])
                [] Len(result) = 4 -> Y4(result[1], result[4])
                [] OTHER           -> result[Len(result)]))
  /\ UNCHANGED <<as, bs, pc, k, i, r, coeffs, prepared, f>>

(* The factors of the result, in the order of their product: z5, z0, z4    *)
(* and y1.                                                                 *)
Factor(n) ==
  LET y5 == result[1]
  IN CASE n = 1 -> F12FrobeniusMap(F12Mul(y5, result[3]), 2)
       [] n = 2 -> F12FrobeniusMap(F12Mul(result[2], f), 3)
       [] n = 3 -> F12FrobeniusMap(F12Mul(Y4(y5, result[4]), F12UnitaryInverse(f)), 1)
       [] n = 4 -> F12Mul(F12Mul(result[5], F12UnitaryInverse(Y3(f, y5))), f)

SecondPartFactor ==
  /\ pc = "second" /\ Len(result) \in 5 .. 8
  /\ result' = Append(result, Factor(Len(result) - 4))
  /\ UNCHANGED <<as, bs, pc, k, i, r, coeffs, prepared, f>>

SecondPartEnd ==
  /\ pc = "second" /\ Len(result) = 9
  /\ result' = F12Mul(F12Mul(F12Mul(result[6], result[7]), result[8]), result[9])
  /\ pc' = "done"
  /\ UNCHANGED <<as, bs, k, i, r, coeffs, prepared, f>>

Next ==
  \/ PrepareStart \/ PrepareBit \/ PrepareEnd \/ MillerBit \/ MillerEnd
  \/ FirstPart \/ SecondPartPower \/ SecondPartFactor \/ SecondPartEnd

-----------------------------------------------------------------------------
(* Properties.                                                             *)

TimesE(n) ==
  LET pow[m \in Nat, square \in Fp12, product \in Fp12] ==
        IF m = 0 THEN product
        ELSE pow[m \div 2, F12Square(square),
                 IF m % 2 = 0 THEN product ELSE F12Mul(product, square)]
  IN pow[n, E, F12One]

(* The sum of the products of the inputs, modulo the order.                *)
Exponent ==
  LET sum[m \in 0 .. Len(as)] == IF m = 0 THEN 0 ELSE (sum[m - 1] + as[m] * bs[m]) % Order
  IN sum[Len(as)]

(* A product of pairings of multiples is the power of the pairing of the   *)
(* generators, a root of unity other than one; a point of G1 at infinity   *)
(* counts as zero.                                                         *)
PairingIsBilinear == pc = "done" => E # F12One /\ result = TimesE(Exponent)

(* The multiple that preparation has reached before a position.            *)
Multiple(n) ==
  LET m[j \in 1 .. n] == IF j = 1 THEN 1 ELSE 2 * m[j - 1] + X[j]
  IN m[n - 1]

Line(c, s) ==
  IF TWIST_TYPE = "M" THEN F2Add(F2Add(c[1], F2Mul(c[2], s[1])), s[2])
  ELSE F2Add(F2Add(c[2], F2Mul(c[1], s[1])), s[2])

(* While a point is prepared, the running point is the multiple that the   *)
(* bits so far spell, and the line of each bit meets the curve where it    *)
(* should: the tangent at m Q also at -2m Q, the line of an addition in    *)
(* both points and the opposite of their sum, and neither in the sum.      *)
LinesMeetPoints ==
  pc = "prepare" /\ bs[k] # 0 =>
    LET q(n) == TimesG2((n * bs[k]) % Order)
        meets(c, p, s) ==
          /\ Line(c, q(p)) = F2Zero /\ Line(c, q(s - p)) = F2Zero
          /\ Line(c, q(- s)) = F2Zero /\ Line(c, q(s)) # F2Zero
    IN /\ r = q(Multiple(i))
       /\ \A j \in 2 .. i - 1 :
            /\ meets(coeffs[Taken(j) + 1], Multiple(j), 2 * Multiple(j))
            /\ X[j] = 1 => meets(coeffs[Taken(j) + 2], 1, 2 * Multiple(j) + 1)

(* The point of G2 at infinity is refused, and nothing else: no other      *)
(* point of the group meets a division by zero.                            *)
RefusedOnlyAtInfinity ==
  /\ pc = "rejected" => \E n \in DOMAIN bs : bs[n] = 0
  /\ pc = "done" => \A n \in DOMAIN bs : bs[n] # 0
=============================================================================
