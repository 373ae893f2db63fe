----------------------------- MODULE MntPairing -----------------------------
(***************************************************************************)
(* The pairings of pairing/mnt4 and pairing/mnt6, the same program over    *)
(* extensions of degree D = 2 and 3: points of the twist are prepared into *)
(* the coefficients of lines, the lines are multiplied in the flipped      *)
(* Miller loop, and the product is raised to the final exponent.  The      *)
(* inputs are multiples, as[k] and bs[k], of two generators.               *)
(***************************************************************************)
EXTENDS Integers, FiniteSets, Sequences

CONSTANTS
  D,                      \* the degree of K over the prime field
  KZero, KOne, KAdd(_, _), KSub(_, _), KNegate(_), KDouble(_), KMul(_, _), KSquare(_),
  KMulByBaseFieldConstant(_, _), KMulEquals(_, _, _), KInverseValue(_),
  Embedded(_), Twist, TWIST_COEFF_A,
  TZero, TOne, TMul(_, _), TSquare(_), TMulEquals(_, _, _), TInverseValue(_),
  TUnitaryInverse(_), TFrobeniusMap(_, _), TCyclotomicExp(_, _),
  TimesG1(_), TimesG2(_), Order,  \* multiples of generators of two groups of one order
  ATE_LOOP_COUNT,         \* signed digits, the top one first
  ATE_IS_LOOP_COUNT_NEG,
  W1, ABS_OF_W0, W0_IS_NEG,  \* last chunk of the final exponent: W1 * P + w0
  E                       \* the native pairing of the generators

VARIABLES
  as, bs,    \* the inputs
  pc,        \* what the program is about to do
  k, i,      \* the pair and the position in the loop it is at
  r,         \* the multiple of a point that its preparation has reached
  coeffs,    \* the coefficients of the pair so far
  prepared,  \* those of the pairs that are done
  f, result  \* the Miller value of the pair, and the product of all

vars == <<as, bs, pc, k, i, r, coeffs, prepared, f, result>>

-----------------------------------------------------------------------------
(* Preparation.                                                            *)

(* ToAffine gives zeros for the point at infinity.                         *)
Affine(p, zero) == IF p = << >> THEN <<zero, zero>> ELSE p

(* G1PreparedVar::from_group_var.                                          *)
PreparedP(a) ==
  LET p == Affine(TimesG1(a), 0)
  IN [x |-> p[1], x_twist |-> KMulByBaseFieldConstant(Twist, p[1]),
      y_twist |-> KMulByBaseFieldConstant(Twist, p[2])]

Q(b) == Affine(TimesG2(b), KZero)

(* (x + y)^2 - x^2 - y^2, of operands whose squares are at hand.           *)
TwiceProduct(x, y, xx, yy) == KSub(KSub(KSquare(KAdd(x, y)), xx), yy)

DoublingStep(p) ==
  LET a  == KSquare(p.t)
      b  == KSquare(p.x)
      c  == KSquare(p.y)
      d  == KSquare(c)
      e  == TwiceProduct(p.x, c, b, d)
      ff == KAdd(KAdd(KDouble(b), b), KMul(a, TWIST_COEFF_A))
      g  == KSquare(ff)
      e2 == KDouble(e)
      x  == KSub(g, KDouble(e2))
      z  == TwiceProduct(p.y, p.z, c, KSquare(p.z))
      t  == KSquare(z)
  IN [point |-> [x |-> x, z |-> z, t |-> t,
                 y |-> KSub(KMul(ff, KSub(e2, x)), KDouble(KDouble(KDouble(d))))],
      coeff |-> [c_h  |-> TwiceProduct(z, p.t, t, a),
                 c_4c |-> KDouble(KDouble(c)),
                 c_j  |-> TwiceProduct(ff, p.t, g, a),
                 c_l  |-> TwiceProduct(ff, p.x, g, b)]]

(* The mixed addition of the affine point <<x, y>>.                        *)
MixedAdditionStep(x, y, p) ==
  LET a   == KSquare(y)
      d   == KMul(TwiceProduct(p.z, y, a, p.t), p.t)
      h   == KSub(KMul(p.t, x), p.x)
      ii  == KSquare(h)
      e   == KDouble(KDouble(ii))
      j   == KMul(h, e)
      v   == KMul(p.x, e)
      ry2 == KDouble(p.y)
      l1  == KSub(d, ry2)
      x3  == KSub(KSub(KSquare(l1), j), KDouble(v))
      z3  == TwiceProduct(p.z, h, p.t, ii)
  IN [point |-> [x |-> x3, z |-> z3, t |-> KSquare(z3),
                 y |-> KSub(KMul(l1, KSub(v, x3)), KMul(j, ry2))],
      coeff |-> [c_l1 |-> l1, c_rz |-> z3]]

(* Mutant: the digit -1 adds the point all the same.                       *)
AddendUnsigned(q, digit) == q

Addend(q, digit) == IF digit = 1 THEN q ELSE <<q[1], KNegate(q[2])>>

StartOf(q) == [x |-> q[1], y |-> q[2], z |-> KOne, t |-> KOne]

NoCoeffs == [double |-> << >>, addition |-> << >>]

Init ==
  /\ pc = "prepare" /\ k = 1 /\ i = 2
  /\ r = StartOf(Q(bs[1])) /\ coeffs = NoCoeffs /\ prepared = << >>
  /\ f = TOne /\ result = TOne

PrepareBit ==
  /\ pc = "prepare" /\ i <= Len(ATE_LOOP_COUNT)
  /\ LET d     == DoublingStep(r)
         digit == ATE_LOOP_COUNT[i]
         q     == Addend(Q(bs[k]), digit)
         a     == MixedAdditionStep(q[1], q[2], d.point)
     IN /\ r' = IF digit = 0 THEN d.point ELSE a.point
        /\ coeffs' = [double   |-> Append(coeffs.double, d.coeff),
                      addition |-> IF digit = 0 THEN coeffs.addition
                                   ELSE Append(coeffs.addition, a.coeff)]
  /\ i' = i + 1
  /\ UNCHANGED <<as, bs, pc, k, prepared, f, result>>

(* An inverse is a witness bound by a product with the value.              *)
Invertible(v) == KMulEquals(v, KInverseValue(v), KOne)

(* The line through the last point and its opposite, for a negative count. *)
LastCoeff ==
  LET z1 == KInverseValue(r.z)
      z2 == KSquare(z1)
  IN MixedAdditionStep(KMul(r.x, z2), KMul(KNegate(r.y), KMul(z1, z2)), r).coeff

Reject == pc' = "rejected" /\ UNCHANGED <<as, bs, k, i, r, coeffs, prepared, f, result>>

PrepareEnd ==
  /\ pc = "prepare" /\ i > Len(ATE_LOOP_COUNT)
  /\ IF ATE_IS_LOOP_COUNT_NEG /\ ~ Invertible(r.z) THEN Reject
     ELSE LET all  == IF ATE_IS_LOOP_COUNT_NEG
                      THEN [coeffs EXCEPT !.addition = Append(@, LastCoeff)] ELSE coeffs
              next == IF k = Len(bs) THEN 1 ELSE k + 1
          IN /\ prepared' = Append(prepared, all)
             /\ pc' = IF k = Len(bs) THEN "miller" ELSE pc
             /\ k' = next /\ i' = 2
             /\ r' = StartOf(Q(bs[next])) /\ coeffs' = NoCoeffs
             /\ UNCHANGED <<as, bs, f, result>>

-----------------------------------------------------------------------------
(* The Miller loop: ate_miller_loop for each pair.                         *)

(* add_idx: the additions before a position of the loop.                   *)
AddIdx(n) == Cardinality({m \in 2 .. n - 1 : ATE_LOOP_COUNT[m] # 0})

TwistInverse == KInverseValue(Twist)

DoubleLineAt(c, p) ==
  <<KSub(KSub(c.c_l, c.c_4c), KMul(c.c_j, p.x_twist)), KMul(c.c_h, p.y_twist)>>

AdditionLineAt(c, q, p) ==
  LET l1 == KSub(Embedded(p.x), KMul(q[1], TwistInverse))
  IN <<KMul(c.c_rz, p.y_twist),
       KNegate(KAdd(KMul(KMul(q[2], TwistInverse), c.c_rz), KMul(l1, c.c_l1)))>>

MillerBit ==
  /\ pc = "miller" /\ i <= Len(ATE_LOOP_COUNT)
  /\ LET p     == PreparedP(as[k])
         c     == prepared[k]
         digit == ATE_LOOP_COUNT[i]
         g     == TMul(TSquare(f), DoubleLineAt(c.double[i - 1], p))
     IN f' = IF digit = 0 THEN g
             ELSE TMul(g, AdditionLineAt(c.addition[AddIdx(i) + 1], Addend(Q(bs[k]), digit), p))
  /\ i' = i + 1
  /\ UNCHANGED <<as, bs, pc, k, r, coeffs, prepared, result>>

(* Mutant: the value of a negative loop count is not inverted.             *)
MillerValueUninverted == f

MillerValue ==
  IF ~ ATE_IS_LOOP_COUNT_NEG THEN f
  ELSE TInverseValue(TMul(f, AdditionLineAt(prepared[k].addition[AddIdx(i) + 1], Q(bs[k]),
                                         PreparedP(as[k]))))

MillerEnd ==
  /\ pc = "miller" /\ i > Len(ATE_LOOP_COUNT)
  /\ IF ATE_IS_LOOP_COUNT_NEG /\ MillerValue = TZero THEN Reject
     ELSE /\ result' = TMul(result, MillerValue)
          /\ f' = TOne /\ i' = 2
          /\ IF k = Len(bs) THEN pc' = "final" /\ UNCHANGED k ELSE k' = k + 1 /\ UNCHANGED pc
          /\ UNCHANGED <<as, bs, r, coeffs, prepared>>

-----------------------------------------------------------------------------
(* The final exponentiation.                                               *)

(* final_exponentiation_first_chunk: P^2 - 1, or (P^3 - 1)(P + 1).         *)
FirstChunk(elt, inv) ==
  LET over == TMul(TUnitaryInverse(elt), inv)
  IN IF D = 2 THEN over ELSE TMul(TFrobeniusMap(over, 1), over)

LastChunk(elt, inv) ==
  TMul(TCyclotomicExp(TFrobeniusMap(elt, 1), W1),
        TCyclotomicExp(IF W0_IS_NEG THEN inv ELSE elt, ABS_OF_W0))

FinalExponentiation ==
  /\ pc = "final"
  /\ LET inv == TInverseValue(result)
     IN IF ~ TMulEquals(result, inv, TOne) THEN Reject
        ELSE /\ result' = LastChunk(FirstChunk(result, inv), FirstChunk(inv, result))
             /\ pc' = "done"
             /\ UNCHANGED <<as, bs, k, i, r, coeffs, prepared, f>>

(* AteDoubleCoefficientsVar::value: that of MNT4 reads c_l for c_h.        *)
DoubleCoeffValue(c) == IF D = 2 THEN [c EXCEPT !.c_h = c.c_l] ELSE c

Next == PrepareBit \/ PrepareEnd \/ MillerBit \/ MillerEnd \/ FinalExponentiation

-----------------------------------------------------------------------------
(* Properties.                                                             *)

TimesE(n) ==
  LET pow[m \in 0 .. n] == IF m = 0 THEN TOne
                           ELSE LET h == TSquare(pow[m \div 2])
                                IN IF m % 2 = 0 THEN h ELSE TMul(h, E)
  IN pow[n]

(* The sum of the products of the inputs, modulo the order.                *)
Exponent ==
  LET sum[m \in 0 .. Len(as)] == IF m = 0 THEN 0 ELSE (sum[m - 1] + as[m] * bs[m]) % Order
  IN sum[Len(as)]

(* A product of pairings of multiples is the power of the pairing of the   *)
(* generators, a root of unity other than one; a point at infinity on      *)
(* either side counts as zero.                                             *)
PairingIsBilinear == pc = "done" => E # TOne /\ result = TimesE(Exponent)

(* The multiple that preparation has reached before a position.            *)
Multiple(n) ==
  LET m[j \in 1 .. n] == IF j = 1 THEN 1 ELSE 2 * m[j - 1] + ATE_LOOP_COUNT[j]
  IN m[n - 1]

(* The equations of the lines in the coordinates of the twist.             *)
DoubleLine(c, s) ==
  KAdd(KSub(KSub(c.c_l, c.c_4c), KMul(c.c_j, s[1])), KMul(c.c_h, s[2]))

AdditionLine(c, q, s) ==
  KSub(KMul(c.c_rz, KSub(s[2], q[2])), KMul(c.c_l1, KSub(s[1], q[1])))

Represents(p, q) ==
  /\ p.t = KSquare(p.z) /\ p.z # KZero
  /\ p.x = KMul(q[1], p.t) /\ p.y = KMul(q[2], KMul(p.t, p.z))

(* While a point is prepared, the running point is the multiple that the   *)
(* digits so far spell, and the line of each digit meets the curve where   *)
(* it should: the tangent at m Q also at -2m Q, the line of an addition in *)
(* both points and the opposite of their sum, and neither in the sum.  The *)
(* line that follows the digits of a negative loop count is not among      *)
(* them: it is vertical, and what it contributes is one after the final    *)
(* exponentiation.                                                         *)
LinesMeetPoints ==
  pc = "prepare" /\ bs[k] # 0 =>
    LET q(n) == TimesG2((n * bs[k]) % Order)
    IN /\ Represents(r, q(Multiple(i)))
       /\ \A j \in 2 .. i - 1 :
            LET m     == Multiple(j)
                digit == ATE_LOOP_COUNT[j]
                dc    == coeffs.double[j - 1]
                ac    == coeffs.addition[AddIdx(j) + 1]
            IN /\ DoubleLine(dc, q(m)) = KZero /\ DoubleLine(dc, q(- 2 * m)) = KZero
               /\ DoubleLine(dc, q(2 * m)) # KZero
               /\ digit # 0 =>
                    /\ \A s \in {2 * m, digit, - (2 * m + digit)} :
                         AdditionLine(ac, q(digit), q(s)) = KZero
                    /\ AdditionLine(ac, q(digit), q(2 * m + digit)) # KZero

(* Only the point at infinity is refused: no other point of the group      *)
(* meets a division by zero, in the preparation of a negative loop count,  *)
(* in the inversion of the Miller value or in the final exponentiation.    *)
RefusedOnlyAtInfinity == pc = "rejected" => \E n \in DOMAIN bs : bs[n] = 0

(* A statement of a comment: value() of a double coefficient "returns the  *)
(* value assigned to self".                                                *)
ValueIsAssigned == \A n \in DOMAIN coeffs.double :
                     DoubleCoeffValue(coeffs.double[n]) = coeffs.double[n]
=============================================================================
