----------------------------- MODULE PrimeField -----------------------------
(***************************************************************************)
(* The native field: the numbers below P.  Expressions are written over    *)
(* the integers and reduced where their value is kept.                     *)
(***************************************************************************)
EXTENDS Integers, FiniteSets

CONSTANT P  \* the modulus of the field

ASSUME FieldAssumption == P \in Nat /\ P >= 2 /\ \A d \in 2 .. P - 1 : P % d # 0

Fp == 0 .. P - 1

Red(x) == x % P

(* Field::inverse, for an element that has one.                            *)
Inverse0(d) == IF Red(d) = 0 THEN 0 ELSE CHOOSE q \in Fp : Red(q * d) = 1

(* mul_by_inverse_unchecked on variables allocates a witness and enforces  *)
(* result * d = n: all the results a prover can choose.                    *)
Quotients(n, d) == {q \in Fp : Red(q * d - n) = 0}

-----------------------------------------------------------------------------
(* Elements as values: what variables of the field hold where every        *)
(* operation has one result.  The leaves of the towers that the pairings   *)
(* compute in.                                                             *)

FAdd(a, b) == Red(a + b)

FSub(a, b) == Red(a - b)

FNegate(a) == Red(- a)

FMul(a, b) == Red(a * b)

FMulEquals(a, b, r) == Red(a * b) = r

(* The Frobenius map of a prime field.                                     *)
FFrobenius(a, power) == a

FPow(a, n) ==
  LET pow[k \in Nat, power \in Fp, product \in Fp] ==
        IF k = 0 THEN product
        ELSE pow[k \div 2, Red(power * power),
                 IF k % 2 = 0 THEN product ELSE Red(product * power)]
  IN pow[n, a, 1]

FInverse(a) == FPow(a, P - 2)
=============================================================================
