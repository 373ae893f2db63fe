------------------------------- MODULE FpOps --------------------------------
(***************************************************************************)
(* FpVar and AllocatedFp of fields/fp, with the default methods of         *)
(* FieldVar: the sets of results the constraints admit, as in BooleanOps.  *)
(* An error and a panic admit none.                                        *)
(***************************************************************************)
EXTENDS BooleanOps

LOCAL INSTANCE SequencesExt

Linear(args, x) ==
  [constant |-> \A i \in DOMAIN args : args[i].constant, value |-> Red(x)]

Add(a, b) == Linear(<<a, b>>, a.value + b.value)

Sub(a, b) == Linear(<<a, b>>, a.value - b.value)

Negate(a) == Linear(<<a>>, - a.value)

Double(a) == Linear(<<a>>, 2 * a.value)

(* A product with a constant is linear.                                    *)
Mul(a, b) ==
  IF a.constant \/ b.constant THEN {Linear(<<a, b>>, a.value * b.value)}
  ELSE Witness(LAMBDA r : a.value * b.value - r)

(* The operator with a field element is the constant zero for zero.        *)
MulElement(a, k) == IF k = 0 THEN {Const(0)} ELSE Mul(a, Const(k))

Square(a) == Mul(a, a)

FpInverse(a) ==
  IF a.constant
  THEN IF a.value = 0 THEN {} ELSE {Const(Inverse0(a.value))}
  ELSE Witness(LAMBDA r : a.value * r - 1)

SumOf(xs) == FoldLeft(Add, Const(0), xs)

InnerProduct(xs, ys) ==
  {SumOf(t) : t \in Products([i \in DOMAIN xs |-> Mul(xs[i], ys[i])])}

-----------------------------------------------------------------------------
(* Equality.  Two constants are compared by is_eq and by nothing else.     *)

FpIsEq(a, b) ==
  IF a.constant /\ b.constant THEN {Const(IF a.value = b.value THEN 1 ELSE 0)}
  ELSE IsZero(a.value - b.value)

FpConditionalEnforceEqual(a, b, cond) ==
  (a.constant /\ b.constant) \/ Red((a.value - b.value) * cond.value) = 0

(* Mutant: the multiplier is compared with one, whatever the condition.    *)
InverseExists(d, cond) == \E multiplier \in Fp : Red(d * multiplier - 1) = 0

DiffersIf(d, cond) == \E multiplier \in Fp : Red(d * multiplier - cond) = 0

FpConditionalEnforceNotEqual(a, b, cond) ==
  (a.constant /\ b.constant) \/ DiffersIf(a.value - b.value, cond.value)

(* A constant factor makes the product linear; three constants are taken   *)
(* to agree.                                                               *)
MulEquals(a, b, r) ==
  \/ a.constant /\ b.constant /\ r.constant
  \/ \E p \in Mul(a, b) : FpConditionalEnforceEqual(r, p, TRUEBit)

(* A constant beside a variable is allocated as a witness of its own.      *)
SquareEquals(a, r) ==
  IF a.constant \/ r.constant
  THEN (a.constant /\ r.constant) \/ \E v \in Fp : IF a.constant THEN Red(v * v) = r.value
                                                   ELSE Red(a.value * a.value) = v
  ELSE Red(a.value * a.value) = r.value

MulByInverseUnchecked(a, d) ==
  IF a.constant /\ d.constant
  THEN IF d.value = 0 THEN {} ELSE {Const(Red(a.value * Inverse0(d.value)))}
  ELSE {r \in {Alloc(x) : x \in Fp} : MulEquals(r, d, a)}

MulByInverse(a, d) ==
  IF FpConditionalEnforceNotEqual(d, Const(0), TRUEBit) THEN MulByInverseUnchecked(a, d)
  ELSE {}

-----------------------------------------------------------------------------
(* Selection and lookups.                                                  *)

FpSelect(cond, t, f) ==
  CASE IsConst(cond, 1) -> {t}
    [] IsConst(cond, 0) -> {f}
    [] ~ cond.constant /\ t.constant /\ f.constant ->
         {Alloc(Red(cond.value * t.value + (1 - cond.value) * f.value))}
    [] OTHER -> Witness(LAMBDA r : cond.value * (t.value - f.value) - (r - f.value))

(* Mutant: the two bits of the index are exchanged.                        *)
IndexSwapped(b) == 1 + b[2].value + 2 * b[1].value

Index(b) == 1 + b[1].value + 2 * b[2].value

AllConstant(bits) == \A i \in DOMAIN bits : bits[i].constant

TwoBitLookup(b, c) ==
  IF AllConstant(b) THEN {Const(c[Index(b)])}
  ELSE Witness(LAMBDA r :
         (b[2].value * (c[4] - c[3] - c[2] + c[1]) + c[2] - c[1]) * b[1].value
           - (r - c[1] + b[2].value * (c[1] - c[3])))

ThreeBitCondNegLookup(b, b0b1, c) ==
  IF AllConstant(b) /\ b0b1.constant
  THEN {Const(Red(IF b[3].value = 1 THEN - c[Index(b)] ELSE c[Index(b)]))}
  ELSE Witness(LAMBDA r :
         (b0b1.value * (c[4] - c[3] - c[2] + c[1]) + b[1].value * (c[2] - c[1])
            + b[2].value * (c[3] - c[1]) + c[1]) * (1 - 2 * b[3].value) - r)

-----------------------------------------------------------------------------
(* Bits.                                                                   *)

ModulusBits == BitLength(P)

WordValue(w) == FoldRight(LAMBDA b, v : b.value + 2 * v, w, 0)

BitsOf(x, n) == [i \in 1 .. n |-> (x \div Pow2[i - 1]) % 2]

Words(n) == {[i \in 1 .. n |-> Alloc(f[i])] : f \in [1 .. n -> {0, 1}]}

ToNonUniqueBits(a) ==
  IF a.constant
  THEN {[i \in 1 .. ModulusBits |-> Const(BitsOf(a.value, ModulusBits)[i])]}
  ELSE {w \in Words(ModulusBits) : Red(WordValue(w) - a.value) = 0}

(* Mutant: the word is not enforced to be below the modulus.               *)
AnyWord(w) == TRUE

InField(w) == EnforceInFieldLe(w)

ToBits(a) == IF a.constant THEN ToNonUniqueBits(a) ELSE {w \in ToNonUniqueBits(a) : InField(w)}

LeBitsToFp(w) ==
  IF AllConstant(w) THEN {Const(Red(WordValue(w)))}
  ELSE IF Len(w) < ModulusBits \/ EnforceInFieldLe(w) THEN {Alloc(Red(WordValue(w)))} ELSE {}

(* The lower bits are free witnesses; what they leave of the value is      *)
(* enforced to be zero.                                                    *)
ToBitsWithTopBitsZero(a, size) ==
  LET words == IF a.constant THEN {[i \in 1 .. size |-> Const(BitsOf(a.value, size)[i])]}
               ELSE Words(size)
  IN {w \in words : FpConditionalEnforceEqual(
                      [a EXCEPT !.value = Red(a.value - WordValue(w))], Const(0), TRUEBit)}

-----------------------------------------------------------------------------
(* Comparison, of elements up to half of the field.                        *)

UpToHalf(a) ==
  \E w \in ToNonUniqueBits(a) : EnforceSmallerOrEqualThanLe(w, (P - 1) \div 2)

(* process_cmp_inputs: the two sides in order, strictly.                   *)
Sides(a, b, less, orEqual) ==
  LET right == IF less THEN b ELSE a
  IN <<IF less THEN a ELSE b, IF orEqual THEN Add(right, Const(1)) ELSE right>>

(* The double of a negative difference is odd.                             *)
IsSmallerThanUnchecked(a, b) == {w[1] : w \in ToBits(Double(Sub(a, b)))}

IsCmpUnchecked(a, b, less, orEqual) ==
  LET s == Sides(a, b, less, orEqual) IN IsSmallerThanUnchecked(s[1], s[2])

IsCmp(a, b, less, orEqual) ==
  LET s == Sides(a, b, less, orEqual)
  IN IF UpToHalf(s[1]) /\ UpToHalf(s[2]) THEN IsSmallerThanUnchecked(s[1], s[2]) ELSE {}

EnforceCmp(results) == \E r \in results : EnforceEqual(r, TRUEBit)
=============================================================================
