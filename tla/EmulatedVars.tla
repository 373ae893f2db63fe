---------------------------- MODULE EmulatedVars ----------------------------
(***************************************************************************)
(* Programs over EmulatedFpVar, in the manner of NativeFp: an element of   *)
(* the emulated field is a constant of that field or an allocated variable *)
(* of it, and every operation has a case for each mixture.  A variable is  *)
(* the residue that its limbs stand for; that the limbs keep standing for  *)
(* it is the subject of EmulatedFp.  Bits are of the native field.         *)
(***************************************************************************)
EXTENDS BooleanGadgets, FpOps

LOCAL INSTANCE SequencesExt

CONSTANTS
  T,         \* the modulus of the emulated field
  NumLimbs,  \* how many limbs an element has
  LimbBits,  \* and of how many bits
  Tables     \* of the lookups: sequences of four elements

VARIABLES regs, want

vars == <<bitVars, regs, want>>

E == INSTANCE PrimeField WITH P <- T

R == 1 .. 2

Zero == Const(0)

One == Const(1)

(* A variable with any element that the prover allocates.                  *)
EWitnesses == {Alloc(v) : v \in E!Fp}

-----------------------------------------------------------------------------
(* The operations.                                                         *)

(* Constants give a constant.                                              *)
Of(args, v) == [constant |-> AllConstant(args), value |-> E!Red(v)]

EAdd(a, b) == Of(<<a, b>>, a.value + b.value)

ENegate(a) == Of(<<a>>, - a.value)

(* Mutant: the difference of a constant and a variable is not negated.     *)
ESubTurned(a, b) ==
  IF a.constant /\ ~ b.constant THEN Of(<<b, a>>, b.value - a.value)
  ELSE Of(<<a, b>>, a.value - b.value)

(* A variable is subtracted from a constant the other way round.           *)
ESub(a, b) ==
  IF a.constant /\ ~ b.constant THEN ENegate(Of(<<b, a>>, b.value - a.value))
  ELSE Of(<<a, b>>, a.value - b.value)

EMul(a, b) == Of(<<a, b>>, a.value * b.value)

(* With zero of the field, not a variable, the product is a constant.      *)
EMulElement(a, k) == IF k = 0 THEN Zero ELSE EMul(a, Const(k))

EInverse(a) ==
  IF a.constant THEN {Const(E!FInverse(a.value))}
  ELSE {r \in EWitnesses : EMul(a, r).value = 1}

(* For two constants the condition itself has to be false.                 *)
EConditionalEnforceEqual(a, b, cond) ==
  IF a.constant /\ b.constant THEN a.value = b.value \/ EnforceEqual(cond, FALSEBit)
  ELSE cond.value * E!Red(a.value - b.value) = 0

(* The difference, or one in its place, has an inverse.                    *)
EConditionalEnforceNotEqual(a, b, cond) ==
  IF a.constant /\ b.constant THEN a.value # b.value \/ EnforceEqual(cond, FALSEBit)
  ELSE EInverse(Alloc(IF cond.value = 1 THEN E!Red(a.value - b.value) ELSE 1)) # {}

(* Mutant: the inequality is not enforced where the bit is false.          *)
EIsEqWhenTrue(a, b) == {e \in {Alloc(0), Alloc(1)} : EConditionalEnforceEqual(a, b, e)}

(* A witness of its own says whether they are equal.                       *)
EIsEq(a, b) ==
  IF a.constant /\ b.constant THEN {Const(IF a.value = b.value THEN 1 ELSE 0)}
  ELSE {e \in {Alloc(0), Alloc(1)} :
          EConditionalEnforceEqual(a, b, e) /\ EConditionalEnforceNotEqual(a, b, Not(e))}

EMulEquals(a, b, r) == EConditionalEnforceEqual(r, EMul(a, b), TRUEBit)

EMulByInverse(a, d) ==
  IF ~ EConditionalEnforceNotEqual(d, Zero, TRUEBit) THEN {}
  ELSE IF a.constant /\ d.constant THEN {EMul(a, Const(E!FInverse(d.value)))}
  ELSE {r \in EWitnesses : EMulEquals(r, d, a)}

(* A constant condition keeps the constant it selects.                     *)
ESelect(cond, t, f) ==
  LET chosen == IF cond.value = 1 THEN t ELSE f
  IN IF cond.constant THEN chosen ELSE Alloc(chosen.value)

(* Without reduction.  A constant to the left is allocated outside the     *)
(* constraint system, which may be optimised for another goal: an          *)
(* assertion.                                                              *)
EMulWithoutReduce(a, b, weight) ==
  IF weight /\ a.constant /\ ~ b.constant THEN {} ELSE {EMul(a, b)}

(* Limbs, highest first, and what they stand for.                          *)
Limbs(v) ==
  [i \in 1 .. NumLimbs |-> (v \div Pow2[LimbBits * (NumLimbs - i)]) % Pow2[LimbBits]]

FromLimbs(limbs) ==
  Alloc(E!Red(FoldLeft(LAMBDA v, limb : limb.value + Pow2[LimbBits] * v, 0, limbs)))

(* The limbs in one place of the entries of a table.                       *)
Column(c, i) == [j \in DOMAIN c |-> Limbs(c[j])[i]]

ETwoBitLookup(b, c) ==
  IF AllConstant(b) THEN {Const(c[Index(b)])}
  ELSE {FromLimbs(limbs) : limbs \in
          Products([i \in 1 .. NumLimbs |-> TwoBitLookup(b, Column(c, i))])}

(* Variables are negated limb by limb, in the native field.                *)
EThreeBitCondNegLookup(b, b0b1, c) ==
  IF AllConstant(b) /\ b0b1.constant
  THEN {Const(E!Red(IF b[3].value = 1 THEN - c[Index(b)] ELSE c[Index(b)]))}
  ELSE {FromLimbs(limbs) : limbs \in
          Products([i \in 1 .. NumLimbs |-> ThreeBitCondNegLookup(b, b0b1, Column(c, i))])}

EFromBoolean(b) == IF b.constant THEN b ELSE ESelect(b, One, Zero)

(* A constant has as many bits as the modulus, a variable as its limbs.    *)
EToBits(a) ==
  LET width == BitLength(T)
  IN IF a.constant THEN {[i \in 1 .. width |-> Const(BitsOf(a.value, width)[i])]}
     ELSE {w \in Words(NumLimbs * LimbBits) :
             /\ E!Red(WordValue(w) - a.value) = 0
             /\ EnforceSmallerOrEqualThanLe(w, T - 1)}

-----------------------------------------------------------------------------
(* Programs.                                                               *)

Init ==
  /\ regs \in [R -> [constant : BOOLEAN, value : E!Fp]]
  /\ want = [i \in R |-> regs[i].value]
  /\ BitInit

x == regs[1]
y == regs[2]

(* As in NativeFp: claim is what the call requires of its operands.        *)
Put(name, results, claim, meaning) ==
  /\ Finish(name, results # {}, claim)
  /\ \/ \E r \in results : regs' = [regs EXCEPT ![1] = r]
     \/ results = {} /\ UNCHANGED regs
  /\ want' = [want EXCEPT ![1] = IF claim THEN E!Red(meaning) ELSE regs'[1].value]
  /\ UNCHANGED <<bits, wantBits>>

PutBit(results, meaning) ==
  /\ Finish("op", results # {}, TRUE)
  /\ \/ \E r \in results : bits' = [bits EXCEPT ![1] = r]
     \/ results = {} /\ UNCHANGED bits
  /\ wantBits' = [wantBits EXCEPT ![1] = IF meaning THEN 1 ELSE 0]
  /\ UNCHANGED <<regs, want>>

Enforce(holds, claim) ==
  /\ Finish("enforce", holds, claim)
  /\ UNCHANGED <<regs, want, bits, wantBits>>

Swap ==
  /\ regs' = <<regs[2], regs[1]>> /\ want' = <<want[2], want[1]>>
  /\ UNCHANGED bitVars

AddOf == \E j \in R : Put("op", {EAdd(x, regs[j])}, TRUE, want[1] + want[j])

SubOf == \E j \in R : Put("op", {ESub(x, regs[j])}, TRUE, want[1] - want[j])

NegateOf == Put("op", {ENegate(x)}, TRUE, - want[1])

MulOf == \E j \in R : Put("op", {EMul(x, regs[j])}, TRUE, want[1] * want[j])

MulElementOf == \E k \in E!Fp : Put("op", {EMulElement(x, k)}, TRUE, want[1] * k)

(* Zero as a constant is inverted to zero, which nothing refuses.          *)
InverseOf ==
  Put(IF x.constant THEN "constants" ELSE "op", EInverse(x), want[1] # 0, E!FInverse(want[1]))

MulByInverseOf ==
  Put("op", EMulByInverse(x, y), want[2] # 0, want[1] * E!FInverse(want[2]))

(* reduce of the sum of two products and an element.                       *)
SumOfProductsOf ==
  \E weight \in BOOLEAN :
    Put(IF EMulWithoutReduce(x, y, weight) = {} THEN "constant_first" ELSE "op",
        {EAdd(EAdd(p, q), x) : p \in EMulWithoutReduce(x, y, weight),
                               q \in EMulWithoutReduce(y, y, weight)},
        TRUE, want[1] * want[2] + want[2] * want[2] + want[1])

FromBit == Put("op", {EFromBoolean(bits[1])}, TRUE, wantBits[1])

SelectOf ==
  Put("op", {ESelect(bits[1], x, y)}, TRUE, IF wantBits[1] = 1 THEN want[1] ELSE want[2])

TwoBitLookupOf ==
  \E c \in Tables, b \in Bits :
    Put("op", ETwoBitLookup(<<bits[1], b>>, c), TRUE, c[1 + wantBits[1] + 2 * b.value])

(* A variable that is negated stands for another element: not claimed.     *)
ThreeBitLookupOf ==
  \E c \in Tables, b, negate \in Bits : \E b0b1 \in And(bits[1], b) :
    Put("negated", EThreeBitCondNegLookup(<<bits[1], b, negate>>, b0b1, c),
        negate.value = 0 \/ AllConstant(<<bits[1], b, negate, b0b1>>),
        (1 - 2 * negate.value) * c[1 + wantBits[1] + 2 * b.value])

IsEqOf == PutBit(EIsEq(x, y), want[1] = want[2])

ToBitsOf ==
  \E i \in 1 .. NumLimbs * LimbBits :
    /\ \A w \in EToBits(x) : i \in DOMAIN w
    /\ PutBit({w[i] : w \in EToBits(x)}, BitsOf(want[1], NumLimbs * LimbBits)[i] = 1)

EnforceEqualIf ==
  Enforce(EConditionalEnforceEqual(x, y, bits[1]), wantBits[1] = 1 => want[1] = want[2])

EnforceNotEqualIf ==
  Enforce(EConditionalEnforceNotEqual(x, y, bits[1]), wantBits[1] = 1 => want[1] # want[2])

EnforceMulEquals ==
  \E i, j, k \in R :
    Enforce(EMulEquals(regs[i], regs[j], regs[k]), E!Red(want[i] * want[j]) = want[k])

(* Calls that do not read the bit are made beside one value of it.         *)
ElementCall ==
  /\ bits[1] = Const(0)
  /\ \/ Swap \/ AddOf \/ SubOf \/ NegateOf \/ MulOf \/ MulElementOf \/ InverseOf
     \/ MulByInverseOf \/ SumOfProductsOf \/ IsEqOf \/ ToBitsOf \/ EnforceMulEquals

BitCall ==
  \/ FromBit \/ SelectOf \/ TwoBitLookupOf \/ ThreeBitLookupOf
  \/ EnforceEqualIf \/ EnforceNotEqualIf

Next == Running /\ (ElementCall \/ BitCall)

-----------------------------------------------------------------------------
(* Properties, with BitsAreMeant of BooleanGadgets.                        *)

(* After any program a register is the element the program means, also     *)
(* where operations mixed constants and variables.                         *)
FieldValuesAreMeant == Running => \A i \in R : regs[i].value = want[i]

(* Operations on legal operands and enforcements of a truth go through,    *)
(* and no others.  Not claimed: the inverse of a constant, products of a   *)
(* constant and a variable under the goal of least weight.                 *)
CallsAreExact == last \in {"new", "op", "enforce"} => (outcome = "ok" <=> meant)
=============================================================================
