---------------------------- MODULE ExtensionVars ---------------------------
(***************************************************************************)
(* Programs over variables of an extension of the native field, Fp2Var or  *)
(* Fp3Var, in the manner of NativeFp: a register is the sequence of its    *)
(* coefficients, each a constant or a variable of its own.                 *)
(***************************************************************************)
EXTENDS BooleanGadgets, FpOps

LOCAL INSTANCE SequencesExt

CONSTANTS
  D, NR,     \* the extension has degree D, by the root of NR
  Elements,  \* the elements that calls are made on
  Tables     \* of the lookups: sequences of four sequences of field elements

VARIABLES regs, want

vars == <<bitVars, regs, want>>

R == 1 .. 2

Coordinates == 1 .. D

(* A coefficient of each degree.                                           *)
Coefficients(of(_)) == SubSeq([j \in Coordinates |-> of(j)], 1, D)

-----------------------------------------------------------------------------
(* The operations of QuadExt and CubicExt over FpVar, whose product admits *)
(* one result.                                                             *)

Only(S) == CHOOSE r \in S : TRUE

Product(a, b) == Only(Mul(a, b))

Scaled(a, k) == Only(MulElement(a, k))

Frobenius(a, power) == a

(* Constants are inverted by the values they have.                         *)
ValueInverse(a) == [a EXCEPT !.value = Inverse0(a.value)]

Coefficient(j, power) == FPow(FPow(NR, (P - 1) \div D), j * power)

X == INSTANCE ExtField WITH
       BaseZero <- Const(0), BaseOne <- Const(1), BaseAdd <- Add, BaseSub <- Sub,
       BaseNegate <- Negate, BaseMul <- Product, BaseScale <- Scaled, BaseMulEquals <- MulEquals,
       BaseInverse <- ValueInverse, BaseFrobenius <- Frobenius, Nonresidue <- NR

IsConstant(a) == \A j \in Coordinates : a[j].constant

XWitnesses == {[j \in Coordinates |-> Alloc(v[j])] : v \in [Coordinates -> Fp]}

(* The sequences of one result for each coefficient.                       *)
Coefficientwise(sets) == Products([j \in Coordinates |-> sets[j]])

(* mul_equals compares nothing for a constant, not even that of zero.      *)
XInverse(a) ==
  IF IsConstant(a) THEN IF X!MulEquals(a, X!InverseValue(a), X!One) THEN {X!InverseValue(a)} ELSE {}
  ELSE {r \in XWitnesses : X!MulEquals(a, r, X!One)}

(* Mutant: the equality of one coefficient will do.                        *)
XIsEqInFirst(a, b) == FpIsEq(a[1], b[1])

XIsEq(a, b) ==
  LET equal == Coefficientwise([j \in Coordinates |-> FpIsEq(a[j], b[j])])
  IN Then(equal, LAMBDA e : FoldLeft(LAMBDA S, q : Then(S, LAMBDA s : And(s, q)), {e[1]}, Tail(e)))

XConditionalEnforceEqual(a, b, cond) ==
  \A j \in Coordinates : FpConditionalEnforceEqual(a[j], b[j], cond)

XConditionalEnforceNotEqual(a, b, cond) ==
  \E e \in XIsEq(a, b) : \E both \in And(e, cond) : EnforceEqual(both, FALSEBit)

XSquareEquals(a, r) == XConditionalEnforceEqual(r, X!Square(a), TRUEBit)

XMulByInverse(a, d) ==
  IF ~ XConditionalEnforceNotEqual(d, X!Zero, TRUEBit) THEN {}
  ELSE IF IsConstant(a) /\ IsConstant(d) THEN {X!Mul(a, X!InverseValue(d))}
  ELSE {r \in XWitnesses : X!MulEquals(r, d, a)}

XSum(xs) == Coefficients(LAMBDA j : SumOf([i \in DOMAIN xs |-> xs[i][j]]))

XInnerProduct(xs, ys) == XSum([i \in DOMAIN xs |-> X!Mul(xs[i], ys[i])])

XSelect(cond, t, f) == Coefficientwise([j \in Coordinates |-> FpSelect(cond, t[j], f[j])])

XFromBoolean(b) == Coefficients(LAMBDA j : IF j = 1 THEN b ELSE Const(0))

(* The entries' coefficients of one degree.                                *)
Column(c, j) == [i \in DOMAIN c |-> c[i][j]]

XTwoBitLookup(b, c) ==
  Coefficientwise([j \in Coordinates |-> TwoBitLookup(b, Column(c, j))])

XThreeBitCondNegLookup(b, b0b1, c) ==
  Coefficientwise([j \in Coordinates |-> ThreeBitCondNegLookup(b, b0b1, Column(c, j))])

(* The bits of the coefficients in a row.                                  *)
XToBits(a) ==
  {FoldLeft(LAMBDA s, w : s \o w, << >>, words) :
     words \in Coefficientwise([j \in Coordinates |-> ToBits(a[j])])}

-----------------------------------------------------------------------------
(* Powers: default methods of every field variable.                        *)

PowLe(a, exponent) ==
  LET step(s, bit) == [res   |-> Only(XSelect(bit, X!Mul(s.res, s.power), s.res)),
                       power |-> X!Square(s.power)]
  IN FoldLeft(step, [res |-> X!One, power |-> a], exponent).res

PowByConstant(a, n) ==
  FoldLeft(LAMBDA res, digit : LET squared == X!Square(res)
                               IN IF digit = 1 THEN X!Mul(squared, a) ELSE squared,
           X!One, BigEndian(n))

-----------------------------------------------------------------------------
(* What operations mean: arithmetic of polynomials modulo w^D - NR.        *)

Values == [Coordinates -> Fp]

ValueOf(a) == Coefficients(LAMBDA j : a[j].value)

Embed(n) == Coefficients(LAMBDA j : IF j = 1 THEN Red(n) ELSE 0)

Plus(u, v) == Coefficients(LAMBDA j : Red(u[j] + v[j]))

Minus(u, v) == Coefficients(LAMBDA j : Red(u[j] - v[j]))

Times(u, v) ==
  LET term(i, j) == LET k == 1 + ((j - i + D) % D)
                    IN u[i] * v[k] * (IF i + k = j + 1 THEN 1 ELSE NR)
  IN Coefficients(LAMBDA j :
       Red(FoldFunction(LAMBDA m, n : m + n, 0, [i \in Coordinates |-> term(i, j)])))

Power(u, n) ==
  LET pow[k \in 0 .. n] == IF k = 0 THEN Embed(1)
                           ELSE LET h == pow[k \div 2]
                                IN IF k % 2 = 0 THEN Times(h, h) ELSE Times(Times(h, h), u)
  IN pow[n]

(* The multiplicative group has P^D - 1 elements; zero for zero.           *)
Inverted == [u \in Values |-> Power(u, P ^ D - 2)]

PthPower == [u \in Values |-> Power(u, P)]

-----------------------------------------------------------------------------
(* Programs.                                                               *)

Init ==
  /\ regs \in [R -> Elements]
  /\ want = [i \in R |-> ValueOf(regs[i])]
  /\ BitInit

x == regs[1]
y == regs[2]

(* As in NativeFp: claim is what the call requires of its operands.        *)
Put(name, results, claim, meaning) ==
  /\ Finish(name, results # {}, claim)
  /\ \/ \E r \in results : regs' = [regs EXCEPT ![1] = r]
     \/ results = {} /\ UNCHANGED regs
  /\ want' = [want EXCEPT ![1] = IF claim THEN meaning ELSE ValueOf(regs'[1])]
  /\ UNCHANGED <<bits, wantBits>>

PutBit(results, meaning) ==
  /\ Finish("op", results # {}, TRUE)
  /\ \/ \E r \in results : bits' = [bits EXCEPT ![1] = r]
     \/ results = {} /\ UNCHANGED bits
  /\ wantBits' = [wantBits EXCEPT ![1] = IF meaning THEN 1 ELSE 0]
  /\ UNCHANGED <<regs, want>>

Enforce(name, holds, claim) ==
  /\ Finish(name, holds, claim)
  /\ UNCHANGED <<regs, want, bits, wantBits>>

Swap ==
  /\ regs' = <<regs[2], regs[1]>> /\ want' = <<want[2], want[1]>>
  /\ UNCHANGED bitVars

AddOf == \E j \in R : Put("op", {X!Add(x, regs[j])}, TRUE, Plus(want[1], want[j]))

SubOf == \E j \in R : Put("op", {X!Sub(x, regs[j])}, TRUE, Minus(want[1], want[j]))

NegateOf == Put("op", {X!Negate(x)}, TRUE, Minus(Embed(0), want[1]))

DoubleOf == Put("op", {X!Double(x)}, TRUE, Plus(want[1], want[1]))

MulOf == Put("op", {X!Mul(x, y)}, TRUE, Times(want[1], want[2]))

SquareOf == Put("op", {X!Square(x)}, TRUE, Times(want[1], want[1]))

MulByConstantOf ==
  \E k \in Fp : Put("op", {X!MulByBaseFieldConstant(x, k)}, TRUE, Times(want[1], Embed(k)))

InnerProductOf ==
  Put("op", {XInnerProduct(<<x, y>>, <<y, x>>)}, TRUE,
      LET p == Times(want[1], want[2]) IN Plus(p, p))

FrobeniusOf ==
  \E n \in 0 .. 2 * D - 1 :
    Put("op", {X!FrobeniusMap(x, n)}, TRUE,
        FoldLeft(LAMBDA u, j : PthPower[u], want[1], [j \in 1 .. n |-> j]))

UnitaryInverseOf ==
  D = 2 /\ Put("op", {X!UnitaryInverse(x)}, TRUE, PthPower[want[1]])

(* Zero as a constant is inverted to zero, which nothing refuses.          *)
InverseOf ==
  Put(IF IsConstant(x) THEN "constants" ELSE "op", XInverse(x), want[1] # Embed(0),
      Inverted[want[1]])

MulByInverseOf ==
  Put("op", XMulByInverse(x, y), want[2] # Embed(0), Times(want[1], Inverted[want[2]]))

FromBit == Put("op", {XFromBoolean(bits[1])}, TRUE, Embed(wantBits[1]))

SelectOf ==
  Put("op", XSelect(bits[1], x, y), TRUE, IF wantBits[1] = 1 THEN want[1] ELSE want[2])

(* The other bits of an index and of an exponent are any.                  *)
TwoBitLookupOf ==
  \E c \in Tables, b \in Bits :
    Put("op", XTwoBitLookup(<<bits[1], b>>, c), TRUE, c[1 + wantBits[1] + 2 * b.value])

ThreeBitLookupOf ==
  \E c \in Tables, b, negate \in Bits : \E b0b1 \in And(bits[1], b) :
    Put("op", XThreeBitCondNegLookup(<<bits[1], b, negate>>, b0b1, c), TRUE,
        LET entry == c[1 + wantBits[1] + 2 * b.value]
        IN IF negate.value = 1 THEN Minus(Embed(0), entry) ELSE entry)

PowLeOf ==
  \E b \in Bits : Put("op", {PowLe(x, <<bits[1], b, bits[1]>>)}, TRUE,
                      Power(want[1], 5 * wantBits[1] + 2 * b.value))

PowByConstantOf ==
  \E n \in 0 .. 6 : Put("op", {PowByConstant(x, n)}, TRUE, Power(want[1], n))

IsEqOf == PutBit(XIsEq(x, y), want[1] = want[2])

ToBitsOf ==
  LET width == ModulusBits
  IN \E j \in Coordinates, i \in 1 .. width :
       PutBit({w[(j - 1) * width + i] : w \in XToBits(x)}, BitsOf(want[1][j], width)[i] = 1)

(* Coefficients that are constants on both sides are not compared.         *)
Between(a, b) ==
  IF \E j \in Coordinates : a[j].constant /\ b[j].constant THEN "constants" ELSE "enforce"

EnforceEqualIf ==
  Enforce(Between(x, y), XConditionalEnforceEqual(x, y, bits[1]),
          wantBits[1] = 1 => want[1] = want[2])

EnforceNotEqualIf ==
  Enforce("enforce", XConditionalEnforceNotEqual(x, y, bits[1]),
          wantBits[1] = 1 => want[1] # want[2])

EnforceMulEquals ==
  \E i, j, k \in R :
    Enforce(IF IsConstant(regs[i]) /\ IsConstant(regs[j]) THEN Between(regs[i], regs[k])
            ELSE "enforce",
            X!MulEquals(regs[i], regs[j], regs[k]), Times(want[i], want[j]) = want[k])

EnforceSquareEquals ==
  Enforce(Between(X!Square(x), y), XSquareEquals(x, y), Times(want[1], want[1]) = want[2])

(* Calls that do not read the bit are made beside one value of it.         *)
ElementCall ==
  /\ bits[1] = Const(0)
  /\ \/ Swap \/ AddOf \/ SubOf \/ NegateOf \/ DoubleOf \/ MulOf \/ SquareOf \/ MulByConstantOf
     \/ InnerProductOf \/ FrobeniusOf \/ UnitaryInverseOf \/ InverseOf \/ MulByInverseOf
     \/ PowByConstantOf \/ IsEqOf \/ ToBitsOf \/ EnforceMulEquals \/ EnforceSquareEquals

BitCall ==
  \/ FromBit \/ SelectOf \/ TwoBitLookupOf \/ ThreeBitLookupOf \/ PowLeOf
  \/ EnforceEqualIf \/ EnforceNotEqualIf

Next == Running /\ x \in Elements /\ y \in Elements /\ (ElementCall \/ BitCall)

-----------------------------------------------------------------------------
(* Properties, with BitsAreMeant of BooleanGadgets.                        *)

(* After any program every coefficient is that of the element the program  *)
(* means, whatever the prover chose.                                       *)
FieldValuesAreMeant == Running => \A i \in R : ValueOf(regs[i]) = want[i]

(* An honest prover gets through every operation on legal operands and     *)
(* every enforcement of a truth, and nobody through any other.  Not        *)
(* claimed: calls that compare constants of the circuit.                   *)
CallsAreExact == last \in {"new", "op", "enforce"} => (outcome = "ok" <=> meant)
=============================================================================
