------------------------------ MODULE NativeFp ------------------------------
(***************************************************************************)
(* Programs over native field variables and bits, in the manner of         *)
(* BooleanGadgets: regs are what the constraints admit, want what they     *)
(* should be; an enforcement that cannot hold ends the program.  The bits  *)
(* together are also a word of as many bits as the modulus.                *)
(***************************************************************************)
EXTENDS BooleanGadgets, FpOps

CONSTANT Tables  \* of the lookups: sequences of four elements

(* The bits are a word as long as the modulus.                             *)
WordsAllowed == OperandsAllowed /\ ModulusBits = N

VARIABLES regs, want

vars == <<bitVars, regs, want>>

R == 1 .. 2

Init ==
  /\ regs \in [R -> [constant : BOOLEAN, value : Fp]]
  /\ want = [i \in R |-> regs[i].value]
  /\ BitInit

-----------------------------------------------------------------------------
(* Steps.                                                                  *)

(* Operations on bits do not read the field variables; they are taken      *)
(* beside one value of them.                                               *)
BitOf ==
  /\ regs = [i \in R |-> Const(0)]
  /\ BitNext
  /\ UNCHANGED <<regs, want>>

(* A field element of results goes to register 1; claim is what the call   *)
(* requires of its operands, without which its result has no meaning.      *)
Put(name, results, claim, meaning) ==
  /\ Running
  /\ Finish(name, results # {}, claim)
  /\ \/ \E r \in results : regs' = [regs EXCEPT ![1] = r]
     \/ results = {} /\ UNCHANGED regs
  /\ want' = [want EXCEPT ![1] = IF claim THEN Red(meaning) ELSE regs'[1].value]
  /\ UNCHANGED <<bits, wantBits>>

PutBit(name, results, claim, meaning) ==
  /\ Running
  /\ Finish(name, results # {}, claim)
  /\ \/ \E r \in results : bits' = [bits EXCEPT ![1] = r]
     \/ results = {} /\ UNCHANGED bits
  /\ wantBits' = [wantBits EXCEPT ![1] = IF ~ claim THEN bits'[1].value
                                         ELSE IF meaning THEN 1 ELSE 0]
  /\ UNCHANGED <<regs, want>>

PutWord(name, words, claim, meaning(_)) ==
  /\ Running
  /\ Finish(name, words # {}, claim)
  /\ \/ \E w \in words : bits' = w /\ wantBits' = (IF claim THEN meaning(w) ELSE [i \in W |-> w[i].value])
     \/ words = {} /\ UNCHANGED <<bits, wantBits>>
  /\ UNCHANGED <<regs, want>>

Enforce(name, holds, claim) ==
  /\ Running
  /\ Finish(name, holds, claim)
  /\ UNCHANGED <<regs, want, bits, wantBits>>

Swap ==
  /\ Running
  /\ regs' = <<regs[2], regs[1]>> /\ want' = <<want[2], want[1]>>
  /\ UNCHANGED <<bits, wantBits, last, outcome, meant>>

-----------------------------------------------------------------------------
(* Operations on register 1, with register 2 or itself.                    *)

x == regs[1]
y == regs[2]

AddOf == \E j \in R : Put("op", {Add(x, regs[j])}, TRUE, want[1] + want[j])

SubOf == \E j \in R : Put("op", {Sub(x, regs[j])}, TRUE, want[1] - want[j])

NegateOf == Put("op", {Negate(x)}, TRUE, - want[1])

DoubleOf == Put("op", {Double(x)}, TRUE, 2 * want[1])

MulOf == \E j \in R : Put("op", Mul(x, regs[j]), TRUE, want[1] * want[j])

MulElementOf == \E k \in Fp : Put("op", MulElement(x, k), TRUE, want[1] * k)

SquareOf == Put("op", Square(x), TRUE, want[1] * want[1])

InverseOf == Put("op", FpInverse(x), want[1] # 0, Inverse0(want[1]))

(* The check of the divisor compares two constants for a constant one.     *)
MulByInverseOf ==
  Put(IF y.constant THEN "unchecked" ELSE "op", MulByInverse(x, y), want[2] # 0,
      want[1] * Inverse0(want[2]))

InnerProductOf ==
  Put("op", InnerProduct(<<x, y>>, <<y, x>>), TRUE, 2 * want[1] * want[2])

FromBit == Put("op", {bits[1]}, TRUE, wantBits[1])

SelectOf ==
  \E i, j \in R : Put("op", FpSelect(bits[1], regs[i], regs[j]), TRUE,
                      IF wantBits[1] = 1 THEN want[i] ELSE want[j])

TwoBitLookupOf ==
  \E c \in Tables : Put("op", TwoBitLookup(SubSeq(bits, 1, 2), c), TRUE,
                        c[1 + wantBits[1] + 2 * wantBits[2]])

ThreeBitLookupOf ==
  \E c \in Tables : \E b0b1 \in And(bits[1], bits[2]) :
    Put("op", ThreeBitCondNegLookup(bits, b0b1, c), TRUE,
        (1 - 2 * wantBits[3]) * c[1 + wantBits[1] + 2 * wantBits[2]])

(* A word that names no element of the field is refused; a constant one is *)
(* reduced.                                                                *)
FromWord ==
  LET n == WordValue(bits)
  IN Put("op", LeBitsToFp(bits), n < P \/ AllConstant(bits), n)

IsEqOf == PutBit("op", FpIsEq(x, y), TRUE, want[1] = want[2])

IsNeqOf == PutBit("op", {Not(r) : r \in FpIsEq(x, y)}, TRUE, want[1] # want[2])

Upper == (P - 1) \div 2

InRange == want[1] <= Upper /\ want[2] <= Upper

(* The side that one is added to when equality is to pass.                 *)
Beyond(less, orEqual) == orEqual /\ want[IF less THEN 2 ELSE 1] \in {Upper, P - 1}

Compared(less, orEqual) ==
  \/ IF less THEN want[1] < want[2] ELSE want[2] < want[1]
  \/ orEqual /\ want[1] = want[2]

IsCmpOf ==
  \E less, orEqual \in BOOLEAN :
    PutBit(IF Beyond(less, orEqual) THEN "edge" ELSE "op",
           IsCmp(x, y, less, orEqual), InRange, Compared(less, orEqual))

(* The range is left to the caller.                                        *)
IsCmpUncheckedOf ==
  \E less, orEqual \in BOOLEAN :
    PutBit("unchecked", IsCmpUnchecked(x, y, less, orEqual),
           InRange /\ ~ Beyond(less, orEqual), Compared(less, orEqual))

ToBitsOf == PutWord("op", ToBits(x), TRUE, LAMBDA w : BitsOf(want[1], ModulusBits))

ToNonUniqueBitsOf ==
  PutWord("op", ToNonUniqueBits(x), TRUE, LAMBDA w : [i \in W |-> w[i].value])

(* The two lower bits, under a top bit that is the constant zero.          *)
TopBitsZeroOf ==
  PutWord(IF x.constant THEN "unchecked" ELSE "op",
          {Append(w, FALSEBit) : w \in ToBitsWithTopBitsZero(x, ModulusBits - 1)},
          want[1] < Pow2[ModulusBits - 1],
          LAMBDA w : [BitsOf(want[1], ModulusBits) EXCEPT ![ModulusBits] = 0])

-----------------------------------------------------------------------------
(* Enforcements.                                                           *)

Between(a, b) == IF a.constant /\ b.constant THEN "constants" ELSE "enforce"

EnforceEqualIf ==
  Enforce(Between(x, y), FpConditionalEnforceEqual(x, y, bits[1]),
          wantBits[1] = 1 => want[1] = want[2])

EnforceNotEqualIf ==
  Enforce(Between(x, y), FpConditionalEnforceNotEqual(x, y, bits[1]),
          wantBits[1] = 1 => want[1] # want[2])

EnforceMulEquals ==
  \E i, j, k \in R :
    Enforce(IF Between(regs[i], regs[j]) = "constants" THEN Between(regs[i], regs[k])
              ELSE "enforce",
            MulEquals(regs[i], regs[j], regs[k]), Red(want[i] * want[j]) = want[k])

EnforceSquareEquals ==
  Enforce(IF x.constant /\ y.constant THEN "constants"
          ELSE IF x.constant \/ y.constant THEN "square_with_constant" ELSE "enforce",
          SquareEquals(x, y), Red(want[1] * want[1]) = want[2])

EnforceCmpOf ==
  \E less, orEqual \in BOOLEAN :
    Enforce(IF Beyond(less, orEqual) THEN "edge" ELSE "enforce",
            EnforceCmp(IsCmp(x, y, less, orEqual)), InRange /\ Compared(less, orEqual))

EnforceCmpUncheckedOf ==
  \E less, orEqual \in BOOLEAN :
    /\ InRange /\ ~ Beyond(less, orEqual)
    /\ Enforce("enforce", EnforceCmp(IsCmpUnchecked(x, y, less, orEqual)),
               Compared(less, orEqual))

Next ==
  \/ BitOf \/ Swap \/ AddOf \/ SubOf \/ NegateOf \/ DoubleOf \/ MulOf \/ MulElementOf \/ SquareOf
  \/ InverseOf \/ MulByInverseOf \/ InnerProductOf \/ FromBit \/ SelectOf
  \/ TwoBitLookupOf \/ ThreeBitLookupOf \/ FromWord
  \/ IsEqOf \/ IsNeqOf \/ IsCmpOf \/ IsCmpUncheckedOf \/ ToBitsOf \/ ToNonUniqueBitsOf \/ TopBitsZeroOf
  \/ EnforceEqualIf \/ EnforceNotEqualIf \/ EnforceMulEquals \/ EnforceSquareEquals
  \/ EnforceCmpOf \/ EnforceCmpUncheckedOf

Spec == Init /\ [][Next]_vars

-----------------------------------------------------------------------------
(* Properties.                                                             *)

(* After any program the registers are what they were meant to be,         *)
(* whatever the prover chose; a call on operands it does not accept says   *)
(* nothing about them.                                                     *)
FieldValuesAreMeant == Running => \A i \in R : regs[i].value = want[i]

(* An honest prover gets through every operation on legal operands and     *)
(* every enforcement of a truth, and nobody through any other.  Not        *)
(* claimed: conditions on bits that are switched off by a variable, words  *)
(* shorter than the constant they are compared with, is_ge on slices,      *)
(* calls that compare constants of the circuit, square_equals with one     *)
(* constant, and comparisons at the upper bound of their range.            *)
CallsAreExact == last \in {"new", "op", "enforce"} => (outcome = "ok" <=> meant)
=============================================================================
