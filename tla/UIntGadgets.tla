----------------------------- MODULE UIntGadgets -----------------------------
(***************************************************************************)
(* Programs over unsigned integers, in the manner of NativeFp: two         *)
(* registers and a bit that comparisons set and selections use.            *)
(***************************************************************************)
EXTENDS UIntOps

VARIABLES regs, want, bit, wantBit, last, outcome, meant

vars == <<regs, want, bit, wantBit, last, outcome, meant>>

R == 1 .. 2

Values == 0 .. UIntMax

NewVariable(v) == UInt([i \in 1 .. N |-> Alloc(BitsOf(v, N)[i])], v)

Init ==
  /\ want \in [R -> Values]
  /\ \E constants \in [R -> BOOLEAN] :
       regs = [i \in R |-> IF constants[i] THEN UConstant(want[i]) ELSE NewVariable(want[i])]
  /\ bit \in Bits /\ wantBit = bit.value
  /\ last = "new" /\ outcome = "ok" /\ meant = TRUE

-----------------------------------------------------------------------------
Running == outcome = "ok"

Finish(name, holds, claim) ==
  /\ outcome' = IF holds THEN "ok" ELSE "rejected"
  /\ meant' = claim
  /\ last' = IF holds /\ claim THEN "new" ELSE name

Put(name, results, claim, meaning) ==
  /\ Running
  /\ Finish(name, results # {}, claim)
  /\ \/ \E r \in results : regs' = [regs EXCEPT ![1] = r]
     \/ results = {} /\ UNCHANGED regs
  /\ want' = [want EXCEPT ![1] = IF claim THEN meaning ELSE WordValue(regs'[1].bits)]
  /\ UNCHANGED <<bit, wantBit>>

PutBit(results, claim, meaning) ==
  /\ Running
  /\ Finish("op", results # {}, claim)
  /\ \/ bit' \in results
     \/ results = {} /\ UNCHANGED bit
  /\ wantBit' = IF ~ claim THEN bit'.value ELSE IF meaning THEN 1 ELSE 0
  /\ UNCHANGED <<regs, want>>

Enforce(name, holds, claim) ==
  /\ Running
  /\ Finish(name, holds, claim)
  /\ UNCHANGED <<regs, want, bit, wantBit>>

Swap ==
  /\ Running
  /\ regs' = <<regs[2], regs[1]>> /\ want' = <<want[2], want[1]>>
  /\ UNCHANGED <<bit, wantBit, last, outcome, meant>>

-----------------------------------------------------------------------------
x == regs[1]
y == regs[2]

AndOf == Put("op", UAnd(x, y), TRUE, MachineAnd(want[1], want[2]))

OrOf == Put("op", UOr(x, y), TRUE, MachineOr(want[1], want[2]))

XorOf == Put("op", UXor(x, y), TRUE, MachineXor(want[1], want[2]))

NotOf == Put("op", {UNot(x)}, TRUE, UIntMax - want[1])

(* Rotations turn the number, shifts multiply and divide it.               *)
RotateRightOf ==
  \E by \in 0 .. N + 1 :
    Put("op", {RotateRight(x, by)}, TRUE,
        CHOOSE v \in Values : \A i \in 0 .. N - 1 :
          BitsOf(v, N)[1 + i] = BitsOf(want[1], N)[1 + ((i + by) % N)])

RotateLeftOf ==
  \E by \in 0 .. N + 1 :
    Put("op", {RotateLeft(x, by)}, TRUE,
        CHOOSE v \in Values : \A i \in 0 .. N - 1 :
          BitsOf(v, N)[1 + ((i + by) % N)] = BitsOf(want[1], N)[1 + i])

ShlOf == \E by \in 0 .. N : Put("op", Shl(x, by), by < N, (want[1] * Pow2[by]) % Pow2[N])

ShrOf == \E by \in 0 .. N : Put("op", Shr(x, by), by < N, want[1] \div Pow2[by])

SelectOf ==
  \E i, j \in R :
    Put("op", USelect(bit, regs[i], regs[j]), TRUE, IF wantBit = 1 THEN want[i] ELSE want[j])

(* Up to four operands, the registers in turn.                             *)
Operands(f, n) == [i \in 1 .. n |-> f[1 + (i % 2)]]

Total(n) == (n \div 2) * want[1] + (n - n \div 2) * want[2]

(* What one addition is asked to hold in a field element.                  *)
SumFits(n) ==
  \/ IsConstant(Operands(regs, n)) /\ MaxValueSize(n) <= ModulusBits
  \/ n = 1 /\ N <= ModulusBits
  \/ MaxValueSize(n) < ModulusBits

WrappingAddOf ==
  \E n \in 1 .. 4 :
    Put("op", WrappingAddMany(Operands(regs, n)), SumFits(n), Total(n) % Pow2[N])

SaturatingAddOf ==
  \E n \in 1 .. 4 :
    Put("op", SaturatingAddMany(Operands(regs, n)), SumFits(n),
        IF Total(n) > UIntMax THEN UIntMax ELSE Total(n))

(* The sum as a field element and back, if it is small enough.             *)
FromFpOf ==
  LET fits == N < ModulusBits /\ Red(want[1] + want[2]) <= UIntMax
  IN Put(IF IsConstant(regs) THEN "constants" ELSE "op",
         UNION {FromFp(Add(p, q)) : p \in ToFp(x), q \in ToFp(y)},
         fits, Red(want[1] + want[2]))

IsEqOf == PutBit(UIsEq(x, y), TRUE, want[1] = want[2])

IsGeOf == PutBit(UIsGe(x, y), N + 1 < ModulusBits - 1, want[1] >= want[2])

SomeConstantChunk ==
  \E k \in DOMAIN Chunks(x) : AllConstant(Chunks(x)[k]) /\ AllConstant(Chunks(y)[k])

EnforceEqualIf ==
  Enforce(IF SomeConstantChunk THEN "constants" ELSE "enforce",
          UConditionalEnforceEqual(x, y, bit), wantBit = 1 => want[1] = want[2])

EnforceNotEqualIf ==
  Enforce(CASE SomeConstantChunk -> "constants"
            [] ~ SomeConstantChunk /\ ChunkCount > 1 -> "chunks"
            [] OTHER -> "enforce",
          UConditionalEnforceNotEqual(x, y, bit), wantBit = 1 => want[1] # want[2])

Next ==
  \/ Swap \/ AndOf \/ OrOf \/ XorOf \/ NotOf \/ RotateRightOf \/ RotateLeftOf
  \/ ShlOf \/ ShrOf \/ SelectOf \/ WrappingAddOf \/ SaturatingAddOf \/ FromFpOf
  \/ IsEqOf \/ IsGeOf \/ EnforceEqualIf \/ EnforceNotEqualIf

Spec == Init /\ [][Next]_vars

-----------------------------------------------------------------------------
(* Properties.                                                             *)

(* The bits, which the circuit sees, are those of the number that the      *)
(* program means, whatever the prover chose.                               *)
NumbersAreMeant ==
  outcome = "ok" => /\ \A i \in R : WordValue(regs[i].bits) = want[i]
                    /\ bit.value = wantBit

(* The machine value, which later operations and the caller read, never    *)
(* parts from the bits: value() asserts it.                                *)
CacheAgrees == \A i \in R : regs[i].value = WordValue(regs[i].bits)

(* Operations go through exactly when their operands are in range, and     *)
(* enforcements exactly when they are true.                                *)
CallsAreExact == last \in {"new", "op", "enforce"} => (outcome = "ok" <=> meant)

(* A statement of a comment the code does not meet: "If should_enforce ==  *)
(* true, enforce that self and other are not equal", here for integers of  *)
(* several chunks.                                                         *)
NotEqualIsOfTheWhole == last = "chunks" => (outcome = "ok" <=> meant)
=============================================================================
