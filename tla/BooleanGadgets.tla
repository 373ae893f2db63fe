--------------------------- MODULE BooleanGadgets ---------------------------
(***************************************************************************)
(* Programs over Boolean variables: bits are what the constraints let the  *)
(* variables be, whatever the prover chose, and wantBits what they should  *)
(* be.  An enforcement whose constraints cannot hold, an error and a       *)
(* failed assertion all end the program; meant says whether the last call  *)
(* was asked for something true.  Module NativeFp goes on with variables   *)
(* of the native field.                                                    *)
(***************************************************************************)
EXTENDS BooleanOps

LOCAL INSTANCE SequencesExt

CONSTANTS
  N,           \* how many Boolean variables the program has
  MaxOperands, \* bound on the operands of a k-ary gate and on slices
  MaxElement   \* bound on the constants a word is compared with

(* Fewer operands than the field has elements: their number is one of them. *)
OperandsAllowed == N \in Nat \ {0} /\ MaxOperands \in Nat /\ MaxOperands < P

VARIABLES bits, wantBits, last, outcome, meant

bitVars == <<bits, wantBits, last, outcome, meant>>

W == 1 .. N

(* Allocation, with the booleanity check unless constant.                  *)
NewVariable(v) == {Const(v)} \cup {Alloc(r) : r \in {r \in {v} : Red((1 - r) * r) = 0}}

BitInit ==
  /\ wantBits \in [W -> {0, 1}]
  /\ bits \in {f \in [W -> Bits] : \A i \in W : f[i] \in NewVariable(wantBits[i])}
  /\ last = "new" /\ outcome = "ok" /\ meant = TRUE

Running == outcome = "ok"

(* A call ends: last names it if it did not go through or should not have. *)
Finish(name, holds, claim) ==
  /\ outcome' = IF holds THEN "ok" ELSE "rejected"
  /\ meant' = claim
  /\ last' = IF holds /\ claim THEN "new" ELSE name

-----------------------------------------------------------------------------
(* Operations: a variable for the result, the admissible results and the   *)
(* result meant.                                                           *)

PutAt(k, results, meaning) ==
  /\ Running
  /\ Finish("op", results # {}, TRUE)
  /\ \/ \E r \in results : bits' = [bits EXCEPT ![k] = r]
     \/ results = {} /\ UNCHANGED bits
  /\ wantBits' = [wantBits EXCEPT ![k] = IF meaning THEN 1 ELSE 0]

True(i) == wantBits[i] = 1

NotInPlace == \E i \in W : PutAt(i, {Not(bits[i])}, ~ True(i))

BitAnd == \E i, j \in W : PutAt(i, And(bits[i], bits[j]), True(i) /\ True(j))

BitOr == \E i, j \in W : PutAt(i, Or(bits[i], bits[j]), True(i) \/ True(j))

BitXor == \E i, j \in W : PutAt(i, Xor(bits[i], bits[j]), True(i) # True(j))

BitNand == \E i, j \in W : PutAt(i, Nand(bits[i], bits[j]), ~ (True(i) /\ True(j)))

BitIsEq == \E i, j \in W : PutAt(i, IsEq(bits[i], bits[j]), True(i) = True(j))

BitIsGe == \E i, j \in W : PutAt(i, IsGe(bits[i], bits[j]), True(j) => True(i))

BitIsGt == \E i, j \in W : PutAt(i, IsGt(bits[i], bits[j]), True(i) /\ ~ True(j))

Allocated(i, j) == ~ bits[i].constant /\ ~ bits[j].constant

BitAndNot ==
  \E i, j \in W : Allocated(i, j) /\ PutAt(i, AndNot(bits[i], bits[j]), True(i) /\ ~ True(j))

BitNor ==
  \E i, j \in W : Allocated(i, j) /\ PutAt(i, Nor(bits[i], bits[j]), ~ (True(i) \/ True(j)))

BitSelect ==
  \E c, i, j \in W :
    PutAt(c, Select(bits[c], bits[i], bits[j]), IF True(c) THEN True(i) ELSE True(j))

(* Operands in a row, each any variable.                                   *)
Positions(n) == [1 .. n -> W]

At(f, b) == [i \in DOMAIN f |-> b[f[i]]]

KaryAndOf ==
  \E n \in 1 .. MaxOperands : \E f \in Positions(n) :
    PutAt(1, KaryAnd(At(f, bits)), \A i \in 1 .. n : True(f[i]))

KaryOrOf ==
  \E n \in 1 .. MaxOperands : \E f \in Positions(n) :
    PutAt(1, KaryOr(At(f, bits)), \E i \in 1 .. n : True(f[i]))

(* Two bits of position among four values.                                 *)
SelectVector ==
  \E f \in Positions(2), g \in Positions(4) :
    PutAt(1, SelectPowerOfTwoVector(At(f, bits), At(g, bits)),
          True(g[1 + wantBits[f[2]] + 2 * wantBits[f[1]]]))

-----------------------------------------------------------------------------
(* Enforcements, named so that the properties can tell them apart: "off"   *)
(* is a condition that is false and is not handled as such.                *)

EnforceBits(name, holds, claim) ==
  /\ Running
  /\ Finish(name, holds, claim)
  /\ UNCHANGED <<bits, wantBits>>

BitEnforceEqualIf ==
  \E i, j, c \in W :
    EnforceBits(IF ~ True(c) /\ ~ bits[c].constant /\ bits[i].constant /\ bits[j].constant
                  THEN "off" ELSE "enforce",
                ConditionalEnforceEqual(bits[i], bits[j], bits[c]),
                True(c) => True(i) = True(j))

BitEnforceNotEqualIf ==
  \E i, j, c \in W :
    EnforceBits(IF ~ True(c) /\ ~ bits[c].constant THEN "off" ELSE "enforce",
                ConditionalEnforceNotEqual(bits[i], bits[j], bits[c]),
                True(c) => True(i) # True(j))

Value(w) ==
  LET v[i \in 0 .. Len(w)] == IF i = 0 THEN 0 ELSE v[i - 1] + w[i] * Pow2[i - 1]
  IN v[Len(w)]

(* A word against a constant that may have more bits.                      *)
EnforceSmaller ==
  \E f \in Positions(MaxOperands), element \in 0 .. MaxElement :
    EnforceBits(IF BitLength(element) > MaxOperands THEN "short" ELSE "enforce",
                EnforceSmallerOrEqualThanLe(At(f, bits), element),
                Value(At(f, wantBits)) <= element)

(* Two slices of half the operands each.                                   *)
Half == MaxOperands \div 2

Pairs == Positions(Half) \X Positions(Half)

SlicesEqual ==
  \E p \in Pairs :
    PutAt(1, SliceIsEq(At(p[1], bits), At(p[2], bits)), At(p[1], wantBits) = At(p[2], wantBits))

ConstantPair(p) == \E i \in 1 .. Half : bits[p[1][i]].constant /\ bits[p[2][i]].constant

AllConstantPair(p) == \A i \in 1 .. Half : bits[p[1][i]].constant /\ bits[p[2][i]].constant

EnforceSlicesEqual ==
  \E p \in Pairs, c \in W :
    EnforceBits(IF ~ True(c) /\ ~ bits[c].constant /\ ConstantPair(p) THEN "off" ELSE "enforce",
                SliceConditionalEnforceEqual(At(p[1], bits), At(p[2], bits), bits[c]),
                True(c) => At(p[1], wantBits) = At(p[2], wantBits))

EnforceSlicesNotEqual ==
  \E p \in Pairs, c \in W :
    EnforceBits(IF ~ True(c) /\ AllConstantPair(p) THEN "off" ELSE "enforce",
                SliceConditionalEnforceNotEqual(At(p[1], bits), At(p[2], bits), bits[c]),
                True(c) => At(p[1], wantBits) # At(p[2], wantBits))

(* The lexicographic order of two slices.                                  *)
LexGe(s, t) ==
  s = t \/ \E i \in DOMAIN s : s[i] > t[i] /\ \A j \in 1 .. i - 1 : s[j] = t[j]

EnforceSliceGe ==
  \E p \in Pairs :
    EnforceBits("slice_ge",
                1 \in {r.value : r \in SliceIsGe(At(p[1], bits), At(p[2], bits))},
                LexGe(At(p[1], wantBits), At(p[2], wantBits)))

BitNext ==
  \/ NotInPlace \/ BitAnd \/ BitOr \/ BitXor \/ BitNand \/ BitIsEq \/ BitIsGe \/ BitIsGt
  \/ BitAndNot \/ BitNor \/ BitSelect \/ KaryAndOf \/ KaryOrOf \/ SelectVector
  \/ BitEnforceEqualIf \/ BitEnforceNotEqualIf \/ EnforceSmaller
  \/ SlicesEqual \/ EnforceSlicesEqual \/ EnforceSlicesNotEqual \/ EnforceSliceGe

BitSpec == BitInit /\ [][BitNext]_bitVars

-----------------------------------------------------------------------------
(* Properties.                                                             *)

(* After any program, constants and variables mixed, a bit can only be     *)
(* what it was meant to be.                                                *)
BitsAreMeant == Running => \A i \in W : bits[i].value = wantBits[i]

(* A statement of a comment the code does not meet: is_ge on slices        *)
(* "mimics the lexicographic comparison behavior" of slices of values.     *)
SliceGeIsLexicographic == last = "slice_ge" => (outcome = "ok" <=> meant)
=============================================================================
