----------------------------- MODULE EmulatedFp -----------------------------
(***************************************************************************)
(* A circuit over an emulated field, one gadget call per step, in any      *)
(* order.  The program holds elements (AllocatedEmulatedFpVar) and         *)
(* unreduced products (AllocatedMulResultVar); the faults of the calls     *)
(* made so far are recorded in `faults`, and so is, as "negated", that the *)
(* program has called three_bit_cond_neg_lookup, whose limbs nothing the   *)
(* library keeps is a bound of.                                            *)
(***************************************************************************)
EXTENDS EmulatedRepr

CONSTANTS
  Slots,       \* names of the AllocatedEmulatedFpVar the program holds
  ProdSlots,   \* names of the AllocatedMulResultVar the program holds
  MaxProdSums, \* bound on prod_of_num_of_additions of a sum not yet reduced
  MaxSize,     \* bound on the size of what is passed to a call
  MaxBeside    \* bound on the additions of an element beside a product

ASSUME BoundAssumption ==
  MaxProdSums \in Nat /\ MaxSize \in Nat /\ MaxBeside \in Nat

VARIABLES slot, prod, faults

vars == <<slot, prod, faults>>

-----------------------------------------------------------------------------
(* The gadget calls.                                                       *)

(* What a variable or constant the program passes to a call may be.        *)
Operands ==
  {x \in {slot[s] : s \in Slots} \cup {Canonical, Witness} : x.size <= MaxSize}

Running == "panic" \notin faults

Put(d, x, f) ==
  /\ Running
  /\ slot' = [slot EXCEPT ![d] = x]
  /\ faults' = faults \cup f
  /\ UNCHANGED prod

PutProd(d, u, f) ==
  /\ Running
  /\ prod' = [prod EXCEPT ![d] = u]
  /\ faults' = faults \cup f
  /\ UNCHANGED slot

Enforce(f) ==
  /\ Running
  /\ faults' = faults \cup f
  /\ UNCHANGED <<slot, prod>>

NewInput(d) == Put(d, Canonical, {})

NewWitness(d) == Put(d, Witness, {})

TwoBitLookup(d) == Put(d, Canonical, {})

ThreeBitCondNegLookup(d) == Put(d, Negated, {"negated"})

Add(d, x, y) == Put(d, PostAddReduce(SumOf(x, y)), PostAddFaults(SumOf(x, y)))

AddConstant(d, x) == Add(d, x, Canonical)

Sub(d, x, y) ==
  LET r == SubWithoutReduce(x, y)
  IN  Put(d, PostAddReduce(r), SubFaults(x, y) \cup PostAddFaults(r))

SubConstant(d, x) == Sub(d, x, Canonical)

Negate(d, x) == Sub(d, Canonical, x)

Mul(d, x, y) == Put(d, Witness, MulFaults(x, y))

MulConstant(d, x) == Mul(d, x, Canonical)

InverseOf(d, x) == Put(d, Witness, InverseFaults(x))

ConditionallySelect(d, x, y) == Put(d, Selected(x, y), {})

ConditionalEnforceEqual(x, y) == Enforce(ConditionalEnforceEqualFaults(x, y))

(* The difference, or one, must have an inverse.                           *)
ConditionalEnforceNotEqual(x, y) ==
  LET r == SubWithoutReduce(x, y)
  IN  Enforce(SubFaults(x, y) \cup PostAddFaults(r)
                \cup InverseFaults(Selected(PostAddReduce(r), Canonical)))

(* to_bits_le: whatever is not in normal form is reduced, then each limb   *)
(* is cut into exactly BitsPerLimb bits.                                   *)
ToBitsLe(x) ==
  LET r == IF x.normal THEN x ELSE Witness
  IN  Enforce((IF x.normal THEN {} ELSE ReduceFaults(x))
                \cup Faults(FALSE, FALSE, LimbMax(r) >= B))

MulWithoutReduce(d, x, y) == PutProd(d, Product(x, y), PreMulFaults(x, y))

MulResultFrom(d, x) ==
  x.adds + 1 <= MaxProdSums /\ PutProd(d, FromVar(x), {})

MulResultAdd(d, u, v) ==
  u.sums + v.sums <= MaxProdSums /\ PutProd(d, MulSum(u, v), {})

MulResultAddConstant(d, u) ==
  u.sums + 1 <= MaxProdSums /\ PutProd(d, MulSumConstant(u), {})

MulResultReduce(d, u) == Put(d, Witness, MulReduceFaults(u))

-----------------------------------------------------------------------------
Init ==
  /\ slot = [s \in Slots |-> Canonical]
  /\ prod = [s \in ProdSlots |-> FromVar(Canonical)]
  /\ faults = {}

Next ==
  \/ \E d \in Slots :
       \/ NewInput(d) \/ NewWitness(d)
       \/ TwoBitLookup(d) \/ ThreeBitCondNegLookup(d)
  \/ \E d \in Slots, x, y \in Operands :
       \/ Add(d, x, y) \/ Sub(d, x, y) \/ Mul(d, x, y)
       \/ ConditionallySelect(d, x, y)
  \/ \E d \in Slots, x \in Operands :
       \/ AddConstant(d, x) \/ SubConstant(d, x) \/ MulConstant(d, x)
       \/ Negate(d, x) \/ InverseOf(d, x)
  \/ \E x, y \in Operands :
       ConditionalEnforceEqual(x, y) \/ ConditionalEnforceNotEqual(x, y)
  \/ \E x \in Operands : ToBitsLe(x)
  \/ \E d \in ProdSlots, x, y \in Operands : MulWithoutReduce(d, x, y)
  \/ \E d \in ProdSlots, x \in Operands : MulResultFrom(d, x)
  \/ \E d, s, t \in ProdSlots : MulResultAdd(d, prod[s], prod[t])
  \/ \E d, s \in ProdSlots : MulResultAddConstant(d, prod[s])
  \/ \E d \in Slots, s \in ProdSlots : MulResultReduce(d, prod[s])

Spec == Init /\ [][Next]_vars

(* What TLC explores further: beside an unreduced product, elements of few *)
(* additions.  Elements and products meet only when one is made from the   *)
(* other, and an element of more additions is reduced before that.         *)
SmallBesideProducts ==
  \/ \A p \in ProdSlots : prod[p] = FromVar(Canonical)
  \/ \A s \in Slots : slot[s].adds <= MaxBeside

-----------------------------------------------------------------------------
(* Properties.                                                             *)

Element == [adds : Nat, normal : BOOLEAN, size : Nat]

MulResult == [sums : Nat, size : Nat, val : Nat]

TypeOK ==
  /\ slot \in [Slots -> Element]
  /\ prod \in [ProdSlots -> MulResult]
  /\ faults \subseteq {"panic", "wrap", "unsat", "loose", "negated"}

(* What is said of sizes is said of programs without the lookup that       *)
(* negates limbs.                                                          *)
NeverNegates == "negated" \notin faults

(* The counter really bounds the limbs: an element with n additions has    *)
(* every limb below (n + 1) times the range of a fresh limb, through every *)
(* chain of additions, paddings, selections and reductions, and so has an  *)
(* unreduced product for prod_of_num_of_additions.  All later sizes are    *)
(* computed from the counters alone.  The limbs of                         *)
(* three_bit_cond_neg_lookup, negated in the native field, escape it.      *)
CounterBoundsLimbs ==
  NeverNegates =>
    /\ \A s \in Slots : slot[s].size <= slot[s].adds + 1
    /\ \A s \in ProdSlots : prod[s].size <= prod[s].sums

(* Every element a call returns can be squared after at most reductions    *)
(* that themselves fit: post_add_reduce never lets the limbs reach the     *)
(* size at which a subtraction or an equality check would not.             *)
LazyReductionHasRoom ==
  \A s \in Slots : FitsAfterAdd(slot[s])

(* An element that claims the normal form has the limbs of an integer of   *)
(* TBits bits: to_bits_le skips the reduction on the strength of the flag. *)
(* three_bit_cond_neg_lookup sets the flag on limbs that are not.          *)
NormalFormIsInRange ==
  NeverNegates =>
    \A s \in Slots :
      slot[s].normal => slot[s].adds = 0 /\ LimbMax(slot[s]) < B

(* No sequence of gadget calls, negated limbs or not, makes a group of     *)
(* zero limbs, underflows a size or asks for a padding the field cannot    *)
(* hold.                                                                   *)
NoPanic == "panic" \notin faults

(* Without negated limbs no limb, group of limbs or padding ever exceeds   *)
(* the native modulus, and no difference goes below zero, whatever         *)
(* quotients and remainders a prover picks: the integers on the left of    *)
(* the constraints are the integers they mean.  A prover's carry on the    *)
(* right may still be too large: that is the fault "loose", which this     *)
(* does not exclude.                                                       *)
NoWrapAround == NeverNegates => "wrap" \notin faults

(* Without negated limbs the honest witnesses (quotients, carries, limb    *)
(* bits) always fit the number of bits they are given, so a correct        *)
(* computation is provable.                                                *)
HonestProverSucceeds == NeverNegates => "unsat" \notin faults
=============================================================================
