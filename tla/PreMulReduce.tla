---------------------------- MODULE PreMulReduce ---------------------------
(***************************************************************************)
(* An emulated field is set up and two of its elements are multiplied:     *)
(* find_parameters, then the loop of pre_mul_reduce.  The operand with     *)
(* more additions is reduced, again and again, until a limb of the product *)
(* is sure to fit the native field.  Only the counters                     *)
(* num_of_additions_over_normal_form matter here.                          *)
(***************************************************************************)
EXTENDS EmulatedParams

CONSTANTS
  BaseSizes,    \* the values of base_field_prime_length scanned
  TargetSizes,  \* the values of target_field_prime_bit_length scanned
  Counters      \* the counters the operands may have

ASSUME SizesAssumption ==
  /\ BaseSizes \subseteq {b \in Nat : b > SearchSurfeit + 1 + 1 + 1}
  /\ TargetSizes \subseteq Nat \ {0}

ASSUME CountersAssumption == Counters \subseteq Nat

(* What the scan finds has at most 255 limbs: 256 limbs of one bit over a  *)
(* native field of 16 bits pass the check at the top of pre_mul_reduce,    *)
(* but no two witnesses fit and its loop would not end.                    *)
ASSUME LimbsAssumption ==
  \A b \in BaseSizes, t \in TargetSizes, g \in {"Constraints", "Weight"} :
    FindParameters(b, t, g).limbs <= 255

VARIABLES
  base, target, goal,  \* the arguments of find_parameters
  limbSize,            \* limb_size: the next size to try
  best,                \* found, min_cost, min_cost_num_of_limbs, min_cost_limb_size
  elem, elemOther,  \* num_of_additions_over_normal_form of the arguments
  pc                \* "scan", "check", "loop", "done" or "panic"

scanVars == <<base, target, goal, limbSize, best>>

vars == <<scanVars, elem, elemOther, pc>>

(* The scan of find_parameters over limb sizes.                            *)
ScanInit ==
  /\ base \in BaseSizes /\ target \in TargetSizes
  /\ goal \in {"Constraints", "Weight"}
  /\ limbSize = 1
  /\ best = [found |-> FALSE, cost |-> 0, limbs |-> 0, bits |-> 0]

(* Mutant: a later size of the same cost wins.                             *)
ImprovesOrTies(cost) == ~best.found \/ cost <= best.cost

(* The test that lets a size replace the best one so far.                  *)
Improves(cost) == ~best.found \/ cost < best.cost

(* One iteration of the while loop.                                        *)
Try ==
  /\ limbSize <= MaxLimbSize(base, target)
  /\ LET cost == SearchCost(base, target, goal, limbSize)
     IN  best' = IF Improves(cost)
                 THEN [found |-> TRUE, cost |-> cost,
                       limbs |-> CeilDiv(target, limbSize), bits |-> limbSize]
                 ELSE best
  /\ limbSize' = limbSize + 1
  /\ UNCHANGED <<base, target, goal>>

Done == limbSize > MaxLimbSize(base, target)

-----------------------------------------------------------------------------
(* The loop of pre_mul_reduce.                                             *)
Init == ScanInit /\ pc = "scan" /\ elem = 0 /\ elemOther = 0

Scan == pc = "scan" /\ Try /\ UNCHANGED <<elem, elemOther, pc>>

(* get_params returns, and two elements are multiplied.                    *)
Call ==
  /\ pc = "scan" /\ Done
  /\ elem' \in Counters /\ elemOther' \in Counters
  /\ pc' = "check"
  /\ UNCHANGED scanVars

(* The parameters must support the product of two elements.                *)
Supported == 2 * best.bits + Log2Ceil(best.limbs + 1) < base - 3

(* bits_per_mulresult_limb < MODULUS_BIT_SIZE - 3.                         *)
Fits(a, b) ==
  2 * best.bits + Overhead(1 + (a + 1) * (b + 1) * best.limbs) < base - 3

Check ==
  /\ pc = "check"
  /\ pc' = IF Supported THEN "loop" ELSE "panic"
  /\ UNCHANGED <<scanVars, elem, elemOther>>

Break ==
  /\ pc = "loop" /\ Fits(elem, elemOther)
  /\ pc' = "done"
  /\ UNCHANGED <<scanVars, elem, elemOther>>

(* Mutants: the smaller operand is the one reduced; the reduced element is *)
(* not stored back.                                                        *)
ReduceSmaller ==
  /\ pc = "loop" /\ ~Fits(elem, elemOther) /\ elem <= elemOther
  /\ elem' = 1
  /\ UNCHANGED <<scanVars, elemOther, pc>>

ReduceNothing ==
  /\ pc = "loop" /\ ~Fits(elem, elemOther) /\ elem >= elemOther
  /\ UNCHANGED vars

(* Reducer::reduce leaves a witness, whose counter is one.                 *)
ReduceElem ==
  /\ pc = "loop" /\ ~Fits(elem, elemOther) /\ elem >= elemOther
  /\ elem' = 1
  /\ UNCHANGED <<scanVars, elemOther, pc>>

ReduceOther ==
  /\ pc = "loop" /\ ~Fits(elem, elemOther) /\ elem < elemOther
  /\ elemOther' = 1
  /\ UNCHANGED <<scanVars, elem, pc>>

Returned == pc \in {"done", "panic"}

Next ==
  \/ Scan \/ Call \/ Check \/ Break \/ ReduceElem \/ ReduceOther
  \/ Returned /\ UNCHANGED vars

(* Both loops are sequential code: they run on while they have a step to   *)
(* take.                                                                   *)
Spec ==
  /\ Init /\ [][Next]_vars
  /\ WF_vars(Scan) /\ WF_vars(Call)
  /\ WF_vars(Check) /\ WF_vars(Break) /\ WF_vars(ReduceElem \/ ReduceOther)

-----------------------------------------------------------------------------
(* Properties.                                                             *)

(* What the scan returns is the smallest of the cheapest limb sizes.       *)
ScanFindsFirstMinimum ==
  pc = "scan" /\ Done => [limbs |-> best.limbs, bits |-> best.bits]
                            = FindParameters(base, target, goal)

(* The limbs cover the target field and the most significant one is not    *)
(* empty, so that the width of the top limb that every later size is       *)
(* computed from, in unsigned arithmetic, is between one bit and a limb.   *)
LimbsCoverTarget ==
  best.found =>
    target - best.bits * (best.limbs - 1) \in 1 .. best.bits

(* The parameters support multiplication: wherever the check at the top of *)
(* pre_mul_reduce passes, its loop can end, because two witnesses fit.     *)
TwoWitnessesMultiply ==
  pc = "scan" /\ Done /\ best.found /\ Supported => Fits(1, 1)

(* No operand is reduced for nothing: what a step reduces had more than    *)
(* the one addition it has afterwards, so each operand is replaced at most *)
(* once and the loop cannot circle.                                        *)
ReductionShrinks ==
  [][pc = "loop" => elem' + elemOther' < elem + elemOther \/ pc' # pc]_vars

(* The scan ends, and pre_mul_reduce returns, or panics at once, on every  *)
(* pair of operands.                                                       *)
Terminates == <>Returned
=============================================================================
