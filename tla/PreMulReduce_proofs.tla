------------------------ MODULE PreMulReduce_proofs ------------------------
(***************************************************************************)
(* The scan of find_parameters and the loop of pre_mul_reduce, for all     *)
(* sizes of the two fields.                                                *)
(***************************************************************************)
EXTENDS PreMulReduce, PowersOfTwo_proofs

-----------------------------------------------------------------------------
(* Sizes.                                                                  *)

(* A rounded-up quotient is the least number of limbs that covers a.       *)
LEMMA CeilDivCovers ==
  ASSUME NEW a \in Int, NEW b \in Nat \ {0}
  PROVE  /\ CeilDiv(a, b) \in Int
         /\ b * CeilDiv(a, b) >= a
         /\ b * (CeilDiv(a, b) - 1) < a
         /\ a >= 1 => CeilDiv(a, b) >= 1
<1> DEFINE c == (a + b - 1) \div b
           m == (a + b - 1) % b
<1>1. c \in Int /\ m \in 0 .. b - 1 /\ a + b - 1 = c * b + m
  BY DivModInt
<1> HIDE DEF c, m
<1>2. b * c = a + b - 1 - m BY <1>1
<1>3. b * (c - 1) = b * c - b BY <1>1
<1>4. b * c >= a /\ b * (c - 1) < a BY <1>1, <1>2, <1>3
<1>5. ASSUME a >= 1 PROVE c >= 1
  <2> SUFFICES ASSUME c <= 0 PROVE FALSE BY <1>1
  <2>1. c * b <= 0 * b BY <1>1, Cancel
  <2>2. b * c = c * b /\ c * b \in Int BY <1>1
  <2> QED BY <1>5, <1>4, <2>1, <2>2
<1> QED BY <1>1, <1>4, <1>5 DEF CeilDiv, c

(* The widest limb leaves the surfeit and two limbs room in the field.     *)
LEMMA WidestLimb ==
  ASSUME NEW b \in BaseSizes, NEW t \in TargetSizes
  PROVE  /\ MaxLimbSize(b, t) \in Nat
         /\ 2 * MaxLimbSize(b, t) <= b - 14
<1> DEFINE w == (b - 12) \div 2
<1>1. b \in Nat /\ b > 13 /\ t \in Nat \ {0}
  BY SizesAssumption DEF SearchSurfeit
<1>2. w \in Int /\ 2 * w <= b - 12 /\ w >= 1 BY <1>1
<1>3. MaxLimbSize(b, t) = Min({w - 1, t})
  BY <1>1 DEF MaxLimbSize, SearchSurfeit
<1> HIDE DEF w
<1> QED BY <1>1, <1>2, <1>3, MinPair

(* The scan compares numbers: nothing is divided by zero.                  *)
LEMMA CostIsNumber ==
  ASSUME NEW b \in BaseSizes, NEW t \in TargetSizes, NEW g,
         NEW l \in 1 .. MaxLimbSize(b, t)
  PROVE  SearchCost(b, t, g, l) \in Int
<1> DEFINE limbs  == CeilDiv(t, l)
           size   == CeilDiv(b - 1 - SearchSurfeit - 1 - 1 - l, l)
           groups == CeilDiv(2 * limbs - 1, size)
<1>1. b \in Nat /\ t \in Nat /\ l \in Nat \ {0} /\ 2 * l <= b - 14
  BY WidestLimb, SizesAssumption
<1>2. limbs \in Int BY <1>1, CeilDivCovers
<1>3. size \in Nat \ {0}
  <2> DEFINE room == b - 1 - SearchSurfeit - 1 - 1 - l
  <2>1. room \in Int /\ room >= 1 BY <1>1 DEF SearchSurfeit
  <2> HIDE DEF room
  <2>2. CeilDiv(room, l) \in Int /\ CeilDiv(room, l) >= 1
    BY <1>1, <2>1, CeilDivCovers
  <2> QED BY <2>2 DEF room
<1> HIDE DEF limbs, size
<1>4. groups \in Int BY <1>2, <1>3, CeilDivCovers
<1> HIDE DEF groups
<1>5. SearchCost(b, t, g, l) =
        IF g = "Constraints"
        THEN (2 * limbs - 1) + t + (t + limbs)
               + groups + (groups - 1) * (2 * l + SearchSurfeit) + 1
        ELSE 6 * limbs * limbs + 4 * t + 4 * t + limbs
               + limbs * limbs + 2 * (2 * limbs - 1)
               + limbs + 7 * groups
               + (groups - 1) * (2 * l + SearchSurfeit) * 4 + 2
  BY DEF SearchCost, limbs, size, groups
<1>6. SearchSurfeit \in Int BY DEF SearchSurfeit
<1> QED BY <1>1, <1>2, <1>4, <1>5, <1>6

-----------------------------------------------------------------------------
(* The scan.                                                               *)

Cost(l) == SearchCost(base, target, goal, l)

ArgsInv == base \in BaseSizes /\ target \in TargetSizes

(* Limb sizes below the next one were tried, and best is the first of the  *)
(* cheapest of them.                                                       *)
BestInv ==
  /\ limbSize \in 1 .. MaxLimbSize(base, target) + 1
  /\ best.found <=> limbSize # 1
  /\ ~best.found => best.limbs = 0 /\ best.bits = 0
  /\ best.found =>
       /\ best.bits \in 1 .. limbSize - 1
       /\ best.limbs = CeilDiv(target, best.bits)
       /\ best.cost = Cost(best.bits)
       /\ \A l \in 1 .. limbSize - 1 : best.cost <= Cost(l)
       /\ \A l \in 1 .. best.bits - 1 : best.cost < Cost(l)

ScanInv == ArgsInv /\ BestInv

(* One more size keeps the first of the cheapest.                          *)
LEMMA TryKeepsScan ==
  ASSUME ScanInv, Try
  PROVE  ScanInv'
<1> DEFINE cost == SearchCost(base, target, goal, limbSize)
<1>1. MaxLimbSize(base, target) \in Nat BY WidestLimb DEF ScanInv, ArgsInv
<1>2. limbSize \in 1 .. MaxLimbSize(base, target) /\ limbSize' = limbSize + 1
  BY <1>1 DEF Try, ScanInv, BestInv
<1>3. base' = base /\ target' = target /\ goal' = goal BY DEF Try
<1>4. \A l \in 1 .. limbSize : Cost(l) \in Int
  BY <1>1, <1>2, CostIsNumber DEF ScanInv, ArgsInv, Cost
<1>5. cost = Cost(limbSize) BY DEF Cost
<1>6. best' = IF Improves(cost)
              THEN [found |-> TRUE, cost |-> cost,
                    limbs |-> CeilDiv(target, limbSize), bits |-> limbSize]
              ELSE best
  BY DEF Try
<1> HIDE DEF cost
<1>7. \A l : Cost(l)' = Cost(l) BY <1>3 DEF Cost
<1>8. ArgsInv' BY <1>3 DEF ScanInv, ArgsInv
<1>9. limbSize' \in 1 .. MaxLimbSize(base', target') + 1 /\ limbSize' # 1
  BY <1>1, <1>2, <1>3
<1>10. CASE Improves(cost)
  <2>1. best' = [found |-> TRUE, cost |-> cost,
                 limbs |-> CeilDiv(target, limbSize), bits |-> limbSize]
    BY <1>6, <1>10
  <2>2. \A l \in 1 .. limbSize - 1 : cost < Cost(l)
    <3>1. CASE ~best.found BY <3>1, <1>2 DEF ScanInv, BestInv
    <3>2. CASE best.found /\ cost < best.cost
      <4>1. best.cost \in Int /\ \A l \in 1 .. limbSize - 1 : best.cost <= Cost(l)
        BY <3>2, <1>2, <1>4 DEF ScanInv, BestInv
      <4> QED BY <3>2, <4>1, <1>2, <1>4, <1>5
    <3> QED BY <1>10, <3>1, <3>2 DEF Improves
  <2>3. \A l \in 1 .. limbSize : cost <= Cost(l)
    BY <2>2, <1>2, <1>4, <1>5
  <2> QED BY <2>1, <2>2, <2>3, <1>2, <1>3, <1>5, <1>7, <1>8, <1>9
          DEF ScanInv, BestInv
<1>11. CASE ~Improves(cost)
  <2>1. best' = best /\ best.found /\ ~(cost < best.cost)
    BY <1>6, <1>11 DEF Improves
  <2>2. /\ best.bits \in 1 .. limbSize - 1
        /\ best.limbs = CeilDiv(target, best.bits)
        /\ best.cost = Cost(best.bits)
        /\ \A l \in 1 .. limbSize - 1 : best.cost <= Cost(l)
        /\ \A l \in 1 .. best.bits - 1 : best.cost < Cost(l)
    BY <2>1 DEF ScanInv, BestInv
  <2>3. best.cost \in Int BY <2>2, <1>2, <1>4
  <2>4. \A l \in 1 .. limbSize : best.cost <= Cost(l)
    BY <2>1, <2>2, <2>3, <1>2, <1>4, <1>5
  <2> QED BY <2>1, <2>2, <2>4, <1>2, <1>3, <1>7, <1>8, <1>9
          DEF ScanInv, BestInv
<1> QED BY <1>10, <1>11

(* When it is over the scan has what find_parameters is to return.         *)
LEMMA ScanReturnsFirstMinimum ==
  ASSUME ScanInv, Done
  PROVE  [limbs |-> best.limbs, bits |-> best.bits] = FindParameters(base, target, goal)
<1> DEFINE sizes == 1 .. MaxLimbSize(base, target)
           cost  == [l \in sizes |-> SearchCost(base, target, goal, l)]
           first == {l \in sizes : \A k \in sizes : cost[l] <= cost[k]}
<1>1. MaxLimbSize(base, target) \in Nat BY WidestLimb DEF ScanInv, ArgsInv
<1>2. limbSize = MaxLimbSize(base, target) + 1
  BY <1>1 DEF ScanInv, BestInv, Done
<1>3. FindParameters(base, target, goal) =
        IF sizes = {} THEN [limbs |-> 0, bits |-> 0]
                      ELSE [limbs |-> CeilDiv(target, Min(first)), bits |-> Min(first)]
  BY DEF FindParameters
<1>4. CASE best.found
  <2>1. \A l \in sizes : cost[l] = Cost(l) /\ Cost(l) \in Int
    BY CostIsNumber DEF ScanInv, ArgsInv, Cost
  <2>2. /\ best.bits \in sizes
        /\ best.limbs = CeilDiv(target, best.bits)
        /\ best.cost = Cost(best.bits)
        /\ \A l \in sizes : best.cost <= Cost(l)
        /\ \A l \in 1 .. best.bits - 1 : best.cost < Cost(l)
    BY <1>1, <1>2, <1>4 DEF ScanInv, BestInv
  <2> HIDE DEF cost
  <2>3. best.bits \in first BY <2>1, <2>2
  <2>4. \A l \in first : best.bits <= l
    <3> SUFFICES ASSUME NEW l \in first, l < best.bits PROVE FALSE
      BY <1>1, <2>2
    <3>1. l \in 1 .. best.bits - 1 BY <1>1, <2>2
    <3>2. Cost(l) <= Cost(best.bits) BY <2>1, <2>2
    <3> QED BY <3>1, <3>2, <2>1, <2>2
  <2>5. first \subseteq Int BY <1>1
  <2> HIDE DEF first
  <2>6. Min(first) = best.bits
    <3>1. \A l \in first : l \in Int /\ best.bits \in Int BY <2>3, <2>5
    <3>2. \A l \in first : (\A k \in first : l <= k) => l <= best.bits
      BY <2>3
    <3>3. \A l \in first : (\A k \in first : l <= k) <=> l = best.bits
      BY <2>4, <3>1, <3>2
    <3> QED BY <2>3, <3>3 DEF Min
  <2>7. sizes # {} BY <2>2
  <2> QED BY <1>3, <2>2, <2>6, <2>7
<1>5. CASE ~best.found
  <2>1. sizes = {} BY <1>1, <1>2, <1>5 DEF ScanInv, BestInv
  <2>2. best.limbs = 0 /\ best.bits = 0 BY <1>5 DEF ScanInv, BestInv
  <2> QED BY <1>3, <2>1, <2>2
<1> QED BY <1>4, <1>5

(* Limbs of the size found cover the target, the last not in vain.         *)
LEMMA FoundLimbsCover ==
  ASSUME ScanInv
  PROVE  LimbsCoverTarget
<1> SUFFICES ASSUME best.found
             PROVE  target - best.bits * (best.limbs - 1) \in 1 .. best.bits
  BY DEF LimbsCoverTarget
<1>1. target \in Nat BY SizesAssumption DEF ScanInv, ArgsInv
<1>2. MaxLimbSize(base, target) \in Nat BY WidestLimb DEF ScanInv, ArgsInv
<1>3. best.bits \in Nat \ {0} /\ best.limbs = CeilDiv(target, best.bits)
  BY <1>2 DEF ScanInv, BestInv
<1> DEFINE l == best.limbs
           b == best.bits
<1>4. l \in Int /\ b * l >= target /\ b * (l - 1) < target
  BY <1>1, <1>3, CeilDivCovers
<1>5. b * (l - 1) = b * l - b BY <1>3, <1>4
<1>6. b * l \in Int BY <1>3, <1>4
<1> QED BY <1>1, <1>3, <1>4, <1>5, <1>6

-----------------------------------------------------------------------------
(* The product.                                                            *)

(* The logarithms that 255 limbs make.                                     *)
LEMMA SmallLogarithms ==
  \A x \in Nat : x <= 1024 => Overhead(x) \in Nat /\ Overhead(x) <= 10
<1>1. Pow2[0] = 1 /\ \A k \in Nat : Pow2[k + 1] = 2 * Pow2[k] BY Pow2Step
<1>2. Pow2[1] = 2 /\ Pow2[2] = 4 /\ Pow2[3] = 8 /\ Pow2[4] = 16
  <2>1. Pow2[0 + 1] = 2 * Pow2[0] /\ Pow2[1 + 1] = 2 * Pow2[1]
        /\ Pow2[2 + 1] = 2 * Pow2[2] /\ Pow2[3 + 1] = 2 * Pow2[3]
    BY <1>1
  <2> QED BY <1>1, <2>1
<1>3. Pow2[5] = 32 /\ Pow2[10] = 1024
  <2>1. Pow2[4 + 1] = 2 * Pow2[4] BY <1>1
  <2>2. Pow2[5 + 5] = Pow2[5] * Pow2[5] BY Pow2Plus
  <2> QED BY <1>2, <2>1, <2>2
<1> QED BY <1>3, OverheadLeast

(* No product of limbs of two witnesses, nor of operands with smaller      *)
(* counters, is too wide for the native field.                             *)
LEMMA WitnessesFit ==
  ASSUME ScanInv, Done, goal \in {"Constraints", "Weight"}
  PROVE  /\ Supported
         /\ \A a, b \in {0, 1} : Fits(a, b)
<1>1. base \in Nat /\ base > 13 /\ target \in Nat \ {0}
  BY SizesAssumption DEF ScanInv, ArgsInv, SearchSurfeit
<1>2. best.limbs <= 255
  <2>1. best.limbs = FindParameters(base, target, goal).limbs
    BY ScanReturnsFirstMinimum
  <2> QED BY <2>1, LimbsAssumption DEF ScanInv, ArgsInv
<1>3. MaxLimbSize(base, target) \in Nat /\ 2 * MaxLimbSize(base, target) <= base - 14
  BY WidestLimb DEF ScanInv, ArgsInv
<1>4. CASE ~best.found
  <2>1. best.limbs = 0 /\ best.bits = 0 BY <1>4 DEF ScanInv, BestInv
  <2>2. Overhead(1) \in Nat /\ Overhead(1) <= 0
    <3>1. 1 <= Pow2[0] BY Pow2Step
    <3> QED BY <3>1, OverheadLeast
  <2>3. Supported BY <1>1, <2>1, <2>2 DEF Supported, Log2Ceil
  <2>4. ASSUME NEW a \in {0, 1}, NEW b \in {0, 1} PROVE Fits(a, b)
    <3>1. 1 + (a + 1) * (b + 1) * best.limbs = 1 BY <2>1
    <3> QED BY <1>1, <2>1, <2>2, <3>1 DEF Fits
  <2> QED BY <2>3, <2>4
<1>5. CASE best.found
  <2>1. best.bits \in Nat \ {0} /\ best.limbs = CeilDiv(target, best.bits)
        /\ 2 * best.bits <= base - 14
    BY <1>1, <1>3, <1>5 DEF ScanInv, BestInv
  <2>2. best.limbs \in Nat
    <3>1. target \in Int /\ target >= 1 BY <1>1
    <3>2. CeilDiv(target, best.bits) \in Int /\ CeilDiv(target, best.bits) >= 1
      BY <2>1, <3>1, CeilDivCovers
    <3> QED BY <2>1, <3>2
  <2>3. Overhead(best.limbs + 1) \in Nat /\ Overhead(best.limbs + 1) <= 10
    BY <1>2, <2>2, SmallLogarithms
  <2>4. Supported BY <1>1, <2>1, <2>3 DEF Supported, Log2Ceil
  <2>5. ASSUME NEW a \in {0, 1}, NEW b \in {0, 1} PROVE Fits(a, b)
    <3> DEFINE x == 1 + (a + 1) * (b + 1) * best.limbs
    <3>1. (a + 1) * (b + 1) \in {1, 2, 4} OBVIOUS
    <3>2. x \in Nat /\ x <= 1024 BY <1>2, <2>2, <3>1
    <3>3. Overhead(x) \in Nat /\ Overhead(x) <= 10 BY <3>2, SmallLogarithms
    <3> HIDE DEF x
    <3>4. 2 * best.bits + Overhead(x) < base - 3 BY <1>1, <2>1, <3>3
    <3> QED BY <3>4 DEF Fits, x
  <2> QED BY <2>4, <2>5
<1> QED BY <1>4, <1>5

-----------------------------------------------------------------------------
(* Invariance.                                                             *)

(* Elements are multiplied with what the whole scan found.                 *)
PhaseInv ==
  /\ goal \in {"Constraints", "Weight"}
  /\ elem \in Nat /\ elemOther \in Nat
  /\ pc # "scan" => Done

Inv == ScanInv /\ PhaseInv

(* It holds before the scan.                                               *)
LEMMA InitInv == Init => Inv
<1> SUFFICES ASSUME Init PROVE Inv OBVIOUS
<1>1. base \in BaseSizes /\ target \in TargetSizes /\ limbSize = 1
      /\ best = [found |-> FALSE, cost |-> 0, limbs |-> 0, bits |-> 0]
      /\ goal \in {"Constraints", "Weight"}
  BY DEF Init, ScanInit
<1>2. MaxLimbSize(base, target) \in Nat BY <1>1, WidestLimb
<1>3. ScanInv BY <1>1, <1>2 DEF ScanInv, ArgsInv, BestInv
<1> QED BY <1>1, <1>3 DEF Inv, PhaseInv, Init

(* Outside the scan nothing it computed changes.                           *)
LEMMA KeepsScan ==
  ASSUME ScanInv, UNCHANGED scanVars
  PROVE  ScanInv' /\ (Done => Done')
BY DEF scanVars, ScanInv, ArgsInv, BestInv, Cost, Done

(* Every step of the scan and of the loop keeps it.                        *)
LEMMA NextInv == Inv /\ [Next]_vars => Inv'
<1> SUFFICES ASSUME Inv, [Next]_vars PROVE Inv' OBVIOUS
<1> USE DEF Inv
<1>1. CASE Scan
  BY <1>1, TryKeepsScan DEF Scan, PhaseInv, Try
<1>2. CASE Call
  <2>1. UNCHANGED scanVars /\ Done BY <1>2 DEF Call
  <2>2. ScanInv' /\ Done' BY <2>1, KeepsScan
  <2>3. elem' \in Nat /\ elemOther' \in Nat
    BY <1>2, CountersAssumption DEF Call
  <2> QED BY <2>1, <2>2, <2>3 DEF PhaseInv, scanVars
<1>3. CASE Check \/ Break \/ ReduceElem \/ ReduceOther
  <2>1. UNCHANGED scanVars /\ pc # "scan"
    BY <1>3 DEF Check, Break, ReduceElem, ReduceOther
  <2>2. ScanInv' /\ Done' BY <2>1, KeepsScan DEF PhaseInv
  <2>3. elem' \in Nat /\ elemOther' \in Nat
    BY <1>3 DEF PhaseInv, Check, Break, ReduceElem, ReduceOther
  <2> QED BY <2>1, <2>2, <2>3 DEF PhaseInv, scanVars
<1>4. CASE UNCHANGED vars
  <2>1. UNCHANGED scanVars BY <1>4 DEF vars
  <2>2. ScanInv' /\ (Done => Done') BY <2>1, KeepsScan
  <2> QED BY <1>4, <2>1, <2>2 DEF PhaseInv, vars, scanVars
<1> QED BY <1>1, <1>2, <1>3, <1>4 DEF Next, Returned

(* It is an invariant.                                                     *)
LEMMA Invariance == Spec => []Inv
BY InitInv, NextInv, PTL DEF Spec

(* For every pair of fields the scan returns the first limb size of least  *)
(* cost.                                                                   *)
THEOREM FirstMinimumFound == Spec => []ScanFindsFirstMinimum
<1>1. Inv => ScanFindsFirstMinimum
  BY ScanReturnsFirstMinimum DEF Inv, ScanFindsFirstMinimum
<1> QED BY <1>1, Invariance, PTL

(* For every pair of fields the limbs found cover the target field and     *)
(* none is empty.                                                          *)
THEOREM LimbsAlwaysCover == Spec => []LimbsCoverTarget
<1>1. Inv => LimbsCoverTarget BY FoundLimbsCover DEF Inv
<1> QED BY <1>1, Invariance, PTL

(* With at most 255 limbs two witnesses can always be multiplied.          *)
THEOREM WitnessesMultiply == Spec => []TwoWitnessesMultiply
<1>1. Inv => TwoWitnessesMultiply
  BY WitnessesFit DEF Inv, PhaseInv, TwoWitnessesMultiply
<1> QED BY <1>1, Invariance, PTL

(* With at most 255 limbs the check of the parameters never fails.         *)
THEOREM NeverPanics == Spec => [](pc # "panic")
<1>1. Init => pc # "panic" BY DEF Init
<1>2. Inv /\ pc # "panic" /\ [Next]_vars => (pc # "panic")'
  <2> SUFFICES ASSUME Inv, pc # "panic", [Next]_vars PROVE pc' # "panic"
    OBVIOUS
  <2>1. CASE Check
    <3>1. Supported BY <2>1, WitnessesFit DEF Inv, PhaseInv, Check
    <3> QED BY <2>1, <3>1 DEF Check
  <2>2. CASE ~Check
    BY <2>2 DEF Next, vars, Scan, Call, Break, ReduceElem, ReduceOther
  <2> QED BY <2>1, <2>2
<1> QED BY <1>1, <1>2, Invariance, PTL DEF Spec

(* With at most 255 limbs every reduction that the loop of pre_mul_reduce  *)
(* makes lowers a counter, so that no pair of operands keeps it going.     *)
THEOREM ReductionAlwaysShrinks == Spec => ReductionShrinks
<1> DEFINE Shrinks ==
             pc = "loop" => elem' + elemOther' < elem + elemOther \/ pc' # pc
<1>1. Inv /\ [Next]_vars => [Shrinks]_vars
  <2> SUFFICES ASSUME Inv, Next, pc = "loop", pc' = pc
               PROVE  elem' + elemOther' < elem + elemOther \/ UNCHANGED vars
    OBVIOUS
  <2>1. ReduceElem \/ ReduceOther
    BY DEF Next, Scan, Call, Check, Break, Returned
  <2>2. \A a, b \in {0, 1} : Fits(a, b)
    BY WitnessesFit DEF Inv, PhaseInv
  <2>3. elem \in Nat /\ elemOther \in Nat BY DEF Inv, PhaseInv
  <2>4. ~Fits(elem, elemOther) BY <2>1 DEF ReduceElem, ReduceOther
  <2>5. elem > 1 \/ elemOther > 1
    <3> SUFFICES ASSUME elem <= 1, elemOther <= 1 PROVE FALSE BY <2>3
    <3>1. elem \in {0, 1} /\ elemOther \in {0, 1} BY <2>3
    <3> QED BY <2>2, <2>4, <3>1
  <2> QED BY <2>1, <2>3, <2>5 DEF ReduceElem, ReduceOther
<1> QED BY <1>1, Invariance, PTL DEF Spec, ReductionShrinks
=============================================================================
