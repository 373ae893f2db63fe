-------------------------- MODULE EmulatedFp_proofs ------------------------
(***************************************************************************)
(* What holds of every sequence of gadget calls, for every field and limb  *)
(* size the assumptions of EmulatedRepr allow.                             *)
(***************************************************************************)
EXTENDS EmulatedFp, PowersOfTwo_proofs

-----------------------------------------------------------------------------
(* Arithmetic.                                                             *)

(* The surfeits of the smallest counters.                                  *)
LEMMA SmallOverheads ==
  /\ Overhead(1) = 0 /\ Overhead(2) = 1
  /\ \A x \in Nat : x >= 5 => Overhead(x) >= 3
<1>1. Pow2[0] = 1 /\ Pow2[1] = 2 /\ Pow2[2] = 4
  <2>1. Pow2[0 + 1] = 2 * Pow2[0] /\ Pow2[1 + 1] = 2 * Pow2[1]
    BY Pow2Step
  <2> QED BY <2>1, Pow2Step
<1>2. Overhead(1) = 0 BY <1>1, OverheadLeast
<1>3. Overhead(2) = 1
  <2>1. Overhead(2) <= 1 BY <1>1, OverheadLeast
  <2>2. Overhead(2) # 0 BY <1>1, OverheadLeast
  <2> QED BY <2>1, <2>2, OverheadLeast
<1>4. ASSUME NEW x \in Nat, x >= 5, ~(Overhead(x) >= 3) PROVE FALSE
  <2>1. Overhead(x) \in Nat /\ Overhead(x) <= 2 BY <1>4, OverheadLeast
  <2>2. Pow2[Overhead(x)] <= 4 BY <1>1, <2>1, Pow2Order
  <2>3. x <= Pow2[Overhead(x)] BY OverheadLeast
  <2>4. Pow2[Overhead(x)] \in Nat BY <2>1, Pow2Step
  <2> QED BY <1>4, <2>2, <2>3, <2>4
<1> QED BY <1>2, <1>3, <1>4

(* The room the parameters leave above two limbs.                          *)
LEMMA Room ==
  /\ MBS \in Nat /\ BitsPerLimb \in Nat /\ NumLimbs \in Nat
  /\ NumLimbs >= 1 /\ BitsPerLimb >= 1
  /\ MBS > 2 * BitsPerLimb + 6
  /\ TopBits \in Nat /\ TopBits <= BitsPerLimb
  /\ B \in Nat /\ B >= 2
<1>1. 1 + 4 * NumLimbs \in Nat /\ 1 + 4 * NumLimbs >= 5
  BY LimbAssumption
<1>2. Overhead(1 + 4 * NumLimbs) >= 3 BY <1>1, SmallOverheads
<1>3. Overhead(1 + 4 * NumLimbs) \in Nat BY <1>1, OverheadLeast
<1>4. B \in Nat /\ B >= 2
  <2>1. BitsPerLimb - 1 \in Nat BY LimbAssumption
  <2>2. Pow2[(BitsPerLimb - 1) + 1] = 2 * Pow2[BitsPerLimb - 1]
    BY <2>1, Pow2Step
  <2> QED BY <2>1, <2>2, Pow2Step, LimbAssumption DEF B
<1>5. TopBits \in Nat /\ TopBits <= BitsPerLimb BY LimbAssumption
<1> QED
  BY <1>2, <1>3, <1>4, <1>5, FieldAssumption, LimbAssumption, MulAssumption

-----------------------------------------------------------------------------
(* The faults of a call are among the four kinds.                          *)

FaultKinds == {"panic", "wrap", "unsat", "loose"}

(* Whatever a call reports is one of these faults.                         *)
LEMMA FaultsAreKinds ==
  \A a, b, c : Faults(a, b, c) \subseteq FaultKinds
BY DEF Faults, FaultKinds

(* and of the right side of a group's equation,                            *)
LEMMA CarryFaultsAreLoose ==
  \A surfeit, bits, shift, len :
    CarryFaults(surfeit, bits, shift, len) \subseteq {"loose"}
BY DEF CarryFaults

(* of equality checks by groups,                                           *)
LEMMA GroupFaultsAreKinds ==
  \A surfeit, bits, shift, left, right, len :
    GroupFaults(surfeit, bits, shift, left, right, len) \subseteq FaultKinds
<1> SUFFICES ASSUME NEW surfeit, NEW bits, NEW shift, NEW left, NEW right,
                    NEW len
             PROVE  GroupFaults(surfeit, bits, shift, left, right, len)
                      \subseteq FaultKinds
  OBVIOUS
<1>1. {"panic"} \subseteq FaultKinds /\ {"loose"} \subseteq FaultKinds
  BY DEF FaultKinds
<1> QED BY <1>1, FaultsAreKinds, CarryFaultsAreLoose DEF GroupFaults

(* equality checks of elements,                                            *)
LEMMA EqualFaultsAreKinds ==
  \A x, y : /\ PaddedSubFaults(x, y) \subseteq FaultKinds
            /\ EqualFaults(x, y) \subseteq FaultKinds
<1>1. \A x, y : PaddedSubFaults(x, y) \subseteq FaultKinds
  BY FaultsAreKinds DEF PaddedSubFaults
<1> QED BY <1>1, FaultsAreKinds, GroupFaultsAreKinds DEF EqualFaults

(* subtractions and sums,                                                  *)
LEMMA SubFaultsAreKinds ==
  \A x, y : /\ SubFaults(x, y) \subseteq FaultKinds
            /\ ConditionalEnforceEqualFaults(x, y) \subseteq FaultKinds
            /\ PostAddFaults(x) \subseteq FaultKinds
            /\ ReduceFaults(x) \subseteq FaultKinds
BY EqualFaultsAreKinds
   DEF SubFaults, SubtrahendFaults, PostAddFaults,
       ConditionalEnforceEqualFaults, ReduceFaults

(* and multiplications.                                                    *)
LEMMA MulFaultsAreKinds ==
  \A x, y : /\ PreMulFaults(x, y) \subseteq FaultKinds
            /\ MulReduceFaults(x) \subseteq FaultKinds
            /\ MulFaults(x, y) \subseteq FaultKinds
            /\ InverseFaults(x) \subseteq FaultKinds
<1>1. \A x, y : PreMulFaults(x, y) \subseteq FaultKinds
  BY FaultsAreKinds, SubFaultsAreKinds DEF PreMulFaults
<1>2. \A x : MulReduceFaults(x) \subseteq FaultKinds
  BY FaultsAreKinds, GroupFaultsAreKinds DEF MulReduceFaults
<1> QED
  BY <1>1, <1>2, SubFaultsAreKinds DEF MulFaults, InverseFaults

-----------------------------------------------------------------------------
(* Whatever a program calls, post_add_reduce keeps the counter of every    *)
(* element small.  This says nothing of the limbs.                         *)

Bounded(x) == x \in Element /\ FitsAfterAdd(x)

(* Inputs, constants, witnesses and looked up elements are bounded.        *)
LEMMA FreshBounded == Bounded(Canonical) /\ Bounded(Witness) /\ Bounded(Negated)
<1>1. Q \div B + 1 \in Nat
  <2>1. \A a, b \in Nat : b >= 1 => a \div b \in Nat OBVIOUS
  <2> QED BY <2>1, Room, FieldAssumption
<1>2. Canonical \in Element /\ Witness \in Element /\ Negated \in Element
  BY <1>1 DEF Canonical, Witness, Negated, Element
<1>3. FitsAfterAdd(Canonical) /\ FitsAfterAdd(Witness) /\ FitsAfterAdd(Negated)
  BY Room, SmallOverheads DEF FitsAfterAdd, Canonical, Witness, Negated
<1> QED BY <1>2, <1>3 DEF Bounded

(* post_add_reduce bounds any element,                                     *)
LEMMA PostAddBounded ==
  ASSUME NEW x \in Element
  PROVE  Bounded(PostAddReduce(x))
BY FreshBounded DEF PostAddReduce, Bounded

(* the sum of two,                                                         *)
LEMMA SumBounded ==
  ASSUME NEW x, NEW y, Bounded(x), Bounded(y)
  PROVE  Bounded(PostAddReduce(SumOf(x, y)))
<1>1. SumOf(x, y) \in Element BY DEF Bounded, SumOf, Element
<1> QED BY <1>1, PostAddBounded

(* The surfeit of a bounded element is a natural number.                   *)
LEMMA SurfeitType ==
  ASSUME NEW y, Bounded(y)
  PROVE  SubSurfeit(y) \in Nat /\ SubSurfeit(y) >= 1
<1>1. y.adds + 1 \in Nat BY DEF Bounded, Element
<1> QED BY <1>1, OverheadLeast DEF SubSurfeit

(* What a subtraction takes away is bounded,                               *)
LEMMA SubtrahendBounded ==
  ASSUME NEW y, Bounded(y)
  PROVE  Bounded(Subtrahend(y))
BY FreshBounded DEF Subtrahend

(* and so is what it leaves.                                               *)
LEMMA SubBounded ==
  ASSUME NEW x, NEW y, Bounded(x), Bounded(y)
  PROVE  Bounded(PostAddReduce(SubWithoutReduce(x, y)))
<1>1. ASSUME NEW z, Bounded(z) PROVE PaddedSub(x, z) \in Element
  <2>1. Pow2[SubSurfeit(z)] \in Nat BY <1>1, SurfeitType, Pow2Step
  <2> QED BY <1>1, <2>1 DEF PaddedSub, Bounded, Element
<1> QED BY <1>1, SubtrahendBounded, PostAddBounded DEF SubWithoutReduce

(* A selection between bounded elements is bounded.                        *)
LEMMA SelectedBounded ==
  ASSUME NEW x, NEW y, Bounded(x), Bounded(y)
  PROVE  Bounded(Selected(x, y))
<1>1. /\ x.adds \in Nat /\ y.adds \in Nat /\ x.size \in Nat /\ y.size \in Nat
      /\ x.normal \in BOOLEAN /\ y.normal \in BOOLEAN
  BY DEF Bounded, Element
<1>2. /\ Max({x.adds, y.adds}) = IF x.adds >= y.adds THEN x.adds ELSE y.adds
      /\ Max({x.size, y.size}) = IF x.size >= y.size THEN x.size ELSE y.size
  BY <1>1, MaxPair
<1>3. Selected(x, y) \in Element
  BY <1>1, <1>2 DEF Selected, Element
<1>4. FitsAfterAdd(Selected(x, y))
  <2>1. Selected(x, y).adds \in {x.adds, y.adds} BY <1>2 DEF Selected
  <2> QED BY <2>1 DEF Bounded, FitsAfterAdd
<1> QED BY <1>3, <1>4 DEF Bounded

(* The operands pre_mul_reduce leaves are bounded.                         *)
LEMMA PreMulBounded ==
  ASSUME NEW x, NEW y, Bounded(x), Bounded(y)
  PROVE  Bounded(PreMulReduce(x, y)[1]) /\ Bounded(PreMulReduce(x, y)[2])
<1>1. \A a, b : Bounded(a) /\ Bounded(b)
        => Bounded(ReduceLarger(a, b)[1]) /\ Bounded(ReduceLarger(a, b)[2])
  BY FreshBounded DEF ReduceLarger
<1> QED BY <1>1 DEF PreMulReduce

(* The integer bound of an element is a natural number.                    *)
LEMMA ValMaxType ==
  ASSUME NEW x, Bounded(x)
  PROVE  ValMax(x) \in Nat
<1>1. x.size \in Nat BY DEF Bounded, Element
<1>2. TBits \in Nat /\ BitsPerLimb * NumLimbs \in Nat
  BY TargetAssumption, LimbAssumption
<1>3. Pow2[BitsPerLimb * NumLimbs] >= B
  <2>1. BitsPerLimb <= BitsPerLimb * NumLimbs BY LimbAssumption
  <2> QED BY <1>2, <2>1, Pow2Order, Room DEF B
<1>4. (Pow2[BitsPerLimb * NumLimbs] - B) \div (B - 1) \in Nat
  <2>1. Pow2[BitsPerLimb * NumLimbs] - B \in Nat
    BY <1>2, <1>3, Pow2Step, Room
  <2>2. B - 1 \in Nat /\ B - 1 > 0 BY Room
  <2>3. \A a, b \in Nat : b > 0 => a \div b \in Nat OBVIOUS
  <2> QED BY <2>1, <2>2, <2>3
<1>5. PadUnit \in Nat BY <1>2, <1>4, Pow2Step DEF PadUnit
<1>6. \A a, b \in Nat : a * b \in Nat OBVIOUS
<1> QED BY <1>1, <1>5, <1>6 DEF ValMax

(* Products, and what an element is turned into, have their types,         *)
LEMMA ProductType ==
  ASSUME NEW x, NEW y, Bounded(x), Bounded(y)
  PROVE  Product(x, y) \in MulResult /\ FromVar(x) \in MulResult
<1> DEFINE a == PreMulReduce(x, y)[1]
           b == PreMulReduce(x, y)[2]
<1>1. Bounded(a) /\ Bounded(b) BY PreMulBounded
<1>2. Product(x, y) = [sums |-> (a.adds + 1) * (b.adds + 1) * NumLimbs,
                       size |-> a.size * b.size * NumLimbs,
                       val  |-> ValMax(a) * ValMax(b)]
  BY DEF Product
<1> HIDE DEF a, b
<1>3. \A i, j \in Nat : i * j \in Nat OBVIOUS
<1>4. /\ a.adds + 1 \in Nat /\ b.adds + 1 \in Nat
      /\ a.size \in Nat /\ b.size \in Nat /\ NumLimbs \in Nat
  BY <1>1, Room DEF Bounded, Element
<1>5. /\ (a.adds + 1) * (b.adds + 1) * NumLimbs \in Nat
      /\ a.size * b.size * NumLimbs \in Nat
  BY <1>3, <1>4
<1>6. ValMax(a) * ValMax(b) \in Nat BY <1>1, <1>3, ValMaxType
<1>7. FromVar(x) \in MulResult
  BY ValMaxType DEF FromVar, Bounded, Element, MulResult
<1> QED BY <1>2, <1>5, <1>6, <1>7 DEF MulResult

(* and so have their sums.                                                 *)
LEMMA MulSumType ==
  ASSUME NEW u, NEW v, u \in MulResult, v \in MulResult
  PROVE  /\ MulSum(u, v) \in MulResult /\ MulSumConstant(u) \in MulResult
         /\ P - 1 \in Nat
<1>1. TBits - 1 \in Nat
  <2>1. TBits = BitsPerLimb * (NumLimbs - 1) + TopBits
    BY TargetAssumption, LimbAssumption DEF TopBits
  <2>2. BitsPerLimb * (NumLimbs - 1) \in Nat BY LimbAssumption
  <2> QED BY <2>1, <2>2, LimbAssumption
<1>2. P - 1 \in Nat
  <2>1. Pow2[TBits - 1] \in Nat /\ Pow2[TBits - 1] >= 1 BY <1>1, Pow2Step
  <2> QED BY <2>1, TargetAssumption
<1>3. \A a, b : a \in MulResult /\ b \in MulResult => MulSum(a, b) \in MulResult
  BY DEF MulSum, MulResult
<1>4. [sums |-> 1, size |-> 1, val |-> P - 1] \in MulResult
  BY <1>2 DEF MulResult
<1> QED BY <1>2, <1>3, <1>4 DEF MulSumConstant

-----------------------------------------------------------------------------
(* No sequence of gadget calls panics, for limbs of at least four bits and *)
(* unreduced sums that are kept within what reduce can take.               *)

(* Bits of counter that post_add_reduce leaves to an element.              *)
CounterBits == MBS - 2 * BitsPerLimb - 3

(* What the proof needs beyond the assumptions of EmulatedRepr.            *)
LimbsNotNarrow == BitsPerLimb >= 4
SumsReducible  == Overhead(MaxProdSums + 1) + 2 * BitsPerLimb <= MBS - 4

-----------------------------------------------------------------------------
(* Groups of limbs.                                                        *)

(* No panic is reported where there is none.                               *)
LEMMA PanicInFaults ==
  ASSUME NEW a, NEW b, NEW c, ~a
  PROVE  "panic" \notin Faults(a, b, c)
BY DEF Faults

(* A power of two below the width of the field is in the field.            *)
LEMMA PadFitsField ==
  ASSUME NEW e \in Nat, e <= MBS - 1
  PROVE  Pow2[e] < Q
<1>1. MBS - 1 \in Nat BY Room
<1>2. Pow2[e] <= Pow2[MBS - 1] BY <1>1, Pow2Order
<1> QED BY <1>1, <1>2, FieldAssumption, Pow2Step

(* group_and_check_equality: where a limb with its surfeit leaves four     *)
(* bits free, a group has a limb and its padding is a field element.       *)
LEMMA GroupsDoNotPanic ==
  ASSUME NEW surfeit \in Nat, NEW bits \in Nat, NEW shift \in Nat,
         NEW len \in Nat, shift >= 1, shift <= bits, len >= 1,
         surfeit + bits <= MBS - 4, NEW left, NEW right
  PROVE  "panic" \notin GroupFaults(surfeit, bits, shift, left, right, len)
<1> DEFINE free == MBS - 4 - surfeit - (bits - shift)
           size == GroupSize(MBS, surfeit, bits, shift)
           g    == Min({size, len})
<1>1. MBS \in Nat BY Room
<1>2. free \in Nat /\ free >= shift BY <1>1
<1>3. size = free \div shift
  <2>1. MBS - 1 - surfeit - 1 - 1 - 1 - (bits - shift) = free BY <1>1
  <2> QED BY <2>1 DEF GroupSize
<1> HIDE DEF free
<1>4. size \in Nat /\ size >= 1 /\ shift * size <= free
  <2>1. ASSUME NEW a \in Nat, NEW b \in Nat, b >= 1, a >= b
        PROVE  a \div b \in Nat /\ a \div b >= 1 /\ b * (a \div b) <= a
    BY <2>1
  <2> QED BY <1>2, <1>3, <2>1
<1> HIDE DEF size
<1>5. g \in Nat /\ g <= size BY <1>4, MinPair
<1> HIDE DEF g
<1>6. shift * g \in Nat /\ shift * g <= free
  <2>1. \A a, b, c \in Nat : a <= b => c * a \in Nat /\ c * a <= c * b
    OBVIOUS
  <2>2. shift * g <= shift * size /\ shift * g \in Nat BY <1>4, <1>5, <2>1
  <2>3. shift * size \in Nat BY <1>4
  <2> QED BY <1>2, <1>4, <2>2, <2>3
<1>7. /\ PadExponent(surfeit, bits, shift, g) \in Nat
      /\ PadExponent(surfeit, bits, shift, g) <= MBS - 1
  BY <1>1, <1>6 DEF PadExponent, free
<1>8. ~(Pow2[PadExponent(surfeit, bits, shift, g)] >= Q)
  BY <1>7, PadFitsField, FieldAssumption, Pow2Step
<1>9. ~(size < 1) BY <1>4
<1>10. "panic" \notin CarryFaults(surfeit, bits, shift, len)
  BY CarryFaultsAreLoose
<1> QED
  BY <1>8, <1>9, <1>10, PanicInFaults DEF GroupFaults, size, g

-----------------------------------------------------------------------------
(* Elements.                                                               *)

(* The counter of an element has at least four bits of room.               *)
LEMMA CounterBitsRoom == CounterBits \in Nat /\ CounterBits >= 4
BY Room DEF CounterBits

(* The counter of a bounded element fits its bits.                         *)
LEMMA CounterFits ==
  ASSUME NEW x, Bounded(x)
  PROVE  x.adds \in Nat /\ x.adds + 1 <= Pow2[CounterBits]
<1>1. x.adds \in Nat BY DEF Bounded, Element
<1>2. Overhead(x.adds + 1) \in Nat /\ x.adds + 1 <= Pow2[Overhead(x.adds + 1)]
  BY <1>1, OverheadLeast
<1>3. Overhead(x.adds + 1) <= CounterBits
  BY <1>2, Room DEF Bounded, FitsAfterAdd, CounterBits
<1>4. Pow2[Overhead(x.adds + 1)] <= Pow2[CounterBits]
  BY <1>2, <1>3, CounterBitsRoom, Pow2Order
<1> QED BY <1>1, <1>2, <1>4, CounterBitsRoom, Pow2Step

(* The surfeit of a bounded element fits those bits, and one more.         *)
LEMMA SurfeitFits ==
  ASSUME NEW y, Bounded(y)
  PROVE  SubSurfeit(y) \in Nat /\ SubSurfeit(y) <= CounterBits + 1
<1>1. Overhead(y.adds + 1) <= CounterBits
  BY CounterFits, CounterBitsRoom, OverheadLeast
<1> QED BY <1>1, SurfeitType, CounterFits, OverheadLeast, CounterBitsRoom
        DEF SubSurfeit

(* A subtraction never finds its subtrahend in need of a reduction: the    *)
(* reduction after every addition has seen to that.                        *)
LEMMA SubtrahendKept ==
  ASSUME NEW y, Bounded(y)
  PROVE  ~SubMustReduce(y)
BY SurfeitFits, Room DEF SubMustReduce, CounterBits

(* The padding of a subtraction fits the field.                            *)
LEMMA PaddedSubDoesNotPanic ==
  ASSUME NEW x, NEW y, Bounded(y)
  PROVE  "panic" \notin PaddedSubFaults(x, y)
<1> DEFINE s == SubSurfeit(y)
<1>1. s \in Nat /\ s + BitsPerLimb \in Nat /\ s + TopBits \in Nat
  BY SurfeitFits, Room
<1>2. s + BitsPerLimb <= MBS - 1 /\ s + TopBits <= MBS - 1
  BY SurfeitFits, Room DEF CounterBits
<1>3. /\ ~(Pow2[s + BitsPerLimb] >= Q)
      /\ ~(Pow2[s + TopBits] >= Q)
  BY <1>1, <1>2, PadFitsField, FieldAssumption, Pow2Step
<1> QED BY <1>3, PanicInFaults DEF PaddedSubFaults

(* An equality check does not panic while the difference has two bits of   *)
(* counter more than an element.                                           *)
LEMMA EqualDoesNotPanic ==
  ASSUME LimbsNotNarrow, NEW x, NEW y, Bounded(y), x.adds \in Nat,
         x.adds + Pow2[SubSurfeit(y)] + 2 <= Pow2[CounterBits + 2]
  PROVE  "panic" \notin EqualFaults(x, y)
<1> DEFINE d       == PaddedSub(x, y)
           surfeit == Overhead(d.adds + 1) + 1
           kMax    == Pow2[Min({MBS - 1, surfeit})] - 1
<1>1. d.adds + 1 \in Nat /\ d.adds + 1 <= Pow2[CounterBits + 2]
  BY SurfeitFits, Pow2Step DEF PaddedSub
<1>2. surfeit \in Nat /\ surfeit <= CounterBits + 3
  BY <1>1, OverheadLeast, CounterBitsRoom
<1> HIDE DEF surfeit
<1>3. surfeit + BitsPerLimb <= MBS - 4
  BY <1>2, Room DEF CounterBits, LimbsNotNarrow
<1>4. "panic" \notin GroupFaults(surfeit, BitsPerLimb, BitsPerLimb,
                       LimbMax(d), kMax * (B - 1), NumLimbs)
  BY <1>2, <1>3, GroupsDoNotPanic, Room
<1>5. "panic" \notin Faults(FALSE, FALSE, ValMax(d) \div P > kMax)
  BY PanicInFaults
<1>6. "panic" \notin PaddedSubFaults(x, y) BY PaddedSubDoesNotPanic
<1> QED BY <1>4, <1>5, <1>6 DEF EqualFaults, surfeit

(* The powers of two next to the largest counter.                          *)
LEMMA PowersOfCounter ==
  /\ Pow2[CounterBits] \in Nat /\ Pow2[CounterBits] >= 16
  /\ Pow2[CounterBits + 1] = 2 * Pow2[CounterBits]
  /\ Pow2[CounterBits + 2] = 4 * Pow2[CounterBits]
  /\ Pow2[2] = 4
<1>1. Pow2[0 + 1] = 2 * Pow2[0] /\ Pow2[1 + 1] = 2 * Pow2[1]
      /\ Pow2[2 + 1] = 2 * Pow2[2] /\ Pow2[3 + 1] = 2 * Pow2[3]
  BY Pow2Step
<1>2. Pow2[4] = 16 /\ Pow2[2] = 4 BY <1>1, Pow2Step
<1>3. Pow2[4] <= Pow2[CounterBits] BY CounterBitsRoom, Pow2Order
<1>4. Pow2[(CounterBits + 1) + 1] = 2 * Pow2[CounterBits + 1]
  BY CounterBitsRoom, Pow2Step
<1> QED BY <1>2, <1>3, <1>4, CounterBitsRoom, Pow2Step

(* The padding adds at most twice the largest counter.                     *)
LEMMA PaddingBound ==
  ASSUME NEW y, Bounded(y)
  PROVE  Pow2[SubSurfeit(y)] \in Nat /\ Pow2[SubSurfeit(y)] <= 2 * Pow2[CounterBits]
<1>1. Pow2[SubSurfeit(y)] <= Pow2[CounterBits + 1]
  BY SurfeitFits, CounterBitsRoom, Pow2Order
<1> QED BY <1>1, SurfeitFits, PowersOfCounter, Pow2Step

(* What reduce is called with: the sum of two elements, or a difference.   *)
HasRoom(x) == x.adds \in Nat /\ x.adds + 1 <= 3 * Pow2[CounterBits] + 1

(* A bounded element may be reduced, so may the sum of two, and so may     *)
(* their difference.                                                       *)
LEMMA CallsHaveRoom ==
  ASSUME NEW x, NEW y, Bounded(x), Bounded(y)
  PROVE  /\ HasRoom(x) /\ HasRoom(SumOf(x, y))
         /\ HasRoom(SubWithoutReduce(x, y))
<1>1. SumOf(x, y).adds = x.adds + y.adds + 1 BY DEF SumOf
<1>2. SubWithoutReduce(x, y) = PaddedSub(x, y)
  BY SubtrahendKept DEF SubWithoutReduce, Subtrahend
<1>3. PaddedSub(x, y).adds = x.adds + Pow2[SubSurfeit(y)] + 1
  BY DEF PaddedSub
<1> QED BY <1>1, <1>2, <1>3, CounterFits, PaddingBound, PowersOfCounter DEF HasRoom

(* A sum of products that reduce can take.                                 *)
Reducible(u) ==
  u.sums \in Nat /\ Overhead(u.sums + 1) + 2 * BitsPerLimb <= MBS - 4

(* A product whose counter leaves room is reduced without a panic.         *)
LEMMA MulReduceDoesNotPanic ==
  ASSUME NEW u, Reducible(u)
  PROVE  "panic" \notin MulReduceFaults(u)
<1> DEFINE surfeit == Overhead(u.sums + 1)
<1>1. surfeit \in Nat BY OverheadLeast DEF Reducible
<1>2. surfeit + 2 * BitsPerLimb <= MBS - 4 BY DEF Reducible
<1> HIDE DEF surfeit
<1>3. \A left, right :
        "panic" \notin GroupFaults(surfeit, 2 * BitsPerLimb, BitsPerLimb,
                                  left, right, 2 * NumLimbs - 1)
  BY <1>1, <1>2, GroupsDoNotPanic, Room
<1>4. \A b, c : "panic" \notin Faults(FALSE, b, c) BY PanicInFaults
<1> QED BY <1>3, <1>4 DEF MulReduceFaults, surfeit

(* The first check of pre_mul_reduce passes: its loop could not end if it  *)
(* did not.                                                                *)
LEMMA MulSupported == ~(2 * BitsPerLimb + Log2Ceil(NumLimbs + 1) >= MBS - 3)
<1>1. NumLimbs + 1 \in Nat /\ 1 + 4 * NumLimbs \in Nat
      /\ NumLimbs + 1 <= 1 + 4 * NumLimbs
  BY LimbAssumption
<1>2. Overhead(NumLimbs + 1) <= Overhead(1 + 4 * NumLimbs)
  BY <1>1, OverheadOrder
<1>3. Overhead(NumLimbs + 1) \in Nat /\ Overhead(1 + 4 * NumLimbs) \in Nat
  BY <1>1, OverheadLeast
<1> QED BY <1>2, <1>3, MulAssumption, FieldAssumption, LimbAssumption
        DEF Log2Ceil

(* pre_mul_reduce ends with operands whose product fits.                   *)
LEMMA PreMulFits ==
  ASSUME NEW x, NEW y, Bounded(x), Bounded(y)
  PROVE  MulFits(PreMulReduce(x, y)[1], PreMulReduce(x, y)[2])
<1> DEFINE once == ReduceLarger(x, y)
           twice == ReduceLarger(once[1], once[2])
<1>1. x.adds \in Nat /\ y.adds \in Nat BY CounterFits
<1>2. ASSUME NEW a \in Nat, NEW b \in Nat, a <= 1, b <= 1
      PROVE  2 * BitsPerLimb + Overhead(1 + (a + 1) * (b + 1) * NumLimbs)
               < MBS - 3
  <2>1. /\ 1 + (a + 1) * (b + 1) * NumLimbs \in Nat
        /\ 1 + (a + 1) * (b + 1) * NumLimbs <= 1 + 4 * NumLimbs
    <3>1. (a = 0 \/ a = 1) /\ (b = 0 \/ b = 1) BY <1>2
    <3> QED BY <3>1, LimbAssumption
  <2>2. Overhead(1 + (a + 1) * (b + 1) * NumLimbs) <= Overhead(1 + 4 * NumLimbs)
    BY <2>1, OverheadOrder, LimbAssumption
  <2>3. /\ Overhead(1 + (a + 1) * (b + 1) * NumLimbs) \in Nat
        /\ Overhead(1 + 4 * NumLimbs) \in Nat
    BY <2>1, OverheadLeast, LimbAssumption
  <2> QED BY <2>2, <2>3, MulAssumption, FieldAssumption, LimbAssumption
<1>3. ASSUME NEW a, NEW b, a.adds \in Nat, b.adds \in Nat, a.adds <= 1, b.adds <= 1
      PROVE  MulFits(a, b)
  BY <1>2, <1>3 DEF MulFits
<1>4. Witness.adds = 1 BY DEF Witness
<1>5. CASE x.adds >= y.adds
  <2>1. once = <<Witness, y>> BY <1>5 DEF ReduceLarger
  <2>2. CASE y.adds <= 1
    <3>1. MulFits(once[1], once[2]) BY <1>1, <1>3, <1>4, <2>1, <2>2
    <3> QED BY <3>1 DEF PreMulReduce
  <2>3. CASE ~(y.adds <= 1)
    <3>1. twice = <<Witness, Witness>>
      BY <1>1, <1>4, <2>1, <2>3 DEF ReduceLarger
    <3>2. MulFits(twice[1], twice[2]) BY <1>3, <1>4, <3>1
    <3> QED BY <3>2 DEF PreMulReduce
  <2> QED BY <2>2, <2>3
<1>6. CASE ~(x.adds >= y.adds)
  <2>1. once = <<x, Witness>> BY <1>6 DEF ReduceLarger
  <2>2. CASE x.adds <= 1
    <3>1. MulFits(once[1], once[2]) BY <1>1, <1>3, <1>4, <2>1, <2>2
    <3> QED BY <3>1 DEF PreMulReduce
  <2>3. CASE ~(x.adds <= 1)
    <3>1. twice = <<Witness, Witness>>
      BY <1>1, <1>4, <2>1, <2>3 DEF ReduceLarger
    <3>2. MulFits(twice[1], twice[2]) BY <1>3, <1>4, <3>1
    <3> QED BY <3>2 DEF PreMulReduce
  <2> QED BY <2>2, <2>3
<1> QED BY <1>5, <1>6

(* mul_without_reduce only makes such products,                            *)
LEMMA ProductReducible ==
  ASSUME NEW x, NEW y, Bounded(x), Bounded(y)
  PROVE  Reducible(Product(x, y))
<1> DEFINE a == PreMulReduce(x, y)[1]
           b == PreMulReduce(x, y)[2]
<1>1. Bounded(a) /\ Bounded(b) /\ MulFits(a, b) BY PreMulBounded, PreMulFits
<1> HIDE DEF a, b
<1>2. (a.adds + 1) * (b.adds + 1) * NumLimbs \in Nat
  <2>1. \A i, j \in Nat : i * j \in Nat OBVIOUS
  <2>2. a.adds + 1 \in Nat /\ b.adds + 1 \in Nat BY <1>1, CounterFits
  <2>3. (a.adds + 1) * (b.adds + 1) \in Nat BY <2>1, <2>2
  <2> QED BY <2>1, <2>3, LimbAssumption
<1>3. Product(x, y).sums = (a.adds + 1) * (b.adds + 1) * NumLimbs
  BY DEF Product, a, b
<1> DEFINE n == (a.adds + 1) * (b.adds + 1) * NumLimbs
<1>4. 2 * BitsPerLimb + Overhead(1 + n) < MBS - 3 BY <1>1 DEF MulFits
<1> HIDE DEF n
<1>5. n \in Nat /\ 1 + n = n + 1 BY <1>2 DEF n
<1>6. Overhead(n + 1) \in Nat BY <1>5, OverheadLeast
<1>7. 2 * BitsPerLimb + Overhead(n + 1) < MBS - 3 BY <1>4, <1>5
<1>8. Overhead(n + 1) + 2 * BitsPerLimb <= MBS - 4 BY <1>6, <1>7, Room
<1> QED BY <1>3, <1>5, <1>8 DEF Reducible, n

(* and sums within the bound are such products.                            *)
LEMMA SumReducible ==
  ASSUME SumsReducible, NEW u, u.sums \in Nat, u.sums <= MaxProdSums
  PROVE  Reducible(u)
<1>1. Overhead(u.sums + 1) <= Overhead(MaxProdSums + 1)
  BY OverheadOrder, BoundAssumption
<1>2. Overhead(u.sums + 1) \in Nat /\ Overhead(MaxProdSums + 1) \in Nat
  BY OverheadLeast, BoundAssumption
<1> QED BY <1>1, <1>2, Room DEF Reducible, SumsReducible

(* A call is calm when it does not panic where limbs and sums are as       *)
(* supposed.                                                               *)
Calm(f) ==
  /\ f \subseteq FaultKinds \cup {"negated"}
  /\ LimbsNotNarrow /\ SumsReducible => "panic" \notin f

(* Reductions are calm,                                                    *)
LEMMA ReduceCalm ==
  ASSUME NEW x, HasRoom(x)
  PROVE  Calm(ReduceFaults(x)) /\ Calm(PostAddFaults(x))
<1>1. ASSUME LimbsNotNarrow PROVE "panic" \notin EqualFaults(x, Witness)
  <2>1. SubSurfeit(Witness) = 2
    BY SmallOverheads DEF SubSurfeit, Witness
  <2>2. x.adds + Pow2[SubSurfeit(Witness)] + 2 <= Pow2[CounterBits + 2]
    BY <2>1, PowersOfCounter DEF HasRoom
  <2> QED BY <1>1, <2>2, FreshBounded, EqualDoesNotPanic DEF HasRoom
<1> QED BY <1>1, SubFaultsAreKinds DEF ReduceFaults, PostAddFaults, Calm

(* and so are equality checks of bounded elements and subtractions,        *)
LEMMA SubCalm ==
  ASSUME NEW x, NEW y, Bounded(x), Bounded(y)
  PROVE  /\ Calm(ConditionalEnforceEqualFaults(x, y))
         /\ Calm(SubFaults(x, y))
         /\ Calm(PostAddFaults(SubWithoutReduce(x, y)))
<1>1. Subtrahend(y) = y /\ SubtrahendFaults(y) = {}
  BY SubtrahendKept DEF Subtrahend, SubtrahendFaults
<1>2. x.adds + Pow2[SubSurfeit(y)] + 2 <= Pow2[CounterBits + 2]
  BY CounterFits, PaddingBound, PowersOfCounter
<1>3. LimbsNotNarrow => "panic" \notin EqualFaults(x, y)
  BY <1>2, CounterFits, EqualDoesNotPanic
<1>4. Calm(ConditionalEnforceEqualFaults(x, y))
  BY <1>1, <1>3, SubFaultsAreKinds DEF ConditionalEnforceEqualFaults, Calm
<1>5. Calm(SubFaults(x, y))
  BY <1>1, PaddedSubDoesNotPanic, SubFaultsAreKinds DEF SubFaults, Calm
<1> QED BY <1>4, <1>5, CallsHaveRoom, ReduceCalm

(* reductions of products,                                                 *)
LEMMA MulReduceCalm ==
  ASSUME NEW u, LimbsNotNarrow /\ SumsReducible => Reducible(u)
  PROVE  Calm(MulReduceFaults(u))
BY MulReduceDoesNotPanic, MulFaultsAreKinds DEF Calm

(* multiplications and inversions.                                         *)
LEMMA MulCalm ==
  ASSUME NEW x, NEW y, Bounded(x), Bounded(y)
  PROVE  /\ Calm(PreMulFaults(x, y)) /\ Calm(MulFaults(x, y))
         /\ Calm(InverseFaults(x))
<1>1. ASSUME NEW z, NEW w, Bounded(z), Bounded(w)
      PROVE  Calm(PreMulFaults(z, w)) /\ Calm(MulFaults(z, w))
  <2>1. Calm(ReduceFaults(z)) /\ Calm(ReduceFaults(w))
    BY <1>1, CallsHaveRoom, ReduceCalm
  <2>2. "panic" \notin Faults(2 * BitsPerLimb + Log2Ceil(NumLimbs + 1) >= MBS - 3,
                              FALSE, FALSE)
    BY MulSupported, PanicInFaults
  <2>3. Calm(PreMulFaults(z, w))
    BY <2>1, <2>2, MulFaultsAreKinds DEF PreMulFaults, Calm
  <2>4. Calm(MulReduceFaults(Product(z, w)))
    BY <1>1, ProductReducible, MulReduceCalm
  <2>5. Calm(MulFaults(z, w)) BY <2>3, <2>4 DEF MulFaults, Calm
  <2> QED BY <2>3, <2>5
<1>2. Calm(MulFaults(x, Witness)) BY <1>1, FreshBounded
<1>3. Calm(ConditionalEnforceEqualFaults(Witness, Canonical))
  BY FreshBounded, SubCalm
<1>4. Calm(InverseFaults(x)) BY <1>2, <1>3 DEF InverseFaults, Calm
<1> QED BY <1>1, <1>4

-----------------------------------------------------------------------------
(* The invariant of the counters, for every program: bounded elements,     *)
(* products that reduce can take, and nothing but calm calls so far.       *)

CountInv ==
  /\ slot \in [Slots -> Element] /\ \A s \in Slots : Bounded(slot[s])
  /\ prod \in [ProdSlots -> MulResult]
  /\ LimbsNotNarrow /\ SumsReducible => \A s \in ProdSlots : Reducible(prod[s])
  /\ Calm(faults)

(* The empty circuit satisfies it.                                         *)
LEMMA CountInit == Init => CountInv
<1> SUFFICES ASSUME Init PROVE CountInv
  OBVIOUS
<1>1. Canonical \in Element /\ FromVar(Canonical) \in MulResult
  BY FreshBounded, ProductType DEF Bounded
<1>2. FromVar(Canonical).sums = 1 BY DEF FromVar, Canonical
<1>3. LimbsNotNarrow => Reducible(FromVar(Canonical))
  BY <1>2, SmallOverheads, Room DEF Reducible, LimbsNotNarrow
<1> QED BY <1>1, <1>3, FreshBounded DEF Init, CountInv, Calm

(* A call that stores a bounded element keeps it,                          *)
LEMMA PutCount ==
  ASSUME CountInv, NEW d \in Slots, NEW x, Bounded(x), NEW f, Calm(f),
         Put(d, x, f)
  PROVE  CountInv'
<1>1. x \in Element BY DEF Bounded
<1>2. slot' \in [Slots -> Element] BY <1>1 DEF CountInv, Put
<1>3. ASSUME NEW s \in Slots PROVE Bounded(slot'[s])
  <2>1. CASE s = d BY <2>1 DEF CountInv, Put
  <2>2. CASE s # d
    <3>1. slot'[s] = slot[s] BY <2>2 DEF CountInv, Put
    <3> QED BY <3>1 DEF CountInv
  <2> QED BY <2>1, <2>2
<1>4. Calm(faults') /\ prod' = prod BY DEF CountInv, Calm, Put
<1> QED BY <1>2, <1>3, <1>4 DEF CountInv

(* one that stores a product that can be reduced,                          *)
LEMMA PutProdCount ==
  ASSUME CountInv, NEW d \in ProdSlots, NEW u \in MulResult,
         LimbsNotNarrow /\ SumsReducible => Reducible(u),
         NEW f, Calm(f), PutProd(d, u, f)
  PROVE  CountInv'
<1>1. prod' \in [ProdSlots -> MulResult] BY DEF CountInv, PutProd
<1>2. ASSUME LimbsNotNarrow, SumsReducible, NEW s \in ProdSlots
      PROVE  Reducible(prod'[s])
  <2>1. CASE s = d
    <3>1. prod'[s] = u BY <2>1 DEF CountInv, PutProd
    <3> QED BY <1>2, <3>1
  <2>2. CASE s # d
    <3>1. prod'[s] = prod[s] BY <2>2 DEF CountInv, PutProd
    <3> QED BY <1>2, <3>1 DEF CountInv
  <2> QED BY <2>1, <2>2
<1>3. Calm(faults') /\ slot' = slot BY DEF CountInv, Calm, PutProd
<1> QED BY <1>1, <1>2, <1>3 DEF CountInv

(* and one that stores nothing.                                            *)
LEMMA EnforceCount ==
  ASSUME CountInv, NEW f, Calm(f), Enforce(f)
  PROVE  CountInv'
BY DEF CountInv, Calm, Enforce

(* All operands are bounded.                                               *)
LEMMA OperandsBounded ==
  ASSUME CountInv, NEW x \in Operands
  PROVE  Bounded(x)
BY FreshBounded DEF CountInv, Operands

(* Every call keeps the invariant of the counters.                         *)
LEMMA CountNext == CountInv /\ [Next]_vars => CountInv'
<1> SUFFICES ASSUME CountInv, [Next]_vars PROVE CountInv'
  OBVIOUS
<1>0. /\ Calm({}) /\ Calm({"negated"})
      /\ \A f, g : Calm(f) /\ Calm(g) => Calm(f \cup g)
  BY DEF Calm
<1> USE <1>0, FreshBounded, OperandsBounded, PutCount, PutProdCount, EnforceCount
<1>1. ASSUME NEW d \in Slots,
             \/ NewInput(d) \/ NewWitness(d)
             \/ TwoBitLookup(d) \/ ThreeBitCondNegLookup(d)
      PROVE  CountInv'
  BY <1>1 DEF NewInput, NewWitness, TwoBitLookup, ThreeBitCondNegLookup
<1>2. ASSUME NEW d \in Slots, NEW x, NEW y, Bounded(x), Bounded(y), Add(d, x, y)
      PROVE  CountInv'
  <2>1. Calm(PostAddFaults(SumOf(x, y))) BY <1>2, CallsHaveRoom, ReduceCalm
  <2> QED BY <1>2, <2>1, SumBounded DEF Add
<1>3. ASSUME NEW d \in Slots, NEW x, NEW y, Bounded(x), Bounded(y), Sub(d, x, y)
      PROVE  CountInv'
  <2>1. Calm(SubFaults(x, y) \cup PostAddFaults(SubWithoutReduce(x, y)))
    BY <1>3, SubCalm
  <2> QED BY <1>3, <2>1, SubBounded DEF Sub
<1>4. ASSUME NEW d \in Slots, NEW x, NEW y, Bounded(x), Bounded(y), Mul(d, x, y)
      PROVE  CountInv'
  BY <1>4, MulCalm DEF Mul
<1>5. ASSUME NEW d \in Slots, NEW x, NEW y, Bounded(x), Bounded(y),
             ConditionallySelect(d, x, y)
      PROVE  CountInv'
  BY <1>5, SelectedBounded DEF ConditionallySelect
<1>6. ASSUME NEW d \in Slots, NEW x, Bounded(x), InverseOf(d, x) PROVE CountInv'
  BY <1>6, MulCalm DEF InverseOf
<1>7. ASSUME NEW x, NEW y, Bounded(x), Bounded(y),
             ConditionalEnforceEqual(x, y) \/ ConditionalEnforceNotEqual(x, y)
      PROVE  CountInv'
  <2>1. Calm(ConditionalEnforceEqualFaults(x, y)) BY <1>7, SubCalm
  <2> DEFINE r == SubWithoutReduce(x, y)
             w == Selected(PostAddReduce(r), Canonical)
  <2>2. Calm(InverseFaults(w)) BY <1>7, SubBounded, SelectedBounded, MulCalm
  <2>3. Calm(SubFaults(x, y)) /\ Calm(PostAddFaults(r)) BY <1>7, SubCalm
  <2> HIDE DEF w
  <2>4. Calm(SubFaults(x, y) \cup PostAddFaults(r) \cup InverseFaults(w))
    BY <2>2, <2>3
  <2> QED BY <1>7, <2>1, <2>4
          DEF ConditionalEnforceEqual, ConditionalEnforceNotEqual, w
<1>8. ASSUME NEW x, Bounded(x), ToBitsLe(x) PROVE CountInv'
  <2>1. Calm(ReduceFaults(x)) BY <1>8, CallsHaveRoom, ReduceCalm
  <2>2. \A c : Calm(Faults(FALSE, FALSE, c))
    BY PanicInFaults, FaultsAreKinds DEF Calm
  <2>3. PICK f : Calm(f) /\ Enforce(f)
    <3>1. Calm(IF x.normal THEN {} ELSE ReduceFaults(x)) BY <2>1
    <3> QED BY <1>8, <2>2, <3>1 DEF ToBitsLe
  <2> QED BY <2>3
<1>9. ASSUME NEW d \in ProdSlots, NEW x, NEW y, Bounded(x), Bounded(y),
             MulWithoutReduce(d, x, y)
      PROVE  CountInv'
  BY <1>9, ProductType, ProductReducible, MulCalm DEF MulWithoutReduce
<1>10. ASSUME NEW d \in ProdSlots, NEW x, Bounded(x), MulResultFrom(d, x)
       PROVE  CountInv'
  <2>1. FromVar(x).sums = x.adds + 1 /\ FromVar(x) \in MulResult
    BY <1>10, ProductType DEF FromVar
  <2>2. SumsReducible => Reducible(FromVar(x))
    BY <1>10, <2>1, CounterFits, SumReducible DEF MulResultFrom
  <2> QED BY <1>10, <2>1, <2>2 DEF MulResultFrom
<1>11. ASSUME NEW d \in ProdSlots, NEW s \in ProdSlots, NEW t \in ProdSlots,
              MulResultAdd(d, prod[s], prod[t]) \/ MulResultAddConstant(d, prod[s])
       PROVE  CountInv'
  <2>1. prod[s] \in MulResult /\ prod[t] \in MulResult BY DEF CountInv
  <2>2. /\ MulSum(prod[s], prod[t]).sums = prod[s].sums + prod[t].sums
        /\ MulSumConstant(prod[s]).sums = prod[s].sums + 1
    BY DEF MulSum, MulSumConstant
  <2>3. /\ MulSum(prod[s], prod[t]) \in MulResult
        /\ MulSumConstant(prod[s]) \in MulResult
    BY <2>1, MulSumType
  <2>4. CASE MulResultAdd(d, prod[s], prod[t])
    <3>1. MulSum(prod[s], prod[t]).sums <= MaxProdSums
      BY <2>2, <2>4 DEF MulResultAdd
    <3>2. SumsReducible => Reducible(MulSum(prod[s], prod[t]))
      BY <2>3, <3>1, SumReducible DEF MulResult
    <3> QED BY <2>3, <2>4, <3>2 DEF MulResultAdd
  <2>5. CASE MulResultAddConstant(d, prod[s])
    <3>1. MulSumConstant(prod[s]).sums <= MaxProdSums
      BY <2>2, <2>5 DEF MulResultAddConstant
    <3>2. SumsReducible => Reducible(MulSumConstant(prod[s]))
      BY <2>3, <3>1, SumReducible DEF MulResult
    <3> QED BY <2>3, <2>5, <3>2 DEF MulResultAddConstant
  <2> QED BY <1>11, <2>4, <2>5
<1>12. ASSUME NEW d \in Slots, NEW s \in ProdSlots, MulResultReduce(d, prod[s])
       PROVE  CountInv'
  <2>1. Calm(MulReduceFaults(prod[s])) BY MulReduceCalm DEF CountInv
  <2> QED BY <1>12, <2>1 DEF MulResultReduce
<1>13. CASE UNCHANGED vars BY <1>13 DEF vars, CountInv
<1> QED
  BY <1>1, <1>2, <1>3, <1>4, <1>5, <1>6, <1>7, <1>8, <1>9, <1>10, <1>11,
     <1>12, <1>13
  DEF Next, AddConstant, SubConstant, MulConstant, Negate

(* The variables keep their types.                                         *)
THEOREM TypeCorrect == Spec => []TypeOK
<1>1. CountInv => TypeOK BY DEF CountInv, Calm, TypeOK, FaultKinds
<1> QED BY <1>1, CountInit, CountNext, PTL DEF Spec

(* post_add_reduce leaves every element room for a multiplication,         *)
(* whatever calls the program makes.                                       *)
THEOREM LazyReductionHasRoomAlways == Spec => []LazyReductionHasRoom
<1>1. CountInv => LazyReductionHasRoom
  BY DEF CountInv, Bounded, LazyReductionHasRoom
<1> QED BY <1>1, CountInit, CountNext, PTL DEF Spec

(* With limbs of at least four bits, and unreduced sums kept within what   *)
(* reduce can take, no sequence of calls, negated limbs or not, makes a    *)
(* group of no limbs, subtracts below zero in usize, or shifts a padding   *)
(* out of the field.                                                       *)
THEOREM NeverPanics ==
  ASSUME LimbsNotNarrow, SumsReducible
  PROVE  Spec => []NoPanic
<1>1. CountInv => NoPanic BY DEF CountInv, Calm, NoPanic
<1> QED BY <1>1, CountInit, CountNext, PTL DEF Spec

-----------------------------------------------------------------------------
(* Without negated limbs the counter bounds the size of an element, and    *)
(* only a canonical element is marked normal.                              *)

Good(x) ==
  /\ Bounded(x)
  /\ x.size <= x.adds + 1
  /\ x.normal => x.adds = 0 /\ x.size <= 1

(* The same of an unreduced product.                                       *)
GoodProd(u) == u \in MulResult /\ u.size <= u.sums

(* Inputs, constants and witnesses are good.                               *)
LEMMA FreshGood == Good(Canonical) /\ Good(Witness)
BY FreshBounded DEF Good, Canonical, Witness

(* post_add_reduce makes a good element of anything the counter bounds.    *)
LEMMA PostAddGood ==
  ASSUME NEW x \in Element, x.size <= x.adds + 1, x.normal = FALSE
  PROVE  Good(PostAddReduce(x))
<1>1. CASE FitsAfterAdd(x) BY <1>1 DEF PostAddReduce, Good, Bounded
<1>2. CASE ~FitsAfterAdd(x) BY <1>2, FreshGood DEF PostAddReduce
<1> QED BY <1>1, <1>2

(* The reduced sum of good elements is good.                               *)
LEMMA SumGood ==
  ASSUME NEW x, NEW y, Good(x), Good(y)
  PROVE  Good(PostAddReduce(SumOf(x, y)))
<1>1. /\ SumOf(x, y) \in Element
      /\ SumOf(x, y).size <= SumOf(x, y).adds + 1
      /\ SumOf(x, y).normal = FALSE
  BY DEF Good, Bounded, SumOf, Element
<1> QED BY <1>1, PostAddGood

(* What a subtraction takes away is good.                                  *)
LEMMA SubtrahendGood ==
  ASSUME NEW y, Good(y)
  PROVE  Good(Subtrahend(y))
BY FreshGood DEF Subtrahend

(* The padded difference is an element its counter bounds.                 *)
LEMMA PaddedSubType ==
  ASSUME NEW x, NEW y, Good(x), Good(y)
  PROVE  /\ PaddedSub(x, y) \in Element
         /\ PaddedSub(x, y).size <= PaddedSub(x, y).adds + 1
         /\ PaddedSub(x, y).normal = FALSE
<1>1. Pow2[SubSurfeit(y)] \in Nat BY SurfeitType, Pow2Step DEF Good
<1> QED BY <1>1 DEF PaddedSub, Good, Bounded, Element

(* The reduced difference of good elements is good.                        *)
LEMMA SubGood ==
  ASSUME NEW x, NEW y, Good(x), Good(y)
  PROVE  Good(PostAddReduce(SubWithoutReduce(x, y)))
BY SubtrahendGood, PaddedSubType, PostAddGood DEF SubWithoutReduce

(* A selection between good elements is good.                              *)
LEMMA SelectedGood ==
  ASSUME NEW x, NEW y, Good(x), Good(y)
  PROVE  Good(Selected(x, y))
<1>1. /\ x.adds \in Nat /\ y.adds \in Nat /\ x.size \in Nat /\ y.size \in Nat
      /\ x.normal \in BOOLEAN /\ y.normal \in BOOLEAN
  BY DEF Good, Bounded, Element
<1>2. /\ Max({x.adds, y.adds}) = IF x.adds >= y.adds THEN x.adds ELSE y.adds
      /\ Max({x.size, y.size}) = IF x.size >= y.size THEN x.size ELSE y.size
  BY <1>1, MaxPair
<1>3. Bounded(Selected(x, y)) BY SelectedBounded DEF Good
<1>4. Selected(x, y).size <= Selected(x, y).adds + 1
  BY <1>1, <1>2 DEF Selected, Good
<1>5. Selected(x, y).normal
        => Selected(x, y).adds = 0 /\ Selected(x, y).size <= 1
  BY <1>1, <1>2 DEF Selected, Good
<1> QED BY <1>3, <1>4, <1>5 DEF Good

(* The operands pre_mul_reduce leaves are good.                            *)
LEMMA PreMulGood ==
  ASSUME NEW x, NEW y, Good(x), Good(y)
  PROVE  Good(PreMulReduce(x, y)[1]) /\ Good(PreMulReduce(x, y)[2])
<1>1. \A a, b : Good(a) /\ Good(b)
        => Good(ReduceLarger(a, b)[1]) /\ Good(ReduceLarger(a, b)[2])
  BY FreshGood DEF ReduceLarger
<1> QED BY <1>1 DEF PreMulReduce

(* The product of good elements is bounded by its counter.                 *)
LEMMA ProductGood ==
  ASSUME NEW x, NEW y, Good(x), Good(y)
  PROVE  GoodProd(Product(x, y))
<1> DEFINE a == PreMulReduce(x, y)[1]
           b == PreMulReduce(x, y)[2]
<1>1. Good(a) /\ Good(b) BY PreMulGood
<1> HIDE DEF a, b
<1>2. /\ a.adds \in Nat /\ b.adds \in Nat /\ a.size \in Nat /\ b.size \in Nat
      /\ a.size <= a.adds + 1 /\ b.size <= b.adds + 1
  BY <1>1 DEF Good, Bounded, Element
<1>3. \A i, j, k \in Nat : i * j \in Nat /\ (i <= j => i * k <= j * k /\ k * i <= k * j)
  OBVIOUS
<1>4. a.size * b.size <= (a.adds + 1) * (b.adds + 1)
  <2>1. a.size * b.size <= (a.adds + 1) * b.size BY <1>2, <1>3
  <2>2. (a.adds + 1) * b.size <= (a.adds + 1) * (b.adds + 1)
    BY <1>2, <1>3
  <2> QED BY <2>1, <2>2, <1>2, <1>3
<1>5. /\ a.size * b.size \in Nat /\ (a.adds + 1) * (b.adds + 1) \in Nat
      /\ NumLimbs \in Nat
  BY <1>2, <1>3, LimbAssumption
<1>6. a.size * b.size * NumLimbs <= (a.adds + 1) * (b.adds + 1) * NumLimbs
  BY <1>3, <1>4, <1>5
<1>7. Product(x, y) = [sums |-> (a.adds + 1) * (b.adds + 1) * NumLimbs,
                       size |-> a.size * b.size * NumLimbs,
                       val  |-> ValMax(a) * ValMax(b)]
  BY DEF Product, a, b
<1>8. Product(x, y) \in MulResult BY ProductType DEF Good
<1> QED BY <1>6, <1>7, <1>8 DEF GoodProd

(* So is the product an element is turned into,                            *)
LEMMA FromVarGood ==
  ASSUME NEW x, Good(x)
  PROVE  GoodProd(FromVar(x))
BY ProductType DEF GoodProd, FromVar, Good

(* and a sum of products.                                                  *)
LEMMA MulSumGood ==
  ASSUME NEW u, NEW v, GoodProd(u), GoodProd(v)
  PROVE  GoodProd(MulSum(u, v)) /\ GoodProd(MulSumConstant(u))
<1>1. GoodProd([sums |-> 1, size |-> 1, val |-> P - 1])
  BY MulSumType DEF GoodProd, MulResult
<1>2. \A a, b : GoodProd(a) /\ GoodProd(b) => GoodProd(MulSum(a, b))
  BY DEF GoodProd, MulSum, MulResult
<1> QED BY <1>1, <1>2 DEF MulSumConstant

-----------------------------------------------------------------------------
(* The invariant of the sizes.                                             *)

Inv ==
  /\ CountInv
  /\ NeverNegates =>
       (\A s \in Slots : Good(slot[s])) /\ (\A s \in ProdSlots : GoodProd(prod[s]))

(* The empty circuit satisfies the invariant.                              *)
LEMMA InvInit == Init => Inv
<1> SUFFICES ASSUME Init PROVE Inv
  OBVIOUS
<1>1. Good(Canonical) /\ GoodProd(FromVar(Canonical))
  BY FreshGood, FromVarGood
<1> QED BY <1>1, CountInit DEF Init, Inv

(* Only a program that has never called the lookup has still not.          *)
LEMMA NegatesForGood ==
  ASSUME [Next]_vars, NeverNegates'
  PROVE  NeverNegates
<1>1. faults \subseteq faults'
  BY DEF Next, vars, Put, PutProd, Enforce, NewInput, NewWitness, TwoBitLookup,
         ThreeBitCondNegLookup, Add, AddConstant, Sub, SubConstant, Negate, Mul,
         MulConstant, InverseOf, ConditionallySelect, ConditionalEnforceEqual,
         ConditionalEnforceNotEqual, ToBitsLe, MulWithoutReduce, MulResultFrom,
         MulResultAdd, MulResultAddConstant, MulResultReduce
<1> QED BY <1>1 DEF NeverNegates

(* A call that stores a good element keeps it,                             *)
LEMMA PutInv ==
  ASSUME Inv, NeverNegates, CountInv', NEW d \in Slots, NEW x, Good(x), NEW f,
         Put(d, x, f)
  PROVE  Inv'
<1>1. ASSUME NEW s \in Slots PROVE Good(slot'[s])
  <2>1. CASE s = d BY <2>1 DEF Inv, CountInv, Put
  <2>2. CASE s # d
    <3>1. slot'[s] = slot[s] BY <2>2 DEF Inv, CountInv, Put
    <3> QED BY <3>1 DEF Inv
  <2> QED BY <2>1, <2>2
<1>2. prod' = prod BY DEF Put
<1> QED BY <1>1, <1>2 DEF Inv

(* one that stores a good product,                                         *)
LEMMA PutProdInv ==
  ASSUME Inv, NeverNegates, CountInv', NEW d \in ProdSlots, NEW u, GoodProd(u),
         NEW f, PutProd(d, u, f)
  PROVE  Inv'
<1>1. ASSUME NEW s \in ProdSlots PROVE GoodProd(prod'[s])
  <2>1. CASE s = d BY <2>1 DEF Inv, CountInv, PutProd
  <2>2. CASE s # d
    <3>1. prod'[s] = prod[s] BY <2>2 DEF Inv, CountInv, PutProd
    <3> QED BY <3>1 DEF Inv
  <2> QED BY <2>1, <2>2
<1>2. slot' = slot BY DEF PutProd
<1> QED BY <1>1, <1>2 DEF Inv

(* and one that stores nothing.                                            *)
LEMMA EnforceInv ==
  ASSUME Inv, NeverNegates, CountInv', NEW f, Enforce(f)
  PROVE  Inv'
BY DEF Inv, Enforce

(* All operands are good.                                                  *)
LEMMA OperandsGood ==
  ASSUME Inv, NeverNegates, NEW x \in Operands
  PROVE  Good(x)
BY FreshGood DEF Inv, Operands

(* Every call keeps the invariant.                                         *)
LEMMA InvNext == Inv /\ [Next]_vars => Inv'
<1> SUFFICES ASSUME Inv, [Next]_vars PROVE Inv'
  OBVIOUS
<1>0. CountInv' BY CountNext DEF Inv
<1>14. CASE ~NeverNegates' BY <1>0, <1>14 DEF Inv
<1>15. SUFFICES ASSUME NeverNegates' PROVE Inv'
  BY <1>14
<1>16. NeverNegates BY <1>15, NegatesForGood
<1> USE <1>0, <1>16, FreshGood, OperandsGood, PutInv, PutProdInv, EnforceInv
<1>1. ASSUME NEW d \in Slots, NewInput(d) \/ NewWitness(d) \/ TwoBitLookup(d)
      PROVE  Inv'
  BY <1>1 DEF NewInput, NewWitness, TwoBitLookup
<1>17. ASSUME NEW d \in Slots, ThreeBitCondNegLookup(d) PROVE Inv'
  BY <1>15, <1>17 DEF ThreeBitCondNegLookup, Put, NeverNegates
<1>2. ASSUME NEW d \in Slots, NEW x, NEW y, Good(x), Good(y), Add(d, x, y)
      PROVE  Inv'
  BY <1>2, SumGood DEF Add
<1>3. ASSUME NEW d \in Slots, NEW x, NEW y, Good(x), Good(y), Sub(d, x, y)
      PROVE  Inv'
  BY <1>3, SubGood DEF Sub
<1>4. ASSUME NEW d \in Slots, NEW x, NEW y, Mul(d, x, y) PROVE Inv'
  BY <1>4 DEF Mul
<1>5. ASSUME NEW d \in Slots, NEW x, NEW y, Good(x), Good(y),
             ConditionallySelect(d, x, y)
      PROVE  Inv'
  BY <1>5, SelectedGood DEF ConditionallySelect
<1>6. ASSUME NEW d \in Slots, NEW x, InverseOf(d, x) PROVE Inv'
  BY <1>6 DEF InverseOf
<1>7. ASSUME NEW x, NEW y,
             \/ ConditionalEnforceEqual(x, y) \/ ConditionalEnforceNotEqual(x, y)
             \/ ToBitsLe(x)
      PROVE  Inv'
  BY <1>7 DEF ConditionalEnforceEqual, ConditionalEnforceNotEqual, ToBitsLe
<1>9. ASSUME NEW d \in ProdSlots, NEW x, NEW y, Good(x), Good(y),
             MulWithoutReduce(d, x, y)
      PROVE  Inv'
  BY <1>9, ProductGood DEF MulWithoutReduce
<1>10. ASSUME NEW d \in ProdSlots, NEW x, Good(x), MulResultFrom(d, x)
       PROVE  Inv'
  BY <1>10, FromVarGood DEF MulResultFrom
<1>11. ASSUME NEW d \in ProdSlots, NEW s \in ProdSlots, NEW t \in ProdSlots,
              MulResultAdd(d, prod[s], prod[t]) \/ MulResultAddConstant(d, prod[s])
       PROVE  Inv'
  <2>1. GoodProd(prod[s]) /\ GoodProd(prod[t]) BY DEF Inv
  <2> QED BY <1>11, <2>1, MulSumGood DEF MulResultAdd, MulResultAddConstant
<1>12. ASSUME NEW d \in Slots, NEW u, MulResultReduce(d, u) PROVE Inv'
  BY <1>12 DEF MulResultReduce
<1>13. CASE UNCHANGED vars
  <2>1. UNCHANGED <<slot, prod>> BY <1>13 DEF vars
  <2> QED BY <2>1 DEF Inv
<1> QED
  BY <1>1, <1>2, <1>3, <1>4, <1>5, <1>6, <1>7, <1>9, <1>10, <1>11, <1>12,
     <1>13, <1>17
  DEF Next, AddConstant, SubConstant, MulConstant, Negate

(* The counter of every element and of every unreduced product bounds its  *)
(* limbs, whatever calls the program makes, as long as it does not look up *)
(* negated limbs.                                                          *)
THEOREM CounterBoundsLimbsAlways == Spec => []CounterBoundsLimbs
<1>1. Inv => CounterBoundsLimbs
  BY DEF Inv, Good, GoodProd, CounterBoundsLimbs
<1> QED BY <1>1, InvInit, InvNext, PTL DEF Spec

(* In such a program only elements whose limbs are in range are marked     *)
(* normal.                                                                 *)
THEOREM NormalFormIsInRangeAlways == Spec => []NormalFormIsInRange
<1>1. ASSUME NEW x, Good(x), x.normal
      PROVE  x.adds = 0 /\ LimbMax(x) < B
  <2>1. x.size \in Nat /\ x.size <= 1 BY <1>1 DEF Good, Bounded, Element
  <2>2. CASE x.size = 0 BY <1>1, <2>2, Room DEF Good, LimbMax
  <2>3. CASE x.size = 1 BY <1>1, <2>3, Room DEF Good, LimbMax
  <2> QED BY <2>1, <2>2, <2>3
<1>2. Inv => NormalFormIsInRange
  BY <1>1 DEF Inv, NormalFormIsInRange
<1> QED BY <1>2, InvInit, InvNext, PTL DEF Spec

-----------------------------------------------------------------------------
(* Nor does an integer leave the native field, whatever quotients a prover *)
(* picks, and an honest prover's witnesses have their bits.                *)

(* The modulus is not the least of its width: the integer of a canonical   *)
(* element, which may be anything of TBits bits and whose lower limbs may  *)
(* be one above theirs, is below twice the modulus; and the product of two *)
(* is no more, for each limb, than the modulus times 2^TBits.  The second  *)
(* takes at least two limbs.                                               *)
ModulusIsLarge ==
  /\ PadUnit < 2 * P
  /\ PadUnit * PadUnit <= NumLimbs * (P * Pow2[TBits])

(* An unreduced product that is but an element leaves, with its surfeit of *)
(* one bit, the padding room for the products of a quotient of this many   *)
(* limbs.                                                                  *)
FewLimbs == NumLimbs <= 7

(* A call lets no integer leave the field, and gives an honest witness its *)
(* bits where the modulus is large.                                        *)
Quiet(f) ==
  /\ FewLimbs => "wrap" \notin f
  /\ ModulusIsLarge => "unsat" \notin f

(* No wrap is reported where there is none.                                *)
LEMMA WrapInFaults ==
  ASSUME NEW a, NEW b, NEW c, ~b
  PROVE  "wrap" \notin Faults(a, b, c)
BY DEF Faults

(* No witness is reported too large where none is.                         *)
LEMMA UnsatInFaults ==
  ASSUME NEW a, NEW b, NEW c, ~c
  PROVE  "unsat" \notin Faults(a, b, c)
BY DEF Faults

(* The order of products of natural numbers.                               *)
LEMMA ProductOrder ==
  ASSUME NEW a \in Nat, NEW b \in Nat, NEW c \in Nat, NEW d \in Nat,
         a <= b, c <= d
  PROVE  a * c \in Nat /\ b * d \in Nat /\ a * c <= b * d
<1>1. \A i, j, k \in Nat : i * j \in Nat /\ (i <= j => i * k <= j * k /\ k * i <= k * j)
  OBVIOUS
<1>2. a * c <= b * c /\ b * c <= b * d /\ a * c \in Nat /\ b * c \in Nat /\ b * d \in Nat
  BY <1>1
<1> QED BY <1>2

(* What is below a multiple has a quotient below the multiple.             *)
LEMMA QuotientBelow ==
  ASSUME NEW v \in Nat, NEW c \in Nat, NEW n \in Nat, n >= 1, v < c * n
  PROVE  v \div n \in Nat /\ v \div n < c
<1> DEFINE d == v \div n
           m == v % n
<1>1. d \in Nat /\ m \in 0 .. n - 1 /\ v = d * n + m BY DivMod
<1> HIDE DEF d, m
<1>2. ASSUME d >= c PROVE FALSE
  <2>1. c * n <= d * n /\ c * n \in Nat /\ d * n \in Nat BY <1>1, <1>2, ProductOrder
  <2> QED BY <1>1, <2>1
<1>3. d \in Nat /\ d < c BY <1>1, <1>2
<1> QED BY <1>3 DEF d

(* A group of limbs at most max is at most twice max below its weight.     *)
LEMMA TotalBound ==
  ASSUME NEW w \in Nat, NEW s \in Nat, s >= 2, w >= 1, NEW m \in Nat, NEW t,
         t = (w - 1) \div (s - 1)
  PROVE  t \in Nat /\ t * (s - 1) <= w /\ m * t \in Nat /\ (m * t) * s <= 2 * (m * w)
<1>1. w - 1 \in Nat /\ s - 1 \in Nat /\ s - 1 >= 1 OBVIOUS
<1>2. t \in Nat /\ w - 1 = t * (s - 1) + ((w - 1) % (s - 1)) /\ (w - 1) % (s - 1) \in Nat
  <2> DEFINE a == w - 1
             c == s - 1
  <2>1. a \in Nat /\ c \in Nat /\ c >= 1 /\ t = a \div c BY <1>1
  <2> HIDE DEF a, c
  <2>2. a \div c \in Nat /\ a % c \in 0 .. c - 1 /\ a = (a \div c) * c + (a % c)
    BY <2>1, DivMod
  <2>3. t \in Nat /\ a = t * c + (a % c) /\ a % c \in Nat BY <2>1, <2>2
  <2> QED BY <2>3 DEF a, c
<1>3. t * (s - 1) \in Nat BY <1>1, <1>2
<1>4. t * (s - 1) <= w BY <1>2, <1>3
<1>5. t * s <= 2 * w
  <2>1. s <= 2 * (s - 1) OBVIOUS
  <2>2. t * s <= t * (2 * (s - 1)) BY <1>2, <2>1, ProductOrder
  <2>3. t * (2 * (s - 1)) = 2 * (t * (s - 1)) BY <1>2
  <2>4. t * s \in Nat BY <1>2
  <2> QED BY <1>3, <1>4, <2>2, <2>3, <2>4
<1>6. t * s \in Nat /\ 2 * w \in Nat BY <1>2
<1>7. m * (t * s) <= m * (2 * w) BY <1>5, <1>6, ProductOrder
<1>8. m * (t * s) = (m * t) * s /\ m * (2 * w) = 2 * (m * w) BY <1>2
<1>9. m * t \in Nat BY <1>2
<1> QED BY <1>2, <1>4, <1>7, <1>8, <1>9

(* The powers of two that are the range of a limb with its surfeit, and a  *)
(* padding.                                                                *)
LEMMA PadPowers ==
  ASSUME NEW a \in Nat, NEW b \in Nat, NEW k \in Nat
  PROVE  /\ Pow2[a + b] = Pow2[a] * Pow2[b]
         /\ Pow2[a + k + 1 + 1] = 4 * (Pow2[a] * Pow2[k])
<1>1. a + k \in Nat /\ a + k + 1 \in Nat OBVIOUS
<1>2. Pow2[a + k + 1] = 2 * Pow2[a + k] /\ Pow2[a + k + 1 + 1] = 2 * Pow2[a + k + 1]
  BY <1>1, Pow2Step
<1>3. Pow2[a + k] \in Nat BY <1>1, Pow2Step
<1>4. Pow2[a + k + 1 + 1] = 4 * Pow2[a + k] BY <1>2, <1>3
<1> QED BY <1>4, Pow2Plus

(* group_and_check_equality: limbs below the range of the surfeit leave    *)
(* the padding and the carry room in the field, and the padding outweighs  *)
(* the right side if that is small.  With limbs of four bits, an honest    *)
(* carry fits its own.                                                     *)
LEMMA GroupsFit ==
  ASSUME NEW surfeit \in Nat, NEW bits \in Nat, NEW shift \in Nat,
         NEW len \in Nat, shift >= 1, shift <= bits, len >= 1,
         surfeit + bits <= MBS - 4, NEW left \in Int, left >= -1,
         NEW right \in Nat,
         left <= Pow2[surfeit + bits]
  PROVE  /\ right <= 4 * (Pow2[surfeit + (bits - shift)] * (Pow2[shift] - 1)) =>
              "wrap" \notin GroupFaults(surfeit, bits, shift, left, right, len)
         /\ shift >= 4 =>
              "unsat" \notin GroupFaults(surfeit, bits, shift, left, right, len)
<1> DEFINE free == MBS - 4 - surfeit - (bits - shift)
           size == GroupSize(MBS, surfeit, bits, shift)
           g    == Min({size, len})
           k    == shift * g
           above == surfeit + (bits - shift)
           r    == Pow2[above]
           s    == Pow2[shift]
           w    == Pow2[k]
           t    == (w - 1) \div (s - 1)
           pad  == Pow2[PadExponent(surfeit, bits, shift, g)]
           carry == CarryRange(surfeit, bits)
           total == GroupTotal(left, shift, g) + pad + carry - 1
<1>1. MBS \in Nat BY Room
<1>2. free \in Nat /\ free >= shift BY <1>1
<1>3. size = free \div shift
  <2>1. MBS - 1 - surfeit - 1 - 1 - 1 - (bits - shift) = free BY <1>1
  <2> QED BY <2>1 DEF GroupSize
<1>4. free <= MBS - 4 - surfeit - (bits - shift) BY <1>1
<1> HIDE DEF free
<1>5. size \in Nat /\ size >= 1 /\ shift * size <= free
  <2>1. ASSUME NEW a \in Nat, NEW b \in Nat, b >= 1, a >= b
        PROVE  a \div b \in Nat /\ a \div b >= 1 /\ b * (a \div b) <= a
    BY <2>1
  <2> QED BY <1>2, <1>3, <2>1
<1> HIDE DEF size
<1>6. g \in Nat /\ g >= 1 /\ g <= size BY <1>5, MinPair
<1> HIDE DEF g
<1>7. k \in Nat /\ k >= shift /\ k <= free /\ k = shift * g
  <2>1. shift * g <= shift * size /\ shift * 1 <= shift * g /\ shift * g \in Nat
    BY <1>5, <1>6, ProductOrder
  <2>2. shift * size \in Nat BY <1>5
  <2> QED BY <1>2, <1>5, <2>1, <2>2
<1> DEFINE e == above + k + 1 + 1
<1>7a. PadExponent(surfeit, bits, shift, g) = e BY DEF PadExponent
<1> HIDE DEF k
<1>8. /\ r \in Nat /\ r >= 1 /\ s \in Nat /\ s >= 1 /\ w \in Nat /\ w >= 1
      /\ Pow2[surfeit + bits] = r * s
      /\ pad = 4 * (r * w)
  <2>1. above \in Nat /\ surfeit + bits = above + shift OBVIOUS
  <2> HIDE DEF above
  <2>2. Pow2[above + shift] = r * s /\ Pow2[e] = 4 * (r * w) BY <1>7, <2>1, PadPowers
  <2>3. r \in Nat /\ r >= 1 /\ s \in Nat /\ s >= 1 /\ w \in Nat /\ w >= 1
    BY <1>7, <2>1, Pow2Step
  <2> QED BY <1>7a, <2>1, <2>2, <2>3
<1>9. s >= 2
  <2>1. Pow2[0 + 1] = 2 BY Pow2Step
  <2>2. Pow2[1] <= Pow2[shift] BY Pow2Order
  <2> QED BY <1>8, <2>1, <2>2
<1>10. w >= s BY <1>7, Pow2Order
<1>11. carry = r * s
  <2>1. Min({MBS - 1, surfeit + bits}) = surfeit + bits BY <1>1, MinPair
  <2> QED BY <1>8, <2>1 DEF CarryRange
<1>12. 2 * pad < Q
  <2>1. e \in Nat /\ e + 1 <= MBS - 1 BY <1>1, <1>2, <1>4, <1>7
  <2>2. e + 1 \in Nat BY <2>1
  <2>3. Pow2[e + 1] < Q BY <2>1, <2>2, PadFitsField
  <2>4. Pow2[e + 1] = 2 * Pow2[e] BY <2>1, Pow2Step
  <2> QED BY <1>7a, <2>3, <2>4
<1> HIDE DEF r, s, w
<1>13. /\ t \in Nat /\ t * (s - 1) <= w
       /\ left >= 0 => left * t \in Nat /\ (left * t) * s <= 2 * (left * w)
  <2>1. \A x : x = (w - 1) \div (s - 1) => x \in Nat /\ x * (s - 1) <= w
    BY <1>8, <1>9, TotalBound
  <2>2. ASSUME left >= 0
        PROVE  \A x : x = (w - 1) \div (s - 1) =>
                 left * x \in Nat /\ (left * x) * s <= 2 * (left * w)
    <3>1. left \in Nat BY <2>2
    <3> QED BY <1>8, <1>9, <3>1, TotalBound
  <2> QED BY <2>1, <2>2
<1>14. GroupTotal(left, shift, g) = left * t /\ GroupTotal(right, shift, g) = right * t
  BY DEF GroupTotal, s, w, k
<1> HIDE DEF t
<1>15. left * t \in Int /\ left * t <= 2 * (r * w)
  <2>1. CASE left >= 0
    <3>1. left * w <= (r * s) * w /\ left * w \in Nat
      <4>1. left \in Nat /\ r * s \in Nat BY <1>8, <2>1
      <4> QED BY <1>8, <4>1, ProductOrder
    <3>2. (r * s) * w = (r * w) * s BY <1>8
    <3>3. (left * t) * s <= (2 * (r * w)) * s
      <4>1. (r * w) * s \in Nat /\ (left * t) * s \in Nat BY <1>8, <1>13, <2>1
      <4>2. 2 * ((r * w) * s) = (2 * (r * w)) * s BY <1>8
      <4> QED BY <1>13, <2>1, <3>1, <3>2, <4>1, <4>2
    <3>4. 2 * (r * w) \in Nat BY <1>8
    <3> QED BY <1>8, <1>13, <2>1, <3>3, <3>4, Cancel
  <2>2. CASE left < 0
    <3>1. left = -1 BY <2>2
    <3>2. left * t = -t BY <1>13, <3>1
    <3>3. r * w \in Nat BY <1>8
    <3> QED BY <1>13, <3>2, <3>3
  <2> QED BY <2>1, <2>2
<1>16. carry <= r * w BY <1>8, <1>10, <1>11, ProductOrder
<1>17. ASSUME right <= 4 * (Pow2[surfeit + (bits - shift)] * (Pow2[shift] - 1))
       PROVE  right * t <= pad
  <2>1. s - 1 \in Nat /\ r * (s - 1) \in Nat /\ 4 * (r * (s - 1)) \in Nat BY <1>8, <1>9
  <2>2. right <= 4 * (r * (s - 1)) BY <1>17 DEF r, s
  <2>3. right * t <= (4 * (r * (s - 1))) * t BY <1>13, <2>1, <2>2, ProductOrder
  <2>4. (4 * (r * (s - 1))) * t = (4 * r) * (t * (s - 1)) BY <1>8, <1>13, <2>1
  <2>5. t * (s - 1) \in Nat BY <1>13, <2>1
  <2>6. (4 * r) * (t * (s - 1)) <= (4 * r) * w BY <1>8, <1>13, <2>5, ProductOrder
  <2>7. (4 * r) * w = 4 * (r * w) BY <1>8
  <2>8. right * t \in Nat /\ (4 * r) * (t * (s - 1)) \in Nat BY <1>8, <1>13, <2>5
  <2> QED BY <1>8, <2>3, <2>4, <2>6, <2>7, <2>8
<1>18. r * w \in Nat /\ r * w >= 1 /\ carry \in Nat /\ Q \in Nat
  <2>1. 1 * 1 <= r * w /\ r * w \in Nat BY <1>8, ProductOrder
  <2> QED BY <1>8, <1>11, <2>1, FieldAssumption
<1> HIDE DEF carry, pad
<1>19. ~(left * t + pad + carry - 1 >= Q) BY <1>8, <1>12, <1>15, <1>16, <1>18
<1>20. ASSUME right <= 4 * (Pow2[surfeit + (bits - shift)] * (Pow2[shift] - 1))
       PROVE  ~(right * t > pad)
  <2>1. right * t \in Nat /\ pad \in Nat BY <1>8, <1>13, <1>18
  <2> QED BY <1>17, <1>20, <2>1
<1>21. ~(size < 1) BY <1>5
<1>25. /\ "wrap" \notin CarryFaults(surfeit, bits, shift, len)
       /\ "unsat" \notin CarryFaults(surfeit, bits, shift, len)
  BY CarryFaultsAreLoose
<1>22. ASSUME right <= 4 * (Pow2[surfeit + (bits - shift)] * (Pow2[shift] - 1))
       PROVE  "wrap" \notin GroupFaults(surfeit, bits, shift, left, right, len)
  <2>1. ~(right * t > pad) BY <1>20, <1>22
  <2> QED
    BY <1>14, <1>19, <1>21, <1>25, <2>1, WrapInFaults
    DEF GroupFaults, size, g, pad, carry
<1>23. ASSUME shift >= 4 PROVE ~((left * t + pad + carry - 1) \div w >= carry)
  <2>1. s >= 16
    <3>1. Pow2[0 + 1] = 2 * Pow2[0] /\ Pow2[1 + 1] = 2 * Pow2[1]
          /\ Pow2[2 + 1] = 2 * Pow2[2] /\ Pow2[3 + 1] = 2 * Pow2[3]
      BY Pow2Step
    <3>2. Pow2[4] = 16 BY <3>1, Pow2Step
    <3>3. Pow2[4] <= Pow2[shift] BY <1>23, Pow2Order
    <3> QED BY <3>2, <3>3 DEF s
  <2> DEFINE x == r * w
             y == left * t + pad + carry - 1
  <2>2. 16 * x <= s * x /\ s * x \in Nat BY <1>8, <1>18, <2>1, ProductOrder
  <2>3. carry * w = s * x BY <1>8, <1>11
  <2>4. left * t >= - x
    <3>1. CASE left >= 0
      <4>1. left * t \in Nat BY <1>13, <3>1
      <4> QED BY <1>18, <4>1
    <3>2. CASE left < 0
      <4>1. left = -1 BY <3>2
      <4>2. left * t = - t BY <1>13, <4>1
      <4>3. t <= w /\ w <= x
        <5>1. t * 1 <= t * (s - 1) /\ t * (s - 1) \in Nat
          BY <1>9, <1>8, <1>13, ProductOrder
        <5>2. t <= w BY <1>8, <1>13, <5>1
        <5>3. 1 * w <= r * w BY <1>8, ProductOrder
        <5> QED BY <1>8, <5>2, <5>3
      <4> QED BY <1>8, <1>13, <1>18, <4>2, <4>3
    <3> QED BY <3>1, <3>2
  <2> HIDE DEF x
  <2>5. x \in Nat /\ x >= 1 /\ pad = 4 * x /\ carry <= x /\ left * t <= 2 * x
    BY <1>8, <1>15, <1>16, <1>18 DEF x
  <2>6. y \in Nat /\ y < carry * w
    BY <1>15, <1>18, <2>2, <2>3, <2>4, <2>5
  <2> HIDE DEF y
  <2>7. y \div w \in Nat /\ y \div w < carry BY <1>8, <1>18, <2>6, QuotientBelow
  <2>8. ~(y \div w >= carry) BY <1>18, <2>7
  <2> QED BY <2>8 DEF y
<1>24. ASSUME shift >= 4
       PROVE  "unsat" \notin GroupFaults(surfeit, bits, shift, left, right, len)
  <2>1. Pow2[shift * g] = w BY DEF w, k
  <2> QED
    BY <1>14, <1>21, <1>23, <1>24, <1>25, <2>1, UnsatInFaults
    DEF GroupFaults, size, g, pad, carry
<1> QED BY <1>22, <1>24

-----------------------------------------------------------------------------
(* Elements.                                                               *)

(* A good element is bounded.                                              *)
LEMMA GoodIsBounded ==
  ASSUME NEW x, Good(x)
  PROVE  Bounded(x)
BY DEF Good

(* The largest limb with room for its additions is in the field.           *)
LEMMA PaddedSubDoesNotWrap ==
  ASSUME NEW x, NEW y, Good(y), x.adds \in Nat, x.size \in Nat, x.size <= x.adds + 1,
         x.adds + Pow2[SubSurfeit(y)] + 2 <= Pow2[CounterBits + 2]
  PROVE  "wrap" \notin PaddedSubFaults(x, y)
<1> DEFINE s == Pow2[SubSurfeit(y)]
           d == PaddedSub(x, y)
           m == Pow2[CounterBits + 2]
<1>1. s \in Nat /\ m \in Nat BY GoodIsBounded, SurfeitFits, CounterBitsRoom, Pow2Step
<1>2. d.adds = x.adds + s + 1 /\ d.size = x.size + s + 1 BY DEF PaddedSub
<1>3. y.size <= s
  <2>1. y.size \in Nat /\ y.size <= y.adds + 1 /\ y.adds + 1 \in Nat BY DEF Good, Bounded, Element
  <2>2. Overhead(y.adds + 1) \in Nat /\ y.adds + 1 <= Pow2[Overhead(y.adds + 1)]
    BY <2>1, OverheadLeast
  <2>3. SubSurfeit(y) = Overhead(y.adds + 1) + 1 BY DEF SubSurfeit
  <2>4. s = 2 * Pow2[Overhead(y.adds + 1)] /\ Pow2[Overhead(y.adds + 1)] \in Nat
    BY <2>2, <2>3, Pow2Step
  <2> QED BY <2>1, <2>2, <2>4
<1> HIDE DEF s
<1>4. d.size \in Nat /\ d.size <= m /\ d.adds \in Nat /\ d.adds <= m BY <1>1, <1>2 DEF s
<1>5. m * B < Q /\ m <= m * B
  <2>1. CounterBits + 2 \in Nat /\ CounterBits + 2 + BitsPerLimb \in Nat
        /\ CounterBits + 2 + BitsPerLimb <= MBS - 1
    BY CounterBitsRoom, Room DEF CounterBits
  <2>2. Pow2[(CounterBits + 2) + BitsPerLimb] = m * B BY <2>1, Room, Pow2Plus DEF B
  <2>3. m * 1 <= m * B BY <1>1, Room, ProductOrder
  <2> QED BY <1>1, <2>1, <2>2, <2>3, PadFitsField
<1> HIDE DEF m
<1>6. ~(LimbMax(d) >= Q)
  <2>1. d.size * B <= m * B /\ d.size * B \in Nat /\ m * B \in Nat
    BY <1>1, <1>4, Room, ProductOrder
  <2> QED BY <1>5, <2>1, FieldAssumption DEF LimbMax
<1>7. ~(d.adds >= Q)
  <2>1. m * B \in Nat BY <1>1, Room
  <2> QED BY <1>1, <1>4, <1>5, <2>1, FieldAssumption
<1>8. ~(y.size > s)
  <2>1. y.size \in Nat BY DEF Good, Bounded, Element
  <2> QED BY <1>1, <1>3, <2>1
<1> QED BY <1>6, <1>7, <1>8, WrapInFaults DEF PaddedSubFaults, s, d

(* The weight of the most significant limb.                                *)
TopWeight == Pow2[BitsPerLimb * (NumLimbs - 1)]

(* The powers of two an element is made of.                                *)
LEMMA ElementPowers ==
  /\ TopWeight \in Nat /\ TopWeight >= 1 /\ NumLimbs <= TopWeight
  /\ Pow2[TopBits] \in Nat /\ Pow2[TopBits] >= 2 /\ Pow2[TopBits] <= B
  /\ Pow2[TBits] = TopWeight * Pow2[TopBits]
  /\ Pow2[BitsPerLimb * NumLimbs] = TopWeight * B
  /\ P \in Nat /\ P <= TopWeight * Pow2[TopBits] /\ TopWeight * Pow2[TopBits] <= 2 * P
<1> DEFINE k == BitsPerLimb * (NumLimbs - 1)
<1>1. k \in Nat /\ k >= NumLimbs - 1 /\ BitsPerLimb * NumLimbs = k + BitsPerLimb
  <2>1. NumLimbs - 1 \in Nat /\ BitsPerLimb \in Nat /\ BitsPerLimb >= 1 BY Room
  <2>2. 1 * (NumLimbs - 1) <= BitsPerLimb * (NumLimbs - 1) /\ k \in Nat
    BY <2>1, ProductOrder
  <2>3. BitsPerLimb * NumLimbs = k + BitsPerLimb BY Room
  <2> QED BY <2>1, <2>2, <2>3
<1>2. TBits \in Nat /\ TBits = k + TopBits BY <1>1, TargetAssumption, Room DEF TopBits
<1>3. TopWeight = Pow2[k] BY DEF TopWeight
<1> HIDE DEF k
<1>4. TopWeight \in Nat /\ k < TopWeight BY <1>1, <1>3, Pow2Above, Pow2Step
<1>5. TopBits \in Nat /\ TopBits >= 1 BY LimbAssumption
<1>6. Pow2[TopBits] \in Nat /\ Pow2[TopBits] >= 2 /\ Pow2[TopBits] <= B
  <2>1. Pow2[0 + 1] = 2 BY Pow2Step
  <2>2. Pow2[1] <= Pow2[TopBits] BY <1>5, Pow2Order
  <2>3. Pow2[TopBits] <= B BY <1>5, Room, Pow2Order DEF B
  <2> QED BY <1>5, <2>1, <2>2, <2>3, Pow2Step
<1>7. Pow2[k + TopBits] = TopWeight * Pow2[TopBits] BY <1>1, <1>3, <1>5, Pow2Plus
<1>8. Pow2[k + BitsPerLimb] = TopWeight * B BY <1>1, <1>3, Room, Pow2Plus DEF B
<1>9. Pow2[TBits] = 2 * Pow2[TBits - 1] /\ Pow2[TBits - 1] \in Nat
  <2>1. TBits - 1 \in Nat BY <1>1, <1>2, <1>5
  <2>2. Pow2[(TBits - 1) + 1] = 2 * Pow2[TBits - 1] BY <2>1, Pow2Step
  <2> QED BY <1>2, <2>1, <2>2, Pow2Step
<1>10. TopWeight * Pow2[TopBits] \in Nat BY <1>4, <1>6
<1> QED
  BY <1>1, <1>2, <1>4, <1>6, <1>7, <1>8, <1>9, <1>10, Room, TargetAssumption

(* The largest integer of a fresh element, beside the modulus.             *)
LEMMA PadUnitBounds ==
  ASSUME LimbsNotNarrow
  PROVE  /\ PadUnit \in Nat /\ P \in Nat /\ P >= 1
         /\ NumLimbs <= PadUnit /\ P - 1 <= PadUnit /\ PadUnit <= 4 * P
         /\ PadUnit * PadUnit <= (3 * B) * (P * TopWeight)
<1> DEFINE c == TopWeight
           u == Pow2[TopBits]
           d == (c * B - B) \div (B - 1)
<1>1. /\ c \in Nat /\ c >= 1 /\ NumLimbs <= c /\ u \in Nat /\ u >= 2 /\ u <= B
      /\ Pow2[TBits] = c * u /\ Pow2[BitsPerLimb * NumLimbs] = c * B
      /\ P \in Nat /\ P <= c * u /\ c * u <= 2 * P
  BY ElementPowers
<1>2. B \in Nat /\ B >= 16
  <2>1. Pow2[0 + 1] = 2 * Pow2[0] /\ Pow2[1 + 1] = 2 * Pow2[1]
        /\ Pow2[2 + 1] = 2 * Pow2[2] /\ Pow2[3 + 1] = 2 * Pow2[3]
    BY Pow2Step
  <2>2. Pow2[4] = 16 BY <2>1, Pow2Step
  <2>3. Pow2[4] <= Pow2[BitsPerLimb] BY Room, Pow2Order DEF LimbsNotNarrow
  <2> QED BY <2>2, <2>3, Room DEF B
<1>3. PadUnit = c * u + d BY <1>1 DEF PadUnit
<1> HIDE DEF c, u
<1>4. d \in Nat /\ d <= 2 * c
  <2> DEFINE n == c * B - B
             s == B - 1
  <2>1. n \in Nat /\ n <= (2 * c) * s
    <3>1. 1 * B <= c * B /\ c * B \in Nat BY <1>1, <1>2, ProductOrder
    <3>2. c * 2 <= c * B BY <1>1, <1>2, ProductOrder
    <3>3. (2 * c) * s = 2 * (c * B) - c * 2 BY <1>1, <1>2
    <3> QED BY <1>1, <1>2, <3>1, <3>2, <3>3
  <2>2. s \in Nat /\ s >= 1 /\ d = n \div s BY <1>2
  <2> HIDE DEF n, s
  <2>3. n \div s \in Nat /\ n % s \in 0 .. s - 1 /\ n = (n \div s) * s + (n % s)
    BY <2>1, <2>2, DivMod
  <2>4. (n \div s) * s <= (2 * c) * s
    <3>1. (n \div s) * s \in Nat /\ (2 * c) * s \in Nat BY <1>1, <2>2, <2>3
    <3> QED BY <2>1, <2>2, <2>3, <3>1
  <2>5. n \div s <= 2 * c BY <1>1, <2>2, <2>3, <2>4, Cancel
  <2> QED BY <2>2, <2>3, <2>5
<1> HIDE DEF d
<1>5. c * u \in Nat /\ c * u >= 2 * c
  <2>1. c * 2 <= c * u /\ c * u \in Nat BY <1>1, ProductOrder
  <2> QED BY <1>1, <2>1
<1>6. PadUnit \in Nat /\ PadUnit <= c * (u + 2)
  <2>1. c * (u + 2) = c * u + 2 * c BY <1>1
  <2> QED BY <1>1, <1>3, <1>4, <1>5, <2>1
<1>7. NumLimbs <= PadUnit /\ P - 1 <= PadUnit /\ PadUnit <= 4 * P /\ P >= 1
  BY <1>1, <1>3, <1>4, <1>5, Room
<1>8. 2 * ((u + 2) * (u + 2)) <= (3 * B) * u
  <2>1. u * u <= B * u /\ 16 * u <= B * u /\ B * u \in Nat /\ u * u \in Nat
    BY <1>1, <1>2, ProductOrder
  <2>2. (u + 2) * (u + 2) = u * u + 4 * u + 4 BY <1>1
  <2>3. (3 * B) * u = 3 * (B * u) BY <1>1, <1>2
  <2> QED BY <1>1, <2>1, <2>2, <2>3
<1>9. PadUnit * PadUnit <= (3 * B) * (P * c)
  <2>1. c * (u + 2) \in Nat BY <1>1
  <2>2. PadUnit * PadUnit <= (c * (u + 2)) * (c * (u + 2)) /\ PadUnit * PadUnit \in Nat
    BY <1>6, <2>1, ProductOrder
  <2>3. 2 * ((c * (u + 2)) * (c * (u + 2))) = (c * c) * (2 * ((u + 2) * (u + 2))) BY <1>1
  <2>4. c * c \in Nat /\ 2 * ((u + 2) * (u + 2)) \in Nat /\ (3 * B) * u \in Nat BY <1>1, <1>2
  <2>5. (c * c) * (2 * ((u + 2) * (u + 2))) <= (c * c) * ((3 * B) * u)
    BY <1>8, <2>4, ProductOrder
  <2>6. (c * c) * ((3 * B) * u) = ((3 * B) * c) * (c * u) BY <1>1, <1>2
  <2>7. (3 * B) * c \in Nat /\ 2 * P \in Nat BY <1>1, <1>2
  <2>8. ((3 * B) * c) * (c * u) <= ((3 * B) * c) * (2 * P)
    BY <1>1, <1>5, <2>7, ProductOrder
  <2>9. ((3 * B) * c) * (2 * P) = 2 * ((3 * B) * (P * c)) BY <1>1, <1>2
  <2>10. (3 * B) * (P * c) \in Nat /\ (c * (u + 2)) * (c * (u + 2)) \in Nat
         /\ (c * c) * ((3 * B) * u) \in Nat /\ (c * c) * (2 * ((u + 2) * (u + 2))) \in Nat
    BY <1>1, <1>2, <2>4
  <2> QED BY <2>2, <2>3, <2>5, <2>6, <2>8, <2>9, <2>10
<1> QED BY <1>1, <1>6, <1>7, <1>9 DEF c

(* Nor does an equality check, and where the modulus is large the quotient *)
(* and the carries of an honest prover have their bits.                    *)
LEMMA EqualFits ==
  ASSUME LimbsNotNarrow, NEW x, NEW y, Good(y),
         x.adds \in Nat, x.size \in Nat, x.size <= x.adds + 1,
         x.adds + Pow2[SubSurfeit(y)] + 2 <= Pow2[CounterBits + 2]
  PROVE  /\ "wrap" \notin EqualFaults(x, y)
         /\ ModulusIsLarge => "unsat" \notin EqualFaults(x, y)
<1> DEFINE d       == PaddedSub(x, y)
           o       == Overhead(d.adds + 1)
           surfeit == o + 1
           kMax    == Pow2[Min({MBS - 1, surfeit})] - 1
           right   == kMax * (B - 1)
<1>1. d.adds = x.adds + Pow2[SubSurfeit(y)] + 1 /\ d.size = x.size + Pow2[SubSurfeit(y)] + 1
      /\ Pow2[SubSurfeit(y)] \in Nat
  BY GoodIsBounded, SurfeitFits, Pow2Step DEF PaddedSub
<1>2. /\ d.adds + 1 \in Nat /\ d.adds + 1 <= Pow2[CounterBits + 2]
      /\ d.size \in Nat /\ d.size >= 1 /\ d.size <= d.adds + 1
  BY <1>1
<1>3. o \in Nat /\ o <= CounterBits + 2 /\ d.adds + 1 <= Pow2[o]
  BY <1>2, OverheadLeast, CounterBitsRoom
<1> HIDE DEF o, d
<1>4. surfeit \in Nat /\ surfeit + BitsPerLimb <= MBS - 4
  BY <1>3, Room, CounterBitsRoom DEF CounterBits, LimbsNotNarrow
<1>5. Pow2[o] \in Nat /\ Pow2[surfeit] = 2 * Pow2[o] BY <1>3, Pow2Step
<1>6. kMax = Pow2[surfeit] - 1
  <2>1. Min({MBS - 1, surfeit}) = surfeit BY <1>4, Room, MinPair
  <2> QED BY <2>1
<1> HIDE DEF kMax, surfeit
<1>7. LimbMax(d) \in Nat /\ LimbMax(d) <= Pow2[surfeit + BitsPerLimb]
  <2>1. d.size * B <= Pow2[surfeit] * B /\ d.size * B \in Nat
    BY <1>2, <1>3, <1>5, Room, ProductOrder
  <2>2. Pow2[surfeit + BitsPerLimb] = Pow2[surfeit] * B BY <1>4, Room, Pow2Plus DEF B
  <2>3. 1 * 1 <= d.size * B BY <1>2, Room, ProductOrder
  <2>4. Pow2[surfeit] * B \in Nat BY <1>5, Room
  <2> QED BY <2>1, <2>2, <2>3, <2>4 DEF LimbMax
<1>8. right \in Nat
      /\ right <= 4 * (Pow2[surfeit + (BitsPerLimb - BitsPerLimb)] * (Pow2[BitsPerLimb] - 1))
  <2>1. surfeit + (BitsPerLimb - BitsPerLimb) = surfeit BY <1>4, Room
  <2>2. kMax \in Nat /\ B - 1 \in Nat /\ Pow2[surfeit] \in Nat /\ kMax <= Pow2[surfeit]
    BY <1>4, <1>6, Room, Pow2Step
  <2>3. right <= Pow2[surfeit] * (B - 1) /\ right \in Nat /\ Pow2[surfeit] * (B - 1) \in Nat
    BY <2>2, ProductOrder
  <2> QED BY <2>1, <2>3 DEF B
<1> HIDE DEF right
<1> DEFINE f == GroupFaults(surfeit, BitsPerLimb, BitsPerLimb, LimbMax(d), right, NumLimbs)
<1>9. "wrap" \notin f /\ "unsat" \notin f
  BY <1>4, <1>7, <1>8, GroupsFit, Room DEF LimbsNotNarrow
<1>10. "wrap" \notin Faults(FALSE, FALSE, ValMax(d) \div P > kMax)
  BY WrapInFaults
<1>11. "wrap" \notin PaddedSubFaults(x, y) BY PaddedSubDoesNotWrap
<1>12. "wrap" \notin EqualFaults(x, y)
  BY <1>9, <1>10, <1>11 DEF EqualFaults, surfeit, o, d, kMax, right
<1>13. ASSUME ModulusIsLarge PROVE ~(ValMax(d) \div P > kMax)
  <2> DEFINE v == d.size * PadUnit
             z == Pow2[o]
  <2>1. P \in Nat /\ P >= 1 /\ PadUnit \in Nat /\ PadUnit + 1 <= 2 * P
    BY <1>13, PadUnitBounds, ElementPowers DEF ModulusIsLarge
  <2>2. d.size * (PadUnit + 1) <= z * (2 * P)
    BY <1>2, <1>3, <1>5, <2>1, ProductOrder
  <2>3. d.size * (PadUnit + 1) = v + d.size /\ v \in Nat BY <1>2, <2>1
  <2>4. z * (2 * P) = Pow2[surfeit] * P BY <1>5, <2>1
  <2>5. Pow2[surfeit] \in Nat BY <1>4, Pow2Step
  <2> HIDE DEF v, z
  <2>6. Pow2[surfeit] * P \in Nat /\ v < Pow2[surfeit] * P
    BY <1>2, <2>1, <2>2, <2>3, <2>4, <2>5
  <2>7. v \div P < Pow2[surfeit] /\ v \div P \in Nat BY <2>1, <2>3, <2>5, <2>6, QuotientBelow
  <2> QED BY <1>6, <2>5, <2>7 DEF ValMax, v
<1>14. ASSUME ModulusIsLarge PROVE "unsat" \notin EqualFaults(x, y)
  <2>1. "unsat" \notin Faults(FALSE, FALSE, ValMax(d) \div P > kMax)
    BY <1>13, <1>14, UnsatInFaults
  <2>2. "unsat" \notin PaddedSubFaults(x, y) BY UnsatInFaults DEF PaddedSubFaults
  <2> QED BY <1>9, <2>1, <2>2 DEF EqualFaults, surfeit, o, d, kMax, right
<1> QED BY <1>12, <1>14

(* What reduce is called with, and its size.                               *)
Unreduced(x) == HasRoom(x) /\ x.size \in Nat /\ x.size <= x.adds + 1

(* A good element may be reduced, so may the sum of two, and so may their  *)
(* difference.                                                             *)
LEMMA CallsAreUnreduced ==
  ASSUME NEW x, NEW y, Good(x), Good(y)
  PROVE  /\ Unreduced(x) /\ Unreduced(SumOf(x, y))
         /\ Unreduced(SubWithoutReduce(x, y))
<1>1. Bounded(x) /\ Bounded(y) BY GoodIsBounded
<1>2. /\ HasRoom(x) /\ HasRoom(SumOf(x, y)) /\ HasRoom(SubWithoutReduce(x, y))
  BY <1>1, CallsHaveRoom
<1>3. /\ x.size \in Nat /\ y.size \in Nat /\ x.adds \in Nat /\ y.adds \in Nat
      /\ x.size <= x.adds + 1 /\ y.size <= y.adds + 1
  BY DEF Good, Bounded, Element
<1>4. SumOf(x, y).size \in Nat /\ SumOf(x, y).size <= SumOf(x, y).adds + 1
  BY <1>3 DEF SumOf
<1>5. SubWithoutReduce(x, y) = PaddedSub(x, y)
  BY <1>1, SubtrahendKept DEF SubWithoutReduce, Subtrahend
<1>6. PaddedSub(x, y).size \in Nat /\ PaddedSub(x, y).size <= PaddedSub(x, y).adds + 1
  BY PaddedSubType DEF Element
<1> QED BY <1>2, <1>3, <1>4, <1>5, <1>6 DEF Unreduced

(* Reductions of any of them are quiet,                                    *)
LEMMA ReduceQuiet ==
  ASSUME LimbsNotNarrow, NEW x, Unreduced(x)
  PROVE  Quiet(ReduceFaults(x)) /\ Quiet(PostAddFaults(x))
<1>1. SubSurfeit(Witness) = 2
  BY SmallOverheads DEF SubSurfeit, Witness
<1>2. x.adds + Pow2[SubSurfeit(Witness)] + 2 <= Pow2[CounterBits + 2]
  BY <1>1, PowersOfCounter DEF Unreduced, HasRoom
<1>3. /\ "wrap" \notin EqualFaults(x, Witness)
      /\ ModulusIsLarge => "unsat" \notin EqualFaults(x, Witness)
  BY <1>2, FreshGood, EqualFits DEF Unreduced, HasRoom
<1> QED BY <1>3 DEF ReduceFaults, PostAddFaults, Quiet

(* and so are equality checks of good elements and subtractions.           *)
LEMMA SubQuiet ==
  ASSUME LimbsNotNarrow, NEW x, NEW y, Good(x), Good(y)
  PROVE  /\ Quiet(ConditionalEnforceEqualFaults(x, y))
         /\ Quiet(SubFaults(x, y))
         /\ Quiet(PostAddFaults(SubWithoutReduce(x, y)))
<1>0. Bounded(x) /\ Bounded(y) BY GoodIsBounded
<1>1. Subtrahend(y) = y /\ SubtrahendFaults(y) = {}
  BY <1>0, SubtrahendKept DEF Subtrahend, SubtrahendFaults
<1>2. x.adds + Pow2[SubSurfeit(y)] + 2 <= Pow2[CounterBits + 2]
  BY <1>0, CounterFits, PaddingBound, PowersOfCounter
<1>3. x.adds \in Nat /\ x.size \in Nat /\ x.size <= x.adds + 1
  BY DEF Good, Bounded, Element
<1>4. /\ "wrap" \notin EqualFaults(x, y)
      /\ ModulusIsLarge => "unsat" \notin EqualFaults(x, y)
  BY <1>2, <1>3, EqualFits
<1>5. "wrap" \notin PaddedSubFaults(x, y) BY <1>2, <1>3, PaddedSubDoesNotWrap
<1>6. "unsat" \notin PaddedSubFaults(x, y) BY UnsatInFaults DEF PaddedSubFaults
<1>7. Quiet(ConditionalEnforceEqualFaults(x, y))
  BY <1>1, <1>4 DEF ConditionalEnforceEqualFaults, Quiet
<1>8. Quiet(SubFaults(x, y)) BY <1>1, <1>5, <1>6 DEF SubFaults, Quiet
<1> QED BY <1>7, <1>8, CallsAreUnreduced, ReduceQuiet

-----------------------------------------------------------------------------
(* Products.                                                               *)

(* How large the integer of an unreduced product can be: what is added up  *)
(* are products, which have as many terms as an element has limbs, and     *)
(* elements, which are as good as a product by one.                        *)
Tame(u) ==
  /\ GoodProd(u) /\ u.sums >= 1
  /\ NumLimbs * u.val <= u.sums * (PadUnit * PadUnit)

(* Where the modulus is large, the integer of a sum of n products is below *)
(* the modulus times a number of n more bits than it has, so the quotient  *)
(* has its bits.                                                           *)
LEMMA QuotientFits ==
  ASSUME LimbsNotNarrow, ModulusIsLarge, NEW u, Tame(u)
  PROVE  ~(u.val \div P >= Pow2[QuotientBits(u)])
<1> DEFINE n == u.sums
           v == u.val
           o == Overhead(n + 1)
           z == Pow2[TBits]
           s == PadUnit * PadUnit
           t == P * z
<1>1. /\ n \in Nat /\ v \in Nat /\ P \in Nat /\ P >= 1 /\ PadUnit \in Nat
      /\ NumLimbs \in Nat /\ NumLimbs >= 1
  BY PadUnitBounds, ElementPowers, Room DEF Tame, GoodProd, MulResult
<1>2. TBits \in Nat /\ z \in Nat /\ z >= 1 BY TargetAssumption, Room, Pow2Step
<1>3. o \in Nat /\ n + 1 <= Pow2[o] /\ Pow2[o] \in Nat
  BY <1>1, OverheadLeast, Pow2Step
<1>4. NumLimbs * v <= n * s /\ s <= NumLimbs * t BY DEF Tame, ModulusIsLarge
<1>5. s \in Nat /\ t \in Nat BY <1>1, <1>2
<1>6. t >= 1
  <2>1. 1 * 1 <= P * z BY <1>1, <1>2, ProductOrder
  <2> QED BY <1>5, <2>1
<1>7. Pow2[QuotientBits(u)] = Pow2[o] * z
  <2>1. Pow2[TBits + o] = z * Pow2[o] BY <1>2, <1>3, Pow2Plus
  <2>2. z * Pow2[o] = Pow2[o] * z BY <1>2, <1>3
  <2> QED BY <2>1, <2>2 DEF QuotientBits
<1>8. (Pow2[o] * z) * P = Pow2[o] * t BY <1>1, <1>2, <1>3
<1> HIDE DEF n, v, o, z, s, t
<1>9. v <= n * t
  <2>1. n * s <= n * (NumLimbs * t) BY <1>1, <1>4, <1>5, ProductOrder
  <2>2. n * (NumLimbs * t) = (n * t) * NumLimbs BY <1>1, <1>5
  <2>3. NumLimbs * v = v * NumLimbs BY <1>1
  <2>4. n * t \in Nat /\ n * s \in Nat BY <1>1, <1>5
  <2>5. v * NumLimbs \in Nat /\ (n * t) * NumLimbs \in Nat BY <1>1, <2>4
  <2>6. v * NumLimbs <= (n * t) * NumLimbs BY <1>4, <2>1, <2>2, <2>3, <2>4, <2>5
  <2> QED BY <1>1, <2>4, <2>6, Cancel
<1>10. v < Pow2[o] * t
  <2>1. (n + 1) * t <= Pow2[o] * t BY <1>1, <1>3, <1>5, ProductOrder
  <2>2. (n + 1) * t = n * t + t BY <1>1, <1>5
  <2>3. n * t \in Nat /\ Pow2[o] * t \in Nat BY <1>1, <1>3, <1>5
  <2> QED BY <1>1, <1>5, <1>6, <1>9, <2>1, <2>2, <2>3
<1>11. Pow2[o] * z \in Nat BY <1>2, <1>3
<1>12. v \div P < Pow2[o] * z /\ v \div P \in Nat
  BY <1>1, <1>8, <1>10, <1>11, QuotientBelow
<1> QED BY <1>7, <1>11, <1>12 DEF v

(* A sum of products with room for its counter is reduced in the field,    *)
(* whatever quotient is picked, and where the modulus is large the honest  *)
(* witnesses have their bits.                                              *)
LEMMA MulReduceFits ==
  ASSUME LimbsNotNarrow, NEW u, Reducible(u), Tame(u)
  PROVE  /\ FewLimbs => "wrap" \notin MulReduceFaults(u)
         /\ ModulusIsLarge => "unsat" \notin MulReduceFaults(u)
<1> DEFINE n       == u.sums
           surfeit == Overhead(n + 1)
           s       == Pow2[surfeit]
           kTop    == Pow2[TopBits + surfeit] - 1
           left    == u.size * B * B - 1
           right   == ((NumLimbs - 1) * (B - 1) + kTop) * (B - 1) + (B - 1)
           above   == surfeit + (2 * BitsPerLimb - BitsPerLimb)
           unsat   == u.val \div P >= Pow2[QuotientBits(u)]
<1>1. n \in Nat /\ n >= 1 /\ u.size \in Nat /\ u.size <= n
  BY DEF Tame, GoodProd, MulResult
<1>2. surfeit \in Nat /\ n + 1 <= s /\ surfeit + 2 * BitsPerLimb <= MBS - 4
  BY <1>1, OverheadLeast DEF Reducible
<1>3. ModulusIsLarge => ~unsat BY QuotientFits
<1> HIDE DEF n, surfeit, unsat
<1>4. /\ B \in Nat /\ B - 1 \in Nat /\ B >= 1 /\ BitsPerLimb \in Nat
      /\ NumLimbs - 1 \in Nat /\ s \in Nat /\ s >= 2
  BY <1>1, <1>2, Room, Pow2Step
<1>5. above = surfeit + BitsPerLimb /\ above \in Nat BY <1>2, <1>4
<1>6. /\ Pow2[above] = s * B
      /\ Pow2[surfeit + 2 * BitsPerLimb] = (s * B) * B
  <2>1. surfeit + 2 * BitsPerLimb = above + BitsPerLimb BY <1>2, <1>4, <1>5
  <2>2. Pow2[surfeit + BitsPerLimb] = s * B BY <1>2, <1>4, Pow2Plus DEF B
  <2> HIDE DEF above
  <2>3. Pow2[above + BitsPerLimb] = Pow2[above] * B BY <1>4, <1>5, Pow2Plus DEF B
  <2> QED BY <1>5, <2>1, <2>2, <2>3
<1> HIDE DEF above
<1>7. u.size * B * B \in Nat /\ u.size * B * B <= Pow2[surfeit + 2 * BitsPerLimb]
  <2>1. u.size <= s BY <1>1, <1>2, <1>4
  <2>2. u.size * B <= s * B /\ u.size * B \in Nat /\ s * B \in Nat
    BY <1>1, <1>4, <2>1, ProductOrder
  <2>3. (u.size * B) * B <= (s * B) * B /\ (u.size * B) * B \in Nat
    BY <1>4, <2>2, ProductOrder
  <2> QED BY <1>6, <2>3
<1>8. Pow2[surfeit + 2 * BitsPerLimb] < Q /\ Pow2[surfeit + 2 * BitsPerLimb] \in Nat
      /\ s < Q
  <2>1. surfeit + 2 * BitsPerLimb \in Nat /\ surfeit <= MBS - 1
        /\ surfeit + 2 * BitsPerLimb <= MBS - 1
    BY <1>2, <1>4, Room
  <2> QED BY <1>2, <2>1, PadFitsField, Pow2Step
<1>9. kTop + 1 \in Nat /\ kTop \in Nat /\ kTop + 1 <= s * B
  <2>1. Pow2[TopBits] \in Nat /\ Pow2[TopBits] >= 2 /\ Pow2[TopBits] <= B
    BY ElementPowers
  <2>2. Pow2[TopBits + surfeit] = Pow2[TopBits] * s BY <1>2, Room, Pow2Plus
  <2>3. Pow2[TopBits] * s <= B * s /\ Pow2[TopBits] * s \in Nat /\ B * s = s * B
        /\ 2 * 2 <= Pow2[TopBits] * s
    BY <1>4, <2>1, ProductOrder
  <2>4. s * B \in Nat BY <1>4
  <2> HIDE DEF s
  <2> QED BY <2>2, <2>3, <2>4
<1> HIDE DEF kTop
<1>10. right \in Nat
  <2>1. (NumLimbs - 1) * (B - 1) \in Nat BY <1>4
  <2>2. ((NumLimbs - 1) * (B - 1) + kTop) * (B - 1) \in Nat BY <1>4, <1>9, <2>1
  <2> QED BY <1>4, <2>2
<1>11. ASSUME FewLimbs
       PROVE  right <= 4 * (Pow2[above] * (Pow2[BitsPerLimb] - 1))
  <2> DEFINE c == (NumLimbs - 1) * (B - 1)
             x == s * B
             z == 4 * x
  <2>1. NumLimbs - 1 <= 3 * s
    <3>1. s >= 2 /\ s \in Nat BY <1>1, <1>2, <1>4
    <3>2. NumLimbs <= 7 /\ NumLimbs \in Nat BY <1>11, LimbAssumption DEF FewLimbs
    <3> HIDE DEF s, c, x, z
    <3>3. 3 * s >= 6 BY <3>1
    <3> QED BY <3>1, <3>2, <3>3
  <2>2. 3 * s \in Nat BY <1>4
  <2>3. c <= (3 * s) * B /\ c \in Nat BY <1>4, <2>1, <2>2, ProductOrder
  <2>4. (3 * s) * B = 3 * x /\ x \in Nat BY <1>4
  <2>5. right = (c + (kTop + 1)) * (B - 1) BY <1>4, <1>9, <2>3
  <2> HIDE DEF c, x
  <2>6. c + (kTop + 1) \in Nat /\ z \in Nat /\ c + (kTop + 1) <= z
    BY <1>9, <2>3, <2>4 DEF x
  <2>7. (c + (kTop + 1)) * (B - 1) <= z * (B - 1) BY <1>4, <2>6, ProductOrder
  <2>8. z * (B - 1) = 4 * (Pow2[above] * (Pow2[BitsPerLimb] - 1))
    <3>1. z * (B - 1) = 4 * (x * (B - 1)) BY <1>4, <2>4
    <3> QED BY <1>6, <3>1 DEF x, B
  <2> HIDE DEF z, right
  <2> QED BY <2>5, <2>7, <2>8
<1>12. left \in Int /\ left >= -1 /\ left <= Pow2[surfeit + 2 * BitsPerLimb] /\ left < Q
  <2> DEFINE a == u.size * B * B
  <2>1. left = a - 1 OBVIOUS
  <2>2. a \in Nat /\ a <= Pow2[surfeit + 2 * BitsPerLimb] BY <1>7
  <2> HIDE DEF a
  <2> QED BY <1>8, <2>1, <2>2, FieldAssumption
<1> HIDE DEF left, right
<1> DEFINE g == GroupFaults(surfeit, 2 * BitsPerLimb, BitsPerLimb,
                            left, right, 2 * NumLimbs - 1)
           f == Faults(FALSE, left >= Q \/ n + 1 >= Q, unsat)
<1>13. (FewLimbs => "wrap" \notin g) /\ "unsat" \notin g
  <2>1. /\ 2 * BitsPerLimb \in Nat /\ BitsPerLimb \in Nat /\ BitsPerLimb >= 1
        /\ BitsPerLimb <= 2 * BitsPerLimb
        /\ 2 * NumLimbs - 1 \in Nat /\ 2 * NumLimbs - 1 >= 1
    BY Room
  <2>2. FewLimbs =>
          right <= 4 * (Pow2[surfeit + (2 * BitsPerLimb - BitsPerLimb)]
                          * (Pow2[BitsPerLimb] - 1))
    BY <1>11 DEF above
  <2>3. /\ right <= 4 * (Pow2[surfeit + (2 * BitsPerLimb - BitsPerLimb)]
                           * (Pow2[BitsPerLimb] - 1)) => "wrap" \notin g
        /\ "unsat" \notin g
    BY <1>2, <1>10, <1>12, <2>1, GroupsFit DEF LimbsNotNarrow
  <2> QED BY <2>2, <2>3
<1>14. ~(left >= Q \/ n + 1 >= Q)
  <2>1. n + 1 < Q BY <1>1, <1>2, <1>4, <1>8, FieldAssumption
  <2> QED BY <1>1, <1>12, <2>1, FieldAssumption
<1>15. "wrap" \notin f /\ (ModulusIsLarge => "unsat" \notin f)
  BY <1>14, <1>3, WrapInFaults, UnsatInFaults
<1>16. MulReduceFaults(u) = f \cup g
  BY DEF MulReduceFaults, n, surfeit, kTop, left, right, unsat
<1> QED BY <1>13, <1>15, <1>16

(* A sum of two tame products is tame.                                     *)
LEMMA TameSum ==
  ASSUME NEW u, NEW v, Tame(u), Tame(v), PadUnit \in Nat
  PROVE  Tame(MulSum(u, v))
<1> DEFINE s == PadUnit * PadUnit
           w == MulSum(u, v)
<1>1. /\ u.sums \in Nat /\ v.sums \in Nat /\ u.val \in Nat /\ v.val \in Nat
      /\ s \in Nat /\ NumLimbs \in Nat
  BY Room DEF Tame, GoodProd, MulResult
<1>2. w.sums = u.sums + v.sums /\ w.val = u.val + v.val BY DEF MulSum
<1>3. GoodProd(w) BY MulSumGood DEF Tame
<1>4. NumLimbs * u.val <= u.sums * s /\ NumLimbs * v.val <= v.sums * s BY DEF Tame
<1> HIDE DEF s, w
<1>5. NumLimbs * w.val <= w.sums * s
  <2>1. NumLimbs * w.val = NumLimbs * u.val + NumLimbs * v.val BY <1>1, <1>2
  <2>2. w.sums * s = u.sums * s + v.sums * s BY <1>1, <1>2
  <2>3. NumLimbs * u.val \in Nat /\ NumLimbs * v.val \in Nat
        /\ u.sums * s \in Nat /\ v.sums * s \in Nat
    BY <1>1
  <2> QED BY <1>4, <2>1, <2>2, <2>3
<1>6. w.sums >= 1 BY <1>1, <1>2 DEF Tame
<1> QED BY <1>3, <1>5, <1>6 DEF Tame, s, w

(* An integer of n ranges is tame as a sum of n.                           *)
LEMMA TameUnits ==
  ASSUME LimbsNotNarrow, NEW u, GoodProd(u), u.sums >= 1,
         u.val <= u.sums * PadUnit
  PROVE  Tame(u)
<1>1. u.sums \in Nat /\ u.val \in Nat /\ PadUnit \in Nat /\ NumLimbs \in Nat
      /\ NumLimbs <= PadUnit
  BY PadUnitBounds, Room DEF GoodProd, MulResult
<1>2. u.sums * PadUnit \in Nat BY <1>1
<1>3. NumLimbs * u.val <= PadUnit * (u.sums * PadUnit) BY <1>1, <1>2, ProductOrder
<1>4. PadUnit * (u.sums * PadUnit) = u.sums * (PadUnit * PadUnit) BY <1>1
<1> QED BY <1>3, <1>4 DEF Tame

(* What a program can multiply, convert and add is tame.                   *)
LEMMA FromVarTame ==
  ASSUME LimbsNotNarrow, NEW x, Good(x)
  PROVE  Tame(FromVar(x))
<1> DEFINE u == FromVar(x)
<1>1. x.size \in Nat /\ x.adds \in Nat /\ x.adds + 1 \in Nat /\ x.size <= x.adds + 1
  BY DEF Good, Bounded, Element
<1>2. x.size * PadUnit <= (x.adds + 1) * PadUnit BY <1>1, PadUnitBounds, ProductOrder
<1>3. u.val = x.size * PadUnit /\ u.sums = x.adds + 1
  BY DEF FromVar, ValMax
<1>4. GoodProd(u) BY FromVarGood
<1> HIDE DEF u
<1>5. u.sums >= 1 BY <1>1, <1>3
<1>6. u.val <= u.sums * PadUnit BY <1>2, <1>3
<1>7. Tame(u) BY <1>4, <1>5, <1>6, TameUnits
<1> QED BY <1>7 DEF u

(* A sum of tame products, or of one and a constant, is tame.              *)
LEMMA SumTame ==
  ASSUME LimbsNotNarrow, NEW u, NEW v, Tame(u), Tame(v)
  PROVE  Tame(MulSum(u, v)) /\ Tame(MulSumConstant(u))
<1> DEFINE c == [sums |-> 1, size |-> 1, val |-> P - 1]
<1>1. c.sums = 1 /\ c.size = 1 /\ c.val = P - 1 OBVIOUS
<1>2. P - 1 \in Nat /\ P - 1 <= 1 * PadUnit BY PadUnitBounds
<1>3. GoodProd(c) BY <1>2 DEF GoodProd, MulResult
<1> HIDE DEF c
<1>4. Tame(c) BY <1>1, <1>2, <1>3, TameUnits
<1> QED BY <1>4, TameSum, PadUnitBounds DEF MulSumConstant, c

(* The product of two elements is tame.                                    *)
LEMMA ProductTame ==
  ASSUME LimbsNotNarrow, NEW x, NEW y, Good(x), Good(y)
  PROVE  Tame(Product(x, y))
<1> DEFINE a == PreMulReduce(x, y)[1]
           b == PreMulReduce(x, y)[2]
           i == a.adds + 1
           j == b.adds + 1
           k == a.size
           l == b.size
           s == PadUnit * PadUnit
           u == Product(x, y)
<1>1. Good(a) /\ Good(b) BY PreMulGood
<1>2. u.sums = i * j * NumLimbs /\ u.val = (k * PadUnit) * (l * PadUnit)
  BY DEF Product, ValMax
<1> HIDE DEF a, b
<1>3. i \in Nat /\ j \in Nat /\ k \in Nat /\ l \in Nat /\ k <= i /\ l <= j
      /\ i >= 1 /\ j >= 1
  BY <1>1 DEF Good, Bounded, Element
<1> HIDE DEF i, j, k, l, u
<1>4. s \in Nat /\ PadUnit \in Nat /\ NumLimbs \in Nat BY PadUnitBounds, Room
<1>5. k * l <= i * j /\ k * l \in Nat /\ i * j \in Nat /\ 1 * 1 <= i * j
  BY <1>3, ProductOrder
<1>6. u.val = (k * l) * s BY <1>2, <1>3, <1>4
<1> HIDE DEF s
<1>7. NumLimbs * u.val <= u.sums * s
  <2>1. (NumLimbs * s) * (k * l) <= (NumLimbs * s) * (i * j) BY <1>4, <1>5, ProductOrder
  <2>2. NumLimbs * u.val = (NumLimbs * s) * (k * l) BY <1>3, <1>4, <1>6
  <2>3. u.sums * s = (NumLimbs * s) * (i * j) BY <1>2, <1>3, <1>4
  <2> QED BY <2>1, <2>2, <2>3
<1>8. u.sums >= 1
  <2>1. 1 * NumLimbs <= (i * j) * NumLimbs BY <1>4, <1>5, ProductOrder
  <2>2. NumLimbs >= 1 BY LimbAssumption
  <2>3. 1 * NumLimbs >= 1 BY <1>4, <2>2
  <2>4. (i * j) * NumLimbs \in Nat BY <1>4, <1>5
  <2>5. (i * j) * NumLimbs >= 1 BY <1>4, <2>1, <2>3, <2>4
  <2> QED BY <1>2, <2>5
<1>9. GoodProd(u) BY ProductGood DEF u
<1> QED BY <1>7, <1>8, <1>9 DEF Tame, u, s

(* A multiplication is quiet, and so is an inversion.                      *)
LEMMA MulQuiet ==
  ASSUME LimbsNotNarrow, NEW x, NEW y, Good(x), Good(y)
  PROVE  /\ Quiet(PreMulFaults(x, y)) /\ Quiet(MulFaults(x, y))
         /\ Quiet(InverseFaults(x))
<1>1. ASSUME NEW z, NEW w, Good(z), Good(w)
      PROVE  Quiet(PreMulFaults(z, w)) /\ Quiet(MulFaults(z, w))
  <2>1. Quiet(ReduceFaults(z)) /\ Quiet(ReduceFaults(w))
    BY <1>1, CallsAreUnreduced, ReduceQuiet
  <2>2. Quiet(Faults(2 * BitsPerLimb + Log2Ceil(NumLimbs + 1) >= MBS - 3, FALSE, FALSE))
    BY WrapInFaults, UnsatInFaults DEF Quiet
  <2>3. Quiet(PreMulFaults(z, w)) BY <2>1, <2>2 DEF PreMulFaults, Quiet
  <2>4. Quiet(MulReduceFaults(Product(z, w)))
    BY <1>1, GoodIsBounded, ProductReducible, ProductTame, MulReduceFits DEF Quiet
  <2>5. Quiet(MulFaults(z, w)) BY <2>3, <2>4 DEF MulFaults, Quiet
  <2> QED BY <2>3, <2>5
<1>2. Quiet(MulFaults(x, Witness)) BY <1>1, FreshGood
<1>3. Quiet(ConditionalEnforceEqualFaults(Witness, Canonical))
  BY FreshGood, SubQuiet
<1>4. Quiet(InverseFaults(x)) BY <1>2, <1>3 DEF InverseFaults, Quiet
<1> QED BY <1>1, <1>4

-----------------------------------------------------------------------------
(* The invariant: Inv, and without negated limbs unreduced sums that are   *)
(* tame and nothing but quiet calls so far.                                *)

QuietInv ==
  /\ Inv
  /\ NeverNegates => Quiet(faults) /\ \A s \in ProdSlots : Tame(prod[s])

(* The empty circuit is quiet.                                             *)
LEMMA QuietInit == ASSUME LimbsNotNarrow PROVE Init => QuietInv
<1> SUFFICES ASSUME Init PROVE QuietInv
  OBVIOUS
<1>1. Tame(FromVar(Canonical)) BY FromVarTame, FreshGood
<1> QED BY <1>1, InvInit DEF Init, QuietInv, Quiet

(* A quiet call that leaves the products alone.                            *)
LEMMA QuietCall ==
  ASSUME QuietInv, NeverNegates, Inv', prod' = prod, NEW f,
         faults' = faults \cup f, Quiet(f)
  PROVE  QuietInv'
BY DEF QuietInv, Quiet

(* The same for a call that stores an element,                             *)
LEMMA QuietPut ==
  ASSUME QuietInv, NeverNegates, Inv', NEW d, NEW x, NEW f, Put(d, x, f),
         Quiet(f)
  PROVE  QuietInv'
BY QuietCall DEF Put

(* for one that stores nothing,                                            *)
LEMMA QuietEnforce ==
  ASSUME QuietInv, NeverNegates, Inv', NEW f, Enforce(f), Quiet(f)
  PROVE  QuietInv'
BY QuietCall DEF Enforce

(* and for one that stores a product.                                      *)
LEMMA QuietPutProd ==
  ASSUME QuietInv, NeverNegates, Inv', NEW d \in ProdSlots, NEW u, NEW f,
         PutProd(d, u, f), Tame(u), Quiet(f)
  PROVE  QuietInv'
<1>1. ASSUME NEW s \in ProdSlots PROVE Tame(prod'[s])
  <2>1. CASE s = d
    <3>1. prod'[s] = u BY <2>1 DEF QuietInv, Inv, CountInv, PutProd
    <3> QED BY <3>1
  <2>2. CASE s # d
    <3>1. prod'[s] = prod[s] BY <2>2 DEF QuietInv, Inv, CountInv, PutProd
    <3> QED BY <3>1 DEF QuietInv
  <2> QED BY <2>1, <2>2
<1>2. Quiet(faults') BY DEF QuietInv, Quiet, PutProd
<1> QED BY <1>1, <1>2 DEF QuietInv

(* Every call is quiet.                                                    *)
LEMMA QuietNext ==
  ASSUME LimbsNotNarrow, SumsReducible
  PROVE  QuietInv /\ [Next]_vars => QuietInv'
<1> SUFFICES ASSUME QuietInv, [Next]_vars PROVE QuietInv'
  OBVIOUS
<1>0. Inv /\ Inv' BY InvNext DEF QuietInv
<1>18. CASE ~NeverNegates' BY <1>0, <1>18 DEF QuietInv
<1>19. SUFFICES ASSUME NeverNegates' PROVE QuietInv'
  BY <1>18
<1>16. NeverNegates BY <1>19, NegatesForGood
<1>15. Quiet({}) BY DEF Quiet
<1> USE <1>0, <1>15, <1>16, QuietPut, QuietEnforce, QuietPutProd, OperandsGood
<1>1. ASSUME NEW d \in Slots, NewInput(d) \/ NewWitness(d) \/ TwoBitLookup(d)
      PROVE  QuietInv'
  BY <1>1 DEF NewInput, NewWitness, TwoBitLookup
<1>17. ASSUME NEW d \in Slots, ThreeBitCondNegLookup(d) PROVE QuietInv'
  BY <1>19, <1>17 DEF ThreeBitCondNegLookup, Put, NeverNegates
<1>2. ASSUME NEW d \in Slots, NEW x, NEW y, Good(x), Good(y), Add(d, x, y)
      PROVE  QuietInv'
  BY <1>2, CallsAreUnreduced, ReduceQuiet DEF Add
<1>3. ASSUME NEW d \in Slots, NEW x, NEW y, Good(x), Good(y), Sub(d, x, y)
      PROVE  QuietInv'
  <2>1. Quiet(SubFaults(x, y) \cup PostAddFaults(SubWithoutReduce(x, y)))
    BY <1>3, SubQuiet DEF Quiet
  <2> QED BY <1>3, <2>1 DEF Sub
<1>4. ASSUME NEW d \in Slots, NEW x, NEW y, Good(x), Good(y), Mul(d, x, y)
      PROVE  QuietInv'
  BY <1>4, MulQuiet DEF Mul
<1>5. ASSUME NEW d \in Slots, NEW x, NEW y, ConditionallySelect(d, x, y)
      PROVE  QuietInv'
  BY <1>5 DEF ConditionallySelect
<1>6. ASSUME NEW d \in Slots, NEW x, Good(x), InverseOf(d, x)
      PROVE  QuietInv'
  BY <1>6, MulQuiet DEF InverseOf
<1>7. ASSUME NEW x, NEW y, Good(x), Good(y),
             ConditionalEnforceEqual(x, y) \/ ConditionalEnforceNotEqual(x, y)
      PROVE  QuietInv'
  <2>1. Quiet(ConditionalEnforceEqualFaults(x, y))
    BY <1>7, SubQuiet
  <2> DEFINE r == SubWithoutReduce(x, y)
             w == Selected(PostAddReduce(r), Canonical)
  <2>2. Good(w) BY <1>7, SubGood, SelectedGood, FreshGood
  <2>3. Quiet(SubFaults(x, y) \cup PostAddFaults(r) \cup InverseFaults(w))
    <3>1. Quiet(SubFaults(x, y)) /\ Quiet(PostAddFaults(r)) BY <1>7, SubQuiet
    <3>2. Quiet(InverseFaults(w)) BY <2>2, MulQuiet
    <3> QED BY <3>1, <3>2 DEF Quiet
  <2> QED BY <1>7, <2>1, <2>3
          DEF ConditionalEnforceEqual, ConditionalEnforceNotEqual
<1>8. ASSUME NEW x, Good(x), ToBitsLe(x) PROVE QuietInv'
  <2>1. Quiet(ReduceFaults(x))
    BY <1>8, CallsAreUnreduced, ReduceQuiet
  <2> DEFINE z == IF x.normal THEN x ELSE Witness
  <2>2. ~(LimbMax(z) >= B)
    <3>1. CASE x.normal
      <4>1. x.size \in Nat /\ x.size <= 1 BY <1>8, <3>1 DEF Good, Bounded, Element
      <4>2. x.size * B <= 1 * B /\ x.size * B \in Nat BY <4>1, Room, ProductOrder
      <4> QED BY <3>1, <4>2, Room DEF LimbMax
    <3>2. CASE ~x.normal BY <3>2, Room DEF Witness, LimbMax
    <3> QED BY <3>1, <3>2
  <2> HIDE DEF z
  <2>3. Quiet(Faults(FALSE, FALSE, LimbMax(z) >= B))
    BY <2>2, PanicInFaults, WrapInFaults, UnsatInFaults DEF Quiet
  <2>4. PICK f : Quiet(f) /\ Enforce(f)
    <3>1. \A f, g : Quiet(f) /\ Quiet(g) => Quiet(f \cup g) BY DEF Quiet
    <3>2. Quiet(IF x.normal THEN {} ELSE ReduceFaults(x)) BY <2>1
    <3> QED BY <1>8, <2>3, <3>1, <3>2 DEF ToBitsLe, z
  <2> QED BY <2>4
<1>9. ASSUME NEW d \in ProdSlots, NEW x, NEW y, Good(x), Good(y),
             MulWithoutReduce(d, x, y)
      PROVE  QuietInv'
  BY <1>9, ProductTame, MulQuiet DEF MulWithoutReduce
<1>10. ASSUME NEW d \in ProdSlots, NEW x, Good(x), MulResultFrom(d, x)
       PROVE  QuietInv'
  BY <1>10, FromVarTame DEF MulResultFrom
<1>11. ASSUME NEW d \in ProdSlots, NEW s \in ProdSlots, NEW t \in ProdSlots,
              MulResultAdd(d, prod[s], prod[t]) \/ MulResultAddConstant(d, prod[s])
       PROVE  QuietInv'
  <2>1. Tame(MulSum(prod[s], prod[t])) /\ Tame(MulSumConstant(prod[s]))
    BY SumTame DEF QuietInv
  <2> QED BY <1>11, <2>1 DEF MulResultAdd, MulResultAddConstant
<1>12. ASSUME NEW d \in Slots, NEW s \in ProdSlots, MulResultReduce(d, prod[s])
       PROVE  QuietInv'
  <2>1. Quiet(MulReduceFaults(prod[s]))
    BY MulReduceFits DEF Quiet, QuietInv, Inv, CountInv
  <2> QED BY <1>12, <2>1 DEF MulResultReduce
<1>13. CASE UNCHANGED vars
  <2>1. UNCHANGED <<prod, faults>> BY <1>13 DEF vars
  <2> QED BY <2>1 DEF QuietInv
<1>14. Good(Canonical) BY FreshGood
<1> QED
  BY <1>1, <1>2, <1>3, <1>4, <1>5, <1>6, <1>7, <1>8, <1>9, <1>10, <1>11,
     <1>12, <1>13, <1>14, <1>17
  DEF Next, AddConstant, SubConstant, MulConstant, Negate

(* Under the same conditions, with at most seven limbs and without negated *)
(* limbs, no limb, group of limbs or padding reaches the native modulus    *)
(* and no difference falls below zero, whatever quotients and remainders a *)
(* prover picks: but for a carry that is too large, what the constraints   *)
(* say in the field holds of the integers.                                 *)
THEOREM NeverWraps ==
  ASSUME LimbsNotNarrow, SumsReducible, FewLimbs
  PROVE  Spec => []NoWrapAround
<1>1. Init => QuietInv BY QuietInit
<1>2. QuietInv /\ [Next]_vars => QuietInv' BY QuietNext
<1>3. QuietInv => NoWrapAround BY DEF QuietInv, Quiet, NoWrapAround
<1> QED BY <1>1, <1>2, <1>3, PTL DEF Spec

(* Where the modulus is large, every quotient, carry and limb an honest    *)
(* prover has to give has, without negated limbs, the bits it is allocated *)
(* with: no sequence of calls makes a correct computation unprovable.      *)
THEOREM HonestProversSucceed ==
  ASSUME LimbsNotNarrow, SumsReducible, ModulusIsLarge
  PROVE  Spec => []HonestProverSucceeds
<1>1. Init => QuietInv BY QuietInit
<1>2. QuietInv /\ [Next]_vars => QuietInv' BY QuietNext
<1>3. QuietInv => HonestProverSucceeds
  BY DEF QuietInv, Quiet, HonestProverSucceeds
<1> QED BY <1>1, <1>2, <1>3, PTL DEF Spec
=============================================================================
