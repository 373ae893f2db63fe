--------------------------- MODULE GroupEquality ----------------------------
(***************************************************************************)
(* group_and_check_equality, limb by limb: two vectors of limbs are packed *)
(* into groups, and the groups compared from the least significant on,     *)
(* with a carry from each to the next.  The limbs are larger than their    *)
(* base, so that the same integer has many vectors; every value is         *)
(* computed in the native field, so that the check is about integers only  *)
(* as long as nothing leaves the field.                                    *)
(*                                                                         *)
(* A carry is a witness: beside the one the program computes, a prover may *)
(* give any that satisfies the group's equation, which is an equation of   *)
(* the field, and has the bits it is allowed.  The code packs all the      *)
(* groups before it checks the first; here a group is checked as soon as   *)
(* it is full, which computes the same.                                    *)
(***************************************************************************)
EXTENDS GroupSizes

CONSTANTS
  Surfeit, Bits, Shift,  \* the arguments surfeit, bits_per_limb, shift_per_limb
  Len,                   \* the number of limb pairs
  LeftLimbs, RightLimbs, \* the limbs a call is made with
  LeftMax, RightMax      \* the largest of them

Size == GroupSize(MBS, Surfeit, Bits, Shift)

Pad(n) == Pow2[PadExponent(Surfeit, Bits, Shift, n)]

ASSUME CallAssumption ==
  /\ Surfeit \in Nat /\ Shift \in Nat \ {0} /\ Bits \in Nat /\ Bits >= Shift
  /\ Len \in Nat \ {0} /\ LeftMax \in Nat /\ RightMax \in Nat
  /\ LeftLimbs \subseteq 0 .. LeftMax /\ RightLimbs \subseteq 0 .. RightMax
  /\ Size \in Nat /\ Size >= 1

(* The sizes leave the room that GroupFaults asks for, but for the range   *)
(* of a carry, which may be loose.                                         *)
ASSUME NoFaultsAssumption ==
  GroupFaults(Surfeit, Bits, Shift, LeftMax, RightMax, Len) \subseteq {"loose"}

VARIABLES
  left, right,  \* limb_pairs, least significant first
  group,        \* left_total_limb, right_total_limb and length of the group
  taken,        \* how many limb pairs have been put into groups
  carryIn,      \* carry_in_value
  extra,        \* accumulated_extra
  pc,           \* "pack", "check" or "done"
  satisfied,    \* every constraint enforced so far is satisfied
  ints,         \* history: the integers of the limbs taken, left and right
  honest,       \* history: every carry so far is the one the program computes
  inField       \* history: no right side of an equation has left the field

vars == <<left, right, group, taken, carryIn, extra, pc, satisfied,
          ints, honest, inField>>

Empty == [left |-> 0, right |-> 0, len |-> 0]

Init ==
  /\ left \in [1 .. Len -> LeftLimbs] /\ right \in [1 .. Len -> RightLimbs]
  /\ group = Empty /\ taken = 0
  /\ carryIn = 0 /\ extra = 0
  /\ pc = "pack" /\ satisfied = TRUE
  /\ ints = [left |-> 0, right |-> 0]
  /\ honest = TRUE /\ inField = TRUE

-----------------------------------------------------------------------------
(* Mutant: every limb of a group is added with the weight of the first.    *)
WeightFlat(n) == 1

(* shift_array: the weight of the limb after n others in its group.        *)
Weight(n) == Pow2[Shift * n]

(* Mutant: the limbs are taken as they are stored, most significant first. *)
NextPairUnreversed == Len - taken

(* The limb pair to take next.                                             *)
NextPair == taken + 1

(* Whether a group of n limbs is complete with the limb pair taken last.   *)
Closes(n) == n = Size \/ taken + 1 = Len

(* The next limb pair is added to the group.                               *)
AddLimb ==
  /\ pc = "pack"
  /\ LET l == left[NextPair]
         r == right[NextPair]
     IN  /\ group' = [left  |-> (group.left + l * Weight(group.len)) % Q,
                      right |-> (group.right + r * Weight(group.len)) % Q,
                      len   |-> group.len + 1]
         /\ ints' = [left  |-> ints.left + l * Pow2[Shift * taken],
                     right |-> ints.right + r * Pow2[Shift * taken]]
  /\ taken' = taken + 1
  /\ pc' = IF Closes(group.len + 1) THEN "check" ELSE "pack"
  /\ UNCHANGED <<left, right, carryIn, extra, satisfied, honest, inField>>

(* left_total_limb + carry_in + pad_limb - right_total_limb, in the field. *)
GroupValue == (group.left + carryIn + Pad(group.len) - group.right) % Q

(* 2^(shift * group.len), and the paddings up to this group.               *)
Base == Pow2[Shift * group.len]
Extra == extra + Pad(group.len)

(* The carry the program computes.                                         *)
OwnCarry == GroupValue \div Base

(* carry * 2^(shift * group.len) + remainder, as an integer.               *)
RightSide(carry) == carry * Base + (Extra % Base)

(* The carries the range check lets pass: for the last group the one that  *)
(* the paddings alone leave behind, otherwise the ones short enough for    *)
(* limb_to_bits.                                                           *)
Allowed == IF taken = Len THEN {(Extra \div Base) % Q}
                          ELSE 0 .. CarryRange(Surfeit, Bits) - 1

(* Mutant: nothing is asked of the last carry.                             *)
HoldsForAnyLast(carry) ==
  /\ GroupValue = RightSide(carry) % Q
  /\ taken # Len => carry \in Allowed

(* The equation of a group holds in the field, and its carry is allowed.   *)
Holds(carry) ==
  /\ GroupValue = RightSide(carry) % Q
  /\ carry \in Allowed

(* Every carry that satisfies the constraints, and the program's own: any  *)
(* other only leaves a constraint unsatisfied.                             *)
Carries == {OwnCarry} \cup {carry \in Allowed : Holds(carry)}

CheckGroup ==
  /\ pc = "check"
  /\ \E carry \in Carries :
       /\ satisfied' = (satisfied /\ Holds(carry))
       /\ honest' = (honest /\ carry = OwnCarry)
       /\ inField' = (inField /\ RightSide(carry) < Q)
       /\ carryIn' = carry
  /\ extra' = Extra \div Base
  /\ group' = Empty
  /\ pc' = IF taken = Len THEN "done" ELSE "pack"
  /\ UNCHANGED <<left, right, taken, ints>>

Done == pc = "done" /\ UNCHANGED vars

Next == AddLimb \/ CheckGroup \/ Done

Spec == Init /\ [][Next]_vars

-----------------------------------------------------------------------------
TypeOK ==
  /\ left \in [1 .. Len -> 0 .. LeftMax] /\ right \in [1 .. Len -> 0 .. RightMax]
  /\ group \in [left : 0 .. Q - 1, right : 0 .. Q - 1, len : 0 .. Size]
  /\ group.len <= taken
  /\ taken \in 0 .. Len /\ carryIn \in 0 .. Q - 1 /\ extra \in 0 .. Q - 1
  /\ pc \in {"pack", "check", "done"} /\ satisfied \in BOOLEAN
  /\ ints \in [left : Nat, right : Nat]
  /\ honest \in BOOLEAN /\ inField \in BOOLEAN

(* The integer of the n least significant limbs.                           *)
IntegerUpTo(limbs) ==
  LET sum[n \in 0 .. Len] ==
        IF n = 0 THEN 0 ELSE sum[n - 1] + limbs[n] * Pow2[Shift * (n - 1)]
  IN sum

(* The integers compared are those of the vectors, all limbs included.     *)
IntegersAreWhole ==
  pc = "done" =>
    ints = [left |-> IntegerUpTo(left)[Len], right |-> IntegerUpTo(right)[Len]]

(* While the constraints are satisfied the difference of the integers seen *)
(* so far is what the carry holds over the carry of the paddings, and the  *)
(* group in the making: always in the field, and in the integers as long   *)
(* as no right side has left the field, whatever carries a prover gives.   *)
CarriesAreExact ==
  satisfied =>
    LET off == (ints.left - ints.right)
                 - ((carryIn - extra) + (group.left - group.right))
                     * Pow2[Shift * (taken - group.len)]
    IN  off % Q = 0 /\ (inField => off = 0)

(* The check is sound: vectors that pass are the same field element, and   *)
(* the same integer if no right side has left the field.                   *)
PassesOnlyIfEqual ==
  pc = "done" /\ satisfied =>
    /\ (ints.left - ints.right) % Q = 0
    /\ inField => ints.left = ints.right

(* The check is complete: vectors of the same integer pass with the        *)
(* carries the program computes, whatever the limbs are.                   *)
EqualPasses == pc = "done" /\ honest /\ ints.left = ints.right => satisfied
=============================================================================
