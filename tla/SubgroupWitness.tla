--------------------------- MODULE SubgroupWitness --------------------------
(***************************************************************************)
(* CyclicPoints of the prime-order subgroup: the allocation of a witness         *)
(* (AllocVar::new_variable of both curve models, which share the code) and *)
(* enforce_prime_order of twisted Edwards curves.                          *)
(*                                                                         *)
(* The curve is taken to be a cyclic group of r * h points, and a point to *)
(* be a multiple of its generator; the points of order r are the multiples *)
(* of h.  The formulae are complete: their arithmetic is that of the group *)
(* (modules WeierstrassLaw and EdwardsLaw).                                *)
(***************************************************************************)
EXTENDS PowersOfTwo, FiniteSetsExt

CONSTANT Curves  \* pairs <<order of the subgroup, cofactor>> that are Allowed

(* The number of twos in x.                                                *)
Twos(x) == Max({k \in 0 .. x : x % Pow2[k] = 0})

(* The order is an odd prime that does not divide the cofactor, and above  *)
(* the powers of two in it.  Of a prime, what matters is that there is an  *)
(* inverse of every residue but zero.                                      *)
Allowed(c) ==
  /\ c \in (Nat \ {0, 1, 2}) \X (Nat \ {0})
  /\ \A x \in 1 .. c[1] - 1 : \E y \in 1 .. c[1] - 1 : (x * y) % c[1] = 1
  /\ c[2] % c[1] # 0
  /\ Pow2[Twos(c[2])] < c[1]

ASSUME CurvesAssumption == \A c \in Curves : Allowed(c)

VARIABLES
  r, h,       \* P::ScalarField::MODULUS, P::COFACTOR
  task,       \* "witness": new_variable; "enforce": enforce_prime_order
  allocated,  \* the point the prover allocates, or self
  ge,         \* ge, after the doublings so far
  doublings,  \* doublings left
  place,      \* the place of the next bit of the factor, plus one
  result,     \* result
  pc,         \* "double", "bits", "done"
  satisfied   \* the constraints hold

vars == <<r, h, task, allocated, ge, doublings, place, result, pc, satisfied>>

args == <<r, h, task, allocated>>

-----------------------------------------------------------------------------
CyclicPoints == 0 .. r * h - 1

Times(n, p) == (n * p) % (r * h)

OddPart == h \div Pow2[Twos(h)]

Weight(x) == Cardinality({k \in 0 .. BitLength(x) : (x \div Pow2[k]) % 2 = 1})

(* The cheaper of the two checks.                                          *)
ByCofactor == Weight(OddPart) < Weight(r - 1)

(* Mutant: the twos of the cofactor are left in the factor.                *)
FactorWhole == IF task = "witness" /\ ByCofactor THEN h ELSE r - 1

(* The number whose bits the loop goes through.                            *)
Factor == IF task = "witness" /\ ByCofactor THEN OddPart ELSE r - 1

(* Mutant: the twos of the cofactor are forgotten.                         *)
DoublingsNone == 0

Doublings == IF task = "witness" THEN Twos(h) ELSE 0

(* What the program allocates for the point g: on its way through the      *)
(* doublings and the loop it becomes g again.                              *)
InverseModOrder(x) == CHOOSE y \in 1 .. r - 1 : (x * y) % r = 1

HonestWitness(g) ==
  Times(InverseModOrder(IF ByCofactor THEN h % r ELSE Pow2[Twos(h)]), g)

-----------------------------------------------------------------------------
(* The on-curve constraint lets a prover allocate every point.             *)
Init ==
  /\ \E c \in Curves : r = c[1] /\ h = c[2]
  /\ task \in {"witness", "enforce"}
  /\ allocated \in CyclicPoints
  /\ ge = allocated
  /\ doublings = Doublings
  /\ place = BitLength(Factor)
  /\ result = 0 /\ pc = "double" /\ satisfied = TRUE

RemoveEvenPart ==
  /\ pc = "double" /\ doublings # 0
  /\ ge' = Times(2, ge)
  /\ doublings' = doublings - 1
  /\ UNCHANGED <<args, place, result, pc, satisfied>>

StartLoop ==
  /\ pc = "double" /\ doublings = 0
  /\ pc' = "bits"
  /\ UNCHANGED <<args, ge, doublings, place, result, satisfied>>

(* Most significant bit first, without the leading zeros.                  *)
BitStep ==
  /\ pc = "bits" /\ place # 0
  /\ LET bit == (Factor \div Pow2[place - 1]) % 2
     IN result' = Times(1, 2 * result + bit * ge)
  /\ place' = place - 1
  /\ UNCHANGED <<args, ge, doublings, pc, satisfied>>

(* Mutant: the point is compared itself, not its negation.                 *)
ComparedUnnegated == allocated

Compared == Times(r * h - 1, allocated)

(* The cofactor multiple is returned; in the other check ge is returned    *)
(* and compared with itself; enforce_prime_order compares -self with       *)
(* (r - 1) * self.                                                         *)
Return ==
  /\ pc = "bits" /\ place = 0
  /\ pc' = "done"
  /\ \/ task = "witness" /\ ByCofactor /\ UNCHANGED <<result, satisfied>>
     \/ task = "witness" /\ ~ByCofactor /\ result' = ge /\ satisfied' = (ge = ge)
     \/ task = "enforce" /\ satisfied' = (Compared = result) /\ UNCHANGED result
  /\ UNCHANGED <<args, ge, doublings, place>>

Done == pc = "done" /\ UNCHANGED vars

Next == RemoveEvenPart \/ StartLoop \/ BitStep \/ Return \/ Done

Spec == Init /\ [][Next]_vars

-----------------------------------------------------------------------------
(* Properties.                                                             *)

Subgroup == {p \in CyclicPoints : Times(r, p) = 0}

(* A prover that allocates what the program computes for g gets g, whether *)
(* the cofactor is odd, even or a power of two, by either check.           *)
WitnessRoundTrips ==
  pc = "done" /\ task = "witness" =>
    \A g \in Subgroup : allocated = HonestWitness(g) => satisfied /\ result = g

(* Whatever point is allocated, the check that multiplies by the cofactor  *)
(* returns one of the subgroup.                                            *)
CofactorClears ==
  pc = "done" /\ task = "witness" /\ ByCofactor => result \in Subgroup

(* enforce_prime_order accepts the points of the subgroup and no other.    *)
PrimeOrderEnforced ==
  pc = "done" /\ task = "enforce" => (satisfied <=> allocated \in Subgroup)
=============================================================================
