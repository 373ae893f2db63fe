------------------------ MODULE PowersOfTwo_proofs -------------------------
(***************************************************************************)
(* The arithmetic of Pow2 and Overhead that the proofs about the gadgets   *)
(* rest on.                                                                *)
(***************************************************************************)
EXTENDS PowersOfTwo, FiniteSetsExt, TLAPS, FiniteSetTheorems, WellFoundedInduction

(* The larger of two integers.                                             *)
LEMMA MaxPair ==
  ASSUME NEW a \in Int, NEW b \in Int
  PROVE  Max({a, b}) = IF a >= b THEN a ELSE b
<1>1. CASE a >= b
  <2>1. \A x \in {a, b} : (\A y \in {a, b} : x >= y) <=> x = a
    BY <1>1
  <2> QED BY <1>1, <2>1 DEF Max
<1>2. CASE ~(a >= b)
  <2>1. \A x \in {a, b} : (\A y \in {a, b} : x >= y) <=> x = b
    BY <1>2
  <2> QED BY <1>2, <2>1 DEF Max
<1> QED BY <1>1, <1>2

(* The smaller of two integers.                                            *)
LEMMA MinPair ==
  ASSUME NEW a \in Int, NEW b \in Int
  PROVE  Min({a, b}) = IF a <= b THEN a ELSE b
<1>1. CASE a <= b
  <2>1. \A x \in {a, b} : (\A y \in {a, b} : x <= y) <=> x = a
    BY <1>1
  <2> QED BY <1>1, <2>1 DEF Min
<1>2. CASE ~(a <= b)
  <2>1. \A x \in {a, b} : (\A y \in {a, b} : x <= y) <=> x = b
    BY <1>2
  <2> QED BY <1>2, <2>1 DEF Min
<1> QED BY <1>1, <1>2

(* Every nonempty set of naturals has a least element.                     *)
LEMMA LeastElement ==
  ASSUME NEW S \in SUBSET Nat, S # {}
  PROVE  \E m \in S : \A k \in S : m <= k
<1> DEFINE T == {0 .. (s - 1) : s \in S}
<1>1. T \subseteq FiniteSubsetsOf(Nat)
  <2> SUFFICES ASSUME NEW s \in S PROVE 0 .. (s-1) \in FiniteSubsetsOf(Nat)
    OBVIOUS
  <2>1. IsFiniteSet(0 .. (s-1))  BY FS_Interval
  <2>2. 0 .. (s-1) \in SUBSET Nat OBVIOUS
  <2> QED BY <2>1, <2>2 DEF FiniteSubsetsOf
<1>2. T # {}  OBVIOUS
<1>3. IsWellFoundedOn(StrictSubsetOrdering(Nat), FiniteSubsetsOf(Nat))
  BY FS_StrictSubsetOrderingWellFounded
<1> HIDE DEF T
<1>4. \E x \in T : \A y \in T : ~ (<<y, x>> \in StrictSubsetOrdering(Nat))
  BY <1>1, <1>2, <1>3, WFMin
<1> USE DEF T
<1>5. PICK m \in S : \A k \in S : ~ (<<0 .. (k-1), 0 .. (m-1)>> \in StrictSubsetOrdering(Nat))
  BY <1>4
<1>6. ASSUME NEW k \in S, ~(m <= k) PROVE FALSE
  <2>1. 0 .. (k-1) \subseteq 0 .. (m-1) BY <1>6
  <2>2. k \in 0 .. (m-1) /\ k \notin 0 .. (k-1) BY <1>6
  <2>3. <<0 .. (k-1), 0 .. (m-1)>> \in StrictSubsetOrdering(Nat)
    BY <2>1, <2>2 DEF StrictSubsetOrdering
  <2> QED BY <2>3, <1>5
<1> QED BY <1>6

(* Induction, with the set of the numbers that satisfy the claim in the    *)
(* place of a predicate.                                                   *)
LEMMA SetInduction ==
  ASSUME NEW S, 0 \in S, \A n \in Nat : n \in S => n + 1 \in S
  PROVE  \A n \in Nat : n \in S
<1> SUFFICES ASSUME NEW n0 \in Nat, n0 \notin S PROVE FALSE
  OBVIOUS
<1> DEFINE T == {n \in Nat : n \notin S}
<1>1. PICK m \in T : \A k \in T : m <= k
  <2>1. T # {} /\ T \in SUBSET Nat OBVIOUS
  <2> HIDE DEF T
  <2> QED BY <2>1, LeastElement
<1>2. m # 0 OBVIOUS
<1>3. m - 1 \in Nat BY <1>2
<1>4. m - 1 \in S BY <1>1, <1>3
<1> QED BY <1>3, <1>4

(* g is the function Pow2 up to n.                                         *)
Partial(g, n) ==
  /\ g \in [0 .. n -> Nat]
  /\ \A k \in 0 .. n : g[k] = IF k = 0 THEN 1 ELSE 2 * g[k-1]

(* Pow2 exists up to every n ...                                           *)
LEMMA PartialExists == \A n \in Nat : \E g : Partial(g, n)
<1> DEFINE S == {n \in Nat : \E g : Partial(g, n)}
<1>1. 0 \in S
  <2>1. Partial([k \in 0 .. 0 |-> 1], 0) BY DEF Partial
  <2> QED BY <2>1
<1>2. ASSUME NEW n \in Nat, n \in S PROVE n + 1 \in S
  <2>1. PICK g : Partial(g, n) BY <1>2
  <2> DEFINE h == [k \in 0 .. n+1 |-> IF k = n+1 THEN 2 * g[n] ELSE g[k]]
  <2>2. h \in [0 .. n+1 -> Nat] BY <2>1 DEF Partial
  <2>3. ASSUME NEW k \in 0 .. n+1 PROVE h[k] = IF k = 0 THEN 1 ELSE 2 * h[k-1]
    <3>1. CASE k = n+1 BY <3>1
    <3>2. CASE k \in 0 .. n
      <4>1. h[k] = g[k] BY <3>2
      <4>2. k # 0 => h[k-1] = g[k-1] BY <3>2
      <4> QED BY <4>1, <4>2, <3>2, <2>1 DEF Partial
    <3> QED BY <3>1, <3>2
  <2>4. Partial(h, n+1) BY <2>2, <2>3 DEF Partial
  <2> QED BY <2>4
<1> HIDE DEF S
<1>3. \A n \in Nat : n \in S BY <1>1, <1>2, SetInduction
<1> QED BY <1>3 DEF S

(* ... and two such functions agree where both are defined.                *)
LEMMA PartialUnique ==
  ASSUME NEW n \in Nat, NEW m \in Nat, NEW g, NEW h, Partial(g, n), Partial(h, m)
  PROVE  \A k \in Nat : k <= n /\ k <= m => g[k] = h[k]
<1> DEFINE S == {k \in Nat : k <= n /\ k <= m => g[k] = h[k]}
<1>1. 0 \in S BY DEF Partial
<1>2. ASSUME NEW k \in Nat, k \in S PROVE k + 1 \in S
  <2> SUFFICES ASSUME k + 1 <= n, k + 1 <= m PROVE g[k+1] = h[k+1]
    OBVIOUS
  <2>1. g[k] = h[k] BY <1>2
  <2>2. g[k+1] = 2 * g[k] /\ h[k+1] = 2 * h[k] BY DEF Partial
  <2> QED BY <2>1, <2>2
<1> HIDE DEF S
<1>3. \A k \in Nat : k \in S BY <1>1, <1>2, SetInduction
<1> QED BY <1>3 DEF S

(* The recursive definition of Pow2 does define a function on Nat.         *)
LEMMA Pow2Rec ==
  /\ Pow2 \in [Nat -> Nat]
  /\ \A k \in Nat : Pow2[k] = IF k = 0 THEN 1 ELSE 2 * Pow2[k-1]
<1> DEFINE G(n) == CHOOSE g : Partial(g, n)
           F == [k \in Nat |-> G(k)[k]]
<1>1. \A n \in Nat : Partial(G(n), n) BY PartialExists
<1> HIDE DEF G
<1>2. F \in [Nat -> Nat] BY <1>1 DEF Partial
<1>3. ASSUME NEW k \in Nat PROVE F[k] = IF k = 0 THEN 1 ELSE 2 * F[k-1]
  <2>1. CASE k = 0 BY <1>1, <2>1 DEF Partial
  <2>2. CASE k # 0
    <3>1. k - 1 \in Nat BY <2>2
    <3>2. Partial(G(k), k) /\ Partial(G(k-1), k-1) BY <1>1, <3>1
    <3>3. G(k)[k-1] = G(k-1)[k-1] BY <3>1, <3>2, PartialUnique
    <3>4. G(k)[k] = 2 * G(k)[k-1] BY <3>2, <2>2 DEF Partial
    <3> QED BY <3>1, <3>3, <3>4, <2>2
  <2> QED BY <2>1, <2>2
<1>4. F = [k \in Nat |-> IF k = 0 THEN 1 ELSE 2 * F[k-1]] BY <1>3
<1> HIDE DEF F
<1>5. Pow2 = [k \in Nat |-> IF k = 0 THEN 1 ELSE 2 * Pow2[k-1]]
  BY <1>4 DEF Pow2
<1>6. \A k \in Nat : Pow2[k] = IF k = 0 THEN 1 ELSE 2 * Pow2[k-1] BY <1>5
<1>7. \A k \in Nat : Pow2[k] \in Nat
  <2> DEFINE S == {k \in Nat : Pow2[k] \in Nat}
  <2>1. 0 \in S BY <1>6
  <2>2. ASSUME NEW k \in Nat, k \in S PROVE k+1 \in S
    BY <1>6, <2>2
  <2> HIDE DEF S
  <2>3. \A k \in Nat : k \in S BY <2>1, <2>2, SetInduction
  <2> QED BY <2>3 DEF S
<1> QED BY <1>5, <1>6, <1>7

(* The two equations of Pow2.                                              *)
LEMMA Pow2Step ==
  /\ Pow2[0] = 1
  /\ \A k \in Nat : Pow2[k] \in Nat /\ Pow2[k] >= 1
  /\ \A k \in Nat : Pow2[k + 1] = 2 * Pow2[k]
<1>1. Pow2[0] = 1 BY Pow2Rec
<1>2. ASSUME NEW k \in Nat PROVE Pow2[k + 1] = 2 * Pow2[k]
  BY Pow2Rec
<1>3. ASSUME NEW k \in Nat PROVE Pow2[k] >= 1
  <2> DEFINE S == {n \in Nat : Pow2[n] >= 1}
  <2>1. 0 \in S BY <1>1
  <2>2. ASSUME NEW n \in Nat, n \in S PROVE n + 1 \in S
    BY <1>2, <2>2, Pow2Rec
  <2> HIDE DEF S
  <2>3. k \in S BY <2>1, <2>2, SetInduction
  <2> QED BY <2>3 DEF S
<1> QED BY <1>1, <1>2, <1>3, Pow2Rec

(* A number is below its power of two.                                     *)
LEMMA Pow2Above == \A k \in Nat : k < Pow2[k]
<1> DEFINE S == {n \in Nat : n < Pow2[n]}
<1>1. 0 \in S BY Pow2Step
<1>2. ASSUME NEW n \in Nat, n \in S PROVE n + 1 \in S
  BY <1>2, Pow2Step
<1> HIDE DEF S
<1>3. \A k \in Nat : k \in S BY <1>1, <1>2, SetInduction
<1> QED BY <1>3 DEF S

(* Adding exponents multiplies powers.                                     *)
LEMMA Pow2Plus ==
  ASSUME NEW a \in Nat, NEW b \in Nat
  PROVE  Pow2[a + b] = Pow2[a] * Pow2[b]
<1> DEFINE S == {n \in Nat : Pow2[a + n] = Pow2[a] * Pow2[n]}
<1>1. 0 \in S BY Pow2Step
<1>2. ASSUME NEW n \in Nat, n \in S PROVE n + 1 \in S
  <2>1. Pow2[(a + n) + 1] = 2 * Pow2[a + n] BY Pow2Step
  <2>2. Pow2[a + (n + 1)] = 2 * (Pow2[a] * Pow2[n])
    BY <1>2, <2>1
  <2>3. 2 * (Pow2[a] * Pow2[n]) = Pow2[a] * (2 * Pow2[n])
    BY Pow2Step
  <2> QED BY <2>2, <2>3, Pow2Step
<1> HIDE DEF S
<1>3. b \in S BY <1>1, <1>2, SetInduction
<1> QED BY <1>3 DEF S

(* Powers of two are ordered as their exponents.                           *)
LEMMA Pow2Order ==
  ASSUME NEW a \in Nat, NEW b \in Nat
  PROVE  /\ a <= b => Pow2[a] <= Pow2[b]
         /\ a < b => 2 * Pow2[a] <= Pow2[b]
<1>1. ASSUME NEW c \in Nat, NEW d \in Nat, c <= d PROVE Pow2[c] <= Pow2[d]
  <2>1. d - c \in Nat /\ d = c + (d - c) BY <1>1
  <2>2. Pow2[d] = Pow2[c] * Pow2[d - c] BY <2>1, Pow2Plus
  <2>3. ASSUME NEW x \in Nat, NEW y \in Nat, y >= 1 PROVE x <= x * y
    BY <2>3
  <2> QED BY <2>1, <2>2, <2>3, Pow2Step
<1>2. ASSUME a < b PROVE 2 * Pow2[a] <= Pow2[b]
  BY <1>1, <1>2, Pow2Step
<1> QED BY <1>1, <1>2

(* Overhead(x) is the least exponent of a power of two that is not below x.*)
LEMMA OverheadLeast ==
  ASSUME NEW x \in Nat
  PROVE  /\ Overhead(x) \in Nat
         /\ x <= Pow2[Overhead(x)]
         /\ \A n \in Nat : x <= Pow2[n] => Overhead(x) <= n
<1> DEFINE S == {n \in Nat : x <= Pow2[n]}
<1>1. x \in S BY Pow2Above, Pow2Rec
<1>2. PICK m \in S : \A k \in S : m <= k
  <2>1. S # {} /\ S \in SUBSET Nat BY <1>1
  <2> HIDE DEF S
  <2> QED BY <2>1, LeastElement
<1>3. m \in 0 .. x BY <1>1, <1>2
<1>4. m = 0 \/ Pow2[m - 1] < x
  BY <1>2, Pow2Rec
<1>5. /\ Overhead(x) \in 0 .. x
      /\ x <= Pow2[Overhead(x)]
      /\ Overhead(x) = 0 \/ Pow2[Overhead(x) - 1] < x
  BY <1>2, <1>3, <1>4 DEF Overhead
<1>6. ASSUME NEW n \in Nat, x <= Pow2[n], n < Overhead(x) PROVE FALSE
  <2>1. Overhead(x) - 1 \in Nat /\ n <= Overhead(x) - 1 BY <1>5, <1>6
  <2>2. Pow2[n] <= Pow2[Overhead(x) - 1] BY <2>1, Pow2Order
  <2> QED BY <1>5, <1>6, <2>1, <2>2, Pow2Rec
<1> QED BY <1>5, <1>6

(* Overhead grows with its argument.                                       *)
LEMMA OverheadOrder ==
  ASSUME NEW x \in Nat, NEW y \in Nat, x <= y
  PROVE  Overhead(x) <= Overhead(y)
<1>1. x <= Pow2[Overhead(y)] BY OverheadLeast, Pow2Rec
<1> QED BY <1>1, OverheadLeast

-----------------------------------------------------------------------------
(* Arithmetic.                                                             *)

(* A product orders its factors.                                           *)
LEMMA Cancel ==
  ASSUME NEW a \in Int, NEW b \in Int, NEW c \in Int, c >= 1
  PROVE  /\ a * c < b * c => a < b
         /\ a * c <= b * c => a <= b
         /\ a * c = b * c => a = b
         /\ a <= b => a * c <= b * c
<1>1. \A x, y \in Int : x <= y => x * c <= y * c
  <2>1. ASSUME NEW x \in Int, NEW y \in Int, x <= y PROVE x * c <= y * c
    <3>1. \A d \in Nat : d * c >= 0 OBVIOUS
    <3>2. y - x \in Nat BY <2>1
    <3>3. y * c = x * c + (y - x) * c OBVIOUS
    <3> QED BY <3>1, <3>2, <3>3
  <2> QED BY <2>1
<1>2. \A x, y \in Int : x < y => x * c < y * c
  <2>1. ASSUME NEW x \in Int, NEW y \in Int, x < y PROVE x * c < y * c
    <3>1. (x + 1) * c <= y * c BY <1>1, <2>1
    <3>2. (x + 1) * c = x * c + c OBVIOUS
    <3> QED BY <3>1, <3>2
  <2> QED BY <2>1
<1> QED BY <1>1, <1>2

(* The quotient and the remainder of a division.                           *)
LEMMA DivMod ==
  ASSUME NEW x \in Nat, NEW w \in Nat, w >= 1
  PROVE  /\ x \div w \in Nat /\ x % w \in 0 .. w - 1
         /\ x = (x \div w) * w + (x % w)
         /\ x \div w <= x
<1>1. x \div w \in Nat /\ x % w \in 0 .. w - 1 /\ x = (x \div w) * w + (x % w)
  OBVIOUS
<1>2. (x \div w) * 1 <= (x \div w) * w
  <2>1. \A d \in Nat : d * (w - 1) >= 0 OBVIOUS
  <2> QED BY <1>1, <2>1
<1> QED BY <1>1, <1>2

(* The same for an integer.                                                *)
LEMMA DivModInt ==
  ASSUME NEW x \in Int, NEW w \in Nat, w >= 1
  PROVE  /\ x \div w \in Int /\ x % w \in 0 .. w - 1
         /\ x = (x \div w) * w + (x % w)
OBVIOUS

(* A number with the remainder of another, up to a multiple.               *)
LEMMA SameRemainder ==
  ASSUME NEW x \in Int, NEW y \in Int, NEW w \in Nat, w >= 1,
         NEW q \in Int, x - y = q * w
  PROVE  x % w = y % w
<1>1. x = (x \div w) * w + (x % w) /\ y = (y \div w) * w + (y % w)
  BY DivModInt
<1>2. x \div w \in Int /\ y \div w \in Int /\ x % w \in 0 .. w - 1
      /\ y % w \in 0 .. w - 1
  BY DivModInt
<1> DEFINE d == q - (x \div w) + (y \div w)
<1>3. d \in Int BY <1>2
<1>4. (x % w) - (y % w) = d * w BY <1>1, <1>2
<1>5. (-1) * w < d * w /\ d * w < 1 * w BY <1>2, <1>4
<1> HIDE DEF d
<1>6. -1 < d /\ d < 1 BY <1>3, <1>5, Cancel
<1>7. d = 0 BY <1>3, <1>6
<1> QED BY <1>2, <1>4, <1>7
=============================================================================
