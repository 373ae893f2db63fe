----------------------- MODULE SubgroupWitness_proofs -----------------------
(***************************************************************************)
(* The allocation of a witness of the prime-order subgroup returns what    *)
(* the prover meant, its cofactor check clears the cofactor, and           *)
(* enforce_prime_order accepts the points of the subgroup and no other,    *)
(* for every order and cofactor.                                           *)
(***************************************************************************)
EXTENDS SubgroupWitness, PowersOfTwo_proofs

-----------------------------------------------------------------------------
(* Arithmetic modulo the size of the curve.                                *)

(* x and y have one remainder modulo w.                                    *)
Congruent(x, y, w) == \E q \in Int : x - y = q * w

LEMMA CongruentRemainder ==
  ASSUME NEW w \in Nat, w >= 1, NEW x \in Int, NEW y \in Int, Congruent(x, y, w)
  PROVE  x % w = y % w
BY SameRemainder DEF Congruent

LEMMA RemainderCongruent ==
  ASSUME NEW w \in Nat, w >= 1, NEW x \in Int
  PROVE  x % w \in 0 .. w - 1 /\ Congruent(x, x % w, w)
<1>0. x \div w \in Int /\ x % w \in 0 .. w - 1 /\ x = (x \div w) * w + (x % w) BY DivModInt
<1>1. PICK q \in Int, t \in Int : t = x % w /\ t \in 0 .. w - 1 /\ x = q * w + t BY <1>0
<1>2. q * w \in Int OBVIOUS
<1>3. x - t = q * w BY <1>1, <1>2
<1> QED BY <1>1, <1>3 DEF Congruent

LEMMA SameMeansCongruent ==
  ASSUME NEW w \in Nat, w >= 1, NEW x \in Int, NEW y \in Int
  PROVE  x % w = y % w <=> Congruent(x, y, w)
<1>1. ASSUME x % w = y % w PROVE Congruent(x, y, w)
  <2>1. x \div w \in Int /\ y \div w \in Int BY DivModInt
  <2>2. x = (x \div w) * w + (x % w) /\ y = (y \div w) * w + (y % w) BY DivModInt
  <2>3. x - y = ((x \div w) - (y \div w)) * w
    <3>1. ((x \div w) - (y \div w)) * w = (x \div w) * w - (y \div w) * w BY <2>1
    <3>2. (x \div w) * w \in Int /\ (y \div w) * w \in Int /\ x % w \in Int BY <2>1, DivModInt
    <3> QED BY <1>1, <2>2, <3>1, <3>2
  <2>4. (x \div w) - (y \div w) \in Int BY <2>1
  <2> QED BY <2>3, <2>4 DEF Congruent
<1> QED BY <1>1, CongruentRemainder

LEMMA CongruentTimes ==
  ASSUME NEW w \in Int, NEW n \in Int, NEW x \in Int, NEW y \in Int, Congruent(x, y, w)
  PROVE  Congruent(n * x, n * y, w)
<1>1. PICK q \in Int : x - y = q * w BY DEF Congruent
<1>2. n * x - n * y = n * (x - y) OBVIOUS
<1>3. n * x - n * y = (n * q) * w BY <1>1, <1>2
<1>4. n * q \in Int OBVIOUS
<1> QED BY <1>3, <1>4 DEF Congruent

LEMMA CongruentPlus ==
  ASSUME NEW w \in Int, NEW x \in Int, NEW y \in Int, NEW z \in Int, Congruent(x, y, w)
  PROVE  Congruent(x + z, y + z, w)
BY DEF Congruent

(* A factor may be applied before or after the remainder is taken.         *)
LEMMA TimesRemainder ==
  ASSUME NEW m \in Nat, m >= 1, NEW n \in Int, NEW p \in Int
  PROVE  /\ (n * (p % m)) % m = (n * p) % m
         /\ (n * p) % m \in 0 .. m - 1
<1>1. p % m \in Int /\ m \in Int /\ Congruent(p, p % m, m) BY RemainderCongruent
<1>2. Congruent(n * p, n * (p % m), m) BY <1>1, CongruentTimes, Zenon
<1>3. n * p \in Int /\ n * (p % m) \in Int BY <1>1
<1>4. (n * p) % m = (n * (p % m)) % m BY <1>2, <1>3, CongruentRemainder, Zenon
<1> QED BY <1>3, <1>4, RemainderCongruent

(* One more bit of the factor.                                             *)
LEMMA NextBit ==
  ASSUME NEW m \in Nat, m >= 1, NEW q \in Nat, NEW bit \in Nat, NEW g \in Nat
  PROVE  (1 * (2 * ((q * g) % m) + bit * g)) % m = ((2 * q + bit) * g) % m
<1>1. PICK x \in Int : x = q * g OBVIOUS
<1>2. PICK b \in Int : b = bit * g OBVIOUS
<1>3. PICK t \in Int : t = x % m BY <1>1, RemainderCongruent
<1>4. Congruent(x, t, m) BY <1>1, <1>3, RemainderCongruent
<1>5. 2 \in Int /\ m \in Int /\ 2 * x \in Int /\ 2 * t \in Int
      /\ 2 * x + b \in Int /\ 2 * t + b \in Int
  OBVIOUS
<1>6. Congruent(2 * x, 2 * t, m) BY <1>4, <1>5, CongruentTimes, Zenon
<1>7. Congruent(2 * x + b, 2 * t + b, m) BY <1>5, <1>6, CongruentPlus, Zenon
<1>10. (2 * x + b) % m = (2 * t + b) % m BY <1>5, <1>7, CongruentRemainder, Zenon
<1>8. (2 * q + bit) * g = 2 * x + b BY <1>1, <1>2
<1>9. 1 * (2 * t + bit * g) = 2 * t + b BY <1>2
<1> QED BY <1>1, <1>2, <1>3, <1>8, <1>9, <1>10

(* The bits of f above the place k, and the one at k.                      *)
LEMMA BitsAbove ==
  ASSUME NEW f \in Nat, NEW k \in Nat
  PROVE  /\ f \div Pow2[k] \in Nat
         /\ (f \div Pow2[k]) % 2 \in {0, 1}
         /\ f \div Pow2[k] = 2 * (f \div Pow2[k + 1]) + ((f \div Pow2[k]) % 2)
<1> DEFINE w == Pow2[k]
           a == f \div w
           t == f % w
           c == a \div 2
           b == a % 2
<1>1. w \in Nat /\ w >= 1 /\ Pow2[k + 1] = 2 * w BY Pow2Step
<1> HIDE DEF w
<1>2. a \in Nat /\ t \in 0 .. w - 1 /\ f = a * w + t BY <1>1, DivMod
<1> HIDE DEF a, t
<1>3. c \in Nat /\ b \in {0, 1} /\ a = c * 2 + b BY <1>2, DivMod
<1> HIDE DEF c, b
<1> DEFINE d == 2 * w
           s == b * w + t
<1>4. d \in Nat /\ d >= 1 BY <1>1
<1>5. s \in 0 .. d - 1
  <2>1. CASE b = 0 BY <1>1, <1>2, <2>1
  <2>2. CASE b = 1 BY <1>1, <1>2, <2>2
  <2> QED BY <1>3, <2>1, <2>2
<1>6. f = c * d + s
  <2>1. f = (c * 2 + b) * w + t BY <1>2, <1>3
  <2>2. (c * 2 + b) * w = c * (2 * w) + b * w BY <1>1, <1>3
  <2> QED BY <1>1, <1>2, <1>3, <2>1, <2>2
<1> HIDE DEF d, s
<1>7. f \div d = c
  <2> DEFINE p == f \div d
             z == f % d
  <2>1. p \in Nat /\ z \in 0 .. d - 1 /\ f = p * d + z BY <1>4, DivMod
  <2> HIDE DEF p, z
  <2>2. c * d + s = p * d + z BY <1>6, <2>1
  <2>3. c * d < (p + 1) * d
    <3>1. (p + 1) * d = p * d + d BY <1>4, <2>1
    <3> QED BY <1>3, <1>4, <1>5, <2>1, <2>2, <3>1
  <2>4. p * d < (c + 1) * d
    <3>1. (c + 1) * d = c * d + d BY <1>3, <1>4
    <3> QED BY <1>3, <1>4, <1>5, <2>1, <2>2, <3>1
  <2>5. c < p + 1 /\ p < c + 1
    BY <1>3, <1>4, <2>1, <2>3, <2>4, Cancel
  <2>6. p = c BY <1>3, <2>1, <2>5
  <2> QED BY <2>6 DEF p
<1> QED BY <1>1, <1>2, <1>3, <1>7 DEF a, b, d, w

(* There are no bits above the bit length.                                 *)
LEMMA NoBitsAbove ==
  ASSUME NEW f \in Nat
  PROVE  BitLength(f) \in Nat /\ f \div Pow2[BitLength(f)] = 0
<1> DEFINE n == BitLength(f)
           w == Pow2[n]
           p == f \div w
           t == f % w
<1>1. n \in Nat /\ f + 1 <= w BY OverheadLeast DEF BitLength
<1> HIDE DEF n
<1>2. w \in Nat /\ w >= 1 BY <1>1, Pow2Step
<1> HIDE DEF w
<1>3. p \in Nat /\ t \in 0 .. w - 1 /\ f = p * w + t BY <1>2, DivMod
<1> HIDE DEF p, t
<1>4. p * w < 1 * w BY <1>1, <1>2, <1>3
<1>5. p < 1 BY <1>2, <1>3, <1>4, Cancel
<1> QED BY <1>1, <1>3, <1>5 DEF p, w, n

(* The twos of x divide it.                                                *)
LEMMA TwosDivide ==
  ASSUME NEW x \in Nat, x >= 1
  PROVE  /\ Twos(x) \in Nat
         /\ x \div Pow2[Twos(x)] \in Nat
         /\ (x \div Pow2[Twos(x)]) * Pow2[Twos(x)] = x
<1> DEFINE S == {k \in 0 .. x : x % Pow2[k] = 0}
           D == {x - k : k \in S}
<1>1. 0 \in S BY Pow2Step
<1>2. S \subseteq 0 .. x OBVIOUS
<1> HIDE DEF S
<1>3. D \in SUBSET Nat /\ D # {} BY <1>1, <1>2
<1>4. PICK m \in D : \A k \in D : m <= k
  <2> HIDE DEF D
  <2> QED BY <1>3, LeastElement
<1>5. PICK s \in S : m = x - s BY <1>4
<1>6. \A k \in S : s >= k
  <2> SUFFICES ASSUME NEW k \in S PROVE s >= k
    OBVIOUS
  <2>1. m <= x - k BY <1>4
  <2> QED BY <1>2, <1>5, <2>1
<1>7. Max(S) \in S BY <1>6 DEF Max
<1>8. Twos(x) = Max(S) BY DEF Twos, S
<1> DEFINE n == Twos(x)
           w == Pow2[n]
<1>9. n \in Nat /\ x % w = 0 BY <1>7, <1>8 DEF S
<1> HIDE DEF n
<1>10. w \in Nat /\ w >= 1 BY <1>9, Pow2Step
<1> HIDE DEF w
<1>11. x \div w \in Nat /\ x = (x \div w) * w + (x % w) BY <1>10, DivMod
<1>12. (x \div w) * w \in Nat BY <1>10, <1>11
<1> QED BY <1>9, <1>11, <1>12 DEF w, n

-----------------------------------------------------------------------------
(* The inductive invariant.                                                *)

(* The state has its types, and the arguments are of an allowed curve.     *)
TypeInv ==
  /\ r \in Nat /\ r >= 3 /\ h \in Nat /\ h >= 1 /\ Allowed(<<r, h>>)
  /\ task \in {"witness", "enforce"}
  /\ allocated \in CyclicPoints /\ ge \in CyclicPoints /\ result \in CyclicPoints
  /\ doublings \in 0 .. Doublings /\ place \in Nat
  /\ pc \in {"double", "bits", "done"}

(* ge has taken in the doublings so far, and the result the bits so far.   *)
LoopInv ==
  /\ ge = Times(Pow2[Doublings - doublings], allocated)
  /\ pc = "double" => place = BitLength(Factor)
  /\ pc # "double" => doublings = 0
  /\ pc # "done" => result = Times(Factor \div Pow2[place], ge) /\ satisfied = TRUE

(* What each of the three ways out returns.                                *)
ReturnInv ==
  pc = "done" =>
    /\ task = "witness" => satisfied = TRUE
    /\ task = "witness" /\ ~ByCofactor => result = ge
    /\ task = "witness" /\ ByCofactor => result = Times(Factor, ge)
    /\ task = "enforce" => satisfied = (Compared = Times(Factor, ge))

Inv == TypeInv /\ LoopInv /\ ReturnInv

(* What the loop and the factor start from.                                *)
LEMMA Sizes ==
  ASSUME TypeInv
  PROVE  /\ r * h \in Nat /\ r * h >= 1 /\ CyclicPoints = 0 .. r * h - 1
         /\ OddPart \in Nat /\ Factor \in Nat /\ Doublings \in Nat
         /\ Twos(h) \in Nat /\ OddPart * Pow2[Twos(h)] = h
<1>1. r \in Nat /\ r >= 3 /\ h \in Nat /\ h >= 1 BY DEF TypeInv
<1>2. r * h \in Nat /\ r * h >= 1 BY <1>1
<1>3. Twos(h) \in Nat /\ OddPart \in Nat /\ OddPart * Pow2[Twos(h)] = h
  BY <1>1, TwosDivide DEF OddPart
<1>4. r - 1 \in Nat BY <1>1
<1> QED BY <1>2, <1>3, <1>4 DEF CyclicPoints, Factor, Doublings

LEMMA PointsTimes ==
  ASSUME TypeInv, NEW n \in Int, NEW p \in Int
  PROVE  Times(n, p) \in CyclicPoints
<1> DEFINE m == r * h
<1>1. m \in Nat /\ m >= 1 BY Sizes
<1> HIDE DEF m
<1>2. (n * p) % m \in 0 .. m - 1 BY <1>1, TimesRemainder
<1> QED BY <1>2 DEF m, CyclicPoints, Times

LEMMA TimesTimes ==
  ASSUME TypeInv, NEW n \in Int, NEW k \in Int, NEW p \in Int
  PROVE  Times(n, Times(k, p)) = Times(n * k, p)
<1> DEFINE m == r * h
           x == k * p
<1>1. m \in Nat /\ m >= 1 /\ x \in Int BY Sizes
<1>2. n * x = (n * k) * p OBVIOUS
<1> HIDE DEF m, x
<1>3. (n * (x % m)) % m = (n * x) % m BY <1>1, TimesRemainder
<1>4. (n * (x % m)) % m = ((n * k) * p) % m BY <1>2, <1>3
<1> QED BY <1>4 DEF m, x, Times

LEMMA InitInv == ASSUME Init PROVE Inv
<1>1. Allowed(<<r, h>>)
  <2>1. PICK c \in Curves : r = c[1] /\ h = c[2] BY DEF Init
  <2>2. Allowed(c) BY <2>1, CurvesAssumption
  <2>3. c = <<r, h>> BY <2>1, <2>2 DEF Allowed
  <2> QED BY <2>2, <2>3
<1>2. <<r, h>> \in (Nat \ {0, 1, 2}) \X (Nat \ {0}) BY <1>1 DEF Allowed
<1>3. r \in Nat /\ r >= 3 /\ h \in Nat /\ h >= 1
  <2>1. r \in Nat \ {0, 1, 2} /\ h \in Nat \ {0} BY <1>2
  <2> QED BY <2>1
<1>4. r * h \in Nat /\ r * h >= 1 BY <1>3
<1>5. Twos(h) \in Nat /\ OddPart \in Nat BY <1>3, TwosDivide DEF OddPart
<1>6. Doublings \in Nat /\ Factor \in Nat
  <2>1. r - 1 \in Nat BY <1>3
  <2> QED BY <1>5, <2>1 DEF Doublings, Factor
<1>7. BitLength(Factor) \in Nat /\ Factor \div Pow2[BitLength(Factor)] = 0
  BY <1>6, NoBitsAbove
<1>8. TypeInv
  <2>1. 0 \in CyclicPoints BY <1>4 DEF CyclicPoints
  <2>2. place \in Nat BY <1>7 DEF Init
  <2>3. doublings \in 0 .. Doublings
    <3>1. doublings = Doublings BY DEF Init
    <3> QED BY <1>6, <3>1
  <2> QED BY <1>1, <1>3, <2>1, <2>2, <2>3 DEF Init, TypeInv
<1>9. allocated \in 0 .. r * h - 1 BY DEF Init, CyclicPoints
<1>10. allocated % (r * h) = allocated /\ 0 % (r * h) = 0
  <2> DEFINE m == r * h
  <2>1. m \in Nat /\ m >= 1 /\ allocated \in 0 .. m - 1 BY <1>4, <1>9
  <2> HIDE DEF m
  <2>2. allocated % m = allocated /\ 0 % m = 0 BY <2>1
  <2> QED BY <2>2 DEF m
<1>11. ge = Times(Pow2[Doublings - doublings], allocated)
  <2>1. Doublings - doublings = 0 /\ ge = allocated BY <1>6 DEF Init
  <2>2. Pow2[Doublings - doublings] = 1 BY <2>1, Pow2Step
  <2>3. 1 * allocated = allocated BY <1>9
  <2> QED BY <1>10, <2>1, <2>2, <2>3 DEF Times
<1>12. result = Times(Factor \div Pow2[place], ge)
  <2>1. place = BitLength(Factor) /\ result = 0 /\ ge \in Int
    BY <1>9 DEF Init
  <2>2. Factor \div Pow2[place] = 0 BY <1>7, <2>1
  <2>3. 0 * ge = 0 BY <2>1
  <2> QED BY <1>10, <2>1, <2>2, <2>3 DEF Times
<1> QED BY <1>8, <1>11, <1>12 DEF Init, Inv, LoopInv, ReturnInv

(* The arguments never change, and with them what is computed from them.   *)
LEMMA SameArguments ==
  ASSUME UNCHANGED args
  PROVE  /\ Factor' = Factor /\ Doublings' = Doublings /\ ByCofactor' = ByCofactor
         /\ CyclicPoints' = CyclicPoints /\ Compared' = Compared
         /\ Allowed(<<r, h>>)' = Allowed(<<r, h>>)
         /\ \A n, p : Times(n, p)' = Times(n, p)
BY DEF args, Factor, Doublings, ByCofactor, CyclicPoints, Compared, Allowed, Times,
       OddPart, Weight, Twos, BitLength, Overhead

(* Doubling ge, before anything is in the result.                          *)
LEMMA DoubleInv == ASSUME Inv, RemoveEvenPart PROVE Inv'
<1>1. TypeInv /\ LoopInv /\ UNCHANGED args BY DEF Inv, RemoveEvenPart
<1>2. /\ Factor' = Factor /\ Doublings' = Doublings /\ CyclicPoints' = CyclicPoints
      /\ Allowed(<<r, h>>)' = Allowed(<<r, h>>)
  BY <1>1, SameArguments
<1>3. /\ pc = "double" /\ pc' = pc /\ ge' = Times(2, ge) /\ doublings # 0
      /\ doublings' = doublings - 1 /\ place' = place /\ result' = result
      /\ satisfied' = satisfied
  BY DEF RemoveEvenPart
<1>4. /\ Doublings \in Nat /\ doublings \in 1 .. Doublings /\ ge \in Int /\ allocated \in Int
      /\ Factor \in Nat
  BY <1>1, <1>3, Sizes DEF TypeInv
<1>5. ge' \in CyclicPoints BY <1>1, <1>3, <1>4, PointsTimes
<1>6. TypeInv' BY <1>1, <1>2, <1>3, <1>4, <1>5 DEF TypeInv, args
<1>7. ge' = Times(Pow2[Doublings - doublings'], allocated)
  <2> DEFINE n == Doublings - doublings
  <2>1. n \in Nat /\ Doublings - doublings' = n + 1 BY <1>3, <1>4
  <2>2. ge = Times(Pow2[n], allocated) BY <1>1 DEF LoopInv
  <2> HIDE DEF n
  <2>3. Pow2[n] \in Int /\ Pow2[n + 1] = 2 * Pow2[n] BY <2>1, Pow2Step
  <2>4. 2 \in Int OBVIOUS
  <2>5. Times(2, Times(Pow2[n], allocated)) = Times(2 * Pow2[n], allocated)
    BY <1>1, <1>4, <2>3, <2>4, TimesTimes, Zenon
  <2> QED BY <1>3, <2>1, <2>2, <2>3, <2>5
<1>8. result' = Times(Factor \div Pow2[place'], ge')
  <2>1. Factor \div Pow2[place] = 0 BY <1>1, <1>3, <1>4, NoBitsAbove DEF LoopInv
  <2>2. result = Times(0, ge) BY <1>1, <1>3, <2>1 DEF LoopInv
  <2>3. 0 * ge = 0 /\ 0 * ge' = 0 BY <1>1, <1>4, <1>5, Sizes
  <2> QED BY <1>3, <2>1, <2>2, <2>3 DEF Times
<1>9. place' = BitLength(Factor) BY <1>1, <1>3 DEF LoopInv
<1>10. LoopInv'
  BY <1>1, <1>2, <1>3, <1>7, <1>8, <1>9 DEF LoopInv, Times, args, BitLength, Overhead
<1> QED BY <1>3, <1>6, <1>10 DEF Inv, ReturnInv

(* One more bit of the factor.                                             *)
LEMMA BitInv == ASSUME Inv, BitStep PROVE Inv'
<1>1. TypeInv /\ LoopInv /\ UNCHANGED args BY DEF Inv, BitStep
<1>2. /\ Factor' = Factor /\ Doublings' = Doublings /\ CyclicPoints' = CyclicPoints
      /\ Allowed(<<r, h>>)' = Allowed(<<r, h>>)
  BY <1>1, SameArguments
<1> DEFINE k == place - 1
           q == Factor \div Pow2[place]
           bit == (Factor \div Pow2[k]) % 2
<1>3. /\ pc = "bits" /\ pc' = pc /\ ge' = ge /\ place # 0 /\ satisfied' = satisfied
      /\ doublings' = doublings /\ place' = k
      /\ result' = Times(1, 2 * result + bit * ge)
  BY DEF BitStep
<1>4. k \in Nat /\ place = k + 1 /\ Factor \in Nat /\ ge \in Nat /\ ge \in CyclicPoints
      /\ r * h \in Nat /\ r * h >= 1
  BY <1>1, <1>3, Sizes DEF TypeInv
<1>5. q \in Nat /\ bit \in {0, 1} /\ Factor \div Pow2[k] = 2 * q + bit
  <2> HIDE DEF k
  <2>1. /\ Factor \div Pow2[k + 1] \in Nat /\ bit \in {0, 1}
        /\ Factor \div Pow2[k] = 2 * (Factor \div Pow2[k + 1]) + bit
    <3>1. k + 1 \in Nat BY <1>4
    <3> QED BY <1>4, <3>1, BitsAbove, Zenon
  <2> QED BY <1>4, <2>1, Zenon
<1>6. result = Times(q, ge) BY <1>1, <1>3 DEF LoopInv
<1> HIDE DEF k, q, bit
<1>7. Times(1, 2 * Times(q, ge) + bit * ge) = Times(2 * q + bit, ge)
  <2> DEFINE m == r * h
  <2>1. m \in Nat /\ m >= 1 BY <1>4
  <2> HIDE DEF m
  <2>2. bit \in Nat /\ q \in Nat /\ ge \in Nat BY <1>4, <1>5
  <2>3. (1 * (2 * ((q * ge) % m) + bit * ge)) % m = ((2 * q + bit) * ge) % m
    BY <2>1, <2>2, NextBit, Zenon
  <2> QED BY <2>3 DEF m, Times
<1>8. result' = Times(Factor \div Pow2[k], ge) BY <1>3, <1>5, <1>6, <1>7
<1>9. result' \in CyclicPoints
  <2>1. Factor \div Pow2[k] \in Int BY <1>5
  <2> QED BY <1>1, <1>4, <1>8, <2>1, PointsTimes
<1>10. TypeInv' BY <1>1, <1>2, <1>3, <1>4, <1>9 DEF TypeInv, args
<1>11. LoopInv' BY <1>1, <1>2, <1>3, <1>8 DEF LoopInv, Times, args
<1> QED BY <1>3, <1>10, <1>11 DEF Inv, ReturnInv

(* The result is returned, or compared.                                    *)
LEMMA ReturnsInv == ASSUME Inv, Return PROVE Inv'
<1>1. TypeInv /\ LoopInv /\ UNCHANGED args BY DEF Inv, Return
<1>2. /\ Factor' = Factor /\ Doublings' = Doublings /\ ByCofactor' = ByCofactor
      /\ CyclicPoints' = CyclicPoints /\ Compared' = Compared /\ Allowed(<<r, h>>)' = Allowed(<<r, h>>)
  BY <1>1, SameArguments
<1>3. /\ pc = "bits" /\ place = 0 /\ pc' = "done" /\ UNCHANGED <<ge, doublings, place>>
      /\ task' = task
  BY <1>1 DEF Return, args
<1>4. Pow2[0] = 1 /\ Factor \in Nat BY <1>1, Pow2Step, Sizes
<1>5. Factor \div Pow2[0] = Factor BY <1>4
<1>6. result = Times(Factor, ge) /\ satisfied = TRUE BY <1>1, <1>3, <1>5 DEF LoopInv
<1>7. /\ task = "witness" /\ ~ByCofactor => result' = ge /\ satisfied' = (ge = ge)
      /\ task = "witness" /\ ByCofactor => result' = result /\ satisfied' = satisfied
      /\ task = "enforce" => satisfied' = (Compared = result) /\ result' = result
      /\ result' \in {result, ge}
  BY DEF Return
<1>8. TypeInv' BY <1>1, <1>2, <1>3, <1>7 DEF TypeInv, args
<1>9. LoopInv' BY <1>1, <1>2, <1>3 DEF LoopInv, Times, args
<1>10. Times(Factor, ge)' = Times(Factor, ge) BY <1>1, <1>2, <1>3 DEF Times, args
<1>11. /\ task = "witness" => satisfied' = TRUE
       /\ task = "witness" /\ ~ByCofactor => result' = ge
       /\ task = "witness" /\ ByCofactor => result' = Times(Factor, ge)
       /\ task = "enforce" => satisfied' = (Compared = Times(Factor, ge))
  BY <1>6, <1>7
<1>12. ReturnInv' BY <1>2, <1>3, <1>10, <1>11 DEF ReturnInv
<1> QED BY <1>8, <1>9, <1>12 DEF Inv

LEMMA StepInv == ASSUME Inv, [Next]_vars PROVE Inv'
<1>1. CASE UNCHANGED vars
  <2>1. UNCHANGED args BY <1>1 DEF vars, args
  <2>2. /\ Factor' = Factor /\ Doublings' = Doublings /\ ByCofactor' = ByCofactor
        /\ CyclicPoints' = CyclicPoints /\ Compared' = Compared /\ Allowed(<<r, h>>)' = Allowed(<<r, h>>)
    BY <2>1, SameArguments
  <2>3. TypeInv' BY <1>1, <2>2 DEF Inv, TypeInv, vars
  <2>4. LoopInv' BY <1>1, <2>2 DEF Inv, LoopInv, Times, BitLength, Overhead, vars
  <2>5. Times(Factor, ge)' = Times(Factor, ge) BY <1>1, <2>2 DEF Times, vars
  <2>6. ReturnInv' BY <1>1, <2>2, <2>5 DEF Inv, ReturnInv, vars
  <2> QED BY <2>3, <2>4, <2>6 DEF Inv
<1>2. CASE StartLoop
  <2>1. UNCHANGED args BY <1>2 DEF StartLoop
  <2>2. /\ Factor' = Factor /\ Doublings' = Doublings
        /\ CyclicPoints' = CyclicPoints /\ Allowed(<<r, h>>)' = Allowed(<<r, h>>)
    BY <2>1, SameArguments
  <2>3. /\ pc' = "bits" /\ pc = "double" /\ doublings = 0
        /\ UNCHANGED <<ge, doublings, place, result, satisfied>>
    BY <1>2 DEF StartLoop
  <2>4. TypeInv' BY <2>1, <2>2, <2>3 DEF Inv, TypeInv, args
  <2>5. LoopInv' BY <2>1, <2>2, <2>3 DEF Inv, LoopInv, Times, args
  <2> QED BY <2>3, <2>4, <2>5 DEF Inv, ReturnInv
<1> QED
  BY <1>1, <1>2, DoubleInv, BitInv, ReturnsInv DEF Next, Done

-----------------------------------------------------------------------------
(* Of the returned value and the comparison.                               *)

(* The points that r clears are those of the subgroup.                     *)
LEMMA Cleared ==
  ASSUME TypeInv, NEW p \in CyclicPoints
  PROVE  /\ p \in Subgroup <=> Times(r, p) = 0
         /\ Times(r, Times(h, p)) = 0
         /\ Times(1, p) = p
<1>1. r \in Int /\ h \in Int /\ p \in Int /\ r * h \in Int /\ r * h >= 1 /\ p \in 0 .. r * h - 1
  BY Sizes DEF TypeInv
<1>2. Times(r, Times(h, p)) = Times(r * h, p) BY <1>1, TimesTimes, Zenon
<1> DEFINE m == r * h
<1>3. m \in Nat /\ m >= 1 /\ p \in 0 .. m - 1 BY <1>1
<1> HIDE DEF m
<1>4. (m * p) % m = 0
  <2>1. Congruent(m * p, 0, m)
    <3>1. m * p - 0 = p * m BY <1>1, <1>3
    <3> QED BY <1>1, <3>1 DEF Congruent
  <2>2. m * p \in Int /\ 0 \in Int BY <1>1, <1>3
  <2>3. (m * p) % m = 0 % m BY <1>3, <2>1, <2>2, CongruentRemainder, Zenon
  <2> QED BY <1>3, <2>3
<1>5. (1 * p) % m = p BY <1>3
<1> QED BY <1>2, <1>4, <1>5 DEF Times, Subgroup, m

(* -p = (r - 1) p exactly where r p = 0.                                   *)
LEMMA Negated ==
  ASSUME TypeInv, NEW p \in CyclicPoints
  PROVE  Times(r * h - 1, p) = Times(r - 1, p) <=> Times(r, p) = 0
<1> DEFINE m == r * h
           x == r * p
<1>1. r \in Int /\ p \in Int /\ m \in Nat /\ m >= 1 BY Sizes DEF TypeInv
<1>2. x \in Int BY <1>1
<1>3. (m - 1) * p = m * p - p /\ (r - 1) * p = x - p BY <1>1
<1> HIDE DEF m, x
<1> DEFINE u == m * p - p
           v == x - p
<1>4. u \in Int /\ v \in Int /\ m * p \in Int BY <1>1, <1>2
<1>5. Congruent(u, v, m) <=> Congruent(x, 0, m)
  <2>1. ASSUME NEW c \in Int, u - v = c * m PROVE Congruent(x, 0, m)
    <3>1. x - 0 = (p - c) * m BY <1>1, <1>2, <2>1
    <3>2. p - c \in Int BY <1>1
    <3> QED BY <3>1, <3>2 DEF Congruent
  <2>2. ASSUME NEW c \in Int, x - 0 = c * m PROVE Congruent(u, v, m)
    <3>1. u - v = (p - c) * m BY <1>1, <1>2, <2>2
    <3>2. p - c \in Int BY <1>1
    <3> QED BY <3>1, <3>2 DEF Congruent
  <2> QED BY <2>1, <2>2 DEF Congruent
<1> HIDE DEF u, v
<1>6. u % m = v % m <=> Congruent(u, v, m) BY <1>1, <1>4, SameMeansCongruent, Zenon
<1>7. 0 \in Int /\ 0 % m = 0 BY <1>1
<1>8. x % m = 0 % m <=> Congruent(x, 0, m) BY <1>1, <1>2, <1>7, SameMeansCongruent, Zenon
<1>9. u % m = v % m <=> x % m = 0 BY <1>5, <1>6, <1>7, <1>8
<1> QED BY <1>3, <1>9 DEF m, x, u, v, Times

(* One more than a multiple of the order leaves a point of the subgroup.   *)
LEMMA OrderLeaves ==
  ASSUME TypeInv, NEW g \in Subgroup, NEW x \in Int, Congruent(x, 1, r)
  PROVE  Times(x, g) = g
<1> DEFINE m == r * h
           y == r * g
<1>1. r \in Int /\ g \in Int /\ m \in Nat /\ m >= 1 /\ g \in 0 .. m - 1
  BY Sizes DEF TypeInv, Subgroup
<1>2. y % m = 0 BY DEF Subgroup, Times
<1> HIDE DEF m
<1>3. y \in Int /\ 0 \in Int /\ 0 % m = 0 BY <1>1
<1>4. PICK c \in Int : x - 1 = c * r BY DEF Congruent
<1>5. x * g = c * y + g
  <2>1. x = c * r + 1
    <3>1. c * r \in Int BY <1>1
    <3> QED BY <1>4, <3>1
  <2>2. (c * r + 1) * g = c * (r * g) + g BY <1>1
  <2> QED BY <2>1, <2>2
<1> HIDE DEF y
<1>6. Congruent(y, 0, m) BY <1>1, <1>2, <1>3, SameMeansCongruent, Zenon
<1>7. m \in Int /\ c * y \in Int /\ c * 0 = 0 /\ c * y + g \in Int /\ 0 + g = g BY <1>1, <1>3
<1>8. Congruent(c * y, c * 0, m) BY <1>3, <1>6, <1>7, CongruentTimes, Zenon
<1>9. Congruent(c * y + g, 0 + g, m) BY <1>1, <1>3, <1>7, <1>8, CongruentPlus, Zenon
<1>10. (c * y + g) % m = g % m BY <1>1, <1>7, <1>9, CongruentRemainder, Zenon
<1>11. g % m = g BY <1>1
<1> QED BY <1>5, <1>10, <1>11 DEF Times, m

(* What an honest prover divides by has an inverse modulo the order.       *)
LEMMA HonestInverse ==
  ASSUME TypeInv
  PROVE  LET x == IF ByCofactor THEN h ELSE Pow2[Twos(h)]
             y == IF ByCofactor THEN h % r ELSE Pow2[Twos(h)]
         IN /\ InverseModOrder(y) \in 1 .. r - 1
            /\ Congruent(x * InverseModOrder(y), 1, r)
<1> DEFINE x == IF ByCofactor THEN h ELSE Pow2[Twos(h)]
           y == IF ByCofactor THEN h % r ELSE Pow2[Twos(h)]
           z == InverseModOrder(y)
<1>1. /\ \A e \in 1 .. r - 1 : \E d \in 1 .. r - 1 : (e * d) % r = 1
      /\ h % r # 0 /\ Pow2[Twos(h)] < r
  BY DEF TypeInv, Allowed
<1>2. r \in Nat /\ r >= 3 /\ h \in Int BY DEF TypeInv
<1>3. h % r \in 0 .. r - 1 /\ Congruent(h, h % r, r)
  <2>1. r >= 1 BY <1>2
  <2> QED BY <1>2, <2>1, RemainderCongruent, Zenon
<1>4. Twos(h) \in Nat BY Sizes
<1>5. Pow2[Twos(h)] \in Nat /\ Pow2[Twos(h)] >= 1 BY <1>4, Pow2Step
<1>6. y \in 1 .. r - 1 /\ x \in Int BY <1>1, <1>2, <1>3, <1>5
<1>7. Congruent(x, y, r)
  <2>1. CASE ByCofactor BY <1>3, <2>1
  <2>2. CASE ~ByCofactor
    <3>1. x = y /\ x - y = 0 /\ 0 * r = 0 BY <1>2, <1>6, <2>2
    <3> QED BY <3>1 DEF Congruent
  <2> QED BY <2>1, <2>2
<1> HIDE DEF x, y
<1>8. z \in 1 .. r - 1 /\ (y * z) % r = 1 BY <1>1, <1>6 DEF InverseModOrder
<1> HIDE DEF z
<1>9. r \in Int /\ z \in Int /\ y \in Int /\ r >= 1 BY <1>2, <1>6, <1>8
<1>10. Congruent(z * x, z * y, r) BY <1>6, <1>7, <1>9, CongruentTimes, Zenon
<1>11. z * x = x * z /\ z * y = y * z /\ x * z \in Int /\ y * z \in Int BY <1>6, <1>9
<1>12. (x * z) % r = (y * z) % r BY <1>2, <1>9, <1>10, <1>11, CongruentRemainder, Zenon
<1>13. 1 \in Int /\ 1 % r = 1 BY <1>2
<1>14. Congruent(x * z, 1, r) BY <1>2, <1>8, <1>9, <1>11, <1>12, <1>13, SameMeansCongruent, Zenon
<1> QED BY <1>8, <1>14 DEF x, y, z

-----------------------------------------------------------------------------
(* What the invariant says of a return.                                    *)

LEMMA EnforceFollows == ASSUME Inv PROVE PrimeOrderEnforced
<1> SUFFICES ASSUME pc = "done", task = "enforce"
             PROVE  satisfied <=> allocated \in Subgroup
  BY DEF PrimeOrderEnforced
<1>1. TypeInv /\ LoopInv BY DEF Inv
<1>2. allocated \in CyclicPoints /\ allocated \in Int BY <1>1, Sizes DEF TypeInv
<1>3. satisfied = (Compared = Times(Factor, ge)) BY DEF Inv, ReturnInv
<1>4. Factor = r - 1 BY DEF Factor
<1>5. ge = allocated
  <2>1. Doublings - doublings = 0 BY <1>1 DEF LoopInv, Doublings
  <2>2. ge = Times(1, allocated) BY <1>1, <2>1, Pow2Step DEF LoopInv
  <2> QED BY <1>1, <1>2, <2>2, Cleared
<1>6. Compared = Times(r * h - 1, allocated) BY DEF Compared
<1>7. (Compared = Times(Factor, ge)) <=> Times(r, allocated) = 0
  BY <1>1, <1>2, <1>4, <1>5, <1>6, Negated
<1>8. allocated \in Subgroup <=> Times(r, allocated) = 0 BY <1>1, <1>2, Cleared
<1> QED BY <1>3, <1>7, <1>8, Zenon

(* All the doublings have been done when the loop runs.                    *)
LEMMA EvenPartRemoved ==
  ASSUME Inv, pc = "done", task = "witness"
  PROVE  ge = Times(Pow2[Twos(h)], allocated)
<1>1. Doublings = Twos(h) /\ doublings = 0 BY DEF Inv, LoopInv, Doublings
<1>2. Doublings - doublings = Twos(h) BY <1>1, Sizes DEF Inv
<1> QED BY <1>2 DEF Inv, LoopInv

LEMMA ClearsFollows == ASSUME Inv PROVE CofactorClears
<1> SUFFICES ASSUME pc = "done", task = "witness", ByCofactor PROVE result \in Subgroup
  BY DEF CofactorClears
<1>1. TypeInv BY DEF Inv
<1>2. allocated \in CyclicPoints /\ allocated \in Int BY <1>1, Sizes DEF TypeInv
<1>3. OddPart \in Nat /\ Twos(h) \in Nat /\ OddPart * Pow2[Twos(h)] = h BY <1>1, Sizes
<1>4. result = Times(OddPart, ge) BY DEF Inv, ReturnInv, Factor
<1>5. Pow2[Twos(h)] \in Int /\ OddPart \in Int BY <1>3, Pow2Step
<1>6. result = Times(OddPart, Times(Pow2[Twos(h)], allocated)) BY <1>4, EvenPartRemoved
<1>7. result = Times(h, allocated)
  <2>1. Times(OddPart, Times(Pow2[Twos(h)], allocated)) = Times(OddPart * Pow2[Twos(h)], allocated)
    BY <1>1, <1>2, <1>5, TimesTimes, Zenon
  <2> QED BY <1>3, <1>6, <2>1
<1>8. Times(r, result) = 0 BY <1>1, <1>2, <1>7, Cleared
<1> QED BY <1>1, <1>8, Cleared DEF TypeInv

LEMMA RoundTripFollows == ASSUME Inv PROVE WitnessRoundTrips
<1> SUFFICES ASSUME pc = "done", task = "witness", NEW g \in Subgroup,
                    allocated = HonestWitness(g)
             PROVE  satisfied /\ result = g
  BY DEF WitnessRoundTrips
<1> DEFINE w == Pow2[Twos(h)]
           x == IF ByCofactor THEN h ELSE w
           z == InverseModOrder(IF ByCofactor THEN h % r ELSE w)
<1>1. TypeInv BY DEF Inv
<1>2. z \in 1 .. r - 1 /\ Congruent(x * z, 1, r) BY <1>1, HonestInverse
<1>3. OddPart \in Nat /\ Twos(h) \in Nat /\ OddPart * w = h BY <1>1, Sizes
<1>4. w \in Int /\ OddPart \in Int BY <1>3, Pow2Step
<1>5. z \in Int /\ g \in Int /\ g \in Subgroup BY <1>1, <1>2, Sizes DEF Subgroup, TypeInv
<1>6. ge = Times(w, Times(z, g)) BY EvenPartRemoved DEF HonestWitness
<1>7. x \in Int BY <1>1, <1>4 DEF TypeInv
<1> HIDE DEF w, z
<1>8. Times(z, g) \in Int BY <1>1, <1>5, PointsTimes, Sizes
<1>9. result = Times(x, Times(z, g))
  <2>1. CASE ByCofactor
    <3>1. result = Times(OddPart, ge) BY <2>1 DEF Inv, ReturnInv, Factor
    <3>2. Times(OddPart, Times(w, Times(z, g))) = Times(OddPart * w, Times(z, g))
      BY <1>1, <1>4, <1>8, TimesTimes, Zenon
    <3> QED BY <1>3, <1>6, <2>1, <3>1, <3>2
  <2>2. CASE ~ByCofactor
    <3>1. result = ge BY <2>2 DEF Inv, ReturnInv
    <3> QED BY <1>6, <2>2, <3>1
  <2> QED BY <2>1, <2>2
<1> HIDE DEF x
<1>10. result = Times(x * z, g) BY <1>1, <1>5, <1>7, <1>9, TimesTimes, Zenon
<1>11. x * z \in Int BY <1>5, <1>7
<1>12. result = g BY <1>1, <1>2, <1>5, <1>10, <1>11, OrderLeaves
<1>13. satisfied = TRUE BY DEF Inv, ReturnInv
<1> QED BY <1>12, <1>13

-----------------------------------------------------------------------------

LEMMA Invariant == Spec => []Inv
<1>1. Init => Inv BY InitInv
<1>2. Inv /\ [Next]_vars => Inv' BY StepInv
<1> QED BY <1>1, <1>2, PTL DEF Spec

(* enforce_prime_order of twisted Edwards curves accepts the points of the *)
(* subgroup and no other, for every order and cofactor.                    *)
THEOREM EnforcesPrimeOrder == Spec => []PrimeOrderEnforced
BY Invariant, EnforceFollows, PTL

(* Whatever point a prover allocates, new_variable by the cofactor returns *)
(* one of the subgroup.                                                    *)
THEOREM ClearsCofactor == Spec => []CofactorClears
BY Invariant, ClearsFollows, PTL

(* The point that the program of new_variable allocates for a point of the *)
(* subgroup comes back as that point, by either check.                     *)
THEOREM RoundTrip == Spec => []WitnessRoundTrips
BY Invariant, RoundTripFollows, PTL
=============================================================================
