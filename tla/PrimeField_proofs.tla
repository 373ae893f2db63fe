-------------------------- MODULE PrimeField_proofs -------------------------
(***************************************************************************)
(* The numbers below P are a field: what the constraints of the gadgets on *)
(* curves are reasoned about with.  Expressions over the integers are      *)
(* compared by their difference, which vanishes when it is zero in the     *)
(* field.                                                                  *)
(***************************************************************************)
EXTENDS PrimeField, PowersOfTwo_proofs

Vanishes(x) == Red(x) = 0

(* The modulus is a number that divides.                                   *)
LEMMA Modulus == P \in Nat /\ P >= 2
BY FieldAssumption

(* Red gives the remainder.                                                *)
LEMMA RedRemainder ==
  ASSUME NEW x \in Int
  PROVE  /\ Red(x) \in Fp /\ Red(x) \in Int
         /\ \E k \in Int : x = k * P + Red(x)
<1>1. x \div P \in Int /\ x % P \in 0 .. P - 1 /\ x = (x \div P) * P + (x % P)
  BY Modulus, DivModInt
<1>2. Red(x) = x % P BY DEF Red
<1> HIDE DEF Red
<1>3. \E k \in Int : x = k * P + Red(x) BY <1>1, <1>2
<1>4. Red(x) \in Fp BY <1>1, <1>2 DEF Fp
<1>5. Red(x) \in Int BY <1>1, <1>2, Modulus
<1> QED BY <1>3, <1>4, <1>5

(* What vanishes are the multiples of the modulus.                         *)
LEMMA VanishesMultiple ==
  ASSUME NEW x \in Int
  PROVE  Vanishes(x) <=> \E k \in Int : x = k * P
<1>1. ASSUME Vanishes(x) PROVE \E k \in Int : x = k * P
  <2>1. PICK k \in Int : x = k * P + 0 BY <1>1, RedRemainder DEF Vanishes
  <2>2. x = k * P BY <2>1, Modulus
  <2> QED BY <2>2
<1>2. ASSUME NEW k \in Int, x = k * P PROVE Vanishes(x)
  <2>1. x - 0 = k * P BY <1>2, Modulus
  <2>2. x % P = 0 % P BY <2>1, Modulus, SameRemainder
  <2>3. 0 % P = 0 BY Modulus
  <2> QED BY <2>2, <2>3 DEF Vanishes, Red
<1> QED BY <1>1, <1>2

(* Combinations of what vanishes vanish.  A proof names the combination    *)
(* first and then compares it with the number it is about.                 *)
Combine(a, x, b, y) == a * x + b * y

(* Of two terms.                                                           *)
LEMMA VanishesSum ==
  ASSUME NEW a \in Int, NEW x \in Int, NEW b \in Int, NEW y \in Int,
         Vanishes(x), Vanishes(y)
  PROVE  Vanishes(Combine(a, x, b, y))
<1>1. PICK k \in Int : x = k * P BY VanishesMultiple
<1>2. PICK l \in Int : y = l * P BY VanishesMultiple
<1>3. a * x + b * y = (a * k + b * l) * P BY <1>1, <1>2, Modulus
<1>4. a * k + b * l \in Int /\ a * x + b * y \in Int OBVIOUS
<1>5. Vanishes(a * x + b * y) BY <1>3, <1>4, VanishesMultiple
<1> QED BY <1>5 DEF Combine

(* The same for three.                                                     *)
Combine3(a, x, b, y, c, z) == a * x + b * y + c * z

(* Of three.                                                               *)
LEMMA VanishesSum3 ==
  ASSUME NEW a \in Int, NEW x \in Int, NEW b \in Int, NEW y \in Int,
         NEW c \in Int, NEW z \in Int,
         Vanishes(x), Vanishes(y), Vanishes(z)
  PROVE  Vanishes(Combine3(a, x, b, y, c, z))
<1>1. Combine(a, x, b, y) \in Int BY DEF Combine
<1>2. Vanishes(Combine(a, x, b, y)) BY VanishesSum
<1>3. Vanishes(Combine(1, Combine(a, x, b, y), c, z))
  BY <1>1, <1>2, VanishesSum
<1>4. Combine(1, Combine(a, x, b, y), c, z) = Combine3(a, x, b, y, c, z)
  BY DEF Combine, Combine3
<1> QED BY <1>3, <1>4

(* And for four.                                                           *)
Combine4(a, x, b, y, c, z, d, w) == a * x + b * y + c * z + d * w

(* Of four.                                                                *)
LEMMA VanishesSum4 ==
  ASSUME NEW a \in Int, NEW x \in Int, NEW b \in Int, NEW y \in Int,
         NEW c \in Int, NEW z \in Int, NEW d \in Int, NEW w \in Int,
         Vanishes(x), Vanishes(y), Vanishes(z), Vanishes(w)
  PROVE  Vanishes(Combine4(a, x, b, y, c, z, d, w))
<1>1. Combine3(a, x, b, y, c, z) \in Int BY DEF Combine3
<1>2. Vanishes(Combine3(a, x, b, y, c, z)) BY VanishesSum3, Zenon
<1>3. Vanishes(Combine(1, Combine3(a, x, b, y, c, z), d, w))
  BY <1>1, <1>2, VanishesSum
<1>4. Combine(1, Combine3(a, x, b, y, c, z), d, w)
        = Combine4(a, x, b, y, c, z, d, w)
  BY DEF Combine, Combine3, Combine4
<1> QED BY <1>3, <1>4

(* A number and its remainder are the same element.                        *)
LEMMA RedVanishes ==
  ASSUME NEW x \in Int
  PROVE  Vanishes(Red(x) - x)
<1>1. PICK k \in Int : x = k * P + Red(x) BY RedRemainder
<1>2. Red(x) \in Int BY RedRemainder
<1>3. Red(x) - x = (- k) * P BY <1>1, <1>2, Modulus
<1> QED BY <1>2, <1>3, VanishesMultiple

(* Elements are equal when their difference vanishes.                      *)
LEMMA RedEqual ==
  ASSUME NEW x \in Int, NEW y \in Int
  PROVE  Red(x) = Red(y) <=> Vanishes(x - y)
<1>1. ASSUME Red(x) = Red(y) PROVE Vanishes(x - y)
  <2>1. Vanishes(Red(x) - x) /\ Vanishes(Red(y) - y) BY RedVanishes
  <2>2. Red(x) \in Int /\ Red(y) \in Int BY RedRemainder
  <2>3. Vanishes(Combine(-1, Red(x) - x, 1, Red(y) - y))
    BY <2>1, <2>2, VanishesSum
  <2>4. Combine(-1, Red(x) - x, 1, Red(y) - y) = x - y
    BY <1>1, <2>2 DEF Combine
  <2> QED BY <2>3, <2>4
<1>2. ASSUME Vanishes(x - y) PROVE Red(x) = Red(y)
  <2>1. PICK k \in Int : x - y = k * P BY <1>2, VanishesMultiple
  <2>2. P \in Nat /\ P >= 1 BY Modulus
  <2>3. x % P = y % P BY <2>1, <2>2, SameRemainder, Zenon
  <2> QED BY <2>3 DEF Red
<1> QED BY <1>1, <1>2

(* An element is its own remainder.                                        *)
LEMMA ElementRed ==
  ASSUME NEW x \in Fp
  PROVE  x \in Int /\ Red(x) = x
BY Modulus DEF Fp, Red

(* Elements whose difference vanishes are the same.                        *)
LEMMA ElementsEqual ==
  ASSUME NEW x \in Fp, NEW y \in Fp, Vanishes(x - y)
  PROVE  x = y
BY RedEqual, ElementRed

(* The only element that vanishes is zero.                                 *)
LEMMA ElementZero ==
  ASSUME NEW x \in Fp
  PROVE  Vanishes(x) <=> x = 0
BY ElementRed DEF Vanishes

(* One does not vanish.                                                    *)
LEMMA OneIsNotZero == ~Vanishes(1)
<1>1. 1 \in Fp BY Modulus DEF Fp
<1> QED BY <1>1, ElementZero

-----------------------------------------------------------------------------
(* Inverses.                                                               *)

(* Every element but zero has an inverse: the remainder of the modulus by  *)
(* the element is smaller, not zero, and an inverse of it gives one.       *)
LEMMA InverseExists ==
  \A d \in 1 .. P - 1 : \E e \in Int : Vanishes(e * d - 1)
<1> DEFINE S == {d \in 1 .. P - 1 : \A e \in Int : ~Vanishes(e * d - 1)}
<1> SUFFICES ASSUME S # {} PROVE FALSE OBVIOUS
<1>1. S \in SUBSET Nat BY Modulus
<1> HIDE DEF S
<1>2. PICK d \in S : \A k \in S : d <= k BY <1>1, LeastElement
<1>3. d \in 1 .. P - 1 /\ \A e \in Int : ~Vanishes(e * d - 1)
  BY <1>2 DEF S
<1>4. d # 1
  <2>1. Vanishes(1 * 1 - 1)
    <3>1. 0 = 0 * P BY Modulus
    <3> QED BY <3>1, VanishesMultiple
  <2> QED BY <2>1, <1>3
<1> DEFINE q == P \div d
           r == P % d
<1>5. q \in Int /\ r \in 0 .. d - 1 /\ P = q * d + r
  BY <1>3, Modulus, DivModInt
<1>6. r # 0
  <2>1. d \in 2 .. P - 1 BY <1>3, <1>4, Modulus
  <2> QED BY <2>1, FieldAssumption
<1> HIDE DEF q, r
<1>7. r \in 1 .. P - 1 /\ r < d BY <1>3, <1>5, <1>6, Modulus
<1>8. r \notin S BY <1>1, <1>2, <1>7
<1>9. PICK e \in Int : Vanishes(e * r - 1) BY <1>7, <1>8 DEF S
<1>10. Vanishes(P)
  <2>1. P = 1 * P /\ P \in Int BY Modulus
  <2> QED BY <2>1, VanishesMultiple
<1>11. Vanishes(Combine(1, e * r - 1, - e, P))
  BY <1>5, <1>9, <1>10, Modulus, VanishesSum
<1>12. Combine(1, e * r - 1, - e, P) = ((- e) * q) * d - 1
  <2>1. r = P - q * d BY <1>3, <1>5, Modulus
  <2> QED BY <1>3, <1>5, <2>1, Modulus DEF Combine
<1>13. (- e) * q \in Int BY <1>5
<1> QED BY <1>3, <1>11, <1>12, <1>13

(* Inverse0 finds it.                                                      *)
LEMMA InverseIs ==
  ASSUME NEW d \in Int, ~Vanishes(d)
  PROVE  /\ Inverse0(d) \in Fp /\ Inverse0(d) \in Int
         /\ Vanishes(Inverse0(d) * d - 1)
<1>1. Red(d) \in 1 .. P - 1 /\ Red(d) \in Int
  BY RedRemainder, Modulus DEF Vanishes, Fp
<1>2. PICK e \in Int : Vanishes(e * Red(d) - 1) BY <1>1, InverseExists
<1>3. Red(e) \in Fp /\ Red(e) \in Int BY RedRemainder
<1>4. Vanishes(Red(e) * d - 1)
  <2>1. Vanishes(Red(e) - e) /\ Vanishes(Red(d) - d) BY RedVanishes
  <2> DEFINE c == Combine(d, Red(e) - e, - e, Red(d) - d)
  <2>2. Vanishes(c) BY <1>1, <1>3, <2>1, VanishesSum
  <2>3. c = d * (Red(e) - e) + (- e) * (Red(d) - d) BY DEF Combine
  <2> HIDE DEF c
  <2>4. c \in Int BY <1>1, <1>3, <2>3
  <2>5. Vanishes(Combine(1, c, 1, e * Red(d) - 1))
    BY <1>1, <1>2, <2>2, <2>4, VanishesSum
  <2>6. Combine(1, c, 1, e * Red(d) - 1) = Red(e) * d - 1
    BY <1>1, <1>3, <2>3 DEF Combine
  <2> QED BY <2>5, <2>6
<1>5. \A x \in Fp : Red(x * d) = 1 <=> Vanishes(x * d - 1)
  <2> SUFFICES ASSUME NEW x \in Fp PROVE Red(x * d) = 1 <=> Vanishes(x * d - 1)
    OBVIOUS
  <2>1. 1 \in Fp /\ x \in Int BY Modulus, ElementRed DEF Fp
  <2>2. Red(1) = 1 BY <2>1, ElementRed
  <2>3. x * d \in Int /\ 1 \in Int BY <2>1
  <2>4. Red(x * d) = Red(1) <=> Vanishes(x * d - 1) BY <2>3, RedEqual, Zenon
  <2> QED BY <2>2, <2>4
<1>6. Red(d) # 0 BY DEF Vanishes
<1>7. Inverse0(d) = CHOOSE x \in Fp : Red(x * d) = 1 BY <1>6 DEF Inverse0
<1>8. Red(Red(e) * d) = 1 BY <1>3, <1>4, <1>5
<1>9. Inverse0(d) \in Fp /\ Red(Inverse0(d) * d) = 1 BY <1>3, <1>7, <1>8
<1> QED BY <1>5, <1>9, ElementRed

(* A product vanishes only with one of its factors.                        *)
LEMMA NoZeroDivisors ==
  ASSUME NEW x \in Int, NEW y \in Int, Vanishes(x * y), ~Vanishes(x)
  PROVE  Vanishes(y)
<1> DEFINE e == Inverse0(x)
<1>1. e \in Int /\ Vanishes(e * x - 1) BY InverseIs
<1> HIDE DEF e
<1>2. Vanishes(Combine(e, x * y, - y, e * x - 1)) BY <1>1, VanishesSum
<1>3. Combine(e, x * y, - y, e * x - 1) = y BY <1>1 DEF Combine
<1> QED BY <1>2, <1>3

(* A product of what does not vanish does not.                             *)
LEMMA ProductIsNotZero ==
  ASSUME NEW x \in Int, NEW y \in Int, ~Vanishes(x), ~Vanishes(y)
  PROVE  ~Vanishes(x * y)
BY NoZeroDivisors

(* mul_by_inverse_unchecked has one result where the divisor is not zero.  *)
LEMMA QuotientIs ==
  ASSUME NEW n \in Int, NEW d \in Int, NEW z \in Fp,
         ~Vanishes(d), Vanishes(z * d - n)
  PROVE  Quotients(n, d) = {z}
<1>1. z \in Quotients(n, d) BY DEF Quotients, Vanishes
<1>2. ASSUME NEW q \in Fp, Vanishes(q * d - n) PROVE q = z
  <2>1. q \in Int /\ z \in Int BY ElementRed
  <2>2. Vanishes(Combine(1, q * d - n, -1, z * d - n))
    BY <1>2, <2>1, VanishesSum
  <2>3. Combine(1, q * d - n, -1, z * d - n) = d * (q - z)
    BY <2>1 DEF Combine
  <2>4. Vanishes(q - z) BY <2>1, <2>2, <2>3, NoZeroDivisors
  <2> QED BY <1>2, <2>4, ElementsEqual
<1>3. \A q \in Quotients(n, d) : q = z BY <1>2 DEF Quotients, Vanishes
<1> QED BY <1>1, <1>3

(* And the product with the inverse is that result.                        *)
LEMMA DivisionIs ==
  ASSUME NEW n \in Int, NEW d \in Int, ~Vanishes(d)
  PROVE  /\ Red(n * Inverse0(d)) \in Fp
         /\ Vanishes(Red(n * Inverse0(d)) * d - n)
<1> DEFINE e == Inverse0(d)
           z == Red(n * e)
<1>1. e \in Int /\ Vanishes(e * d - 1) BY InverseIs
<1> HIDE DEF e
<1>2. z \in Fp /\ z \in Int /\ Vanishes(z - n * e)
  BY <1>1, RedRemainder, RedVanishes
<1> HIDE DEF z
<1>3. Vanishes(Combine(d, z - n * e, n, e * d - 1))
  BY <1>1, <1>2, VanishesSum
<1>4. Combine(d, z - n * e, n, e * d - 1) = z * d - n
  BY <1>1, <1>2 DEF Combine
<1>5. Vanishes(z * d - n) BY <1>3, <1>4
<1> QED BY <1>2, <1>5 DEF z, e

(* The result depends on the residues of what is divided alone.            *)
LEMMA QuotientSame ==
  ASSUME NEW n \in Int, NEW d \in Int, NEW m \in Int, NEW e \in Int, NEW z \in Fp,
         ~Vanishes(e), Vanishes(d - e), Vanishes(n - m), Vanishes(z * e - m)
  PROVE  Quotients(n, d) = {z} /\ Red(n * Inverse0(d)) = z
<1>1. z \in Int BY ElementRed
<1>2. ~Vanishes(d)
  <2> SUFFICES ASSUME Vanishes(d) PROVE FALSE OBVIOUS
  <2>1. Vanishes(Combine(1, d, -1, d - e)) BY VanishesSum
  <2>2. Combine(1, d, -1, d - e) = e BY DEF Combine
  <2> QED BY <2>1, <2>2
<1>3. Vanishes(z * d - n)
  <2> DEFINE f == z * e - m
             g == d - e
             h == n - m
  <2>1. f \in Int /\ g \in Int /\ h \in Int BY <1>1
  <2>2. Vanishes(f) /\ Vanishes(g) /\ Vanishes(h) OBVIOUS
  <2>3. Combine3(1, f, z, g, -1, h) = z * d - n BY <1>1 DEF Combine3
  <2> HIDE DEF f, g, h
  <2>4. 1 \in Int /\ -1 \in Int OBVIOUS
  <2>5. Vanishes(Combine3(1, f, z, g, -1, h))
    BY <1>1, <2>1, <2>2, <2>4, VanishesSum3, Zenon
  <2> QED BY <2>3, <2>5
<1>4. Quotients(n, d) = {z} BY <1>2, <1>3, QuotientIs
<1> DEFINE w == Red(n * Inverse0(d))
<1>5. w \in Fp /\ Vanishes(w * d - n) BY <1>2, DivisionIs
<1> HIDE DEF w
<1>6. w \in Quotients(n, d) BY <1>5 DEF Quotients, Vanishes
<1> QED BY <1>4, <1>6 DEF w
=============================================================================
