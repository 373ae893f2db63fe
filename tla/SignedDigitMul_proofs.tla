------------------------ MODULE SignedDigitMul_proofs -----------------------
(***************************************************************************)
(* Twisted Edwards curves: the formulae of AffineVar, the Montgomery model *)
(* and the signed-digit multiplication, for every field, every square A,   *)
(* every D that is not a square, all points and all programs.              *)
(*                                                                         *)
(* A congruence is shown by naming a combination of what is known to       *)
(* vanish (Combine) and comparing it with the number in question, an       *)
(* identity of integers.                                                   *)
(***************************************************************************)
EXTENDS SignedDigitMul, PrimeField_proofs

-----------------------------------------------------------------------------
(* The coefficients.                                                       *)

(* They are numbers that are not zero in the field.                        *)
LEMMA Coefficients ==
  /\ A \in Int /\ D \in Int
  /\ A \in Fp /\ D \in Fp
  /\ ~Vanishes(A) /\ ~Vanishes(D)
<1>1. A \in 1 .. P - 1 /\ D \in 1 .. P - 1 BY EdwardsAssumption
<1>2. A \in Int /\ D \in Int /\ A \in Fp /\ D \in Fp /\ A # 0 /\ D # 0
  BY <1>1, Modulus DEF Fp
<1> QED BY <1>2, ElementZero

(* A is a square.                                                          *)
LEMMA SquareA == \E s \in Int : Vanishes(s * s - A)
<1>1. PICK s \in Fp : Red(s * s) = A BY EdwardsAssumption
<1>2. s \in Int BY ElementRed
<1>3. s * s \in Int BY <1>2
<1>4. Red(s * s) = Red(A) BY <1>1, Coefficients, ElementRed
<1>5. Vanishes(s * s - A) BY <1>3, <1>4, Coefficients, RedEqual, Zenon
<1> QED BY <1>2, <1>5

(* D is not.                                                               *)
LEMMA NoSquareD ==
  ASSUME NEW n \in Int
  PROVE  ~Vanishes(n * n - D)
<1> SUFFICES ASSUME Vanishes(n * n - D) PROVE FALSE OBVIOUS
<1> DEFINE x == Red(n)
<1>1. x \in Fp /\ x \in Int /\ Vanishes(x - n) BY RedRemainder, RedVanishes
<1> HIDE DEF x
<1>2. Vanishes(Combine(x + n, x - n, 1, n * n - D))
  BY <1>1, Coefficients, VanishesSum
<1>3. Combine(x + n, x - n, 1, n * n - D) = x * x - D
  BY <1>1, Coefficients DEF Combine
<1>4. x * x \in Int BY <1>1
<1>5. Vanishes(x * x - D) BY <1>2, <1>3
<1>6. Red(x * x) = Red(D) BY <1>4, <1>5, Coefficients, RedEqual, Zenon
<1>7. Red(x * x) = D BY <1>6, Coefficients, ElementRed
<1> QED BY <1>1, <1>7, EdwardsAssumption

(* The field has more than two elements.                                   *)
LEMMA TwoIsNotZero == ~Vanishes(2)
<1>1. CASE P = 2
  <2>1. D = 1 BY <1>1, EdwardsAssumption
  <2>2. Vanishes(1 * 1 - D)
    <3>1. 1 * 1 - D = 0 * P BY <2>1, Modulus
    <3>2. 1 * 1 - D \in Int BY <2>1
    <3> QED BY <3>1, <3>2, VanishesMultiple
  <2> QED BY <2>2, NoSquareD
<1>2. CASE P # 2
  <2>1. 2 \in Fp BY <1>2, Modulus DEF Fp
  <2> QED BY <2>1, ElementZero
<1> QED BY <1>1, <1>2

(* D m^2 is a square only at zero.                                         *)
LEMMA NonSquare ==
  ASSUME NEW n \in Int, NEW m \in Int, Vanishes(n * n - D * (m * m))
  PROVE  Vanishes(m) /\ Vanishes(n)
<1>1. Vanishes(m)
  <2> SUFFICES ASSUME ~Vanishes(m) PROVE FALSE OBVIOUS
  <2> DEFINE e == Inverse0(m)
             y == D * (e * m + 1)
  <2>1. e \in Int /\ Vanishes(e * m - 1) BY InverseIs
  <2> HIDE DEF e
  <2>2. y \in Int BY <2>1, Coefficients
  <2>3. Vanishes(Combine(e * e, n * n - D * (m * m), y, e * m - 1))
    BY <2>1, <2>2, Coefficients, VanishesSum
  <2>4. Combine(e * e, n * n - D * (m * m), y, e * m - 1)
          = (n * e) * (n * e) - D
    BY <2>1, Coefficients DEF Combine
  <2>5. n * e \in Int BY <2>1
  <2> QED BY <2>3, <2>4, <2>5, NoSquareD
<1>2. Vanishes(Combine(1, n * n - D * (m * m), D * m, m))
  BY <1>1, Coefficients, VanishesSum
<1>3. Combine(1, n * n - D * (m * m), D * m, m) = n * n
  BY Coefficients DEF Combine
<1>4. Vanishes(n * n) BY <1>2, <1>3
<1>5. Vanishes(n) BY <1>4, NoZeroDivisors
<1> QED BY <1>1, <1>5

-----------------------------------------------------------------------------
(* Coordinates.                                                            *)

(* The equation of the curve.                                              *)
Curve(x, y) == A * x * x + y * y - 1 - D * x * x * y * y

(* The product in the denominators of a sum.                               *)
Tau(x1, y1, x2, y2) == D * x1 * x2 * y1 * y2

(* Both are numbers.                                                       *)
LEMMA CurveInt ==
  ASSUME NEW x \in Int, NEW y \in Int
  PROVE  Curve(x, y) \in Int
BY Coefficients DEF Curve

(* For any coordinates.                                                    *)
LEMMA TauInt ==
  ASSUME NEW x1 \in Int, NEW y1 \in Int, NEW x2 \in Int, NEW y2 \in Int
  PROVE  Tau(x1, y1, x2, y2) \in Int
BY Coefficients DEF Tau

(* Points are pairs of elements that satisfy it.                           *)
LEMMA PointIs ==
  ASSUME NEW x \in Fp, NEW y \in Fp
  PROVE  <<x, y>> \in Points <=> Vanishes(Curve(x, y))
<1> DEFINE w == Red(x * y)
           l == A * x * x + y * y - 1
           r == D * w * w
<1>1. x \in Int /\ y \in Int BY ElementRed
<1>2. x * y \in Int BY <1>1
<1>3. w \in Int /\ Vanishes(w - x * y) BY <1>2, RedRemainder, RedVanishes
<1>4. <<x, y>> \in Points <=> Red(l) = Red(r) BY DEF Points, OnCurve
<1> HIDE DEF w
<1>5. l \in Int /\ r \in Int BY <1>1, <1>3, Coefficients
<1>6. Red(l) = Red(r) <=> Vanishes(l - r) BY <1>5, RedEqual, Zenon
<1> DEFINE z == D * (w + x * y)
<1>7. z \in Int /\ - z \in Int BY <1>1, <1>3, Coefficients
<1>8. Combine(1, l - r, z, w - x * y) = Curve(x, y)
  BY <1>1, <1>3, Coefficients DEF Combine, Curve
<1>9. Combine(1, Curve(x, y), - z, w - x * y) = l - r
  BY <1>1, <1>3, Coefficients DEF Combine, Curve
<1> HIDE DEF l, r, z
<1>10. Vanishes(l - r) => Vanishes(Curve(x, y))
  BY <1>1, <1>3, <1>5, <1>7, <1>8, VanishesSum
<1>11. ASSUME Vanishes(Curve(x, y)) PROVE Vanishes(l - r)
  <2>1. Curve(x, y) \in Int /\ w - x * y \in Int BY <1>1, <1>3, CurveInt
  <2>2. Vanishes(Combine(1, Curve(x, y), - z, w - x * y))
    BY <1>3, <1>7, <1>11, <2>1, VanishesSum
  <2> QED BY <1>9, <2>2
<1> QED BY <1>4, <1>6, <1>10, <1>11

(* The coordinates of a point.                                             *)
LEMMA PointHas ==
  ASSUME NEW q \in Points
  PROVE  /\ q = <<q[1], q[2]>> /\ q[1] \in Fp /\ q[2] \in Fp
         /\ q[1] \in Int /\ q[2] \in Int
         /\ Vanishes(Curve(q[1], q[2]))
<1>1. q \in Fp \X Fp BY DEF Points
<1>2. q = <<q[1], q[2]>> /\ q[1] \in Fp /\ q[2] \in Fp BY <1>1
<1> QED BY <1>2, PointIs, ElementRed

-----------------------------------------------------------------------------
(* The denominators of a sum are never zero: the formulae are complete.    *)

(* One denominator, with a root s of A.                                    *)
LEMMA RootFactor ==
  ASSUME NEW s \in Int, Vanishes(s * s - A),
         NEW x1 \in Int, NEW y1 \in Int, NEW x2 \in Int, NEW y2 \in Int,
         Vanishes(Curve(x1, y1)), Vanishes(Curve(x2, y2)),
         Vanishes(1 - Tau(x1, y1, x2, y2))
  PROVE  Vanishes(s * x2 - y2)
<1> DEFINE T == Tau(x1, y1, x2, y2)
           n == s * x1 - T * y1
           m == x1 * y1 * (s * x2 - y2)
           q1 == x1 * x1 - D * x1 * x1 * y1 * y1 * x2 * x2
           q3 == (1 + T) * (1 - y1 * y1)
           q2 == - (D * x1 * x1 * y1 * y1)
           c1 == Curve(x1, y1)
           c2 == Curve(x2, y2)
<1>1. T \in Int /\ c1 \in Int /\ c2 \in Int BY TauInt, CurveInt
<1>2. q1 \in Int /\ q2 \in Int /\ s * s - A \in Int BY Coefficients
<1>3. n * n - D * (m * m)
        = Combine3(q1, s * s - A, 1, c1, q2, c2) + q3 * (1 - T)
  BY Coefficients DEF Combine3, Curve, Tau
<1> HIDE DEF T, c1, c2
<1>4. q3 \in Int /\ 1 - T \in Int BY <1>1
<1>5. n \in Int /\ m \in Int /\ s * x2 - y2 \in Int BY <1>1
<1> HIDE DEF q1, q2, q3, n, m
<1> DEFINE k == Combine3(q1, s * s - A, 1, c1, q2, c2)
<1>6. k \in Int BY <1>1, <1>2 DEF Combine3
<1>7. Vanishes(k)
  <2>1. Vanishes(c1) /\ Vanishes(c2) BY DEF c1, c2
  <2> DEFINE z == s * s - A
  <2>2. z \in Int /\ Vanishes(z) BY <1>2
  <2> HIDE DEF z
  <2>3. Vanishes(Combine3(q1, z, 1, c1, q2, c2))
    BY <1>1, <1>2, <2>1, <2>2, 1 \in Int, VanishesSum3, Zenon
  <2> QED BY <2>3 DEF z
<1> HIDE DEF k
<1>8. Vanishes(Combine(1, k, q3, 1 - T))
  BY <1>4, <1>6, <1>7, VanishesSum DEF T
<1>9. Combine(1, k, q3, 1 - T) = n * n - D * (m * m)
  BY <1>3, <1>4, <1>6 DEF Combine, k
<1>10. Vanishes(m) BY <1>5, <1>8, <1>9, NonSquare
<1> SUFFICES ASSUME ~Vanishes(s * x2 - y2) PROVE FALSE OBVIOUS
<1>11. Vanishes(x1 * y1)
  <2>1. m = (s * x2 - y2) * (x1 * y1) BY DEF m
  <2>2. x1 * y1 \in Int OBVIOUS
  <2> HIDE DEF m
  <2> QED BY <1>5, <1>10, <2>1, <2>2, NoZeroDivisors
<1>12. Vanishes(Combine(1, 1 - T, D * x2 * y2, x1 * y1))
  <2>1. D * x2 * y2 \in Int /\ x1 * y1 \in Int BY Coefficients
  <2> QED BY <1>4, <1>11, <2>1, VanishesSum DEF T
<1>13. Combine(1, 1 - T, D * x2 * y2, x1 * y1) = 1
  BY Coefficients DEF Combine, T, Tau
<1> QED BY <1>12, <1>13, OneIsNotZero

(* One minus the product of coordinates does not vanish on the curve.      *)
LEMMA DenominatorMinus ==
  ASSUME NEW x1 \in Int, NEW y1 \in Int, NEW x2 \in Int, NEW y2 \in Int,
         Vanishes(Curve(x1, y1)), Vanishes(Curve(x2, y2))
  PROVE  ~Vanishes(1 - Tau(x1, y1, x2, y2))
<1> SUFFICES ASSUME Vanishes(1 - Tau(x1, y1, x2, y2)) PROVE FALSE OBVIOUS
<1>1. PICK s \in Int : Vanishes(s * s - A) BY SquareA
<1>2. Vanishes(s * x2 - y2) BY <1>1, RootFactor
<1>3. Vanishes((- s) * x2 - y2)
  <2> DEFINE t == - s
  <2>1. t \in Int /\ t * t = s * s BY <1>1
  <2> HIDE DEF t
  <2>2. Vanishes(t * x2 - y2) BY <1>1, <2>1, RootFactor
  <2> QED BY <2>2 DEF t
<1>4. Vanishes(Combine(-1, s * x2 - y2, -1, (- s) * x2 - y2))
  BY <1>1, <1>2, <1>3, VanishesSum
<1>5. Combine(-1, s * x2 - y2, -1, (- s) * x2 - y2) = 2 * y2
  BY <1>1 DEF Combine
<1>6. Vanishes(y2) BY <1>4, <1>5, TwoIsNotZero, NoZeroDivisors
<1> DEFINE k == D * x1 * x2 * y1
<1>7. k \in Int BY Coefficients
<1>8. Combine(1, 1 - Tau(x1, y1, x2, y2), k, y2) = 1
  BY Coefficients DEF Combine, Tau
<1> HIDE DEF k
<1>9. 1 - Tau(x1, y1, x2, y2) \in Int
  <2>1. Tau(x1, y1, x2, y2) \in Int BY TauInt
  <2> QED BY <2>1
<1>10. Vanishes(Combine(1, 1 - Tau(x1, y1, x2, y2), k, y2))
  BY <1>6, <1>7, <1>9, VanishesSum
<1> QED BY <1>8, <1>10, OneIsNotZero

(* Nor does one plus it.                                                   *)
LEMMA DenominatorPlus ==
  ASSUME NEW x1 \in Int, NEW y1 \in Int, NEW x2 \in Int, NEW y2 \in Int,
         Vanishes(Curve(x1, y1)), Vanishes(Curve(x2, y2))
  PROVE  ~Vanishes(1 + Tau(x1, y1, x2, y2))
<1> DEFINE z == - x2
<1>1. z \in Int OBVIOUS
<1>2. Curve(z, y2) = Curve(x2, y2) BY Coefficients DEF Curve
<1>3. 1 - Tau(x1, y1, z, y2) = 1 + Tau(x1, y1, x2, y2)
  BY Coefficients DEF Tau
<1> HIDE DEF z
<1>4. ~Vanishes(1 - Tau(x1, y1, z, y2)) BY <1>1, <1>2, DenominatorMinus
<1> QED BY <1>3, <1>4

-----------------------------------------------------------------------------
(* The sum of two points, by the equations that its coordinates satisfy.   *)

CrossX(x1, y1, x2, y2) == x1 * y2 + x2 * y1

CrossY(x1, y1, x2, y2) == y1 * y2 - A * x1 * x2

(* So are the numerators of a sum.                                         *)
LEMMA CrossInt ==
  ASSUME NEW x1 \in Int, NEW y1 \in Int, NEW x2 \in Int, NEW y2 \in Int
  PROVE  CrossX(x1, y1, x2, y2) \in Int /\ CrossY(x1, y1, x2, y2) \in Int
BY Coefficients DEF CrossX, CrossY

IsSum(x, y, x1, y1, x2, y2) ==
  /\ Vanishes(x * (1 + Tau(x1, y1, x2, y2)) - CrossX(x1, y1, x2, y2))
  /\ Vanishes(y * (1 - Tau(x1, y1, x2, y2)) - CrossY(x1, y1, x2, y2))

(* Such coordinates exist, because no denominator vanishes.                *)
LEMMA SumExists ==
  ASSUME NEW x1 \in Int, NEW y1 \in Int, NEW x2 \in Int, NEW y2 \in Int,
         Vanishes(Curve(x1, y1)), Vanishes(Curve(x2, y2))
  PROVE  \E x, y \in Fp : IsSum(x, y, x1, y1, x2, y2)
<1> DEFINE d == 1 + Tau(x1, y1, x2, y2)
           e == 1 - Tau(x1, y1, x2, y2)
<1>1. Tau(x1, y1, x2, y2) \in Int BY TauInt
<1>2. d \in Int /\ e \in Int BY <1>1
<1>3. ~Vanishes(d) /\ ~Vanishes(e) BY DenominatorPlus, DenominatorMinus
<1> HIDE DEF d, e
<1> DEFINE n == CrossX(x1, y1, x2, y2)
           m == CrossY(x1, y1, x2, y2)
<1>4. n \in Int /\ m \in Int BY CrossInt
<1> HIDE DEF n, m
<1>5. /\ Red(n * Inverse0(d)) \in Fp
      /\ Vanishes(Red(n * Inverse0(d)) * d - n)
  BY <1>2, <1>3, <1>4, DivisionIs
<1>6. /\ Red(m * Inverse0(e)) \in Fp
      /\ Vanishes(Red(m * Inverse0(e)) * e - m)
  BY <1>2, <1>3, <1>4, DivisionIs
<1>7. IsSum(Red(n * Inverse0(d)), Red(m * Inverse0(e)), x1, y1, x2, y2)
  BY <1>5, <1>6 DEF IsSum, n, m, d, e
<1> QED BY <1>5, <1>6, <1>7

(* They are the coordinates of the sum.                                    *)
LEMMA SumIs ==
  ASSUME NEW p \in Points, NEW q \in Points, NEW x \in Fp, NEW y \in Fp,
         IsSum(x, y, p[1], p[2], q[1], q[2])
  PROVE  Sum(p, q) = <<x, y>>
<1> DEFINE T == Tau(p[1], p[2], q[1], q[2])
           a == Red(p[1] * q[1])
           b == Red(p[2] * q[2])
           t == Red(D * a * b)
           n == p[1] * q[2] + q[1] * p[2]
           m == p[2] * q[2] - A * p[1] * q[1]
<1>1. /\ p[1] \in Int /\ p[2] \in Int /\ q[1] \in Int /\ q[2] \in Int
      /\ Vanishes(Curve(p[1], p[2])) /\ Vanishes(Curve(q[1], q[2]))
  BY PointHas
<1>2. ~Vanishes(1 + T) /\ ~Vanishes(1 - T)
  BY <1>1, DenominatorPlus, DenominatorMinus
<1>3. T \in Int BY <1>1, TauInt
<1>4. p[1] * q[1] \in Int /\ p[2] * q[2] \in Int BY <1>1
<1>5. /\ a \in Int /\ Vanishes(a - p[1] * q[1])
      /\ b \in Int /\ Vanishes(b - p[2] * q[2])
  BY <1>4, RedRemainder, RedVanishes
<1>6. D * a * b \in Int BY <1>5, Coefficients
<1> HIDE DEF a, b
<1>7. t \in Int /\ Vanishes(t - D * a * b) BY <1>6, RedRemainder, RedVanishes
<1> HIDE DEF t
<1>8. Vanishes(t - T)
  <2> DEFINE f == t - D * a * b
             g == a - p[1] * q[1]
             h == b - p[2] * q[2]
             v == D * b
             w == D * p[1] * q[1]
  <2>1. f \in Int /\ g \in Int /\ h \in Int /\ v \in Int /\ w \in Int /\ 1 \in Int
    BY <1>1, <1>5, <1>7, Coefficients
  <2>2. Vanishes(f) /\ Vanishes(g) /\ Vanishes(h) BY <1>5, <1>7
  <2>3. Combine3(1, f, v, g, w, h) = t - T
    BY <1>1, <1>5, <1>7, Coefficients DEF Combine3, Tau
  <2> HIDE DEF f, g, h, v, w
  <2>4. Vanishes(Combine3(1, f, v, g, w, h))
    BY <2>1, <2>2, VanishesSum3, Zenon
  <2> QED BY <2>3, <2>4
<1>9. n \in Int /\ m \in Int BY <1>1, Coefficients
<1>10. Vanishes(x * (1 + T) - n) /\ Vanishes(y * (1 - T) - m)
  BY DEF IsSum, CrossX, CrossY
<1>11. Sum(p, q) = <<Red(n * Inverse0(1 + t)), Red(m * Inverse0(1 - t))>>
  BY DEF Sum, t, a, b
<1> HIDE DEF T, n, m
<1>12. Vanishes(n - n) /\ Vanishes(m - m)
  <2>1. n - n = 0 * P /\ m - m = 0 * P BY <1>9, Modulus
  <2>2. n - n \in Int /\ m - m \in Int BY <1>9
  <2> QED BY <2>1, <2>2, VanishesMultiple
<1>13. Red(n * Inverse0(1 + t)) = x
  <2> DEFINE d == 1 + t
             e == 1 + T
  <2>1. d \in Int /\ e \in Int BY <1>3, <1>7
  <2>2. ~Vanishes(e) /\ Vanishes(x * e - n) BY <1>2, <1>10
  <2>3. Vanishes(d - e)
    <3>1. d - e = t - T BY <1>3, <1>7
    <3> QED BY <1>8, <3>1
  <2> HIDE DEF d, e
  <2>4. Red(n * Inverse0(d)) = x
    BY <1>9, <1>12, <2>1, <2>2, <2>3, QuotientSame, Zenon
  <2> QED BY <2>4 DEF d
<1>14. Red(m * Inverse0(1 - t)) = y
  <2> DEFINE d == 1 - t
             e == 1 - T
  <2>1. d \in Int /\ e \in Int BY <1>3, <1>7
  <2>2. ~Vanishes(e) /\ Vanishes(y * e - m) BY <1>2, <1>10
  <2>3. Vanishes(d - e)
    <3>1. 0 \in Int /\ -1 \in Int /\ t - T \in Int BY <1>3, <1>7
    <3>2. Vanishes(Combine(-1, t - T, 0, t - T)) BY <1>8, <3>1, VanishesSum
    <3>3. Combine(-1, t - T, 0, t - T) = d - e BY <1>3, <1>7 DEF Combine
    <3> QED BY <3>2, <3>3
  <2> HIDE DEF d, e
  <2>4. Red(m * Inverse0(d)) = y
    BY <1>9, <1>12, <2>1, <2>2, <2>3, QuotientSame, Zenon
  <2> QED BY <2>4 DEF d
<1> QED BY <1>11, <1>13, <1>14

(* The sum has such coordinates.                                           *)
LEMMA SumHas ==
  ASSUME NEW p \in Points, NEW q \in Points
  PROVE  /\ Sum(p, q) = <<Sum(p, q)[1], Sum(p, q)[2]>>
         /\ Sum(p, q)[1] \in Fp /\ Sum(p, q)[2] \in Fp
         /\ Sum(p, q)[1] \in Int /\ Sum(p, q)[2] \in Int
         /\ IsSum(Sum(p, q)[1], Sum(p, q)[2], p[1], p[2], q[1], q[2])
<1>1. PICK x, y \in Fp : IsSum(x, y, p[1], p[2], q[1], q[2])
  BY PointHas, SumExists
<1>2. Sum(p, q) = <<x, y>> BY <1>1, SumIs
<1> QED BY <1>1, <1>2, ElementRed

-----------------------------------------------------------------------------
(* The group: sums are points, and the law of the group is that of a       *)
(* commutative group.                                                      *)

(* What satisfies the equations of a sum is on the curve.                  *)
LEMMA SumOnCurve ==
  ASSUME NEW x1 \in Int, NEW y1 \in Int, NEW x2 \in Int, NEW y2 \in Int,
         Vanishes(Curve(x1, y1)), Vanishes(Curve(x2, y2)),
         NEW x \in Int, NEW y \in Int, IsSum(x, y, x1, y1, x2, y2)
  PROVE  Vanishes(Curve(x, y))
<1> DEFINE T == Tau(x1, y1, x2, y2)
           n == CrossX(x1, y1, x2, y2)
           m == CrossY(x1, y1, x2, y2)
           c1 == Curve(x1, y1)
           c2 == Curve(x2, y2)
           X == x * (1 + T)
           Y == y * (1 - T)
           p1 == D * x1 * x1 * y1 * y1
           p2 == D * x2 * x2 * y2 * y2
           a1 == A * x1 * x1 + y1 * y1
           a2 == A * x2 * x2 + y2 * y2
           h1 == (1 + p1 * p2) * a2 - p2 * (a1 + 1 + p1)
           h2 == (1 + p1 * p2) * (1 + p1) - p1 * (a2 + 1 + p2)
           z == 1 - T * T
<1>1. /\ T \in Int /\ n \in Int /\ m \in Int /\ c1 \in Int /\ c2 \in Int
      /\ p1 \in Int /\ p2 \in Int /\ a1 \in Int /\ a2 \in Int
  BY TauInt, CrossInt, CurveInt, Coefficients
<1>2. A * n * n * (1 - T) * (1 - T) + m * m * (1 + T) * (1 + T) - z * z
        - D * n * n * m * m = h1 * c1 + h2 * c2
  <2>1. T * T = p1 * p2 BY Coefficients DEF Tau
  <2>2. A * n * n + m * m = a1 * a2 BY Coefficients DEF CrossX, CrossY
  <2>3. 2 * T * (m * m - A * n * n) - D * n * n * m * m
          = - (p1 * a2 * a2) - p2 * a1 * a1
    BY Coefficients DEF Tau, CrossX, CrossY
  <2>4. c1 = a1 - 1 - p1 /\ c2 = a2 - 1 - p2 BY Coefficients DEF Curve
  <2> HIDE DEF T, n, m, c1, c2, p1, p2, a1, a2
  <2> DEFINE k == A * n * n
             l == m * m
             j == D * n * n * m * m
  <2>5. k \in Int /\ l \in Int /\ j \in Int BY <1>1, Coefficients
  <2>6. A * n * n * (1 - T) * (1 - T) = k * (1 - T) * (1 - T)
        /\ m * m * (1 + T) * (1 + T) = l * (1 + T) * (1 + T)
    BY <1>1, Coefficients
  <2> HIDE DEF k, l, j
  <2>7. k * (1 - T) * (1 - T) + l * (1 + T) * (1 + T) - z * z - j
          = (k + l) * (1 + T * T) + (2 * T * (l - k) - j)
              - (1 - T * T) * (1 - T * T)
    BY <1>1, <2>5
  <2>8. k + l = a1 * a2 /\ 2 * T * (l - k) - j = - (p1 * a2 * a2) - p2 * a1 * a1
    BY <2>2, <2>3 DEF k, l, j
  <2>9. a1 * a2 * (1 + p1 * p2) + (- (p1 * a2 * a2) - p2 * a1 * a1)
          - (1 - p1 * p2) * (1 - p1 * p2) = h1 * c1 + h2 * c2
    BY <1>1, <2>4
  <2> HIDE DEF z, h1, h2
  <2> QED BY <2>1, <2>6, <2>7, <2>8, <2>9 DEF j
<1>3. z * z * Curve(x, y)
        = A * X * X * (1 - T) * (1 - T) + Y * Y * (1 + T) * (1 + T) - z * z
            - D * X * X * Y * Y
  <2> HIDE DEF T
  <2> QED BY <1>1, Coefficients DEF Curve
<1>4. h1 \in Int /\ h2 \in Int
  <2> HIDE DEF p1, p2, a1, a2
  <2> QED BY <1>1
<1>5. Vanishes(X - n) /\ Vanishes(Y - m) BY DEF IsSum
<1>6. Vanishes(c1) /\ Vanishes(c2) OBVIOUS
<1>7. ~Vanishes(1 + T) /\ ~Vanishes(1 - T)
  BY DenominatorPlus, DenominatorMinus
<1> HIDE DEF T, n, m, c1, c2, h1, h2
<1>8. X \in Int /\ Y \in Int /\ z \in Int BY <1>1
<1>9. ~Vanishes(z)
  <2>1. z = (1 + T) * (1 - T) BY <1>1
  <2>2. 1 + T \in Int /\ 1 - T \in Int BY <1>1
  <2>3. ~Vanishes((1 + T) * (1 - T)) BY <1>7, <2>2, ProductIsNotZero
  <2> QED BY <2>1, <2>3
<1> HIDE DEF X, Y, z
<1> DEFINE w == z * z * Curve(x, y)
<1>10. Vanishes(w)
  <2> DEFINE g3 == (X + n) * (A * (1 - T) * (1 - T) - D * Y * Y)
             f3 == X - n
             g4 == (Y + m) * ((1 + T) * (1 + T) - D * n * n)
             f4 == Y - m
  <2>1. h1 \in Int /\ c1 \in Int /\ h2 \in Int /\ c2 \in Int
        /\ g3 \in Int /\ f3 \in Int /\ g4 \in Int /\ f4 \in Int
    BY <1>1, <1>4, <1>8, Coefficients
  <2>2. Vanishes(c1) /\ Vanishes(c2) /\ Vanishes(f3) /\ Vanishes(f4)
    BY <1>5, <1>6
  <2>3. Combine4(h1, c1, h2, c2, g3, f3, g4, f4) = w
    BY <1>1, <1>2, <1>3, <1>4, <1>8, Coefficients DEF Combine4
  <2> HIDE DEF g3, f3, g4, f4
  <2>4. Vanishes(Combine4(h1, c1, h2, c2, g3, f3, g4, f4))
    BY <2>1, <2>2, VanishesSum4, Zenon
  <2> QED BY <2>3, <2>4
<1>11. z * Curve(x, y) \in Int /\ Curve(x, y) \in Int BY <1>8, CurveInt
<1>12. w = z * (z * Curve(x, y)) BY <1>8, <1>11
<1>13. Vanishes(z * Curve(x, y)) BY <1>8, <1>9, <1>10, <1>11, <1>12, NoZeroDivisors
<1> QED BY <1>8, <1>9, <1>11, <1>13, NoZeroDivisors

(* Sums of points are points.                                              *)
LEMMA SumClosed ==
  ASSUME NEW p \in Points, NEW q \in Points
  PROVE  Sum(p, q) \in Points
<1>1. Vanishes(Curve(Sum(p, q)[1], Sum(p, q)[2]))
  BY PointHas, SumHas, SumOnCurve
<1> QED BY <1>1, SumHas, PointIs

(* The order of the operands does not matter.                              *)
LEMMA SumCommutes ==
  ASSUME NEW p \in Points, NEW q \in Points
  PROVE  Sum(p, q) = Sum(q, p)
<1> DEFINE x == Sum(p, q)[1]
           y == Sum(p, q)[2]
<1>1. x \in Fp /\ y \in Fp /\ Sum(p, q) = <<x, y>> BY SumHas
<1>2. IsSum(x, y, p[1], p[2], q[1], q[2]) BY SumHas
<1> HIDE DEF x, y
<1>3. p[1] \in Int /\ p[2] \in Int /\ q[1] \in Int /\ q[2] \in Int BY PointHas
<1>4. /\ Tau(q[1], q[2], p[1], p[2]) = Tau(p[1], p[2], q[1], q[2])
      /\ CrossX(q[1], q[2], p[1], p[2]) = CrossX(p[1], p[2], q[1], q[2])
      /\ CrossY(q[1], q[2], p[1], p[2]) = CrossY(p[1], p[2], q[1], q[2])
  BY <1>3, Coefficients DEF Tau, CrossX, CrossY
<1>5. IsSum(x, y, q[1], q[2], p[1], p[2]) BY <1>2, <1>4 DEF IsSum
<1> QED BY <1>1, <1>5, SumIs

(* What is computed from nothing vanishes.                                 *)
LEMMA ZeroVanishes == Vanishes(0)
<1>1. 0 \in Fp BY Modulus DEF Fp
<1> QED BY <1>1, ElementZero

(* The zero of the group is a point.                                       *)
LEMMA ZeroIsPoint == Zero \in Points
<1>1. 0 \in Fp /\ 1 \in Fp BY Modulus DEF Fp
<1>2. Curve(0, 1) = 0 BY Coefficients DEF Curve
<1> QED BY <1>1, <1>2, PointIs, ZeroVanishes DEF Zero

(* Adding it changes nothing.                                              *)
LEMMA SumZero ==
  ASSUME NEW q \in Points
  PROVE  Sum(Zero, q) = q /\ Sum(q, Zero) = q
<1>1. /\ q = <<q[1], q[2]>> /\ q[1] \in Fp /\ q[2] \in Fp
      /\ q[1] \in Int /\ q[2] \in Int
  BY PointHas
<1>2. Zero[1] = 0 /\ Zero[2] = 1 BY DEF Zero
<1>3. Tau(0, 1, q[1], q[2]) = 0 /\ CrossX(0, 1, q[1], q[2]) = q[1]
      /\ CrossY(0, 1, q[1], q[2]) = q[2]
  BY <1>1, Coefficients DEF Tau, CrossX, CrossY
<1>4. q[1] * (1 + 0) - q[1] = 0 /\ q[2] * (1 - 0) - q[2] = 0 BY <1>1
<1>5. IsSum(q[1], q[2], Zero[1], Zero[2], q[1], q[2])
  BY <1>2, <1>3, <1>4, ZeroVanishes DEF IsSum
<1>6. Sum(Zero, q) = q BY <1>1, <1>5, ZeroIsPoint, SumIs
<1> QED BY <1>6, ZeroIsPoint, SumCommutes

(* The opposite of a point.                                                *)
LEMMA OppositeIs ==
  ASSUME NEW q \in Points
  PROVE  /\ Opposite(q) \in Points /\ Negate(q) = Opposite(q)
         /\ Opposite(q)[2] = q[2]
         /\ Vanishes(Opposite(q)[1] + q[1])
<1> DEFINE x == Red(- q[1])
<1>1. q[1] \in Int /\ q[2] \in Int /\ q[2] \in Fp /\ - q[1] \in Int
      /\ Vanishes(Curve(q[1], q[2]))
  BY PointHas
<1>2. x \in Fp /\ x \in Int /\ Vanishes(x - (- q[1]))
  BY <1>1, RedRemainder, RedVanishes
<1>3. Opposite(q) = <<x, q[2]>> /\ Negate(q) = <<x, q[2]>>
  BY DEF Opposite, Negate
<1> HIDE DEF x
<1>4. x - (- q[1]) = x + q[1] BY <1>1, <1>2
<1> DEFINE a == q[1]
           b == q[2]
           c == Curve(a, b)
<1>5. a \in Int /\ b \in Int /\ c \in Int /\ Vanishes(c) /\ Vanishes(x + a)
  BY <1>1, <1>2, <1>4, CurveInt
<1>6. c = Curve(a, b) OBVIOUS
<1> HIDE DEF a, b, c
<1>7. Vanishes(Curve(x, b))
  <2> DEFINE g2 == (x - a) * (A - D * b * b)
             f2 == x + a
  <2>1. 1 \in Int /\ c \in Int /\ g2 \in Int /\ f2 \in Int
    BY <1>2, <1>5, Coefficients
  <2>2. Vanishes(c) /\ Vanishes(f2)
    BY <1>5
  <2>3. Combine(1, c, g2, f2) = Curve(x, b)
    BY <1>2, <1>5, <1>6, Coefficients DEF Combine, Curve
  <2> HIDE DEF g2, f2
  <2>4. Vanishes(Combine(1, c, g2, f2))
    BY <2>1, <2>2, VanishesSum, Zenon
  <2> QED BY <2>3, <2>4
<1>8. <<x, q[2]>> \in Points BY <1>1, <1>2, <1>7, PointIs DEF b
<1> QED BY <1>2, <1>3, <1>4, <1>8

(* Together with it a point gives the zero of the group.                   *)
LEMMA OppositeSum ==
  ASSUME NEW q \in Points
  PROVE  Sum(q, Opposite(q)) = Zero
<1> DEFINE a == q[1]
           b == q[2]
           x == Opposite(q)[1]
           c == Curve(a, b)
<1>1. a \in Int /\ b \in Int /\ Vanishes(c) BY PointHas
<1>2. Opposite(q) \in Points /\ Opposite(q)[2] = b /\ Vanishes(x + a)
  BY OppositeIs
<1>3. x \in Int BY <1>2, PointHas
<1>4. c \in Int BY <1>1, CurveInt
<1>5. c = Curve(a, b) OBVIOUS
<1>6. 0 \in Fp /\ 1 \in Fp BY Modulus DEF Fp
<1> HIDE DEF a, b, x, c
<1>7. Vanishes(0 * (1 + Tau(a, b, x, b)) - CrossX(a, b, x, b))
  <2> DEFINE g1 == - b
             f1 == x + a
  <2>1. g1 \in Int /\ f1 \in Int /\ 0 \in Int /\ c \in Int
    BY <1>1, <1>3, <1>4
  <2>2. Vanishes(f1) /\ Vanishes(c)
    BY <1>1, <1>2
  <2>3. Combine(g1, f1, 0, c) = 0 * (1 + Tau(a, b, x, b)) - CrossX(a, b, x, b)
    BY <1>1, <1>3, <1>4, Coefficients DEF Combine, Tau, CrossX
  <2> HIDE DEF g1, f1
  <2>4. Vanishes(Combine(g1, f1, 0, c))
    BY <2>1, <2>2, VanishesSum, Zenon
  <2> QED BY <2>3, <2>4
<1>8. Vanishes(1 * (1 - Tau(a, b, x, b)) - CrossY(a, b, x, b))
  <2> DEFINE g1 == A * a - D * a * b * b
             f1 == x + a
  <2>1. g1 \in Int /\ f1 \in Int /\ -1 \in Int /\ c \in Int
    BY <1>1, <1>3, <1>4, Coefficients
  <2>2. Vanishes(f1) /\ Vanishes(c)
    BY <1>1, <1>2
  <2>3. Combine(g1, f1, -1, c) = 1 * (1 - Tau(a, b, x, b)) - CrossY(a, b, x, b)
    BY <1>1, <1>3, <1>4, <1>5, Coefficients DEF Combine, Tau, CrossY, Curve
  <2> HIDE DEF g1, f1
  <2>4. Vanishes(Combine(g1, f1, -1, c))
    BY <2>1, <2>2, VanishesSum, Zenon
  <2> QED BY <2>3, <2>4
<1>9. IsSum(0, 1, q[1], q[2], Opposite(q)[1], Opposite(q)[2])
  BY <1>2, <1>7, <1>8 DEF IsSum, a, b, x
<1> QED BY <1>2, <1>6, <1>9, SumIs DEF Zero

-----------------------------------------------------------------------------
(* The formulae of the gadgets.                                            *)

(* Addition of AffineVar has one result, the sum.                          *)
LEMMA AddIs ==
  ASSUME NEW p \in Points, NEW q \in Points
  PROVE  Add(p, q) = {Sum(p, q)}
<1> DEFINE x1 == p[1]
           y1 == p[2]
           x2 == q[1]
           y2 == q[2]
           u0 == (y1 - A * x1) * (x2 + y2)
           k0 == y2 * x1
           k1 == x2 * y1
           u  == Red(u0)
           v0 == Red(k0)
           v1 == Red(k1)
           k2 == v0 * v1 * D
           v2 == Red(k2)
           T == Tau(x1, y1, x2, y2)
           z == Sum(p, q)[1]
           w == Sum(p, q)[2]
<1>1. /\ x1 \in Int /\ y1 \in Int /\ x2 \in Int /\ y2 \in Int
      /\ Vanishes(Curve(x1, y1)) /\ Vanishes(Curve(x2, y2))
  BY PointHas
<1>2. T \in Int /\ CrossX(x1, y1, x2, y2) \in Int /\ CrossY(x1, y1, x2, y2) \in Int
  BY <1>1, TauInt, CrossInt
<1>3. ~Vanishes(1 + T) /\ ~Vanishes(1 - T)
  BY <1>1, DenominatorPlus, DenominatorMinus
<1>4. u0 \in Int /\ k0 \in Int /\ k1 \in Int BY <1>1, Coefficients
<1>5. Sum(p, q) = <<z, w>> /\ z \in Fp /\ w \in Fp /\ z \in Int /\ w \in Int
      /\ IsSum(z, w, x1, y1, x2, y2)
  BY SumHas
<1>6. Add(p, q)
        = Quotients(v0 + v1, v2 + 1) \X Quotients(Numerator(u, v0, v1), 1 - v2)
  BY DEF Add
<1> HIDE DEF x1, y1, x2, y2, z, w
<1>7. /\ u \in Int /\ Vanishes(u - u0)
      /\ v0 \in Int /\ Vanishes(v0 - k0)
      /\ v1 \in Int /\ Vanishes(v1 - k1)
  <2> HIDE DEF u0, k0, k1
  <2> QED BY <1>4, RedRemainder, RedVanishes
<1> HIDE DEF u, v0, v1
<1>8. k2 \in Int BY <1>7, Coefficients
<1>9. v2 \in Int /\ Vanishes(v2 - k2)
  <2> HIDE DEF k2
  <2> QED BY <1>8, RedRemainder, RedVanishes
<1> HIDE DEF v2
<1>10. Vanishes(v2 - T)
  <2> DEFINE f1 == v2 - k2
             g2 == D * v1
             f2 == v0 - k0
             g3 == D * x1 * y2
             f3 == v1 - k1
  <2>1. 1 \in Int /\ f1 \in Int /\ g2 \in Int /\ f2 \in Int
        /\ g3 \in Int /\ f3 \in Int
    BY <1>1, <1>4, <1>7, <1>8, <1>9, Coefficients
  <2>2. Vanishes(f1) /\ Vanishes(f2) /\ Vanishes(f3)
    BY <1>7, <1>9
  <2>3. Combine3(1, f1, g2, f2, g3, f3) = v2 - T
    BY <1>1, <1>7, <1>9, Coefficients DEF Combine3, Tau
  <2> HIDE DEF f1, g2, f2, g3, f3
  <2>4. Vanishes(Combine3(1, f1, g2, f2, g3, f3))
    BY <2>1, <2>2, VanishesSum3, Zenon
  <2> QED BY <2>3, <2>4
<1>11. Vanishes((v0 + v1) - CrossX(x1, y1, x2, y2))
  <2> DEFINE f1 == v0 - k0
             f2 == v1 - k1
  <2>1. 1 \in Int /\ f1 \in Int /\ f2 \in Int
    BY <1>1, <1>4, <1>7
  <2>2. Vanishes(f1) /\ Vanishes(f2)
    BY <1>7
  <2>3. Combine(1, f1, 1, f2) = (v0 + v1) - CrossX(x1, y1, x2, y2)
    BY <1>1, <1>4, <1>7 DEF Combine, CrossX
  <2> HIDE DEF f1, f2
  <2>4. Vanishes(Combine(1, f1, 1, f2))
    BY <2>1, <2>2, VanishesSum, Zenon
  <2> QED BY <2>3, <2>4
<1>12. Vanishes(Numerator(u, v0, v1) - CrossY(x1, y1, x2, y2))
  <2> DEFINE f1 == u - u0
             f2 == v0 - k0
             f3 == v1 - k1
  <2>1. 1 \in Int /\ f1 \in Int /\ A \in Int /\ f2 \in Int
        /\ -1 \in Int /\ f3 \in Int
    BY <1>1, <1>4, <1>7, Coefficients
  <2>2. Vanishes(f1) /\ Vanishes(f2) /\ Vanishes(f3)
    BY <1>7
  <2>3. Combine3(1, f1, A, f2, -1, f3) = Numerator(u, v0, v1) - CrossY(x1, y1, x2, y2)
    BY <1>1, <1>4, <1>7, Coefficients DEF Combine3, CrossY, Numerator
  <2> HIDE DEF f1, f2, f3
  <2>4. Vanishes(Combine3(1, f1, A, f2, -1, f3))
    BY <2>1, <2>2, VanishesSum3, Zenon
  <2> QED BY <2>3, <2>4
<1> HIDE DEF u0, k0, k1, k2, T
<1>13. Quotients(v0 + v1, v2 + 1) = {z}
  <2> DEFINE n == v0 + v1
             d == v2 + 1
             m == CrossX(x1, y1, x2, y2)
             e == 1 + T
  <2>1. n \in Int /\ d \in Int /\ m \in Int /\ e \in Int BY <1>2, <1>7, <1>9
  <2>2. d - e = v2 - T BY <1>2, <1>9
  <2>3. ~Vanishes(e) /\ Vanishes(d - e) /\ Vanishes(n - m) /\ Vanishes(z * e - m)
    BY <1>3, <1>5, <1>10, <1>11, <2>2 DEF IsSum, T
  <2> HIDE DEF n, d, m, e
  <2>4. z \in Fp BY <1>5
  <2>5. Quotients(n, d) = {z} /\ Red(n * Inverse0(d)) = z
    BY <2>1, <2>3, <2>4, QuotientSame, Zenon
  <2> QED BY <2>5 DEF n, d
<1>14. Quotients(Numerator(u, v0, v1), 1 - v2) = {w}
  <2> DEFINE n == Numerator(u, v0, v1)
             d == 1 - v2
             m == CrossY(x1, y1, x2, y2)
             e == 1 - T
  <2>1. n \in Int /\ d \in Int /\ m \in Int /\ e \in Int
    BY <1>2, <1>7, <1>9, Coefficients DEF Numerator
  <2>2. Vanishes(d - e)
    <3> DEFINE f1 == v2 - T
               f2 == v2 - T
    <3>1. -1 \in Int /\ f1 \in Int /\ 0 \in Int /\ f2 \in Int
      BY <1>2, <1>9
    <3>2. Vanishes(f1) /\ Vanishes(f2)
      BY <1>10
    <3>3. Combine(-1, f1, 0, f2) = d - e
      BY <1>2, <1>9 DEF Combine
    <3> HIDE DEF f1, f2
    <3>4. Vanishes(Combine(-1, f1, 0, f2))
      BY <3>1, <3>2, VanishesSum, Zenon
    <3> QED BY <3>3, <3>4
  <2>3. ~Vanishes(e) /\ Vanishes(n - m) /\ Vanishes(w * e - m)
    BY <1>3, <1>5, <1>12 DEF IsSum, T
  <2> HIDE DEF n, d, m, e
  <2>4. w \in Fp BY <1>5
  <2>5. Quotients(n, d) = {w} /\ Red(n * Inverse0(d)) = w
    BY <2>1, <2>2, <2>3, <2>4, QuotientSame, Zenon
  <2> QED BY <2>5 DEF n, d
<1>15. {z} \X {w} = {<<z, w>>} OBVIOUS
<1> QED BY <1>5, <1>6, <1>13, <1>14, <1>15

(* So has subtraction.                                                     *)
LEMMA SubIs ==
  ASSUME NEW p \in Points, NEW q \in Points
  PROVE  Sub(p, q) = {Sum(p, Opposite(q))}
BY OppositeIs, AddIs DEF Sub

(* And doubling, whose denominators the equation of the curve simplified.  *)
LEMMA DoubleIs ==
  ASSUME NEW p \in Points
  PROVE  Double(p) = {Sum(p, p)}
<1> DEFINE x == p[1]
           y == p[2]
           kxy == x * y
           kx == A * x * x
           ky == y * y
           xy == Red(kxy)
           ax2 == Red(kx)
           y2 == Red(ky)
           T == Tau(x, y, x, y)
           z == Sum(p, p)[1]
           w == Sum(p, p)[2]
           c == Curve(x, y)
<1>1. x \in Int /\ y \in Int /\ Vanishes(c) BY PointHas
<1>2. /\ T \in Int /\ c \in Int
      /\ CrossX(x, y, x, y) \in Int /\ CrossY(x, y, x, y) \in Int
  BY <1>1, TauInt, CrossInt, CurveInt
<1>3. ~Vanishes(1 + T) /\ ~Vanishes(1 - T)
  BY <1>1, DenominatorPlus, DenominatorMinus
<1>4. kxy \in Int /\ kx \in Int /\ ky \in Int BY <1>1, Coefficients
<1>5. Sum(p, p) = <<z, w>> /\ z \in Fp /\ w \in Fp /\ z \in Int /\ w \in Int
      /\ IsSum(z, w, x, y, x, y)
  BY SumHas
<1>6. Double(p)
        = Quotients(2 * xy, ax2 + y2) \X Quotients(y2 - ax2, Complement(ax2 + y2))
  BY DEF Double
<1> HIDE DEF x, y, z, w
<1>7. /\ xy \in Int /\ Vanishes(xy - kxy)
      /\ ax2 \in Int /\ Vanishes(ax2 - kx)
      /\ y2 \in Int /\ Vanishes(y2 - ky)
  <2> HIDE DEF kxy, kx, ky
  <2> QED BY <1>4, RedRemainder, RedVanishes
<1> HIDE DEF xy, ax2, y2
<1>8. T = D * x * x * y * y /\ c = kx + ky - 1 - D * x * x * y * y
  BY <1>1, Coefficients DEF Tau, Curve
<1>9. CrossX(x, y, x, y) = 2 * kxy /\ CrossY(x, y, x, y) = ky - kx
  BY <1>1, Coefficients DEF CrossX, CrossY
<1>10. c = kx + ky - 1 - T BY <1>8
<1> HIDE DEF kxy, kx, ky, T, c
<1>11. Quotients(2 * xy, ax2 + y2) = {z}
  <2> DEFINE n == 2 * xy
             d == ax2 + y2
             m == CrossX(x, y, x, y)
             e == 1 + T
  <2>1. n \in Int /\ d \in Int /\ m \in Int /\ e \in Int BY <1>2, <1>7
  <2>2. Vanishes(d - e)
    <3> DEFINE f2 == ax2 - kx
               f3 == y2 - ky
    <3>1. 1 \in Int /\ c \in Int /\ f2 \in Int /\ f3 \in Int
      BY <1>2, <1>4, <1>7
    <3>2. Vanishes(c) /\ Vanishes(f2) /\ Vanishes(f3)
      BY <1>1, <1>7
    <3>3. Combine3(1, c, 1, f2, 1, f3) = d - e
      BY <1>2, <1>4, <1>7, <1>10 DEF Combine3
    <3> HIDE DEF f2, f3
    <3>4. Vanishes(Combine3(1, c, 1, f2, 1, f3))
      BY <3>1, <3>2, VanishesSum3, Zenon
    <3> QED BY <3>3, <3>4
  <2>3. Vanishes(n - m)
    <3> DEFINE f1 == xy - kxy
    <3>1. 2 \in Int /\ f1 \in Int /\ 0 \in Int /\ c \in Int
      BY <1>2, <1>4, <1>7
    <3>2. Vanishes(f1) /\ Vanishes(c)
      BY <1>1, <1>7
    <3>3. Combine(2, f1, 0, c) = n - m
      BY <1>2, <1>4, <1>7, <1>9 DEF Combine
    <3> HIDE DEF f1
    <3>4. Vanishes(Combine(2, f1, 0, c))
      BY <3>1, <3>2, VanishesSum, Zenon
    <3> QED BY <3>3, <3>4
  <2>4. ~Vanishes(e) /\ Vanishes(z * e - m)
    BY <1>3, <1>5 DEF IsSum, T
  <2> HIDE DEF n, d, m, e
  <2>5. z \in Fp BY <1>5
  <2>6. Quotients(n, d) = {z} /\ Red(n * Inverse0(d)) = z
    BY <2>1, <2>2, <2>3, <2>4, <2>5, QuotientSame, Zenon
  <2> QED BY <2>6 DEF n, d
<1>12. Quotients(y2 - ax2, Complement(ax2 + y2)) = {w}
  <2> DEFINE n == y2 - ax2
             d == Complement(ax2 + y2)
             m == CrossY(x, y, x, y)
             e == 1 - T
  <2>1. n \in Int /\ d \in Int /\ m \in Int /\ e \in Int
    BY <1>2, <1>7 DEF Complement
  <2>2. Vanishes(d - e)
    <3> DEFINE f2 == ax2 - kx
               f3 == y2 - ky
    <3>1. -1 \in Int /\ c \in Int /\ f2 \in Int /\ f3 \in Int
      BY <1>2, <1>4, <1>7
    <3>2. Vanishes(c) /\ Vanishes(f2) /\ Vanishes(f3)
      BY <1>1, <1>7
    <3>3. Combine3(-1, c, -1, f2, -1, f3) = d - e
      BY <1>2, <1>4, <1>7, <1>10 DEF Combine3, Complement
    <3> HIDE DEF f2, f3
    <3>4. Vanishes(Combine3(-1, c, -1, f2, -1, f3))
      BY <3>1, <3>2, VanishesSum3, Zenon
    <3> QED BY <3>3, <3>4
  <2>3. Vanishes(n - m)
    <3> DEFINE f1 == y2 - ky
               f2 == ax2 - kx
    <3>1. 1 \in Int /\ f1 \in Int /\ -1 \in Int /\ f2 \in Int
      BY <1>2, <1>4, <1>7
    <3>2. Vanishes(f1) /\ Vanishes(f2)
      BY <1>1, <1>7
    <3>3. Combine(1, f1, -1, f2) = n - m
      BY <1>2, <1>4, <1>7, <1>9 DEF Combine
    <3> HIDE DEF f1, f2
    <3>4. Vanishes(Combine(1, f1, -1, f2))
      BY <3>1, <3>2, VanishesSum, Zenon
    <3> QED BY <3>3, <3>4
  <2>4. ~Vanishes(e) /\ Vanishes(w * e - m)
    BY <1>3, <1>5 DEF IsSum, T
  <2> HIDE DEF n, d, m, e
  <2>5. w \in Fp BY <1>5
  <2>6. Quotients(n, d) = {w} /\ Red(n * Inverse0(d)) = w
    BY <2>1, <2>2, <2>3, <2>4, <2>5, QuotientSame, Zenon
  <2> QED BY <2>6 DEF n, d
<1>13. {z} \X {w} = {<<z, w>>} OBVIOUS
<1> QED BY <1>5, <1>6, <1>11, <1>12, <1>13

(* The equation enforced on allocated coordinates is that of the curve.    *)
LEMMA CheckIsCurve ==
  ASSUME NEW x \in Fp, NEW y \in Fp
  PROVE  OnCurveCheck(<<x, y>>) <=> <<x, y>> \in Points
<1> DEFINE kx == x * x
           ky == y * y
           x2 == Red(kx)
           y2 == Red(ky)
           v == (x2 * D - 1) * y2 - RightSide(x2)
           c == Curve(x, y)
           gx == D * y2 - A
           gy == D * x * x - 1
<1>1. x \in Int /\ y \in Int BY ElementRed
<1>2. kx \in Int /\ ky \in Int /\ c \in Int BY <1>1, CurveInt
<1>3. x2 \in Int /\ Vanishes(x2 - kx) /\ y2 \in Int /\ Vanishes(y2 - ky)
  <2> HIDE DEF kx, ky
  <2> QED BY <1>2, RedRemainder, RedVanishes
<1>4. OnCurveCheck(<<x, y>>) <=> Vanishes(v) BY DEF OnCurveCheck, Vanishes
<1> HIDE DEF x2, y2
<1>5. v \in Int /\ gx \in Int /\ gy \in Int /\ - gx \in Int /\ - gy \in Int
  BY <1>1, <1>3, Coefficients DEF RightSide
<1>6. v = - c + gx * (x2 - kx) + gy * (y2 - ky)
  BY <1>1, <1>3, Coefficients DEF Curve, RightSide
<1> HIDE DEF v, c, gx, gy, kx, ky
<1>7. ASSUME Vanishes(c) PROVE Vanishes(v)
  <2>1. Vanishes(v)
    <3> DEFINE f2 == x2 - kx
               f3 == y2 - ky
    <3>1. -1 \in Int /\ c \in Int /\ gx \in Int /\ f2 \in Int
          /\ gy \in Int /\ f3 \in Int
      BY <1>2, <1>3, <1>5
    <3>2. Vanishes(c) /\ Vanishes(f2) /\ Vanishes(f3)
      BY <1>3, <1>7
    <3>3. Combine3(-1, c, gx, f2, gy, f3) = v
      BY <1>2, <1>3, <1>5, <1>6 DEF Combine3
    <3> HIDE DEF f2, f3
    <3>4. Vanishes(Combine3(-1, c, gx, f2, gy, f3))
      BY <3>1, <3>2, VanishesSum3, Zenon
    <3> QED BY <3>3, <3>4
  <2> QED BY <2>1
<1>8. ASSUME Vanishes(v) PROVE Vanishes(c)
  <2>1. Vanishes(c)
    <3> DEFINE f2 == x2 - kx
               f3 == y2 - ky
    <3>1. -1 \in Int /\ v \in Int /\ gx \in Int /\ f2 \in Int
          /\ gy \in Int /\ f3 \in Int
      BY <1>2, <1>3, <1>5
    <3>2. Vanishes(v) /\ Vanishes(f2) /\ Vanishes(f3)
      BY <1>3, <1>8
    <3>3. Combine3(-1, v, gx, f2, gy, f3) = c
      BY <1>2, <1>3, <1>5, <1>6 DEF Combine3
    <3> HIDE DEF f2, f3
    <3>4. Vanishes(Combine3(-1, v, gx, f2, gy, f3))
      BY <3>1, <3>2, VanishesSum3, Zenon
    <3> QED BY <3>3, <3>4
  <2> QED BY <2>1
<1> QED BY <1>4, <1>7, <1>8, PointIs DEF c

-----------------------------------------------------------------------------
(* The law is associative.                                                 *)

(* A denominator is replaced by one over the coordinates of two points     *)
(* when a coordinate of a sum is added to a third.                         *)
Cleared(x, y, n, m, t, k, a, b, w) ==
  /\ Vanishes(x * (1 + t) - n) /\ Vanishes(y * (1 - t) - m)
  /\ ~Vanishes(1 + t) /\ ~Vanishes(1 - t)
  /\ Vanishes(w * (1 + k * x * y) - (a * x + b * y))
  /\ ~Vanishes(1 + k * x * y)
  => /\ ~Vanishes(1 - t * t + k * n * m)
     /\ Vanishes(w * (1 - t * t + k * n * m)
                   - (a * n * (1 - t) + b * m * (1 + t)))

(* Clearing denominators keeps what vanishes.                              *)
LEMMA Clear ==
  ASSUME NEW x \in Int, NEW y \in Int, NEW n \in Int, NEW m \in Int,
         NEW t \in Int, NEW k \in Int, NEW a \in Int, NEW b \in Int, NEW w \in Int
  PROVE  Cleared(x, y, n, m, t, k, a, b, w)
<1> SUFFICES ASSUME Vanishes(x * (1 + t) - n), Vanishes(y * (1 - t) - m),
                    ~Vanishes(1 + t), ~Vanishes(1 - t),
                    Vanishes(w * (1 + k * x * y) - (a * x + b * y)),
                    ~Vanishes(1 + k * x * y)
             PROVE  /\ ~Vanishes(1 - t * t + k * n * m)
                    /\ Vanishes(w * (1 - t * t + k * n * m)
                                  - (a * n * (1 - t) + b * m * (1 + t)))
  BY DEF Cleared
<1> DEFINE z == 1 - t * t
           e1 == x * (1 + t) - n
           e2 == y * (1 - t) - m
           e3 == w * (1 + k * x * y) - (a * x + b * y)
           v == y * (1 - t)
           l == z + k * n * m
           f == 1 + k * x * y
<1>1. /\ z \in Int /\ e1 \in Int /\ e2 \in Int /\ e3 \in Int /\ v \in Int
      /\ l \in Int /\ f \in Int
  OBVIOUS
<1>2. z * f = l + k * v * e1 + k * n * e2 OBVIOUS
<1>3. w * l - (a * n * (1 - t) + b * m * (1 + t))
        = z * e3 + (a * (1 - t) - w * k * v) * e1 + (b * (1 + t) - w * k * n) * e2
  OBVIOUS
<1>4. Vanishes(e1) /\ Vanishes(e2) /\ Vanishes(e3) /\ ~Vanishes(f) OBVIOUS
<1>5. ~Vanishes(z)
  <2>1. z = (1 + t) * (1 - t) OBVIOUS
  <2>2. 1 + t \in Int /\ 1 - t \in Int OBVIOUS
  <2>3. ~Vanishes((1 + t) * (1 - t)) BY <2>2, ProductIsNotZero
  <2> QED BY <2>1, <2>3
<1> HIDE DEF z, e1, e2, e3, v, l, f
<1>6. ~Vanishes(l)
  <2> SUFFICES ASSUME Vanishes(l) PROVE FALSE OBVIOUS
  <2>1. Vanishes(z * f)
    <3> DEFINE g2 == k * v
               g3 == k * n
    <3>1. 1 \in Int /\ l \in Int /\ g2 \in Int /\ e1 \in Int
          /\ g3 \in Int /\ e2 \in Int
      BY <1>1
    <3>2. Vanishes(l) /\ Vanishes(e1) /\ Vanishes(e2)
      BY <1>4
    <3>3. Combine3(1, l, g2, e1, g3, e2) = z * f
      BY <1>1, <1>2 DEF Combine3
    <3> HIDE DEF g2, g3
    <3>4. Vanishes(Combine3(1, l, g2, e1, g3, e2))
      BY <3>1, <3>2, VanishesSum3, Zenon
    <3> QED BY <3>3, <3>4
  <2> QED BY <1>1, <1>4, <1>5, <2>1, NoZeroDivisors
<1>7. Vanishes(w * l - (a * n * (1 - t) + b * m * (1 + t)))
  <2> DEFINE g2 == a * (1 - t) - w * k * v
             g3 == b * (1 + t) - w * k * n
  <2>1. z \in Int /\ e3 \in Int /\ g2 \in Int /\ e1 \in Int
        /\ g3 \in Int /\ e2 \in Int
    BY <1>1
  <2>2. Vanishes(e3) /\ Vanishes(e1) /\ Vanishes(e2)
    BY <1>4
  <2>3. Combine3(z, e3, g2, e1, g3, e2) = w * l - (a * n * (1 - t) + b * m * (1 + t))
    BY <1>1, <1>3 DEF Combine3
  <2> HIDE DEF g2, g3
  <2>4. Vanishes(Combine3(z, e3, g2, e1, g3, e2))
    BY <2>1, <2>2, VanishesSum3, Zenon
  <2> QED BY <2>3, <2>4
<1> QED BY <1>6, <1>7 DEF l, z

(* The coordinates of a sum of three points, without their denominators,   *)
TripleX(x1, y1, x2, y2, x3, y3) ==
  y3 * CrossX(x1, y1, x2, y2) * (1 - Tau(x1, y1, x2, y2))
    + x3 * CrossY(x1, y1, x2, y2) * (1 + Tau(x1, y1, x2, y2))

TripleY(x1, y1, x2, y2, x3, y3) ==
  (- (A * x3)) * CrossX(x1, y1, x2, y2) * (1 - Tau(x1, y1, x2, y2))
    + y3 * CrossY(x1, y1, x2, y2) * (1 + Tau(x1, y1, x2, y2))

(* and the denominators.                                                   *)
UnderX(x1, y1, x2, y2, x3, y3) ==
  1 - Tau(x1, y1, x2, y2) * Tau(x1, y1, x2, y2)
    + (D * x3 * y3) * CrossX(x1, y1, x2, y2) * CrossY(x1, y1, x2, y2)

UnderY(x1, y1, x2, y2, x3, y3) ==
  1 - Tau(x1, y1, x2, y2) * Tau(x1, y1, x2, y2)
    + (- (D * x3 * y3)) * CrossX(x1, y1, x2, y2) * CrossY(x1, y1, x2, y2)

(* They are so when the sum of two points is added to the third.           *)
LEMMA TripleSum ==
  ASSUME NEW p \in Points, NEW q \in Points, NEW r \in Points
  PROVE  LET w == Sum(Sum(p, q), r)
             lx == UnderX(p[1], p[2], q[1], q[2], r[1], r[2])
             ly == UnderY(p[1], p[2], q[1], q[2], r[1], r[2])
         IN /\ ~Vanishes(lx) /\ ~Vanishes(ly)
            /\ Vanishes(w[1] * lx - TripleX(p[1], p[2], q[1], q[2], r[1], r[2]))
            /\ Vanishes(w[2] * ly - TripleY(p[1], p[2], q[1], q[2], r[1], r[2]))
<1> DEFINE x1 == p[1]
           y1 == p[2]
           x2 == q[1]
           y2 == q[2]
           x3 == r[1]
           y3 == r[2]
           x == Sum(p, q)[1]
           y == Sum(p, q)[2]
           u == Sum(Sum(p, q), r)[1]
           v == Sum(Sum(p, q), r)[2]
           t == Tau(x1, y1, x2, y2)
           n == CrossX(x1, y1, x2, y2)
           m == CrossY(x1, y1, x2, y2)
<1>1. Sum(p, q) \in Points BY SumClosed
<1>2. /\ x1 \in Int /\ y1 \in Int /\ x2 \in Int /\ y2 \in Int
      /\ x3 \in Int /\ y3 \in Int /\ x \in Int /\ y \in Int
      /\ Vanishes(Curve(x1, y1)) /\ Vanishes(Curve(x2, y2))
      /\ Vanishes(Curve(x3, y3)) /\ Vanishes(Curve(x, y))
  BY <1>1, PointHas
<1>3. IsSum(x, y, x1, y1, x2, y2) BY SumHas
<1>4. IsSum(u, v, x, y, x3, y3) /\ u \in Int /\ v \in Int BY <1>1, SumHas
<1> HIDE DEF x1, y1, x2, y2, x3, y3, x, y, u, v
<1>5. t \in Int /\ n \in Int /\ m \in Int BY <1>2, TauInt, CrossInt
<1>6. ~Vanishes(1 + t) /\ ~Vanishes(1 - t)
  BY <1>2, DenominatorPlus, DenominatorMinus
<1>7. Vanishes(x * (1 + t) - n) /\ Vanishes(y * (1 - t) - m)
  BY <1>3 DEF IsSum
<1>8. ~Vanishes(1 + Tau(x, y, x3, y3)) /\ ~Vanishes(1 - Tau(x, y, x3, y3))
  BY <1>2, DenominatorPlus, DenominatorMinus
<1> DEFINE k == D * x3 * y3
           kn == - (D * x3 * y3)
           an == - (A * x3)
<1>9. k \in Int /\ kn \in Int /\ an \in Int BY <1>2, Coefficients
<1>10. /\ 1 + Tau(x, y, x3, y3) = 1 + k * x * y
       /\ 1 - Tau(x, y, x3, y3) = 1 + kn * x * y
       /\ CrossX(x, y, x3, y3) = y3 * x + x3 * y
       /\ CrossY(x, y, x3, y3) = an * x + y3 * y
  BY <1>2, Coefficients DEF Tau, CrossX, CrossY
<1> HIDE DEF t, n, m, k, kn, an
<1>11. /\ ~Vanishes(1 - t * t + k * n * m)
       /\ Vanishes(u * (1 - t * t + k * n * m)
                     - (y3 * n * (1 - t) + x3 * m * (1 + t)))
  <2>1. /\ Vanishes(u * (1 + k * x * y) - (y3 * x + x3 * y))
        /\ ~Vanishes(1 + k * x * y)
    BY <1>4, <1>8, <1>10 DEF IsSum
  <2>2. /\ x \in Int /\ y \in Int /\ n \in Int /\ m \in Int /\ t \in Int
        /\ k \in Int /\ y3 \in Int /\ x3 \in Int /\ u \in Int
    BY <1>2, <1>4, <1>5, <1>9
  <2>3. Cleared(x, y, n, m, t, k, y3, x3, u) BY <2>2, Clear, Zenon
  <2> QED BY <1>6, <1>7, <2>1, <2>3 DEF Cleared
<1>12. /\ ~Vanishes(1 - t * t + kn * n * m)
       /\ Vanishes(v * (1 - t * t + kn * n * m)
                     - (an * n * (1 - t) + y3 * m * (1 + t)))
  <2>1. /\ Vanishes(v * (1 + kn * x * y) - (an * x + y3 * y))
        /\ ~Vanishes(1 + kn * x * y)
    BY <1>4, <1>8, <1>10 DEF IsSum
  <2>2. /\ x \in Int /\ y \in Int /\ n \in Int /\ m \in Int /\ t \in Int
        /\ kn \in Int /\ an \in Int /\ y3 \in Int /\ v \in Int
    BY <1>2, <1>4, <1>5, <1>9
  <2>3. Cleared(x, y, n, m, t, kn, an, y3, v) BY <2>2, Clear, Zenon
  <2> QED BY <1>6, <1>7, <2>1, <2>3 DEF Cleared
<1>13. /\ UnderX(x1, y1, x2, y2, x3, y3) = 1 - t * t + k * n * m
       /\ TripleX(x1, y1, x2, y2, x3, y3) = y3 * n * (1 - t) + x3 * m * (1 + t)
       /\ UnderY(x1, y1, x2, y2, x3, y3) = 1 - t * t + kn * n * m
       /\ TripleY(x1, y1, x2, y2, x3, y3) = an * n * (1 - t) + y3 * m * (1 + t)
  BY DEF UnderX, UnderY, TripleX, TripleY, t, n, m, k, kn, an
<1> QED BY <1>11, <1>12, <1>13 DEF x1, y1, x2, y2, x3, y3, u, v

(* Adding the first point to the sum of the others gives the same          *)
(* fractions.  The products of the coordinates, w, and the sums and        *)
(* differences of their squares, a and b, determine the cross products,    *)
(* whose difference is a combination of the equations of the three points. *)
Crossed(s, r, t1, t3, w1, w2, w3, a1, a2, a3, b1, b2, b3) ==
  /\ Vanishes(a1 - 1 - D * w1 * w1)
  /\ Vanishes(a2 - 1 - D * w2 * w2)
  /\ Vanishes(a3 - 1 - D * w3 * w3)
  /\ a3 * t3 + s * b3 = w3 * r /\ a1 * t1 + s * b1 = w1 * r
  /\ t3 * (w3 * b2 + w2 * b3) + w3 * t1 * a2 = - (a3 * w2 * s)
  /\ t1 * (w1 * b2 + w2 * b1) + w1 * t3 * a2 = - (a1 * w2 * s)
  => Vanishes((s + D * w1 * w2 * t3)
                  * (1 - (D * w2 * w3) * (D * w2 * w3) + D * w1 * (w3 * b2 + w2 * b3))
                - (s + D * w2 * w3 * t1)
                    * (1 - (D * w1 * w2) * (D * w1 * w2) + D * w3 * (w1 * b2 + w2 * b1)))

(* The products with three coordinates agree crosswise.                    *)
LEMMA CrossedHolds ==
  ASSUME NEW s \in Int, NEW r \in Int, NEW t1 \in Int, NEW t3 \in Int,
         NEW w1 \in Int, NEW w2 \in Int, NEW w3 \in Int,
         NEW a1 \in Int, NEW a2 \in Int, NEW a3 \in Int,
         NEW b1 \in Int, NEW b2 \in Int, NEW b3 \in Int
  PROVE  Crossed(s, r, t1, t3, w1, w2, w3, a1, a2, a3, b1, b2, b3)
<1> DEFINE c1 == a1 - 1 - D * w1 * w1
           c2 == a2 - 1 - D * w2 * w2
           c3 == a3 - 1 - D * w3 * w3
           h1 == w1 * b2 + w2 * b1
           h3 == w3 * b2 + w2 * b3
           ld == 1 - (D * w1 * w2) * (D * w1 * w2) + D * w3 * h1
           rd == 1 - (D * w2 * w3) * (D * w2 * w3) + D * w1 * h3
           l == (s + D * w1 * w2 * t3) * rd - (s + D * w2 * w3 * t1) * ld
           p1 == D * w1 * w1
           p2 == D * w2 * w2
           p3 == D * w3 * w3
<1> SUFFICES ASSUME Vanishes(c1), Vanishes(c2), Vanishes(c3),
                    a3 * t3 + s * b3 = w3 * r, a1 * t1 + s * b1 = w1 * r,
                    t3 * h3 + w3 * t1 * a2 = - (a3 * w2 * s),
                    t1 * h1 + w1 * t3 * a2 = - (a1 * w2 * s)
             PROVE  Vanishes(l)
  BY DEF Crossed
<1>1. /\ c1 \in Int /\ c2 \in Int /\ c3 \in Int /\ h1 \in Int /\ h3 \in Int
      /\ ld \in Int /\ rd \in Int /\ p1 \in Int /\ p2 \in Int /\ p3 \in Int
      /\ l \in Int
  BY Coefficients
<1>2. rd - ld = D * w2 * (w2 * (p1 - p3) + w1 * b3 - w3 * b1)
  BY Coefficients
<1> DEFINE g == s * w2 * (p1 - p3) + s * (w1 * b3 - w3 * b1)
                  + w1 * t3 * rd - w3 * t1 * ld
           k == D * w2
<1>3. g \in Int /\ k \in Int
  <2> HIDE DEF p1, p3, rd, ld
  <2> QED BY <1>1, Coefficients
<1>4. l = k * g
  <2> HIDE DEF p1, p3, rd, ld
  <2>1. l = s * (rd - ld) + D * w2 * (w1 * t3 * rd - w3 * t1 * ld)
    BY <1>1, Coefficients
  <2>2. s * (rd - ld) = D * w2 * (s * w2 * (p1 - p3) + s * (w1 * b3 - w3 * b1))
    BY <1>1, <1>2, Coefficients
  <2> QED BY <1>1, <2>1, <2>2, Coefficients
<1>5. /\ w1 * rd = w1 * (1 - p2 * p3) + p1 * h3
      /\ w3 * ld = w3 * (1 - p1 * p2) + p3 * h1
  <2> HIDE DEF h1, h3
  <2> QED BY <1>1, Coefficients
<1>6. /\ c1 = a1 - 1 - p1 /\ c2 = a2 - 1 - p2 /\ c3 = a3 - 1 - p3
  BY Coefficients
<1> HIDE DEF c1, c2, c3, h1, h3, rd, ld, p1, p2, p3, l
<1>7. g = s * w2 * (p1 - p3) + s * (w1 * b3 - w3 * b1)
            + w1 * t3 * (1 - p2 * p3) + p1 * (t3 * h3)
            - w3 * t1 * (1 - p1 * p2) - p3 * (t1 * h1)
  <2>1. w1 * t3 * rd = t3 * (w1 * rd) /\ w3 * t1 * ld = t1 * (w3 * ld)
    BY <1>1
  <2>2. /\ w1 * t3 * rd = w1 * t3 * (1 - p2 * p3) + p1 * (t3 * h3)
        /\ w3 * t1 * ld = w3 * t1 * (1 - p1 * p2) + p3 * (t1 * h1)
    BY <1>1, <1>5, <2>1
  <2> QED BY <1>1, <2>2
<1>8. /\ t3 * h3 = - (a3 * w2 * s) - w3 * t1 * a2
      /\ t1 * h1 = - (a1 * w2 * s) - w1 * t3 * a2
  BY <1>1
<1>9. s * (w1 * b3 - w3 * b1) = w3 * a1 * t1 - w1 * a3 * t3
  <2>1. s * b3 = w3 * r - a3 * t3 /\ s * b1 = w1 * r - a1 * t1 OBVIOUS
  <2>2. s * (w1 * b3 - w3 * b1) = w1 * (s * b3) - w3 * (s * b1) OBVIOUS
  <2> QED BY <2>1, <2>2
<1>10. g = (s * w2 * p3 + t1 * w3) * c1 + (t3 * w1 * p3 - t1 * w3 * p1) * c2
             + (- (s * w2 * p1) - t3 * w1) * c3
  <2> HIDE DEF g
  <2>1. g = s * w2 * (p1 - p3) + (w3 * a1 * t1 - w1 * a3 * t3)
              + w1 * t3 * (1 - p2 * p3) + p1 * (- (a3 * w2 * s) - w3 * t1 * a2)
              - w3 * t1 * (1 - p1 * p2) - p3 * (- (a1 * w2 * s) - w1 * t3 * a2)
    BY <1>7, <1>8, <1>9
  <2>2. g = (s * w2 * p3 + t1 * w3) * (a1 - 1 - p1)
              + (t3 * w1 * p3 - t1 * w3 * p1) * (a2 - 1 - p2)
              + (- (s * w2 * p1) - t3 * w1) * (a3 - 1 - p3)
    BY <1>1, <2>1
  <2> QED BY <1>6, <2>2
<1> HIDE DEF g, k
<1>11. Vanishes(g)
  <2> DEFINE g1 == s * w2 * p3 + t1 * w3
             g2 == t3 * w1 * p3 - t1 * w3 * p1
             g3 == - (s * w2 * p1) - t3 * w1
  <2>1. g1 \in Int /\ c1 \in Int /\ g2 \in Int /\ c2 \in Int
        /\ g3 \in Int /\ c3 \in Int
    BY <1>1
  <2>2. Vanishes(c1) /\ Vanishes(c2) /\ Vanishes(c3)
    OBVIOUS
  <2>3. Combine3(g1, c1, g2, c2, g3, c3) = g
    BY <1>1, <1>10 DEF Combine3
  <2> HIDE DEF g1, g2, g3
  <2>4. Vanishes(Combine3(g1, c1, g2, c2, g3, c3))
    BY <2>1, <2>2, VanishesSum3, Zenon
  <2> QED BY <2>3, <2>4
<1>12. Vanishes(l)
  <2>1. k \in Int /\ g \in Int /\ 0 \in Int
    BY <1>3
  <2>2. Vanishes(g) /\ Vanishes(g)
    BY <1>11
  <2>3. Combine(k, g, 0, g) = l
    BY <1>3, <1>4 DEF Combine
  <2>4. Vanishes(Combine(k, g, 0, g))
    BY <2>1, <2>2, VanishesSum, Zenon
  <2> QED BY <2>3, <2>4
<1> QED BY <1>12

(* The first coordinate of a sum of three points does not depend on which  *)
(* two are added first.                                                    *)
LEMMA TripleXSame ==
  ASSUME NEW x1 \in Int, NEW y1 \in Int, NEW x2 \in Int, NEW y2 \in Int,
         NEW x3 \in Int, NEW y3 \in Int,
         Vanishes(Curve(x1, y1)), Vanishes(Curve(x2, y2)), Vanishes(Curve(x3, y3))
  PROVE  Vanishes(TripleX(x1, y1, x2, y2, x3, y3) * UnderX(x2, y2, x3, y3, x1, y1)
                    - TripleX(x2, y2, x3, y3, x1, y1)
                        * UnderX(x1, y1, x2, y2, x3, y3))
<1> DEFINE n1 == CrossX(x1, y1, x2, y2)
           n2 == CrossY(x1, y1, x2, y2)
           m1 == CrossX(x2, y2, x3, y3)
           m2 == CrossY(x2, y2, x3, y3)
           w1 == x1 * y1
           w2 == x2 * y2
           w3 == x3 * y3
           a1 == A * x1 * x1 + y1 * y1
           a2 == A * x2 * x2 + y2 * y2
           a3 == A * x3 * x3 + y3 * y3
           b1 == y1 * y1 - A * x1 * x1
           b2 == y2 * y2 - A * x2 * x2
           b3 == y3 * y3 - A * x3 * x3
           s == n1 * y3 + n2 * x3
           r == 2 * (n2 * y3 - A * n1 * x3)
           t3 == n2 * x3 - n1 * y3
           t1 == m2 * x1 - m1 * y1
<1>1. /\ w1 \in Int /\ w2 \in Int /\ w3 \in Int
      /\ a1 \in Int /\ a2 \in Int /\ a3 \in Int
      /\ b1 \in Int /\ b2 \in Int /\ b3 \in Int
      /\ n1 \in Int /\ n2 \in Int /\ m1 \in Int /\ m2 \in Int
  BY CrossInt, Coefficients
<1>2. s \in Int /\ r \in Int /\ t1 \in Int /\ t3 \in Int
  <2> HIDE DEF n1, n2, m1, m2
  <2> QED BY <1>1, Coefficients
<1>3. /\ Curve(x1, y1) = a1 - 1 - D * w1 * w1
      /\ Curve(x2, y2) = a2 - 1 - D * w2 * w2
      /\ Curve(x3, y3) = a3 - 1 - D * w3 * w3
  BY Coefficients DEF Curve
<1>4. /\ n1 * n2 = w1 * b2 + w2 * b1
      /\ m1 * m2 = w3 * b2 + w2 * b3
  BY Coefficients DEF CrossX, CrossY
<1>5. s = m1 * y1 + m2 * x1
  BY Coefficients DEF CrossX, CrossY
<1>6. /\ Tau(x1, y1, x2, y2) = D * w1 * w2
      /\ Tau(x2, y2, x3, y3) = D * w2 * w3
  BY Coefficients DEF Tau
<1>7. a3 * t3 + s * b3 = w3 * r /\ a1 * t1 + s * b1 = w1 * r
  <2> DEFINE rm == 2 * (m2 * y1 - A * m1 * x1)
  <2>1. r = rm
    BY Coefficients DEF CrossX, CrossY
  <2> HIDE DEF n1, n2, m1, m2
  <2>2. a3 * t3 + s * b3 = w3 * r BY <1>1, Coefficients
  <2>3. a1 * t1 + s * b1 = w1 * rm BY <1>1, <1>5, Coefficients
  <2> QED BY <2>1, <2>2, <2>3
<1>8. /\ t3 * (w3 * b2 + w2 * b3) + w3 * t1 * a2 = - (a3 * w2 * s)
      /\ t1 * (w1 * b2 + w2 * b1) + w1 * t3 * a2 = - (a1 * w2 * s)
  BY Coefficients, SMTT(60) DEF CrossX, CrossY
<1>9. /\ TripleX(x1, y1, x2, y2, x3, y3) = s + D * w1 * w2 * t3
      /\ TripleX(x2, y2, x3, y3, x1, y1) = s + D * w2 * w3 * t1
      /\ UnderX(x1, y1, x2, y2, x3, y3)
           = 1 - (D * w1 * w2) * (D * w1 * w2) + D * w3 * (w1 * b2 + w2 * b1)
      /\ UnderX(x2, y2, x3, y3, x1, y1)
           = 1 - (D * w2 * w3) * (D * w2 * w3) + D * w1 * (w3 * b2 + w2 * b3)
  <2> DEFINE t == D * w1 * w2
             u == D * w2 * w3
  <2>1. t \in Int /\ u \in Int BY <1>1, Coefficients
  <2>2. /\ Tau(x1, y1, x2, y2) = t /\ Tau(x2, y2, x3, y3) = u BY <1>6
  <2> HIDE DEF n1, n2, m1, m2, t, u
  <2>3. /\ TripleX(x1, y1, x2, y2, x3, y3) = s + t * t3
        /\ TripleX(x2, y2, x3, y3, x1, y1) = s + u * t1
    BY <1>1, <1>5, <2>1, <2>2, Coefficients DEF TripleX, n1, n2, m1, m2
  <2> DEFINE h1 == w1 * b2 + w2 * b1
             h3 == w3 * b2 + w2 * b3
  <2>4. h1 \in Int /\ h3 \in Int BY <1>1
  <2>5. /\ UnderX(x1, y1, x2, y2, x3, y3) = 1 - t * t + D * w3 * (n1 * n2)
        /\ UnderX(x2, y2, x3, y3, x1, y1) = 1 - u * u + D * w1 * (m1 * m2)
    BY <1>1, <2>1, <2>2, Coefficients DEF UnderX, n1, n2, m1, m2
  <2> QED BY <1>4, <2>3, <2>5 DEF t, u
<1> HIDE DEF n1, n2, m1, m2, w1, w2, w3, a1, a2, a3, b1, b2, b3, s, r, t1, t3
<1>10. Crossed(s, r, t1, t3, w1, w2, w3, a1, a2, a3, b1, b2, b3)
  BY <1>1, <1>2, CrossedHolds, Zenon
<1> QED BY <1>3, <1>7, <1>8, <1>9, <1>10, Zenon DEF Crossed

(* Nor does the second.                                                    *)
LEMMA TripleYSame ==
  ASSUME NEW x1 \in Int, NEW y1 \in Int, NEW x2 \in Int, NEW y2 \in Int,
         NEW x3 \in Int, NEW y3 \in Int,
         Vanishes(Curve(x1, y1)), Vanishes(Curve(x2, y2)), Vanishes(Curve(x3, y3))
  PROVE  Vanishes(TripleY(x1, y1, x2, y2, x3, y3) * UnderY(x2, y2, x3, y3, x1, y1)
                    - TripleY(x2, y2, x3, y3, x1, y1)
                        * UnderY(x1, y1, x2, y2, x3, y3))
<1> DEFINE n1 == CrossX(x1, y1, x2, y2)
           n2 == CrossY(x1, y1, x2, y2)
           m1 == CrossX(x2, y2, x3, y3)
           m2 == CrossY(x2, y2, x3, y3)
           w1 == x1 * y1
           w2 == x2 * y2
           w3 == x3 * y3
           a1 == A * x1 * x1 + y1 * y1
           a2 == A * x2 * x2 + y2 * y2
           a3 == A * x3 * x3 + y3 * y3
           b1 == A * x1 * x1 - y1 * y1
           b2 == A * x2 * x2 - y2 * y2
           b3 == A * x3 * x3 - y3 * y3
           s == n2 * y3 - A * n1 * x3
           r == 2 * A * (n1 * y3 + n2 * x3)
           t3 == n2 * y3 + A * n1 * x3
           t1 == m2 * y1 + A * m1 * x1
<1>1. /\ w1 \in Int /\ w2 \in Int /\ w3 \in Int
      /\ a1 \in Int /\ a2 \in Int /\ a3 \in Int
      /\ b1 \in Int /\ b2 \in Int /\ b3 \in Int
      /\ n1 \in Int /\ n2 \in Int /\ m1 \in Int /\ m2 \in Int
  BY CrossInt, Coefficients
<1>2. s \in Int /\ r \in Int /\ t1 \in Int /\ t3 \in Int
  <2> HIDE DEF n1, n2, m1, m2
  <2> QED BY <1>1, Coefficients
<1>3. /\ Curve(x1, y1) = a1 - 1 - D * w1 * w1
      /\ Curve(x2, y2) = a2 - 1 - D * w2 * w2
      /\ Curve(x3, y3) = a3 - 1 - D * w3 * w3
  BY Coefficients DEF Curve
<1>4. /\ - (n1 * n2) = w1 * b2 + w2 * b1
      /\ - (m1 * m2) = w3 * b2 + w2 * b3
  BY Coefficients DEF CrossX, CrossY
<1>5. s = m2 * y1 - A * m1 * x1
  BY Coefficients DEF CrossX, CrossY
<1>6. /\ Tau(x1, y1, x2, y2) = D * w1 * w2
      /\ Tau(x2, y2, x3, y3) = D * w2 * w3
  BY Coefficients DEF Tau
<1>7. a3 * t3 + s * b3 = w3 * r /\ a1 * t1 + s * b1 = w1 * r
  <2> DEFINE rm == 2 * (A * (m1 * y1 + m2 * x1))
  <2>1. r = rm
    BY Coefficients DEF CrossX, CrossY
  <2> HIDE DEF n1, n2, m1, m2
  <2>2. a3 * t3 + s * b3 = w3 * r BY <1>1, Coefficients
  <2>3. a1 * t1 + s * b1 = w1 * rm BY <1>1, <1>5, Coefficients
  <2> QED BY <2>1, <2>2, <2>3
<1>8. /\ t3 * (w3 * b2 + w2 * b3) + w3 * t1 * a2 = - (a3 * w2 * s)
      /\ t1 * (w1 * b2 + w2 * b1) + w1 * t3 * a2 = - (a1 * w2 * s)
  BY Coefficients, SMTT(60) DEF CrossX, CrossY
<1>9. /\ TripleY(x1, y1, x2, y2, x3, y3) = s + D * w1 * w2 * t3
      /\ TripleY(x2, y2, x3, y3, x1, y1) = s + D * w2 * w3 * t1
      /\ UnderY(x1, y1, x2, y2, x3, y3)
           = 1 - (D * w1 * w2) * (D * w1 * w2) + D * w3 * (w1 * b2 + w2 * b1)
      /\ UnderY(x2, y2, x3, y3, x1, y1)
           = 1 - (D * w2 * w3) * (D * w2 * w3) + D * w1 * (w3 * b2 + w2 * b3)
  <2> DEFINE t == D * w1 * w2
             u == D * w2 * w3
  <2>1. t \in Int /\ u \in Int BY <1>1, Coefficients
  <2>2. /\ Tau(x1, y1, x2, y2) = t /\ Tau(x2, y2, x3, y3) = u BY <1>6
  <2> HIDE DEF n1, n2, m1, m2, t, u
  <2>3. /\ TripleY(x1, y1, x2, y2, x3, y3) = s + t * t3
        /\ TripleY(x2, y2, x3, y3, x1, y1) = s + u * t1
    BY <1>1, <1>5, <2>1, <2>2, Coefficients DEF TripleY, n1, n2, m1, m2
  <2> DEFINE h1 == w1 * b2 + w2 * b1
             h3 == w3 * b2 + w2 * b3
  <2>4. h1 \in Int /\ h3 \in Int BY <1>1
  <2>5. /\ UnderY(x1, y1, x2, y2, x3, y3) = 1 - t * t + D * w3 * (- (n1 * n2))
        /\ UnderY(x2, y2, x3, y3, x1, y1) = 1 - u * u + D * w1 * (- (m1 * m2))
    BY <1>1, <2>1, <2>2, Coefficients DEF UnderY, n1, n2, m1, m2
  <2> QED BY <1>4, <2>3, <2>5 DEF t, u
<1> HIDE DEF n1, n2, m1, m2, w1, w2, w3, a1, a2, a3, b1, b2, b3, s, r, t1, t3
<1>10. Crossed(s, r, t1, t3, w1, w2, w3, a1, a2, a3, b1, b2, b3)
  BY <1>1, <1>2, CrossedHolds, Zenon
<1> QED BY <1>3, <1>7, <1>8, <1>9, <1>10, Zenon DEF Crossed

(* Equal fractions are equal numbers.                                      *)
SameFraction(w, l, n, u, k, m) ==
  Vanishes(w * l - n) /\ Vanishes(u * k - m) /\ Vanishes(n * k - m * l)
    /\ ~Vanishes(l) /\ ~Vanishes(k)
      => Vanishes(w - u)

(* Two quotients are the same when their cross products are.               *)
LEMMA Fractions ==
  ASSUME NEW w \in Int, NEW l \in Int, NEW n \in Int,
         NEW u \in Int, NEW k \in Int, NEW m \in Int
  PROVE  SameFraction(w, l, n, u, k, m)
<1> SUFFICES ASSUME Vanishes(w * l - n), Vanishes(u * k - m),
                    Vanishes(n * k - m * l), ~Vanishes(l), ~Vanishes(k)
             PROVE  Vanishes(w - u)
  BY DEF SameFraction
<1> DEFINE z == l * k
<1>1. z \in Int /\ ~Vanishes(z) BY ProductIsNotZero
<1>2. w - u \in Int OBVIOUS
<1>3. z * (w - u) = k * (w * l - n) + (- l) * (u * k - m) + 1 * (n * k - m * l)
  OBVIOUS
<1> HIDE DEF z
<1>4. Vanishes(z * (w - u))
  <2> DEFINE f1 == w * l - n
             g2 == - l
             f2 == u * k - m
             f3 == n * k - m * l
  <2>1. k \in Int /\ f1 \in Int /\ g2 \in Int /\ f2 \in Int
        /\ 1 \in Int /\ f3 \in Int
    BY <1>1
  <2>2. Vanishes(f1) /\ Vanishes(f2) /\ Vanishes(f3)
    OBVIOUS
  <2>3. Combine3(k, f1, g2, f2, 1, f3) = z * (w - u)
    BY <1>1, <1>3 DEF Combine3
  <2> HIDE DEF f1, g2, f2, f3
  <2>4. Vanishes(Combine3(k, f1, g2, f2, 1, f3))
    BY <2>1, <2>2, VanishesSum3, Zenon
  <2> QED BY <2>3, <2>4
<1> QED BY <1>1, <1>2, <1>4, NoZeroDivisors

(* Numerators and denominators of a sum of three are numbers.              *)
LEMMA TripleInt ==
  ASSUME NEW x1 \in Int, NEW y1 \in Int, NEW x2 \in Int, NEW y2 \in Int,
         NEW x3 \in Int, NEW y3 \in Int
  PROVE  /\ TripleX(x1, y1, x2, y2, x3, y3) \in Int
         /\ TripleY(x1, y1, x2, y2, x3, y3) \in Int
         /\ UnderX(x1, y1, x2, y2, x3, y3) \in Int
         /\ UnderY(x1, y1, x2, y2, x3, y3) \in Int
<1> DEFINE t == Tau(x1, y1, x2, y2)
           n == CrossX(x1, y1, x2, y2)
           m == CrossY(x1, y1, x2, y2)
<1>1. t \in Int /\ n \in Int /\ m \in Int BY TauInt, CrossInt
<1> HIDE DEF t, n, m
<1> QED BY <1>1, Coefficients DEF TripleX, TripleY, UnderX, UnderY, t, n, m

(* The law is associative.                                                 *)
LEMMA SumAssociates ==
  ASSUME NEW p \in Points, NEW q \in Points, NEW r \in Points
  PROVE  Sum(Sum(p, q), r) = Sum(p, Sum(q, r))
<1> DEFINE w == Sum(Sum(p, q), r)
           u == Sum(Sum(q, r), p)
           lx == UnderX(p[1], p[2], q[1], q[2], r[1], r[2])
           ly == UnderY(p[1], p[2], q[1], q[2], r[1], r[2])
           kx == UnderX(q[1], q[2], r[1], r[2], p[1], p[2])
           ky == UnderY(q[1], q[2], r[1], r[2], p[1], p[2])
           nx == TripleX(p[1], p[2], q[1], q[2], r[1], r[2])
           ny == TripleY(p[1], p[2], q[1], q[2], r[1], r[2])
           mx == TripleX(q[1], q[2], r[1], r[2], p[1], p[2])
           my == TripleY(q[1], q[2], r[1], r[2], p[1], p[2])
<1>1. /\ p[1] \in Int /\ p[2] \in Int /\ q[1] \in Int /\ q[2] \in Int
      /\ r[1] \in Int /\ r[2] \in Int
      /\ Vanishes(Curve(p[1], p[2])) /\ Vanishes(Curve(q[1], q[2]))
      /\ Vanishes(Curve(r[1], r[2]))
  BY PointHas
<1>2. Vanishes(nx * kx - mx * lx) BY <1>1, TripleXSame
<1>3. Vanishes(ny * ky - my * ly) BY <1>1, TripleYSame
<1>4. Sum(p, q) \in Points /\ Sum(q, r) \in Points BY SumClosed
<1>5. u = Sum(p, Sum(q, r)) BY <1>4, SumCommutes
<1>6. w \in Points /\ u \in Points BY <1>4, SumClosed
<1>7. /\ ~Vanishes(lx) /\ ~Vanishes(ly)
      /\ Vanishes(w[1] * lx - nx) /\ Vanishes(w[2] * ly - ny)
  BY TripleSum
<1>8. /\ ~Vanishes(kx) /\ ~Vanishes(ky)
      /\ Vanishes(u[1] * kx - mx) /\ Vanishes(u[2] * ky - my)
  BY TripleSum
<1>9. lx \in Int /\ ly \in Int /\ nx \in Int /\ ny \in Int
  BY <1>1, TripleInt
<1>10. kx \in Int /\ ky \in Int /\ mx \in Int /\ my \in Int
  BY <1>1, TripleInt
<1> HIDE DEF w, u, lx, ly, kx, ky, nx, ny, mx, my
<1>11. /\ w = <<w[1], w[2]>> /\ w[1] \in Fp /\ w[2] \in Fp
       /\ w[1] \in Int /\ w[2] \in Int
       /\ u = <<u[1], u[2]>> /\ u[1] \in Fp /\ u[2] \in Fp
       /\ u[1] \in Int /\ u[2] \in Int
  BY <1>6, PointHas
<1>12. SameFraction(w[1], lx, nx, u[1], kx, mx)
  BY <1>9, <1>10, <1>11, Fractions
<1>13. SameFraction(w[2], ly, ny, u[2], ky, my)
  BY <1>9, <1>10, <1>11, Fractions
<1>14. w[1] = u[1] /\ w[2] = u[2]
  BY <1>2, <1>3, <1>7, <1>8, <1>11, <1>12, <1>13, ElementsEqual DEF SameFraction
<1> QED BY <1>5, <1>11, <1>14 DEF w

(* Opposites are the only ones to give zero, and are so mutually.          *)
LEMMA OppositeUnique ==
  ASSUME NEW p \in Points, NEW q \in Points, Sum(p, q) = Zero
  PROVE  q = Opposite(p)
<1> DEFINE o == Opposite(p)
<1>1. o \in Points /\ Sum(p, o) = Zero BY OppositeIs, OppositeSum
<1> HIDE DEF o
<1>2. Sum(Sum(o, p), q) = q BY <1>1, SumCommutes, SumZero
<1>3. Sum(o, Sum(p, q)) = o BY <1>1, SumZero
<1>4. Sum(Sum(o, p), q) = Sum(o, Sum(p, q)) BY <1>1, SumAssociates
<1> QED BY <1>2, <1>3, <1>4 DEF o

(* The opposite of the opposite is the point itself.                       *)
LEMMA OppositeTwice ==
  ASSUME NEW q \in Points
  PROVE  Opposite(Opposite(q)) = q
<1>1. Opposite(q) \in Points /\ Sum(q, Opposite(q)) = Zero
  BY OppositeIs, OppositeSum
<1>2. Sum(Opposite(q), q) = Zero BY <1>1, SumCommutes
<1> QED BY <1>1, <1>2, OppositeUnique

-----------------------------------------------------------------------------
(* Recursive functions, and the multiples of a point.                      *)

(* A function can be defined by its value at zero and a step.              *)
Recursive(f, n, S, z, F) ==
  /\ f \in [0 .. n -> S]
  /\ f = [k \in 0 .. n |-> IF k = 0 THEN z ELSE F[<<k, f[k - 1]>>]]

(* A recursion over the numbers below a bound has a solution.              *)
LEMMA RecursionExists ==
  ASSUME NEW S, NEW z \in S, NEW F \in [Nat \X S -> S], NEW n \in Nat
  PROVE  \E f : Recursive(f, n, S, z, F)
<1> DEFINE N == {j \in Nat : \E f \in [0 .. j -> S] :
                   /\ f[0] = z
                   /\ \A k \in 1 .. j : f[k] = F[<<k, f[k - 1]>>]}
<1>1. 0 \in N
  <2> DEFINE f == [k \in 0 .. 0 |-> z]
  <2>1. f \in [0 .. 0 -> S] /\ f[0] = z /\ \A k \in 1 .. 0 : f[k] = F[<<k, f[k - 1]>>]
    OBVIOUS
  <2> QED BY <2>1
<1>2. ASSUME NEW j \in Nat, j \in N PROVE j + 1 \in N
  <2>1. PICK f \in [0 .. j -> S] :
          f[0] = z /\ \A k \in 1 .. j : f[k] = F[<<k, f[k - 1]>>]
    BY <1>2
  <2> DEFINE h == [k \in 0 .. j + 1 |-> IF k = j + 1 THEN F[<<k, f[j]>>] ELSE f[k]]
  <2>2. h \in [0 .. j + 1 -> S]
    <3>1. j + 1 \in Nat /\ f[j] \in S BY <2>1
    <3>2. F[<<j + 1, f[j]>>] \in S BY <3>1
    <3>3. ASSUME NEW k \in 0 .. j + 1, k # j + 1 PROVE f[k] \in S BY <2>1, <3>3
    <3> QED BY <3>2, <3>3
  <2>3. h[0] = z BY <2>1
  <2>4. ASSUME NEW k \in 1 .. j + 1 PROVE h[k] = F[<<k, h[k - 1]>>]
    <3>1. k - 1 \in 0 .. j + 1 /\ k - 1 # j + 1 OBVIOUS
    <3>2. h[k - 1] = f[k - 1] BY <3>1
    <3>3. CASE k = j + 1
      <4>1. k - 1 = j BY <3>3
      <4> QED BY <3>2, <3>3, <4>1
    <3>4. CASE k # j + 1
      <4>1. k \in 1 .. j BY <3>4
      <4> QED BY <2>1, <3>2, <3>4, <4>1
    <3> QED BY <3>3, <3>4
  <2> HIDE DEF h
  <2> QED BY <2>2, <2>3, <2>4
<1> HIDE DEF N
<1>3. \A j \in Nat : j \in N BY <1>1, <1>2, SetInduction
<1>4. PICK f \in [0 .. n -> S] :
        f[0] = z /\ \A k \in 1 .. n : f[k] = F[<<k, f[k - 1]>>]
  BY <1>3 DEF N
<1>5. \A k \in 0 .. n : f[k] = IF k = 0 THEN z ELSE F[<<k, f[k - 1]>>]
  BY <1>4
<1>6. f = [k \in 0 .. n |-> IF k = 0 THEN z ELSE F[<<k, f[k - 1]>>]]
  BY <1>5
<1> QED BY <1>6 DEF Recursive

(* The multiples of a point as a function.                                 *)
Multiples(m, q, n) ==
  /\ m \in [0 .. n -> Points]
  /\ m[0] = Zero /\ \A k \in 1 .. n : m[k] = Sum(m[k - 1], q)

(* The multiple of a point is found by such a recursion.                   *)
LEMMA MultipleIs ==
  ASSUME NEW q \in Points, NEW n \in Nat
  PROVE  \E m : Multiples(m, q, n) /\ Multiple(q, n) = m[n]
<1> DEFINE F == [x \in Nat \X Points |-> Sum(x[2], q)]
           m == CHOOSE f : f = [k \in 0 .. n |-> IF k = 0 THEN Zero ELSE Sum(f[k - 1], q)]
<1>1. F \in [Nat \X Points -> Points]
  <2>1. \A x \in Nat \X Points : Sum(x[2], q) \in Points BY SumClosed
  <2> QED BY <2>1
<1>2. \A k \in Nat, s \in Points : F[<<k, s>>] = Sum(s, q) OBVIOUS
<1> HIDE DEF F
<1>3. PICK f : Recursive(f, n, Points, Zero, F)
  BY <1>1, ZeroIsPoint, RecursionExists
<1>4. f = [k \in 0 .. n |-> IF k = 0 THEN Zero ELSE Sum(f[k - 1], q)]
  <2>1. \A k \in 0 .. n : f[k] = IF k = 0 THEN Zero ELSE Sum(f[k - 1], q)
    <3> SUFFICES ASSUME NEW k \in 0 .. n
                 PROVE  f[k] = IF k = 0 THEN Zero ELSE Sum(f[k - 1], q)
      OBVIOUS
    <3>1. f[k] = IF k = 0 THEN Zero ELSE F[<<k, f[k - 1]>>]
      BY <1>3 DEF Recursive
    <3>2. k # 0 => f[k - 1] \in Points /\ k \in Nat BY <1>3 DEF Recursive
    <3> QED BY <1>2, <3>1, <3>2
  <2> QED BY <1>3, <2>1 DEF Recursive
<1>5. m = [k \in 0 .. n |-> IF k = 0 THEN Zero ELSE Sum(m[k - 1], q)]
  BY <1>4
<1>6. Multiple(q, n) = m[n] BY DEF Multiple
<1> HIDE DEF m
<1>7. m[0] = Zero /\ \A k \in 1 .. n : m[k] = Sum(m[k - 1], q)
  <2>1. \A k \in 0 .. n : m[k] = IF k = 0 THEN Zero ELSE Sum(m[k - 1], q)
    BY <1>5
  <2>2. 0 \in 0 .. n OBVIOUS
  <2>3. \A k \in 1 .. n : k \in 0 .. n /\ k # 0 OBVIOUS
  <2> QED BY <2>1, <2>2, <2>3
<1> DEFINE K == {k \in Nat : k <= n => m[k] \in Points}
<1>8. 0 \in K BY <1>7, ZeroIsPoint
<1>9. ASSUME NEW k \in Nat, k \in K PROVE k + 1 \in K
  <2>1. CASE k + 1 <= n
    <3>1. k + 1 \in 1 .. n /\ (k + 1) - 1 = k /\ m[k] \in Points BY <1>9, <2>1
    <3>2. m[k + 1] = Sum(m[k], q) BY <1>7, <3>1
    <3> QED BY <3>1, <3>2, SumClosed
  <2> QED BY <2>1
<1> HIDE DEF K
<1>10. \A k \in Nat : k \in K BY <1>8, <1>9, SetInduction
<1>11. \A k \in 0 .. n : m[k] \in Points BY <1>10 DEF K
<1>12. m \in [0 .. n -> Points]
  <2>1. m = [k \in 0 .. n |-> m[k]] BY <1>5
  <2> QED BY <1>11, <2>1
<1> QED BY <1>6, <1>7, <1>12 DEF Multiples

(* The next multiple.                                                      *)
LEMMA MultipleStep ==
  ASSUME NEW q \in Points
  PROVE  /\ Multiple(q, 0) = Zero
         /\ \A n \in Nat : /\ Multiple(q, n) \in Points
                           /\ Multiple(q, n + 1) = Sum(Multiple(q, n), q)
<1>1. Multiple(q, 0) = Zero
  <2>1. 0 \in Nat OBVIOUS
  <2>2. PICK m : Multiples(m, q, 0) /\ Multiple(q, 0) = m[0] BY <2>1, MultipleIs
  <2> QED BY <2>2 DEF Multiples
<1>2. ASSUME NEW n \in Nat
      PROVE  /\ Multiple(q, n) \in Points
             /\ Multiple(q, n + 1) = Sum(Multiple(q, n), q)
  <2>1. PICK m : Multiples(m, q, n) /\ Multiple(q, n) = m[n] BY MultipleIs
  <2>2. n + 1 \in Nat OBVIOUS
  <2>3. PICK h : Multiples(h, q, n + 1) /\ Multiple(q, n + 1) = h[n + 1]
    BY <2>2, MultipleIs
  <2> DEFINE K == {k \in Nat : k <= n => m[k] = h[k]}
  <2>4. 0 \in K BY <2>1, <2>3 DEF Multiples
  <2>5. ASSUME NEW k \in Nat, k \in K PROVE k + 1 \in K
    <3>1. CASE k + 1 <= n
      <4>1. k + 1 \in 1 .. n /\ k + 1 \in 1 .. n + 1 /\ (k + 1) - 1 = k
            /\ m[k] = h[k]
        BY <2>5, <3>1
      <4>2. m[k + 1] = Sum(m[(k + 1) - 1], q) /\ h[k + 1] = Sum(h[(k + 1) - 1], q)
        BY <2>1, <2>3, <4>1 DEF Multiples
      <4>3. m[k + 1] = h[k + 1] BY <4>1, <4>2
      <4> QED BY <4>3
    <3> QED BY <3>1
  <2> HIDE DEF K
  <2>6. \A k \in Nat : k \in K BY <2>4, <2>5, SetInduction
  <2>7. m[n] = h[n] BY <2>6 DEF K
  <2>8. n + 1 \in 1 .. n + 1 /\ (n + 1) - 1 = n OBVIOUS
  <2>9. h[n + 1] = Sum(h[n], q) BY <2>3, <2>8 DEF Multiples
  <2>10. m[n] \in Points BY <2>1 DEF Multiples
  <2> QED BY <2>1, <2>3, <2>7, <2>9, <2>10
<1> QED BY <1>1, <1>2

(* Multiples add like their numbers.                                       *)
LEMMA MultiplePlus ==
  ASSUME NEW q \in Points, NEW a \in Nat
  PROVE  \A b \in Nat : Sum(Multiple(q, a), Multiple(q, b)) = Multiple(q, a + b)
<1> DEFINE K == {b \in Nat : Sum(Multiple(q, a), Multiple(q, b)) = Multiple(q, a + b)}
<1>1. 0 \in K
  <2>1. Multiple(q, a) \in Points /\ Multiple(q, 0) = Zero BY MultipleStep
  <2>2. Sum(Multiple(q, a), Multiple(q, 0)) = Multiple(q, a) BY <2>1, SumZero
  <2>3. a + 0 = a OBVIOUS
  <2> QED BY <2>2, <2>3
<1>2. ASSUME NEW b \in Nat, b \in K PROVE b + 1 \in K
  <2> DEFINE m == Multiple(q, a)
             h == Multiple(q, b)
  <2>1. m \in Points /\ h \in Points /\ Multiple(q, b + 1) = Sum(h, q)
    BY MultipleStep
  <2>2. a + b \in Nat /\ (a + b) + 1 = a + (b + 1) OBVIOUS
  <2>3. Multiple(q, (a + b) + 1) = Sum(Multiple(q, a + b), q)
    BY <2>2, MultipleStep
  <2>4. Multiple(q, a + b) = Sum(m, h) BY <1>2
  <2> HIDE DEF m, h
  <2>5. Sum(Sum(m, h), q) = Sum(m, Sum(h, q)) BY <2>1, SumAssociates
  <2>6. Sum(m, Multiple(q, b + 1)) = Multiple(q, a + (b + 1))
    BY <2>1, <2>2, <2>3, <2>4, <2>5
  <2> QED BY <2>6 DEF m
<1> HIDE DEF K
<1>3. \A b \in Nat : b \in K BY <1>1, <1>2, SetInduction
<1> QED BY <1>3 DEF K

(* One times a point is the point.                                         *)
LEMMA MultipleOne ==
  ASSUME NEW q \in Points
  PROVE  Multiple(q, 1) = q
<1>1. 0 \in Nat /\ 0 + 1 = 1 OBVIOUS
<1>2. Multiple(q, 0 + 1) = Sum(Multiple(q, 0), q) BY <1>1, MultipleStep
<1> QED BY <1>1, <1>2, MultipleStep, SumZero

-----------------------------------------------------------------------------
(* Multiplication by the bits of a scalar.                                 *)

(* The number that some bits stand for, bit by bit.                        *)
Numbers(v, bits, n) ==
  /\ v \in [0 .. n -> Nat]
  /\ v[0] = 0 /\ \A k \in 1 .. n : v[k] = v[k - 1] + bits[k] * Pow2[k - 1]

(* The number that some bits stand for is found so.                        *)
LEMMA NumberIs ==
  ASSUME NEW n \in Nat, NEW bits \in [1 .. n -> {0, 1}], Len(bits) = n
  PROVE  \E v : Numbers(v, bits, n) /\ Number(bits) = v[n]
<1> DEFINE F == [x \in Nat \X Nat |->
                   IF x[1] \in 1 .. n THEN x[2] + bits[x[1]] * Pow2[x[1] - 1] ELSE 0]
           v == CHOOSE f : f = [k \in 0 .. n |->
                  IF k = 0 THEN 0 ELSE f[k - 1] + bits[k] * Pow2[k - 1]]
<1>1. \A k \in 1 .. n : bits[k] \in {0, 1} /\ Pow2[k - 1] \in Nat
  <2> SUFFICES ASSUME NEW k \in 1 .. n PROVE Pow2[k - 1] \in Nat
    OBVIOUS
  <2>1. k - 1 \in Nat OBVIOUS
  <2> QED BY <2>1, Pow2Step
<1>2. F \in [Nat \X Nat -> Nat]
  <2>1. ASSUME NEW x \in Nat \X Nat, x[1] \in 1 .. n
        PROVE  x[2] + bits[x[1]] * Pow2[x[1] - 1] \in Nat
    <3>1. x[2] \in Nat /\ bits[x[1]] \in {0, 1} /\ Pow2[x[1] - 1] \in Nat
      BY <1>1, <2>1
    <3> QED BY <3>1
  <2> QED BY <2>1
<1>3. \A k \in 1 .. n, s \in Nat : F[<<k, s>>] = s + bits[k] * Pow2[k - 1]
  OBVIOUS
<1> HIDE DEF F
<1>4. PICK f : Recursive(f, n, Nat, 0, F) BY <1>2, RecursionExists
<1>5. f = [k \in 0 .. n |-> IF k = 0 THEN 0 ELSE f[k - 1] + bits[k] * Pow2[k - 1]]
  <2> SUFFICES ASSUME NEW k \in 0 .. n
               PROVE  f[k] = IF k = 0 THEN 0 ELSE f[k - 1] + bits[k] * Pow2[k - 1]
    BY <1>4 DEF Recursive
  <2>1. f[k] = IF k = 0 THEN 0 ELSE F[<<k, f[k - 1]>>] BY <1>4 DEF Recursive
  <2>2. k # 0 => f[k - 1] \in Nat /\ k \in 1 .. n BY <1>4 DEF Recursive
  <2> QED BY <1>3, <2>1, <2>2
<1>6. v = [k \in 0 .. n |-> IF k = 0 THEN 0 ELSE v[k - 1] + bits[k] * Pow2[k - 1]]
  BY <1>5
<1>7. Number(bits) = v[n] BY Zenon DEF Number
<1> HIDE DEF v
<1>8. v[0] = 0 /\ \A k \in 1 .. n : v[k] = v[k - 1] + bits[k] * Pow2[k - 1]
  <2>1. \A k \in 0 .. n :
          v[k] = IF k = 0 THEN 0 ELSE v[k - 1] + bits[k] * Pow2[k - 1]
    BY <1>6
  <2>2. 0 \in 0 .. n /\ \A k \in 1 .. n : k \in 0 .. n /\ k # 0 OBVIOUS
  <2> QED BY <2>1, <2>2
<1> DEFINE K == {k \in Nat : k <= n => v[k] \in Nat}
<1>9. 0 \in K BY <1>8
<1>10. ASSUME NEW k \in Nat, k \in K PROVE k + 1 \in K
  <2>1. CASE k + 1 <= n
    <3>1. k + 1 \in 1 .. n /\ (k + 1) - 1 = k /\ v[k] \in Nat BY <1>10, <2>1
    <3>2. v[k + 1] = v[k] + bits[k + 1] * Pow2[k] BY <1>8, <3>1
    <3>3. bits[k + 1] \in {0, 1} /\ Pow2[k] \in Nat BY <1>1, <3>1
    <3>4. v[k + 1] \in Nat BY <3>1, <3>2, <3>3
    <3> QED BY <3>4
  <2> QED BY <2>1
<1> HIDE DEF K
<1>11. \A k \in Nat : k \in K BY <1>9, <1>10, SetInduction
<1>12. \A k \in 0 .. n : v[k] \in Nat BY <1>11 DEF K
<1>13. v \in [0 .. n -> Nat]
  <2>1. v = [k \in 0 .. n |-> v[k]] BY <1>6
  <2> QED BY <1>12, <2>1
<1> QED BY <1>7, <1>8, <1>13 DEF Numbers

(* A bit of CurveVar::scalar_mul_le.                                       *)
LEMMA DoubleAndAddIs ==
  ASSUME NEW m \in Points, NEW h \in Points, NEW bit \in {0, 1}
  PROVE  DoubleAndAdd({<<m, h>>}, bit)
           = {<<IF bit = 1 THEN Sum(m, h) ELSE m, Sum(h, h)>>}
<1>1. Add(m, h) = {Sum(m, h)} /\ Double(h) = {Sum(h, h)} BY AddIs, DoubleIs
<1>2. {<<Selected(bit, tmp, m), d>> : tmp \in Add(m, h), d \in Double(h)}
        = {<<Selected(bit, Sum(m, h), m), Sum(h, h)>>}
  BY <1>1
<1>3. DoubleAndAdd({<<m, h>>}, bit)
        = {<<Selected(bit, tmp, m), d>> : tmp \in Add(m, h), d \in Double(h)}
  BY DEF DoubleAndAdd
<1> QED BY <1>2, <1>3 DEF Selected

(* It has one result, the multiple.                                        *)
LEMMA ScalarMulIs ==
  ASSUME NEW p \in Points, NEW n \in Nat, NEW bits \in [1 .. n -> {0, 1}],
         Len(bits) = n
  PROVE  ScalarMulLe(p, bits) = {Multiple(p, Number(bits))}
<1>1. PICK v : Numbers(v, bits, n) /\ Number(bits) = v[n] BY NumberIs
<1> DEFINE e == [k \in 0 .. n |-> {<<Multiple(p, v[k]), Multiple(p, Pow2[k])>>}]
           s == CHOOSE f : f = [k \in 0 .. n |->
                  IF k = 0 THEN {<<Zero, p>>} ELSE DoubleAndAdd(f[k - 1], bits[k])]
<1>2. e[0] = {<<Zero, p>>}
  <2>1. v[0] = 0 /\ Pow2[0] = 1 BY <1>1, Pow2Step DEF Numbers
  <2> QED BY <2>1, MultipleOne, MultipleStep
<1>3. ASSUME NEW k \in 1 .. n PROVE DoubleAndAdd(e[k - 1], bits[k]) = e[k]
  <2> DEFINE j == k - 1
             m == Multiple(p, v[j])
             h == Multiple(p, Pow2[j])
  <2>1. j \in 0 .. n /\ j \in Nat /\ j + 1 = k /\ bits[k] \in {0, 1} OBVIOUS
  <2>2. v[j] \in Nat /\ v[k] = v[j] + bits[k] * Pow2[j]
    BY <1>1, <2>1 DEF Numbers
  <2>3. Pow2[j] \in Nat /\ Pow2[j + 1] = 2 * Pow2[j] BY <2>1, Pow2Step
  <2>4. m \in Points /\ h \in Points BY <2>2, <2>3, MultipleStep
  <2>5. Sum(h, h) = Multiple(p, Pow2[k])
    <3>1. Sum(h, h) = Multiple(p, Pow2[j] + Pow2[j]) BY <2>3, MultiplePlus
    <3>2. Pow2[j] + Pow2[j] = Pow2[k] BY <2>1, <2>3
    <3> QED BY <3>1, <3>2
  <2>6. (IF bits[k] = 1 THEN Sum(m, h) ELSE m) = Multiple(p, v[k])
    <3>1. CASE bits[k] = 1
      <4>1. Sum(m, h) = Multiple(p, v[j] + Pow2[j]) BY <2>2, <2>3, MultiplePlus
      <4>2. v[k] = v[j] + Pow2[j] BY <2>2, <2>3, <3>1
      <4> QED BY <3>1, <4>1, <4>2
    <3>2. CASE bits[k] = 0
      <4>1. v[k] = v[j] BY <2>2, <2>3, <3>2
      <4> QED BY <3>2, <4>1
    <3> QED BY <2>1, <3>1, <3>2
  <2>7. e[j] = {<<m, h>>} BY <2>1
  <2>8. e[k] = {<<Multiple(p, v[k]), Multiple(p, Pow2[k])>>} BY <2>1
  <2> HIDE DEF e, m, h, j
  <2>9. DoubleAndAdd({<<m, h>>}, bits[k])
          = {<<IF bits[k] = 1 THEN Sum(m, h) ELSE m, Sum(h, h)>>}
    BY <2>1, <2>4, DoubleAndAddIs
  <2> QED BY <2>5, <2>6, <2>7, <2>8, <2>9 DEF j
<1>4. e = [k \in 0 .. n |->
             IF k = 0 THEN {<<Zero, p>>} ELSE DoubleAndAdd(e[k - 1], bits[k])]
  <2> SUFFICES ASSUME NEW k \in 0 .. n
               PROVE  e[k] = IF k = 0 THEN {<<Zero, p>>}
                             ELSE DoubleAndAdd(e[k - 1], bits[k])
    OBVIOUS
  <2> HIDE DEF e, s
  <2>1. CASE k = 0 BY <1>2, <2>1
  <2>2. CASE k # 0
    <3>1. k \in 1 .. n BY <2>2
    <3> QED BY <1>3, <2>2, <3>1
  <2> QED BY <2>1, <2>2
<1>5. s = [k \in 0 .. n |->
             IF k = 0 THEN {<<Zero, p>>} ELSE DoubleAndAdd(s[k - 1], bits[k])]
  <2> HIDE DEF e
  <2> QED BY <1>4
<1>6. ScalarMulLe(p, bits) = {t[1] : t \in s[n]} BY Zenon DEF ScalarMulLe
<1> HIDE DEF e, s
<1> DEFINE K == {k \in Nat : k <= n => s[k] = e[k]}
<1>7. 0 \in K
  <2>1. 0 \in 0 .. n OBVIOUS
  <2>2. s[0] = {<<Zero, p>>} BY <1>5, <2>1
  <2> QED BY <1>2, <2>2
<1>8. ASSUME NEW k \in Nat, k \in K PROVE k + 1 \in K
  <2>1. CASE k + 1 <= n
    <3>1. k + 1 \in 1 .. n /\ k + 1 \in 0 .. n /\ k + 1 # 0 /\ (k + 1) - 1 = k
          /\ s[k] = e[k]
      BY <1>8, <2>1
    <3>2. s[k + 1] = DoubleAndAdd(s[(k + 1) - 1], bits[k + 1]) BY <1>5, <3>1
    <3>3. s[k + 1] = e[k + 1] BY <1>3, <3>1, <3>2
    <3> QED BY <3>3
  <2> QED BY <2>1
<1> HIDE DEF K
<1>9. \A k \in Nat : k \in K BY <1>7, <1>8, SetInduction
<1>10. s[n] = e[n] BY <1>9 DEF K
<1>11. n \in 0 .. n OBVIOUS
<1>12. e[n] = {<<Multiple(p, v[n]), Multiple(p, Pow2[n])>>} BY <1>11 DEF e
<1>13. {t[1] : t \in e[n]} = {Multiple(p, v[n])} BY <1>12
<1> QED BY <1>1, <1>6, <1>10, <1>13

(* The two bits of a window select the multiple they stand for.            *)
LEMMA WindowIs ==
  ASSUME NEW q \in Points, NEW j \in Nat, NEW low \in {0, 1}, NEW high \in {0, 1}
  PROVE  WindowTable(Multiple(q, Pow2[j]), Multiple(q, Pow2[j + 1]))
             [1 + WindowIndex(low, high)]
           = Multiple(q, low * Pow2[j] + high * Pow2[j + 1])
<1> DEFINE a == Pow2[j]
           b == Pow2[j + 1]
<1>1. a \in Nat /\ b \in Nat
  <2>1. j + 1 \in Nat OBVIOUS
  <2> QED BY <2>1, Pow2Step
<1> HIDE DEF a, b
<1> DEFINE t == WindowTable(Multiple(q, a), Multiple(q, b))
<1>2. /\ t[1] = Zero /\ t[2] = Multiple(q, a) /\ t[3] = Multiple(q, b)
      /\ t[4] = Sum(Multiple(q, a), Multiple(q, b))
  BY DEF WindowTable
<1>3. t[4] = Multiple(q, a + b) BY <1>1, <1>2, MultiplePlus
<1>4. t[1] = Multiple(q, 0) BY <1>2, MultipleStep
<1> HIDE DEF t
<1>5. t[1 + WindowIndex(low, high)] = Multiple(q, low * a + high * b)
  <2>1. CASE low = 0 /\ high = 0
    <3>1. 1 + WindowIndex(low, high) = 1 /\ low * a + high * b = 0
      BY <1>1, <2>1 DEF WindowIndex
    <3> QED BY <1>4, <3>1
  <2>2. CASE low = 1 /\ high = 0
    <3>1. 1 + WindowIndex(low, high) = 2 /\ low * a + high * b = a
      BY <1>1, <2>2 DEF WindowIndex
    <3> QED BY <1>2, <3>1
  <2>3. CASE low = 0 /\ high = 1
    <3>1. 1 + WindowIndex(low, high) = 3 /\ low * a + high * b = b
      BY <1>1, <2>3 DEF WindowIndex
    <3> QED BY <1>2, <3>1
  <2>4. CASE low = 1 /\ high = 1
    <3>1. 1 + WindowIndex(low, high) = 4 /\ low * a + high * b = a + b
      BY <1>1, <2>4 DEF WindowIndex
    <3> QED BY <1>3, <3>1
  <2> QED BY <2>1, <2>2, <2>3, <2>4
<1> QED BY <1>5 DEF t, a, b

(* The precomputed multiples of a base, added by windows of two bits.      *)
LEMMA PrecomputedIs ==
  ASSUME NEW p \in Points, NEW q \in Points, NEW n \in Nat, NEW m \in Nat, m <= n,
         NEW bits \in [1 .. m -> {0, 1}], Len(bits) = m
  PROVE  PrecomputedMul(p, bits, BaseTable(q, n))
           = {Sum(p, Multiple(q, Number(bits)))}
<1> DEFINE bs == BaseTable(q, n)
           W == m \div 2
<1>1. W \in Nat /\ 2 * W <= m /\ (m % 2 = 0 => 2 * W = m)
      /\ (m % 2 # 0 => 2 * W + 1 = m)
  OBVIOUS
<1>2. PICK v : Numbers(v, bits, m) /\ Number(bits) = v[m] BY NumberIs
<1>3. ASSUME NEW k \in 1 .. m
      PROVE  /\ bs[k] = Multiple(q, Pow2[k - 1]) /\ bits[k] \in {0, 1}
             /\ Pow2[k - 1] \in Nat /\ v[k - 1] \in Nat /\ v[k] \in Nat
             /\ v[k] = v[k - 1] + bits[k] * Pow2[k - 1]
  <2>1. k \in 1 .. n /\ k - 1 \in Nat /\ k - 1 \in 0 .. m /\ k \in 0 .. m
    OBVIOUS
  <2> QED BY <1>2, <2>1, Pow2Step DEF Numbers, BaseTable
<1> HIDE DEF bs, W
<1> DEFINE at(k) == Sum(p, Multiple(q, v[k]))
           e == [k \in 0 .. W |-> {at(2 * k)}]
           r == CHOOSE f : f = [k \in 0 .. W |->
                  IF k = 0 THEN {p}
                  ELSE UNION {TwoBits(x, bits, bs, 2 * k - 1) : x \in f[k - 1]}]
<1>4. \A k \in 0 .. m : v[k] \in Nat /\ Multiple(q, v[k]) \in Points /\ at(k) \in Points
  <2> SUFFICES ASSUME NEW k \in 0 .. m
               PROVE  v[k] \in Nat /\ Multiple(q, v[k]) \in Points /\ at(k) \in Points
    OBVIOUS
  <2>1. v[k] \in Nat BY <1>2 DEF Numbers
  <2>2. Multiple(q, v[k]) \in Points BY <2>1, MultipleStep
  <2> QED BY <2>1, <2>2, SumClosed
<1>5. at(0) = p
  <2>1. v[0] = 0 BY <1>2 DEF Numbers
  <2> QED BY <2>1, MultipleStep, SumZero
<1> HIDE DEF at, e, r
(* Adding a multiple to the sum so far.                                    *)
<1>6. ASSUME NEW k \in 0 .. m, NEW w \in Nat, NEW j \in 0 .. m, v[k] + w = v[j]
      PROVE  Add(at(k), Multiple(q, w)) = {at(j)}
  <2> DEFINE a == Multiple(q, v[k])
             b == Multiple(q, w)
  <2>1. a \in Points /\ b \in Points /\ at(k) \in Points BY <1>4, MultipleStep
  <2>2. Sum(a, b) = Multiple(q, v[j])
    <3>1. v[k] \in Nat BY <1>4
    <3>2. Sum(a, b) = Multiple(q, v[k] + w) BY <3>1, MultiplePlus
    <3> QED BY <1>6, <3>2
  <2>3. at(k) = Sum(p, a) /\ at(j) = Sum(p, Multiple(q, v[j])) BY DEF at
  <2> HIDE DEF a, b
  <2>4. Add(at(k), b) = {Sum(at(k), b)} BY <2>1, AddIs
  <2>5. Sum(Sum(p, a), b) = Sum(p, Sum(a, b)) BY <2>1, SumAssociates
  <2> QED BY <2>2, <2>3, <2>4, <2>5 DEF b
<1>7. ASSUME NEW k \in 1 .. W
      PROVE  UNION {TwoBits(x, bits, bs, 2 * k - 1) : x \in e[k - 1]} = e[k]
  <2> DEFINE i == 2 * k - 1
             w == bits[i] * Pow2[i - 1] + bits[i + 1] * Pow2[(i - 1) + 1]
  <2>1. /\ i \in 1 .. m /\ i + 1 \in 1 .. m /\ i - 1 \in Nat /\ i - 1 = 2 * (k - 1)
        /\ (i - 1) + 1 = (i + 1) - 1 /\ (i + 1) - 1 = i
        /\ i + 1 = 2 * k /\ k - 1 \in 0 .. W /\ k \in 0 .. W
        /\ i - 1 \in 0 .. m /\ i + 1 \in 0 .. m
    BY <1>1
  <2>2. e[k - 1] = {at(i - 1)} /\ e[k] = {at(i + 1)} BY <2>1 DEF e
  <2> HIDE DEF i
  <2>3. /\ bs[i] = Multiple(q, Pow2[i - 1])
        /\ bs[i + 1] = Multiple(q, Pow2[(i - 1) + 1])
        /\ bits[i] \in {0, 1} /\ bits[i + 1] \in {0, 1}
        /\ Pow2[i - 1] \in Nat /\ Pow2[(i - 1) + 1] \in Nat
        /\ v[i - 1] \in Nat /\ v[i] \in Nat
        /\ v[i] = v[i - 1] + bits[i] * Pow2[i - 1]
        /\ v[i + 1] = v[i] + bits[i + 1] * Pow2[(i - 1) + 1]
    BY <1>3, <2>1
  <2>4. w \in Nat /\ v[i - 1] + w = v[i + 1]
    <3> DEFINE l == bits[i]
               h == bits[i + 1]
               a == Pow2[i - 1]
               b == Pow2[(i - 1) + 1]
    <3>1. l \in {0, 1} /\ h \in {0, 1} /\ a \in Nat /\ b \in Nat BY <2>3
    <3>2. v[i] = v[i - 1] + l * a /\ v[i + 1] = v[i] + h * b /\ w = l * a + h * b
      BY <2>3
    <3> HIDE DEF l, h, a, b, w
    <3>3. l * a \in Nat /\ h * b \in Nat BY <3>1
    <3> QED BY <2>3, <3>2, <3>3
  <2>5. WindowTable(bs[i], bs[i + 1])[1 + WindowIndex(bits[i], bits[i + 1])]
          = Multiple(q, w)
    <3> DEFINE j == i - 1
               l == bits[i]
               h == bits[i + 1]
    <3>1. j \in Nat /\ l \in {0, 1} /\ h \in {0, 1} BY <2>1, <2>3
    <3> HIDE DEF j, l, h
    <3>2. WindowTable(Multiple(q, Pow2[j]), Multiple(q, Pow2[j + 1]))
              [1 + WindowIndex(l, h)]
            = Multiple(q, l * Pow2[j] + h * Pow2[j + 1])
      BY <3>1, WindowIs
    <3> QED BY <2>3, <3>2 DEF j, l, h
  <2> HIDE DEF w
  <2>6. TwoBits(at(i - 1), bits, bs, i) = Add(at(i - 1), Multiple(q, w))
    BY <2>5 DEF TwoBits
  <2>7. Add(at(i - 1), Multiple(q, w)) = {at(i + 1)} BY <1>6, <2>1, <2>4
  <2>8. UNION {TwoBits(x, bits, bs, i) : x \in {at(i - 1)}}
          = TwoBits(at(i - 1), bits, bs, i)
    OBVIOUS
  <2> QED BY <2>2, <2>6, <2>7, <2>8 DEF i
<1>8. e = [k \in 0 .. W |->
             IF k = 0 THEN {p}
             ELSE UNION {TwoBits(x, bits, bs, 2 * k - 1) : x \in e[k - 1]}]
  <2> SUFFICES ASSUME NEW k \in 0 .. W
               PROVE  e[k] = IF k = 0 THEN {p}
                             ELSE UNION {TwoBits(x, bits, bs, 2 * k - 1) : x \in e[k - 1]}
    BY DEF e
  <2>1. 0 \in 0 .. W /\ 2 * 0 = 0 BY <1>1
  <2>2. e[0] = {p} BY <1>5, <2>1 DEF e
  <2>3. CASE k = 0 BY <2>2, <2>3
  <2>4. CASE k # 0
    <3>1. k \in 1 .. W BY <1>1, <2>4
    <3> QED BY <1>7, <2>4, <3>1
  <2> QED BY <2>3, <2>4
<1>9. r = [k \in 0 .. W |->
             IF k = 0 THEN {p}
             ELSE UNION {TwoBits(x, bits, bs, 2 * k - 1) : x \in r[k - 1]}]
  BY <1>8 DEF r
<1>10. PrecomputedMul(p, bits, bs)
         = IF m % 2 = 0 THEN r[W] ELSE UNION {LastBit(x, bits, bs, m) : x \in r[W]}
  <2> DEFINE R == CHOOSE f : f = [k \in 0 .. Len(bits) \div 2 |->
                    IF k = 0 THEN {p}
                    ELSE UNION {TwoBits(x, bits, bs, 2 * k - 1) : x \in f[k - 1]}]
  <2>1. R = r BY Zenon DEF r, W
  <2>2. PrecomputedMul(p, bits, bs)
          = IF Len(bits) % 2 = 0 THEN R[Len(bits) \div 2]
            ELSE UNION {LastBit(x, bits, bs, Len(bits)) : x \in R[Len(bits) \div 2]}
    BY Zenon DEF PrecomputedMul
  <2> HIDE DEF R
  <2> QED BY <2>1, <2>2 DEF W
<1> DEFINE K == {k \in Nat : k <= W => r[k] = e[k]}
<1>11. 0 \in K
  <2>1. 0 \in 0 .. W BY <1>1
  <2>2. r[0] = {p} /\ e[0] = {p} BY <1>8, <1>9, <2>1
  <2> QED BY <2>2
<1>12. ASSUME NEW k \in Nat, k \in K PROVE k + 1 \in K
  <2>1. CASE k + 1 <= W
    <3>1. k + 1 \in 1 .. W /\ k + 1 \in 0 .. W /\ k + 1 # 0 /\ (k + 1) - 1 = k
          /\ r[k] = e[k]
      BY <1>1, <1>12, <2>1
    <3>2. r[k + 1]
            = UNION {TwoBits(x, bits, bs, 2 * (k + 1) - 1) : x \in r[(k + 1) - 1]}
      BY <1>9, <3>1
    <3>3. r[k + 1] = e[k + 1] BY <1>7, <3>1, <3>2
    <3> QED BY <3>3
  <2> QED BY <2>1
<1> HIDE DEF K
<1>13. \A k \in Nat : k \in K BY <1>11, <1>12, SetInduction
<1>14. r[W] = e[W] BY <1>1, <1>13 DEF K
<1>15. W \in 0 .. W BY <1>1
<1>16. r[W] = {at(2 * W)} BY <1>14, <1>15 DEF e
<1>17. CASE m % 2 = 0
  <2>1. 2 * W = m BY <1>1, <1>17
  <2> QED BY <1>2, <1>10, <1>16, <1>17, <2>1 DEF bs, at
<1>18. CASE m % 2 # 0
  <2> DEFINE w == bits[m] * Pow2[m - 1]
  <2>1. 2 * W = m - 1 /\ m \in 1 .. m /\ m \in 0 .. m /\ m - 1 \in 0 .. m
    BY <1>1, <1>18
  <2>2. /\ bs[m] = Multiple(q, Pow2[m - 1]) /\ bits[m] \in {0, 1}
        /\ Pow2[m - 1] \in Nat /\ v[m - 1] \in Nat /\ v[m] = v[m - 1] + w
    BY <1>3, <2>1
  <2>3. LastBit(at(m - 1), bits, bs, m) = {at(m)}
    <3> DEFINE s == Sum(at(m - 1), bs[m])
    <3>1. at(m - 1) \in Points /\ bs[m] \in Points BY <1>4, <2>1, <2>2, MultipleStep
    <3>2. Add(at(m - 1), bs[m]) = {s} BY <3>1, AddIs
    <3>3. CASE bits[m] = 1
      <4>1. v[m - 1] + Pow2[m - 1] = v[m] BY <2>2, <3>3
      <4>2. Add(at(m - 1), Multiple(q, Pow2[m - 1])) = {at(m)}
        BY <1>6, <2>1, <2>2, <4>1
      <4>3. s = at(m)
        <5> HIDE DEF s
        <5> QED BY <2>2, <3>2, <4>2
      <4> HIDE DEF s
      <4> QED BY <3>2, <3>3, <4>3 DEF LastBit, Selected
    <3>4. CASE bits[m] = 0
      <4>1. v[m - 1] = v[m] BY <2>2, <3>4
      <4>2. at(m - 1) = at(m) BY <4>1 DEF at
      <4> HIDE DEF s
      <4>3. LastBit(at(m - 1), bits, bs, m) = {Selected(bits[m], s, at(m - 1))}
        BY <3>2 DEF LastBit
      <4> QED BY <3>4, <4>2, <4>3 DEF Selected
    <3> QED BY <2>2, <3>3, <3>4
  <2>4. UNION {LastBit(x, bits, bs, m) : x \in {at(m - 1)}} = LastBit(at(m - 1), bits, bs, m)
    OBVIOUS
  <2>5. PrecomputedMul(p, bits, bs) = {at(m)}
    BY <1>10, <1>16, <1>18, <2>1, <2>3, <2>4
  <2> QED BY <1>2, <2>5 DEF bs, at
<1> QED BY <1>17, <1>18

-----------------------------------------------------------------------------
(* Programs of operations on a variable.                                   *)

(* The scalars are the short sequences of bits.                            *)
LEMMA ScalarIs ==
  ASSUME NEW bits \in Scalars
  PROVE  \E n \in Nat : bits \in [1 .. n -> {0, 1}] /\ Len(bits) = n
<1>1. PICK n \in 0 .. MaxBits : bits \in [1 .. n -> {0, 1}] BY DEF Scalars
<1>2. n \in Nat BY <1>1, BoundAssumption
<1>3. bits \in Seq({0, 1}) /\ Len(bits) = n BY <1>1, <1>2
<1> QED BY <1>1, <1>2, <1>3

(* The first bits of one.                                                  *)
LEMMA PrefixIs ==
  ASSUME NEW scalar \in Scalars, NEW n \in Nat
  PROVE  LET m == Min({Len(scalar), n})
         IN /\ m \in Nat /\ m <= n
            /\ SubSeq(scalar, 1, m) \in [1 .. m -> {0, 1}]
            /\ Len(SubSeq(scalar, 1, m)) = m
<1> DEFINE m == Min({Len(scalar), n})
<1>1. PICK l \in Nat : scalar \in [1 .. l -> {0, 1}] /\ Len(scalar) = l
  BY ScalarIs
<1>2. m \in Nat /\ m <= n /\ m <= l BY <1>1, MinPair
<1> HIDE DEF m
<1>3. scalar \in Seq({0, 1}) BY <1>1
<1>4. SubSeq(scalar, 1, m) \in Seq({0, 1}) /\ Len(SubSeq(scalar, 1, m)) = m
  BY <1>1, <1>2, <1>3
<1>5. SubSeq(scalar, 1, m) \in [1 .. m -> {0, 1}]
  <2> DEFINE s == SubSeq(scalar, 1, m)
  <2>1. s \in Seq({0, 1}) /\ Len(s) = m BY <1>4
  <2> HIDE DEF s
  <2>2. s \in [1 .. m -> {0, 1}] BY <2>1
  <2> QED BY <2>2 DEF s
<1> QED BY <1>2, <1>4, <1>5 DEF m

(* What the constraints let the variable be is the point it stands for.    *)
LEMMA LawKeepsPoint ==
  ASSUME acc = point, point \in Points, LawNext
  PROVE  acc' = point' /\ point' \in Points
<1>1. CASE AllocateVariable
  <2>1. acc' \in Fp \X Fp /\ OnCurveCheck(acc') /\ point' = acc'
    BY <1>1 DEF AllocateVariable
  <2>2. acc' = <<acc'[1], acc'[2]>> /\ acc'[1] \in Fp /\ acc'[2] \in Fp
    BY <2>1
  <2> QED BY <2>1, <2>2, CheckIsCurve
<1>2. CASE AddVariable
  <2>1. PICK q \in Points : acc' \in Add(acc, q) /\ point' = Sum(point, q)
    BY <1>2 DEF AddVariable
  <2>2. acc' \in {Sum(point, q)} BY <2>1, AddIs
  <2> QED BY <2>1, <2>2, SumClosed
<1>3. CASE SubVariable
  <2>1. PICK q \in Points :
          acc' \in Sub(acc, q) /\ point' = Sum(point, Opposite(q))
    BY <1>3 DEF SubVariable
  <2>2. acc' \in {Sum(point, Opposite(q))} BY <2>1, SubIs
  <2> QED BY <2>1, <2>2, OppositeIs, SumClosed
<1>4. CASE DoubleInPlace
  <2>1. acc' \in Double(acc) /\ point' = Sum(point, point)
    BY <1>4 DEF DoubleInPlace
  <2>2. acc' \in {Sum(point, point)} BY <2>1, DoubleIs
  <2> QED BY <2>1, <2>2, SumClosed
<1>5. CASE NegateIt
  BY <1>5, OppositeIs DEF NegateIt
<1>6. CASE ScalarMul
  <2>1. PICK bits \in Scalars :
          /\ acc' \in ScalarMulLe(acc, bits)
          /\ point' = Multiple(point, Number(bits))
    BY <1>6 DEF ScalarMul
  <2>2. PICK n \in Nat : bits \in [1 .. n -> {0, 1}] /\ Len(bits) = n
    BY ScalarIs
  <2>3. acc' \in {Multiple(point, Number(bits))} BY <2>1, <2>2, ScalarMulIs
  <2>4. Number(bits) \in Nat
    <3>1. PICK v : Numbers(v, bits, n) /\ Number(bits) = v[n] BY <2>2, NumberIs
    <3> QED BY <3>1 DEF Numbers
  <2> QED BY <2>1, <2>3, <2>4, MultipleStep
<1>7. CASE TableMul
  <2>1. PICK scalar \in Scalars, q \in Points, n \in 0 .. MaxBits :
          LET bits == SubSeq(scalar, 1, Min({Len(scalar), n}))
          IN /\ acc' \in PrecomputedMul(acc, bits, BaseTable(q, n))
             /\ point' = Sum(point, Multiple(q, Number(bits)))
    BY <1>7 DEF TableMul
  <2> DEFINE m == Min({Len(scalar), n})
             bits == SubSeq(scalar, 1, m)
  <2>2. n \in Nat BY BoundAssumption
  <2>3. m \in Nat /\ m <= n /\ bits \in [1 .. m -> {0, 1}] /\ Len(bits) = m
    BY <2>2, PrefixIs
  <2>4. /\ acc' \in PrecomputedMul(acc, bits, BaseTable(q, n))
        /\ point' = Sum(point, Multiple(q, Number(bits)))
    BY <2>1
  <2> HIDE DEF m, bits
  <2>5. acc' \in {Sum(point, Multiple(q, Number(bits)))}
    BY <2>2, <2>3, <2>4, PrecomputedIs
  <2>6. Number(bits) \in Nat
    <3>1. PICK v : Numbers(v, bits, m) /\ Number(bits) = v[m] BY <2>3, NumberIs
    <3> QED BY <2>3, <3>1 DEF Numbers
  <2> QED BY <2>4, <2>5, <2>6, MultipleStep, SumClosed
<1> QED BY <1>1, <1>2, <1>3, <1>4, <1>5, <1>6, <1>7 DEF LawNext

-----------------------------------------------------------------------------
(* The Montgomery model.                                                   *)

(* The coefficients differ, one being a square and the other not.          *)
LEMMA CoefficientGap == A - D \in Int /\ ~Vanishes(A - D)
<1>1. A - D \in Int BY Coefficients
<1> SUFFICES ASSUME Vanishes(A - D) PROVE FALSE BY <1>1
<1>2. PICK s \in Int : Vanishes(s * s - A) BY SquareA
<1>3. s * s - A \in Int BY <1>2, Coefficients
<1> DEFINE w == Combine(1, s * s - A, 1, A - D)
<1>4. Vanishes(w)
  <2>1. 1 \in Int OBVIOUS
  <2> QED BY <1>1, <1>2, <1>3, <2>1, VanishesSum
<1>5. w = s * s - D BY <1>2, Coefficients DEF Combine
<1> HIDE DEF w
<1> QED BY <1>2, <1>4, <1>5, NoSquareD

(* COEFF_A and COEFF_B by what they satisfy.                               *)
LEMMA MontCoefficients ==
  /\ MontA \in Int /\ Vanishes(MontA * (A - D) - 2 * (A + D))
  /\ MontB \in Int /\ Vanishes(MontB * (A - D) - 4)
<1> DEFINE d == A - D
           n == 2 * (A + D)
<1>1. d \in Int /\ ~Vanishes(d) /\ n \in Int /\ 4 \in Int
  BY CoefficientGap, Coefficients
<1>2. MontA = Red(n * Inverse0(d)) /\ MontB = Red(4 * Inverse0(d))
  BY DEF MontA, MontB
<1> HIDE DEF d, n
<1>3. MontA \in Fp /\ Vanishes(MontA * d - n) BY <1>1, <1>2, DivisionIs
<1>4. MontB \in Fp /\ Vanishes(MontB * d - 4) BY <1>1, <1>2, DivisionIs
<1> QED BY <1>3, <1>4, ElementRed DEF d, n

(* Only the points with a zero first coordinate have one or minus one as   *)
(* the second.                                                             *)
LEMMA EdgeOfCurve ==
  ASSUME NEW x \in Int, NEW y \in Int, Vanishes(Curve(x, y)),
         Vanishes(1 - y) \/ Vanishes(1 + y)
  PROVE  Vanishes(x)
<1> DEFINE c == Curve(x, y)
           g == A - D
           h == (1 + y) * (D * x * x - 1)
           k == (1 - y) * (D * x * x - 1)
           z == g * (x * x)
<1>1. c \in Int /\ g \in Int /\ h \in Int /\ k \in Int /\ - h \in Int /\ - k \in Int
  BY CurveInt, Coefficients
<1>2. 1 - y \in Int /\ 1 + y \in Int /\ Vanishes(c) /\ 1 \in Int OBVIOUS
<1>3. Combine(1, c, - h, 1 - y) = z /\ Combine(1, c, - k, 1 + y) = z
  BY Coefficients DEF Combine, Curve
<1> HIDE DEF c, h, k, z
<1>4. Vanishes(z)
  <2>1. CASE Vanishes(1 - y)
    <3>1. Vanishes(Combine(1, c, - h, 1 - y)) BY <1>1, <1>2, <2>1, VanishesSum
    <3> QED BY <1>3, <3>1
  <2>2. CASE Vanishes(1 + y)
    <3>1. Vanishes(Combine(1, c, - k, 1 + y)) BY <1>1, <1>2, <2>2, VanishesSum
    <3> QED BY <1>3, <3>1
  <2> QED BY <2>1, <2>2
<1>5. x * x \in Int OBVIOUS
<1>6. Vanishes(x * x) BY <1>1, <1>4, <1>5, CoefficientGap, NoZeroDivisors DEF z, g
<1> QED BY <1>6, NoZeroDivisors

(* The zero of the group is the point without Montgomery coordinates.      *)
LEMMA ConvertMeans ==
  ASSUME NEW q \in Points
  PROVE  CanConvert(q) <=> q # Zero
<1>1. q = <<q[1], q[2]>> /\ q[1] \in Fp /\ q[1] \in Int /\ q[2] \in Int
      /\ Vanishes(Curve(q[1], q[2]))
  BY PointHas
<1>2. ASSUME q[2] = 1 PROVE q[1] = 0
  <2>1. 1 - q[2] = 0 BY <1>2
  <2>2. Vanishes(1 - q[2]) BY <2>1, ZeroVanishes
  <2>3. Vanishes(q[1]) BY <1>1, <2>2, EdgeOfCurve
  <2> QED BY <1>1, <2>3, ElementZero
<1>3. q[2] = 1 => q = Zero BY <1>1, <1>2 DEF Zero
<1>4. Zero[2] = 1 BY DEF Zero
<1> QED BY <1>3, <1>4 DEF CanConvert

(* A point with a zero first coordinate is the zero of the group or the    *)
(* point of order two, whose second coordinate is minus one.               *)
LEMMA OrderTwo ==
  ASSUME NEW q \in Points, q # Zero, q[1] = 0
  PROVE  Vanishes(1 + q[2])
<1> DEFINE y == q[2]
<1>1. q = <<q[1], y>> /\ y \in Fp /\ y \in Int /\ Vanishes(Curve(0, y)) BY PointHas
<1>2. Curve(0, y) = (y - 1) * (1 + y) BY <1>1, Coefficients DEF Curve
<1>3. ~Vanishes(y - 1)
  <2> SUFFICES ASSUME Vanishes(y - 1) PROVE FALSE OBVIOUS
  <2>1. 1 \in Fp BY Modulus DEF Fp
  <2>2. y = 1 BY <1>1, <2>1, ElementsEqual
  <2> QED BY <1>1, <2>2 DEF Zero
<1>4. y - 1 \in Int /\ 1 + y \in Int BY <1>1
<1> HIDE DEF y
<1>5. Vanishes((y - 1) * (1 + y)) BY <1>1, <1>2
<1> QED BY <1>3, <1>4, <1>5, NoZeroDivisors DEF y

(* The Montgomery coordinates by what they satisfy.                        *)
IsMont(u, v, q) ==
  IF q[1] = 0 THEN u = 0 /\ v = 0
  ELSE Vanishes(u * (1 - q[2]) - (1 + q[2])) /\ Vanishes(v * q[1] - u)

(* The two denominators of the conversion.                                 *)
LEMMA MontDenominators ==
  ASSUME NEW q \in Points, q[1] # 0
  PROVE  /\ q[1] \in Int /\ q[2] \in Int /\ Vanishes(Curve(q[1], q[2]))
         /\ ~Vanishes(q[1]) /\ ~Vanishes(1 - q[2]) /\ ~Vanishes(1 + q[2])
<1>1. q[1] \in Fp /\ q[1] \in Int /\ q[2] \in Int /\ Vanishes(Curve(q[1], q[2]))
  BY PointHas
<1>2. ~Vanishes(q[1]) BY <1>1, ElementZero
<1> QED BY <1>1, <1>2, EdgeOfCurve

(* The coordinates that the conversion computes satisfy that.              *)
LEMMA MontHas ==
  ASSUME NEW q \in Points
  PROVE  LET m == FromEdwards(q)
         IN /\ m = <<m[1], m[2]>> /\ m[1] \in Fp /\ m[2] \in Fp
            /\ m[1] \in Int /\ m[2] \in Int
            /\ IsMont(m[1], m[2], q)
<1>1. CASE q[1] = 0
  <2>1. FromEdwards(q) = <<0, 0>> BY <1>1 DEF FromEdwards
  <2>2. 0 \in Fp BY Modulus DEF Fp
  <2> QED BY <1>1, <2>1, <2>2 DEF IsMont
<1>2. CASE q[1] # 0
  <2> DEFINE d == 1 - q[2]
             n == 1 + q[2]
             x == q[1]
             u == Red(n * Inverse0(d))
             v == Red(u * Inverse0(x))
  <2>1. d \in Int /\ n \in Int /\ x \in Int /\ ~Vanishes(d) /\ ~Vanishes(x)
    BY <1>2, MontDenominators
  <2>2. FromEdwards(q) = <<u, v>> BY <1>2 DEF FromEdwards
  <2>3. IsMont(u, v, q) <=> Vanishes(u * d - n) /\ Vanishes(v * x - u)
    BY <1>2 DEF IsMont
  <2> HIDE DEF d, n, x
  <2>4. u \in Fp /\ Vanishes(u * d - n) BY <2>1, DivisionIs
  <2>5. u \in Int BY <2>4, ElementRed
  <2> HIDE DEF u
  <2>6. v \in Fp /\ Vanishes(v * x - u) BY <2>1, <2>5, DivisionIs
  <2>7. v \in Int BY <2>6, ElementRed
  <2> HIDE DEF v
  <2> QED BY <2>2, <2>3, <2>4, <2>5, <2>6, <2>7
<1> QED BY <1>1, <1>2

(* A product with what does not vanish determines the other factor.        *)
LEMMA FactorUnique ==
  ASSUME NEW d \in Int, NEW n \in Int, NEW x \in Fp, NEW y \in Fp,
         ~Vanishes(d), Vanishes(x * d - n), Vanishes(y * d - n)
  PROVE  x = y
<1>1. Quotients(n, d) = {x} BY QuotientIs
<1>2. Quotients(n, d) = {y} BY QuotientIs
<1> QED BY <1>1, <1>2

(* They are the only ones.                                                 *)
LEMMA MontIs ==
  ASSUME NEW q \in Points, NEW u \in Fp, NEW v \in Fp, IsMont(u, v, q)
  PROVE  FromEdwards(q) = <<u, v>>
<1> DEFINE m == FromEdwards(q)
<1>1. /\ m = <<m[1], m[2]>> /\ m[1] \in Fp /\ m[2] \in Fp
      /\ m[1] \in Int /\ m[2] \in Int
      /\ IsMont(m[1], m[2], q)
  BY MontHas
<1> HIDE DEF m
<1>2. CASE q[1] = 0
  BY <1>1, <1>2 DEF IsMont, m
<1>3. CASE q[1] # 0
  <2> DEFINE d == 1 - q[2]
             n == 1 + q[2]
             x == q[1]
  <2>1. d \in Int /\ n \in Int /\ x \in Int /\ ~Vanishes(d) /\ ~Vanishes(x)
    BY <1>3, MontDenominators
  <2>2. /\ Vanishes(u * d - n) /\ Vanishes(v * x - u)
        /\ Vanishes(m[1] * d - n) /\ Vanishes(m[2] * x - m[1])
    BY <1>1, <1>3 DEF IsMont
  <2> HIDE DEF d, n, x
  <2>3. m[1] = u BY <1>1, <2>1, <2>2, FactorUnique
  <2>4. u \in Int BY ElementRed
  <2>5. m[2] = v BY <1>1, <2>1, <2>2, <2>3, <2>4, FactorUnique
  <2> QED BY <1>1, <2>3, <2>5 DEF m
<1> QED BY <1>2, <1>3

(* The way back gives the point and nothing else.                          *)
LEMMA IntoIs ==
  ASSUME NEW q \in Points, q[1] # 0
  PROVE  IntoEdwards(FromEdwards(q)) = {q}
<1> DEFINE x == q[1]
           y == q[2]
           u == FromEdwards(q)[1]
           v == FromEdwards(q)[2]
           e == 1 - y
           f == u * e - (1 + y)
           g == v * x - u
<1>1. /\ x \in Int /\ y \in Int /\ ~Vanishes(x) /\ ~Vanishes(e) /\ ~Vanishes(1 + y)
  BY MontDenominators
<1>2. q = <<x, y>> /\ x \in Fp /\ y \in Fp BY PointHas
<1>3. /\ u \in Int /\ v \in Int /\ Vanishes(f) /\ Vanishes(g)
  BY MontHas DEF IsMont
<1>4. IntoEdwards(FromEdwards(q)) = Quotients(u, v) \X Quotients(u - 1, u + 1)
  BY DEF IntoEdwards
<1> HIDE DEF x, y, u, v
<1>5. e \in Int /\ f \in Int /\ g \in Int /\ 1 + y \in Int BY <1>1, <1>3
(* The first coordinate is not zero, nor is the second.                    *)
<1>6. ~Vanishes(u)
  <2> SUFFICES ASSUME Vanishes(u) PROVE FALSE OBVIOUS
  <2>1. Vanishes(1 + y)
    <3>1. e \in Int /\ u \in Int /\ -1 \in Int /\ f \in Int
      BY <1>1, <1>3, <1>5
    <3>2. Vanishes(u) /\ Vanishes(f)
      BY <1>3
    <3>3. Combine(e, u, -1, f) = 1 + y
      BY <1>1, <1>3 DEF Combine
    <3>4. Vanishes(Combine(e, u, -1, f))
      BY <3>1, <3>2, VanishesSum, Zenon
    <3> QED BY <3>3, <3>4
  <2> QED BY <1>1, <2>1
<1>7. ~Vanishes(v)
  <2> SUFFICES ASSUME Vanishes(v) PROVE FALSE OBVIOUS
  <2>1. Vanishes(u)
    <3>1. x \in Int /\ v \in Int /\ -1 \in Int /\ g \in Int
      BY <1>1, <1>3, <1>5
    <3>2. Vanishes(v) /\ Vanishes(g)
      BY <1>3
    <3>3. Combine(x, v, -1, g) = u
      BY <1>1, <1>3 DEF Combine
    <3>4. Vanishes(Combine(x, v, -1, g))
      BY <3>1, <3>2, VanishesSum, Zenon
    <3> QED BY <3>3, <3>4
  <2> QED BY <1>6, <2>1
<1>8. ~Vanishes(u + 1)
  <2> SUFFICES ASSUME Vanishes(u + 1) PROVE FALSE OBVIOUS
  <2>1. Vanishes(2)
    <3> DEFINE f1 == u + 1
    <3>1. e \in Int /\ f1 \in Int /\ -1 \in Int /\ f \in Int
      BY <1>1, <1>3, <1>5
    <3>2. Vanishes(f1) /\ Vanishes(f)
      BY <1>3
    <3>3. Combine(e, f1, -1, f) = 2
      BY <1>1, <1>3 DEF Combine
    <3> HIDE DEF f1
    <3>4. Vanishes(Combine(e, f1, -1, f))
      BY <3>1, <3>2, VanishesSum, Zenon
    <3> QED BY <3>3, <3>4
  <2> QED BY <2>1, TwoIsNotZero
<1>9. Vanishes(x * v - u)
  <2>1. x * v - u = g BY <1>1, <1>3
  <2> QED BY <1>3, <2>1
<1>10. Vanishes(y * (u + 1) - (u - 1))
  <2> DEFINE z == y * (u + 1) - (u - 1)
  <2>1. z \in Int BY <1>1, <1>3
  <2>2. Vanishes(e * z)
    <3> DEFINE g1 == - e
    <3>1. g1 \in Int /\ f \in Int /\ 0 \in Int
      BY <1>1, <1>5
    <3>2. Vanishes(f) /\ Vanishes(f)
      BY <1>3
    <3>3. Combine(g1, f, 0, f) = e * z
      BY <1>1, <1>3 DEF Combine
    <3> HIDE DEF g1
    <3>4. Vanishes(Combine(g1, f, 0, f))
      BY <3>1, <3>2, VanishesSum, Zenon
    <3> QED BY <3>3, <3>4
  <2> HIDE DEF z
  <2> QED BY <1>1, <1>5, <2>1, <2>2, NoZeroDivisors DEF z
<1>11. Quotients(u, v) = {x} BY <1>2, <1>3, <1>7, <1>9, QuotientIs
<1>12. Quotients(u - 1, u + 1) = {y}
  <2> DEFINE d == u + 1
             n == u - 1
  <2>1. d \in Int /\ n \in Int /\ ~Vanishes(d) /\ Vanishes(y * d - n)
    BY <1>3, <1>8, <1>10
  <2> HIDE DEF d, n
  <2>2. Quotients(n, d) = {y} BY <1>2, <2>1, QuotientIs
  <2> QED BY <2>2 DEF d, n
<1>13. {x} \X {y} = {<<x, y>>} OBVIOUS
<1> QED BY <1>2, <1>4, <1>11, <1>12, <1>13

(* A square does not cancel D times a square.                              *)
LEMMA SlopeFactor ==
  ASSUME NEW y \in Int
  PROVE  A - D * y * y \in Int /\ ~Vanishes(A - D * y * y)
<1> DEFINE k == A - D * y * y
<1>1. k \in Int BY Coefficients
<1> SUFFICES ASSUME Vanishes(k) PROVE FALSE BY <1>1
<1>2. PICK s \in Int : Vanishes(s * s - A) BY SquareA
<1>3. Vanishes(s * s - D * (y * y))
  <2>1. Vanishes(s * s - D * (y * y))
    <3> DEFINE f2 == s * s - A
    <3>1. 1 \in Int /\ k \in Int /\ f2 \in Int
      BY <1>1, <1>2, Coefficients
    <3>2. Vanishes(k) /\ Vanishes(f2)
      BY <1>2
    <3>3. Combine(1, k, 1, f2) = s * s - D * (y * y)
      BY <1>2, Coefficients DEF Combine
    <3> HIDE DEF f2
    <3>4. Vanishes(Combine(1, k, 1, f2))
      BY <3>1, <3>2, VanishesSum, Zenon
    <3> QED BY <3>3, <3>4
  <2> QED BY <2>1
<1>4. Vanishes(s) BY <1>2, <1>3, NonSquare
<1>5. Vanishes(A)
  <2>1. Vanishes(A)
    <3> DEFINE f2 == s * s - A
    <3>1. s \in Int /\ -1 \in Int /\ f2 \in Int
      BY <1>2, Coefficients
    <3>2. Vanishes(s) /\ Vanishes(f2)
      BY <1>2, <1>4
    <3>3. Combine(s, s, -1, f2) = A
      BY <1>2, Coefficients DEF Combine
    <3> HIDE DEF f2
    <3>4. Vanishes(Combine(s, s, -1, f2))
      BY <3>1, <3>2, VanishesSum, Zenon
    <3> QED BY <3>3, <3>4
  <2> QED BY <2>1
<1> QED BY <1>5, Coefficients

(* Two points with the same second coordinate are equal or opposite.       *)
LEMMA HeightsDiffer ==
  ASSUME NEW p \in Points, NEW q \in Points, q \notin {p, Opposite(p)}
  PROVE  ~Vanishes(q[2] - p[2])
<1> SUFFICES ASSUME Vanishes(q[2] - p[2]) PROVE FALSE OBVIOUS
<1> DEFINE x1 == p[1]
           x2 == q[1]
           y == p[2]
           k == A - D * y * y
           c1 == Curve(x1, y)
           c2 == Curve(x2, y)
<1>1. /\ p = <<x1, y>> /\ x1 \in Fp /\ y \in Fp /\ x1 \in Int /\ y \in Int
      /\ Vanishes(c1)
  BY PointHas
<1>2. /\ q = <<x2, q[2]>> /\ x2 \in Fp /\ q[2] \in Fp /\ x2 \in Int
      /\ Vanishes(Curve(x2, q[2]))
  BY PointHas
<1>3. q[2] = y BY <1>1, <1>2, ElementsEqual
<1>4. Vanishes(c2) BY <1>2, <1>3
<1>5. k \in Int /\ ~Vanishes(k) BY <1>1, SlopeFactor
<1>6. c1 \in Int /\ c2 \in Int BY <1>1, <1>2, CurveInt
<1> DEFINE e == x2 - x1
           f == x2 + x1
<1>7. k * (e * f) = c2 - c1 BY <1>1, <1>2, Coefficients DEF Curve
<1>8. e \in Int /\ f \in Int BY <1>1, <1>2
<1>9. Opposite(p) = <<Opposite(p)[1], y>> /\ Opposite(p)[1] \in Fp
      /\ Opposite(p)[1] \in Int /\ Vanishes(Opposite(p)[1] + x1)
  <2>1. Opposite(p) \in Points BY OppositeIs
  <2> QED BY <2>1, OppositeIs, PointHas
<1> HIDE DEF c1, c2, k, e, f
<1>10. Vanishes(k * (e * f))
  <2>1. Vanishes(k * (e * f))
    <3>1. 1 \in Int /\ c2 \in Int /\ -1 \in Int /\ c1 \in Int
      BY <1>6
    <3>2. Vanishes(c2) /\ Vanishes(c1)
      BY <1>1, <1>4
    <3>3. Combine(1, c2, -1, c1) = k * (e * f)
      BY <1>6, <1>7 DEF Combine
    <3>4. Vanishes(Combine(1, c2, -1, c1))
      BY <3>1, <3>2, VanishesSum, Zenon
    <3> QED BY <3>3, <3>4
  <2> QED BY <2>1
<1>11. Vanishes(e * f)
  <2>1. e * f \in Int BY <1>8
  <2> QED BY <1>5, <1>10, <2>1, NoZeroDivisors
<1>12. CASE Vanishes(e)
  <2>1. x2 = x1 BY <1>1, <1>2, <1>12, ElementsEqual DEF e
  <2> QED BY <1>1, <1>2, <1>3, <2>1
<1>13. CASE ~Vanishes(e)
  <2>1. Vanishes(f) BY <1>8, <1>11, <1>13, NoZeroDivisors
  <2> DEFINE w == Opposite(p)[1]
  <2>2. w \in Fp /\ w \in Int /\ Vanishes(w + x1) BY <1>9
  <2> HIDE DEF w
  <2>3. Vanishes(x2 - w)
    <3> DEFINE f2 == w + x1
    <3>1. 1 \in Int /\ f \in Int /\ -1 \in Int /\ f2 \in Int
      BY <1>1, <1>8, <2>2
    <3>2. Vanishes(f) /\ Vanishes(f2)
      BY <2>1, <2>2
    <3>3. Combine(1, f, -1, f2) = x2 - w
      BY <1>1, <1>2, <2>2 DEF Combine, f
    <3> HIDE DEF f2
    <3>4. Vanishes(Combine(1, f, -1, f2))
      BY <3>1, <3>2, VanishesSum, Zenon
    <3> QED BY <3>3, <3>4
  <2>4. x2 = w BY <1>2, <2>2, <2>3, ElementsEqual
  <2> QED BY <1>2, <1>3, <1>9, <2>4 DEF w
<1> QED BY <1>12, <1>13

(* The chord through two Montgomery points, by what its slope and the      *)
(* third point satisfy.                                                    *)
Chord(x, y, l, u1, v1, u2, v2) ==
  /\ Vanishes(l * (u2 - u1) - (v2 - v1))
  /\ Vanishes((A - D) * x - (4 * l * l - 2 * (A + D) - (A - D) * (u1 + u2)))
  /\ Vanishes(y - (l * (u1 - x) - v1))

(* The third point of a chord is the sum, on points other than the two     *)
(* with a zero first coordinate.                                           *)
LEMMA ChordMeets ==
  ASSUME NEW p \in Points, NEW q \in Points, p[1] # 0, q[1] # 0,
         q \notin {p, Opposite(p)}, Sum(p, q) # Zero,
         NEW u1 \in Int, NEW v1 \in Int, IsMont(u1, v1, p),
         NEW u2 \in Int, NEW v2 \in Int, IsMont(u2, v2, q),
         NEW x \in Fp, NEW y \in Fp, NEW l \in Int, Chord(x, y, l, u1, v1, u2, v2)
  PROVE  IsMont(x, y, Sum(p, q))
<1> DEFINE x1 == p[1]
           y1 == p[2]
           x2 == q[1]
           y2 == q[2]
           X == Sum(p, q)[1]
           Y == Sum(p, q)[2]
           T == Tau(x1, y1, x2, y2)
           N1 == CrossX(x1, y1, x2, y2)
           N2 == CrossY(x1, y1, x2, y2)
           c1 == Curve(x1, y1)
           c2 == Curve(x2, y2)
<1>1. /\ x1 \in Int /\ y1 \in Int /\ x2 \in Int /\ y2 \in Int
      /\ Vanishes(c1) /\ Vanishes(c2)
      /\ ~Vanishes(x1) /\ ~Vanishes(x2) /\ ~Vanishes(1 - y1) /\ ~Vanishes(1 - y2)
  BY MontDenominators
<1>2. /\ X \in Int /\ Y \in Int
      /\ Vanishes(X * (1 + T) - N1) /\ Vanishes(Y * (1 - T) - N2)
  BY SumHas DEF IsSum
<1>3. ~Vanishes(1 + T) /\ ~Vanishes(1 - T)
  BY <1>1, DenominatorPlus, DenominatorMinus
<1>4. T \in Int /\ N1 \in Int /\ N2 \in Int /\ c1 \in Int /\ c2 \in Int
  BY <1>1, TauInt, CrossInt, CurveInt
<1>5. ~Vanishes(y2 - y1) BY HeightsDiffer
<1>6. /\ Vanishes(u1 * (1 - y1) - (1 + y1)) /\ Vanishes(v1 * x1 - u1)
      /\ Vanishes(u2 * (1 - y2) - (1 + y2)) /\ Vanishes(v2 * x2 - u2)
  BY DEF IsMont
<1>7. x \in Int /\ y \in Int BY ElementRed
<1> DEFINE g == A - D
<1>8. g \in Int /\ ~Vanishes(g) BY CoefficientGap
<1> DEFINE el == l * (u2 - u1) - (v2 - v1)
           ex == g * x - (4 * l * l - 2 * (A + D) - g * (u1 + u2))
           ey == y - (l * (u1 - x) - v1)
           eu1 == u1 * (1 - y1) - (1 + y1)
           eu2 == u2 * (1 - y2) - (1 + y2)
           ev1 == v1 * x1 - u1
           ev2 == v2 * x2 - u2
           eX == X * (1 + T) - N1
           eY == Y * (1 - T) - N2
<1>9. /\ Vanishes(el) /\ Vanishes(ex) /\ Vanishes(ey)
      /\ Vanishes(eu1) /\ Vanishes(eu2) /\ Vanishes(ev1) /\ Vanishes(ev2)
      /\ Vanishes(eX) /\ Vanishes(eY)
  BY <1>2, <1>6 DEF Chord
<1> HIDE DEF x1, y1, x2, y2, X, Y, T, N1, N2, c1, c2, g
<1>10. /\ el \in Int /\ ex \in Int /\ ey \in Int
       /\ eu1 \in Int /\ eu2 \in Int /\ ev1 \in Int /\ ev2 \in Int
       /\ eX \in Int /\ eY \in Int
  BY <1>1, <1>2, <1>4, <1>7, <1>8, Coefficients
<1> HIDE DEF el, ex, ey, eu1, eu2, ev1, ev2, eX, eY
<1> DEFINE n == y1 * y2
           m == x1 * x2
           d == y2 - y1
           F == (1 - y1) * (1 - y2)
           G == (1 + y1) * (1 + y2)
           h1 == 1 - y1 * y1
           h2 == 1 - y2 * y2
           k1 == A - D * y1 * y1
           k2 == A - D * y2 * y2
           V == (1 - y1) * (1 + y2) * x1 - (1 + y1) * (1 - y2) * x2
           Q == (A + D) * F + g * (1 - n)
           M == 1 - T - N2
           L == 1 - T + N2
           s == x2 - x1
<1>11. /\ n \in Int /\ m \in Int /\ d \in Int /\ F \in Int /\ G \in Int
       /\ h1 \in Int /\ h2 \in Int /\ k1 \in Int /\ k2 \in Int
       /\ V \in Int /\ Q \in Int /\ M \in Int /\ L \in Int /\ s \in Int
  BY <1>1, <1>4, <1>8, Coefficients
<1>12. ~Vanishes(d) /\ ~Vanishes(m) /\ ~Vanishes(F) /\ ~Vanishes(k1) /\ ~Vanishes(k2)
  <2>1. 1 - y1 \in Int /\ 1 - y2 \in Int BY <1>1
  <2> QED BY <1>1, <1>5, <2>1, ProductIsNotZero, SlopeFactor
<1>13. ~Vanishes(2) /\ 2 \in Int BY TwoIsNotZero
<1> DEFINE i1 == 1 - y1
           i2 == 1 - y2
<1>14. i1 \in Int /\ i2 \in Int BY <1>1
<1> HIDE DEF n, m, d, F, G, h1, h2, k1, k2, V, Q, M, L, s, i1, i2
(* The slope.                                                              *)
<1> DEFINE w1 == F * (u2 - u1) - 2 * d
           w2 == F * m * (v2 - v1) - V
           e1 == 2 * d * m * l - V
<1>15. w1 \in Int /\ w2 \in Int /\ e1 \in Int BY <1>11
<1>16. Vanishes(w1)
  <2> DEFINE g2 == - i2
  <2>1. i1 \in Int /\ eu2 \in Int /\ g2 \in Int /\ eu1 \in Int
    BY <1>1, <1>2, <1>4, <1>7, <1>8, <1>10, <1>11, <1>14, Coefficients
  <2>2. Vanishes(eu2) /\ Vanishes(eu1)
    BY <1>9
  <2>3. Combine(i1, eu2, g2, eu1) = w1
    BY <1>1, <1>2, <1>4, <1>7, <1>8, Coefficients DEF Combine, w1, F, d, i1, i2, eu1, eu2
  <2> HIDE DEF g2
  <2>4. Vanishes(Combine(i1, eu2, g2, eu1))
    BY <2>1, <2>2, VanishesSum, Zenon
  <2> QED BY <2>3, <2>4
<1>17. Vanishes(w2)
  <2> DEFINE g1 == F * x1
             g2 == x1 * i1
             g3 == - (F * x2)
             g4 == - (x2 * i2)
  <2>1. g1 \in Int /\ ev2 \in Int /\ g2 \in Int /\ eu2 \in Int
        /\ g3 \in Int /\ ev1 \in Int /\ g4 \in Int /\ eu1 \in Int
    BY <1>1, <1>2, <1>4, <1>7, <1>8, <1>10, <1>11, <1>14, Coefficients
  <2>2. Vanishes(ev2) /\ Vanishes(eu2) /\ Vanishes(ev1) /\ Vanishes(eu1)
    BY <1>9
  <2>3. Combine4(g1, ev2, g2, eu2, g3, ev1, g4, eu1) = w2
    BY <1>1, <1>2, <1>4, <1>7, <1>8, Coefficients DEF Combine4, w2, F, m, V, i1, i2, eu1, eu2, ev1, ev2
  <2> HIDE DEF g1, g2, g3, g4
  <2>4. Vanishes(Combine4(g1, ev2, g2, eu2, g3, ev1, g4, eu1))
    BY <2>1, <2>2, VanishesSum4, Zenon
  <2> QED BY <2>3, <2>4
<1> HIDE DEF w1, w2
<1>18. Vanishes(e1)
  <2> DEFINE g1 == F * m
             g2 == - (m * l)
  <2>1. g1 \in Int /\ el \in Int /\ g2 \in Int /\ w1 \in Int
        /\ 1 \in Int /\ w2 \in Int
    BY <1>1, <1>2, <1>4, <1>7, <1>8, <1>10, <1>11, <1>14, Coefficients, <1>15
  <2>2. Vanishes(el) /\ Vanishes(w1) /\ Vanishes(w2)
    BY <1>9, <1>16, <1>17
  <2>3. Combine3(g1, el, g2, w1, 1, w2) = e1
    BY <1>11 DEF Combine3, e1, w1, w2, el
  <2> HIDE DEF g1, g2
  <2>4. Vanishes(Combine3(g1, el, g2, w1, 1, w2))
    BY <2>1, <2>2, VanishesSum3, Zenon
  <2> QED BY <2>3, <2>4
<1> HIDE DEF e1
(* The first coordinate.                                                   *)
<1> DEFINE e2 == F * g * x - 4 * F * l * l + 2 * Q
           e3 == h1 * h2 - k1 * k2 * m * m
           e4 == F * V * V - F * h1 * h2 * s * s - 2 * d * d * m * m * Q
           e5 == g * d * d * x - k1 * k2 * s * s
<1>19. e2 \in Int /\ e3 \in Int /\ e4 \in Int /\ e5 \in Int BY <1>7, <1>8, <1>11
<1>20. Vanishes(e2)
  <2> DEFINE g2 == - (g * i1)
             g3 == - (g * i2)
  <2>1. F \in Int /\ ex \in Int /\ g2 \in Int /\ eu2 \in Int
        /\ g3 \in Int /\ eu1 \in Int
    BY <1>1, <1>2, <1>4, <1>7, <1>8, <1>10, <1>11, <1>14, Coefficients
  <2>2. Vanishes(ex) /\ Vanishes(eu2) /\ Vanishes(eu1)
    BY <1>9
  <2>3. Combine3(F, ex, g2, eu2, g3, eu1) = e2
    BY <1>1, <1>2, <1>4, <1>7, <1>8, Coefficients DEF Combine3, e2, F, Q, n, i1, i2, ex, eu1, eu2
  <2> HIDE DEF g2, g3
  <2>4. Vanishes(Combine3(F, ex, g2, eu2, g3, eu1))
    BY <2>1, <2>2, VanishesSum3, Zenon
  <2> QED BY <2>3, <2>4
<1>21. Vanishes(e3)
  <2> DEFINE g1 == - (k2 * x2 * x2)
             g2 == - h1
  <2>1. g1 \in Int /\ c1 \in Int /\ g2 \in Int /\ c2 \in Int
    BY <1>1, <1>2, <1>4, <1>7, <1>8, <1>10, <1>11, <1>14, Coefficients
  <2>2. Vanishes(c1) /\ Vanishes(c2)
    BY <1>1
  <2>3. Combine(g1, c1, g2, c2) = e3
    BY <1>1, <1>2, <1>4, <1>7, <1>8, Coefficients DEF Combine, e3, h1, h2, k1, k2, m, c1, c2, Curve
  <2> HIDE DEF g1, g2
  <2>4. Vanishes(Combine(g1, c1, g2, c2))
    BY <2>1, <2>2, VanishesSum, Zenon
  <2> QED BY <2>3, <2>4
<1>22. Vanishes(e4)
  <2> DEFINE g1 == 2 * d * i2 * i2 * x2 * x2
             g2 == - (2 * d * i1 * i1 * x1 * x1)
  <2>1. g1 \in Int /\ c1 \in Int /\ g2 \in Int /\ c2 \in Int
    BY <1>1, <1>2, <1>4, <1>7, <1>8, <1>10, <1>11, <1>14, Coefficients
  <2>2. Vanishes(c1) /\ Vanishes(c2)
    BY <1>1
  <2>3. Combine(g1, c1, g2, c2) = e4
    BY <1>1, <1>2, <1>4, <1>7, <1>8, Coefficients DEF Combine, e4, h1, h2, d, m, n, F, V, Q, s, g, i1, i2, c1, c2, Curve
  <2> HIDE DEF g1, g2
  <2>4. Vanishes(Combine(g1, c1, g2, c2))
    BY <2>1, <2>2, VanishesSum, Zenon
  <2> QED BY <2>3, <2>4
<1> HIDE DEF e2, e3, e4
<1>23. Vanishes((F * m * m) * e5)
  <2> DEFINE g1 == d * d * m * m
             g2 == F * (2 * d * m * l + V)
             g4 == F * s * s
  <2>1. g1 \in Int /\ e2 \in Int /\ g2 \in Int /\ e1 \in Int
        /\ 1 \in Int /\ e4 \in Int /\ g4 \in Int /\ e3 \in Int
    BY <1>1, <1>2, <1>4, <1>7, <1>8, <1>10, <1>11, <1>14, Coefficients, <1>15, <1>19
  <2>2. Vanishes(e2) /\ Vanishes(e1) /\ Vanishes(e4) /\ Vanishes(e3)
    BY <1>18, <1>20, <1>21, <1>22
  <2>3. Combine4(g1, e2, g2, e1, 1, e4, g4, e3) = (F * m * m) * e5
    BY <1>7, <1>8, <1>11 DEF Combine4, e1, e2, e3, e4, e5
  <2> HIDE DEF g1, g2, g4
  <2>4. Vanishes(Combine4(g1, e2, g2, e1, 1, e4, g4, e3))
    BY <2>1, <2>2, VanishesSum4, Zenon
  <2> QED BY <2>3, <2>4
<1> HIDE DEF e5
<1>24. Vanishes(e5)
  <2>1. F * m \in Int /\ ~Vanishes(F * m) BY <1>11, <1>12, ProductIsNotZero
  <2>2. F * m * m \in Int /\ ~Vanishes(F * m * m)
    BY <1>11, <1>12, <2>1, ProductIsNotZero
  <2> QED BY <1>19, <1>23, <2>2, NoZeroDivisors
<1> DEFINE e6 == k1 * k2 * s * s * M - g * d * d * L
           e7 == x * M - L
<1>25. e6 \in Int /\ e7 \in Int BY <1>7, <1>8, <1>11
<1>26. Vanishes(e6)
  <2> DEFINE E == A - D * n
             H == A + D * n
             S == k2 * h1 + k1 * h2
             f == k1 * k2 * s * s - S + 2 * k1 * k2 * m
  <2>1. E \in Int /\ H \in Int /\ S \in Int /\ f \in Int BY <1>11, Coefficients
  <2>2. M = (1 - n) + m * E /\ L = (1 + n) - m * H
    BY <1>1, Coefficients DEF M, L, m, n, T, Tau, N2, CrossY
  <2>3. S * (1 - n) - g * d * d * (1 + n) = 2 * h1 * h2 * E
    BY <1>1, Coefficients DEF g, d, n, h1, h2, k1, k2
  <2>4. S * E + g * d * d * H = 2 * k1 * k2 * (1 - n)
    BY <1>1, Coefficients DEF g, d, n, h1, h2, k1, k2
  <2>5. Vanishes(f)
      <4>1. k2 \in Int /\ c1 \in Int /\ k1 \in Int /\ c2 \in Int
        BY <1>4, <1>11
      <4>2. Vanishes(c1) /\ Vanishes(c2)
        BY <1>1
      <4>3. Combine(k2, c1, k1, c2) = f
        BY <1>1, Coefficients DEF Combine, k1, k2, h1, h2, m, s, c1, c2, Curve
      <4>4. Vanishes(Combine(k2, c1, k1, c2))
        BY <4>1, <4>2, VanishesSum, Zenon
      <4> QED BY <4>3, <4>4
  <2> HIDE DEF E, H, S, f
  <2>6. e6 = M * f + 2 * E * e3
    <3>1. e6 - M * f - 2 * E * e3
            = M * (S - 2 * k1 * k2 * m) - g * d * d * L - 2 * E * (h1 * h2 - k1 * k2 * m * m)
      BY <1>8, <1>11, <2>1 DEF e6, e3, f
    <3> DEFINE K == k1 * k2
               R == g * d * d
               J == h1 * h2
    <3>2. K \in Int /\ R \in Int /\ J \in Int BY <1>8, <1>11
    <3>3. S * (1 - n) - R * (1 + n) = 2 * J * E /\ S * E + R * H = 2 * K * (1 - n)
      BY <1>8, <1>11, <2>1, <2>3, <2>4
    <3>4. e6 - M * f - 2 * E * e3
            = M * (S - 2 * K * m) - R * L - 2 * E * (J - K * m * m)
      BY <1>8, <1>11, <2>1, <3>1
    <3> HIDE DEF K, R, J
    <3>5. M * (S - 2 * K * m) - R * L - 2 * E * (J - K * m * m)
            = (S * (1 - n) - R * (1 + n)) + m * (S * E + R * H)
              - 2 * K * m * (1 - n) - 2 * J * E
      BY <1>11, <2>1, <2>2, <3>2
    <3>6. e6 - M * f - 2 * E * e3
            = 2 * J * E + m * (2 * K * (1 - n)) - 2 * K * m * (1 - n) - 2 * J * E
      BY <3>3, <3>4, <3>5
    <3>7. 2 * J * E + m * (2 * K * (1 - n)) - 2 * K * m * (1 - n) - 2 * J * E = 0
      BY <1>11, <2>1, <3>2
    <3>8. M * f \in Int /\ 2 * E * e3 \in Int BY <1>11, <1>19, <2>1
    <3> QED BY <1>25, <3>6, <3>7, <3>8
  <2>7. Vanishes(e6)
    <3> DEFINE g2 == 2 * E
    <3>1. M \in Int /\ f \in Int /\ g2 \in Int /\ e3 \in Int
      BY <1>11, <1>19, <2>1
    <3>2. Vanishes(f) /\ Vanishes(e3)
      BY <1>21, <2>5
    <3>3. Combine(M, f, g2, e3) = e6
      BY <2>6 DEF Combine
    <3> HIDE DEF g2
    <3>4. Vanishes(Combine(M, f, g2, e3))
      BY <3>1, <3>2, VanishesSum, Zenon
    <3> QED BY <3>3, <3>4
  <2> QED BY <2>7
<1> HIDE DEF e6
<1>27. Vanishes((g * d * d) * e7)
  <2>1. M \in Int /\ e5 \in Int /\ 1 \in Int /\ e6 \in Int
    BY <1>1, <1>2, <1>4, <1>7, <1>8, <1>10, <1>11, <1>14, Coefficients, <1>19, <1>25
  <2>2. Vanishes(e5) /\ Vanishes(e6)
    BY <1>24, <1>26
  <2>3. Combine(M, e5, 1, e6) = (g * d * d) * e7
    BY <1>7, <1>8, <1>11 DEF Combine, e5, e6, e7
  <2>4. Vanishes(Combine(M, e5, 1, e6))
    BY <2>1, <2>2, VanishesSum, Zenon
  <2> QED BY <2>3, <2>4
<1> HIDE DEF e7
<1>28. Vanishes(e7)
  <2> DEFINE t == g * d
  <2>1. t \in Int /\ ~Vanishes(t) BY <1>8, <1>11, <1>12, ProductIsNotZero
  <2> HIDE DEF t
  <2>2. t * d \in Int /\ ~Vanishes(t * d) BY <1>11, <1>12, <2>1, ProductIsNotZero
  <2>3. Vanishes((t * d) * e7) BY <1>27 DEF t
  <2> QED BY <1>25, <2>2, <2>3, NoZeroDivisors
<1> DEFINE eU == x * (1 - Y) - (1 + Y)
<1>29. eU \in Int /\ 1 - T \in Int /\ 1 + T \in Int BY <1>2, <1>4, <1>7
<1>30. Vanishes((1 - T) * eU)
  <2> DEFINE g2 == - (x + 1)
  <2>1. 1 \in Int /\ e7 \in Int /\ g2 \in Int /\ eY \in Int
    BY <1>1, <1>2, <1>4, <1>7, <1>8, <1>10, <1>11, <1>14, Coefficients, <1>25
  <2>2. Vanishes(e7) /\ Vanishes(eY)
    BY <1>9, <1>28
  <2>3. Combine(1, e7, g2, eY) = (1 - T) * eU
    BY <1>2, <1>4, <1>7 DEF Combine, e7, eY, M, L
  <2> HIDE DEF g2
  <2>4. Vanishes(Combine(1, e7, g2, eY))
    BY <2>1, <2>2, VanishesSum, Zenon
  <2> QED BY <2>3, <2>4
<1> HIDE DEF eU
<1>31. Vanishes(eU)
  <2> DEFINE t == 1 - T
  <2>1. t \in Int /\ ~Vanishes(t) /\ Vanishes(t * eU) BY <1>3, <1>29, <1>30
  <2> HIDE DEF t
  <2> QED BY <1>29, <2>1, NoZeroDivisors
<1>32. CASE X # 0
  <2>1. ~Vanishes(M)
    <3> SUFFICES ASSUME Vanishes(M) PROVE FALSE OBVIOUS
    <3> DEFINE t == 1 - T
               f == 1 - Y
    <3>1. t \in Int /\ f \in Int /\ ~Vanishes(t) BY <1>2, <1>3, <1>29
    <3>2. ~Vanishes(f)
      <4>1. Sum(p, q) \in Points BY SumClosed
      <4>2. ~Vanishes(1 - Sum(p, q)[2]) BY <1>32, <4>1, MontDenominators DEF X
      <4> QED BY <4>2 DEF Y
      <3>3. Vanishes(t * f)
        <4>1. 1 \in Int /\ M \in Int /\ -1 \in Int /\ eY \in Int
          BY <1>10, <1>11
        <4>2. Vanishes(M) /\ Vanishes(eY)
          BY <1>9
        <4>3. Combine(1, M, -1, eY) = t * f
          BY <1>2, <1>4 DEF Combine, M, eY
        <4>4. Vanishes(Combine(1, M, -1, eY))
          BY <4>1, <4>2, VanishesSum, Zenon
        <4> QED BY <4>3, <4>4
    <3> HIDE DEF t, f
    <3> QED BY <3>1, <3>2, <3>3, ProductIsNotZero
  <2> DEFINE e8 == 2 * d * m * y - G * (x1 - x2) + V * x
             e9 == N1 * (G * (x1 - x2) * M - V * L) - 2 * d * m * L * (1 + T)
             e10 == y * N1 - x * (1 + T)
  <2>2. e8 \in Int /\ e9 \in Int /\ e10 \in Int BY <1>1, <1>4, <1>7, <1>11, <1>29
    <2>3. Vanishes(e8)
      <3> DEFINE g1 == 2 * d * m
                 g2 == u1 - x
                 g3 == - (2 * d * x2)
                 g4 == (1 + y2) * (x1 - x2)
      <3>1. g1 \in Int /\ ey \in Int /\ g2 \in Int /\ e1 \in Int
            /\ g3 \in Int /\ ev1 \in Int /\ g4 \in Int /\ eu1 \in Int
        BY <1>1, <1>2, <1>4, <1>7, <1>8, <1>10, <1>11, <1>14, Coefficients, <1>15
      <3>2. Vanishes(ey) /\ Vanishes(e1) /\ Vanishes(ev1) /\ Vanishes(eu1)
        BY <1>9, <1>18
      <3>3. Combine4(g1, ey, g2, e1, g3, ev1, g4, eu1) = e8
        BY <1>1, <1>7 DEF Combine4, e1, ey, ev1, eu1, d, m, G, V
      <3> HIDE DEF g1, g2, g3, g4
      <3>4. Vanishes(Combine4(g1, ey, g2, e1, g3, ev1, g4, eu1))
        BY <3>1, <3>2, VanishesSum4, Zenon
      <3> QED BY <3>3, <3>4
  <2> DEFINE e11 == G * (x1 - x2) * M - V * L - 2 * m * (x1 - x2) * (A - D * n * n)
             e12 == N1 * (x1 - x2) * (A - D * n * n) - d * (1 + T) * L
  <2>4. e11 \in Int /\ e12 \in Int BY <1>1, <1>4, <1>11, <1>29, Coefficients
    <2>5. Vanishes(e11)
      <3> DEFINE g1 == 2 * x2 * y2
                 g2 == - (2 * x1 * y1)
      <3>1. g1 \in Int /\ c1 \in Int /\ g2 \in Int /\ c2 \in Int
        BY <1>1, <1>2, <1>4, <1>7, <1>8, <1>10, <1>11, <1>14, Coefficients
      <3>2. Vanishes(c1) /\ Vanishes(c2)
        BY <1>1
      <3>3. Combine(g1, c1, g2, c2) = e11
        BY <1>1, Coefficients DEF Combine, N2, CrossY, T, Tau, M, L, m, n, G, V, c1, c2, Curve
      <3> HIDE DEF g1, g2
      <3>4. Vanishes(Combine(g1, c1, g2, c2))
        BY <3>1, <3>2, VanishesSum, Zenon
      <3> QED BY <3>3, <3>4
    <2>6. Vanishes(e12)
      <3> DEFINE g1 == y2 + D * y1 * y2 * y2 * x2 * x2
                 g2 == - y1 - D * y1 * y1 * y2 * x1 * x1
      <3>1. g1 \in Int /\ c1 \in Int /\ g2 \in Int /\ c2 \in Int
        BY <1>1, <1>2, <1>4, <1>7, <1>8, <1>10, <1>11, <1>14, Coefficients
      <3>2. Vanishes(c1) /\ Vanishes(c2)
        BY <1>1
      <3>3. Combine(g1, c1, g2, c2) = e12
        BY <1>1, Coefficients DEF Combine, N1, CrossX, N2, CrossY, T, Tau, L, d, n, c1, c2, Curve
      <3> HIDE DEF g1, g2
      <3>4. Vanishes(Combine(g1, c1, g2, c2))
        BY <3>1, <3>2, VanishesSum, Zenon
      <3> QED BY <3>3, <3>4
  <2> HIDE DEF e11, e12
    <2>7. Vanishes(e9)
      <3> DEFINE g2 == 2 * m
      <3>1. N1 \in Int /\ e11 \in Int /\ g2 \in Int /\ e12 \in Int
        BY <1>4, <1>11, <2>4
      <3>2. Vanishes(e11) /\ Vanishes(e12)
        BY <2>5, <2>6
      <3>3. Combine(N1, e11, g2, e12) = e9
        BY <1>1, <1>4, <1>11, Coefficients DEF Combine, e9, e11, e12
      <3> HIDE DEF g2
      <3>4. Vanishes(Combine(N1, e11, g2, e12))
        BY <3>1, <3>2, VanishesSum, Zenon
      <3> QED BY <3>3, <3>4
  <2> HIDE DEF e8, e9
    <2>8. Vanishes((2 * d * m * M) * e10)
      <3> DEFINE g1 == N1 * M
                 g2 == - (N1 * V) - 2 * d * m * (1 + T)
      <3>1. g1 \in Int /\ e8 \in Int /\ g2 \in Int /\ e7 \in Int
            /\ 1 \in Int /\ e9 \in Int
        BY <1>1, <1>2, <1>4, <1>7, <1>8, <1>10, <1>11, <1>14, Coefficients, <1>25, <2>2
      <3>2. Vanishes(e8) /\ Vanishes(e7) /\ Vanishes(e9)
        BY <1>28, <2>3, <2>7
      <3>3. Combine3(g1, e8, g2, e7, 1, e9) = (2 * d * m * M) * e10
        BY <1>1, <1>4, <1>7, <1>11 DEF Combine3, e7, e8, e9
      <3> HIDE DEF g1, g2
      <3>4. Vanishes(Combine3(g1, e8, g2, e7, 1, e9))
        BY <3>1, <3>2, VanishesSum3, Zenon
      <3> QED BY <3>3, <3>4
  <2> HIDE DEF e10
  <2>9. Vanishes(e10)
    <3>1. 2 * d \in Int /\ ~Vanishes(2 * d) BY <1>11, <1>12, <1>13, ProductIsNotZero
    <3>2. 2 * d * m \in Int /\ ~Vanishes(2 * d * m)
      BY <1>11, <1>12, <3>1, ProductIsNotZero
    <3>3. 2 * d * m * M \in Int /\ ~Vanishes(2 * d * m * M)
      BY <1>11, <2>1, <3>2, ProductIsNotZero
    <3> QED BY <2>2, <2>8, <3>3, NoZeroDivisors
  <2> DEFINE z == y * X - x
  <2>10. z \in Int BY <1>2, <1>7
    <2>11. Vanishes((1 + T) * z)
      <3>1. y \in Int /\ eX \in Int /\ 1 \in Int /\ e10 \in Int
        BY <1>7, <1>10, <2>2
      <3>2. Vanishes(eX) /\ Vanishes(e10)
        BY <1>9, <2>9
      <3>3. Combine(y, eX, 1, e10) = (1 + T) * z
        BY <1>2, <1>4, <1>7 DEF Combine, eX, e10
      <3>4. Vanishes(Combine(y, eX, 1, e10))
        BY <3>1, <3>2, VanishesSum, Zenon
      <3> QED BY <3>3, <3>4
  <2> HIDE DEF z
  <2>12. Vanishes(z)
    <3> DEFINE t == 1 + T
    <3>1. t \in Int /\ ~Vanishes(t) /\ Vanishes(t * z) BY <1>3, <1>29, <2>11
    <3> HIDE DEF t
    <3> QED BY <2>10, <3>1, NoZeroDivisors
  <2> QED BY <1>31, <1>32, <2>12 DEF IsMont, eU, z, X, Y
<1>33. CASE X = 0
  <2>1. Vanishes(1 + Y)
    <3>1. Sum(p, q) \in Points BY SumClosed
    <3> QED BY <1>33, <3>1, OrderTwo DEF X, Y
  <2>2. Vanishes(x)
      <3>1. Vanishes(2 * x)
        <4> DEFINE g2 == x + 1
                   f2 == 1 + Y
        <4>1. 1 \in Int /\ eU \in Int /\ g2 \in Int /\ f2 \in Int
          BY <1>2, <1>7, <1>29
        <4>2. Vanishes(eU) /\ Vanishes(f2)
          BY <1>31, <2>1
        <4>3. Combine(1, eU, g2, f2) = 2 * x
          BY <1>2, <1>7 DEF Combine, eU
        <4> HIDE DEF g2, f2
        <4>4. Vanishes(Combine(1, eU, g2, f2))
          BY <4>1, <4>2, VanishesSum, Zenon
        <4> QED BY <4>3, <4>4
    <3> QED BY <1>7, <1>13, <3>1, NoZeroDivisors
  <2>3. Vanishes(s)
      <3>1. Vanishes((k1 * k2) * (s * s))
        <4> DEFINE g2 == g * d * d
        <4>1. -1 \in Int /\ e5 \in Int /\ g2 \in Int /\ x \in Int
          BY <1>7, <1>8, <1>11, <1>19
        <4>2. Vanishes(e5) /\ Vanishes(x)
          BY <1>24, <2>2
        <4>3. Combine(-1, e5, g2, x) = (k1 * k2) * (s * s)
          BY <1>7, <1>8, <1>11 DEF Combine, e5
        <4> HIDE DEF g2
        <4>4. Vanishes(Combine(-1, e5, g2, x))
          BY <4>1, <4>2, VanishesSum, Zenon
        <4> QED BY <4>3, <4>4
    <3>2. k1 * k2 \in Int /\ ~Vanishes(k1 * k2) /\ s * s \in Int
      BY <1>11, <1>12, ProductIsNotZero
    <3>3. Vanishes(s * s) BY <3>1, <3>2, NoZeroDivisors
    <3> QED BY <1>11, <3>3, NoZeroDivisors
  <2> DEFINE z == l * x2 - 1
             r == l * x1 - 1
  <2>4. z \in Int /\ r \in Int BY <1>1
    <2>5. Vanishes((2 * d * x1) * z)
      <3> DEFINE g2 == - ((1 + y1) * (1 - y2))
      <3>1. 1 \in Int /\ e1 \in Int /\ g2 \in Int /\ s \in Int
        BY <1>1, <1>11, <1>15
      <3>2. Vanishes(e1) /\ Vanishes(s)
        BY <1>18, <2>3
      <3>3. Combine(1, e1, g2, s) = (2 * d * x1) * z
        BY <1>1 DEF Combine, e1, d, m, V, s
      <3> HIDE DEF g2
      <3>4. Vanishes(Combine(1, e1, g2, s))
        BY <3>1, <3>2, VanishesSum, Zenon
      <3> QED BY <3>3, <3>4
  <2> HIDE DEF z
  <2>6. Vanishes(z)
    <3> DEFINE t == 2 * d
    <3>1. t \in Int /\ ~Vanishes(t) BY <1>11, <1>12, <1>13, ProductIsNotZero
    <3> HIDE DEF t
    <3>2. t * x1 \in Int /\ ~Vanishes(t * x1) BY <1>1, <3>1, ProductIsNotZero
    <3>3. Vanishes((t * x1) * z) BY <2>5 DEF t
    <3> QED BY <2>4, <3>2, <3>3, NoZeroDivisors
    <2>7. Vanishes(r)
      <3> DEFINE g2 == - l
      <3>1. 1 \in Int /\ z \in Int /\ g2 \in Int /\ s \in Int
        BY <1>11, <2>4
      <3>2. Vanishes(z) /\ Vanishes(s)
        BY <2>3, <2>6
      <3>3. Combine(1, z, g2, s) = r
        BY <1>1 DEF Combine, z, s
      <3> HIDE DEF g2
      <3>4. Vanishes(Combine(1, z, g2, s))
        BY <3>1, <3>2, VanishesSum, Zenon
      <3> QED BY <3>3, <3>4
  <2> HIDE DEF r
    <2>8. Vanishes(x1 * y)
      <3> DEFINE g3 == - (l * x1)
      <3>1. x1 \in Int /\ ey \in Int /\ -1 \in Int /\ ev1 \in Int
            /\ g3 \in Int /\ x \in Int /\ u1 \in Int /\ r \in Int
        BY <1>1, <1>7, <1>10, <2>4
      <3>2. Vanishes(ey) /\ Vanishes(ev1) /\ Vanishes(x) /\ Vanishes(r)
        BY <1>9, <2>2, <2>7
      <3>3. Combine4(x1, ey, -1, ev1, g3, x, u1, r) = x1 * y
        BY <1>1, <1>7 DEF Combine4, ey, ev1, r
      <3> HIDE DEF g3
      <3>4. Vanishes(Combine4(x1, ey, -1, ev1, g3, x, u1, r))
        BY <3>1, <3>2, VanishesSum4, Zenon
      <3> QED BY <3>3, <3>4
  <2>9. Vanishes(y) BY <1>1, <1>7, <2>8, NoZeroDivisors
  <2>10. x = 0 /\ y = 0 BY <2>2, <2>9, ElementZero
  <2> QED BY <1>33, <2>10 DEF IsMont, X
<1> QED BY <1>32, <1>33

(* The chord is that of either point with the other.                       *)
LEMMA ChordSwap ==
  ASSUME NEW u1 \in Int, NEW v1 \in Int, NEW u2 \in Int, NEW v2 \in Int,
         NEW x \in Int, NEW y \in Int, NEW l \in Int, Chord(x, y, l, u1, v1, u2, v2)
  PROVE  Chord(x, y, l, u2, v2, u1, v1)
<1> DEFINE e == l * (u2 - u1) - (v2 - v1)
           f == y - (l * (u1 - x) - v1)
<1>1. e \in Int /\ f \in Int /\ Vanishes(e) /\ Vanishes(f) BY DEF Chord
<1>2. l * (u1 - u2) - (v1 - v2) = - e
  OBVIOUS
<1>3. Vanishes(l * (u1 - u2) - (v1 - v2))
  <2>1. -1 \in Int /\ e \in Int /\ 0 \in Int /\ f \in Int
    BY <1>1
  <2>2. Vanishes(e) /\ Vanishes(f)
    BY <1>1
  <2>3. Combine(-1, e, 0, f) = l * (u1 - u2) - (v1 - v2)
    BY <1>2 DEF Combine
  <2>4. Vanishes(Combine(-1, e, 0, f))
    BY <2>1, <2>2, VanishesSum, Zenon
  <2> QED BY <2>3, <2>4
<1>4. Vanishes(y - (l * (u2 - x) - v2))
  <2>1. 1 \in Int /\ f \in Int /\ -1 \in Int /\ e \in Int
    BY <1>1
  <2>2. Vanishes(f) /\ Vanishes(e)
    BY <1>1
  <2>3. Combine(1, f, -1, e) = y - (l * (u2 - x) - v2)
    BY <1>1 DEF Combine
  <2>4. Vanishes(Combine(1, f, -1, e))
    BY <2>1, <2>2, VanishesSum, Zenon
  <2> QED BY <2>3, <2>4
<1>5. u2 + u1 = u1 + u2 OBVIOUS
<1> HIDE DEF e, f
<1> QED BY <1>3, <1>4, <1>5 DEF Chord

(* What the first Montgomery coordinate satisfies on both kinds of points. *)
LEMMA MontFirst ==
  ASSUME NEW q \in Points, q # Zero, NEW u \in Int, NEW v \in Int, IsMont(u, v, q)
  PROVE  q[2] \in Int /\ ~Vanishes(1 - q[2]) /\ Vanishes(u * (1 - q[2]) - (1 + q[2]))
<1> DEFINE y == q[2]
<1>1. CASE q[1] = 0
  <2>1. y \in Int /\ Vanishes(1 + y) BY <1>1, PointHas, OrderTwo
  <2> HIDE DEF y
  <2>2. ~Vanishes(1 - y)
    <3> SUFFICES ASSUME Vanishes(1 - y) PROVE FALSE OBVIOUS
    <3>1. Vanishes(2)
      <4> DEFINE f1 == 1 + y
                 f2 == 1 - y
      <4>1. 1 \in Int /\ f1 \in Int /\ f2 \in Int
        BY <2>1
      <4>2. Vanishes(f1) /\ Vanishes(f2)
        BY <2>1
      <4>3. Combine(1, f1, 1, f2) = 2
        BY <2>1 DEF Combine
      <4> HIDE DEF f1, f2
      <4>4. Vanishes(Combine(1, f1, 1, f2))
        BY <4>1, <4>2, VanishesSum, Zenon
      <4> QED BY <4>3, <4>4
    <3> QED BY <3>1, TwoIsNotZero
  <2>3. u = 0 BY <1>1 DEF IsMont
  <2>4. Vanishes(u * (1 - y) - (1 + y))
    <3> DEFINE f1 == 1 + y
               f2 == 1 + y
    <3>1. -1 \in Int /\ f1 \in Int /\ 0 \in Int /\ f2 \in Int
      BY <2>1
    <3>2. Vanishes(f1) /\ Vanishes(f2)
      BY <2>1
    <3>3. Combine(-1, f1, 0, f2) = u * (1 - y) - (1 + y)
      BY <2>1, <2>3 DEF Combine
    <3> HIDE DEF f1, f2
    <3>4. Vanishes(Combine(-1, f1, 0, f2))
      BY <3>1, <3>2, VanishesSum, Zenon
    <3> QED BY <3>3, <3>4
  <2> QED BY <2>1, <2>2, <2>4 DEF y
<1>2. CASE q[1] # 0 BY <1>2, MontDenominators DEF IsMont
<1> QED BY <1>1, <1>2

(* The chord through the point of order two.                               *)
LEMMA ChordOrderTwo ==
  ASSUME NEW p \in Points, p # Zero, p[1] = 0, NEW q \in Points, q[1] # 0,
         NEW u1 \in Int, NEW v1 \in Int, IsMont(u1, v1, p),
         NEW u2 \in Int, NEW v2 \in Int, IsMont(u2, v2, q),
         NEW x \in Int, NEW y \in Int, NEW l \in Int, Chord(x, y, l, u1, v1, u2, v2)
  PROVE  IsMont(x, y, Sum(p, q))
<1> DEFINE y1 == p[2]
           x2 == q[1]
           y2 == q[2]
           X == Sum(p, q)[1]
           Y == Sum(p, q)[2]
           c2 == Curve(x2, y2)
           g == A - D
           f1 == 1 + y1
<1>1. /\ y1 \in Int /\ x2 \in Int /\ y2 \in Int /\ Vanishes(c2) /\ c2 \in Int
      /\ ~Vanishes(x2) /\ ~Vanishes(1 - y2) /\ ~Vanishes(1 + y2)
  BY PointHas, MontDenominators, CurveInt
<1>2. Vanishes(f1) BY OrderTwo
<1>3. u1 = 0 /\ v1 = 0 BY DEF IsMont
<1>4. /\ X \in Int /\ Y \in Int
      /\ Vanishes(X * (1 + Tau(0, y1, x2, y2)) - CrossX(0, y1, x2, y2))
      /\ Vanishes(Y * (1 - Tau(0, y1, x2, y2)) - CrossY(0, y1, x2, y2))
  BY SumHas DEF IsSum
<1>5. Vanishes(u2 * (1 - y2) - (1 + y2)) /\ Vanishes(v2 * x2 - u2)
  BY DEF IsMont
<1>6. g \in Int /\ ~Vanishes(g) BY CoefficientGap
<1>7. /\ Vanishes(l * (u2 - 0) - (v2 - 0))
      /\ Vanishes(g * x - (4 * l * l - 2 * (A + D) - g * (0 + u2)))
      /\ Vanishes(y - (l * (0 - x) - 0))
  BY <1>3 DEF Chord
<1> HIDE DEF y1, x2, y2, X, Y, g
<1> DEFINE el == l * u2 - v2
           ex == g * x - (4 * l * l - 2 * (A + D) - g * u2)
           ey == y + l * x
           eu == u2 * (1 - y2) - (1 + y2)
           ev == v2 * x2 - u2
           eX == X - x2 * y1
           eY == Y - y1 * y2
<1>8. /\ Vanishes(el) /\ Vanishes(ex) /\ Vanishes(ey)
      /\ Vanishes(eu) /\ Vanishes(ev) /\ Vanishes(eX) /\ Vanishes(eY)
  <2>1. l * (u2 - 0) - (v2 - 0) = el OBVIOUS
  <2>2. g * x - (4 * l * l - 2 * (A + D) - g * (0 + u2)) = ex BY <1>6, Coefficients
  <2>3. y - (l * (0 - x) - 0) = ey OBVIOUS
  <2>4. X * (1 + Tau(0, y1, x2, y2)) - CrossX(0, y1, x2, y2) = eX
    BY <1>1, <1>4, Coefficients DEF Tau, CrossX
  <2>5. Y * (1 - Tau(0, y1, x2, y2)) - CrossY(0, y1, x2, y2) = eY
    BY <1>1, <1>4, Coefficients DEF Tau, CrossY
  <2> HIDE DEF el, ex, ey, eX, eY
  <2> QED BY <1>4, <1>5, <1>7, <2>1, <2>2, <2>3, <2>4, <2>5
<1>9. /\ el \in Int /\ ex \in Int /\ ey \in Int /\ eu \in Int /\ ev \in Int
      /\ eX \in Int /\ eY \in Int /\ f1 \in Int
  BY <1>1, <1>4, <1>6, Coefficients
<1> HIDE DEF el, ex, ey, eu, ev, eX, eY, f1, c2
(* The sum is the opposite of the other point, reflected.                  *)
<1> DEFINE a == X + x2
           b == Y + y2
<1>10. a \in Int /\ b \in Int BY <1>1, <1>4
<1>11. Vanishes(a)
  <2>1. 1 \in Int /\ eX \in Int /\ x2 \in Int /\ f1 \in Int
    BY <1>1, <1>9
  <2>2. Vanishes(eX) /\ Vanishes(f1)
    BY <1>2, <1>8
  <2>3. Combine(1, eX, x2, f1) = a
    BY <1>1, <1>4 DEF Combine, eX, f1
  <2>4. Vanishes(Combine(1, eX, x2, f1))
    BY <2>1, <2>2, VanishesSum, Zenon
  <2> QED BY <2>3, <2>4
<1>12. Vanishes(b)
  <2>1. 1 \in Int /\ eY \in Int /\ y2 \in Int /\ f1 \in Int
    BY <1>1, <1>9
  <2>2. Vanishes(eY) /\ Vanishes(f1)
    BY <1>2, <1>8
  <2>3. Combine(1, eY, y2, f1) = b
    BY <1>1, <1>4 DEF Combine, eY, f1
  <2>4. Vanishes(Combine(1, eY, y2, f1))
    BY <2>1, <2>2, VanishesSum, Zenon
  <2> QED BY <2>3, <2>4
<1> HIDE DEF a, b
<1>13. X # 0
  <2> SUFFICES ASSUME X = 0 PROVE FALSE OBVIOUS
  <2>1. a = x2 BY <1>1 DEF a
  <2> QED BY <1>1, <1>11, <2>1
(* The slope is the inverse of the first coordinate.                       *)
<1> DEFINE z == l * x2 - 1
           o == 1 + y2
           i == 1 - y2
<1>14. z \in Int /\ o \in Int /\ i \in Int /\ ~Vanishes(o) /\ ~Vanishes(i) BY <1>1
<1> HIDE DEF z, o, i
<1>15. Vanishes(u2 * z)
  <2>1. Vanishes(u2 * z)
    <3>1. x2 \in Int /\ el \in Int /\ 1 \in Int /\ ev \in Int
      BY <1>1, <1>9
    <3>2. Vanishes(el) /\ Vanishes(ev)
      BY <1>8
    <3>3. Combine(x2, el, 1, ev) = u2 * z
      BY <1>1 DEF Combine, z, el, ev
    <3>4. Vanishes(Combine(x2, el, 1, ev))
      BY <3>1, <3>2, VanishesSum, Zenon
    <3> QED BY <3>3, <3>4
  <2> QED BY <2>1
<1>16. ~Vanishes(u2)
  <2> SUFFICES ASSUME Vanishes(u2) PROVE FALSE OBVIOUS
  <2>1. Vanishes(o)
    <3>1. i \in Int /\ u2 \in Int /\ -1 \in Int /\ eu \in Int
      BY <1>9, <1>14
    <3>2. Vanishes(u2) /\ Vanishes(eu)
      BY <1>8
    <3>3. Combine(i, u2, -1, eu) = o
      BY <1>1 DEF Combine, o, i, eu
    <3>4. Vanishes(Combine(i, u2, -1, eu))
      BY <3>1, <3>2, VanishesSum, Zenon
    <3> QED BY <3>3, <3>4
  <2> QED BY <1>14, <2>1
<1>17. Vanishes(z) BY <1>14, <1>15, <1>16, NoZeroDivisors
<1> DEFINE w == x * o - i
<1>18. w \in Int BY <1>14
<1>19. Vanishes((g * x2 * x2 * i) * w)
  <2> DEFINE g1 == x2 * x2 * (1 - y2 * y2)
             g2 == 4 * (1 - y2 * y2) * (l * x2 + 1)
             g3 == - (g * (1 + y2) * x2 * x2)
  <2>1. g1 \in Int /\ ex \in Int /\ g2 \in Int /\ z \in Int
        /\ g3 \in Int /\ eu \in Int /\ -4 \in Int /\ c2 \in Int
    BY <1>1, <1>6, <1>9, <1>14, Coefficients
  <2>2. Vanishes(ex) /\ Vanishes(z) /\ Vanishes(eu) /\ Vanishes(c2)
    BY <1>1, <1>8, <1>17
  <2>3. Combine4(g1, ex, g2, z, g3, eu, -4, c2) = (g * x2 * x2 * i) * w
    BY <1>1, Coefficients DEF Combine4, g, i, o, ex, z, eu, c2, Curve
  <2> HIDE DEF g1, g2, g3
  <2>4. Vanishes(Combine4(g1, ex, g2, z, g3, eu, -4, c2))
    BY <2>1, <2>2, VanishesSum4, Zenon
  <2> QED BY <2>3, <2>4
<1> HIDE DEF w
<1>20. Vanishes(w)
  <2> DEFINE s == g * x2
             t == s * x2
  <2>1. s \in Int /\ ~Vanishes(s) BY <1>1, <1>6, ProductIsNotZero
  <2> HIDE DEF s
  <2>2. t \in Int /\ ~Vanishes(t) BY <1>1, <2>1, ProductIsNotZero
  <2> HIDE DEF t
  <2>3. t * i \in Int /\ ~Vanishes(t * i) BY <1>14, <2>2, ProductIsNotZero
  <2>4. Vanishes((t * i) * w) BY <1>19 DEF t, s
  <2> QED BY <1>18, <2>3, <2>4, NoZeroDivisors
<1>21. Vanishes(x * (1 - Y) - (1 + Y))
  <2> DEFINE g2 == - (x + 1)
  <2>1. 1 \in Int /\ w \in Int /\ g2 \in Int /\ b \in Int
    BY <1>10, <1>18
  <2>2. Vanishes(w) /\ Vanishes(b)
    BY <1>12, <1>20
  <2>3. Combine(1, w, g2, b) = x * (1 - Y) - (1 + Y)
    BY <1>1, <1>4 DEF Combine, w, o, i, b
  <2> HIDE DEF g2
  <2>4. Vanishes(Combine(1, w, g2, b))
    BY <2>1, <2>2, VanishesSum, Zenon
  <2> QED BY <2>3, <2>4
<1>22. Vanishes(y * X - x)
  <2> DEFINE g3 == - (l * x)
  <2>1. X \in Int /\ ey \in Int /\ x \in Int /\ z \in Int
        /\ g3 \in Int /\ a \in Int
    BY <1>4, <1>9, <1>10, <1>14
  <2>2. Vanishes(ey) /\ Vanishes(z) /\ Vanishes(a)
    BY <1>8, <1>11, <1>17
  <2>3. Combine3(X, ey, x, z, g3, a) = y * X - x
    BY <1>1, <1>4 DEF Combine3, ey, z, a
  <2> HIDE DEF g3
  <2>4. Vanishes(Combine3(X, ey, x, z, g3, a))
    BY <2>1, <2>2, VanishesSum3, Zenon
  <2> QED BY <2>3, <2>4
<1> QED BY <1>13, <1>21, <1>22 DEF IsMont, X, Y

(* The incomplete addition gives the sum and nothing else, on two points   *)
(* that are neither the zero of the group nor equal nor opposite.          *)
LEMMA ChordIsSum ==
  ASSUME NEW p \in Points, NEW q \in Points, p # Zero, q # Zero,
         q \notin {p, Opposite(p)}
  PROVE  MontAdd(FromEdwards(p), FromEdwards(q)) = {FromEdwards(Sum(p, q))}
<1> DEFINE u1 == FromEdwards(p)[1]
           v1 == FromEdwards(p)[2]
           u2 == FromEdwards(q)[1]
           v2 == FromEdwards(q)[2]
           y1 == p[2]
           y2 == q[2]
           d == u2 - u1
           n == v2 - v1
           l == Red(n * Inverse0(d))
           X == Scale(l) * l - MontA - u1 - u2
           x == Red(X)
           Y == l * (u1 - x) - v1
           y == Red(Y)
<1>1. u1 \in Int /\ v1 \in Int /\ IsMont(u1, v1, p) BY MontHas
<1>2. u2 \in Int /\ v2 \in Int /\ IsMont(u2, v2, q) BY MontHas
<1>3. Sum(p, q) \in Points BY SumClosed
<1>4. Sum(p, q) # Zero BY OppositeUnique
<1> HIDE DEF u1, v1, u2, v2
<1>5. y1 \in Int /\ ~Vanishes(1 - y1) /\ Vanishes(u1 * (1 - y1) - (1 + y1))
  BY <1>1, MontFirst
<1>6. y2 \in Int /\ ~Vanishes(1 - y2) /\ Vanishes(u2 * (1 - y2) - (1 + y2))
  BY <1>2, MontFirst
<1>7. ~Vanishes(y2 - y1) BY HeightsDiffer
<1> HIDE DEF y1, y2
<1>8. d \in Int /\ n \in Int BY <1>1, <1>2
<1>9. ~Vanishes(d)
  <2> SUFFICES ASSUME Vanishes(d) PROVE FALSE OBVIOUS
  <2>1. Vanishes(2 * (y2 - y1))
    <3> DEFINE g1 == (1 - y1) * (1 - y2)
               g2 == 1 - y2
               f2 == u1 * (1 - y1) - (1 + y1)
               g3 == - (1 - y1)
               f3 == u2 * (1 - y2) - (1 + y2)
    <3>1. g1 \in Int /\ d \in Int /\ g2 \in Int /\ f2 \in Int
          /\ g3 \in Int /\ f3 \in Int
      BY <1>1, <1>2, <1>5, <1>6, <1>8
    <3>2. Vanishes(d) /\ Vanishes(f2) /\ Vanishes(f3)
      BY <1>5, <1>6
    <3>3. Combine3(g1, d, g2, f2, g3, f3) = 2 * (y2 - y1)
      BY <1>1, <1>2, <1>5, <1>6 DEF Combine3
    <3> HIDE DEF g1, g2, f2, g3, f3
    <3>4. Vanishes(Combine3(g1, d, g2, f2, g3, f3))
      BY <3>1, <3>2, VanishesSum3, Zenon
    <3> QED BY <3>3, <3>4
  <2>2. y2 - y1 \in Int BY <1>5, <1>6
  <2> QED BY <1>7, <2>1, <2>2, TwoIsNotZero, NoZeroDivisors
<1> HIDE DEF d, n
<1>10. l \in Fp /\ Vanishes(l * d - n) BY <1>8, <1>9, DivisionIs
<1> HIDE DEF l
<1>11. Quotients(n, d) = {l} BY <1>8, <1>9, <1>10, QuotientIs
<1>12. l \in Int BY <1>10, ElementRed
<1>13. X \in Int /\ Scale(l) * l = MontB * l * l
  BY <1>1, <1>2, <1>12, MontCoefficients DEF Scale
<1> HIDE DEF X
<1>14. x \in Fp /\ x \in Int /\ Vanishes(x - X) BY <1>13, RedRemainder, RedVanishes
<1> HIDE DEF x
<1>15. Y \in Int BY <1>1, <1>12, <1>14
<1> HIDE DEF Y
<1>16. y \in Fp /\ y \in Int /\ Vanishes(y - Y) BY <1>15, RedRemainder, RedVanishes
<1> HIDE DEF y
<1>17. MontAdd(FromEdwards(p), FromEdwards(q)) = {<<x, y>>}
  <2>1. MontAdd(FromEdwards(p), FromEdwards(q)) =
          {LET a == Red(Scale(k) * k - MontA - u1 - u2)
           IN <<a, Red(k * (u1 - a) - v1)>> : k \in Quotients(n, d)}
    BY DEF MontAdd, u1, v1, u2, v2, n, d
  <2>2. <<x, y>> = LET a == Red(Scale(l) * l - MontA - u1 - u2)
                   IN <<a, Red(l * (u1 - a) - v1)>>
    BY DEF x, y, X, Y
  <2> QED BY <1>11, <2>1, <2>2
<1>18. Chord(x, y, l, u1, v1, u2, v2)
  <2>1. Vanishes(l * (u2 - u1) - (v2 - v1)) BY <1>10 DEF d, n
  <2>2. Vanishes((A - D) * x - (4 * l * l - 2 * (A + D) - (A - D) * (u1 + u2)))
    <3> DEFINE g1 == A - D
               f1 == x - X
               g2 == l * l
               f2 == MontB * (A - D) - 4
               f3 == MontA * (A - D) - 2 * (A + D)
    <3>1. g1 \in Int /\ f1 \in Int /\ g2 \in Int /\ f2 \in Int
          /\ -1 \in Int /\ f3 \in Int
      BY <1>12, <1>13, <1>14, Coefficients, MontCoefficients
    <3>2. Vanishes(f1) /\ Vanishes(f2) /\ Vanishes(f3)
      BY <1>14, MontCoefficients
    <3>3. Combine3(g1, f1, g2, f2, -1, f3) = (A - D) * x - (4 * l * l - 2 * (A + D) - (A - D) * (u1 + u2))
      BY <1>1, <1>2, <1>12, <1>13, <1>14, Coefficients, MontCoefficients DEF Combine3, X
    <3> HIDE DEF g1, f1, g2, f2, f3
    <3>4. Vanishes(Combine3(g1, f1, g2, f2, -1, f3))
      BY <3>1, <3>2, VanishesSum3, Zenon
    <3> QED BY <3>3, <3>4
  <2>3. Vanishes(y - (l * (u1 - x) - v1)) BY <1>16 DEF Y
  <2> QED BY <2>1, <2>2, <2>3 DEF Chord
<1>19. IsMont(x, y, Sum(p, q))
  <2>1. CASE p[1] # 0 /\ q[1] # 0
    BY <1>1, <1>2, <1>4, <1>12, <1>14, <1>16, <1>18, <2>1, ChordMeets, Zenon
  <2>2. CASE p[1] = 0 /\ q[1] # 0
    BY <1>1, <1>2, <1>12, <1>14, <1>16, <1>18, <2>2, ChordOrderTwo, Zenon
  <2>3. CASE p[1] # 0 /\ q[1] = 0
    <3>1. Chord(x, y, l, u2, v2, u1, v1)
      BY <1>1, <1>2, <1>12, <1>14, <1>16, <1>18, ChordSwap, Zenon
    <3>2. IsMont(x, y, Sum(q, p))
      BY <1>1, <1>2, <1>12, <1>14, <1>16, <2>3, <3>1, ChordOrderTwo, Zenon
    <3> QED BY <3>2, SumCommutes
  <2>4. CASE p[1] = 0 /\ q[1] = 0
    <3>1. Vanishes(1 + y1) /\ Vanishes(1 + y2) BY <2>4, OrderTwo DEF y1, y2
    <3>2. Vanishes(y2 - y1)
      <4> DEFINE f1 == 1 + y2
                 f2 == 1 + y1
      <4>1. 1 \in Int /\ f1 \in Int /\ -1 \in Int /\ f2 \in Int
        BY <1>5, <1>6
      <4>2. Vanishes(f1) /\ Vanishes(f2)
        BY <3>1
      <4>3. Combine(1, f1, -1, f2) = y2 - y1
        BY <1>5, <1>6 DEF Combine
      <4> HIDE DEF f1, f2
      <4>4. Vanishes(Combine(1, f1, -1, f2))
        BY <4>1, <4>2, VanishesSum, Zenon
      <4> QED BY <4>3, <4>4
    <3> QED BY <1>7, <3>2
  <2> QED BY <2>1, <2>2, <2>3, <2>4
<1>20. FromEdwards(Sum(p, q)) = <<x, y>> BY <1>3, <1>14, <1>16, <1>19, MontIs
<1> QED BY <1>17, <1>20

(* Negating the second coordinate is the opposite of the point.            *)
LEMMA CondNegIs ==
  ASSUME NEW q \in Points
  PROVE  CondNeg(FromEdwards(q), 1) = FromEdwards(Opposite(q))
<1> DEFINE u == FromEdwards(q)[1]
           v == FromEdwards(q)[2]
           x == q[1]
           y == q[2]
           X == Opposite(q)[1]
           w == Red(- v)
<1>1. u \in Fp /\ u \in Int /\ v \in Int /\ IsMont(u, v, q) BY MontHas
<1>2. /\ Opposite(q) \in Points /\ Opposite(q)[2] = y /\ Vanishes(X + x)
  BY OppositeIs
<1>3. X \in Fp /\ X \in Int BY <1>2, PointHas
<1>4. x \in Fp /\ x \in Int /\ y \in Int BY PointHas
<1>5. CondNeg(FromEdwards(q), 1) = <<u, w>> BY DEF CondNeg
<1> HIDE DEF u, v, X
<1>6. - v \in Int BY <1>1
<1>7. w \in Fp /\ w \in Int /\ Vanishes(w - (- v)) BY <1>6, RedRemainder, RedVanishes
<1>8. IsMont(u, w, Opposite(q))
  <2>1. CASE x = 0
    <3>1. X + x = X BY <1>3, <2>1
    <3>2. X = 0 BY <1>2, <1>3, <3>1, ElementZero
    <3>3. u = 0 /\ v = 0 BY <1>1, <2>1 DEF IsMont
    <3>4. w = 0
      <4>1. 0 \in Fp BY Modulus DEF Fp
      <4>2. Red(0) = 0 BY <4>1, ElementRed
      <4> QED BY <3>3, <4>2
    <3> QED BY <3>2, <3>3, <3>4 DEF IsMont, X
  <2>2. CASE x # 0
    <3>1. Vanishes(u * (1 - y) - (1 + y)) /\ Vanishes(v * x - u)
      BY <1>1, <2>2 DEF IsMont
    <3>2. X # 0
      <4> SUFFICES ASSUME X = 0 PROVE FALSE OBVIOUS
      <4>1. X + x = x BY <1>4
      <4> QED BY <1>2, <1>4, <2>2, <4>1, ElementZero
    <3> HIDE DEF w, x, y
    <3>3. Vanishes(w * X - u)
      <4> DEFINE f1 == w - (- v)
                 g2 == - v
                 f2 == X + x
                 f3 == v * x - u
      <4>1. X \in Int /\ f1 \in Int /\ g2 \in Int /\ f2 \in Int
            /\ 1 \in Int /\ f3 \in Int
        BY <1>1, <1>3, <1>4, <1>7
      <4>2. Vanishes(f1) /\ Vanishes(f2) /\ Vanishes(f3)
        BY <1>2, <1>7, <3>1
      <4>3. Combine3(X, f1, g2, f2, 1, f3) = w * X - u
        BY <1>1, <1>3, <1>4, <1>7 DEF Combine3
      <4> HIDE DEF f1, g2, f2, f3
      <4>4. Vanishes(Combine3(X, f1, g2, f2, 1, f3))
        BY <4>1, <4>2, VanishesSum3, Zenon
      <4> QED BY <4>3, <4>4
    <3> QED BY <1>2, <3>1, <3>2, <3>3 DEF IsMont, X, y
  <2> QED BY <2>1, <2>2
<1> QED BY <1>1, <1>2, <1>5, <1>7, <1>8, MontIs

-----------------------------------------------------------------------------
(* Multiplication by signed digits.                                        *)

(* Before and after, the variable is the point it stands for.  On the way, *)
(* and as long as no exceptional case was met, result is in the Montgomery *)
(* model what the digits of the segment sum to, which is not the zero of   *)
(* the group, and ed_result what the segments before it sum to.            *)
MulInv ==
  /\ acc = point /\ point \in Points
  /\ bases \in Seq(Seq(Points)) /\ done \in Nat \X Nat
  /\ segment \in Points /\ total \in Points
  /\ outcome = "returned" => ed_result # None
  /\ regular =>
       /\ outcome # "unsatisfied"
       /\ mont_result = None => segment = Zero
       /\ mont_result # None => segment # Zero /\ mont_result = FromEdwards(segment)
       /\ ed_result = None => total = Zero
       /\ ed_result # None => ed_result = total

(* The base of a digit is a point.                                         *)
LEMMA BaseIsPoint ==
  ASSUME bases \in Seq(Seq(Points)), done \in Nat \X Nat, InSegment
  PROVE  Base \in Points
<1>1. done[1] \in Nat /\ done[2] \in Nat OBVIOUS
<1>2. done[1] + 1 \in 1 .. Len(bases) BY <1>1 DEF InSegment
<1>3. bases[done[1] + 1] \in Seq(Points) BY <1>2
<1>4. done[2] + 1 \in 1 .. Len(bases[done[1] + 1]) BY <1>1, <1>3 DEF InSegment
<1> QED BY <1>3, <1>4 DEF Base

(* The bits of a digit select the Montgomery coordinates of a point that   *)
(* has some.                                                               *)
LEMMA DigitIs ==
  ASSUME NEW q \in Points, AllConvertible(q),
         NEW b0 \in 0 .. 1, NEW b1 \in 0 .. 1, NEW b2 \in 0 .. 1
  PROVE  /\ Signed(q, b0, b1, b2) \in Points /\ Signed(q, b0, b1, b2) # Zero
         /\ Looked(q, b0, b1, b2) = FromEdwards(Signed(q, b0, b1, b2))
<1> DEFINE n == 1 + b0 + 2 * b1
           m == Multiple(q, n)
<1>1. n \in 1 .. 4 /\ n \in Nat /\ Index(b0, b1) = n BY DEF Index
<1> HIDE DEF n
<1>2. m \in Points BY <1>1, MultipleStep
<1>3. m # Zero BY <1>1, <1>2, ConvertMeans DEF AllConvertible
<1>4. Looked(q, b0, b1, b2) = CondNeg(FromEdwards(m), b2) BY <1>1 DEF Looked
<1>5. Signed(q, b0, b1, b2) = IF b2 = 1 THEN Opposite(m) ELSE m BY DEF Signed, n
<1> HIDE DEF m
<1>6. CASE b2 = 1
  <2>1. Opposite(m) \in Points BY <1>2, OppositeIs
  <2>2. Opposite(m) # Zero
    <3>1. Sum(Zero, Zero) = Zero BY ZeroIsPoint, SumZero
    <3>2. Opposite(Zero) = Zero BY <3>1, ZeroIsPoint, OppositeUnique
    <3>3. Opposite(Opposite(m)) = m BY <1>2, OppositeTwice
    <3> QED BY <1>3, <3>2, <3>3
  <2> QED BY <1>2, <1>4, <1>5, <1>6, <2>1, <2>2, CondNegIs
<1>7. CASE b2 # 1 BY <1>2, <1>3, <1>4, <1>5, <1>7 DEF CondNeg
<1> QED BY <1>6, <1>7

(* A digit is added to a segment it is neither equal nor opposite to.      *)
LEMMA DigitAdds ==
  ASSUME NEW s \in Points, s # Zero, NEW q \in Points, q # Zero,
         q \notin {s, Opposite(s)}
  PROVE  /\ MontAdd(FromEdwards(q), FromEdwards(s)) = {FromEdwards(Sum(s, q))}
         /\ Sum(s, q) # Zero
<1>1. s \notin {q, Opposite(q)} BY OppositeTwice
<1>2. MontAdd(FromEdwards(q), FromEdwards(s)) = {FromEdwards(Sum(q, s))}
  BY <1>1, ChordIsSum
<1> QED BY <1>2, SumCommutes, OppositeUnique

(* Neither a point nor its Montgomery coordinates are the absence of a     *)
(* result.                                                                 *)
LEMMA ResultsAreSome ==
  ASSUME NEW q \in Points
  PROVE  q # None /\ FromEdwards(q) # None
<1> DEFINE m == FromEdwards(q)
<1>1. q = <<q[1], q[2]>> BY PointHas
<1>2. m = <<m[1], m[2]>> BY MontHas
<1> HIDE DEF m
<1>3. \A x, y : <<x, y>> # << >> OBVIOUS
<1>4. q # << >> /\ m # << >> BY <1>1, <1>2, <1>3
<1> QED BY <1>4 DEF None, m

(* A multiplication starts with nothing summed.                            *)
LEMMA MulInvInit == EdwardsInit => MulInv
<1> SUFFICES ASSUME EdwardsInit PROVE MulInv OBVIOUS
<1>1. acc = point /\ point \in Points BY ZeroIsPoint DEF EdwardsInit, AccIsZero
<1>2. bases = << >> /\ done = <<0, 0>> /\ segment = Zero /\ total = Zero
      /\ mont_result = None /\ ed_result = None /\ outcome = "idle"
  BY DEF EdwardsInit, Idle, None
<1>3. bases \in Seq(Seq(Points)) /\ done \in Nat \X Nat BY <1>2
<1> QED BY <1>1, <1>2, <1>3, ZeroIsPoint DEF MulInv

(* A digit keeps it: the constraints of a chord admit the sum and nothing  *)
(* else.                                                                   *)
LEMMA AddDigitKeeps ==
  ASSUME MulInv, AddDigit
  PROVE  MulInv'
<1>1. PICK b0, b1, b2 \in 0 .. 1 :
        LET sums == Extended(Looked(Base, b0, b1, b2))
        IN /\ regular' = Regular(Signed(Base, b0, b1, b2))
           /\ segment' = Sum(segment, Signed(Base, b0, b1, b2))
           /\ \/ mont_result' \in sums /\ UNCHANGED outcome
              \/ sums = {} /\ outcome' = "unsatisfied" /\ UNCHANGED mont_result
  BY DEF AddDigit
<1> DEFINE q == Signed(Base, b0, b1, b2)
           sums == Extended(Looked(Base, b0, b1, b2))
<1>2. /\ outcome = "running" /\ InSegment /\ AllConvertible(Base)
      /\ done' = <<done[1], done[2] + 1>>
      /\ UNCHANGED <<acc, point, bases, ed_result, total>>
  BY DEF AddDigit, Running
<1>3. q \in Points /\ q # Zero /\ sums = Extended(FromEdwards(q))
  <2>1. Base \in Points BY <1>2, BaseIsPoint DEF MulInv
  <2> QED BY <1>2, <2>1, DigitIs
<1>4. /\ regular' = Regular(q) /\ segment' = Sum(segment, q)
      /\ \/ mont_result' \in sums /\ outcome' = outcome
         \/ sums = {} /\ outcome' = "unsatisfied" /\ mont_result' = mont_result
  BY <1>1
<1> HIDE DEF q, sums
<1>5. segment \in Points /\ done \in Nat \X Nat BY DEF MulInv
<1>6. segment' \in Points BY <1>3, <1>4, <1>5, SumClosed
<1>7. done' \in Nat \X Nat BY <1>2, <1>5
<1>8. outcome' # "returned" BY <1>2, <1>4
<1>9. ASSUME regular'
      PROVE  /\ outcome' # "unsatisfied" /\ segment' # Zero
             /\ mont_result' = FromEdwards(segment')
  <2>1. regular /\ (mont_result # None => q \notin {segment, Opposite(segment)})
    BY <1>4, <1>9 DEF Regular
  <2>2. CASE mont_result = None
    <3>1. sums = {FromEdwards(q)} BY <1>3, <2>2 DEF Extended
    <3>2. segment = Zero BY <2>1, <2>2 DEF MulInv
    <3>3. segment' = q BY <1>3, <1>4, <3>2, SumZero
    <3> QED BY <1>2, <1>3, <1>4, <3>1, <3>3
  <2>3. CASE mont_result # None
    <3>1. segment # Zero /\ mont_result = FromEdwards(segment)
      BY <2>1, <2>3 DEF MulInv
    <3>2. sums = MontAdd(FromEdwards(q), FromEdwards(segment))
      BY <1>3, <2>3, <3>1 DEF Extended
    <3>3. sums = {FromEdwards(Sum(segment, q))} /\ Sum(segment, q) # Zero
      BY <1>3, <1>5, <2>1, <2>3, <3>1, <3>2, DigitAdds
    <3> QED BY <1>2, <1>4, <3>3
  <2> QED BY <2>2, <2>3
<1>10. regular' => mont_result' # None BY <1>6, <1>9, ResultsAreSome
<1>11. regular' => regular BY <1>4 DEF Regular
<1>12. UNCHANGED None BY DEF None
<1> QED BY <1>2, <1>6, <1>7, <1>8, <1>9, <1>10, <1>11, <1>12 DEF MulInv

(* So does the end of a segment: a sum with Montgomery coordinates other   *)
(* than zeros comes back, and the complete addition has one result.        *)
LEMMA EndSegmentKeeps ==
  ASSUME MulInv, EndSegment
  PROVE  MulInv'
<1>1. /\ outcome = "running" /\ mont_result # None
      /\ regular' = (regular /\ segment[1] # 0)
      /\ \/ ed_result' \in Results /\ outcome' = outcome
         \/ Results = {} /\ outcome' = "unsatisfied" /\ ed_result' = ed_result
      /\ mont_result' = None /\ segment' = Zero /\ total' = Sum(total, segment)
      /\ done' = <<done[1] + 1, 0>>
      /\ UNCHANGED <<acc, point, bases>>
  BY DEF EndSegment, Running, NextResult
<1>2. segment \in Points /\ total \in Points /\ done \in Nat \X Nat BY DEF MulInv
<1>3. total' \in Points /\ segment' \in Points
  BY <1>1, <1>2, SumClosed, ZeroIsPoint
<1>4. done' \in Nat \X Nat BY <1>1, <1>2
<1>5. outcome' # "returned" BY <1>1
<1>6. ASSUME regular'
      PROVE  outcome' # "unsatisfied" /\ ed_result' = total'
  <2>1. regular /\ segment[1] # 0 BY <1>1, <1>6
  <2>2. mont_result = FromEdwards(segment) BY <1>1, <2>1 DEF MulInv
  <2>3. IntoEdwards(mont_result) = {segment} BY <1>2, <2>1, <2>2, IntoIs
  <2>4. Results = Joined(segment) BY <2>3 DEF Results
  <2>5. Joined(segment) = {Sum(total, segment)}
    <3>1. CASE ed_result = None
      <4>1. total = Zero BY <2>1, <3>1 DEF MulInv
      <4> QED BY <1>2, <3>1, <4>1, SumZero DEF Joined
    <3>2. CASE ed_result # None
      <4>1. ed_result = total BY <2>1, <3>2 DEF MulInv
      <4>2. Joined(segment) = Add(segment, total) BY <3>2, <4>1 DEF Joined
      <4> QED BY <1>2, <4>2, AddIs, SumCommutes
    <3> QED BY <3>1, <3>2
  <2> QED BY <1>1, <2>4, <2>5
<1>7. regular' => ed_result' # None BY <1>3, <1>6, ResultsAreSome
<1>8. UNCHANGED None /\ UNCHANGED Zero BY DEF None, Zero
<1> QED BY <1>1, <1>3, <1>4, <1>5, <1>6, <1>7, <1>8 DEF MulInv

(* Every step keeps it.                                                    *)
LEMMA MulInvNext == MulInv /\ [EdwardsNext]_edwardsVars => MulInv'
<1> SUFFICES ASSUME MulInv, [EdwardsNext]_edwardsVars PROVE MulInv' OBVIOUS
<1>0. UNCHANGED None /\ UNCHANGED Zero BY DEF None, Zero
<1>1. CASE LawOf
  <2>1. LawNext /\ UNCHANGED mulVars /\ outcome = "idle" BY <1>1 DEF LawOf
  <2>2. acc' = point' /\ point' \in Points BY <2>1, LawKeepsPoint DEF MulInv
  <2> QED BY <1>0, <2>1, <2>2 DEF MulInv, mulVars
<1>2. CASE Begin
  <2>1. /\ acc' = Zero /\ point' = Zero /\ bases' \in Tables /\ outcome' = "running"
        /\ UNCHANGED <<mont_result, ed_result, done, segment, total, regular>>
    BY <1>2 DEF Begin
  <2>2. bases' \in Seq(Seq(Points)) BY <2>1, TablesAssumption
  <2> QED BY <1>0, <2>1, <2>2, ZeroIsPoint DEF MulInv
<1>3. CASE AddDigit BY <1>3, AddDigitKeeps
<1>4. ASSUME NEW o, Stop(o), o \in {"error", "panic"} \/ (o = "returned" /\ ed_result # None)
      PROVE  MulInv'
  <2>1. /\ outcome' = o /\ o # "unsatisfied"
        /\ UNCHANGED <<acc, point, bases, mont_result, ed_result, done, segment, total, regular>>
    BY <1>4 DEF Stop
  <2>2. outcome' = "returned" => ed_result' # None BY <1>4, <2>1, <1>0
  <2> QED BY <1>0, <2>1, <2>2 DEF MulInv
<1>5. CASE RejectBase BY <1>4, <1>5 DEF RejectBase
<1>6. CASE EndSegment BY <1>6, EndSegmentKeeps
<1>7. CASE PanicEmpty BY <1>4, <1>7 DEF PanicEmpty
<1>8. CASE ReturnSum BY <1>4, <1>8 DEF ReturnSum
<1>9. CASE Use
  <2>1. /\ outcome = "returned" /\ regular /\ acc' = ed_result /\ point' = total
        /\ bases' = << >> /\ ed_result' = None /\ done' = <<0, 0>> /\ total' = Zero
        /\ outcome' = "idle" /\ UNCHANGED <<mont_result, segment, regular>>
    BY <1>9 DEF Use, None
  <2>2. ed_result = total /\ total \in Points BY <2>1 DEF MulInv
  <2>3. bases' \in Seq(Seq(Points)) /\ done' \in Nat \X Nat BY <2>1
  <2> QED BY <1>0, <2>1, <2>2, <2>3, ZeroIsPoint DEF MulInv
<1>10. CASE UNCHANGED edwardsVars BY <1>0, <1>10 DEF MulInv, edwardsVars, mulVars
<1> QED BY <1>1, <1>2, <1>3, <1>5, <1>6, <1>7, <1>8, <1>9, <1>10 DEF EdwardsNext

(* It holds in every behaviour.                                            *)
THEOREM MulInvHolds == EdwardsSpec => []MulInv
BY MulInvInit, MulInvNext, PTL DEF EdwardsSpec

(* After any program of allocations, additions, doublings and the three    *)
(* multiplications, and whatever a prover chooses for the quotients, an    *)
(* AffineVar is the point of the curve that it stands for.                 *)
THEOREM VariableIsPoint == EdwardsSpec => []AccIsPoint
<1>1. MulInv => AccIsPoint BY DEF MulInv, AccIsPoint
<1> QED BY <1>1, MulInvHolds, PTL

(* No two points make a denominator of add, subtract or double zero: an    *)
(* honest prover always has a witness.                                     *)
THEOREM FormulaeAreComplete == EdwardsSpec => []NoDivisionByZero
<1>1. MulInv => NoDivisionByZero
  <2> SUFFICES ASSUME MulInv PROVE Double(acc) # {}
                 /\ \A q \in Points : Add(acc, q) # {} /\ Sub(acc, q) # {}
    BY DEF NoDivisionByZero
  <2>1. acc \in Points BY DEF MulInv
  <2> QED BY <2>1, DoubleIs, AddIs, SubIs
<1> QED BY <1>1, MulInvHolds, PTL

(* Through the Montgomery model and back, and along a chord, the           *)
(* constraints admit the sum and nothing else.                             *)
THEOREM MontgomeryModelIsExact == EdwardsSpec => []MontgomeryIsExact
<1>1. MulInv => MontgomeryIsExact
  <2> SUFFICES ASSUME MulInv, Convertible(point)
      PROVE  /\ IntoEdwards(FromEdwards(point)) = {point}
             /\ \A q \in Points :
                  Convertible(q) /\ q \notin {point, Opposite(point)}
                    /\ Convertible(Sum(point, q)) =>
                      UNION {IntoEdwards(m) : m \in MontAdd(FromEdwards(point), FromEdwards(q))}
                        = {Sum(point, q)}
    BY DEF MontgomeryIsExact
  <2>1. point \in Points /\ point # Zero /\ point[1] # 0
    BY ConvertMeans DEF MulInv, Convertible
  <2>2. ASSUME NEW q \in Points, Convertible(q), q \notin {point, Opposite(point)},
               Convertible(Sum(point, q))
        PROVE  UNION {IntoEdwards(m) : m \in MontAdd(FromEdwards(point), FromEdwards(q))}
                 = {Sum(point, q)}
    <3>1. q # Zero BY <2>2, ConvertMeans DEF Convertible
    <3>2. MontAdd(FromEdwards(point), FromEdwards(q)) = {FromEdwards(Sum(point, q))}
      BY <2>1, <2>2, <3>1, ChordIsSum
    <3>3. Sum(point, q) \in Points /\ Sum(point, q)[1] # 0
      BY <2>1, <2>2, SumClosed DEF Convertible
    <3>4. IntoEdwards(FromEdwards(Sum(point, q))) = {Sum(point, q)} BY <3>3, IntoIs
    <3> QED BY <3>2, <3>4
  <2> QED BY <2>1, <2>2, IntoIs
<1> QED BY <1>1, MulInvHolds, PTL

(* A multiplication by signed digits that meets no exceptional case has    *)
(* witnesses, and its result is the sum of the digits whatever they are.   *)
THEOREM RegularMultiplicationIsExact == EdwardsSpec => []RegularMulIsExact
<1>1. MulInv => RegularMulIsExact BY DEF MulInv, RegularMulIsExact
<1> QED BY <1>1, MulInvHolds, PTL

(* The points are a group under the unified law, on which the theorems     *)
(* above rest: closed, associative, commutative, with a zero and opposites.*)
THEOREM PointsAreGroup ==
  /\ Zero \in Points
  /\ \A p \in Points :
       /\ Sum(p, Zero) = p
       /\ Opposite(p) \in Points /\ Sum(p, Opposite(p)) = Zero
  /\ \A p, q \in Points : Sum(p, q) \in Points /\ Sum(p, q) = Sum(q, p)
  /\ \A p, q, r \in Points : Sum(Sum(p, q), r) = Sum(p, Sum(q, r))
BY ZeroIsPoint, SumZero, OppositeIs, OppositeSum, SumClosed, SumCommutes, SumAssociates
=============================================================================
