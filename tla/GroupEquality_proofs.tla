------------------------ MODULE GroupEquality_proofs ------------------------
(***************************************************************************)
(* group_and_check_equality, for every field, size and number of limbs     *)
(* that leave it the room the assumptions of GroupEquality ask for.        *)
(* Vectors of the same integer pass with the carries the program computes. *)
(* Vectors that pass are the same in the field, whatever carries a prover  *)
(* gives, and the same integer if no right side leaves the field: which is *)
(* so for all carries when the range of a carry is not loose.              *)
(***************************************************************************)
EXTENDS GroupEquality, PowersOfTwo_proofs

-----------------------------------------------------------------------------
(* The sizes.                                                              *)

(* The numbers of a call.                                                  *)
LEMMA CallNumbers ==
  /\ MBS \in Nat /\ Q \in Nat /\ Q >= 1
  /\ Size \in Nat /\ Len \in Nat
  /\ \A n \in Nat : Shift * n \in Nat /\ Shift * n >= n
  /\ \A n \in Nat : Pow2[Shift * n] \in Nat /\ Pow2[Shift * n] >= 1
  /\ Pow2[Shift] \in Nat /\ Pow2[Shift] >= 2
<1>1. Shift \in Nat /\ Shift >= 1 /\ MBS \in Nat /\ Q \in Nat
  BY CallAssumption, FieldAssumption
<1>2. \A n \in Nat : Shift * n \in Nat /\ Shift * n >= n
  <2>1. ASSUME NEW n \in Nat PROVE Shift * n \in Nat /\ Shift * n >= n
    <3>1. 1 * n <= Shift * n
      <4>1. CASE n = 0 BY <1>1, <4>1
      <4>2. CASE n >= 1 BY <1>1, <4>2, Cancel
      <4> QED BY <4>1, <4>2
    <3> QED BY <1>1, <3>1
  <2> QED BY <2>1
<1>3. \A n \in Nat : Pow2[Shift * n] \in Nat /\ Pow2[Shift * n] >= 1
  BY <1>2, Pow2Step
<1>4. Pow2[Shift] \in Nat /\ Pow2[Shift] >= 2
  <2>1. Shift - 1 \in Nat BY <1>1
  <2>2. Pow2[(Shift - 1) + 1] = 2 * Pow2[Shift - 1] BY <2>1, Pow2Step
  <2> QED BY <1>1, <2>1, <2>2, Pow2Step
<1>5. Q >= 1
  <2>1. MBS - 1 \in Nat /\ Q > Pow2[MBS - 1] BY FieldAssumption
  <2>2. Pow2[MBS - 1] \in Nat BY <2>1, Pow2Step
  <2> QED BY <1>1, <2>1, <2>2
<1> QED BY <1>1, <1>2, <1>3, <1>4, <1>5, CallAssumption

(* The padding and the range of a carry.                                   *)
LEMMA PadNumbers ==
  ASSUME NEW n \in Nat
  PROVE  /\ Pad(n) \in Nat /\ Weight(n) <= Pad(n)
         /\ CarryRange(Surfeit, Bits) \in Nat /\ CarryRange(Surfeit, Bits) >= 1
<1> DEFINE k == PadExponent(Surfeit, Bits, Shift, n)
<1>1. k \in Nat /\ Shift * n \in Nat /\ Shift * n <= k
  BY CallNumbers, CallAssumption DEF PadExponent
<1>2. Pad(n) \in Nat /\ Weight(n) <= Pad(n)
  <2>1. Pow2[k] \in Nat /\ Pow2[Shift * n] <= Pow2[k]
    BY <1>1, Pow2Step, Pow2Order
  <2> QED BY <2>1 DEF Pad, Weight
<1>3. Min({MBS - 1, Surfeit + Bits}) \in Nat
  BY MinPair, FieldAssumption, CallAssumption
<1> QED BY <1>2, <1>3, Pow2Step DEF CarryRange

(* The weights of limbs multiply.                                          *)
LEMMA Weights ==
  /\ \A n \in Nat : Weight(n) \in Nat /\ Weight(n) >= 1
  /\ \A n \in Nat : n >= 1 => Weight(n) >= 2
  /\ Weight(0) = 1
  /\ \A n \in Nat : Weight(n + 1) = Weight(n) * Pow2[Shift]
  /\ \A a, b \in Nat : Weight(a + b) = Weight(a) * Weight(b)
<1>0. Shift \in Nat BY CallAssumption
<1>1. \A n \in Nat : Weight(n) \in Nat /\ Weight(n) >= 1
  BY CallNumbers DEF Weight
<1>2. \A a, b \in Nat : Weight(a + b) = Weight(a) * Weight(b)
  <2>1. ASSUME NEW a \in Nat, NEW b \in Nat
        PROVE  Weight(a + b) = Weight(a) * Weight(b)
    <3>1. Shift * a \in Nat /\ Shift * b \in Nat BY CallNumbers
    <3>2. Shift * (a + b) = Shift * a + Shift * b BY <1>0
    <3> QED BY <3>1, <3>2, Pow2Plus DEF Weight
  <2> QED BY <2>1
<1>3. Weight(0) = 1 /\ Weight(1) = Pow2[Shift]
  <2>1. Shift * 0 = 0 /\ Shift * 1 = Shift BY <1>0
  <2> QED BY <2>1, Pow2Step DEF Weight
<1>4. ASSUME NEW n \in Nat, n >= 1 PROVE Weight(n) >= 2
  <2>1. n - 1 \in Nat BY <1>4
  <2>2. Weight((n - 1) + 1) = Weight(n - 1) * Weight(1)
    BY <1>2, <2>1
  <2>3. 1 * Weight(1) <= Weight(n - 1) * Weight(1)
    BY <1>1, <2>1, <1>3, CallNumbers, Cancel
  <2>4. (n - 1) + 1 = n BY <1>4
  <2>5. Weight(1) <= Weight(n)
    BY <1>1, <1>3, <2>1, <2>2, <2>3, <2>4, CallNumbers
  <2> QED BY <1>1, <1>3, <1>4, <2>5, CallNumbers
<1> QED BY <1>1, <1>2, <1>3, <1>4

(* The weights and the paddings grow with the number of limbs.             *)
LEMMA WeightsGrow ==
  ASSUME NEW n \in Nat, NEW g \in Nat, n <= g
  PROVE  /\ Weight(n) <= Weight(g) /\ Pad(n) <= Pad(g)
         /\ \E v \in Nat : v >= 1 /\ Weight(g) = Weight(n) * v /\ Pad(g) = Pad(n) * v
<1> DEFINE v == Weight(g - n)
           k == PadExponent(Surfeit, Bits, Shift, n)
           w == Weight(n)
           p == Pad(n)
<1>1. g - n \in Nat /\ n + (g - n) = g BY Z3
<1>2. v \in Nat /\ v >= 1 /\ w \in Nat /\ p \in Nat BY <1>1, Weights, PadNumbers
<1>3. Weight(g) = w * v
  <2>1. Weight(n + (g - n)) = Weight(n) * Weight(g - n) BY <1>1, Weights
  <2> QED BY <1>1, <2>1
<1>4. Pad(g) = p * v
  <2>1. k \in Nat /\ Shift * (g - n) \in Nat
    BY <1>1, CallNumbers, CallAssumption DEF PadExponent
  <2>2. PadExponent(Surfeit, Bits, Shift, g) = k + Shift * (g - n)
    <3>1. Shift * g = Shift * n + Shift * (g - n) BY CallAssumption
    <3>2. Shift * g \in Nat /\ Shift * n \in Nat BY CallNumbers
    <3> QED BY <2>1, <3>1, <3>2, CallAssumption DEF PadExponent
  <2>3. Pow2[k + Shift * (g - n)] = Pow2[k] * Pow2[Shift * (g - n)]
    BY <2>1, Pow2Plus
  <2> QED BY <2>2, <2>3 DEF Pad, Weight
<1> HIDE DEF v, w, p
<1>5. ASSUME NEW x \in Nat PROVE x <= x * v BY <1>2
<1>6. w <= w * v /\ p <= p * v BY <1>2, <1>5
<1> QED BY <1>2, <1>3, <1>4, <1>6 DEF w, p

(* The limbs of n ones: the divisor of GroupTotal divides.                 *)
LEMMA OnesDivide ==
  ASSUME NEW n \in Nat
  PROVE  \E r \in Nat : Weight(n) - 1 = r * (Pow2[Shift] - 1)
<1> DEFINE S == {m \in Nat : \E r \in Nat : Weight(m) - 1 = r * (Pow2[Shift] - 1)}
           s == Pow2[Shift]
<1>1. s \in Nat /\ s >= 2 BY CallNumbers
<1>2. 0 \in S
  <2> HIDE DEF s
  <2>1. Weight(0) - 1 = 0 BY Weights
  <2>2. 0 * (s - 1) = 0 BY <1>1
  <2>3. Weight(0) - 1 = 0 * (s - 1) BY <2>1, <2>2
  <2> QED BY <2>3 DEF s
<1>3. ASSUME NEW m \in Nat, m \in S PROVE m + 1 \in S
  <2>1. PICK r \in Nat : Weight(m) - 1 = r * (s - 1) BY <1>3
  <2>2. Weight(m + 1) = Weight(m) * s /\ Weight(m) \in Nat BY Weights
  <2>3. Weight(m + 1) - 1 = (r * s + 1) * (s - 1)
    <3> HIDE DEF s
    <3>1. Weight(m) = r * (s - 1) + 1 /\ r * (s - 1) \in Int BY <1>1, <2>1, <2>2
    <3> QED BY <1>1, <2>2, <3>1
  <2>4. r * s + 1 \in Nat BY <1>1
  <2> QED BY <2>3, <2>4
<1> HIDE DEF S
<1>4. \A m \in Nat : m \in S BY <1>2, <1>3, SetInduction
<1> QED BY <1>4 DEF S

(* The largest total of a group.                                           *)
LEMMA TotalIs ==
  ASSUME NEW max \in Nat, NEW n \in Nat
  PROVE  /\ GroupTotal(max, Shift, n) \in Nat
         /\ GroupTotal(max, Shift, n) * (Pow2[Shift] - 1) = max * (Weight(n) - 1)
<1> DEFINE s == Pow2[Shift] - 1
           w == Weight(n) - 1
<1>1. s \in Nat /\ s >= 1 BY CallNumbers
<1>2. PICK r \in Nat : w = r * s BY OnesDivide
<1>3. GroupTotal(max, Shift, n) = max * (w \div s) BY DEF GroupTotal, Weight
<1> HIDE DEF s, w
<1>4. w \in Nat BY <1>1, <1>2
<1>5. w \div s = r
  <2>1. w \div s \in Nat /\ w % s \in 0 .. s - 1 /\ w = (w \div s) * s + (w % s)
    BY <1>1, <1>4, DivMod
  <2> DEFINE d == w \div s
             m == w % s
  <2>2. d \in Nat /\ m \in 0 .. s - 1 /\ w = d * s + m BY <2>1
  <2> HIDE DEF d, m
  <2>3. (r - d) * s = m /\ r - d \in Int BY <1>1, <1>2, <2>2
  <2>4. (r - d) * s < 1 * s /\ (-1) * s < (r - d) * s BY <1>1, <2>2, <2>3
  <2>5. r - d < 1 /\ -1 < r - d BY <1>1, <2>3, <2>4, Cancel
  <2>6. r = d BY <2>2, <2>5
  <2> QED BY <2>6 DEF d
<1>6. max * r * s = max * (r * s) /\ max * r \in Nat BY <1>1
<1> QED BY <1>2, <1>3, <1>5, <1>6 DEF s, w

(* What the absence of faults says.                                        *)
LEMMA NoFaults ==
  \E g \in Nat :
    /\ g = Min({Size, Len}) /\ g >= 1 /\ g <= Size /\ g <= Len
    /\ Size < Len => g = Size
    /\ GroupTotal(LeftMax, Shift, g) + Pad(g) + CarryRange(Surfeit, Bits) <= Q
    /\ GroupTotal(RightMax, Shift, g) <= Pad(g)
    /\ Size < Len =>
         GroupTotal(LeftMax, Shift, g) + Pad(g) + CarryRange(Surfeit, Bits)
           <= CarryRange(Surfeit, Bits) * Weight(g)
<1> DEFINE g == Min({Size, Len})
           c == CarryRange(Surfeit, Bits)
           l == GroupTotal(LeftMax, Shift, g)
           r == GroupTotal(RightMax, Shift, g)
           p == Pad(g)
           w == Weight(g)
           total == l + p + c - 1
           d == total \div w
<1>1. /\ Size \in Nat /\ Size >= 1 /\ Len \in Nat /\ Len >= 1
  BY CallNumbers, CallAssumption
<1>2. g = IF Size <= Len THEN Size ELSE Len BY <1>1, MinPair
<1>3. g \in Nat /\ g >= 1 /\ g <= Size /\ g <= Len /\ (Size < Len => g = Size)
  BY <1>1, <1>2
<1>4. /\ ~(Size < 1) /\ ~(total >= Q) /\ ~(r > p)
      /\ ~(Size < Len /\ d >= c)
  <2>1. GroupFaults(Surfeit, Bits, Shift, LeftMax, RightMax, Len)
          = IF Size < 1 THEN {"panic"}
            ELSE Faults(p >= Q, total >= Q \/ r > p, Size < Len /\ d >= c)
                   \cup CarryFaults(Surfeit, Bits, Shift, Len)
    BY DEF GroupFaults, Size, Pad, Weight
  <2> HIDE DEF g, c, l, r, p, w, total, d
  <2>2. Size >= 1 BY <1>1
  <2>3. Faults(p >= Q, total >= Q \/ r > p, Size < Len /\ d >= c) \subseteq {"loose"}
    BY <1>1, <2>1, <2>2, NoFaultsAssumption
  <2>4. "wrap" # "loose" /\ "unsat" # "loose" OBVIOUS
  <2> QED BY <1>1, <2>3, <2>4 DEF Faults
<1> HIDE DEF g
<1>5. l \in Nat /\ r \in Nat /\ p \in Nat /\ c \in Nat /\ c >= 1 /\ w \in Nat /\ w >= 1
  BY <1>3, TotalIs, PadNumbers, Weights, CallAssumption
<1> HIDE DEF c, l, r, p, w
<1>6. total \in Nat /\ Q \in Nat BY <1>5, CallNumbers
<1>7. l + p + c <= Q /\ r <= p BY <1>4, <1>5, <1>6
<1>8. ASSUME Size < Len PROVE l + p + c <= c * w
  <2> HIDE DEF total
  <2>1. d \in Nat /\ total % w \in 0 .. w - 1 /\ total = d * w + (total % w)
    BY <1>5, <1>6, DivMod
  <2>2. d < c BY <1>4, <1>5, <1>8, <2>1
  <2> DEFINE m == total % w
  <2>3. d \in Nat /\ m \in 0 .. w - 1 /\ total = d * w + m BY <2>1
  <2> HIDE DEF d, m
  <2>4. d + 1 <= c /\ d + 1 \in Int BY <1>5, <2>2, <2>3
  <2>5. (d + 1) * w <= c * w BY <1>5, <2>3, <2>4, Cancel
  <2>6. (d + 1) * w = d * w + w /\ d * w \in Nat /\ c * w \in Nat BY <1>5, <2>3
  <2>7. total < c * w BY <1>5, <1>6, <2>3, <2>5, <2>6
  <2> QED BY <1>5, <2>6, <2>7 DEF total
<1> QED BY <1>3, <1>7, <1>8 DEF g, c, l, r, p, w

(* No group leaves the field, also not a shorter one: a group of n limbs,  *)
(* each at most max, is at most max * (2^(Shift*n) - 1) / (2^Shift - 1).   *)
LEMMA RoomHolds ==
  ASSUME NEW n \in 1 .. Min({Size, Len})
  PROVE  /\ Pad(n) + CarryRange(Surfeit, Bits) <= Q
         /\ LeftMax * (Weight(n) - 1)
              < (Q - Pad(n) - CarryRange(Surfeit, Bits) + 1) * (Pow2[Shift] - 1)
         /\ RightMax * (Weight(n) - 1) <= Pad(n) * (Pow2[Shift] - 1)
<1> DEFINE c == CarryRange(Surfeit, Bits)
           s == Pow2[Shift] - 1
<1>1. PICK g \in Nat :
        /\ g = Min({Size, Len})
        /\ GroupTotal(LeftMax, Shift, g) + Pad(g) + c <= Q
        /\ GroupTotal(RightMax, Shift, g) <= Pad(g)
  BY NoFaults
<1>2. n \in Nat /\ n <= g BY <1>1
<1> DEFINE l == GroupTotal(LeftMax, Shift, g)
           r == GroupTotal(RightMax, Shift, g)
           w == Weight(n)
           p == Pad(n)
<1>3. /\ l \in Nat /\ l * s = LeftMax * (Weight(g) - 1)
      /\ r \in Nat /\ r * s = RightMax * (Weight(g) - 1)
  BY TotalIs, CallAssumption
<1>4. PICK v \in Nat : v >= 1 /\ Weight(g) = w * v /\ Pad(g) = p * v BY <1>2, WeightsGrow
<1>5. /\ w \in Nat /\ w >= 1 /\ p \in Nat /\ c \in Nat /\ s \in Nat /\ s >= 1
      /\ Q \in Nat /\ LeftMax \in Nat /\ RightMax \in Nat
  <2>1. w \in Nat /\ w >= 1 BY <1>2, Weights
  <2>2. p \in Nat /\ c \in Nat BY <1>2, PadNumbers
  <2>3. s \in Nat /\ s >= 1 /\ Q \in Nat BY CallNumbers
  <2>4. LeftMax \in Nat /\ RightMax \in Nat BY CallAssumption
  <2> HIDE DEF w, p, c, s
  <2> QED BY <2>1, <2>2, <2>3, <2>4
<1>6. l + p * v + c <= Q /\ r <= p * v BY <1>1, <1>4
<1>7. /\ l * s = LeftMax * (w * v - 1) /\ r * s = RightMax * (w * v - 1)
  BY <1>3, <1>4
<1>8. l \in Nat /\ r \in Nat BY <1>3
<1> HIDE DEF c, s, l, r, w, p
<1>9. ASSUME NEW x \in Nat PROVE x <= x * v BY <1>4
<1>10. p <= p * v /\ w <= w * v /\ w * v \in Nat /\ p * v \in Nat BY <1>4, <1>5, <1>9
<1>11. p + c <= Q BY <1>5, <1>6, <1>8, <1>10
<1>12. ASSUME NEW x \in Nat PROVE x * (w - 1) <= x * (w * v - 1) /\ x * (w - 1) \in Int
  <2>1. w - 1 \in Nat /\ w * v - 1 \in Nat /\ w - 1 <= w * v - 1 BY <1>5, <1>10
  <2> DEFINE y == w - 1
             z == w * v - 1
  <2>2. y \in Nat /\ z \in Nat /\ y <= z BY <2>1
  <2> HIDE DEF y, z
  <2>3. CASE x = 0 BY <2>2, <2>3 DEF y, z
  <2>4. CASE x >= 1
    <3>1. y * x <= z * x BY <2>2, <2>4, Cancel
    <3>2. x * y = y * x /\ x * z = z * x /\ x * y \in Int BY <2>2
    <3> QED BY <3>1, <3>2 DEF y, z
  <2> QED BY <2>3, <2>4
<1>13. LeftMax * (w - 1) < (Q - p - c + 1) * s
  <2>1. LeftMax * (w - 1) <= l * s BY <1>5, <1>7, <1>12
  <2>2. l + 1 <= Q - p - c + 1 BY <1>5, <1>6, <1>8, <1>10
  <2> DEFINE q == Q - p - c + 1
  <2>3. q \in Int BY <1>5
  <2>4. (l + 1) * s <= q * s BY <1>5, <1>8, <2>2, <2>3, Cancel
  <2>5. (l + 1) * s = l * s + s /\ l * s \in Nat /\ q * s \in Int BY <1>5, <1>8, <2>3
  <2> HIDE DEF q
  <2>6. LeftMax * (w - 1) < q * s BY <1>5, <1>12, <2>1, <2>4, <2>5
  <2> QED BY <2>6 DEF q
<1>14. RightMax * (w - 1) <= p * s
  <2> DEFINE x == RightMax * (w - 1)
  <2>1. x \in Int BY <1>5
  <2>2. x * v <= RightMax * (w * v - 1)
    <3>1. x * v = RightMax * (w * v) - RightMax * v BY <1>4, <1>5
    <3>2. RightMax * (w * v - 1) = RightMax * (w * v) - RightMax BY <1>4, <1>5, <1>10
    <3>3. RightMax <= RightMax * v BY <1>5, <1>9
    <3>4. RightMax * (w * v) \in Int /\ RightMax * v \in Int BY <1>4, <1>5, <1>10
    <3> QED BY <1>5, <3>1, <3>2, <3>3, <3>4
  <2>3. r * s <= p * v * s BY <1>5, <1>6, <1>8, <1>10, Cancel
  <2>4. p * v * s = p * s * v /\ p * s \in Int /\ p * s * v \in Int BY <1>4, <1>5
  <2>5. RightMax * (w * v - 1) \in Int /\ x * v \in Int BY <1>4, <1>5, <1>10, <2>1
  <2>6. x * v <= p * s * v BY <1>7, <2>2, <2>3, <2>4, <2>5
  <2> DEFINE y == p * s
  <2>7. y \in Int /\ x * v <= y * v BY <2>4, <2>6
  <2> HIDE DEF x, y
  <2>8. x <= y BY <1>4, <2>1, <2>7, Cancel
  <2> QED BY <2>8 DEF x, y
<1> QED BY <1>11, <1>13, <1>14 DEF c, s, w, p

(* Every carry that is not the last fits the bits it is cut into.          *)
LEMMA CarryFits ==
  ASSUME Size < Len
  PROVE  LeftMax * (Weight(Size) - 1)
           < (CarryRange(Surfeit, Bits) * Weight(Size)
                - Pad(Size) - CarryRange(Surfeit, Bits) + 1) * (Pow2[Shift] - 1)
<1> DEFINE c == CarryRange(Surfeit, Bits)
           s == Pow2[Shift] - 1
           l == GroupTotal(LeftMax, Shift, Size)
           w == Weight(Size)
           p == Pad(Size)
           q == c * w - p - c + 1
<1>1. l + p + c <= c * w BY NoFaults
<1>2. l \in Nat /\ l * s = LeftMax * (w - 1) BY TotalIs, CallNumbers, CallAssumption
<1>3. w \in Nat /\ p \in Nat /\ c \in Nat /\ s \in Nat /\ s >= 1
  <2>1. Size \in Nat BY CallNumbers
  <2>2. w \in Nat BY <2>1, Weights
  <2>3. p \in Nat /\ c \in Nat BY <2>1, PadNumbers
  <2>4. s \in Nat /\ s >= 1 BY CallNumbers
  <2> HIDE DEF w, p, c, s
  <2> QED BY <2>2, <2>3, <2>4
<1> HIDE DEF c, s, l, w, p
<1>4. c * w \in Nat BY <1>3
<1>5. q \in Int /\ l + 1 <= q BY <1>1, <1>2, <1>3, <1>4
<1> HIDE DEF q
<1>6. (l + 1) * s <= q * s BY <1>2, <1>3, <1>5, Cancel
<1>7. (l + 1) * s = l * s + s /\ l * s \in Nat /\ q * s \in Int BY <1>2, <1>3, <1>5
<1>8. l * s < q * s BY <1>3, <1>6, <1>7
<1> QED BY <1>2, <1>8 DEF c, s, l, w, p, q

(* A total of n limbs no larger than max is below the bound of a group.    *)
Within(total, max, n) ==
  total * (Pow2[Shift] - 1) <= max * (Weight(n) - 1)

(* One more limb stays within the bound of a group of one more.            *)
LEMMA WithinStep ==
  ASSUME NEW t \in Nat, NEW max \in Nat, NEW n \in Nat, NEW l \in 0 .. max,
         Within(t, max, n)
  PROVE  /\ t + l * Weight(n) \in Nat
         /\ Within(t + l * Weight(n), max, n + 1)
<1> DEFINE w == Weight(n)
           s == Pow2[Shift]
<1>1. w \in Nat /\ w >= 1 /\ s \in Nat /\ s >= 2 /\ Weight(n + 1) = w * s
  BY Weights, CallNumbers
<1>2. t * (s - 1) <= max * (w - 1) BY DEF Within
<1> HIDE DEF w, s
<1>3. w * (s - 1) \in Nat
  <2>1. s - 1 \in Nat BY <1>1
  <2> QED BY <1>1, <2>1
<1>4. l * (w * (s - 1)) <= max * (w * (s - 1))
  <2>1. CASE w * (s - 1) = 0 BY <2>1
  <2>2. CASE w * (s - 1) >= 1 BY <1>3, <2>2, Cancel
  <2> QED BY <1>3, <2>1, <2>2
<1>5. l * w \in Nat BY <1>1
<1>6. (t + l * w) * (s - 1) = t * (s - 1) + l * (w * (s - 1)) BY <1>1
<1>7. max * (w * s - 1) = max * (w - 1) + max * (w * (s - 1)) BY <1>1
<1>8. t * (s - 1) \in Int /\ l * (w * (s - 1)) \in Int
      /\ max * (w - 1) \in Int /\ max * (w * (s - 1)) \in Int
  BY <1>1, <1>3
<1>9. (t + l * w) * (s - 1) <= max * (w * s - 1)
  BY <1>2, <1>4, <1>6, <1>7, <1>8
<1> QED BY <1>1, <1>5, <1>9 DEF Within, w, s

(* A group within the bound leaves the field room for padding and carry.   *)
LEMMA GroupRoom ==
  ASSUME NEW t \in Nat, NEW n \in 1 .. Size, n <= Len
  PROVE  /\ Within(t, LeftMax, n)
              => t + Pad(n) + CarryRange(Surfeit, Bits) <= Q
         /\ Within(t, RightMax, n) => t <= Pad(n)
         /\ Pad(n) + CarryRange(Surfeit, Bits) <= Q
<1> DEFINE s == Pow2[Shift] - 1
           c == CarryRange(Surfeit, Bits)
<1>1. n \in 1 .. Min({Size, Len})
  <2>1. Min({Size, Len}) = IF Size <= Len THEN Size ELSE Len
    BY CallNumbers, MinPair
  <2> QED BY <2>1, CallNumbers
<1>2. s \in Nat /\ s >= 1 /\ Pad(n) \in Nat /\ c \in Nat /\ Q \in Nat
      /\ LeftMax \in Nat /\ RightMax \in Nat
  BY CallNumbers, PadNumbers, CallAssumption
<1>3. /\ Pad(n) + c <= Q
      /\ LeftMax * (Weight(n) - 1) < (Q - Pad(n) - c + 1) * s
      /\ RightMax * (Weight(n) - 1) <= Pad(n) * s
  BY <1>1, RoomHolds
<1>4. LeftMax * (Weight(n) - 1) \in Int /\ RightMax * (Weight(n) - 1) \in Int
  <2>1. n \in Nat BY CallNumbers
  <2>2. Weight(n) - 1 \in Int BY <2>1, Weights
  <2> QED BY <1>2, <2>2
<1>5. Q - Pad(n) - c + 1 \in Int /\ t * s \in Int
      /\ (Q - Pad(n) - c + 1) * s \in Int /\ Pad(n) * s \in Int
  BY <1>2
<1>6. ASSUME Within(t, LeftMax, n) PROVE t + Pad(n) + c <= Q
  <2>1. t * s < (Q - Pad(n) - c + 1) * s
    BY <1>3, <1>4, <1>5, <1>6 DEF Within
  <2>2. t < Q - Pad(n) - c + 1
    <3> HIDE DEF s, c
    <3> QED BY <1>2, <1>5, <2>1, Cancel
  <2> QED BY <1>2, <2>2
<1>7. ASSUME Within(t, RightMax, n) PROVE t <= Pad(n)
  <2>1. t * s <= Pad(n) * s BY <1>3, <1>4, <1>5, <1>7 DEF Within
  <2> HIDE DEF s, c
  <2> QED BY <1>2, <2>1, Cancel
<1> QED BY <1>3, <1>6, <1>7

-----------------------------------------------------------------------------
(* The invariant.                                                          *)

Difference == ints.left - ints.right

(* Where the program is.                                                   *)
Phase ==
  /\ pc = "pack" => taken < Len /\ group.len < Size
  /\ pc = "check" => group.len >= 1 /\ (taken < Len => group.len = Size)
  /\ pc = "done" => taken = Len /\ group = Empty
                      /\ (satisfied => carryIn = extra)

(* The totals of a group are those of limbs that small.                    *)
Bounded ==
  /\ Within(group.left, LeftMax, group.len)
  /\ Within(group.right, RightMax, group.len)
  /\ satisfied /\ pc # "done" => carryIn < CarryRange(Surfeit, Bits)

(* The difference is what the carries say, up to a multiple of the native  *)
(* modulus, which only a right side out of the field brings in.            *)
DifferenceIs ==
  satisfied =>
    \E q \in Int :
      /\ Difference = ((carryIn - extra) + (group.left - group.right))
                         * Weight(taken - group.len) + q * Q
      /\ inField => q = 0

(* The program's own carries do not leave the field.                       *)
OwnInField == satisfied /\ honest => inField

(* Once a constraint has failed of an honest prover the integers are known *)
(* to differ: already in the limbs checked, whatever the others are.       *)
DifferenceRemains ==
  honest /\ ~satisfied =>
    \/ pc = "done" /\ Difference # 0
    \/ \E t \in 0 .. taken - group.len : \A q \in Int : Difference # q * Weight(t)

GroupInv ==
  TypeOK /\ Phase /\ Bounded /\ DifferenceIs /\ OwnInField /\ DifferenceRemains

(* No limb taken.                                                          *)
LEMMA GroupInit == Init => GroupInv
<1> SUFFICES ASSUME Init PROVE GroupInv OBVIOUS
<1>1. group = [left |-> 0, right |-> 0, len |-> 0]
      /\ ints = [left |-> 0, right |-> 0]
      /\ taken = 0 /\ carryIn = 0 /\ extra = 0 /\ pc = "pack" /\ satisfied = TRUE
      /\ honest = TRUE /\ inField = TRUE
  BY DEF Init, Empty
<1>2. TypeOK
  <2>1. left \in [1 .. Len -> 0 .. LeftMax] /\ right \in [1 .. Len -> 0 .. RightMax]
    BY CallAssumption DEF Init
  <2>2. 0 \in 0 .. Q - 1 /\ 0 \in 0 .. Size /\ 0 \in 0 .. Len
    BY CallNumbers
  <2>3. group \in [left : 0 .. Q - 1, right : 0 .. Q - 1, len : 0 .. Size]
        /\ ints \in [left : Nat, right : Nat] /\ group.len <= taken
    BY <1>1, <2>2
  <2> QED BY <1>1, <2>1, <2>2, <2>3 DEF TypeOK
<1>3. Phase BY <1>1, CallAssumption DEF Phase
<1>4. Bounded
  <2>1. Weight(0) = 1 BY Weights
  <2>2. Within(0, LeftMax, 0) /\ Within(0, RightMax, 0)
    BY <2>1, CallNumbers, CallAssumption DEF Within
  <2>3. 0 \in Nat /\ CarryRange(Surfeit, Bits) >= 1
          /\ CarryRange(Surfeit, Bits) \in Nat
    BY PadNumbers
  <2> QED BY <1>1, <2>2, <2>3 DEF Bounded
<1>5. DifferenceIs
  <2>1. Weight(taken - group.len) = 1 BY <1>1, Weights
  <2>2. Difference = 0 BY <1>1 DEF Difference
  <2>3. 0 * Q = 0 BY CallNumbers
  <2>4. Difference = ((carryIn - extra) + (group.left - group.right))
                       * Weight(taken - group.len) + 0 * Q
    BY <1>1, <2>1, <2>2, <2>3
  <2> QED BY <2>4 DEF DifferenceIs
<1>6. DifferenceRemains /\ OwnInField BY <1>1 DEF DifferenceRemains, OwnInField
<1> QED BY <1>2, <1>3, <1>4, <1>5, <1>6 DEF GroupInv

(* What the type invariant says of the numbers.                            *)
LEMMA Numbers ==
  ASSUME GroupInv
  PROVE  /\ group.left \in Nat /\ group.right \in Nat /\ group.len \in Nat
         /\ group.len <= Size /\ taken \in Nat /\ taken <= Len
         /\ group.len <= taken /\ taken - group.len \in Nat
         /\ carryIn \in Nat /\ carryIn < Q /\ extra \in Nat /\ extra < Q
         /\ group.left < Q /\ group.right < Q
         /\ ints.left \in Nat /\ ints.right \in Nat
         /\ Difference \in Int
<1>1. Q \in Nat /\ Size \in Nat /\ Len \in Nat BY CallNumbers
<1>2. group.left \in 0 .. Q - 1 /\ group.right \in 0 .. Q - 1
      /\ group.len \in 0 .. Size /\ ints.left \in Nat /\ ints.right \in Nat
  BY DEF GroupInv, TypeOK
<1>3. group.len <= taken /\ taken \in 0 .. Len
      /\ carryIn \in 0 .. Q - 1 /\ extra \in 0 .. Q - 1
  BY DEF GroupInv, TypeOK
<1> QED BY <1>1, <1>2, <1>3 DEF Difference

(* Putting a limb into the group keeps the invariant.                      *)
LEMMA AddLimbInv ==
  ASSUME GroupInv, AddLimb
  PROVE  GroupInv'
<1> DEFINE n == group.len
           l == left[taken + 1]
           r == right[taken + 1]
           w == Weight(n)
<1>1. /\ pc = "pack" /\ taken < Len /\ n < Size
      /\ group' = [left  |-> (group.left + l * w) % Q,
                   right |-> (group.right + r * w) % Q, len |-> n + 1]
      /\ ints' = [left  |-> ints.left + l * Pow2[Shift * taken],
                  right |-> ints.right + r * Pow2[Shift * taken]]
      /\ taken' = taken + 1
      /\ pc' = IF Closes(n + 1) THEN "check" ELSE "pack"
      /\ UNCHANGED <<left, right, carryIn, extra, satisfied, honest, inField>>
  BY DEF AddLimb, NextPair, GroupInv, Phase
<1>2. l \in 0 .. LeftMax /\ r \in 0 .. RightMax
  <2>1. taken + 1 \in 1 .. Len BY <1>1, Numbers, CallNumbers
  <2> QED BY <2>1 DEF GroupInv, TypeOK
<1>3. w \in Nat /\ w >= 1 /\ Weight(taken) \in Nat
      /\ Pow2[Shift * taken] = Weight(taken)
  BY Weights, Numbers DEF Weight
<1>4. /\ group.left + l * w \in Nat
      /\ Within(group.left + l * w, LeftMax, n + 1)
      /\ group.right + r * w \in Nat
      /\ Within(group.right + r * w, RightMax, n + 1)
  BY <1>2, WithinStep, Numbers, CallAssumption DEF GroupInv, Bounded
<1>5. n + 1 \in 1 .. Size /\ n + 1 <= Len /\ n + 1 \in Nat
  BY <1>1, Numbers, CallNumbers
<1>6. group.left + l * w < Q /\ group.right + r * w < Q
  <2>1. Pad(n + 1) \in Nat /\ CarryRange(Surfeit, Bits) \in Nat
        /\ CarryRange(Surfeit, Bits) >= 1
    BY <1>5, PadNumbers
  <2>2. group.left + l * w + Pad(n + 1) + CarryRange(Surfeit, Bits) <= Q
    BY <1>4, <1>5, GroupRoom
  <2>3. group.right + r * w <= Pad(n + 1)
        /\ Pad(n + 1) + CarryRange(Surfeit, Bits) <= Q
    BY <1>4, <1>5, GroupRoom
  <2> QED BY <1>4, <2>1, <2>2, <2>3, CallNumbers
<1>7. group' = [left |-> group.left + l * w, right |-> group.right + r * w,
                len |-> n + 1]
  <2>1. \A x \in Nat : x < Q => x % Q = x BY CallNumbers
  <2> QED BY <1>1, <1>4, <1>6, <2>1
<1>8. ints' \in [left : Nat, right : Nat]
      /\ Difference' = Difference + (l - r) * Weight(taken)
  <2>1. l * Weight(taken) \in Nat /\ r * Weight(taken) \in Nat
    BY <1>2, <1>3, CallAssumption
  <2>2. ints' = [left  |-> ints.left + l * Weight(taken),
                 right |-> ints.right + r * Weight(taken)]
    BY <1>1, <1>3
  <2>3. (l - r) * Weight(taken) = l * Weight(taken) - r * Weight(taken)
    BY <1>2, <1>3, CallAssumption
  <2> QED BY <2>1, <2>2, <2>3, Numbers DEF Difference
<1>9. TypeOK'
  <2>1. group' \in [left : 0 .. Q - 1, right : 0 .. Q - 1, len : 0 .. Size]
    BY <1>4, <1>5, <1>6, <1>7, CallNumbers
  <2>2. group.len' <= taken' /\ taken' \in 0 .. Len
    BY <1>1, <1>7, Numbers, CallNumbers
  <2>3. pc' \in {"pack", "check", "done"} BY <1>1
  <2> QED BY <1>1, <1>8, <2>1, <2>2, <2>3 DEF GroupInv, TypeOK
<1>10. Phase'
  <2>1. CASE Closes(n + 1)
    BY <1>1, <1>5, <1>7, <2>1, Numbers, CallNumbers DEF Closes, Phase
  <2>2. CASE ~Closes(n + 1)
    BY <1>1, <1>5, <1>7, <2>2, Numbers, CallNumbers DEF Closes, Phase
  <2> QED BY <2>1, <2>2
<1>11. Bounded'
  <2>1. Within(group.left', LeftMax, group.len')
        /\ Within(group.right', RightMax, group.len')
    BY <1>4, <1>7
  <2>2. Within(group.left, LeftMax, group.len)'
        /\ Within(group.right, RightMax, group.len)'
    BY <2>1 DEF Within, Weight
  <2>3. pc # "done" /\ satisfied' = satisfied /\ carryIn' = carryIn BY <1>1
  <2>4. CarryRange(Surfeit, Bits)' = CarryRange(Surfeit, Bits)
    BY DEF CarryRange
  <2> QED BY <2>2, <2>3, <2>4 DEF GroupInv, Bounded
<1>12. DifferenceIs'
  <2> SUFFICES ASSUME satisfied
               PROVE  \E q \in Int :
                        /\ Difference'
                             = ((carryIn' - extra') + (group.left' - group.right'))
                                 * Weight(taken' - group.len') + q * Q
                        /\ inField => q = 0
    BY <1>1 DEF DifferenceIs, Difference, Weight
  <2> DEFINE w0 == Weight(taken - n)
             e == (carryIn - extra) + (group.left - group.right)
  <2>1. PICK q \in Int : Difference = e * w0 + q * Q /\ (inField => q = 0)
    BY DEF GroupInv, DifferenceIs
  <2>2. w0 \in Nat /\ Weight(taken) = w0 * w
    <3>1. taken = (taken - n) + n BY Numbers
    <3> QED BY <3>1, Numbers, Weights
  <2>3. taken' - group.len' = taken - n BY <1>1, <1>7, Numbers
  <2>4. group.left' - group.right' = (group.left - group.right) + (l - r) * w
    <3>1. l * w \in Nat /\ r * w \in Nat BY <1>2, <1>3, CallAssumption
    <3>2. (l - r) * w = l * w - r * w BY <1>2, <1>3, CallAssumption
    <3> QED BY <1>7, <3>1, <3>2, Numbers
  <2>5. e \in Int /\ l - r \in Int /\ (l - r) * w \in Int
    BY Numbers, <1>2, <1>3, CallAssumption
  <2>6. (carryIn' - extra') + (group.left' - group.right') = e + (l - r) * w
    BY <1>1, <2>4, <2>5, Numbers
  <2>7. Difference' = (e * w0 + (l - r) * (w0 * w)) + q * Q
    <3> DEFINE a == e * w0
               b == (l - r) * (w0 * w)
               c == q * Q
    <3>1. Difference' = Difference + b BY <1>8, <2>2
    <3>2. Difference = a + c BY <2>1
    <3>3. a \in Int /\ c \in Int BY <2>1, <2>2, <2>5, CallNumbers
    <3>4. b \in Int
      <4>1. w0 * w \in Int BY <1>3, <2>2
      <4> HIDE DEF l, r, w, w0
      <4> QED BY <2>5, <4>1
    <3> HIDE DEF a, b, c
    <3>5. Difference' = (a + b) + c BY <3>1, <3>2, <3>3, <3>4
    <3> QED BY <3>5 DEF a, b, c
  <2> HIDE DEF e, w0, w, l, r
  <2>8. e * w0 + (l - r) * (w0 * w) = (e + (l - r) * w) * w0
    BY <1>3, <2>2, <2>5
  <2>9. Weight(taken' - group.len') = w0
    BY <2>3 DEF w0, n
  <2>10. Difference' = ((carryIn' - extra') + (group.left' - group.right'))
                         * Weight(taken' - group.len') + q * Q
    BY <2>6, <2>7, <2>8, <2>9
  <2> QED BY <2>1, <2>10
<1>14. OwnInField' BY <1>1 DEF GroupInv, OwnInField
<1>13. DifferenceRemains'
  <2> SUFFICES ASSUME honest, ~satisfied
               PROVE  \E t \in 0 .. taken' - group.len' :
                        \A q \in Int : Difference' # q * Weight(t)
    BY <1>1 DEF DifferenceRemains, Weight
  <2>1. PICK t \in 0 .. taken - n : \A q \in Int : Difference # q * Weight(t)
    BY <1>1 DEF GroupInv, DifferenceRemains
  <2>2. taken' - group.len' = taken - n BY <1>1, <1>7, Numbers
  <2>3. t \in Nat /\ taken - t \in Nat /\ taken = t + (taken - t) BY Numbers
  <2> DEFINE v == Weight(taken - t)
  <2>4. Weight(taken) = Weight(t) * v /\ v \in Nat /\ Weight(t) \in Nat
    BY <2>3, Weights
  <2>5. ASSUME NEW q \in Int, Difference' = q * Weight(t) PROVE FALSE
    <3>1. l - r \in Int /\ (l - r) * v \in Int
      BY <1>2, <2>4, CallAssumption
    <3>2. (l - r) * Weight(taken) = ((l - r) * v) * Weight(t)
      <4> HIDE DEF l, r, v
      <4> QED BY <2>4, <3>1
    <3>3. Difference = q * Weight(t) - ((l - r) * v) * Weight(t)
      <4>1. (l - r) * Weight(taken) \in Int /\ q * Weight(t) \in Int
        BY <2>4, <3>1, <1>3
      <4> QED BY <1>8, <2>5, <3>2, <4>1, Numbers
    <3>4. Difference = (q - (l - r) * v) * Weight(t)
      <4> HIDE DEF l, r, v
      <4> QED BY <2>4, <3>1, <3>3
    <3> QED BY <2>1, <3>1, <3>4
  <2> QED BY <2>1, <2>2, <2>5
<1> QED BY <1>9, <1>10, <1>11, <1>12, <1>13, <1>14 DEF GroupInv

(* What checking a group computes, and what it means that its equation     *)
(* holds: the value of the group leaves the remainder of the padding.      *)
LEMMA GroupNumbers ==
  ASSUME GroupInv, pc = "check"
  PROVE  LET n == group.len
             w == Weight(n)
             x == extra + Pad(n)
             g == GroupValue
         IN  /\ n \in 1 .. Size /\ n <= Len /\ n \in Nat
             /\ w \in Nat /\ w >= 2 /\ w <= Q /\ x \in Nat
             /\ x \div w \in Nat /\ x \div w < Q /\ x % w \in 0 .. w - 1
             /\ x = (x \div w) * w + (x % w)
             /\ g \in 0 .. Q - 1 /\ g \div w \in Nat /\ g \div w < Q
             /\ g % w \in 0 .. w - 1
             /\ g = (g \div w) * w + (g % w)
             /\ (g = ((g \div w) * w + (x % w)) % Q) <=> (g % w = x % w)
<1> DEFINE n == group.len
           w == Weight(n)
           x == extra + Pad(n)
           g == GroupValue
<1>1. n \in 1 .. Size /\ n <= Len /\ n \in Nat
  <2>1. n >= 1 BY DEF GroupInv, Phase
  <2> QED BY <2>1, Numbers, CallNumbers
<1>2. Pad(n) \in Nat /\ w <= Pad(n) /\ Pad(n) < Q
  <2>1. Pad(n) \in Nat /\ w <= Pad(n) /\ CarryRange(Surfeit, Bits) \in Nat
        /\ CarryRange(Surfeit, Bits) >= 1
    BY <1>1, PadNumbers
  <2>2. 0 \in Nat /\ Pad(n) + CarryRange(Surfeit, Bits) <= Q
    BY <1>1, GroupRoom
  <2> QED BY <2>1, <2>2, CallNumbers
<1>3. w \in Nat /\ w >= 2 /\ w <= Q
  <2>0. n \in Nat /\ n >= 1 BY <1>1 DEF GroupInv, Phase
  <2>1. w \in Nat /\ w >= 2 BY <2>0, Weights
  <2>2. Q \in Nat BY CallNumbers
  <2> HIDE DEF w
  <2> QED BY <1>2, <2>1, <2>2
<1>4. x \in Nat /\ x <= 2 * Q - 2 BY <1>2, Numbers, CallNumbers
<1>5. g \in 0 .. Q - 1
  <2>1. group.left + carryIn + Pad(n) - group.right \in Int
    BY <1>2, Numbers
  <2>2. \A y \in Int : y % Q \in 0 .. Q - 1 BY CallNumbers
  <2> QED BY <2>1, <2>2 DEF GroupValue
<1>6. Q \in Nat /\ Q >= 1 BY CallNumbers
<1> HIDE DEF n, w, x, g
<1>7. x \div w \in Nat /\ x % w \in 0 .. w - 1 /\ x = (x \div w) * w + (x % w)
  BY <1>3, <1>4, DivMod
<1>8. x \div w < Q
  <2>1. (x \div w) * w < Q * w
    <3>1. Q * 2 <= Q * w BY <1>3, <1>6
    <3>2. (x \div w) * w <= x BY <1>3, <1>4, <1>7
    <3>3. (x \div w) * w \in Int /\ Q * w \in Int BY <1>3, <1>6, <1>7
    <3> QED BY <1>4, <1>6, <3>1, <3>2, <3>3
  <2> QED BY <1>3, <1>6, <1>7, <2>1, Cancel
<1>9. g \div w \in Nat /\ g % w \in 0 .. w - 1 /\ g = (g \div w) * w + (g % w)
      /\ g \div w < Q
  <2>1. g \in Nat /\ g < Q BY <1>5, <1>6
  <2>2. /\ g \div w \in Nat /\ g % w \in 0 .. w - 1
        /\ g = (g \div w) * w + (g % w)
        /\ g \div w <= g
    BY <1>3, <2>1, DivMod
  <2> QED BY <1>6, <2>1, <2>2
<1>10. (g = ((g \div w) * w + (x % w)) % Q) <=> (g % w = x % w)
  <2> DEFINE y == (g \div w) * w + (x % w)
  <2>1. (g \div w) * w \in Nat BY <1>3, <1>9
  <2>2. y \in Nat /\ y - g = (x % w) - (g % w)
    BY <1>3, <1>5, <1>6, <1>7, <1>9, <2>1
  <2>3. y - g < Q /\ g - y < Q
    <3>1. \A a, b \in 0 .. w - 1 : a - b < Q /\ b - a < Q BY <1>3, <1>6
    <3>2. (x % w) - (g % w) < Q /\ (g % w) - (x % w) < Q
      BY <1>7, <1>9, <3>1
    <3>3. y \in Int /\ g \in Int /\ x % w \in Int /\ g % w \in Int
      BY <1>3, <1>5, <1>6, <1>7, <1>9, <2>2
    <3> HIDE DEF y
    <3> QED BY <1>6, <2>2, <3>2, <3>3
  <2> HIDE DEF y
  <2>4. ASSUME g = y % Q PROVE y = g
    <3>1. y = (y \div Q) * Q + g /\ y \div Q \in Nat
      BY <1>6, <2>2, <2>4, DivMod
    <3>2. (y \div Q) * Q < 1 * Q
      <4>1. (y \div Q) * Q \in Int BY <1>6, <3>1
      <4> QED BY <1>5, <1>6, <2>2, <2>3, <3>1, <4>1
    <3>3. y \div Q < 1 BY <1>6, <3>1, <3>2, Cancel
    <3>4. y \div Q = 0 BY <3>1, <3>3
    <3> QED BY <1>5, <1>6, <3>1, <3>4
  <2>5. ASSUME y = g PROVE g = y % Q
    <3>1. g \in Nat /\ g < Q BY <1>5, <1>6
    <3> QED BY <1>6, <2>5, <3>1
  <2>6. y = g <=> g % w = x % w BY <1>3, <1>5, <1>6, <1>7, <1>9, <2>2
  <2> QED BY <2>4, <2>5, <2>6 DEF y
<1> QED BY <1>1, <1>3, <1>4, <1>5, <1>7, <1>8, <1>9, <1>10 DEF n, w, x, g

(* While the constraints are satisfied the value of a group is computed in *)
(* the integers, and its carry fits.                                       *)
LEMMA GroupValueExact ==
  ASSUME GroupInv, pc = "check", satisfied
  PROVE  /\ GroupValue
              = group.left + carryIn + Pad(group.len) - group.right
         /\ \E q \in Int :
              /\ Difference
                   = (GroupValue - (extra + Pad(group.len)))
                       * Weight(taken - group.len) + q * Q
              /\ inField => q = 0
         /\ taken < Len
              => GroupValue \div Weight(group.len) < CarryRange(Surfeit, Bits)
<1> DEFINE n == group.len
           c == CarryRange(Surfeit, Bits)
           y == group.left + carryIn + Pad(n) - group.right
<1>1. n \in 1 .. Size /\ n <= Len /\ n \in Nat BY GroupNumbers
<1>2. Pad(n) \in Nat /\ c \in Nat /\ c >= 1 BY <1>1, PadNumbers
<1>3. Within(group.left, LeftMax, n) /\ Within(group.right, RightMax, n)
      /\ carryIn < c
  BY DEF GroupInv, Bounded
<1>4. group.left + Pad(n) + c <= Q /\ group.right <= Pad(n)
  BY <1>1, <1>3, Numbers, GroupRoom
<1>5. y \in Nat /\ y < Q /\ y <= group.left + Pad(n) + c - 1
  BY <1>2, <1>3, <1>4, Numbers, CallNumbers
<1>6. GroupValue = y
  <2>1. \A z \in Nat : z < Q => z % Q = z BY CallNumbers
  <2> QED BY <1>5, <2>1 DEF GroupValue
<1>7. \E q \in Int :
        /\ Difference = (GroupValue - (extra + Pad(n))) * Weight(taken - n) + q * Q
        /\ inField => q = 0
  <2>1. PICK q \in Int :
          /\ Difference = ((carryIn - extra) + (group.left - group.right))
                             * Weight(taken - n) + q * Q
          /\ inField => q = 0
    BY DEF GroupInv, DifferenceIs
  <2>2. (carryIn - extra) + (group.left - group.right) = y - (extra + Pad(n))
    BY <1>2, Numbers
  <2> QED BY <1>6, <2>1, <2>2
<1>8. ASSUME taken < Len PROVE GroupValue \div Weight(n) < c
  <2> DEFINE w == Weight(n)
             s == Pow2[Shift] - 1
             b == c * w - Pad(n) - c + 1
  <2>1. n = Size BY <1>8 DEF GroupInv, Phase
  <2>2. Size < Len BY <1>8, <2>1, Numbers, CallNumbers
  <2>3. LeftMax * (w - 1) < b * s BY <2>1, <2>2, CarryFits
  <2>4. w \in Nat /\ w >= 2 BY GroupNumbers
  <2>5. s \in Nat /\ s >= 1 /\ LeftMax \in Nat BY CallNumbers, CallAssumption
  <2>6. group.left * s <= LeftMax * (w - 1) BY <1>3 DEF Within
  <2>7. b \in Int /\ c * w \in Nat BY <1>2, <2>4
  <2>8. group.left < b
    <3> HIDE DEF w, s, b, c
    <3>1. group.left * s \in Int /\ LeftMax * (w - 1) \in Int /\ b * s \in Int
      BY <2>4, <2>5, <2>7, Numbers
    <3>2. group.left * s < b * s BY <2>3, <2>6, <3>1
    <3> QED BY <2>5, <2>7, <3>2, Numbers, Cancel
  <2>9. y < c * w BY <1>2, <1>5, <2>7, <2>8, Numbers
  <2>10. y \div w \in Nat /\ (y \div w) * w <= y
    <3> HIDE DEF y, w
    <3>0. y \in Nat /\ w \in Nat /\ w >= 1 BY <1>5, <2>4
    <3>1. y \div w \in Nat /\ y = (y \div w) * w + (y % w) /\ y % w \in 0 .. w - 1
      BY <3>0, DivMod
    <3>2. (y \div w) * w \in Nat BY <2>4, <3>1
    <3> QED BY <1>5, <2>4, <3>1, <3>2
  <2>11. (y \div w) * w < c * w
    <3> HIDE DEF y, w, c
    <3>1. (y \div w) * w \in Int BY <2>4, <2>10
    <3> QED BY <1>5, <2>7, <2>9, <2>10, <3>1
  <2>12. y \div w < c
    <3> HIDE DEF y, w, c
    <3> QED BY <1>2, <2>4, <2>10, <2>11, Cancel
  <2> QED BY <1>6, <2>12
<1> QED BY <1>6, <1>7, <1>8


(* What a carry a prover may give is, and what it means that it holds.     *)
LEMMA CarryNumbers ==
  ASSUME GroupInv, pc = "check", NEW carry \in Carries
  PROVE  LET w == Weight(group.len)
             x == extra + Pad(group.len)
         IN  /\ carry \in Nat /\ carry < Q
             /\ RightSide(carry) = carry * w + (x % w) /\ RightSide(carry) \in Nat
             /\ Holds(carry) <=>
                  /\ GroupValue = (carry * w + (x % w)) % Q
                  /\ IF taken = Len THEN carry = x \div w
                                    ELSE carry < CarryRange(Surfeit, Bits)
<1> DEFINE n == group.len
           w == Weight(n)
           x == extra + Pad(n)
           c == CarryRange(Surfeit, Bits)
           rest == x \div w
<1>1. /\ n \in 1 .. Size /\ n <= Len /\ n \in Nat
      /\ w \in Nat /\ w >= 2 /\ x \in Nat
      /\ rest \in Nat /\ rest < Q /\ x % w \in 0 .. w - 1
      /\ GroupValue \div w \in Nat /\ GroupValue \div w < Q
  BY GroupNumbers
<1>2. c \in Nat /\ c >= 1 /\ c <= Q
  <2>1. Pad(n) + c <= Q BY <1>1, GroupRoom
  <2>2. Pad(n) \in Nat /\ c \in Nat /\ c >= 1 BY <1>1, PadNumbers
  <2> QED BY <2>1, <2>2, CallNumbers
<1>3. Base = w /\ Extra = x /\ OwnCarry = GroupValue \div w
  BY DEF Base, Extra, OwnCarry, Weight
<1>4. Allowed = IF taken = Len THEN {rest} ELSE 0 .. c - 1
  <2>1. rest % Q = rest
    <3>1. \A z \in Nat : z < Q => z % Q = z BY CallNumbers
    <3> HIDE DEF rest
    <3> QED BY <1>1, <3>1
  <2> QED BY <1>3, <2>1 DEF Allowed
<1>5. carry \in Nat /\ carry < Q
  <2>1. carry = GroupValue \div w \/ carry \in Allowed BY <1>3 DEF Carries
  <2> HIDE DEF rest, c, w
  <2>2. CASE carry \in Allowed
    <3>1. CASE taken = Len BY <1>1, <1>4, <2>2, <3>1
    <3>2. CASE taken # Len
      <4>1. carry \in 0 .. c - 1 BY <1>4, <2>2, <3>2
      <4> QED BY <1>2, <4>1, CallNumbers
    <3> QED BY <3>1, <3>2
  <2> QED BY <1>1, <2>1, <2>2
<1>6. RightSide(carry) = carry * w + (x % w) BY <1>3 DEF RightSide
<1>7. RightSide(carry) \in Nat
  <2> HIDE DEF w, x
  <2>1. carry * w \in Nat BY <1>1, <1>5
  <2> QED BY <1>1, <1>6, <2>1
<1>8. carry \in Allowed <=> IF taken = Len THEN carry = rest ELSE carry < c
  <2> HIDE DEF rest, c
  <2> QED BY <1>2, <1>4, <1>5
<1>9. Holds(carry) <=> /\ GroupValue = (carry * w + (x % w)) % Q
                       /\ IF taken = Len THEN carry = rest ELSE carry < c
  BY <1>6, <1>8 DEF Holds
<1> QED BY <1>5, <1>6, <1>7, <1>9

(* Checking a group keeps the invariant.                                   *)
LEMMA CheckGroupInv ==
  ASSUME GroupInv, CheckGroup
  PROVE  GroupInv'
<1> DEFINE n == group.len
           w == Weight(n)
           x == extra + Pad(n)
           g == GroupValue
           own == g \div w
           rest == x \div w
<1>1. PICK carry \in Carries :
        /\ pc = "check" /\ satisfied' = (satisfied /\ Holds(carry))
        /\ honest' = (honest /\ carry = own)
        /\ inField' = (inField /\ RightSide(carry) < Q)
        /\ carryIn' = carry /\ extra' = rest /\ group' = Empty
        /\ pc' = IF taken = Len THEN "done" ELSE "pack"
        /\ UNCHANGED <<left, right, taken, ints>>
  BY DEF CheckGroup, OwnCarry, Extra, Base, Weight
<1>2. /\ n \in Nat /\ w \in Nat /\ w >= 2 /\ x \in Nat
      /\ rest \in Nat /\ rest < Q /\ x % w \in 0 .. w - 1
      /\ x = rest * w + (x % w)
      /\ g \in Nat /\ g < Q /\ own \in Nat /\ own < Q /\ g % w \in 0 .. w - 1
      /\ g = own * w + (g % w)
      /\ (g = (own * w + (x % w)) % Q) <=> (g % w = x % w)
  BY <1>1, GroupNumbers, CallNumbers
<1> DEFINE side == carry * w + (x % w)
<1>3. /\ carry \in Nat /\ carry < Q
      /\ RightSide(carry) = side /\ side \in Nat
      /\ Holds(carry) <=> /\ g = side % Q
                          /\ IF taken = Len THEN carry = rest
                                            ELSE carry < CarryRange(Surfeit, Bits)
  BY <1>1, CarryNumbers
<1>4. Difference' = Difference BY <1>1 DEF Difference
<1>5. taken' - group.len' = taken /\ taken \in Nat /\ group.len' = 0
      /\ group.left' = 0 /\ group.right' = 0
  BY <1>1, Numbers DEF Empty
<1>6. Weight(taken) = w * Weight(taken - n) /\ Weight(taken - n) \in Nat
      /\ Weight(taken - n) >= 1 /\ Weight(taken) \in Nat /\ Weight(taken) >= 1
  <2>1. taken = n + (taken - n) /\ taken - n \in Nat /\ taken \in Nat
    BY Numbers
  <2>2. Weight(n + (taken - n)) = Weight(n) * Weight(taken - n)
    BY <1>2, <2>1, Weights
  <2> QED BY <2>1, <2>2, Weights
<1>7. ASSUME satisfied, g = side % Q
      PROVE  \E q \in Int : /\ Difference = (carry - rest) * Weight(taken) + q * Q
                            /\ inField' => q = 0
  <2> DEFINE v == Weight(taken - n)
             j == side \div Q
  <2>1. PICK q \in Int : Difference = (g - x) * v + q * Q /\ (inField => q = 0)
    BY <1>1, <1>7, GroupValueExact
  <2>2. j \in Nat /\ side = j * Q + g
    <3> HIDE DEF side
    <3> QED BY <1>3, <1>7, DivMod, CallNumbers
  <2>3. side < Q => j = 0
    <3> HIDE DEF side, j, g
    <3>1. ASSUME j >= 1 PROVE side >= Q
      <4>1. 1 * Q <= j * Q /\ j * Q \in Nat /\ Q \in Nat
        BY <2>2, <3>1, CallNumbers, Cancel
      <4>2. g \in Nat BY <1>2
      <4> QED BY <1>3, <2>2, <4>1, <4>2
    <3> QED BY <1>3, <2>2, <3>1, CallNumbers
  <2>4. inField' => q - j * v = 0
    <3>1. inField' => q = 0 /\ j = 0 BY <1>1, <1>3, <2>1, <2>3
    <3>2. 0 * v = 0 BY <1>6
    <3> HIDE DEF j, v
    <3> QED BY <3>1, <3>2
  <2>5. q - j * v \in Int BY <1>6, <2>1, <2>2
  <2> HIDE DEF n, w, x, g, rest, v, j
  <2>6. g - x = (carry - rest) * w - j * Q
    <3>1. carry * w \in Int /\ rest * w \in Int /\ j * Q \in Int
      BY <1>2, <1>3, <2>2, CallNumbers
    <3>2. (carry - rest) * w = carry * w - rest * w BY <1>2, <1>3
    <3>3. carry * w + (x % w) = j * Q + g BY <2>2 DEF side
    <3> DEFINE a == carry * w
               b == rest * w
               d == j * Q
               m == x % w
    <3>4. a \in Int /\ b \in Int /\ d \in Int /\ m \in Int BY <1>2, <3>1
    <3>5. (carry - rest) * w = a - b /\ a + m = d + g /\ x = b + m
      BY <1>2, <3>2, <3>3
    <3> HIDE DEF a, b, d, m
    <3>6. g - x = (a - b) - d BY <1>2, <3>4, <3>5
    <3> QED BY <3>5, <3>6 DEF d
  <2>7. (g - x) * v = (carry - rest) * Weight(taken) - (j * v) * Q
    <3> DEFINE i == carry - rest
    <3>1. i \in Int /\ v \in Int /\ w \in Int /\ j \in Int /\ Q \in Int
      BY <1>2, <1>3, <1>6, <2>2, CallNumbers DEF v
    <3>2. Weight(taken) = w * v BY <1>6 DEF v, w, n
    <3>3. g - x = i * w - j * Q BY <2>6
    <3> HIDE DEF i
    <3>4. (i * w - j * Q) * v = (i * w) * v - (j * Q) * v BY <3>1
    <3>5. (i * w) * v = i * (w * v) /\ (j * Q) * v = (j * v) * Q BY <3>1
    <3>6. (g - x) * v = i * (w * v) - (j * v) * Q BY <3>3, <3>4, <3>5
    <3> QED BY <3>2, <3>6 DEF i
  <2>8. Difference = (carry - rest) * Weight(taken) + (q - j * v) * Q
    <3> DEFINE a == (carry - rest) * Weight(taken)
               u == j * v
    <3>1. a \in Int /\ u \in Int /\ Q \in Int
      BY <1>2, <1>3, <1>6, <2>2, CallNumbers DEF v
    <3>2. Difference = (a - u * Q) + q * Q BY <2>1, <2>7
    <3> HIDE DEF a, u
    <3>3. (q - u) * Q = q * Q - u * Q /\ u * Q \in Int /\ q * Q \in Int BY <3>1
    <3>4. Difference = a + (q - u) * Q BY <3>1, <3>2, <3>3
    <3> QED BY <3>4 DEF a, u
  <2> QED BY <2>4, <2>5, <2>8 DEF rest, x, w, n
<1>8. TypeOK'
  <2>1. group' \in [left : 0 .. Q - 1, right : 0 .. Q - 1, len : 0 .. Size]
    <3>1. 0 \in 0 .. Q - 1 /\ 0 \in 0 .. Size BY CallNumbers
    <3> QED BY <1>1, <3>1 DEF Empty
  <2>2. carryIn' \in 0 .. Q - 1 /\ extra' \in 0 .. Q - 1
    <3>1. Q \in Nat BY CallNumbers
    <3> HIDE DEF rest
    <3> QED BY <1>1, <1>2, <1>3, <3>1
  <2>3. satisfied' \in BOOLEAN /\ honest' \in BOOLEAN /\ inField' \in BOOLEAN
    BY <1>1 DEF GroupInv, TypeOK
  <2>4. pc' \in {"pack", "check", "done"} BY <1>1
  <2>5. group.len' <= taken' BY <1>1, <1>5
  <2> QED BY <1>1, <2>1, <2>2, <2>3, <2>4, <2>5 DEF GroupInv, TypeOK
<1>9. Phase'
  <2>1. CASE taken = Len
    <3>1. satisfied' => carryIn' = extra'
      <4> HIDE DEF rest, g, side
      <4> QED BY <1>1, <1>3, <2>1
    <3> QED BY <1>1, <2>1, <3>1 DEF Phase, Empty
  <2>2. CASE taken # Len
    <3>1. pc' = "pack" /\ taken' = taken /\ taken < Len
      BY <1>1, <2>2, Numbers, CallNumbers
    <3>2. group.len' = 0 /\ Size >= 1 BY <1>5, CallAssumption
    <3> QED BY <3>1, <3>2, CallNumbers DEF Phase
  <2> QED BY <2>1, <2>2
<1>10. Bounded'
  <2>1. Weight(0) = 1 BY Weights
  <2>2. Within(0, LeftMax, 0) /\ Within(0, RightMax, 0)
    BY <2>1, CallNumbers, CallAssumption DEF Within
  <2>3. Within(group.left, LeftMax, group.len)'
        /\ Within(group.right, RightMax, group.len)'
    BY <1>5, <2>2 DEF Within, Weight
  <2>4. ASSUME satisfied', pc' # "done" PROVE carryIn' < CarryRange(Surfeit, Bits)
    <3> HIDE DEF rest, g, side
    <3> QED BY <1>1, <1>3, <2>4
  <2> QED BY <2>3, <2>4 DEF Bounded, CarryRange
<1>11. DifferenceIs'
  <2> SUFFICES ASSUME satisfied'
               PROVE  \E q \in Int :
                        /\ Difference'
                             = ((carryIn' - extra') + (group.left' - group.right'))
                                 * Weight(taken' - group.len') + q * Q
                        /\ inField' => q = 0
    BY DEF DifferenceIs, Difference, Weight
  <2>1. satisfied /\ g = side % Q
    <3> HIDE DEF g, side
    <3> QED BY <1>1, <1>3
  <2>2. PICK q \in Int : /\ Difference = (carry - rest) * Weight(taken) + q * Q
                         /\ inField' => q = 0
    BY <1>7, <2>1
  <2>3. (carryIn' - extra') + (group.left' - group.right') = carry - rest
    <3> HIDE DEF rest
    <3> QED BY <1>1, <1>2, <1>3, <1>5
  <2> HIDE DEF rest
  <2>4. Difference' = ((carryIn' - extra') + (group.left' - group.right'))
                        * Weight(taken' - group.len') + q * Q
    BY <1>4, <1>5, <2>2, <2>3
  <2> QED BY <2>2, <2>4
<1>12. ASSUME satisfied', honest' PROVE side < Q
  <2> HIDE DEF n, w, x, g, own, rest
  <2>1. carry = own /\ g = side % Q BY <1>1, <1>3, <1>12
  <2>2. g % w = x % w BY <1>2, <2>1 DEF side
  <2>3. side = g BY <1>2, <2>1, <2>2 DEF side
  <2> QED BY <1>2, <2>3
<1>13. OwnInField'
  <2> HIDE DEF side, own
  <2> QED BY <1>1, <1>3, <1>12 DEF GroupInv, OwnInField
<1>14. ASSUME satisfied, honest
       PROVE  /\ Difference = (g - x) * Weight(taken - n)
              /\ g % w = x % w => Difference = (own - rest) * Weight(taken)
  <2>1. inField BY <1>14 DEF GroupInv, OwnInField
  <2>2. PICK q \in Int : Difference = (g - x) * Weight(taken - n) + q * Q
                         /\ (inField => q = 0)
    BY <1>1, <1>14, GroupValueExact
  <2> HIDE DEF n, w, x, g, own, rest
  <2>3. Difference = (g - x) * Weight(taken - n)
    <3>1. (g - x) * Weight(taken - n) \in Int BY <1>2, <1>6
    <3>2. 0 * Q = 0 BY CallNumbers
    <3> QED BY <2>1, <2>2, <3>1, <3>2
  <2>4. ASSUME g % w = x % w PROVE Difference = (own - rest) * Weight(taken)
    <3>1. own * w \in Int /\ rest * w \in Int BY <1>2
    <3>2. (own - rest) * w = own * w - rest * w BY <1>2
    <3>3. g - x = (own - rest) * w BY <1>2, <2>4, <3>1, <3>2
    <3>4. own - rest \in Int /\ Weight(taken - n) \in Int BY <1>2, <1>6
    <3>5. ((own - rest) * w) * Weight(taken - n)
            = (own - rest) * (w * Weight(taken - n))
      BY <1>2, <3>4
    <3> QED BY <1>6, <2>3, <3>3, <3>5
  <2> QED BY <2>3, <2>4
<1>15. DifferenceRemains'
  <2> SUFFICES ASSUME honest', ~satisfied'
               PROVE  \/ pc' = "done" /\ Difference # 0
                      \/ \E t \in 0 .. taken :
                           \A q \in Int : Difference # q * Weight(t)
    BY <1>4, <1>5 DEF DifferenceRemains, Weight
  <2>0. honest /\ carry = own BY <1>1
  <2>1. CASE ~satisfied
    <3>1. PICK t \in 0 .. taken - n : \A q \in Int : Difference # q * Weight(t)
      BY <1>1, <2>0, <2>1 DEF GroupInv, DifferenceRemains
    <3>2. n \in Nat /\ taken \in Nat /\ n <= taken BY Numbers
    <3>3. t \in 0 .. taken
      <4> HIDE DEF n
      <4> QED BY <3>2
    <3> QED BY <3>1, <3>3
  <2>2. CASE satisfied /\ g % w # x % w
    <3>1. Difference = (g - x) * Weight(taken - n)
      BY <1>14, <2>0, <2>2
    <3>2. ASSUME NEW q \in Int, Difference = q * Weight(taken) PROVE FALSE
      <4> HIDE DEF n, w, x, g
      <4>1. (q * w) * Weight(taken - n) = q * (w * Weight(taken - n))
        BY <1>2, <1>6
      <4>2. (g - x) * Weight(taken - n) = (q * w) * Weight(taken - n)
        BY <1>6, <3>1, <3>2, <4>1
      <4>3. g - x \in Int /\ q * w \in Int BY <1>2
      <4>4. g - x = q * w BY <1>6, <4>2, <4>3, Cancel
      <4>5. w >= 1 /\ w \in Nat /\ g \in Int /\ x \in Int BY <1>2
      <4>6. g % w = x % w BY <4>4, <4>5, SameRemainder
      <4> QED BY <2>2, <4>6
    <3>3. taken \in 0 .. taken BY <1>5
    <3> QED BY <3>2, <3>3
  <2>3. CASE satisfied /\ g % w = x % w
    <3>1. ~Holds(carry) BY <1>1, <2>3
    <3>0. g = side % Q BY <1>2, <2>0, <2>3
    <3>2. CASE taken = Len
      <4>1. carry # rest
        <5> HIDE DEF g, side, rest
        <5> QED BY <1>3, <3>0, <3>1, <3>2
      <4>2. Difference = (carry - rest) * Weight(taken) BY <1>14, <2>0, <2>3
      <4>3. Difference # 0
        <5> HIDE DEF rest
        <5>1. carry - rest \in Int /\ carry - rest # 0 BY <1>2, <1>3, <4>1
        <5>2. 0 * Weight(taken) = 0 BY <1>6
        <5>3. (carry - rest) * Weight(taken) = 0 * Weight(taken)
                => carry - rest = 0
          BY <1>6, <5>1, Cancel
        <5> QED BY <4>2, <5>1, <5>2, <5>3
      <4> QED BY <1>1, <3>2, <4>3
    <3>3. CASE taken # Len
      <4>1. taken < Len BY <3>3, Numbers, CallNumbers
      <4>2. carry < CarryRange(Surfeit, Bits)
        BY <1>1, <2>0, <2>3, <4>1, GroupValueExact
      <4> HIDE DEF g, side, rest
      <4> QED BY <1>3, <3>0, <3>1, <3>3, <4>2
    <3> QED BY <3>2, <3>3
  <2> QED BY <2>1, <2>2, <2>3 DEF GroupInv, TypeOK
<1> QED BY <1>8, <1>9, <1>10, <1>11, <1>13, <1>15 DEF GroupInv

-----------------------------------------------------------------------------
(* The theorems.                                                           *)

(* Every step keeps the invariant.                                         *)
LEMMA GroupNext == GroupInv /\ [Next]_vars => GroupInv'
<1> SUFFICES ASSUME GroupInv, [Next]_vars PROVE GroupInv' OBVIOUS
<1>1. CASE AddLimb BY <1>1, AddLimbInv
<1>2. CASE CheckGroup BY <1>2, CheckGroupInv
<1>3. CASE UNCHANGED vars
  BY <1>3 DEF vars, GroupInv, TypeOK, Phase, Bounded, DifferenceIs, OwnInField,
              DifferenceRemains, Difference, Within, CarryRange, Weight, Empty
<1> QED BY <1>1, <1>2, <1>3 DEF Next, Done

(* The variables keep their types; in particular no value leaves the field.*)
THEOREM GroupTypeCorrect == Spec => []TypeOK
<1>1. GroupInv => TypeOK BY DEF GroupInv
<1> QED BY <1>1, GroupInit, GroupNext, PTL DEF Spec

(* A multiple of the native modulus is zero in the field.                  *)
LEMMA MultipleIsZero ==
  ASSUME NEW q \in Int
  PROVE  (q * Q) % Q = 0
<1>1. Q \in Nat /\ Q >= 1 BY CallNumbers
<1>2. q * Q \in Int /\ q * Q - 0 = q * Q BY <1>1
<1>3. (q * Q) % Q = 0 % Q BY <1>1, <1>2, SameRemainder
<1>4. 0 % Q = 0 BY <1>1
<1> QED BY <1>3, <1>4

(* While the constraints hold, the carries are those of the integers, up   *)
(* to multiples of the native modulus that a right side brings in when it  *)
(* leaves the field, whatever carries a prover gives.                      *)
THEOREM CarriesAlwaysExact == Spec => []CarriesAreExact
<1>1. ASSUME GroupInv PROVE CarriesAreExact
  <2> DEFINE e == (carryIn - extra) + (group.left - group.right)
             v == Weight(taken - group.len)
             off == (ints.left - ints.right) - e * v
  <2> SUFFICES ASSUME satisfied PROVE off % Q = 0 /\ (inField => off = 0)
    BY DEF CarriesAreExact, Weight
  <2>1. PICK q \in Int : Difference = e * v + q * Q /\ (inField => q = 0)
    BY <1>1 DEF GroupInv, DifferenceIs
  <2>2. e \in Int /\ v \in Int /\ Difference \in Int /\ Q \in Int
    <3>1. v \in Nat BY <1>1, Numbers, Weights
    <3>2. e \in Int /\ Difference \in Int BY <1>1, Numbers
    <3> HIDE DEF v, e
    <3> QED BY <3>1, <3>2, CallNumbers
  <2>3. off = Difference - e * v BY DEF Difference
  <2> HIDE DEF e, v, off
  <2>4. e * v \in Int /\ q * Q \in Int BY <2>2
  <2>5. off = q * Q BY <2>1, <2>2, <2>3, <2>4
  <2>6. inField => off = 0
    <3>1. 0 * Q = 0 BY <2>2
    <3> QED BY <2>1, <2>5, <3>1
  <2> QED BY <2>5, <2>6, MultipleIsZero
<1> QED BY <1>1, GroupInit, GroupNext, PTL DEF Spec

(* What it means that a call is done and its constraints are satisfied.    *)
LEMMA DoneIs ==
  ASSUME GroupInv, pc = "done", satisfied
  PROVE  \E q \in Int : Difference = q * Q /\ (inField => q = 0)
<1> DEFINE e == (carryIn - extra) + (group.left - group.right)
           v == Weight(taken - group.len)
<1>1. PICK q \in Int : Difference = e * v + q * Q /\ (inField => q = 0)
  BY DEF GroupInv, DifferenceIs
<1>2. carryIn = extra /\ group = Empty BY DEF GroupInv, Phase
<1>3. e = 0 BY <1>2, Numbers DEF Empty
<1>4. v \in Nat /\ Q \in Nat BY Numbers, Weights, CallNumbers
<1>5. e * v = 0
  <2> HIDE DEF e, v
  <2> QED BY <1>3, <1>4
<1>6. Difference = q * Q
  <2> HIDE DEF e, v
  <2> QED BY <1>1, <1>4, <1>5, Numbers
<1> QED BY <1>1, <1>6

(* Vectors that pass the check, with whatever carries, are the same field  *)
(* element, and the same integer if no right side has left the field.      *)
THEOREM CheckIsSound == Spec => []PassesOnlyIfEqual
<1>1. ASSUME GroupInv, pc = "done", satisfied
      PROVE  /\ (ints.left - ints.right) % Q = 0
             /\ inField => ints.left = ints.right
  <2>1. PICK q \in Int : Difference = q * Q /\ (inField => q = 0)
    BY <1>1, DoneIs
  <2>2. Difference % Q = 0 BY <2>1, MultipleIsZero
  <2>3. inField => Difference = 0
    <3>1. 0 * Q = 0 BY CallNumbers
    <3> QED BY <2>1, <3>1
  <2> QED BY <1>1, <2>2, <2>3, Numbers DEF Difference
<1>2. GroupInv => PassesOnlyIfEqual BY <1>1 DEF PassesOnlyIfEqual
<1> QED BY <1>2, GroupInit, GroupNext, PTL DEF Spec

(* Vectors of the same integer pass the check with the program's carries.  *)
THEOREM CheckIsComplete == Spec => []EqualPasses
<1>1. ASSUME GroupInv, pc = "done", honest, ints.left = ints.right PROVE satisfied
  <2>1. Difference = 0 BY <1>1, Numbers DEF Difference
  <2>2. SUFFICES ASSUME ~satisfied PROVE FALSE OBVIOUS
  <2>3. PICK t \in 0 .. taken - group.len :
          \A q \in Int : Difference # q * Weight(t)
    BY <1>1, <2>1, <2>2 DEF GroupInv, DifferenceRemains
  <2>4. t \in Nat BY <1>1, Numbers
  <2>5. 0 * Weight(t) = 0 BY <2>4, Weights
  <2> QED BY <2>1, <2>3, <2>5
<1>2. GroupInv => EqualPasses BY <1>1 DEF EqualPasses
<1> QED BY <1>2, GroupInit, GroupNext, PTL DEF Spec

-----------------------------------------------------------------------------
(* Where the range of a carry is not loose.                                *)

TightCarries == CarryFaults(Surfeit, Bits, Shift, Len) = {}

(* No right side has left the field, and the paddings carried on are small.*)
TightInv ==
  /\ extra <= 2 * Pad(0)
  /\ satisfied => inField

(* The padding of a group beside that of none, and beside the field.       *)
LEMMA PadsBelow ==
  ASSUME NEW n \in 1 .. Size
  PROVE  /\ Pad(0) \in Nat /\ Pad(n) \in Nat /\ Pad(n) = Pad(0) * Weight(n)
         /\ 2 * Pad(n) < Q
<1> DEFINE e == Surfeit + (Bits - Shift) + 1 + 1
           k == e + Shift * n
<1>1. /\ Surfeit \in Nat /\ Bits \in Nat /\ Shift \in Nat /\ Bits - Shift \in Nat
      /\ Shift >= 1 /\ MBS \in Nat /\ Size \in Nat /\ n \in Nat
  BY CallAssumption, FieldAssumption
<1>2. e \in Nat /\ Shift * n \in Nat BY <1>1, CallNumbers
<1>3. PadExponent(Surfeit, Bits, Shift, 0) = e
      /\ PadExponent(Surfeit, Bits, Shift, n) = k
  <2>1. Shift * 0 = 0 BY <1>1
  <2> QED BY <1>1, <1>2, <2>1 DEF PadExponent
<1>4. Pad(n) = Pad(0) * Weight(n) /\ Pad(0) \in Nat /\ Pad(n) \in Nat
  <2>1. Pow2[e + Shift * n] = Pow2[e] * Pow2[Shift * n] BY <1>2, Pow2Plus
  <2> QED BY <1>1, <1>3, <2>1, PadNumbers DEF Pad, Weight
<1>5. k + 1 <= MBS - 1
  <2> DEFINE m == MBS - 1 - Surfeit - 1 - 1 - 1 - (Bits - Shift)
  <2>1. Size = m \div Shift BY DEF Size, GroupSize
  <2>2. m \in Int BY <1>1
  <2>3. Shift * Size <= m
    <3> HIDE DEF m
    <3>1. m = (m \div Shift) * Shift + (m % Shift) /\ m % Shift \in 0 .. Shift - 1
      BY <1>1, <2>2, DivModInt
    <3>2. Size * Shift \in Int /\ Size * Shift = Shift * Size BY <1>1
    <3> QED BY <1>1, <2>1, <2>2, <3>1, <3>2
  <2>4. n * Shift <= Size * Shift BY <1>1, Cancel
  <2>5. Shift * n <= m
    <3>1. n * Shift = Shift * n /\ Size * Shift = Shift * Size
          /\ Shift * Size \in Int
      BY <1>1
    <3> HIDE DEF m
    <3> QED BY <1>2, <2>2, <2>3, <2>4, <3>1
  <2> QED BY <1>1, <1>2, <2>5
<1>6. k \in Nat /\ k + 1 \in Nat BY <1>2
<1>7. Pow2[k + 1] = 2 * Pow2[k] BY <1>6, Pow2Step
<1>8. Pow2[k + 1] <= Pow2[MBS - 1] /\ Pow2[MBS - 1] \in Nat /\ Pow2[MBS - 1] < Q
      /\ Pow2[k + 1] \in Nat
  <2>1. MBS - 1 \in Nat BY FieldAssumption
  <2> HIDE DEF k
  <2> QED BY <1>5, <1>6, <2>1, Pow2Order, Pow2Step, FieldAssumption
<1>9. Pad(n) = Pow2[k] BY <1>3 DEF Pad
<1> HIDE DEF k
<1>10. 2 * Pad(n) < Q BY <1>7, <1>8, <1>9, CallNumbers
<1> QED BY <1>4, <1>10

(* Checking a group with a carry of the bits it is allowed keeps its right *)
(* side in the field.                                                      *)
LEMMA TightCheck ==
  ASSUME TightCarries, GroupInv, TightInv, CheckGroup
  PROVE  TightInv'
<1> DEFINE n == group.len
           w == Weight(n)
           x == extra + Pad(n)
           rest == x \div w
           c == CarryRange(Surfeit, Bits)
<1>1. PICK carry \in Carries :
        /\ pc = "check" /\ satisfied' = (satisfied /\ Holds(carry))
        /\ inField' = (inField /\ RightSide(carry) < Q)
        /\ extra' = rest
  BY DEF CheckGroup, Extra, Base, Weight
<1>2. /\ n \in 1 .. Size /\ n <= Len /\ n \in Nat
      /\ w \in Nat /\ w >= 2 /\ x \in Nat /\ rest \in Nat
      /\ x % w \in 0 .. w - 1 /\ x = rest * w + (x % w)
  BY <1>1, GroupNumbers
<1>3. /\ carry \in Nat /\ RightSide(carry) = carry * w + (x % w)
      /\ Holds(carry) => IF taken = Len THEN carry = rest ELSE carry < c
  BY <1>1, CarryNumbers
<1> DEFINE z == Pad(0)
<1>4. /\ z \in Nat /\ Pad(n) \in Nat /\ Pad(n) = z * w /\ 2 * Pad(n) < Q
      /\ extra <= 2 * z /\ extra \in Nat /\ Q \in Nat
  BY <1>2, PadsBelow, Numbers, CallNumbers DEF TightInv
<1>5. x < Q /\ rest <= 2 * z
  <2>1. z * 2 <= z * w /\ z * w \in Nat
    <3> HIDE DEF z, w
    <3>1. \A d \in Nat : z * d \in Nat /\ z * (d + 2) = z * d + z * 2 BY <1>4
    <3>2. w - 2 \in Nat /\ (w - 2) + 2 = w BY <1>2
    <3>3. z * w = z * (w - 2) + z * 2 /\ z * (w - 2) \in Nat BY <3>1, <3>2
    <3> QED BY <1>4, <3>3
  <2>2. x = extra + z * w BY <1>4
  <2> HIDE DEF w, x, z, rest
  <2>3. x <= 2 * (z * w) BY <1>4, <2>1, <2>2
  <2>4. x < Q BY <1>2, <1>4, <2>1, <2>3
  <2>5. rest * w <= x /\ rest * w \in Nat BY <1>2
  <2>6. (2 * z) * w = 2 * (z * w) BY <1>2, <1>4
  <2>7. rest * w <= (2 * z) * w BY <1>2, <2>1, <2>3, <2>5, <2>6
  <2>8. rest <= 2 * z BY <1>2, <1>4, <2>7, Cancel
  <2> QED BY <2>4, <2>8
<1>6. ASSUME Holds(carry) PROVE RightSide(carry) < Q
  <2>1. CASE taken = Len
    <3>1. carry = rest BY <1>3, <1>6, <2>1
    <3> HIDE DEF rest, x, w
    <3> QED BY <1>2, <1>3, <1>5, <3>1
  <2>2. CASE taken # Len
    <3>1. taken < Len /\ n = Size
      BY <1>1, <2>2, Numbers, CallNumbers DEF GroupInv, Phase
    <3>2. Size < Len BY <1>2, <3>1, Numbers, CallNumbers
    <3>3. carry < c BY <1>3, <1>6, <2>2
    <3>4. c * w <= Q
      <4>1. ~(c * Pow2[Shift * Size] > Q)
        <5>1. Size = GroupSize(MBS, Surfeit, Bits, Shift) BY DEF Size
        <5>2. {"loose"} # {} OBVIOUS
        <5> QED BY <3>2, <5>1, <5>2 DEF TightCarries, CarryFaults
      <4>2. w = Pow2[Shift * Size] BY <3>1 DEF Weight
      <4>3. c \in Nat BY PadNumbers
      <4> HIDE DEF c, w
      <4>4. c * w \in Nat BY <1>2, <4>3
      <4> QED BY <1>4, <4>1, <4>2, <4>4
    <3>5. c \in Nat BY PadNumbers
    <3> HIDE DEF rest, x, w, c
    <3>6. (carry + 1) * w <= c * w BY <1>2, <1>3, <3>3, <3>5, Cancel
    <3>7. (carry + 1) * w = carry * w + w /\ carry * w \in Nat /\ c * w \in Nat
      BY <1>2, <1>3, <3>5
    <3> QED BY <1>2, <1>3, <1>4, <3>4, <3>6, <3>7
  <2> QED BY <2>1, <2>2
<1>7. extra' <= 2 * Pad(0)'
  <2>1. Pad(0)' = Pad(0) BY DEF Pad
  <2> QED BY <1>1, <1>5, <2>1
<1>8. satisfied' => inField' BY <1>1, <1>6 DEF TightInv
<1> QED BY <1>7, <1>8 DEF TightInv, Pad

(* Where the range of a carry is not loose, vectors that pass the check    *)
(* are the same integer, whatever carries a prover gives.                  *)
THEOREM TightCheckIsSound ==
  ASSUME TightCarries
  PROVE  Spec => [](pc = "done" /\ satisfied => ints.left = ints.right)
<1> DEFINE Both == GroupInv /\ TightInv
<1>1. Init => Both
  <2>1. ASSUME Init PROVE TightInv
    <3>1. Pad(0) \in Nat BY PadNumbers
    <3> QED BY <2>1, <3>1 DEF Init, TightInv
  <2> QED BY <2>1, GroupInit
<1>2. Both /\ [Next]_vars => Both'
  <2> SUFFICES ASSUME Both, [Next]_vars PROVE Both' OBVIOUS
  <2>1. GroupInv' BY GroupNext
  <2>2. CASE AddLimb
    <3>1. UNCHANGED <<extra, satisfied, inField>> BY <2>2 DEF AddLimb
    <3> QED BY <2>1, <3>1 DEF TightInv, Pad
  <2>3. CASE CheckGroup BY <2>1, <2>3, TightCheck
  <2>4. CASE UNCHANGED vars BY <2>1, <2>4 DEF vars, TightInv, Pad
  <2> QED BY <2>2, <2>3, <2>4 DEF Next, Done
<1>3. Both => (pc = "done" /\ satisfied => ints.left = ints.right)
  <2> SUFFICES ASSUME Both, pc = "done", satisfied PROVE ints.left = ints.right
    OBVIOUS
  <2>1. inField BY DEF TightInv
  <2>2. PICK q \in Int : Difference = q * Q /\ (inField => q = 0) BY DoneIs
  <2>3. Difference = 0
    <3>1. 0 * Q = 0 BY CallNumbers
    <3> QED BY <2>1, <2>2, <3>1
  <2> QED BY <2>3, Numbers DEF Difference
<1> QED BY <1>1, <1>2, <1>3, PTL DEF Spec

-----------------------------------------------------------------------------
(* The integers compared.                                                  *)

(* g is the integer of the limbs, for every number of them up to n.        *)
Totals(limbs, g, n) ==
  /\ g \in [0 .. n -> Nat]
  /\ \A k \in 0 .. n :
       g[k] = IF k = 0 THEN 0 ELSE g[k - 1] + limbs[k] * Pow2[Shift * (k - 1)]

(* There are such integers up to every n.                                  *)
LEMMA TotalsExist ==
  ASSUME NEW limbs \in [1 .. Len -> Nat]
  PROVE  \A n \in Nat : n <= Len => \E g : Totals(limbs, g, n)
<1> DEFINE S == {n \in Nat : n <= Len => \E g : Totals(limbs, g, n)}
<1>0. Len \in Nat BY CallNumbers
<1>1. 0 \in S
  <2>1. Totals(limbs, [k \in 0 .. 0 |-> 0], 0) BY DEF Totals
  <2> QED BY <2>1
<1>2. ASSUME NEW n \in Nat, n \in S PROVE n + 1 \in S
  <2> SUFFICES ASSUME n + 1 <= Len PROVE \E g : Totals(limbs, g, n + 1)
    OBVIOUS
  <2>1. PICK g : Totals(limbs, g, n) BY <1>0, <1>2
  <2> DEFINE l == limbs[n + 1] * Pow2[Shift * n]
             h == [k \in 0 .. n + 1 |-> IF k = n + 1 THEN g[n] + l ELSE g[k]]
  <2>2. l \in Nat
    <3>1. limbs[n + 1] \in Nat BY <1>0
    <3>2. Pow2[Shift * n] \in Nat BY CallNumbers
    <3> DEFINE a == limbs[n + 1]
               b == Pow2[Shift * n]
    <3>3. a \in Nat /\ b \in Nat BY <3>1, <3>2
    <3> HIDE DEF a, b
    <3>4. a * b \in Nat BY <3>3
    <3> QED BY <3>4 DEF a, b
  <2>3. (n + 1) - 1 = n OBVIOUS
  <2>4. h[n + 1] = g[n] + l /\ (\A k \in 0 .. n : h[k] = g[k])
    <3> HIDE DEF l
    <3>1. n + 1 \in 0 .. n + 1 OBVIOUS
    <3>2. ASSUME NEW k \in 0 .. n PROVE h[k] = g[k]
      <4>1. k \in 0 .. n + 1 /\ k # n + 1 OBVIOUS
      <4> QED BY <4>1
    <3>3. h[n + 1] = g[n] + l BY <3>1
    <3> HIDE DEF h
    <3> QED BY <3>2, <3>3
  <2>5. h \in [0 .. n + 1 -> Nat]
    <3> HIDE DEF l
    <3> QED BY <2>1, <2>2 DEF Totals
  <2>6. ASSUME NEW k \in 0 .. n + 1
        PROVE  h[k] = IF k = 0 THEN 0
                               ELSE h[k - 1] + limbs[k] * Pow2[Shift * (k - 1)]
    <3>1. CASE k = n + 1
      <4>1. k # 0 /\ k - 1 = n /\ n \in 0 .. n BY <3>1
      <4>2. h[k] = h[k - 1] + l BY <2>4, <3>1, <4>1
      <4> QED BY <3>1, <4>1, <4>2
    <3>2. CASE k \in 0 .. n
      <4>1. h[k] = g[k] /\ (k # 0 => h[k - 1] = g[k - 1])
        <5>1. k # 0 => k - 1 \in 0 .. n BY <3>2
        <5> HIDE DEF h
        <5> QED BY <2>4, <3>2, <5>1
      <4>2. g[k] = IF k = 0 THEN 0
                            ELSE g[k - 1] + limbs[k] * Pow2[Shift * (k - 1)]
        BY <2>1, <3>2 DEF Totals
      <4> HIDE DEF h
      <4> QED BY <4>1, <4>2
    <3> QED BY <3>1, <3>2
  <2> HIDE DEF h
  <2>7. Totals(limbs, h, n + 1) BY <2>5, <2>6 DEF Totals
  <2> QED BY <2>7
<1> HIDE DEF S
<1>3. \A n \in Nat : n \in S BY <1>1, <1>2, SetInduction
<1> QED BY <1>3 DEF S

(* The recursive definition of IntegerUpTo does define a function.         *)
LEMMA IntegerUpToIs ==
  ASSUME NEW limbs \in [1 .. Len -> Nat]
  PROVE  Totals(limbs, IntegerUpTo(limbs), Len)
<1> DEFINE Step(f) == [k \in 0 .. Len |->
             IF k = 0 THEN 0 ELSE f[k - 1] + limbs[k] * Pow2[Shift * (k - 1)]]
<1>0. Len \in Nat BY CallNumbers
<1>1. PICK g : Totals(limbs, g, Len) BY <1>0, TotalsExist
<1>2. g = Step(g) BY <1>1 DEF Totals
<1>3. IntegerUpTo(limbs) = CHOOSE f : f = Step(f) BY Zenon DEF IntegerUpTo
<1> DEFINE i0 == IntegerUpTo(limbs)
<1>4. i0 = Step(i0)
  <2> HIDE DEF Step
  <2> QED BY <1>2, <1>3
<1> HIDE DEF i0
<1>5. \A k \in 0 .. Len :
        i0[k] = IF k = 0 THEN 0 ELSE i0[k - 1] + limbs[k] * Pow2[Shift * (k - 1)]
  BY <1>4
<1>6. \A k \in Nat : k <= Len => i0[k] = g[k]
  <2> DEFINE S == {k \in Nat : k <= Len => i0[k] = g[k]}
  <2>1. 0 \in S BY <1>0, <1>1, <1>5 DEF Totals
  <2>2. ASSUME NEW k \in Nat, k \in S PROVE k + 1 \in S
    <3> SUFFICES ASSUME k + 1 <= Len PROVE i0[k + 1] = g[k + 1] OBVIOUS
    <3>1. i0[k] = g[k] /\ (k + 1) - 1 = k /\ k + 1 \in 0 .. Len /\ k + 1 # 0
      BY <1>0, <2>2
    <3>2. i0[k + 1] = i0[k] + limbs[k + 1] * Pow2[Shift * k] BY <1>5, <3>1
    <3>3. g[k + 1] = g[k] + limbs[k + 1] * Pow2[Shift * k]
      BY <1>1, <3>1 DEF Totals
    <3> QED BY <3>1, <3>2, <3>3
  <2> HIDE DEF S
  <2>3. \A k \in Nat : k \in S BY <2>1, <2>2, SetInduction
  <2> QED BY <2>3 DEF S
<1>7. i0 = g
  <2>1. i0 = [k \in 0 .. Len |-> i0[k]] BY <1>4
  <2>2. g = [k \in 0 .. Len |-> g[k]] BY <1>1 DEF Totals
  <2>3. \A k \in 0 .. Len : i0[k] = g[k] BY <1>0, <1>6
  <2> QED BY <2>1, <2>2, <2>3
<1> QED BY <1>1, <1>7 DEF i0

(* The history holds the integers of the limbs taken.                      *)
IntsSoFar ==
  ints = [left |-> IntegerUpTo(left)[taken], right |-> IntegerUpTo(right)[taken]]

(* One limb more.                                                          *)
LEMMA OneMore ==
  ASSUME NEW limbs \in [1 .. Len -> Nat], NEW k \in 0 .. Len - 1
  PROVE  IntegerUpTo(limbs)[k + 1]
           = IntegerUpTo(limbs)[k] + limbs[k + 1] * Pow2[Shift * k]
<1>1. k + 1 \in 0 .. Len /\ k + 1 # 0 /\ (k + 1) - 1 = k BY CallNumbers
<1>2. Totals(limbs, IntegerUpTo(limbs), Len) BY IntegerUpToIs
<1> QED BY <1>1, <1>2 DEF Totals

(* The limbs are numbers.                                                  *)
LEMMA LimbsAre ==
  ASSUME TypeOK
  PROVE  left \in [1 .. Len -> Nat] /\ right \in [1 .. Len -> Nat]
BY CallAssumption DEF TypeOK

(* When the check is done the integers compared are those of the vectors,  *)
(* all limbs included and each with its own weight.                        *)
THEOREM IntegersAlwaysWhole == Spec => []IntegersAreWhole
<1>1. Init => IntsSoFar
  <2> SUFFICES ASSUME Init PROVE IntsSoFar OBVIOUS
  <2>1. TypeOK BY GroupInit DEF GroupInv
  <2>2. left \in [1 .. Len -> Nat] /\ right \in [1 .. Len -> Nat]
    BY <2>1, LimbsAre
  <2>3. 0 \in 0 .. Len BY CallNumbers
  <2>4. IntegerUpTo(left)[0] = 0 /\ IntegerUpTo(right)[0] = 0
    BY <2>2, <2>3, IntegerUpToIs DEF Totals
  <2> QED BY <2>4 DEF Init, IntsSoFar
<1>2. GroupInv /\ IntsSoFar /\ [Next]_vars => IntsSoFar'
  <2> SUFFICES ASSUME GroupInv, IntsSoFar, [Next]_vars PROVE IntsSoFar' OBVIOUS
  <2>1. CASE AddLimb
    <3>1. left \in [1 .. Len -> Nat] /\ right \in [1 .. Len -> Nat]
      BY LimbsAre DEF GroupInv
    <3>2. taken \in 0 .. Len - 1
      BY <2>1, Numbers, CallNumbers DEF AddLimb, GroupInv, Phase
    <3>3. /\ ints' = [left  |-> ints.left + left[taken + 1] * Pow2[Shift * taken],
                      right |-> ints.right + right[taken + 1] * Pow2[Shift * taken]]
          /\ taken' = taken + 1 /\ left' = left /\ right' = right
      BY <2>1 DEF AddLimb, NextPair
    <3>4. ints.left = IntegerUpTo(left)[taken] /\ ints.right = IntegerUpTo(right)[taken]
      BY DEF IntsSoFar
    <3>5. /\ IntegerUpTo(left)[taken + 1]
                = ints.left + left[taken + 1] * Pow2[Shift * taken]
          /\ IntegerUpTo(right)[taken + 1]
                = ints.right + right[taken + 1] * Pow2[Shift * taken]
      BY <3>1, <3>2, <3>4, OneMore
    <3>6. ints' = [left  |-> IntegerUpTo(left)[taken + 1],
                   right |-> IntegerUpTo(right)[taken + 1]]
      BY <3>3, <3>5
    <3> QED BY <3>3, <3>6 DEF IntsSoFar, IntegerUpTo
  <2>2. CASE CheckGroup BY <2>2 DEF CheckGroup, IntsSoFar, IntegerUpTo
  <2>3. CASE UNCHANGED vars BY <2>3 DEF vars, IntsSoFar, IntegerUpTo
  <2> QED BY <2>1, <2>2, <2>3 DEF Next, Done
<1>3. GroupInv /\ IntsSoFar => IntegersAreWhole
  BY DEF GroupInv, Phase, IntsSoFar, IntegersAreWhole
<1> QED BY <1>1, <1>2, <1>3, GroupInit, GroupNext, PTL DEF Spec
=============================================================================
