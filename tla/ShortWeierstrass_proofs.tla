---------------------- MODULE ShortWeierstrass_proofs ----------------------
(***************************************************************************)
(* Short Weierstrass curves.  scalar_mul_le never uses an affine formula   *)
(* where it is wrong and returns the product, for every odd order of the   *)
(* group and every number of bits; the complete formulae of ProjectiveVar  *)
(* and the affine ones of NonZeroAffineVar compute the chord-and-tangent   *)
(* law on every curve of odd order over every prime field.                 *)
(***************************************************************************)
EXTENDS ScalarMul, WeierstrassLaw, PrimeField_proofs

(***************************************************************************)
(*                        MULTIPLICATION BY SCALARS                        *)
(***************************************************************************)

-----------------------------------------------------------------------------
(* Arithmetic modulo the order of the group.                               *)

LEMMA OrderPositive == Order \in Nat /\ Order >= 5
<1>1. Pow2[2] = 4
  <2>1. Pow2[0 + 1] = 2 /\ Pow2[1 + 1] = 2 * Pow2[0 + 1] BY Pow2Step
  <2> QED BY <2>1
<1>2. Pow2[2] <= Pow2[OrderBits - 1] BY Pow2Order, OrderAssumption
<1> QED BY <1>1, <1>2, OrderAssumption, Pow2Rec

(* A point is its own remainder.                                           *)
LEMMA Reduced == \A x \in 0 .. Order - 1 : x % Order = x
BY OrderPositive

LEMMA SameModOrder ==
  ASSUME NEW u \in Int, NEW v \in Int, NEW d \in Int, u - v = d * Order
  PROVE  u % Order = v % Order
<1> DEFINE w == Order
<1>1. w \in Nat /\ w >= 1 /\ u - v = d * w BY OrderPositive
<1> HIDE DEF w
<1>2. u % w = v % w BY <1>1, SameRemainder
<1> QED BY <1>2 DEF w

(* Remainders may be taken before or after an addition or a subtraction.   *)
LEMMA PlusMinusMod ==
  ASSUME NEW x \in Int, NEW y \in Int
  PROVE  /\ Plus(x % Order, y % Order) = (x + y) % Order
         /\ Minus(x % Order, y % Order) = (x - y) % Order
         /\ x % Order \in 0 .. Order - 1
<1> DEFINE a == x \div Order
           b == y \div Order
           r == x % Order
           t == y % Order
<1>1. a \in Int /\ r \in 0 .. Order - 1 /\ x = a * Order + r
  BY DivModInt, OrderPositive
<1>2. b \in Int /\ t \in 0 .. Order - 1 /\ y = b * Order + t
  BY DivModInt, OrderPositive
<1> HIDE DEF a, b, r, t
<1>4. (x + y) % Order = (r + t) % Order
  <2>1. (x + y) - (r + t) = (a + b) * Order BY <1>1, <1>2, OrderPositive
  <2>2. a + b \in Int /\ x + y \in Int /\ r + t \in Int BY <1>1, <1>2
  <2> QED BY <2>1, <2>2, SameModOrder
<1>5. (x - y) % Order = (r - t) % Order
  <2>1. (x - y) - (r - t) = (a - b) * Order BY <1>1, <1>2, OrderPositive
  <2>2. a - b \in Int /\ x - y \in Int /\ r - t \in Int BY <1>1, <1>2
  <2> QED BY <2>1, <2>2, SameModOrder
<1> QED BY <1>1, <1>4, <1>5 DEF Plus, Minus, r, t

(* Powers of two are units: the order is odd.                              *)
LEMMA PowersAreUnits ==
  \A k \in Nat : \A m \in Nat :
    (\E q \in Int : m * Pow2[k] = q * Order) => \E r \in Int : m = r * Order
<1> DEFINE T == {k \in Nat : \A m \in Nat :
      (\E q \in Int : m * Pow2[k] = q * Order) => \E r \in Int : m = r * Order}
<1>1. 0 \in T BY Pow2Step
<1>2. ASSUME NEW k \in Nat, k \in T PROVE k + 1 \in T
  <2> SUFFICES ASSUME NEW m \in Nat, NEW q \in Int,
                      m * Pow2[k + 1] = q * Order
               PROVE  \E r \in Int : m = r * Order
    OBVIOUS
  <2>1. (2 * m) * Pow2[k] = q * Order
    <3>1. Pow2[k + 1] = 2 * Pow2[k] /\ Pow2[k] \in Nat BY Pow2Step
    <3>2. m * (2 * Pow2[k]) = (2 * m) * Pow2[k] BY <3>1
    <3> QED BY <3>1, <3>2
  <2>2. PICK r \in Int : 2 * m = r * Order BY <1>2, <2>1
  <2> DEFINE h == Order \div 2
  <2>3. h \in Int /\ Order = 2 * h + 1 BY OrderAssumption
  <2> HIDE DEF h
  <2>4. r = 2 * (m - r * h)
    <3>1. r * Order = 2 * (r * h) + r BY <2>3
    <3> QED BY <2>2, <2>3, <3>1
  <2> DEFINE s == m - r * h
  <2>5. s \in Int BY <2>3
  <2> HIDE DEF s
  <2>6. r * Order = 2 * (s * Order) BY <2>4, <2>5, OrderPositive DEF s
  <2>7. m = s * Order BY <2>2, <2>5, <2>6, OrderPositive
  <2> QED BY <2>5, <2>7
<1> HIDE DEF T
<1>3. \A k \in Nat : k \in T BY <1>1, <1>2, SetInduction
<1> QED BY <1>3 DEF T

(* A number below the order times a power of two is not zero.              *)
LEMMA NonZero ==
  ASSUME NEW m \in 1 .. Order - 1, NEW k \in Nat
  PROVE  (m * Pow2[k]) % Order # 0
<1> DEFINE x == m * Pow2[k]
<1> SUFFICES ASSUME x % Order = 0 PROVE FALSE
  OBVIOUS
<1>1. x \in Int /\ x = (x \div Order) * Order + 0 /\ x \div Order \in Int
  <2>1. x \in Int BY Pow2Step, OrderPositive
  <2> HIDE DEF x
  <2> QED BY <2>1, DivModInt, OrderPositive
<1>2. PICK r \in Int : m = r * Order
  <2>1. m \in Nat /\ \E q \in Int : m * Pow2[k] = q * Order
    <3>1. x = (x \div Order) * Order
      <4> HIDE DEF x
      <4> QED BY <1>1, OrderPositive
    <3>2. x = m * Pow2[k] OBVIOUS
    <3>3. m \in Nat BY OrderPositive
    <3> HIDE DEF x
    <3> QED BY <1>1, <3>1, <3>2, <3>3, Zenon
  <2> QED BY <2>1, PowersAreUnits
<1>3. 0 * Order < r * Order /\ r * Order < 1 * Order
  BY <1>2, OrderPositive
<1>4. 0 < r /\ r < 1 BY <1>3, Cancel, OrderPositive
<1> QED BY <1>4

-----------------------------------------------------------------------------
(* The bits.                                                               *)

(* The number that the first k bits stand for.                             *)
Low(k) == scalar % Pow2[k]

LEMMA LowStep ==
  ASSUME scalar \in Nat, NEW k \in Nat
  PROVE  /\ Low(k) \in Nat /\ Low(k) < Pow2[k]
         /\ Bit(k) \in {0, 1}
         /\ Low(k + 1) = Low(k) + Bit(k) * Pow2[k]
<1> DEFINE w == Pow2[k]
           q == scalar \div w
           r == scalar % w
           h == q \div 2
           b == q % 2
<1>1. w \in Nat /\ w >= 1 /\ Pow2[k + 1] = 2 * w BY Pow2Step
<1> HIDE DEF w
<1>2. q \in Nat /\ r \in 0 .. w - 1 /\ scalar = q * w + r BY <1>1, DivMod
<1> HIDE DEF q, r
<1>3. h \in Nat /\ b \in {0, 1} /\ q = 2 * h + b BY <1>2
<1> HIDE DEF h, b
<1>4. scalar - (b * w + r) = h * (2 * w)
  BY <1>1, <1>2, <1>3
<1>5. b * w + r \in 0 .. 2 * w - 1 BY <1>1, <1>2, <1>3
<1>6. scalar % (2 * w) = (b * w + r) % (2 * w)
  BY <1>1, <1>3, <1>4, <1>5, SameRemainder
<1>7. (b * w + r) % (2 * w) = b * w + r BY <1>1, <1>5
<1>8. Low(k + 1) = r + b * w BY <1>1, <1>2, <1>3, <1>6, <1>7 DEF Low
<1>9. Low(k) = r /\ Bit(k) = b /\ Pow2[k] = w BY DEF Low, Bit, w, q, r, b
<1> QED BY <1>1, <1>2, <1>3, <1>8, <1>9

(* All the bits are the scalar.                                            *)
LEMMA LowAll ==
  ASSUME scalar \in Nat, NEW k \in Nat, scalar < Pow2[k]
  PROVE  Low(k) = scalar
<1>1. \A w \in Nat : scalar < w => scalar % w = scalar OBVIOUS
<1> QED BY <1>1, Pow2Step DEF Low

(* The bits of a chunk.                                                    *)
LEMMA ChunkFacts ==
  ASSUME off \in Nat, len \in Nat, off < len
  PROVE  /\ ChunkLen \in Nat /\ ChunkLen <= len - off
         /\ SplitLen \in 1 .. OrderBits - 2 /\ SplitLen <= ChunkLen
<1>1. ChunkLen = IF OrderBits <= len - off THEN OrderBits ELSE len - off
  BY MinPair, OrderAssumption DEF ChunkLen
<1>2. ChunkLen \in Int BY <1>1, OrderAssumption
<1>3. SplitLen = IF OrderBits - 2 <= ChunkLen THEN OrderBits - 2 ELSE ChunkLen
  BY <1>2, MinPair, OrderAssumption DEF SplitLen
<1> QED BY <1>1, <1>3, OrderAssumption

(* A power of two is never the zero of the group, nor is its double.       *)
LEMMA DoublePower ==
  ASSUME NEW k \in Nat, power = Pow2[k] % Order
  PROVE  /\ power \in 0 .. Order - 1
         /\ Double(power) = Pow2[k + 1] % Order
         /\ Double(power) \in 0 .. Order - 1
         /\ ~ExceptionalDouble(power)
<1>1. Pow2[k] \in Int /\ Pow2[k + 1] = Pow2[k] + Pow2[k] /\ Pow2[k + 1] \in Int
  BY Pow2Step
<1>2. Double(power) = Pow2[k + 1] % Order
  BY <1>1, PlusMinusMod DEF Double
<1>3. Pow2[k + 1] % Order # 0
  <2>1. (1 * Pow2[k + 1]) % Order # 0 BY NonZero, OrderPositive
  <2> QED BY <1>1, <2>1
<1> QED BY <1>1, <1>2, <1>3, PlusMinusMod DEF ExceptionalDouble

-----------------------------------------------------------------------------
(* The inductive invariant.                                                *)

(* The affine accumulator is a multiple of the power the chunk began with, *)
(* by the bits seen so far with the first one taken to be one.             *)
Accumulated ==
  \E a \in 1 .. Pow2[i] - 1 :
    /\ a * Pow2[off] = Low(off + i) - Low(off) + (1 - Bit(off)) * Pow2[off]
    /\ accumulator = (a * Pow2[off]) % Order

BeforeLoop == pc \in {"start", "strip"} => off = 0 /\ mulResult = 0

AtChunk ==
  pc = "chunk" => /\ power = Pow2[off] % Order
                  /\ mulResult = Low(off) % Order

InAffine ==
  pc = "affine" => /\ off < len /\ 1 <= i /\ i <= SplitLen
                   /\ power = Pow2[off + i] % Order
                   /\ initialAcc = Pow2[off] % Order
                   /\ mulResult = Low(off) % Order
                   /\ Accumulated

InProjective ==
  pc = "projective" => /\ off < len /\ i <= ChunkLen
                       /\ power = Pow2[off + i] % Order
                       /\ mulResult = Low(off + i) % Order

MulInv ==
  /\ TypeOK /\ NeverExceptional /\ ResultIsProduct
  /\ off <= len
  /\ BeforeLoop /\ AtChunk /\ InAffine /\ InProjective

LEMMA InitMulInv == Init => MulInv
<1> SUFFICES ASSUME Init PROVE MulInv
  OBVIOUS
<1>1. len \in Nat /\ scalar \in Nat /\ scalar < Pow2[len]
  BY LenAssumption, Pow2Step DEF Init
<1>2. TypeOK
  <2>1. /\ pc = "start" /\ off = 0 /\ i = 0 /\ exceptional = FALSE
        /\ accumulator = 0 /\ initialAcc = 0 /\ power = 0 /\ mulResult = 0
        /\ selfZero \in BOOLEAN /\ selfConstant \in BOOLEAN
    BY DEF Init
  <2>2. 0 \in 0 .. Order - 1 BY OrderPositive
  <2> QED BY <1>1, <2>1, <2>2 DEF TypeOK
<1> QED BY <1>1, <1>2
      DEF Init, MulInv, NeverExceptional, ResultIsProduct,
          BeforeLoop, AtChunk, InAffine, InProjective

-----------------------------------------------------------------------------
(* The steps.                                                              *)

LEMMA ReturnEarlyInv == MulInv /\ ReturnEarly => MulInv'
<1> SUFFICES ASSUME MulInv, ReturnEarly PROVE MulInv'
  OBVIOUS
<1>1. len = 0 => scalar = 0 BY Pow2Step DEF MulInv, TypeOK
<1>2. scalar = 0 => scalar % Order = 0 BY Reduced, OrderPositive
<1> QED BY <1>1, <1>2
      DEF MulInv, ReturnEarly, args, TypeOK, NeverExceptional, ResultIsProduct,
          BeforeLoop, AtChunk, InAffine, InProjective

LEMMA BeginInv == MulInv /\ Begin => MulInv'
BY DEF MulInv, Begin, args, TypeOK, NeverExceptional, ResultIsProduct,
       BeforeLoop, AtChunk, InAffine, InProjective

(* A number below 2^len whose bit len - 1 is zero is below 2^(len - 1).    *)
LEMMA StripInv == MulInv /\ Strip => MulInv'
<1> SUFFICES ASSUME MulInv, Strip PROVE MulInv'
  OBVIOUS
<1> DEFINE k == len - 1
<1>1. k \in Nat /\ len = k + 1 /\ Bit(k) = 0 /\ len' = k
  BY DEF MulInv, TypeOK, Strip, LeadingZero
<1> HIDE DEF k
<1>2. scalar < Pow2[k]
  <2>1. scalar \in Nat /\ Low(len) = scalar BY LowAll DEF MulInv, TypeOK
  <2>2. Low(k + 1) = Low(k) + 0 * Pow2[k] /\ Low(k) < Pow2[k] /\ Low(k) \in Nat
    BY <1>1, <2>1, LowStep
  <2>3. Pow2[k] \in Nat BY <1>1, Pow2Step
  <2> QED BY <1>1, <2>1, <2>2, <2>3
<1> QED BY <1>1, <1>2
      DEF MulInv, Strip, args, TypeOK, NeverExceptional, ResultIsProduct,
          BeforeLoop, AtChunk, InAffine, InProjective

LEMMA StartLoopInv == MulInv /\ StartLoop => MulInv'
<1> SUFFICES ASSUME MulInv, StartLoop PROVE MulInv'
  OBVIOUS
<1>1. scalar \in Nat /\ off = 0 /\ off' = 0 /\ scalar' = scalar
  BY DEF MulInv, TypeOK, BeforeLoop, StartLoop, args
<1>2. Low(0) = 0 BY <1>1, Pow2Step, LowStep
<1>3. Low(0)' = Low(0) BY <1>1 DEF Low
<1>4. 1 % Order = 1 /\ 0 % Order = 0 /\ Pow2[0] = 1
  BY Reduced, OrderPositive, Pow2Step
<1>5. power' = Pow2[off'] % Order /\ mulResult' = Low(off)' % Order
  BY <1>1, <1>2, <1>3, <1>4 DEF StartLoop
<1>6. TypeOK' BY OrderPositive DEF MulInv, TypeOK, StartLoop, args
<1> QED BY <1>5, <1>6
      DEF MulInv, StartLoop, args, NeverExceptional, ResultIsProduct,
          BeforeLoop, AtChunk, InAffine, InProjective

(* What the steps of the loops leave alone.                                *)
LEMMA SameBits ==
  ASSUME UNCHANGED <<scalar, len>>
  PROVE  /\ \A k \in Nat : Low(k)' = Low(k) /\ Bit(k)' = Bit(k)
BY DEF Low, Bit

LEMMA StartChunkInv == MulInv /\ StartChunk => MulInv'
<1> SUFFICES ASSUME MulInv, StartChunk PROVE MulInv'
  OBVIOUS
<1>1. /\ scalar \in Nat /\ off \in Nat /\ len \in Nat /\ off < len
      /\ power = Pow2[off] % Order /\ mulResult = Low(off) % Order
  BY DEF MulInv, TypeOK, StartChunk, AtChunk
<1>2. /\ UNCHANGED <<scalar, len, off, mulResult>>
      /\ i' = 1 /\ accumulator' = power /\ initialAcc' = power
      /\ power' = Double(power) /\ pc' = "affine"
  BY DEF StartChunk, args
<1>3. /\ power' = Pow2[off + 1] % Order /\ ~ExceptionalDouble(power)
      /\ power \in 0 .. Order - 1 /\ power' \in 0 .. Order - 1
  BY <1>1, <1>2, DoublePower
<1>4. TypeOK' BY <1>2, <1>3 DEF MulInv, TypeOK, StartChunk, args
<1>5. Accumulated'
  <2> DEFINE p == Pow2[off]
  <2>1. p \in Nat /\ Low(off) \in Nat /\ Bit(off) \in {0, 1}
        /\ Low(off + 1) = Low(off) + Bit(off) * p
    BY <1>1, Pow2Step, LowStep
  <2>2. 1 * p = Low(off + 1) - Low(off) + (1 - Bit(off)) * p
    <3> HIDE DEF p
    <3> QED BY <2>1
  <2>3. accumulator' = (1 * p) % Order BY <1>1, <1>2, <2>1
  <2>4. 1 \in 1 .. Pow2[1] - 1
    <3>1. Pow2[0 + 1] = 2 * Pow2[0] /\ Pow2[0] = 1 BY Pow2Step
    <3> QED BY <3>1
  <2>5. /\ Low(off)' = Low(off) /\ Bit(off)' = Bit(off)
        /\ Low(off + i)' = Low(off + 1)
    BY <1>1, <1>2 DEF Low, Bit
  <2> QED BY <1>2, <2>2, <2>3, <2>4, <2>5 DEF Accumulated
<1>6. InAffine'
  <2>1. SplitLen' = SplitLen /\ Low(off)' = Low(off) BY <1>2 DEF SplitLen, ChunkLen, Low
  <2>2. SplitLen \in Nat /\ 1 <= SplitLen BY <1>1, ChunkFacts, OrderAssumption
  <2> QED BY <1>1, <1>2, <1>3, <1>5, <2>1, <2>2 DEF InAffine
<1> QED BY <1>1, <1>2, <1>3, <1>4, <1>6
      DEF MulInv, StartChunk, NeverExceptional, ResultIsProduct,
          BeforeLoop, AtChunk, InProjective

(* Neither the chord through accumulator and power nor the tangent at      *)
(* power is vertical: the multiples they stand for are different and their *)
(* sum is below the order of the group.                                    *)
LEMMA AffineSafe ==
  ASSUME MulInv, pc = "affine", i < SplitLen
  PROVE  ~Exceptional(accumulator, power)
<1>1. /\ off \in Nat /\ len \in Nat /\ off < len /\ i \in Nat /\ 1 <= i
      /\ power = Pow2[off + i] % Order /\ Accumulated
  BY DEF MulInv, TypeOK, InAffine
<1>2. PICK a \in 1 .. Pow2[i] - 1 : accumulator = (a * Pow2[off]) % Order
  BY <1>1 DEF Accumulated
<1> DEFINE w == Pow2[i]
           p == Pow2[off]
<1>3. w \in Nat /\ p \in Nat /\ Pow2[off + i] = w * p
  <2>1. Pow2[off + i] = Pow2[off] * Pow2[i] BY <1>1, Pow2Plus
  <2>2. Pow2[off] \in Nat /\ Pow2[i] \in Nat BY <1>1, Pow2Step
  <2> QED BY <2>1, <2>2
<1>4. 2 * w < Order
  <2>1. i + 1 <= OrderBits - 1 /\ i < OrderBits - 1 /\ OrderBits - 1 \in Nat
    BY <1>1, ChunkFacts, OrderAssumption
  <2>2. 2 * Pow2[i] <= Pow2[OrderBits - 1] BY <1>1, <2>1, Pow2Order
  <2>3. Pow2[OrderBits - 1] \in Nat BY <2>1, Pow2Step
  <2> QED BY <1>3, <2>2, <2>3, OrderAssumption
<1>5. a \in Nat /\ 1 <= a /\ a < w BY <1>2, <1>3
<1>6. power = (w * p) % Order /\ accumulator = (a * p) % Order BY <1>1, <1>2, <1>3
<1> HIDE DEF w
<1>7. accumulator # power
  <2> SUFFICES ASSUME accumulator = power PROVE FALSE
    OBVIOUS
  <2>1. w - a \in 1 .. Order - 1 BY <1>3, <1>4, <1>5, OrderPositive
  <2>2. ((w - a) * p) % Order # 0 BY <1>1, <2>1, NonZero
  <2> HIDE DEF p
  <2>3. (w - a) * p = w * p - a * p BY <1>3, <1>5
  <2>4. w * p \in Int /\ a * p \in Int BY <1>3, <1>5
  <2>5. Minus(power, accumulator) = ((w - a) * p) % Order
    BY <1>6, <2>3, <2>4, PlusMinusMod
  <2>6. Minus(power, power) = 0
    <3>1. power - power = 0 BY OrderPositive DEF MulInv, TypeOK
    <3>2. 0 % Order = 0 BY Reduced, OrderPositive
    <3> QED BY <3>1, <3>2 DEF Minus
  <2> QED BY <2>2, <2>5, <2>6
<1>8. Plus(accumulator, power) # 0
  <2>1. a + w \in 1 .. Order - 1 BY <1>3, <1>4, <1>5, OrderPositive
  <2>2. ((a + w) * p) % Order # 0 BY <1>1, <2>1, NonZero
  <2> HIDE DEF p
  <2>3. (a + w) * p = a * p + w * p BY <1>3, <1>5
  <2>4. w * p \in Int /\ a * p \in Int BY <1>3, <1>5
  <2>5. Plus(accumulator, power) = ((a + w) * p) % Order
    BY <1>6, <2>3, <2>4, PlusMinusMod
  <2> QED BY <2>2, <2>5
<1> QED BY <1>7, <1>8 DEF Exceptional

LEMMA AffineStepInv == MulInv /\ AffineStep => MulInv'
<1> SUFFICES ASSUME MulInv, AffineStep PROVE MulInv'
  OBVIOUS
<1> DEFINE k == off + i
           b == Bit(k)
           w == Pow2[i]
           p == Pow2[off]
<1>1. /\ scalar \in Nat /\ off \in Nat /\ len \in Nat /\ off < len
      /\ i \in Nat /\ 1 <= i /\ i < SplitLen
      /\ power = Pow2[k] % Order /\ mulResult = Low(off) % Order
      /\ initialAcc = Pow2[off] % Order
      /\ accumulator \in 0 .. Order - 1
  BY DEF MulInv, TypeOK, AffineStep, InAffine
<1>2. /\ UNCHANGED <<scalar, len, off, mulResult, initialAcc>>
      /\ i' = i + 1 /\ power' = Double(power) /\ pc' = "affine"
      /\ accumulator' = IF b = 1 THEN Plus(accumulator, power) ELSE accumulator
  BY DEF AffineStep, args
<1>3. k \in Nat BY <1>1
<1>4. /\ power' = Pow2[k + 1] % Order /\ ~ExceptionalDouble(power)
      /\ power' \in 0 .. Order - 1
  BY <1>1, <1>2, <1>3, DoublePower
<1>5. ~Exceptional(accumulator, power)
  BY AffineSafe DEF AffineStep
<1>6. exceptional' = FALSE
  BY <1>4, <1>5 DEF MulInv, TypeOK, NeverExceptional, AffineStep
<1>7. PICK a \in 1 .. w - 1 :
         /\ a * p = Low(k) - Low(off) + (1 - Bit(off)) * p
         /\ accumulator = (a * p) % Order
  BY DEF MulInv, AffineStep, InAffine, Accumulated
<1>8. /\ w \in Nat /\ p \in Nat /\ Pow2[k] = w * p /\ Pow2[i + 1] = 2 * w
  <2>1. Pow2[k] = Pow2[off] * Pow2[i] BY <1>1, Pow2Plus
  <2>2. Pow2[off] \in Nat /\ Pow2[i] \in Nat /\ Pow2[i + 1] = 2 * Pow2[i]
    BY <1>1, Pow2Step
  <2> QED BY <2>1, <2>2
<1>9. /\ b \in {0, 1} /\ Low(k + 1) = Low(k) + b * (w * p)
      /\ Low(k) \in Nat /\ Low(off) \in Nat /\ Bit(off) \in {0, 1}
  BY <1>1, <1>3, <1>8, LowStep
<1>10. Accumulated'
  <2> DEFINE c == a + b * w
  <2>1. c \in 1 .. 2 * w - 1
    <3> HIDE DEF w, b
    <3> QED BY <1>7, <1>8, <1>9
  <2>2. c * p = Low(k + 1) - Low(off) + (1 - Bit(off)) * p
    <3> HIDE DEF w, b, p, k
    <3>1. (a + b * w) * p = a * p + b * (w * p) BY <1>7, <1>8, <1>9
    <3> QED BY <1>7, <1>8, <1>9, <3>1
  <2>3. accumulator' = (c * p) % Order
    <3> HIDE DEF w, b, p, k
    <3>1. CASE b = 1
      <4>1. (a * p) + (w * p) = (a + b * w) * p BY <1>7, <1>8, <3>1
      <4>2. a * p \in Int /\ w * p \in Int BY <1>7, <1>8
      <4>3. Plus(accumulator, power) = ((a * p) + (w * p)) % Order
        BY <1>1, <1>7, <1>8, <4>2, PlusMinusMod
      <4> QED BY <1>2, <3>1, <4>1, <4>3
    <3>2. CASE b = 0
      <4>1. (a + b * w) * p = a * p BY <1>7, <1>8, <3>2
      <4> QED BY <1>2, <1>7, <3>2, <4>1
    <3> QED BY <1>9, <3>1, <3>2
  <2>4. /\ Low(off)' = Low(off) /\ Bit(off)' = Bit(off)
        /\ Low(off + i)' = Low(k + 1)
    <3>1. off + i' = k + 1 BY <1>1, <1>2
    <3> QED BY <1>2, <3>1 DEF Low, Bit
  <2> HIDE DEF c, k, b
  <2> QED BY <1>2, <1>8, <2>1, <2>2, <2>3, <2>4 DEF Accumulated
<1>11. accumulator' \in 0 .. Order - 1
  <2>1. power \in 0 .. Order - 1 BY <1>1, <1>3, DoublePower
  <2>2. Plus(accumulator, power) \in 0 .. Order - 1
    BY <1>1, <2>1, OrderPositive DEF Plus
  <2> HIDE DEF b
  <2> QED BY <1>1, <1>2, <2>2
<1>12. InAffine'
  <2>1. SplitLen' = SplitLen /\ Low(off)' = Low(off)
    BY <1>2 DEF SplitLen, ChunkLen, Low
  <2>2. SplitLen \in Nat BY <1>1, ChunkFacts, OrderAssumption
  <2>3. i + 1 <= SplitLen /\ off + i' = k + 1 BY <1>1, <1>2, <2>2
  <2> HIDE DEF k
  <2> QED BY <1>1, <1>2, <1>4, <1>10, <2>1, <2>3 DEF InAffine
<1>13. TypeOK'
  BY <1>2, <1>4, <1>6, <1>11 DEF MulInv, TypeOK, AffineStep, args
<1> QED BY <1>1, <1>2, <1>6, <1>12, <1>13
      DEF MulInv, NeverExceptional, ResultIsProduct,
          BeforeLoop, AtChunk, InProjective

(* The first bit is corrected: mulResult is the sum of the bits so far.    *)
LEMMA EndAffineInv == MulInv /\ EndAffine => MulInv'
<1> SUFFICES ASSUME MulInv, EndAffine PROVE MulInv'
  OBVIOUS
<1> DEFINE k == off + i
           p == Pow2[off]
           b == Bit(off)
           l == Low(off)
<1>1. /\ scalar \in Nat /\ off \in Nat /\ len \in Nat /\ off < len
      /\ i \in Nat /\ i <= SplitLen
      /\ power = Pow2[k] % Order /\ mulResult = l % Order
      /\ initialAcc = p % Order
  BY DEF MulInv, TypeOK, EndAffine, InAffine
<1>2. SplitLen \in Nat /\ SplitLen <= ChunkLen
  BY <1>1, ChunkFacts, OrderAssumption
<1>3. /\ UNCHANGED <<scalar, len, off, power, exceptional>>
      /\ i' = SplitLen /\ i >= SplitLen /\ pc' = "projective"
      /\ mulResult' = Plus(mulResult, Minus(accumulator, Subtrahend))
  BY DEF EndAffine, args
<1>4. i' = i BY <1>1, <1>2, <1>3
<1>5. PICK a \in Nat : /\ a * p = Low(k) - l + (1 - b) * p
                       /\ accumulator = (a * p) % Order
  BY DEF MulInv, EndAffine, InAffine, Accumulated
<1>6. /\ p \in Nat /\ b \in {0, 1} /\ l \in Nat /\ Low(k) \in Nat
  BY <1>1, LowStep, Pow2Step
<1>7. Subtrahend = ((1 - b) * p) % Order
  <2>1. CASE b = 1
    <3>1. (1 - b) * p = 0 BY <1>6, <2>1
    <3>2. 0 % Order = 0 BY Reduced, OrderPositive
    <3> QED BY <2>1, <3>1, <3>2 DEF Subtrahend
  <2>2. CASE b = 0
    <3>1. (1 - b) * p = p BY <1>6, <2>2
    <3> QED BY <1>1, <2>2, <3>1 DEF Subtrahend
  <2> QED BY <1>6, <2>1, <2>2
<1>8. mulResult' = Low(k) % Order
  <2> HIDE DEF k, p, b, l
  <2>1. a * p \in Int /\ (1 - b) * p \in Int BY <1>5, <1>6
  <2>2. Minus(accumulator, Subtrahend) = ((a * p) - ((1 - b) * p)) % Order
    BY <1>5, <1>7, <2>1, PlusMinusMod
  <2>3. (a * p) - ((1 - b) * p) = Low(k) - l BY <1>5, <1>6, <2>1
  <2>4. Minus(accumulator, Subtrahend) = (Low(k) - l) % Order BY <2>2, <2>3
  <2>5. Low(k) - l \in Int /\ l + (Low(k) - l) = Low(k) BY <1>6
  <2>6. Plus(l % Order, (Low(k) - l) % Order) = (l + (Low(k) - l)) % Order
    BY <1>6, <2>5, PlusMinusMod
  <2> QED BY <1>1, <1>3, <2>4, <2>5, <2>6
<1>9. mulResult' \in 0 .. Order - 1 BY <1>6, <1>8, PlusMinusMod
<1>10. TypeOK'
  BY <1>1, <1>3, <1>4, <1>9 DEF MulInv, TypeOK, EndAffine, args
<1>11. InProjective'
  <2>1. ChunkLen' = ChunkLen BY <1>3 DEF ChunkLen
  <2>2. Low(off + i)' = Low(k) BY <1>3, <1>4 DEF Low
  <2>3. ChunkLen \in Nat BY <1>1, ChunkFacts
  <2>4. i <= ChunkLen BY <1>1, <1>2, <2>3
  <2> QED BY <1>1, <1>3, <1>4, <1>8, <2>1, <2>2, <2>4 DEF InProjective
<1> QED BY <1>1, <1>3, <1>10, <1>11
      DEF MulInv, NeverExceptional, ResultIsProduct, BeforeLoop, AtChunk, InAffine

LEMMA ProjectiveStepInv == MulInv /\ ProjectiveStep => MulInv'
<1> SUFFICES ASSUME MulInv, ProjectiveStep PROVE MulInv'
  OBVIOUS
<1> DEFINE k == off + i
           b == Bit(k)
<1>1. /\ scalar \in Nat /\ off \in Nat /\ len \in Nat /\ off < len
      /\ i \in Nat /\ i < ChunkLen
      /\ power = Pow2[k] % Order /\ mulResult = Low(k) % Order
  BY DEF MulInv, TypeOK, ProjectiveStep, InProjective
<1>2. /\ UNCHANGED <<scalar, len, off>>
      /\ i' = i + 1 /\ power' = Double(power) /\ pc' = "projective"
      /\ mulResult' = IF b = 1 THEN Plus(mulResult, power) ELSE mulResult
  BY DEF ProjectiveStep, args
<1>3. k \in Nat /\ off + i' = k + 1 BY <1>1, <1>2
<1>4. /\ power' = Pow2[k + 1] % Order /\ ~ExceptionalDouble(power)
      /\ power' \in 0 .. Order - 1
  BY <1>1, <1>2, <1>3, DoublePower
<1>5. exceptional' = FALSE
  BY <1>4 DEF MulInv, TypeOK, NeverExceptional, ProjectiveStep
<1>6. /\ Pow2[k] \in Nat /\ b \in {0, 1}
      /\ Low(k) \in Nat /\ Low(k + 1) = Low(k) + b * Pow2[k]
  BY <1>1, <1>3, LowStep, Pow2Step
<1>7. mulResult' = Low(k + 1) % Order
  <2> HIDE DEF k, b
  <2>1. CASE b = 1
    <3>1. Low(k + 1) = Low(k) + Pow2[k] BY <1>6, <2>1
    <3>2. Plus(mulResult, power) = (Low(k) + Pow2[k]) % Order
      <4>1. Low(k) \in Int /\ Pow2[k] \in Int BY <1>6
      <4>2. Plus(Low(k) % Order, Pow2[k] % Order) = (Low(k) + Pow2[k]) % Order
        BY <4>1, PlusMinusMod
      <4> QED BY <1>1, <4>2
    <3> QED BY <1>2, <2>1, <3>1, <3>2
  <2>2. CASE b = 0
    <3>1. Low(k + 1) = Low(k) BY <1>6, <2>2
    <3> QED BY <1>1, <1>2, <2>2, <3>1
  <2> QED BY <1>6, <2>1, <2>2
<1>8. mulResult' \in 0 .. Order - 1
  <2>1. Low(k + 1) \in Int BY <1>1, <1>3, LowStep
  <2> QED BY <1>7, <2>1, PlusMinusMod
<1>9. TypeOK'
  BY <1>2, <1>4, <1>5, <1>8 DEF MulInv, TypeOK, ProjectiveStep, args
<1>10. InProjective'
  <2>1. ChunkLen' = ChunkLen BY <1>2 DEF ChunkLen
  <2>2. Low(off + i)' = Low(k + 1) BY <1>2, <1>3 DEF Low
  <2>3. ChunkLen \in Nat BY <1>1, ChunkFacts
  <2>4. i + 1 <= ChunkLen BY <1>1, <2>3
  <2> HIDE DEF k
  <2> QED BY <1>1, <1>2, <1>3, <1>4, <1>7, <2>1, <2>2, <2>4 DEF InProjective
<1> QED BY <1>1, <1>2, <1>5, <1>9, <1>10
      DEF MulInv, NeverExceptional, ResultIsProduct, BeforeLoop, AtChunk, InAffine

LEMMA EndChunkInv == MulInv /\ EndChunk => MulInv'
<1> SUFFICES ASSUME MulInv, EndChunk PROVE MulInv'
  OBVIOUS
<1>1. /\ scalar \in Nat /\ off \in Nat /\ len \in Nat /\ off < len
      /\ i \in Nat /\ i <= ChunkLen /\ i >= ChunkLen
      /\ power = Pow2[off + i] % Order /\ mulResult = Low(off + i) % Order
  BY DEF MulInv, TypeOK, EndChunk, InProjective
<1>2. ChunkLen \in Nat /\ ChunkLen <= len - off BY <1>1, ChunkFacts
<1>3. i = ChunkLen BY <1>1, <1>2
<1>4. /\ UNCHANGED <<scalar, len, power, mulResult, exceptional>>
      /\ off' = off + i /\ pc' = "chunk"
  BY <1>3 DEF EndChunk, NextOff, args
<1>5. off' \in Nat /\ off' <= len BY <1>1, <1>2, <1>3, <1>4
<1>6. Low(off)' = Low(off + i) BY <1>4 DEF Low
<1>7. TypeOK' BY <1>4, <1>5 DEF MulInv, TypeOK, EndChunk, args
<1> QED BY <1>1, <1>4, <1>5, <1>6, <1>7
      DEF MulInv, NeverExceptional, ResultIsProduct,
          BeforeLoop, AtChunk, InAffine, InProjective

LEMMA FinishInv == MulInv /\ Finish => MulInv'
<1> SUFFICES ASSUME MulInv, Finish PROVE MulInv'
  OBVIOUS
<1>1. /\ scalar \in Nat /\ off \in Nat /\ len \in Nat /\ off = len
      /\ scalar < Pow2[len] /\ mulResult = Low(off) % Order
  BY DEF MulInv, TypeOK, Finish, AtChunk
<1>2. mulResult = scalar % Order BY <1>1, LowAll
<1>3. mulResult' \in 0 .. Order - 1
  <2>1. 0 \in 0 .. Order - 1 BY OrderPositive
  <2>2. mulResult \in 0 .. Order - 1 BY DEF MulInv, TypeOK
  <2>3. mulResult' = IF selfZero THEN 0 ELSE mulResult BY DEF Finish, Selected
  <2> QED BY <2>1, <2>2, <2>3
<1>4. TypeOK' BY <1>3 DEF MulInv, TypeOK, Finish, args
<1> QED BY <1>1, <1>2, <1>4
      DEF MulInv, Finish, Selected, args, NeverExceptional, ResultIsProduct,
          BeforeLoop, AtChunk, InAffine, InProjective

LEMMA UnchangedInv == MulInv /\ UNCHANGED vars => MulInv'
<1> SUFFICES ASSUME MulInv, UNCHANGED vars PROVE MulInv'
  OBVIOUS
<1>1. /\ UNCHANGED <<scalar, len, off, i>>
      /\ \A k : Low(k)' = Low(k) /\ Bit(k)' = Bit(k)
      /\ ChunkLen' = ChunkLen /\ SplitLen' = SplitLen
  BY DEF vars, Low, Bit, ChunkLen, SplitLen
<1>2. Accumulated => Accumulated'
  BY <1>1 DEF Accumulated, vars
<1> QED BY <1>1, <1>2
      DEF vars, MulInv, TypeOK, NeverExceptional, ResultIsProduct,
          BeforeLoop, AtChunk, InAffine, InProjective

LEMMA NextMulInv == MulInv /\ [Next]_vars => MulInv'
BY ReturnEarlyInv, BeginInv, StripInv, StartLoopInv, StartChunkInv,
   AffineStepInv, EndAffineInv, ProjectiveStepInv, EndChunkInv, FinishInv,
   UnchangedInv
   DEF Next, Step, Done

LEMMA MulInvAlways == Spec => []MulInv
BY InitMulInv, NextMulInv, PTL DEF Spec

-----------------------------------------------------------------------------
(* Theorems.                                                               *)

(* Every intermediate value is a point of the group, a number of bits or a *)
(* position in them.                                                       *)
THEOREM TypeCorrect == Spec => []TypeOK
<1>1. MulInv => TypeOK BY DEF MulInv
<1> QED BY <1>1, MulInvAlways, PTL

(* For every odd order and every number of bits the incomplete formulae of *)
(* fixed_scalar_mul_le are never used on a pair they are wrong for.        *)
THEOREM IncompleteFormulaeAreSafe == Spec => []NeverExceptional
<1>1. MulInv => NeverExceptional BY DEF MulInv
<1> QED BY <1>1, MulInvAlways, PTL

(* For every odd order and every number of bits scalar_mul_le returns the  *)
(* scalar times self.                                                      *)
THEOREM ScalarMulCorrect == Spec => []ResultIsProduct
<1>1. MulInv => ResultIsProduct BY DEF MulInv
<1> QED BY <1>1, MulInvAlways, PTL

(* Every step either leaves the abstract specification's state alone or is *)
(* its one step, the answer `bits * self`: the safety half of              *)
(* ImplementsScalarMul.                                                    *)
THEOREM ImplementsSpec ==
  Spec => Abstract!Init /\ [][Abstract!Answer]_(Abstract!vars)
<1>1. Init => Abstract!Init
  <2>1. 0 \in 0 .. Order - 1 /\ 1 \in 0 .. Order - 1 BY OrderPositive
  <2>2. Init => TypeOK BY InitMulInv DEF MulInv
  <2> QED BY <2>1, <2>2 DEF Init, TypeOK, Abstract!Init
<1>2. MulInv /\ MulInv' /\ [Next]_vars => [Abstract!Answer]_(Abstract!vars)
  <2> SUFFICES ASSUME MulInv, MulInv', [Next]_vars
               PROVE  [Abstract!Answer]_(Abstract!vars)
    OBVIOUS
  <2>1. UNCHANGED <<scalar, selfZero>>
    BY DEF Next, Step, Done, vars, args, ReturnEarly, Begin, Strip, StartLoop,
           StartChunk, AffineStep, EndAffine, ProjectiveStep, EndChunk, Finish
  <2>2. CASE pc # "done" /\ pc' = "done"
    <3>1. mulResult' = IF selfZero THEN 0 ELSE scalar % Order
      BY <2>1, <2>2 DEF MulInv, ResultIsProduct
    <3>2. scalar * 0 = 0 /\ scalar * 1 = scalar /\ 0 % Order = 0
      BY Reduced, OrderPositive DEF MulInv, TypeOK
    <3>3. mulResult' = (scalar * (IF selfZero THEN 0 ELSE 1)) % Order
      BY <3>1, <3>2
    <3> QED BY <2>1, <2>2, <3>3 DEF Abstract!Answer
  <2>3. CASE pc # "done" /\ pc' # "done"
    BY <2>1, <2>3 DEF Abstract!vars
  <2>4. CASE pc = "done"
    <3>1. UNCHANGED <<pc, mulResult>>
      BY <2>4 DEF Next, Step, Done, vars, ReturnEarly, Begin, Strip, StartLoop,
           StartChunk, AffineStep, EndAffine, ProjectiveStep, EndChunk, Finish
    <3> QED BY <2>1, <2>4, <3>1 DEF Abstract!vars
  <2> QED BY <2>2, <2>3, <2>4
<1> QED BY <1>1, <1>2, MulInvAlways, PTL DEF Spec

(***************************************************************************)
(*                          ARITHMETIC OF POINTS                           *)
(***************************************************************************)

-----------------------------------------------------------------------------
(* Congruences.                                                            *)

Same(x, y) == Vanishes(x - y)

(* The curve is one of those the formulae are for.                         *)
IsCubic == <<coeff_a, coeff_b>> \in CurveCoeffs

(* Its coefficients are elements of the field.                             *)
LEMMA CubicCoeffs ==
  ASSUME IsCubic
  PROVE  coeff_a \in Int /\ coeff_b \in Int
<1>1. <<coeff_a, coeff_b>> \in Fp \X Fp BY CubicsAssumption DEF IsCubic
<1> QED BY <1>1, ElementRed

(* A number and its remainder.                                             *)
LEMMA RedSame ==
  ASSUME NEW x \in Int
  PROVE  Red(x) \in Fp /\ Red(x) \in Int /\ Same(Red(x), x)
BY RedRemainder, RedVanishes DEF Same

(* A congruence is one in both directions.                                 *)
LEMMA SameTurns ==
  ASSUME NEW x \in Int, NEW y \in Int, Same(x, y)
  PROVE  Same(y, x)
  <1>1. Same(y, x)
    <2> DEFINE f1 == x - y
    <2>1. -1 \in Int /\ f1 \in Int /\ 0 \in Int
      OBVIOUS
    <2>2. Vanishes(f1)
      BY DEF Same
    <2>3. Combine(-1, f1, 0, f1)
           = y - x
      BY DEF Combine
    <2> HIDE DEF f1
    <2>4. Vanishes(Combine(-1, f1, 0, f1))
      BY <2>1, <2>2, VanishesSum, Zenon
    <2> QED BY <2>3, <2>4 DEF Same
<1> QED BY <1>1

(* Congruences chain.                                                      *)
LEMMA SameChain ==
  ASSUME NEW x \in Int, NEW y \in Int, NEW z \in Int, Same(x, y), Same(y, z)
  PROVE  Same(x, z)
  <1>1. Same(x, z)
    <2> DEFINE f1 == x - y
               f2 == y - z
    <2>1. 1 \in Int /\ f1 \in Int /\ f2 \in Int
      OBVIOUS
    <2>2. Vanishes(f1) /\ Vanishes(f2)
      BY DEF Same
    <2>3. Combine(1, f1, 1, f2)
           = x - z
      BY DEF Combine
    <2> HIDE DEF f1, f2
    <2>4. Vanishes(Combine(1, f1, 1, f2))
      BY <2>1, <2>2, VanishesSum, Zenon
    <2> QED BY <2>3, <2>4 DEF Same
<1> QED BY <1>1

(* What is congruent to something that vanishes vanishes.                  *)
LEMMA SameVanishes ==
  ASSUME NEW x \in Int, NEW y \in Int, Same(x, y)
  PROVE  Vanishes(x) <=> Vanishes(y)
<1>1. ASSUME Vanishes(y) PROVE Vanishes(x)
  <2>1. Vanishes(x)
    <3> DEFINE f1 == x - y
    <3>1. 1 \in Int /\ f1 \in Int /\ y \in Int
      OBVIOUS
    <3>2. Vanishes(f1) /\ Vanishes(y)
      BY <1>1 DEF Same
    <3>3. Combine(1, f1, 1, y)
           = x
      BY DEF Combine
    <3> HIDE DEF f1
    <3>4. Vanishes(Combine(1, f1, 1, y))
      BY <3>1, <3>2, VanishesSum, Zenon
    <3> QED BY <3>3, <3>4
  <2> QED BY <2>1
<1>2. ASSUME Vanishes(x) PROVE Vanishes(y)
  <2>1. Vanishes(y)
    <3> DEFINE f1 == x - y
    <3>1. -1 \in Int /\ f1 \in Int /\ 1 \in Int /\ x \in Int
      OBVIOUS
    <3>2. Vanishes(f1) /\ Vanishes(x)
      BY <1>2 DEF Same
    <3>3. Combine(-1, f1, 1, x)
           = y
      BY DEF Combine
    <3> HIDE DEF f1
    <3>4. Vanishes(Combine(-1, f1, 1, x))
      BY <3>1, <3>2, VanishesSum, Zenon
    <3> QED BY <3>3, <3>4
  <2> QED BY <2>1
<1> QED BY <1>1, <1>2

(* Congruent elements are equal.                                           *)
LEMMA SameElements ==
  ASSUME NEW x \in Fp, NEW y \in Fp, Same(x, y)
  PROVE  x = y
BY ElementsEqual DEF Same

(* Products of what is congruent are.                                      *)
LEMMA SameProduct ==
  ASSUME NEW x \in Int, NEW y \in Int, NEW u \in Int, NEW v \in Int,
         Same(x, u), Same(y, v)
  PROVE  Same(x * y, u * v)
  <1>1. Same(x * y, u * v)
    <2> DEFINE f1 == x - u
               f2 == y - v
    <2>1. y \in Int /\ f1 \in Int /\ u \in Int /\ f2 \in Int
      OBVIOUS
    <2>2. Vanishes(f1) /\ Vanishes(f2)
      BY DEF Same
    <2>3. Combine(y, f1, u, f2)
           = x * y - u * v
      BY DEF Combine
    <2> HIDE DEF f1, f2
    <2>4. Vanishes(Combine(y, f1, u, f2))
      BY <2>1, <2>2, VanishesSum, Zenon
    <2> QED BY <2>3, <2>4 DEF Same
<1> QED BY <1>1

(* A factor that is not zero can be cancelled.                             *)
LEMMA Cancelled ==
  ASSUME NEW x \in Int, NEW y \in Int, NEW d \in Int, ~Vanishes(d),
         Same(d * x, d * y)
  PROVE  Same(x, y)
<1>1. d * x - d * y = d * (x - y) /\ x - y \in Int OBVIOUS
<1> DEFINE w == x - y
<1>2. w \in Int /\ Vanishes(d * w) BY <1>1 DEF Same
<1> HIDE DEF w
<1>3. Vanishes(w) BY <1>2, NoZeroDivisors
<1> QED BY <1>3 DEF Same, w

(* Two, three and their multiples do not vanish above three.               *)
LEMMA TwoNotZero == ~Vanishes(2)
<1>1. 2 \in Fp BY Modulus, CubicsAssumption DEF Fp
<1> QED BY <1>1, ElementZero

-----------------------------------------------------------------------------
(* Points.                                                                 *)

Cubic(x, y) == y * y - x * x * x - coeff_a * x - coeff_b

(* The equation of the curve is about numbers.                             *)
LEMMA CubicInt ==
  ASSUME IsCubic, NEW x \in Int, NEW y \in Int
  PROVE  Cubic(x, y) \in Int
BY CubicCoeffs DEF Cubic

(* A point that is not zero.                                               *)
LEMMA CubicHas ==
  ASSUME NEW q \in CubicPoints, q # Infinity
  PROVE  /\ q = <<q[1], q[2]>> /\ q[1] \in Fp /\ q[2] \in Fp
         /\ q[1] \in Int /\ q[2] \in Int /\ Vanishes(Cubic(q[1], q[2]))
<1>1. q \in Fp \X Fp /\ OnCubic(q[1], q[2]) BY DEF CubicPoints
<1>2. q[1] \in Int /\ q[2] \in Int BY <1>1, ElementRed
<1> QED BY <1>1, <1>2 DEF OnCubic, Vanishes, Cubic

(* What makes coordinates a point.                                         *)
LEMMA CubicIs ==
  ASSUME NEW x \in Fp, NEW y \in Fp, Vanishes(Cubic(x, y))
  PROVE  <<x, y>> \in CubicPoints /\ <<x, y>> # Infinity
<1>1. OnCubic(x, y) BY DEF OnCubic, Vanishes, Cubic
<1>2. <<x, y>> \in Fp \X Fp /\ <<x, y>>[1] = x /\ <<x, y>>[2] = y OBVIOUS
<1>3. <<x, y>> # <<>> OBVIOUS
<1> QED BY <1>1, <1>2, <1>3 DEF CubicPoints, Infinity

(* No point has order two.                                                 *)
LEMMA OrdinateNotZero ==
  ASSUME IsCubic, NEW x \in Int, NEW y \in Int, Vanishes(Cubic(x, y))
  PROVE  ~Vanishes(y)
<1> SUFFICES ASSUME Vanishes(y) PROVE FALSE OBVIOUS
<1> DEFINE c == <<coeff_a, coeff_b>>
           u == Red(x)
           f == u * u * u + coeff_a * u + coeff_b
<1>1. u \in Fp /\ u \in Int /\ Same(u, x) BY RedSame
<1>2. c \in CurveCoeffs /\ c[1] = coeff_a /\ c[2] = coeff_b BY DEF IsCubic
<1>3. Red(f) # 0 BY <1>1, <1>2, CubicsAssumption
<1> HIDE DEF u
  <1>4. Vanishes(f)
    <2> DEFINE f1 == Cubic(x, y)
               g3 == u * u + u * x + x * x + coeff_a
               f3 == u - x
    <2>1. -1 \in Int /\ f1 \in Int /\ y \in Int /\ g3 \in Int
          /\ f3 \in Int
      BY <1>1, CubicInt, CubicCoeffs
    <2>2. Vanishes(f1) /\ Vanishes(y) /\ Vanishes(f3)
      BY <1>1 DEF Same
    <2>3. Combine3(-1, f1, y, y, g3, f3)
           = f
      BY <1>1, CubicInt, CubicCoeffs DEF Combine3, Cubic
    <2> HIDE DEF f1, g3, f3
    <2>4. Vanishes(Combine3(-1, f1, y, y, g3, f3))
      BY <2>1, <2>2, VanishesSum3, Zenon
    <2> QED BY <2>3, <2>4
<1> QED BY <1>3, <1>4 DEF Vanishes

-----------------------------------------------------------------------------
(* The chord-and-tangent law.                                              *)

(* The opposite of a point.                                                *)
LEMMA MirrorIs ==
  ASSUME IsCubic, NEW q \in CubicPoints
  PROVE  /\ Mirror(q) \in CubicPoints
         /\ q = Infinity => Mirror(q) = Infinity
         /\ q # Infinity => /\ Mirror(q) # Infinity /\ Mirror(q)[1] = q[1]
                            /\ Mirror(q)[2] = Red(- q[2])
                            /\ Mirror(q)[2] \in Int /\ Same(Mirror(q)[2], - q[2])
<1>1. CASE q = Infinity
  BY <1>1 DEF Mirror
<1>2. CASE q # Infinity
  <2> DEFINE x == q[1]
             y == q[2]
             m == Red(- y)
  <2>1. x \in Fp /\ x \in Int /\ y \in Int /\ - y \in Int /\ Vanishes(Cubic(x, y))
    BY <1>2, CubicHas
  <2>2. Mirror(q) = <<x, m>> BY <1>2 DEF Mirror
  <2> HIDE DEF x, y
  <2>3. m \in Fp /\ m \in Int /\ Same(m, - y) BY <2>1, RedSame
  <2> HIDE DEF m
  <2>4. Vanishes(Cubic(x, m))
    <3> DEFINE f1 == Cubic(x, y)
               g2 == m - y
               f2 == m - (- y)
    <3>1. 1 \in Int /\ f1 \in Int /\ g2 \in Int /\ f2 \in Int
      BY <2>1, <2>3, CubicInt, CubicCoeffs
    <3>2. Vanishes(f1) /\ Vanishes(f2)
      BY <2>1, <2>3 DEF Same
    <3>3. Combine(1, f1, g2, f2)
           = Cubic(x, m)
      BY <2>1, <2>3, CubicInt, CubicCoeffs DEF Combine, Cubic
    <3> HIDE DEF f1, g2, f2
    <3>4. Vanishes(Combine(1, f1, g2, f2))
      BY <3>1, <3>2, VanishesSum, Zenon
    <3> QED BY <3>3, <3>4
  <2>5. <<x, m>> \in CubicPoints /\ <<x, m>> # Infinity
    BY <2>1, <2>3, <2>4, CubicIs
  <2> QED BY <1>2, <2>2, <2>3, <2>5 DEF x, y, m
<1> QED BY <1>1, <1>2

(* Two points of the same abscissa are the same or opposite.               *)
LEMMA SameAbscissa ==
  ASSUME IsCubic, NEW q \in CubicPoints, NEW s \in CubicPoints,
         q # Infinity, s # Infinity, Same(s[1], q[1])
  PROVE  s = q \/ s = Mirror(q)
<1> DEFINE x == q[1]
           y == q[2]
           z == s[2]
<1>1. /\ q = <<q[1], q[2]>> /\ x \in Fp /\ x \in Int /\ y \in Fp /\ y \in Int
      /\ Vanishes(Cubic(x, y))
  BY CubicHas
<1>2. /\ s = <<s[1], s[2]>> /\ s[1] \in Fp /\ z \in Fp /\ z \in Int
      /\ Vanishes(Cubic(s[1], z))
  BY CubicHas
<1>3. s[1] = x BY <1>1, <1>2, SameElements
<1>4. Vanishes(Cubic(x, z)) BY <1>2, <1>3
<1>5. Mirror(q) = <<x, Mirror(q)[2]>> /\ Mirror(q)[2] \in Fp
      /\ Mirror(q)[2] \in Int /\ Same(Mirror(q)[2], - y)
  BY MirrorIs, CubicHas
<1> HIDE DEF x, y, z
<1> DEFINE d == z - y
           e == z + y
  <1>6. Vanishes(d * e)
    <2> DEFINE f1 == Cubic(x, z)
               f2 == Cubic(x, y)
    <2>1. 1 \in Int /\ f1 \in Int /\ -1 \in Int /\ f2 \in Int
      BY <1>1, <1>2, CubicInt, CubicCoeffs
    <2>2. Vanishes(f1) /\ Vanishes(f2)
      BY <1>1, <1>4
    <2>3. Combine(1, f1, -1, f2)
           = d * e
      BY <1>1, <1>2, CubicInt, CubicCoeffs DEF Combine, Cubic
    <2> HIDE DEF f1, f2
    <2>4. Vanishes(Combine(1, f1, -1, f2))
      BY <2>1, <2>2, VanishesSum, Zenon
    <2> QED BY <2>3, <2>4
<1>7. d \in Int /\ e \in Int BY <1>1, <1>2
<1> HIDE DEF d, e
<1>8. CASE Vanishes(d)
  <2>1. z = y BY <1>1, <1>2, <1>8, ElementsEqual DEF d
  <2> QED BY <1>1, <1>2, <1>3, <2>1 DEF x, y, z
<1>9. CASE ~Vanishes(d)
  <2>1. Vanishes(e) BY <1>6, <1>7, <1>9, NoZeroDivisors
  <2> DEFINE m == Mirror(q)[2]
  <2>2. m \in Fp /\ m \in Int /\ Same(m, - y) BY <1>5
  <2> HIDE DEF m
  <2>3. Same(z, m)
    <3> DEFINE f2 == m - (- y)
    <3>1. 1 \in Int /\ e \in Int /\ -1 \in Int /\ f2 \in Int
      BY <1>1, <1>2, <1>7, <2>2
    <3>2. Vanishes(e) /\ Vanishes(f2)
      BY <2>1, <2>2 DEF Same
    <3>3. Combine(1, e, -1, f2)
           = z - m
      BY <1>1, <1>2, <1>7, <2>2 DEF Combine, e
    <3> HIDE DEF f2
    <3>4. Vanishes(Combine(1, e, -1, f2))
      BY <3>1, <3>2, VanishesSum, Zenon
    <3> QED BY <3>3, <3>4 DEF Same
  <2>4. z = m BY <1>2, <2>2, <2>3, SameElements
  <2> QED BY <1>2, <1>3, <1>5, <2>4 DEF m, x, y, z
<1> QED BY <1>8, <1>9

(* A point and its opposite differ.                                        *)
LEMMA MirrorOther ==
  ASSUME IsCubic, NEW q \in CubicPoints, q # Infinity
  PROVE  ~Vanishes(2 * q[2]) /\ q # Mirror(q)
<1> DEFINE y == q[2]
           m == Mirror(q)[2]
<1>1. y \in Int /\ ~Vanishes(y) BY CubicHas, OrdinateNotZero
<1>2. m \in Int /\ Same(m, - y) BY MirrorIs
<1>3. ~Vanishes(2 * y)
  <2> HIDE DEF y
  <2> QED BY <1>1, TwoNotZero, ProductIsNotZero
<1>4. ASSUME m = y PROVE FALSE
  <2>1. y - (- y) = 2 * y BY <1>1
  <2> QED BY <1>2, <1>3, <1>4, <2>1 DEF Same
<1> QED BY <1>3, <1>4

(* What a chord or a tangent of slope l gives.                             *)
Third(l, x1, y1, x2, x, y) ==
  Same(x, l * l - x1 - x2) /\ Same(y, l * (x1 - x) - y1)

(* l is the slope of the chord through two points.                         *)
IsChord(l, x1, y1, x2, y2) == Same(l * (x2 - x1), y2 - y1)

(* l is the slope of the tangent of a point.                               *)
IsTangent(l, x, y) == Same(l * (2 * y), 3 * x * x + coeff_a)

(* The chord through two points.                                           *)
LEMMA ChordHas ==
  ASSUME IsCubic, NEW q \in CubicPoints, NEW s \in CubicPoints,
         q # Infinity, s # Infinity, s # q, s # Mirror(q)
  PROVE  \E l \in Fp, x \in Fp, y \in Fp :
           /\ l = Red(Slope(q, s)) /\ ChordSum(q, s) = <<x, y>>
           /\ x = Red(l * l - q[1] - s[1]) /\ y = Red(l * (q[1] - x) - q[2])
           /\ ~Same(s[1], q[1])
           /\ IsChord(l, q[1], q[2], s[1], s[2])
           /\ Third(l, q[1], q[2], s[1], x, y)
<1> DEFINE x1 == q[1]
           y1 == q[2]
           x2 == s[1]
           y2 == s[2]
           n == y2 - y1
           d == x2 - x1
           l == Red(n * Inverse0(d))
           x == Red(l * l - x1 - x2)
           y == Red(l * (x1 - x) - y1)
<1>1. x1 \in Int /\ y1 \in Int /\ x2 \in Int /\ y2 \in Int BY CubicHas
<1>2. ~Same(x2, x1) /\ ~Vanishes(d) BY SameAbscissa DEF Same
<1>3. Slope(q, s) = n * Inverse0(d) BY DEF Slope
<1>4. ChordSum(q, s) = <<x, y>> BY <1>3 DEF ChordSum
<1> HIDE DEF x1, y1, x2, y2
<1>5. n \in Int /\ d \in Int BY <1>1
<1> HIDE DEF n, d
<1>6. l \in Fp /\ l \in Int /\ Same(l * d, n)
  <2>1. l \in Fp /\ Vanishes(l * d - n) BY <1>2, <1>5, DivisionIs
  <2> HIDE DEF l
  <2> QED BY <2>1, ElementRed DEF Same
<1> HIDE DEF l
<1>8. l * l - x1 - x2 \in Int BY <1>1, <1>6
<1>9. x \in Fp /\ x \in Int /\ Same(x, l * l - x1 - x2) BY <1>8, RedSame
<1> HIDE DEF x
<1>11. l * (x1 - x) - y1 \in Int BY <1>1, <1>6, <1>9
<1>12. y \in Fp /\ Same(y, l * (x1 - x) - y1) BY <1>11, RedSame
<1>13. Third(l, x1, y1, x2, x, y) BY <1>9, <1>12 DEF Third
<1>14. IsChord(l, x1, y1, x2, y2) BY <1>6 DEF IsChord, n, d
<1> QED
  BY <1>2, <1>3, <1>4, <1>6, <1>9, <1>12, <1>13, <1>14
     DEF l, x, y, n, d, x1, y1, x2, y2

(* The tangent of a point.                                                 *)
LEMMA TangentHas ==
  ASSUME IsCubic, NEW q \in CubicPoints, q # Infinity
  PROVE  \E l \in Fp, x \in Fp, y \in Fp :
           /\ l = Red(Slope(q, q)) /\ ChordSum(q, q) = <<x, y>>
           /\ x = Red(l * l - q[1] - q[1]) /\ y = Red(l * (q[1] - x) - q[2])
           /\ ~Vanishes(2 * q[2])
           /\ IsTangent(l, q[1], q[2])
           /\ Third(l, q[1], q[2], q[1], x, y)
<1> DEFINE x1 == q[1]
           y1 == q[2]
           n == 3 * x1 * x1 + coeff_a
           d == 2 * y1
           l == Red(n * Inverse0(d))
           x == Red(l * l - x1 - x1)
           y == Red(l * (x1 - x) - y1)
<1>1. x1 \in Int /\ y1 \in Int BY CubicHas
<1>2. ~Vanishes(d) /\ q # Mirror(q) BY MirrorOther
<1>3. Slope(q, q) = n * Inverse0(d) BY DEF Slope
<1>4. ChordSum(q, q) = <<x, y>> BY <1>2, <1>3 DEF ChordSum
<1> HIDE DEF x1, y1
<1>5. n \in Int /\ d \in Int BY <1>1, CubicCoeffs
<1> HIDE DEF n, d
<1>6. l \in Fp /\ l \in Int /\ Same(l * d, n)
  <2>1. l \in Fp /\ Vanishes(l * d - n) BY <1>2, <1>5, DivisionIs
  <2> HIDE DEF l
  <2> QED BY <2>1, ElementRed DEF Same
<1> HIDE DEF l
<1>8. l * l - x1 - x1 \in Int BY <1>1, <1>6
<1>9. x \in Fp /\ x \in Int /\ Same(x, l * l - x1 - x1) BY <1>8, RedSame
<1> HIDE DEF x
<1>11. l * (x1 - x) - y1 \in Int BY <1>1, <1>6, <1>9
<1>12. y \in Fp /\ Same(y, l * (x1 - x) - y1) BY <1>11, RedSame
<1>13. Third(l, x1, y1, x1, x, y) BY <1>9, <1>12 DEF Third
<1>14. IsTangent(l, x1, y1) BY <1>6 DEF IsTangent, n, d
<1> QED
  BY <1>2, <1>3, <1>4, <1>6, <1>9, <1>12, <1>13, <1>14 DEF l, x, y, n, d, x1, y1

(* The third point of a line is on the curve, and its mirror image too:    *)
(* the equation along the line through (x1, y1) of slope l is one of       *)
(* degree three whose roots add up to l * l.                               *)
Along(l, x1, y1, x) == Cubic(x, l * (x - x1) + y1)

(* It is about numbers.                                                    *)
LEMMA AlongInt ==
  ASSUME IsCubic, NEW l \in Int, NEW x1 \in Int, NEW y1 \in Int, NEW x \in Int
  PROVE  Along(l, x1, y1, x) \in Int
BY CubicInt DEF Along

(* A root of it gives a point, mirrored.                                   *)
LEMMA AlongMirrored ==
  ASSUME IsCubic, NEW l \in Int, NEW x1 \in Int, NEW y1 \in Int, NEW x \in Int,
         NEW y \in Int, Vanishes(Along(l, x1, y1, x)), Same(y, l * (x1 - x) - y1)
  PROVE  Vanishes(Cubic(x, y))
<1> DEFINE k == Along(l, x1, y1, x)
           v == l * (x1 - x) - y1
<1>1. k \in Int /\ v \in Int /\ Vanishes(k) /\ Same(y, v) BY AlongInt
<1>2. k = v * v - x * x * x - coeff_a * x - coeff_b
  BY CubicCoeffs DEF Along, Cubic
<1> HIDE DEF k, v
<1>3. Vanishes(Cubic(x, y))
  <2> DEFINE g2 == y + v
             f2 == y - v
  <2>1. 1 \in Int /\ k \in Int /\ g2 \in Int /\ f2 \in Int
    BY <1>1, <1>2, CubicCoeffs
  <2>2. Vanishes(k) /\ Vanishes(f2)
    BY <1>1 DEF Same
  <2>3. Combine(1, k, g2, f2)
         = Cubic(x, y)
    BY <1>1, <1>2, CubicCoeffs DEF Combine, Cubic
  <2> HIDE DEF g2, f2
  <2>4. Vanishes(Combine(1, k, g2, f2))
    BY <2>1, <2>2, VanishesSum, Zenon
  <2> QED BY <2>3, <2>4
<1> QED BY <1>3

(* The divided difference of the equation over three of its roots.         *)
LEMMA ChordIdentity ==
  ASSUME NEW l \in Int, NEW x1 \in Int, NEW y1 \in Int, NEW x2 \in Int,
         NEW x \in Int, NEW a \in Int, NEW b \in Int
  PROVE  ((l * (x - x1) + y1) * (l * (x - x1) + y1) - x * x * x - a * x - b)
           * (x2 - x1)
         = (y1 * y1 - x1 * x1 * x1 - a * x1 - b) * (x2 - x)
           + ((l * (x2 - x1) + y1) * (l * (x2 - x1) + y1) - x2 * x2 * x2
                - a * x2 - b) * (x - x1)
           - (x - (l * l - x1 - x2)) * ((x2 - x1) * (x - x1) * (x - x2))
OBVIOUS

(* The same where two of them are one.                                     *)
LEMMA TangentIdentity ==
  ASSUME NEW l \in Int, NEW x1 \in Int, NEW y1 \in Int, NEW x \in Int,
         NEW a \in Int, NEW b \in Int
  PROVE  (l * (x - x1) + y1) * (l * (x - x1) + y1) - x * x * x - a * x - b
         = (y1 * y1 - x1 * x1 * x1 - a * x1 - b)
           + (l * (2 * y1) - (3 * x1 * x1 + a)) * (x - x1)
           - (x - (l * l - x1 - x1)) * ((x - x1) * (x - x1))
OBVIOUS

(* A chord gives a point.                                                  *)
LEMMA ChordClosed ==
  ASSUME IsCubic, NEW l \in Int, NEW x1 \in Int, NEW y1 \in Int,
         NEW x2 \in Int, NEW y2 \in Int, NEW x \in Int, NEW y \in Int,
         Vanishes(Cubic(x1, y1)), Vanishes(Cubic(x2, y2)),
         ~Same(x2, x1), IsChord(l, x1, y1, x2, y2),
         Third(l, x1, y1, x2, x, y)
  PROVE  Vanishes(Cubic(x, y))
<1> DEFINE k  == Along(l, x1, y1, x)
           k1 == Along(l, x1, y1, x1)
           k2 == Along(l, x1, y1, x2)
           d  == x2 - x1
           s  == x - (l * l - x1 - x2)
<1>1. /\ k \in Int /\ k1 \in Int /\ k2 \in Int /\ d \in Int /\ s \in Int
      /\ ~Vanishes(d) /\ Vanishes(s)
  <2>1. k \in Int /\ k1 \in Int /\ k2 \in Int BY AlongInt
  <2>2. d \in Int /\ s \in Int OBVIOUS
  <2>3. Vanishes(s) /\ ~Vanishes(d) BY DEF Third, Same
  <2> HIDE DEF k, k1, k2, s, d
  <2> QED BY <2>1, <2>2, <2>3
<1>2. k1 = Cubic(x1, y1)
  <2>1. l * (x1 - x1) + y1 = y1 OBVIOUS
  <2> QED BY <2>1 DEF Along
<1>3. Vanishes(k2)
  <2> DEFINE e == l * (x2 - x1)
             v == e + y1
  <2>1. e \in Int /\ v \in Int /\ Same(e, y2 - y1) BY DEF IsChord
  <2>2. k2 = v * v - x2 * x2 * x2 - coeff_a * x2 - coeff_b
    BY DEF Along, Cubic
  <2> HIDE DEF e, k2
  <2>3. Vanishes(k2)
    <3> DEFINE f1 == Cubic(x2, y2)
               g2 == v + y2
               f2 == e - (y2 - y1)
    <3>1. 1 \in Int /\ f1 \in Int /\ g2 \in Int /\ f2 \in Int
      BY <2>1, <2>2, CubicInt, CubicCoeffs
    <3>2. Vanishes(f1) /\ Vanishes(f2)
      BY <2>1 DEF Same
    <3>3. Combine(1, f1, g2, f2)
           = k2
      BY <2>1, <2>2, CubicInt, CubicCoeffs DEF Combine, Cubic
    <3> HIDE DEF f1, g2, f2
    <3>4. Vanishes(Combine(1, f1, g2, f2))
      BY <3>1, <3>2, VanishesSum, Zenon
    <3> QED BY <3>3, <3>4
  <2> QED BY <2>3
<1>4. k * d = k1 * (x2 - x) + k2 * (x - x1) - s * (d * (x - x1) * (x - x2))
  <2> DEFINE v == l * (x - x1) + y1
             w == l * (x2 - x1) + y1
  <2>1. /\ k = v * v - x * x * x - coeff_a * x - coeff_b
        /\ k1 = y1 * y1 - x1 * x1 * x1 - coeff_a * x1 - coeff_b
        /\ k2 = w * w - x2 * x2 * x2 - coeff_a * x2 - coeff_b
    BY <1>2 DEF Along, Cubic
  <2> HIDE DEF k, k1, k2
  <2> QED BY <2>1, CubicCoeffs, ChordIdentity
<1>5. Vanishes(k1) BY <1>2
<1> HIDE DEF k, k1, k2, d, s
<1>6. d * (x - x1) * (x - x2) \in Int BY <1>1
<1>7. Vanishes(d * k)
  <2> DEFINE g1 == x2 - x
             g2 == x - x1
             g3 == - (d * (x - x1) * (x - x2))
  <2>1. g1 \in Int /\ k1 \in Int /\ g2 \in Int /\ k2 \in Int
        /\ g3 \in Int /\ s \in Int
    BY <1>1, <1>4, <1>6
  <2>2. Vanishes(k1) /\ Vanishes(k2) /\ Vanishes(s)
    BY <1>1, <1>3, <1>5
  <2>3. Combine3(g1, k1, g2, k2, g3, s)
         = d * k
    BY <1>1, <1>4, <1>6 DEF Combine3
  <2> HIDE DEF g1, g2, g3
  <2>4. Vanishes(Combine3(g1, k1, g2, k2, g3, s))
    BY <2>1, <2>2, VanishesSum3, Zenon
  <2> QED BY <2>3, <2>4
<1>8. Vanishes(k) BY <1>1, <1>7, NoZeroDivisors
<1> QED BY <1>8, AlongMirrored DEF k, Third

(* So does a tangent.                                                      *)
LEMMA TangentClosed ==
  ASSUME IsCubic, NEW l \in Int, NEW x1 \in Int, NEW y1 \in Int,
         NEW x \in Int, NEW y \in Int, Vanishes(Cubic(x1, y1)),
         IsTangent(l, x1, y1), Third(l, x1, y1, x1, x, y)
  PROVE  Vanishes(Cubic(x, y))
<1> DEFINE k  == Along(l, x1, y1, x)
           k1 == Cubic(x1, y1)
           t  == l * (2 * y1) - (3 * x1 * x1 + coeff_a)
           s  == x - (l * l - x1 - x1)
<1>1. /\ k \in Int /\ k1 \in Int /\ t \in Int /\ s \in Int
      /\ Vanishes(k1) /\ Vanishes(t) /\ Vanishes(s)
  <2>1. k \in Int /\ k1 \in Int BY AlongInt, CubicInt
  <2>2. t \in Int /\ s \in Int BY CubicCoeffs
  <2>3. Vanishes(s) BY DEF Third, Same
  <2>4. Vanishes(t) BY DEF IsTangent, Same
  <2>5. Vanishes(k1) OBVIOUS
  <2> HIDE DEF k, k1, s, t
  <2> QED BY <2>1, <2>2, <2>3, <2>4, <2>5
<1>2. k = k1 + t * (x - x1) - s * ((x - x1) * (x - x1))
  <2> DEFINE v == l * (x - x1) + y1
  <2>1. /\ k = v * v - x * x * x - coeff_a * x - coeff_b
        /\ k1 = y1 * y1 - x1 * x1 * x1 - coeff_a * x1 - coeff_b
    BY DEF Along, Cubic
  <2> HIDE DEF k, k1
  <2> QED BY <2>1, CubicCoeffs, TangentIdentity
<1> HIDE DEF k, k1, t, s
<1>3. Vanishes(k)
  <2> DEFINE g2 == x - x1
             g3 == - ((x - x1) * (x - x1))
  <2>1. 1 \in Int /\ k1 \in Int /\ g2 \in Int /\ t \in Int
        /\ g3 \in Int /\ s \in Int
    BY <1>1, <1>2
  <2>2. Vanishes(k1) /\ Vanishes(t) /\ Vanishes(s)
    BY <1>1
  <2>3. Combine3(1, k1, g2, t, g3, s)
         = k
    BY <1>1, <1>2 DEF Combine3
  <2> HIDE DEF g2, g3
  <2>4. Vanishes(Combine3(1, k1, g2, t, g3, s))
    BY <2>1, <2>2, VanishesSum3, Zenon
  <2> QED BY <2>3, <2>4
<1> QED BY <1>3, AlongMirrored DEF k, Third

(* Sums of points are points.                                              *)
LEMMA ChordSumClosed ==
  ASSUME IsCubic, NEW q \in CubicPoints, NEW s \in CubicPoints
  PROVE  /\ ChordSum(q, s) \in CubicPoints
         /\ q # Infinity /\ s # Infinity /\ s # Mirror(q) => ChordSum(q, s) # Infinity
<1>1. CASE q = Infinity \/ s = Infinity \/ s = Mirror(q)
  <2>1. Infinity \in CubicPoints BY DEF CubicPoints
  <2> QED BY <1>1, <2>1 DEF ChordSum
<1>2. CASE q # Infinity /\ s # Infinity /\ s # Mirror(q) /\ s # q
  <2>1. PICK l \in Fp, x \in Fp, y \in Fp :
           /\ ChordSum(q, s) = <<x, y>> /\ ~Same(s[1], q[1])
           /\ IsChord(l, q[1], q[2], s[1], s[2])
           /\ Third(l, q[1], q[2], s[1], x, y)
    BY <1>2, ChordHas
  <2>2. l \in Int /\ x \in Int /\ y \in Int BY ElementRed
  <2>3. /\ q[1] \in Int /\ q[2] \in Int /\ Vanishes(Cubic(q[1], q[2]))
        /\ s[1] \in Int /\ s[2] \in Int /\ Vanishes(Cubic(s[1], s[2]))
    BY <1>2, CubicHas
  <2>4. Vanishes(Cubic(x, y)) BY <2>1, <2>2, <2>3, ChordClosed
  <2> QED BY <2>1, <2>4, CubicIs
<1>3. CASE q # Infinity /\ s # Infinity /\ s # Mirror(q) /\ s = q
  <2>1. PICK l \in Fp, x \in Fp, y \in Fp :
           /\ ChordSum(q, q) = <<x, y>>
           /\ IsTangent(l, q[1], q[2])
           /\ Third(l, q[1], q[2], q[1], x, y)
    BY <1>3, TangentHas
  <2>2. l \in Int /\ x \in Int /\ y \in Int BY ElementRed
  <2>3. q[1] \in Int /\ q[2] \in Int /\ Vanishes(Cubic(q[1], q[2]))
    BY <1>3, CubicHas
  <2>4. Vanishes(Cubic(x, y)) BY <2>1, <2>2, <2>3, TangentClosed
  <2> QED BY <1>3, <2>1, <2>4, CubicIs
<1> QED BY <1>1, <1>2, <1>3

-----------------------------------------------------------------------------
(* The complete formulae, without reductions.                              *)

BzPart(xz, zz) == coeff_a * xz + 3 * coeff_b * zz

BxPart(xx, xz, zz) == coeff_a * (xx - coeff_a * zz) + 3 * coeff_b * xz

XxPart(xx, zz) == 3 * xx + coeff_a * zz

EndX(xx, yy, xy, xz, yz, zz) ==
  (yy - BzPart(xz, zz)) * xy - yz * BxPart(xx, xz, zz)

EndY(xx, yy, xz, zz) ==
  (yy + BzPart(xz, zz)) * (yy - BzPart(xz, zz)) + XxPart(xx, zz) * BxPart(xx, xz, zz)

EndZ(xx, yy, xy, xz, yz, zz) ==
  (yy + BzPart(xz, zz)) * yz + xy * XxPart(xx, zz)

(* Their parts are numbers.                                                *)
LEMMA PartsInt ==
  ASSUME IsCubic, NEW xx \in Int, NEW xz \in Int, NEW zz \in Int
  PROVE  BzPart(xz, zz) \in Int /\ BxPart(xx, xz, zz) \in Int /\ XxPart(xx, zz) \in Int
BY CubicCoeffs DEF BzPart, BxPart, XxPart

(* So are they.                                                            *)
LEMMA EndInt ==
  ASSUME IsCubic, NEW xx \in Int, NEW yy \in Int, NEW xy \in Int,
         NEW xz \in Int, NEW yz \in Int, NEW zz \in Int
  PROVE  /\ EndX(xx, yy, xy, xz, yz, zz) \in Int
         /\ EndY(xx, yy, xz, zz) \in Int
         /\ EndZ(xx, yy, xy, xz, yz, zz) \in Int
<1> DEFINE p == BzPart(xz, zz)
           r == BxPart(xx, xz, zz)
           t == XxPart(xx, zz)
<1>1. p \in Int /\ r \in Int /\ t \in Int BY PartsInt
<1>2. /\ EndX(xx, yy, xy, xz, yz, zz) = (yy - p) * xy - yz * r
      /\ EndY(xx, yy, xz, zz) = (yy + p) * (yy - p) + t * r
      /\ EndZ(xx, yy, xy, xz, yz, zz) = (yy + p) * yz + xy * t
  BY DEF EndX, EndY, EndZ
<1> HIDE DEF p, r, t
<1> QED BY <1>1, <1>2

(* The result of the common end of the additions, of coordinates with a    *)
(* common factor.                                                          *)
EndsWith(m, xx, yy, xy, xz, yz, zz, sxx, syy, sxy, sxz, syz, szz) ==
  \E u \in Fp, v \in Fp, w \in Fp :
    /\ CommonEnd(xx, yy, xy, xz, yz, zz) = <<u, v, w>>
    /\ Same(u, m * m * EndX(sxx, syy, sxy, sxz, syz, szz))
    /\ Same(v, m * m * EndY(sxx, syy, sxz, szz))
    /\ Same(w, m * m * EndZ(sxx, syy, sxy, sxz, syz, szz))

(* The common end of the additions computes them for products of           *)
(* coordinates that have a common factor.                                  *)
LEMMA EndIs ==
  ASSUME IsCubic, NEW m \in Int,
         NEW xx \in Int, NEW yy \in Int, NEW xy \in Int,
         NEW xz \in Int, NEW yz \in Int, NEW zz \in Int,
         NEW sxx \in Int, NEW syy \in Int, NEW sxy \in Int,
         NEW sxz \in Int, NEW syz \in Int, NEW szz \in Int,
         Same(xx, m * sxx), Same(yy, m * syy), Same(xy, m * sxy),
         Same(xz, m * sxz), Same(yz, m * syz), Same(zz, m * szz)
  PROVE  EndsWith(m, xx, yy, xy, xz, yz, zz, sxx, syy, sxy, sxz, syz, szz)
<1> DEFINE a    == coeff_a
           b    == coeff_b
           bz0  == a * xz + 3 * b * zz
           bz   == Red(bz0)
           az0  == a * zz
           az   == Red(az0)
           t0   == 3 * xx + az
           t    == Red(t0)
           bx0  == a * (xx - az) + 3 * b * xz
           bx   == Red(bx0)
           u0   == (yy - bz) * xy - yz * bx
           v0   == (yy + bz) * (yy - bz) + t * bx
           w0   == (yy + bz) * yz + xy * t
           sbz  == BzPart(sxz, szz)
           sbx  == BxPart(sxx, sxz, szz)
           st   == XxPart(sxx, szz)
<1>1. a \in Int /\ b \in Int BY CubicCoeffs
<1>2. CommonEnd(xx, yy, xy, xz, yz, zz) = <<Red(u0), Red(v0), Red(w0)>>
  BY DEF CommonEnd, Azz, ThreeB
<1>3. sbz \in Int /\ sbx \in Int /\ st \in Int BY PartsInt
<1>4. /\ sbz = a * sxz + 3 * b * szz /\ st = 3 * sxx + a * szz
      /\ sbx = a * (sxx - a * szz) + 3 * b * sxz
  BY DEF BzPart, BxPart, XxPart
<1>5. /\ EndX(sxx, syy, sxy, sxz, syz, szz) = (syy - sbz) * sxy - syz * sbx
      /\ EndY(sxx, syy, sxz, szz) = (syy + sbz) * (syy - sbz) + st * sbx
      /\ EndZ(sxx, syy, sxy, sxz, syz, szz) = (syy + sbz) * syz + sxy * st
  BY DEF EndX, EndY, EndZ
<1> HIDE DEF a, b, sbz, sbx, st
<1>6. bz0 \in Int /\ az0 \in Int BY <1>1
<1> HIDE DEF bz0, az0
<1>7. bz \in Int /\ Same(bz, bz0) /\ az \in Int /\ Same(az, az0) BY <1>6, RedSame
<1> HIDE DEF bz, az
<1>8. t0 \in Int /\ bx0 \in Int BY <1>1, <1>7
<1> HIDE DEF t0, bx0
<1>9. t \in Int /\ Same(t, t0) /\ bx \in Int /\ Same(bx, bx0) BY <1>8, RedSame
<1> HIDE DEF t, bx
<1>10. Same(bz, m * sbz)
  <2> DEFINE f1 == bz - bz0
             f2 == xz - m * sxz
             g3 == 3 * b
             f3 == zz - m * szz
  <2>1. 1 \in Int /\ f1 \in Int /\ a \in Int /\ f2 \in Int
        /\ g3 \in Int /\ f3 \in Int
    BY <1>1, <1>3, <1>6, <1>7
  <2>2. Vanishes(f1) /\ Vanishes(f2) /\ Vanishes(f3)
    BY <1>7 DEF Same
  <2>3. Combine3(1, f1, a, f2, g3, f3)
         = bz - m * sbz
    BY <1>1, <1>3, <1>4, <1>6, <1>7 DEF Combine3, bz0
  <2> HIDE DEF f1, f2, g3, f3
  <2>4. Vanishes(Combine3(1, f1, a, f2, g3, f3))
    BY <2>1, <2>2, VanishesSum3, Zenon
  <2> QED BY <2>3, <2>4 DEF Same
<1>11. Same(az, m * (a * szz))
  <2> DEFINE f1 == az - az0
             f2 == zz - m * szz
  <2>1. 1 \in Int /\ f1 \in Int /\ a \in Int /\ f2 \in Int
    BY <1>1, <1>6, <1>7
  <2>2. Vanishes(f1) /\ Vanishes(f2)
    BY <1>7 DEF Same
  <2>3. Combine(1, f1, a, f2)
         = az - m * (a * szz)
    BY <1>1, <1>6, <1>7 DEF Combine, az0
  <2> HIDE DEF f1, f2
  <2>4. Vanishes(Combine(1, f1, a, f2))
    BY <2>1, <2>2, VanishesSum, Zenon
  <2> QED BY <2>3, <2>4 DEF Same
<1>12. Same(t, m * st)
  <2> DEFINE f1 == t - t0
             f2 == xx - m * sxx
             f3 == az - m * (a * szz)
  <2>1. 1 \in Int /\ f1 \in Int /\ 3 \in Int /\ f2 \in Int
        /\ f3 \in Int
    BY <1>1, <1>3, <1>7, <1>8, <1>9
  <2>2. Vanishes(f1) /\ Vanishes(f2) /\ Vanishes(f3)
    BY <1>9, <1>11 DEF Same
  <2>3. Combine3(1, f1, 3, f2, 1, f3)
         = t - m * st
    BY <1>1, <1>3, <1>4, <1>7, <1>8, <1>9 DEF Combine3, t0
  <2> HIDE DEF f1, f2, f3
  <2>4. Vanishes(Combine3(1, f1, 3, f2, 1, f3))
    BY <2>1, <2>2, VanishesSum3, Zenon
  <2> QED BY <2>3, <2>4 DEF Same
<1>13. Same(bx, m * sbx)
  <2> DEFINE f1 == bx - bx0
             f2 == xx - m * sxx
             g3 == - a
             f3 == az - m * (a * szz)
             g4 == 3 * b
             f4 == xz - m * sxz
  <2>1. 1 \in Int /\ f1 \in Int /\ a \in Int /\ f2 \in Int
        /\ g3 \in Int /\ f3 \in Int /\ g4 \in Int /\ f4 \in Int
    BY <1>1, <1>3, <1>7, <1>8, <1>9
  <2>2. Vanishes(f1) /\ Vanishes(f2) /\ Vanishes(f3) /\ Vanishes(f4)
    BY <1>9, <1>11 DEF Same
  <2>3. Combine4(1, f1, a, f2, g3, f3, g4, f4)
         = bx - m * sbx
    BY <1>1, <1>3, <1>4, <1>7, <1>8, <1>9 DEF Combine4, bx0
  <2> HIDE DEF f1, f2, g3, f3, g4, f4
  <2>4. Vanishes(Combine4(1, f1, a, f2, g3, f3, g4, f4))
    BY <2>1, <2>2, VanishesSum4, Zenon
  <2> QED BY <2>3, <2>4 DEF Same
<1>14. u0 \in Int /\ v0 \in Int /\ w0 \in Int BY <1>7, <1>9
<1> DEFINE su == (syy - sbz) * sxy - syz * sbx
           sv == (syy + sbz) * (syy - sbz) + st * sbx
           sw == (syy + sbz) * syz + sxy * st
<1>15. su \in Int /\ sv \in Int /\ sw \in Int BY <1>3
<1>16. Same(yy - bz, m * (syy - sbz)) /\ Same(yy + bz, m * (syy + sbz))
<2>1. Same(yy - bz, m * (syy - sbz))
  <3> DEFINE f1 == yy - m * syy
             f2 == bz - m * sbz
  <3>1. 1 \in Int /\ f1 \in Int /\ -1 \in Int /\ f2 \in Int
    BY <1>3, <1>7
  <3>2. Vanishes(f1) /\ Vanishes(f2)
    BY <1>10 DEF Same
  <3>3. Combine(1, f1, -1, f2)
         = (yy - bz) - (m * (syy - sbz))
    BY <1>3, <1>7 DEF Combine
  <3> HIDE DEF f1, f2
  <3>4. Vanishes(Combine(1, f1, -1, f2))
    BY <3>1, <3>2, VanishesSum, Zenon
  <3> QED BY <3>3, <3>4 DEF Same
<2>2. Same(yy + bz, m * (syy + sbz))
  <3> DEFINE f1 == yy - m * syy
             f2 == bz - m * sbz
  <3>1. 1 \in Int /\ f1 \in Int /\ f2 \in Int
    BY <1>3, <1>7
  <3>2. Vanishes(f1) /\ Vanishes(f2)
    BY <1>10 DEF Same
  <3>3. Combine(1, f1, 1, f2)
         = (yy + bz) - (m * (syy + sbz))
    BY <1>3, <1>7 DEF Combine
  <3> HIDE DEF f1, f2
  <3>4. Vanishes(Combine(1, f1, 1, f2))
    BY <3>1, <3>2, VanishesSum, Zenon
  <3> QED BY <3>3, <3>4 DEF Same
  <2> QED BY <2>1, <2>2
<1> DEFINE ym == yy - bz
           yp == yy + bz
           sm == syy - sbz
           sp == syy + sbz
<1>17. ym \in Int /\ yp \in Int /\ sm \in Int /\ sp \in Int
       /\ Same(ym, m * sm) /\ Same(yp, m * sp)
  BY <1>3, <1>7, <1>16
<1>18. /\ u0 = ym * xy - yz * bx /\ v0 = yp * ym + t * bx /\ w0 = yp * yz + xy * t
       /\ su = sm * sxy - syz * sbx /\ sv = sp * sm + st * sbx
       /\ sw = sp * syz + sxy * st
  OBVIOUS
<1> HIDE DEF u0, v0, w0, su, sv, sw, ym, yp, sm, sp
<1>19. Same(u0, m * m * su)
  <2> DEFINE f1 == ym - m * sm
             g2 == m * sm
             f2 == xy - m * sxy
             g3 == - bx
             f3 == yz - m * syz
             g4 == - (m * syz)
             f4 == bx - m * sbx
  <2>1. xy \in Int /\ f1 \in Int /\ g2 \in Int /\ f2 \in Int
        /\ g3 \in Int /\ f3 \in Int /\ g4 \in Int /\ f4 \in Int
    BY <1>3, <1>9, <1>17
  <2>2. Vanishes(f1) /\ Vanishes(f2) /\ Vanishes(f3) /\ Vanishes(f4)
    BY <1>13, <1>17 DEF Same
  <2>3. Combine4(xy, f1, g2, f2, g3, f3, g4, f4)
         = u0 - m * m * su
    BY <1>3, <1>9, <1>17, <1>18 DEF Combine4
  <2> HIDE DEF f1, g2, f2, g3, f3, g4, f4
  <2>4. Vanishes(Combine4(xy, f1, g2, f2, g3, f3, g4, f4))
    BY <2>1, <2>2, VanishesSum4, Zenon
  <2> QED BY <2>3, <2>4 DEF Same
<1>20. Same(v0, m * m * sv)
  <2> DEFINE f1 == yp - m * sp
             g2 == m * sp
             f2 == ym - m * sm
             f3 == t - m * st
             g4 == m * st
             f4 == bx - m * sbx
  <2>1. ym \in Int /\ f1 \in Int /\ g2 \in Int /\ f2 \in Int
        /\ bx \in Int /\ f3 \in Int /\ g4 \in Int /\ f4 \in Int
    BY <1>3, <1>9, <1>17
  <2>2. Vanishes(f1) /\ Vanishes(f2) /\ Vanishes(f3) /\ Vanishes(f4)
    BY <1>12, <1>13, <1>17 DEF Same
  <2>3. Combine4(ym, f1, g2, f2, bx, f3, g4, f4)
         = v0 - m * m * sv
    BY <1>3, <1>9, <1>17, <1>18 DEF Combine4
  <2> HIDE DEF f1, g2, f2, f3, g4, f4
  <2>4. Vanishes(Combine4(ym, f1, g2, f2, bx, f3, g4, f4))
    BY <2>1, <2>2, VanishesSum4, Zenon
  <2> QED BY <2>3, <2>4 DEF Same
<1>21. Same(w0, m * m * sw)
  <2> DEFINE f1 == yp - m * sp
             g2 == m * sp
             f2 == yz - m * syz
             f3 == xy - m * sxy
             g4 == m * sxy
             f4 == t - m * st
  <2>1. yz \in Int /\ f1 \in Int /\ g2 \in Int /\ f2 \in Int
        /\ t \in Int /\ f3 \in Int /\ g4 \in Int /\ f4 \in Int
    BY <1>3, <1>9, <1>17
  <2>2. Vanishes(f1) /\ Vanishes(f2) /\ Vanishes(f3) /\ Vanishes(f4)
    BY <1>12, <1>17 DEF Same
  <2>3. Combine4(yz, f1, g2, f2, t, f3, g4, f4)
         = w0 - m * m * sw
    BY <1>3, <1>9, <1>17, <1>18 DEF Combine4
  <2> HIDE DEF f1, g2, f2, f3, g4, f4
  <2>4. Vanishes(Combine4(yz, f1, g2, f2, t, f3, g4, f4))
    BY <2>1, <2>2, VanishesSum4, Zenon
  <2> QED BY <2>3, <2>4 DEF Same
<1>22. ASSUME NEW x \in Int, NEW y \in Int, Same(x, y)
       PROVE  Red(x) \in Fp /\ Same(Red(x), y)
  BY <1>22, RedSame, SameChain
<1>23. m * m * su \in Int /\ m * m * sv \in Int /\ m * m * sw \in Int BY <1>15
<1>24. /\ Red(u0) \in Fp /\ Same(Red(u0), m * m * su)
       /\ Red(v0) \in Fp /\ Same(Red(v0), m * m * sv)
       /\ Red(w0) \in Fp /\ Same(Red(w0), m * m * sw)
  BY <1>14, <1>19, <1>20, <1>21, <1>22, <1>23
<1>25. /\ su = EndX(sxx, syy, sxy, sxz, syz, szz)
       /\ sv = EndY(sxx, syy, sxz, szz)
       /\ sw = EndZ(sxx, syy, sxy, sxz, syz, szz)
  BY <1>5 DEF su, sv, sw
<1> QED BY <1>2, <1>24, <1>25 DEF EndsWith

-----------------------------------------------------------------------------
(* Coordinates that stand for a point, with a common factor.               *)

Px(q) == ProjAllocated(q)[1]

Py(q) == ProjAllocated(q)[2]

Pz(q) == ProjAllocated(q)[3]

Stands(p, c, q) ==
  /\ Same(p[1], c * Px(q)) /\ Same(p[2], c * Py(q)) /\ Same(p[3], c * Pz(q))

(* What they are a multiple of.                                            *)
LEMMA PlainHas ==
  ASSUME NEW q \in CubicPoints
  PROVE  /\ Px(q) \in Int /\ Py(q) \in Int /\ Pz(q) \in Int
         /\ q = Infinity => Px(q) = 0 /\ Py(q) = 1 /\ Pz(q) = 0
         /\ q # Infinity => Px(q) = q[1] /\ Py(q) = q[2] /\ Pz(q) = 1
<1>1. CASE q = Infinity BY <1>1 DEF Px, Py, Pz, ProjAllocated
<1>2. CASE q # Infinity
  <2>1. q[1] \in Int /\ q[2] \in Int BY <1>2, CubicHas
  <2> QED BY <1>2, <2>1 DEF Px, Py, Pz, ProjAllocated
<1> QED BY <1>1, <1>2

(* Factors between one and the modulus are those that do not vanish.       *)
LEMMA FactorIs ==
  ASSUME NEW c \in Int
  PROVE  /\ ~Vanishes(c) <=> Red(c) \in 1 .. P - 1
         /\ c \in 1 .. P - 1 => c \in Fp /\ ~Vanishes(c) /\ Red(c) = c
<1>1. Red(c) \in Fp BY RedSame
<1>2. ~Vanishes(c) <=> Red(c) \in 1 .. P - 1 BY <1>1, Modulus DEF Vanishes, Fp
<1>3. ASSUME c \in 1 .. P - 1 PROVE c \in Fp /\ ~Vanishes(c) /\ Red(c) = c
  <2>1. c \in Fp BY <1>3, Modulus DEF Fp
  <2> QED BY <1>3, <2>1, ElementRed, ElementZero
<1> QED BY <1>2, <1>3

(* The coordinates of a point are the multiples of it.                     *)
LEMMA RepresentationHas ==
  ASSUME NEW q \in CubicPoints, NEW p \in Representations(q)
  PROVE  /\ p \in Fp \X Fp \X Fp
         /\ p[1] \in Int /\ p[2] \in Int /\ p[3] \in Int
         /\ \E c \in Int : ~Vanishes(c) /\ Stands(p, c, q)
<1>1. CASE q = Infinity
  <2>1. PICK c \in 1 .. P - 1 : p = <<0, c, 0>> BY <1>1 DEF Representations
  <2>2. c \in Int /\ c \in Fp /\ ~Vanishes(c) BY FactorIs
  <2>3. 0 \in Fp /\ 0 \in Int BY Modulus DEF Fp
  <2>4. c * 0 = 0 /\ c * 1 = c /\ 0 - 0 = 0 /\ c - c = 0 BY <2>2
  <2>5. Vanishes(0) BY <2>3, ElementZero
  <2>6. Same(0, 0) /\ Same(c, c) BY <2>4, <2>5 DEF Same
  <2>7. Px(q) = 0 /\ Py(q) = 1 /\ Pz(q) = 0 BY <1>1, PlainHas
  <2>8. p[1] = 0 /\ p[2] = c /\ p[3] = 0 BY <2>1
  <2>9. Stands(p, c, q) BY <2>4, <2>6, <2>7, <2>8 DEF Stands
  <2> QED BY <2>1, <2>2, <2>3, <2>8, <2>9
<1>2. CASE q # Infinity
  <2> DEFINE x == q[1]
             y == q[2]
  <2>1. PICK c \in 1 .. P - 1 : p = <<Red(c * x), Red(c * y), c>>
    BY <1>2 DEF Representations
  <2>2. c \in Int /\ c \in Fp /\ ~Vanishes(c) BY FactorIs
  <2>3. x \in Int /\ y \in Int BY <1>2, CubicHas
  <2>4. Px(q) = x /\ Py(q) = y /\ Pz(q) = 1 BY <1>2, PlainHas
  <2> HIDE DEF x, y
  <2>5. c * x \in Int /\ c * y \in Int /\ c * 1 = c /\ c - c = 0 BY <2>2, <2>3
  <2>6. Red(c * x) \in Fp /\ Red(c * x) \in Int /\ Same(Red(c * x), c * x)
        /\ Red(c * y) \in Fp /\ Red(c * y) \in Int /\ Same(Red(c * y), c * y)
    BY <2>5, RedSame
  <2>7. 0 \in Fp BY Modulus DEF Fp
  <2>8. Same(c, c * 1) BY <2>5, <2>7, ElementZero DEF Same
  <2>9. p[1] = Red(c * x) /\ p[2] = Red(c * y) /\ p[3] = c BY <2>1
  <2>10. Stands(p, c, q) BY <2>4, <2>6, <2>8, <2>9 DEF Stands
  <2> QED BY <2>1, <2>2, <2>6, <2>9, <2>10
<1> QED BY <1>1, <1>2

(* And only they.                                                          *)
LEMMA RepresentationIs ==
  ASSUME NEW q \in CubicPoints, NEW u \in Fp, NEW v \in Fp, NEW w \in Fp,
         NEW c \in Int, ~Vanishes(c), Stands(<<u, v, w>>, c, q)
  PROVE  <<u, v, w>> \in Representations(q)
<1> DEFINE k == Red(c)
<1>1. k \in 1 .. P - 1 /\ k \in Int /\ k \in Fp /\ Same(k, c)
  BY FactorIs, RedSame
<1> HIDE DEF k
<1>2. u \in Int /\ v \in Int /\ w \in Int BY ElementRed
<1>3. Same(u, c * Px(q)) /\ Same(v, c * Py(q)) /\ Same(w, c * Pz(q))
  BY DEF Stands
<1>4. ASSUME NEW r \in Fp, NEW x \in Int, Same(r, c * x)
      PROVE  r = Red(k * x)
  <2>1. r \in Int /\ k * x \in Int /\ c * x \in Int BY <1>1, ElementRed
  <2>2. Same(r, k * x)
    <3> DEFINE f1 == r - c * x
               g2 == - x
               f2 == k - c
    <3>1. 1 \in Int /\ f1 \in Int /\ g2 \in Int /\ f2 \in Int
      BY <1>1, <2>1
    <3>2. Vanishes(f1) /\ Vanishes(f2)
      BY <1>1, <1>4 DEF Same
    <3>3. Combine(1, f1, g2, f2)
           = r - k * x
      BY <1>1, <2>1 DEF Combine
    <3> HIDE DEF f1, g2, f2
    <3>4. Vanishes(Combine(1, f1, g2, f2))
      BY <3>1, <3>2, VanishesSum, Zenon
    <3> QED BY <3>3, <3>4 DEF Same
  <2> DEFINE e == k * x
  <2>3. e \in Int /\ Same(r, e) BY <2>1, <2>2
  <2> HIDE DEF e
  <2>4. Red(r) = Red(e) BY <2>1, <2>3, RedEqual DEF Same
  <2> QED BY <2>4, ElementRed DEF e
<1>5. CASE q = Infinity
  <2>1. Px(q) = 0 /\ Py(q) = 1 /\ Pz(q) = 0 BY <1>5, PlainHas
  <2>2. u = Red(k * 0) /\ v = Red(k * 1) /\ w = Red(k * 0)
    BY <1>3, <1>4, <2>1
  <2>3. k * 0 = 0 /\ k * 1 = k /\ 0 \in Fp BY <1>1, Modulus DEF Fp
  <2>4. u = 0 /\ v = k /\ w = 0 BY <1>1, <2>2, <2>3, ElementRed
  <2> QED BY <1>1, <1>5, <2>4 DEF Representations
<1>6. CASE q # Infinity
  <2>1. /\ Px(q) = q[1] /\ Py(q) = q[2] /\ Pz(q) = 1
        /\ q[1] \in Int /\ q[2] \in Int
    BY <1>6, PlainHas, CubicHas
  <2>2. u = Red(k * q[1]) /\ v = Red(k * q[2]) /\ w = Red(k * 1)
    BY <1>3, <1>4, <2>1
  <2>3. k * 1 = k BY <1>1
  <2>4. w = k BY <1>1, <2>2, <2>3, ElementRed
  <2> QED BY <1>1, <1>6, <2>2, <2>4 DEF Representations
<1> QED BY <1>5, <1>6

(* The products of pairs of coordinates: with two multiplications already  *)
(* done, one more gives the sum of the other two.                          *)
Cross(u, v, r, t) == Red((u + v) * (r + t) - (Red(u * r) + Red(v * t)))

(* u, v and r, t stand for su, sv and sr, st with the factors c and d: so  *)
(* do their products.                                                      *)
Crosses(c, u, v, su, sv, d, r, t, sr, st) ==
  /\ Red(u * r) \in Int /\ Same(Red(u * r), c * d * (su * sr))
  /\ Red(v * t) \in Int /\ Same(Red(v * t), c * d * (sv * st))
  /\ Cross(u, v, r, t) \in Int
  /\ Same(Cross(u, v, r, t), c * d * (su * st + sv * sr))

(* They keep the factors.                                                  *)
LEMMA CrossIs ==
  ASSUME NEW c \in Int, NEW d \in Int,
         NEW u \in Int, NEW v \in Int, NEW su \in Int, NEW sv \in Int,
         NEW r \in Int, NEW t \in Int, NEW sr \in Int, NEW st \in Int,
         Same(u, c * su), Same(v, c * sv), Same(r, d * sr), Same(t, d * st)
  PROVE  Crosses(c, u, v, su, sv, d, r, t, sr, st)
<1> DEFINE a  == u * r
           b  == v * t
           ur == Red(a)
           vt == Red(b)
           y  == (u + v) * (r + t) - (ur + vt)
           x  == Red(y)
           sa == su * sr
           sb == sv * st
           sy == su * st + sv * sr
<1>1. a \in Int /\ b \in Int /\ sa \in Int /\ sb \in Int /\ sy \in Int OBVIOUS
<1>2. Same(a, c * d * sa)
  <2> DEFINE f1 == u - c * su
             g2 == c * su
             f2 == r - d * sr
  <2>1. r \in Int /\ f1 \in Int /\ g2 \in Int /\ f2 \in Int
    OBVIOUS
  <2>2. Vanishes(f1) /\ Vanishes(f2)
    BY DEF Same
  <2>3. Combine(r, f1, g2, f2)
         = a - c * d * sa
    BY DEF Combine
  <2> HIDE DEF f1, g2, f2
  <2>4. Vanishes(Combine(r, f1, g2, f2))
    BY <2>1, <2>2, VanishesSum, Zenon
  <2> QED BY <2>3, <2>4 DEF Same
<1>3. Same(b, c * d * sb)
  <2> DEFINE f1 == v - c * sv
             g2 == c * sv
             f2 == t - d * st
  <2>1. t \in Int /\ f1 \in Int /\ g2 \in Int /\ f2 \in Int
    OBVIOUS
  <2>2. Vanishes(f1) /\ Vanishes(f2)
    BY DEF Same
  <2>3. Combine(t, f1, g2, f2)
         = b - c * d * sb
    BY DEF Combine
  <2> HIDE DEF f1, g2, f2
  <2>4. Vanishes(Combine(t, f1, g2, f2))
    BY <2>1, <2>2, VanishesSum, Zenon
  <2> QED BY <2>3, <2>4 DEF Same
<1> HIDE DEF a, b
<1>4. ur \in Int /\ vt \in Int /\ Same(ur, a) /\ Same(vt, b) BY <1>1, RedSame
<1> HIDE DEF ur, vt
<1>5. y \in Int BY <1>4
<1> HIDE DEF y
<1>6. x \in Int /\ Same(x, y) BY <1>5, RedSame
<1> HIDE DEF x
<1>7. c * d * sa \in Int /\ c * d * sb \in Int /\ c * d * sy \in Int BY <1>1
<1> DEFINE z == u * t + v * r
<1>8. Same(z, c * d * sy)
  <2> DEFINE f1 == u - c * su
             g2 == c * su
             f2 == t - d * st
             f3 == v - c * sv
             g4 == c * sv
             f4 == r - d * sr
  <2>1. t \in Int /\ f1 \in Int /\ g2 \in Int /\ f2 \in Int
        /\ r \in Int /\ f3 \in Int /\ g4 \in Int /\ f4 \in Int
    OBVIOUS
  <2>2. Vanishes(f1) /\ Vanishes(f2) /\ Vanishes(f3) /\ Vanishes(f4)
    BY DEF Same
  <2>3. Combine4(t, f1, g2, f2, r, f3, g4, f4)
         = z - c * d * sy
    BY DEF Combine4
  <2> HIDE DEF f1, g2, f2, f3, g4, f4
  <2>4. Vanishes(Combine4(t, f1, g2, f2, r, f3, g4, f4))
    BY <2>1, <2>2, VanishesSum4, Zenon
  <2> QED BY <2>3, <2>4 DEF Same
<1>9. Same(x, z)
  <2> DEFINE f1 == x - y
             f2 == ur - a
             f3 == vt - b
  <2>1. 1 \in Int /\ f1 \in Int /\ -1 \in Int /\ f2 \in Int
        /\ f3 \in Int
    BY <1>1, <1>4, <1>5, <1>6
  <2>2. Vanishes(f1) /\ Vanishes(f2) /\ Vanishes(f3)
    BY <1>4, <1>6 DEF Same
  <2>3. Combine3(1, f1, -1, f2, -1, f3)
         = x - z
    BY <1>1, <1>4, <1>5, <1>6 DEF Combine3, y, a, b
  <2> HIDE DEF f1, f2, f3
  <2>4. Vanishes(Combine3(1, f1, -1, f2, -1, f3))
    BY <2>1, <2>2, VanishesSum3, Zenon
  <2> QED BY <2>3, <2>4 DEF Same
<1>10. z \in Int OBVIOUS
<1> HIDE DEF z, sa, sb, sy
<1>11. Same(ur, c * d * sa) /\ Same(vt, c * d * sb) /\ Same(x, c * d * sy)
  BY <1>1, <1>2, <1>3, <1>4, <1>6, <1>7, <1>8, <1>9, <1>10, SameChain
<1>12. ur = Red(u * r) /\ vt = Red(v * t) /\ x = Cross(u, v, r, t)
  BY DEF Cross, a, b, ur, vt, y, x
<1> QED BY <1>4, <1>6, <1>11, <1>12 DEF Crosses, sa, sb, sy

-----------------------------------------------------------------------------
(* The complete formulae are the law: for two points that are neither      *)
(* equal nor opposite ...                                                  *)

(* The formulae for (x1, y1, 1) and (x2, y2, 1).                           *)
SumU(x1, y1, x2, y2) ==
  EndX(x1 * x2, y1 * y2, x1 * y2 + y1 * x2, x1 + x2, y1 + y2, 1)

SumV(x1, y1, x2, y2) == EndY(x1 * x2, y1 * y2, x1 + x2, 1)

SumW(x1, y1, x2, y2) ==
  EndZ(x1 * x2, y1 * y2, x1 * y2 + y1 * x2, x1 + x2, y1 + y2, 1)

(* They are numbers.                                                       *)
LEMMA SumUVWInt ==
  ASSUME IsCubic, NEW x1 \in Int, NEW y1 \in Int, NEW x2 \in Int, NEW y2 \in Int
  PROVE  /\ SumU(x1, y1, x2, y2) \in Int /\ SumV(x1, y1, x2, y2) \in Int
         /\ SumW(x1, y1, x2, y2) \in Int
<1> DEFINE p == x1 * x2
           r == y1 * y2
           s == x1 * y2 + y1 * x2
           t == x1 + x2
           v == y1 + y2
<1>1. p \in Int /\ r \in Int /\ s \in Int /\ t \in Int /\ v \in Int /\ 1 \in Int
  OBVIOUS
<1>2. /\ SumU(x1, y1, x2, y2) = EndX(p, r, s, t, v, 1)
      /\ SumV(x1, y1, x2, y2) = EndY(p, r, t, 1)
      /\ SumW(x1, y1, x2, y2) = EndZ(p, r, s, t, v, 1)
  BY DEF SumU, SumV, SumW
<1> HIDE DEF p, r, s, t, v
<1>3. EndX(p, r, s, t, v, 1) \in Int /\ EndY(p, r, t, 1) \in Int
      /\ EndZ(p, r, s, t, v, 1) \in Int
  BY <1>1, EndInt, Zenon
<1> QED BY <1>2, <1>3

(* The formulae for (x1, y1, 1) and (x2, y2, 1) on the curve of a and b.   *)
PlainU(a, b, x1, y1, x2, y2) ==
  (y1 * y2 - (a * (x1 + x2) + 3 * b)) * (x1 * y2 + y1 * x2)
    - (y1 + y2) * (a * (x1 * x2 - a) + 3 * b * (x1 + x2))

PlainV(a, b, x1, y1, x2, y2) ==
  (y1 * y2 + (a * (x1 + x2) + 3 * b)) * (y1 * y2 - (a * (x1 + x2) + 3 * b))
    + (3 * (x1 * x2) + a) * (a * (x1 * x2 - a) + 3 * b * (x1 + x2))

PlainW(a, b, x1, y1, x2, y2) ==
  (y1 * y2 + (a * (x1 + x2) + 3 * b)) * (y1 + y2)
    + (x1 * y2 + y1 * x2) * (3 * (x1 * x2) + a)

PlainCubic(a, b, x, y) == y * y - x * x * x - a * x - b

(* Their third coordinate, for points of the curve, is the ordinate of the *)
(* difference of the points up to a factor: on curves without points of    *)
(* order two it is not zero.                                               *)
LEMMA ChordW ==
  ASSUME IsCubic, NEW x1 \in Int, NEW y1 \in Int, NEW x2 \in Int, NEW y2 \in Int,
         Vanishes(Cubic(x1, y1)), Vanishes(Cubic(x2, y2))
  PROVE  LET d == x2 - x1
             e == - y2 - y1
             u == e * e - (x1 + x2) * (d * d)
         IN Same(e * (x1 * (d * d) - u) - y1 * (d * d * d), SumW(x1, y1, x2, y2))
<1> DEFINE d == x2 - x1
           e == - y2 - y1
           u == e * e - (x1 + x2) * (d * d)
           v == e * (x1 * (d * d) - u) - y1 * (d * d * d)
           w == SumW(x1, y1, x2, y2)
<1>1. Same(v, w)
  <2> DEFINE g1 == y1 + 2 * y2
             f1 == Cubic(x1, y1)
             g2 == 2 * y1 + y2
             f2 == Cubic(x2, y2)
  <2>1. g1 \in Int /\ f1 \in Int /\ g2 \in Int /\ f2 \in Int
    BY CubicInt, CubicCoeffs
  <2>2. Vanishes(f1) /\ Vanishes(f2)
    OBVIOUS
  <2>3. Combine(g1, f1, g2, f2)
         = v - w
    BY CubicInt, CubicCoeffs DEF Combine, Cubic, SumW, EndZ, BzPart, XxPart
  <2> HIDE DEF g1, f1, g2, f2
  <2>4. Vanishes(Combine(g1, f1, g2, f2))
    BY <2>1, <2>2, VanishesSum, Zenon
  <2> QED BY <2>3, <2>4 DEF Same
<1> QED BY <1>1

(* The other two lie on the chord: the identities of which both are        *)
(* consequences, for the two equations of the curve.                       *)
LEMMA ChordUIdentity ==
  ASSUME NEW a \in Int, NEW b \in Int,
         NEW x1 \in Int, NEW y1 \in Int, NEW x2 \in Int, NEW y2 \in Int,
         Vanishes(PlainCubic(a, b, x1, y1)), Vanishes(PlainCubic(a, b, x2, y2))
  PROVE  Vanishes(
           (x2 - x1) * (x2 - x1) * PlainU(a, b, x1, y1, x2, y2)
             - ((y2 - y1) * (y2 - y1) - (x1 + x2) * ((x2 - x1) * (x2 - x1)))
                 * PlainW(a, b, x1, y1, x2, y2))
<1> DEFINE g ==
             - 3 * x1 * x2 * x2 * y1 + 3 * x1 * x2 * x2 * y2
             - 3 * x1 * x1 * x2 * y2 + 2 * x2 * x2 * x2 * y2 - a * x1 * y1
             - a * x1 * y2 - 2 * a * x2 * y1 + 3 * a * x2 * y2
             + y1 * y2 * y2 - y1 * y1 * y2 + y2 * y2 * y2 - 3 * b * y1
             + 2 * b * y2
           h ==
             - 3 * x1 * x2 * x2 * y1 + 3 * x1 * x1 * x2 * y1
             - 3 * x1 * x1 * x2 * y2 + 3 * x1 * x1 * x1 * y1
             + x1 * x1 * x1 * y2 + 4 * a * x1 * y1 - a * x1 * y2
             - a * x2 * y1 - a * x2 * y2 - y1 * y2 * y2 + 3 * b * y1
             - 2 * b * y2
<1>1. g \in Int /\ h \in Int OBVIOUS
<1>2. (x2 - x1) * (x2 - x1) * PlainU(a, b, x1, y1, x2, y2)
             - ((y2 - y1) * (y2 - y1) - (x1 + x2) * ((x2 - x1) * (x2 - x1)))
                 * PlainW(a, b, x1, y1, x2, y2)
        = g * PlainCubic(a, b, x1, y1) + h * PlainCubic(a, b, x2, y2)
  BY DEF PlainU, PlainW, PlainCubic
<1> DEFINE c == PlainCubic(a, b, x1, y1)
           d == PlainCubic(a, b, x2, y2)
<1>3. c \in Int /\ d \in Int /\ Vanishes(c) /\ Vanishes(d) BY DEF PlainCubic
<1> HIDE DEF g, h, c, d
<1>4. Vanishes(Combine(g, c, h, d)) BY <1>1, <1>3, VanishesSum
<1>5. Vanishes(g * c + h * d) BY <1>4 DEF Combine
<1> QED BY <1>2, <1>5, Zenon DEF c, d

(* And for the second.                                                     *)
LEMMA ChordVIdentity ==
  ASSUME NEW a \in Int, NEW b \in Int,
         NEW x1 \in Int, NEW y1 \in Int, NEW x2 \in Int, NEW y2 \in Int,
         Vanishes(PlainCubic(a, b, x1, y1)), Vanishes(PlainCubic(a, b, x2, y2))
  PROVE  Vanishes(
           (x2 - x1) * PlainV(a, b, x1, y1, x2, y2)
             + y1 * (x2 - x1) * PlainW(a, b, x1, y1, x2, y2)
             + (y2 - y1) * (PlainU(a, b, x1, y1, x2, y2)
                              - x1 * PlainW(a, b, x1, y1, x2, y2)))
<1> DEFINE g ==
             3 * x1 * x2 * x2 * x2 + 3 * a * x1 * x2 + 3 * a * x2 * x2
             - 3 * x1 * y2 * y2 + 3 * x2 * y2 * y2 - a * a + 3 * b * x1
             + 9 * b * x2
           h ==
             - 3 * x1 * x1 * x1 * x1 - 6 * a * x1 * x1 + a * a - 12 * b * x1
<1>1. g \in Int /\ h \in Int OBVIOUS
<1>2. (x2 - x1) * PlainV(a, b, x1, y1, x2, y2)
             + y1 * (x2 - x1) * PlainW(a, b, x1, y1, x2, y2)
             + (y2 - y1) * (PlainU(a, b, x1, y1, x2, y2)
                              - x1 * PlainW(a, b, x1, y1, x2, y2))
        = g * PlainCubic(a, b, x1, y1) + h * PlainCubic(a, b, x2, y2)
  BY DEF PlainU, PlainV, PlainW, PlainCubic
<1> DEFINE c == PlainCubic(a, b, x1, y1)
           d == PlainCubic(a, b, x2, y2)
<1>3. c \in Int /\ d \in Int /\ Vanishes(c) /\ Vanishes(d) BY DEF PlainCubic
<1> HIDE DEF g, h, c, d
<1>4. Vanishes(Combine(g, c, h, d)) BY <1>1, <1>3, VanishesSum
<1>5. Vanishes(g * c + h * d) BY <1>4 DEF Combine
<1> QED BY <1>2, <1>5, Zenon DEF c, d

(* The coordinates and the equation in these terms.                        *)
LEMMA PlainIs ==
  ASSUME IsCubic, NEW x1 \in Int, NEW y1 \in Int, NEW x2 \in Int, NEW y2 \in Int
  PROVE  /\ SumU(x1, y1, x2, y2) = PlainU(coeff_a, coeff_b, x1, y1, x2, y2)
         /\ SumV(x1, y1, x2, y2) = PlainV(coeff_a, coeff_b, x1, y1, x2, y2)
         /\ SumW(x1, y1, x2, y2) = PlainW(coeff_a, coeff_b, x1, y1, x2, y2)
         /\ Cubic(x1, y1) = PlainCubic(coeff_a, coeff_b, x1, y1)
         /\ Cubic(x2, y2) = PlainCubic(coeff_a, coeff_b, x2, y2)
<1> DEFINE a == coeff_a
           b == coeff_b
           p == x1 * x2
           t == x1 + x2
<1>1. a \in Int /\ b \in Int /\ p \in Int /\ t \in Int BY CubicCoeffs
<1>2. /\ BzPart(t, 1) = a * t + 3 * b * 1 /\ XxPart(p, 1) = 3 * p + a * 1
      /\ BxPart(p, t, 1) = a * (p - a * 1) + 3 * b * t
  BY DEF BzPart, XxPart, BxPart
<1>3. /\ SumU(x1, y1, x2, y2)
           = (y1 * y2 - BzPart(t, 1)) * (x1 * y2 + y1 * x2)
               - (y1 + y2) * BxPart(p, t, 1)
      /\ SumV(x1, y1, x2, y2)
           = (y1 * y2 + BzPart(t, 1)) * (y1 * y2 - BzPart(t, 1))
               + XxPart(p, 1) * BxPart(p, t, 1)
      /\ SumW(x1, y1, x2, y2)
           = (y1 * y2 + BzPart(t, 1)) * (y1 + y2)
               + (x1 * y2 + y1 * x2) * XxPart(p, 1)
  BY DEF SumU, SumV, SumW, EndX, EndY, EndZ
<1> HIDE DEF a, b, p, t
<1>4. /\ BzPart(t, 1) = a * t + 3 * b /\ XxPart(p, 1) = 3 * p + a
      /\ BxPart(p, t, 1) = a * (p - a) + 3 * b * t
  <2>1. b * 1 = b /\ a * 1 = a /\ 3 * b * 1 = 3 * b BY <1>1
  <2> QED BY <1>2, <2>1, Zenon
<1> USE DEF a, b, p, t
<1>5. /\ SumU(x1, y1, x2, y2) = PlainU(a, b, x1, y1, x2, y2)
      /\ SumV(x1, y1, x2, y2) = PlainV(a, b, x1, y1, x2, y2)
      /\ SumW(x1, y1, x2, y2) = PlainW(a, b, x1, y1, x2, y2)
  BY <1>3, <1>4, Zenon DEF PlainU, PlainV, PlainW
<1> QED BY <1>5, Zenon DEF Cubic, PlainCubic

(* The first coordinate is on the chord.                                   *)
LEMMA ChordU ==
  ASSUME IsCubic, NEW x1 \in Int, NEW y1 \in Int, NEW x2 \in Int, NEW y2 \in Int,
         Vanishes(Cubic(x1, y1)), Vanishes(Cubic(x2, y2))
  PROVE  Vanishes(
           (x2 - x1) * (x2 - x1) * SumU(x1, y1, x2, y2)
             - ((y2 - y1) * (y2 - y1) - (x1 + x2) * ((x2 - x1) * (x2 - x1)))
                 * SumW(x1, y1, x2, y2))
<1>1. coeff_a \in Int /\ coeff_b \in Int BY CubicCoeffs
<1>2. /\ Vanishes(PlainCubic(coeff_a, coeff_b, x1, y1))
      /\ Vanishes(PlainCubic(coeff_a, coeff_b, x2, y2))
  BY PlainIs
<1> DEFINE u == PlainU(coeff_a, coeff_b, x1, y1, x2, y2)
           v == PlainV(coeff_a, coeff_b, x1, y1, x2, y2)
           w == PlainW(coeff_a, coeff_b, x1, y1, x2, y2)
<1>3. Vanishes(
           (x2 - x1) * (x2 - x1) * u
             - ((y2 - y1) * (y2 - y1) - (x1 + x2) * ((x2 - x1) * (x2 - x1)))
                 * w)
  BY <1>1, <1>2, ChordUIdentity, Zenon
<1>4. /\ SumU(x1, y1, x2, y2) = u /\ SumV(x1, y1, x2, y2) = v
      /\ SumW(x1, y1, x2, y2) = w
  BY PlainIs
<1> HIDE DEF u, v, w
<1> QED BY <1>3, <1>4, Zenon

(* So is the second.                                                       *)
LEMMA ChordV ==
  ASSUME IsCubic, NEW x1 \in Int, NEW y1 \in Int, NEW x2 \in Int, NEW y2 \in Int,
         Vanishes(Cubic(x1, y1)), Vanishes(Cubic(x2, y2))
  PROVE  Vanishes(
           (x2 - x1) * SumV(x1, y1, x2, y2)
             + y1 * (x2 - x1) * SumW(x1, y1, x2, y2)
             + (y2 - y1) * (SumU(x1, y1, x2, y2) - x1 * SumW(x1, y1, x2, y2)))
<1>1. coeff_a \in Int /\ coeff_b \in Int BY CubicCoeffs
<1>2. /\ Vanishes(PlainCubic(coeff_a, coeff_b, x1, y1))
      /\ Vanishes(PlainCubic(coeff_a, coeff_b, x2, y2))
  BY PlainIs
<1> DEFINE u == PlainU(coeff_a, coeff_b, x1, y1, x2, y2)
           v == PlainV(coeff_a, coeff_b, x1, y1, x2, y2)
           w == PlainW(coeff_a, coeff_b, x1, y1, x2, y2)
<1>3. Vanishes(
           (x2 - x1) * v
             + y1 * (x2 - x1) * w
             + (y2 - y1) * (u - x1 * w))
  BY <1>1, <1>2, ChordVIdentity, Zenon
<1>4. /\ SumU(x1, y1, x2, y2) = u /\ SumV(x1, y1, x2, y2) = v
      /\ SumW(x1, y1, x2, y2) = w
  BY PlainIs
<1> HIDE DEF u, v, w
<1> QED BY <1>3, <1>4, Zenon


(* So the result is the sum of the points, up to the third coordinate.     *)
LEMMA ChordEnds ==
  ASSUME IsCubic, NEW x1 \in Int, NEW y1 \in Int, NEW x2 \in Int, NEW y2 \in Int,
         Vanishes(Cubic(x1, y1)), Vanishes(Cubic(x2, y2)), ~Same(x2, x1),
         NEW l \in Int, NEW x \in Int, NEW y \in Int,
         IsChord(l, x1, y1, x2, y2), Third(l, x1, y1, x2, x, y)
  PROVE  /\ Same(SumU(x1, y1, x2, y2), SumW(x1, y1, x2, y2) * x)
         /\ Same(SumV(x1, y1, x2, y2), SumW(x1, y1, x2, y2) * y)
<1> DEFINE u  == SumU(x1, y1, x2, y2)
           v  == SumV(x1, y1, x2, y2)
           w  == SumW(x1, y1, x2, y2)
           d  == x2 - x1
           e  == y2 - y1
           zu == d * d * u - (e * e - (x1 + x2) * (d * d)) * w
           zv == d * v + y1 * d * w + e * (u - x1 * w)
           zl == l * d - e
           zx == x - (l * l - x1 - x2)
           zy == y - (l * (x1 - x) - y1)
<1>1. u \in Int /\ v \in Int /\ w \in Int BY SumUVWInt
<1>2. Vanishes(zu) BY ChordU, Zenon
<1>3. Vanishes(zv) BY ChordV, Zenon
<1>4. Vanishes(zl) BY DEF IsChord, Same
<1>5. Vanishes(zx) /\ Vanishes(zy) BY DEF Third, Same
<1>6. d \in Int /\ e \in Int OBVIOUS
<1>7. ~Vanishes(d) BY DEF Same
<1> HIDE DEF u, v, w
<1>8. zu \in Int /\ zv \in Int /\ zl \in Int /\ zx \in Int /\ zy \in Int
  BY <1>1
<1> DEFINE su == u - w * x
           sv == v - w * y
<1>9. Vanishes(d * d * su)
  <2> DEFINE g2 == - (w * d * d)
             g3 == - (w * (l * d + e))
  <2>1. 1 \in Int /\ zu \in Int /\ g2 \in Int /\ zx \in Int
        /\ g3 \in Int /\ zl \in Int
    BY <1>1, <1>6, <1>8
  <2>2. Vanishes(zu) /\ Vanishes(zx) /\ Vanishes(zl)
    BY <1>2, <1>4, <1>5
  <2>3. Combine3(1, zu, g2, zx, g3, zl)
         = d * d * su
    BY <1>1, <1>6, <1>8 DEF Combine3
  <2> HIDE DEF g2, g3
  <2>4. Vanishes(Combine3(1, zu, g2, zx, g3, zl))
    BY <2>1, <2>2, VanishesSum3, Zenon
  <2> QED BY <2>3, <2>4
<1>10. su \in Int /\ sv \in Int BY <1>1
<1>11. Vanishes(su)
  <2> HIDE DEF su, d
  <2>1. d * d * su = d * (d * su) /\ d * su \in Int BY <1>6, <1>10
  <2>2. Vanishes(d * (d * su)) BY <1>9, <2>1, Zenon
  <2>3. Vanishes(d * su) BY <1>6, <1>7, <2>1, <2>2, NoZeroDivisors
  <2> QED BY <1>6, <1>7, <1>10, <2>3, NoZeroDivisors
<1>12. Vanishes(d * sv)
  <2> DEFINE g2 == - e
             g3 == - (d * w)
             g4 == - (w * (x1 - x))
  <2>1. 1 \in Int /\ zv \in Int /\ g2 \in Int /\ su \in Int
        /\ g3 \in Int /\ zy \in Int /\ g4 \in Int /\ zl \in Int
    BY <1>1, <1>6, <1>8, <1>10
  <2>2. Vanishes(zv) /\ Vanishes(su) /\ Vanishes(zy) /\ Vanishes(zl)
    BY <1>3, <1>4, <1>5, <1>11
  <2>3. Combine4(1, zv, g2, su, g3, zy, g4, zl)
         = d * sv
    BY <1>1, <1>6, <1>8, <1>10 DEF Combine4
  <2> HIDE DEF g2, g3, g4
  <2>4. Vanishes(Combine4(1, zv, g2, su, g3, zy, g4, zl))
    BY <2>1, <2>2, VanishesSum4, Zenon
  <2> QED BY <2>3, <2>4
<1>13. Vanishes(sv)
  <2> HIDE DEF sv, d
  <2> QED BY <1>6, <1>7, <1>10, <1>12, NoZeroDivisors
<1> QED BY <1>11, <1>13 DEF Same, u, v, w

(* It is not zero because the difference of the points is a point.         *)
LEMMA ChordWNotZero ==
  ASSUME IsCubic, NEW x1 \in Int, NEW y1 \in Int, NEW x2 \in Int, NEW y2 \in Int,
         Vanishes(Cubic(x1, y1)), Vanishes(Cubic(x2, y2)), ~Same(x2, x1),
         NEW m \in Int, Same(m, - y2), NEW l \in Int, NEW x \in Int, NEW y \in Int,
         IsChord(l, x1, y1, x2, m), Third(l, x1, y1, x2, x, y), ~Vanishes(y)
  PROVE  ~Vanishes(SumW(x1, y1, x2, y2))
<1> DEFINE w  == SumW(x1, y1, x2, y2)
           d  == x2 - x1
           e  == - y2 - y1
           u  == e * e - (x1 + x2) * (d * d)
           v  == e * (x1 * (d * d) - u) - y1 * (d * d * d)
           zm == m - (- y2)
           zc == l * d - (m - y1)
           zl == l * d - e
           zx == x - (l * l - x1 - x2)
           zy == y - (l * (x1 - x) - y1)
<1>1. w \in Int BY SumUVWInt
<1>2. Same(v, w) BY ChordW, Zenon
<1>3. Vanishes(zm) /\ Vanishes(zc) BY DEF IsChord, Same
<1>4. Vanishes(zx) /\ Vanishes(zy) BY DEF Third, Same
<1>5. d \in Int /\ e \in Int /\ u \in Int /\ v \in Int OBVIOUS
<1>6. ~Vanishes(d) BY DEF Same
<1>7. zm \in Int /\ zc \in Int /\ zl \in Int /\ zx \in Int /\ zy \in Int
  OBVIOUS
<1>8. Vanishes(zl)
  <2>1. 1 \in Int /\ zc \in Int /\ zm \in Int
    BY <1>7
  <2>2. Vanishes(zc) /\ Vanishes(zm)
    BY <1>3
  <2>3. Combine(1, zc, 1, zm)
         = zl
    BY <1>7 DEF Combine
  <2>4. Vanishes(Combine(1, zc, 1, zm))
    BY <2>1, <2>2, VanishesSum, Zenon
  <2> QED BY <2>3, <2>4
<1> SUFFICES ASSUME Vanishes(w) PROVE FALSE BY DEF w
<1> HIDE DEF w
<1>9. Vanishes(v)
  <2> HIDE DEF v
  <2> QED BY <1>1, <1>2, <1>5, SameVanishes
<1> DEFINE t == d * d * d
<1>10. Vanishes(t * y)
  <2> DEFINE g2 == d * d * d
             g3 == d * d * (x1 - x) - e * (l * d + e)
             g4 == - (e * (d * d))
  <2>1. 1 \in Int /\ v \in Int /\ g2 \in Int /\ zy \in Int
        /\ g3 \in Int /\ zl \in Int /\ g4 \in Int /\ zx \in Int
    BY <1>5, <1>7
  <2>2. Vanishes(v) /\ Vanishes(zy) /\ Vanishes(zl) /\ Vanishes(zx)
    BY <1>4, <1>8, <1>9
  <2>3. Combine4(1, v, g2, zy, g3, zl, g4, zx)
         = t * y
    BY <1>5, <1>7 DEF Combine4
  <2> HIDE DEF g2, g3, g4
  <2>4. Vanishes(Combine4(1, v, g2, zy, g3, zl, g4, zx))
    BY <2>1, <2>2, VanishesSum4, Zenon
  <2> QED BY <2>3, <2>4
<1>11. t \in Int OBVIOUS
<1>12. ~Vanishes(t)
  <2> HIDE DEF d
  <2>1. d * d \in Int /\ ~Vanishes(d * d) BY <1>5, <1>6, ProductIsNotZero
  <2> DEFINE f == d * d
  <2> HIDE DEF f
  <2>2. f * d = t BY <1>5 DEF f
  <2> QED BY <1>5, <1>6, <2>1, <2>2, ProductIsNotZero DEF f
<1> HIDE DEF t
<1> QED BY <1>10, <1>11, <1>12, NoZeroDivisors

-----------------------------------------------------------------------------
(* ... for a point and itself ...                                          *)

(* The formulae for (x, y, 1) twice are the double, up to 8 * y * y * y.   *)
LEMMA TangentEnds ==
  ASSUME IsCubic, NEW x1 \in Int, NEW y1 \in Int, Vanishes(Cubic(x1, y1)),
         NEW l \in Int, NEW x \in Int, NEW y \in Int,
         IsTangent(l, x1, y1), Third(l, x1, y1, x1, x, y)
  PROVE  /\ Same(SumU(x1, y1, x1, y1), 8 * (y1 * y1 * y1) * x)
         /\ Same(SumV(x1, y1, x1, y1), 8 * (y1 * y1 * y1) * y)
         /\ Same(SumW(x1, y1, x1, y1), 8 * (y1 * y1 * y1))
<1> DEFINE a  == coeff_a
           b  == coeff_b
           c  == Cubic(x1, y1)
           u  == SumU(x1, y1, x1, y1)
           v  == SumV(x1, y1, x1, y1)
           w  == SumW(x1, y1, x1, y1)
           t  == 3 * x1 * x1 + a
           zl == l * (2 * y1) - t
           zx == x - (l * l - x1 - x1)
           zy == y - (l * (x1 - x) - y1)
           q  == a * (x1 + x1) + 3 * b
           r  == a * (x1 * x1 - a) + 3 * b * (x1 + x1)
           s  == 3 * (x1 * x1) + a
           u0 == (y1 * y1 - q) * (x1 * y1 + y1 * x1) - (y1 + y1) * r
           v0 == (y1 * y1 + q) * (y1 * y1 - q) + s * r
           w0 == (y1 * y1 + q) * (y1 + y1) + (x1 * y1 + y1 * x1) * s
<1>1. a \in Int /\ b \in Int /\ c \in Int /\ Vanishes(c) BY CubicCoeffs, CubicInt
<1>2. u = u0 /\ v = v0 /\ w = w0
  <2>1. /\ u = PlainU(a, b, x1, y1, x1, y1) /\ v = PlainV(a, b, x1, y1, x1, y1)
        /\ w = PlainW(a, b, x1, y1, x1, y1)
    BY PlainIs
  <2> HIDE DEF a, b, u, v, w
  <2> QED BY <2>1, Zenon DEF PlainU, PlainV, PlainW
<1>3. c = y1 * y1 - x1 * x1 * x1 - a * x1 - b BY DEF Cubic
<1>4. Vanishes(zl) BY DEF IsTangent, Same
<1>5. Vanishes(zx) /\ Vanishes(zy) BY DEF Third, Same
<1> HIDE DEF a, b, c, u, v, w
<1>6. t \in Int /\ zl \in Int /\ zx \in Int /\ zy \in Int BY <1>1
<1>7. Same(u, 8 * (y1 * y1 * y1) * x)
  <2> DEFINE g1 == 18 * x1 * y1
             g2 == - (2 * y1 * (t + l * (2 * y1)))
             g3 == - (8 * (y1 * y1 * y1))
  <2>1. g1 \in Int /\ c \in Int /\ g2 \in Int /\ zl \in Int
        /\ g3 \in Int /\ zx \in Int
    BY <1>1, <1>6
  <2>2. Vanishes(c) /\ Vanishes(zl) /\ Vanishes(zx)
    BY <1>1, <1>4, <1>5
  <2>3. Combine3(g1, c, g2, zl, g3, zx)
         = u - 8 * (y1 * y1 * y1) * x
    BY <1>1, <1>2, <1>3, <1>6 DEF Combine3
  <2> HIDE DEF g1, g2, g3
  <2>4. Vanishes(Combine3(g1, c, g2, zl, g3, zx))
    BY <2>1, <2>2, VanishesSum3, Zenon
  <2> QED BY <2>3, <2>4 DEF Same
<1>8. Same(w, 8 * (y1 * y1 * y1))
  <2> DEFINE g1 == - (6 * y1)
  <2>1. g1 \in Int /\ c \in Int /\ 0 \in Int
    BY <1>1
  <2>2. Vanishes(c)
    BY <1>1
  <2>3. Combine(g1, c, 0, c)
         = w - 8 * (y1 * y1 * y1)
    BY <1>1, <1>2, <1>3 DEF Combine
  <2> HIDE DEF g1
  <2>4. Vanishes(Combine(g1, c, 0, c))
    BY <2>1, <2>2, VanishesSum, Zenon
  <2> QED BY <2>3, <2>4 DEF Same
<1>9. Same(v, 8 * (y1 * y1 * y1) * y)
  <2> DEFINE g1 == 9 * y1 * y1 - 27 * x1 * x1 * x1 - 3 * a * x1 + 9 * b
             g2 == - (8 * (y1 * y1 * y1))
             g3 == t * (l * (2 * y1) + t) - 4 * (y1 * y1) * (x1 - x)
             g4 == 4 * (y1 * y1) * t
  <2>1. g1 \in Int /\ c \in Int /\ g2 \in Int /\ zy \in Int
        /\ g3 \in Int /\ zl \in Int /\ g4 \in Int /\ zx \in Int
    BY <1>1, <1>6
  <2>2. Vanishes(c) /\ Vanishes(zy) /\ Vanishes(zl) /\ Vanishes(zx)
    BY <1>1, <1>4, <1>5
  <2>3. Combine4(g1, c, g2, zy, g3, zl, g4, zx)
         = v - 8 * (y1 * y1 * y1) * y
    BY <1>1, <1>2, <1>3, <1>6 DEF Combine4
  <2> HIDE DEF g1, g2, g3, g4
  <2>4. Vanishes(Combine4(g1, c, g2, zy, g3, zl, g4, zx))
    BY <2>1, <2>2, VanishesSum4, Zenon
  <2> QED BY <2>3, <2>4 DEF Same
<1> QED BY <1>7, <1>8, <1>9 DEF u, v, w

-----------------------------------------------------------------------------
(* ... for a point and its opposite ...                                    *)

(* The formulae for (x, y, 1) and (x, - y, 1) give zero.                   *)
LEMMA MirrorEnds ==
  ASSUME IsCubic, NEW x \in Int, NEW y \in Int, NEW m \in Int, Same(m, - y)
  PROVE  /\ Vanishes(SumU(x, y, x, m)) /\ Vanishes(SumW(x, y, x, m))
         /\ Same(SumV(x, y, x, m), SumV(x, y, x, y))
<1> DEFINE a  == coeff_a
           b  == coeff_b
           u  == SumU(x, y, x, m)
           v  == SumV(x, y, x, m)
           w  == SumW(x, y, x, m)
           n  == SumV(x, y, x, y)
           f  == m - (- y)
           q  == a * (x + x) + 3 * b
           r  == a * (x * x - a) + 3 * b * (x + x)
           s  == 3 * (x * x) + a
<1>1. a \in Int /\ b \in Int BY CubicCoeffs
<1>2. /\ u = (y * m - q) * (x * m + y * x) - (y + m) * r
      /\ v = (y * m + q) * (y * m - q) + s * r
      /\ w = (y * m + q) * (y + m) + (x * m + y * x) * s
      /\ n = (y * y + q) * (y * y - q) + s * r
  <2>1. /\ u = PlainU(a, b, x, y, x, m) /\ v = PlainV(a, b, x, y, x, m)
        /\ w = PlainW(a, b, x, y, x, m) /\ n = PlainV(a, b, x, y, x, y)
    BY PlainIs
  <2> HIDE DEF a, b, u, v, w, n
  <2> QED BY <2>1, Zenon DEF PlainU, PlainV, PlainW
<1> HIDE DEF a, b, u, v, w, n
<1>3. q \in Int /\ r \in Int /\ s \in Int BY <1>1
<1> HIDE DEF q, r, s
<1>4. f \in Int /\ Vanishes(f) BY DEF Same
<1>5. Vanishes(u)
  <2> DEFINE g1 == (y * m - q) * x - r
  <2>1. g1 \in Int /\ f \in Int /\ 0 \in Int
    BY <1>3, <1>4
  <2>2. Vanishes(f)
    BY <1>4
  <2>3. Combine(g1, f, 0, f)
         = u
    BY <1>2, <1>3 DEF Combine
  <2> HIDE DEF g1
  <2>4. Vanishes(Combine(g1, f, 0, f))
    BY <2>1, <2>2, VanishesSum, Zenon
  <2> QED BY <2>3, <2>4
<1>6. Vanishes(w)
  <2> DEFINE g1 == y * m + q + x * s
  <2>1. g1 \in Int /\ f \in Int /\ 0 \in Int
    BY <1>3, <1>4
  <2>2. Vanishes(f)
    BY <1>4
  <2>3. Combine(g1, f, 0, f)
         = w
    BY <1>2, <1>3 DEF Combine
  <2> HIDE DEF g1
  <2>4. Vanishes(Combine(g1, f, 0, f))
    BY <2>1, <2>2, VanishesSum, Zenon
  <2> QED BY <2>3, <2>4
<1>7. Same(v, n)
  <2> DEFINE g1 == y * y * (m - y)
  <2>1. g1 \in Int /\ f \in Int /\ 0 \in Int
    BY <1>4
  <2>2. Vanishes(f)
    BY <1>4
  <2>3. Combine(g1, f, 0, f)
         = v - n
    BY <1>2, <1>3 DEF Combine
  <2> HIDE DEF g1
  <2>4. Vanishes(Combine(g1, f, 0, f))
    BY <2>1, <2>2, VanishesSum, Zenon
  <2> QED BY <2>3, <2>4 DEF Same
<1> QED BY <1>5, <1>6, <1>7 DEF u, v, w, n

-----------------------------------------------------------------------------
(* ... and for zero.                                                       *)

LawU(q, s) ==
  EndX(Px(q) * Px(s), Py(q) * Py(s), Px(q) * Py(s) + Py(q) * Px(s),
       Px(q) * Pz(s) + Pz(q) * Px(s), Py(q) * Pz(s) + Pz(q) * Py(s), Pz(q) * Pz(s))

LawV(q, s) ==
  EndY(Px(q) * Px(s), Py(q) * Py(s), Px(q) * Pz(s) + Pz(q) * Px(s), Pz(q) * Pz(s))

LawW(q, s) ==
  EndZ(Px(q) * Px(s), Py(q) * Py(s), Px(q) * Py(s) + Py(q) * Px(s),
       Px(q) * Pz(s) + Pz(q) * Px(s), Py(q) * Pz(s) + Pz(q) * Py(s), Pz(q) * Pz(s))

(* The formulae where one of the points is zero.                           *)
LEMMA EndOfZero ==
  ASSUME IsCubic, NEW x \in Int, NEW y \in Int, NEW z \in Int
  PROVE  /\ EndX(0, y, x, 0, z, 0) = y * x
         /\ EndY(0, y, 0, 0) = y * y
         /\ EndZ(0, y, x, 0, z, 0) = y * z
<1> DEFINE a == coeff_a
           b == coeff_b
<1>1. a \in Int /\ b \in Int BY CubicCoeffs
<1>2. /\ BzPart(0, 0) = a * 0 + 3 * b * 0 /\ XxPart(0, 0) = 3 * 0 + a * 0
      /\ BxPart(0, 0, 0) = a * (0 - a * 0) + 3 * b * 0
  BY Zenon DEF BzPart, XxPart, BxPart
<1> HIDE DEF a, b
<1>3. BzPart(0, 0) = 0 /\ XxPart(0, 0) = 0 /\ BxPart(0, 0, 0) = 0
  BY <1>1, <1>2
<1>4. /\ EndX(0, y, x, 0, z, 0) = (y - 0) * x - z * 0
      /\ EndY(0, y, 0, 0) = (y + 0) * (y - 0) + 0 * 0
      /\ EndZ(0, y, x, 0, z, 0) = (y + 0) * z + x * 0
  BY <1>3, Zenon DEF EndX, EndY, EndZ
<1> QED BY <1>4

(* The ordinate of a point is not zero.                                    *)
LEMMA PyNotZero ==
  ASSUME IsCubic, NEW q \in CubicPoints
  PROVE  ~Vanishes(Py(q))
<1>1. CASE q = Infinity BY <1>1, PlainHas, OneIsNotZero
<1>2. CASE q # Infinity BY <1>2, PlainHas, CubicHas, OrdinateNotZero
<1> QED BY <1>1, <1>2

(* What stands for the sum of two points.                                  *)
IsLaw(q, s, e) ==
  /\ e \in Int /\ ~Vanishes(e)
  /\ Same(LawU(q, s), e * Px(ChordSum(q, s)))
  /\ Same(LawV(q, s), e * Py(ChordSum(q, s)))
  /\ Same(LawW(q, s), e * Pz(ChordSum(q, s)))

(* Zero added to a point.                                                  *)
LEMMA LawOfZero ==
  ASSUME IsCubic, NEW q \in CubicPoints, NEW s \in CubicPoints,
         q = Infinity \/ s = Infinity
  PROVE  \E e \in Int : IsLaw(q, s, e)
<1> DEFINE x1 == Px(q)
           y1 == Py(q)
           z1 == Pz(q)
           x2 == Px(s)
           y2 == Py(s)
           z2 == Pz(s)
<1>1. /\ x1 \in Int /\ y1 \in Int /\ z1 \in Int
      /\ x2 \in Int /\ y2 \in Int /\ z2 \in Int
      /\ ~Vanishes(y1) /\ ~Vanishes(y2)
  BY PlainHas, PyNotZero
<1>2. ASSUME NEW k \in Int PROVE Same(k, k)
  <2>1. k - k = 0 /\ 0 \in Fp BY Modulus DEF Fp
  <2> QED BY <2>1, ElementZero DEF Same
<1>3. CASE q = Infinity
  <2>1. x1 = 0 /\ y1 = 1 /\ z1 = 0 /\ ChordSum(q, s) = s
    BY <1>3, PlainHas DEF ChordSum
  <2> HIDE DEF x1, y1, z1, x2, y2, z2
  <2>2. /\ x1 * x2 = 0 /\ y1 * y2 = y2 /\ x1 * y2 + y1 * x2 = x2
        /\ x1 * z2 + z1 * x2 = 0 /\ y1 * z2 + z1 * y2 = z2 /\ z1 * z2 = 0
    BY <1>1, <2>1
  <2>3. LawU(q, s) = y2 * x2 /\ LawV(q, s) = y2 * y2 /\ LawW(q, s) = y2 * z2
    <3>1. /\ LawU(q, s) = EndX(0, y2, x2, 0, z2, 0)
          /\ LawV(q, s) = EndY(0, y2, 0, 0)
          /\ LawW(q, s) = EndZ(0, y2, x2, 0, z2, 0)
      BY <2>2, Zenon DEF LawU, LawV, LawW, x1, y1, z1, x2, y2, z2
    <3> QED BY <1>1, <3>1, EndOfZero
  <2>4. y2 * x2 \in Int /\ y2 * y2 \in Int /\ y2 * z2 \in Int BY <1>1
  <2>5. IsLaw(q, s, y2)
    BY <1>1, <1>2, <2>1, <2>3, <2>4, Zenon DEF IsLaw, x2, y2, z2
  <2> QED BY <1>1, <2>5
<1>4. CASE s = Infinity
  <2>1. x2 = 0 /\ y2 = 1 /\ z2 = 0 /\ ChordSum(q, s) = q
    BY <1>4, PlainHas DEF ChordSum
  <2> HIDE DEF x1, y1, z1, x2, y2, z2
  <2>2. /\ x1 * x2 = 0 /\ y1 * y2 = y1 /\ x1 * y2 + y1 * x2 = x1
        /\ x1 * z2 + z1 * x2 = 0 /\ y1 * z2 + z1 * y2 = z1 /\ z1 * z2 = 0
    BY <1>1, <2>1
  <2>3. LawU(q, s) = y1 * x1 /\ LawV(q, s) = y1 * y1 /\ LawW(q, s) = y1 * z1
    <3>1. /\ LawU(q, s) = EndX(0, y1, x1, 0, z1, 0)
          /\ LawV(q, s) = EndY(0, y1, 0, 0)
          /\ LawW(q, s) = EndZ(0, y1, x1, 0, z1, 0)
      BY <2>2, Zenon DEF LawU, LawV, LawW, x1, y1, z1, x2, y2, z2
    <3> QED BY <1>1, <3>1, EndOfZero
  <2>4. y1 * x1 \in Int /\ y1 * y1 \in Int /\ y1 * z1 \in Int BY <1>1
  <2>5. IsLaw(q, s, y1)
    BY <1>1, <1>2, <2>1, <2>3, <2>4, Zenon DEF IsLaw, x1, y1, z1
  <2> QED BY <1>1, <2>5
<1> QED BY <1>3, <1>4

(* Away from zero the formulae are those of the chord.                     *)
LEMMA LawOfAffine ==
  ASSUME IsCubic, NEW q \in CubicPoints, NEW s \in CubicPoints,
         q # Infinity, s # Infinity
  PROVE  /\ LawU(q, s) = SumU(q[1], q[2], s[1], s[2])
         /\ LawV(q, s) = SumV(q[1], q[2], s[1], s[2])
         /\ LawW(q, s) = SumW(q[1], q[2], s[1], s[2])
<1> DEFINE x1 == q[1]
           y1 == q[2]
           x2 == s[1]
           y2 == s[2]
<1>1. /\ Px(q) = x1 /\ Py(q) = y1 /\ Pz(q) = 1
      /\ Px(s) = x2 /\ Py(s) = y2 /\ Pz(s) = 1
      /\ x1 \in Int /\ y1 \in Int /\ x2 \in Int /\ y2 \in Int
  BY PlainHas, CubicHas
<1> HIDE DEF x1, y1, x2, y2
<1>2. x1 * 1 + 1 * x2 = x1 + x2 /\ y1 * 1 + 1 * y2 = y1 + y2 /\ 1 * 1 = 1
  BY <1>1
<1>3. /\ LawU(q, s) = SumU(x1, y1, x2, y2) /\ LawV(q, s) = SumV(x1, y1, x2, y2)
      /\ LawW(q, s) = SumW(x1, y1, x2, y2)
  BY <1>1, <1>2, Zenon DEF LawU, LawV, LawW, SumU, SumV, SumW
<1> QED BY <1>3 DEF x1, y1, x2, y2

(* Powers of an ordinate are not zero either.                              *)
LEMMA EightCubes ==
  ASSUME NEW y \in Int, ~Vanishes(y)
  PROVE  8 * (y * y * y) \in Int /\ ~Vanishes(8 * (y * y * y))
<1> DEFINE d == 2 * y
           e == d * d
<1>1. d \in Int /\ e \in Int OBVIOUS
<1>2. ~Vanishes(d) BY TwoNotZero, ProductIsNotZero
<1>3. 8 * (y * y * y) = e * d /\ e * d \in Int OBVIOUS
<1> HIDE DEF d
<1>4. ~Vanishes(e) BY <1>1, <1>2, ProductIsNotZero
<1> HIDE DEF e
<1>5. ~Vanishes(e * d) BY <1>1, <1>2, <1>4, ProductIsNotZero
<1> QED BY <1>3, <1>5, Zenon

(* The double of a point.                                                  *)
LEMMA LawOfDouble ==
  ASSUME IsCubic, NEW q \in CubicPoints, q # Infinity
  PROVE  /\ IsLaw(q, q, 8 * (q[2] * q[2] * q[2]))
         /\ ChordSum(q, q) # Infinity
<1> DEFINE x1 == q[1]
           y1 == q[2]
           e  == 8 * (y1 * y1 * y1)
           t  == ChordSum(q, q)
<1>1. /\ x1 \in Int /\ y1 \in Int /\ Vanishes(Cubic(x1, y1)) /\ ~Vanishes(y1)
  BY CubicHas, OrdinateNotZero
<1>2. e \in Int /\ ~Vanishes(e)
  <2> HIDE DEF y1
  <2> QED BY <1>1, EightCubes
<1>3. PICK l \in Fp, x \in Fp, y \in Fp :
        /\ t = <<x, y>> /\ IsTangent(l, x1, y1) /\ Third(l, x1, y1, x1, x, y)
  BY TangentHas
<1>4. l \in Int /\ x \in Int /\ y \in Int BY ElementRed
<1>5. t \in CubicPoints /\ t # Infinity BY MirrorOther, ChordSumClosed
<1>6. Px(t) = x /\ Py(t) = y /\ Pz(t) = 1 BY <1>3, <1>5, PlainHas
<1>7. /\ LawU(q, q) = SumU(x1, y1, x1, y1) /\ LawV(q, q) = SumV(x1, y1, x1, y1)
      /\ LawW(q, q) = SumW(x1, y1, x1, y1)
  BY LawOfAffine
<1> HIDE DEF x1, y1
<1>8. /\ Same(SumU(x1, y1, x1, y1), e * x) /\ Same(SumV(x1, y1, x1, y1), e * y)
      /\ Same(SumW(x1, y1, x1, y1), e)
  BY <1>1, <1>3, <1>4, TangentEnds, Zenon
<1>9. e * 1 = e BY <1>2
<1> HIDE DEF e, t
<1>10. IsLaw(q, q, e)
  BY <1>2, <1>6, <1>7, <1>8, <1>9, Zenon DEF IsLaw, t
<1> QED BY <1>5, <1>10 DEF e, t, y1

(* A point and its opposite.                                               *)
LEMMA LawOfMirror ==
  ASSUME IsCubic, NEW q \in CubicPoints, q # Infinity
  PROVE  \E e \in Int : IsLaw(q, Mirror(q), e)
<1> DEFINE x == q[1]
           y == q[2]
           s == Mirror(q)
           m == s[2]
           t == ChordSum(q, q)
           e == SumV(x, y, x, m)
           n == SumV(x, y, x, y)
           f == 8 * (y * y * y)
           g == Py(t)
           u == SumU(x, y, x, m)
           w == SumW(x, y, x, m)
<1>1. /\ x \in Int /\ y \in Int /\ ~Vanishes(y) BY CubicHas, OrdinateNotZero
<1>2. s \in CubicPoints /\ s # Infinity /\ s[1] = x /\ m \in Int /\ Same(m, - y)
  BY MirrorIs
<1>3. LawU(q, s) = u /\ LawV(q, s) = e /\ LawW(q, s) = w
  BY <1>2, LawOfAffine
<1>4. Vanishes(u) /\ Vanishes(w) /\ Same(e, n) BY <1>1, <1>2, MirrorEnds
<1>5. u \in Int /\ w \in Int /\ e \in Int /\ n \in Int BY <1>1, <1>2, SumUVWInt
<1>6. IsLaw(q, q, f) /\ LawV(q, q) = n BY LawOfDouble, LawOfAffine
<1>7. t \in CubicPoints BY ChordSumClosed
<1>8. g \in Int /\ ~Vanishes(g) BY <1>7, PlainHas, PyNotZero
<1>9. f \in Int /\ ~Vanishes(f) /\ Same(n, f * g) BY <1>6 DEF IsLaw
<1>10. ChordSum(q, s) = Infinity BY <1>2 DEF ChordSum
<1>11. /\ Px(ChordSum(q, s)) = 0 /\ Py(ChordSum(q, s)) = 1
       /\ Pz(ChordSum(q, s)) = 0
  BY <1>10, PlainHas DEF CubicPoints
<1> HIDE DEF x, y, s, m, t, e, n, f, g, u, w
<1>12. f * g \in Int /\ ~Vanishes(f * g) BY <1>8, <1>9, ProductIsNotZero
<1> DEFINE p == f * g
<1>13. p \in Int /\ ~Vanishes(p) /\ Same(n, p) BY <1>9, <1>12
<1> HIDE DEF p
<1>14. ~Vanishes(n) BY <1>5, <1>13, SameVanishes
<1>15. ~Vanishes(e) BY <1>4, <1>5, <1>14, SameVanishes
<1>16. /\ u - e * 0 = u /\ w - e * 0 = w /\ e - e * 1 = 0 BY <1>5
<1>17. Vanishes(0)
  <2>1. 0 \in Fp BY Modulus DEF Fp
  <2> QED BY <2>1, ElementZero
<1>18. Same(u, e * 0) /\ Same(w, e * 0) /\ Same(e, e * 1)
  BY <1>4, <1>16, <1>17, Zenon DEF Same
<1>19. IsLaw(q, s, e) BY <1>3, <1>5, <1>11, <1>15, <1>18, Zenon DEF IsLaw
<1> QED BY <1>5, <1>19 DEF s

(* Two points that are neither.                                            *)
LEMMA LawOfChord ==
  ASSUME IsCubic, NEW q \in CubicPoints, NEW s \in CubicPoints,
         q # Infinity, s # Infinity, s # q, s # Mirror(q)
  PROVE  \E e \in Int : IsLaw(q, s, e)
<1> DEFINE x1 == q[1]
           y1 == q[2]
           x2 == s[1]
           y2 == s[2]
           t  == ChordSum(q, s)
           r  == Mirror(s)
           u  == SumU(x1, y1, x2, y2)
           v  == SumV(x1, y1, x2, y2)
           w  == SumW(x1, y1, x2, y2)
<1>1. /\ x1 \in Int /\ y1 \in Int /\ Vanishes(Cubic(x1, y1))
      /\ x2 \in Int /\ y2 \in Int /\ Vanishes(Cubic(x2, y2))
  BY CubicHas
<1>2. PICK l \in Fp, x \in Fp, y \in Fp :
        /\ t = <<x, y>> /\ ~Same(x2, x1)
        /\ IsChord(l, x1, y1, x2, y2) /\ Third(l, x1, y1, x2, x, y)
  BY ChordHas
<1>3. l \in Int /\ x \in Int /\ y \in Int BY ElementRed
<1>4. t \in CubicPoints /\ t # Infinity BY ChordSumClosed
<1>5. Px(t) = x /\ Py(t) = y /\ Pz(t) = 1 BY <1>2, <1>4, PlainHas
<1>6. LawU(q, s) = u /\ LawV(q, s) = v /\ LawW(q, s) = w BY LawOfAffine
<1>7. u \in Int /\ v \in Int /\ w \in Int BY <1>1, SumUVWInt
<1>8. ~Vanishes(w)
  <2>1. /\ r \in CubicPoints /\ r # Infinity /\ r[1] = x2
        /\ r[2] \in Int /\ Same(r[2], - y2)
    BY MirrorIs
  <2>2. Mirror(q)[1] = x1 BY MirrorIs
  <2>3. Same(x1, x1)
    <3>1. x1 - x1 = 0 /\ 0 \in Fp BY <1>1, Modulus DEF Fp
    <3> QED BY <3>1, ElementZero DEF Same
  <2>4. r # q /\ r # Mirror(q) BY <1>2, <2>1, <2>2, <2>3
  <2>5. PICK k \in Fp, g \in Fp, j \in Fp :
          /\ ChordSum(q, r) = <<g, j>>
          /\ IsChord(k, x1, y1, x2, r[2]) /\ Third(k, x1, y1, x2, g, j)
    <3> HIDE DEF r
    <3> QED BY <2>1, <2>4, ChordHas
  <2>6. k \in Int /\ g \in Int /\ j \in Int BY ElementRed
  <2>7. ChordSum(q, r) \in CubicPoints /\ ChordSum(q, r) # Infinity
    BY <2>1, <2>4, ChordSumClosed
  <2>8. ~Vanishes(j)
    <3>1. /\ ChordSum(q, r)[1] = g /\ ChordSum(q, r)[2] = j BY <2>5
    <3>2. Vanishes(Cubic(g, j)) BY <2>7, <3>1, CubicHas
    <3> QED BY <2>6, <3>2, OrdinateNotZero
  <2> DEFINE m == r[2]
  <2>9. /\ m \in Int /\ Same(m, - y2)
        /\ IsChord(k, x1, y1, x2, m) /\ Third(k, x1, y1, x2, g, j)
    BY <2>1, <2>5
  <2> HIDE DEF m, x1, y1, x2, y2, r
  <2> QED BY <1>1, <1>2, <2>6, <2>8, <2>9, ChordWNotZero, Zenon
<1>9. Same(u, w * x) /\ Same(v, w * y)
  <2> HIDE DEF x1, y1, x2, y2, t
  <2> QED BY <1>1, <1>2, <1>3, ChordEnds, Zenon
<1>10. w * 1 = w BY <1>7
<1>11. Same(w, w)
  <2>1. w - w = 0 /\ 0 \in Fp BY <1>7, Modulus DEF Fp
  <2> QED BY <2>1, ElementZero DEF Same
<1> HIDE DEF u, v, w, t
<1>12. IsLaw(q, s, w)
  BY <1>5, <1>6, <1>7, <1>8, <1>9, <1>10, <1>11, Zenon DEF IsLaw, t
<1> QED BY <1>7, <1>12

(* The complete formulae know no exception.                                *)
LEMMA LawIsComplete ==
  ASSUME IsCubic, NEW q \in CubicPoints, NEW s \in CubicPoints
  PROVE  \E e \in Int : IsLaw(q, s, e)
<1>1. CASE q = Infinity \/ s = Infinity BY <1>1, LawOfZero
<1>2. CASE q # Infinity /\ s # Infinity /\ s = q
  <2>1. IsLaw(q, q, 8 * (q[2] * q[2] * q[2])) BY <1>2, LawOfDouble
  <2> QED BY <1>2, <2>1 DEF IsLaw
<1>3. CASE q # Infinity /\ s # Infinity /\ s # q /\ s = Mirror(q)
  BY <1>3, LawOfMirror
<1>4. CASE q # Infinity /\ s # Infinity /\ s # q /\ s # Mirror(q)
  BY <1>4, LawOfChord
<1> QED BY <1>1, <1>2, <1>3, <1>4

-----------------------------------------------------------------------------
(* The operations of ProjectiveVar.                                        *)

(* The coordinates that the formulae give, with the factors of the         *)
(* operands, stand for the sum.                                            *)
LEMMA ResultIs ==
  ASSUME IsCubic, NEW q \in CubicPoints, NEW s \in CubicPoints,
         NEW e, IsLaw(q, s, e), NEW m \in Int, ~Vanishes(m),
         NEW u \in Fp, NEW v \in Fp, NEW w \in Fp,
         Same(u, m * m * LawU(q, s)), Same(v, m * m * LawV(q, s)),
         Same(w, m * m * LawW(q, s)), LawU(q, s) \in Int, LawV(q, s) \in Int,
         LawW(q, s) \in Int
  PROVE  <<u, v, w>> \in Representations(ChordSum(q, s))
<1> DEFINE t == ChordSum(q, s)
           n == m * m
           k == n * e
<1>1. e \in Int /\ ~Vanishes(e) BY DEF IsLaw
<1>2. n \in Int /\ ~Vanishes(n) BY ProductIsNotZero
<1>3. t \in CubicPoints BY ChordSumClosed
<1>4. Px(t) \in Int /\ Py(t) \in Int /\ Pz(t) \in Int BY <1>3, PlainHas
<1>5. /\ Same(LawU(q, s), e * Px(t)) /\ Same(LawV(q, s), e * Py(t))
      /\ Same(LawW(q, s), e * Pz(t))
  BY DEF IsLaw
<1> HIDE DEF n, t
<1>6. k \in Int /\ ~Vanishes(k) BY <1>1, <1>2, ProductIsNotZero
<1>7. ASSUME NEW r \in Fp, NEW a \in Int, NEW x \in Int,
             Same(r, n * a), Same(a, e * x)
      PROVE  Same(r, k * x)
  <2>1. r \in Int BY ElementRed
  <2>2. Same(r, k * x)
    <3> DEFINE f1 == r - n * a
               f2 == a - e * x
    <3>1. 1 \in Int /\ f1 \in Int /\ n \in Int /\ f2 \in Int
      BY <1>1, <1>2, <2>1
    <3>2. Vanishes(f1) /\ Vanishes(f2)
      BY <1>7 DEF Same
    <3>3. Combine(1, f1, n, f2)
           = r - k * x
      BY <1>1, <1>2, <2>1 DEF Combine
    <3> HIDE DEF f1, f2
    <3>4. Vanishes(Combine(1, f1, n, f2))
      BY <3>1, <3>2, VanishesSum, Zenon
    <3> QED BY <3>3, <3>4 DEF Same
  <2> QED BY <2>2
<1>8. /\ Same(u, n * LawU(q, s)) /\ Same(v, n * LawV(q, s)) /\ Same(w, n * LawW(q, s))
  BY DEF n
<1> HIDE DEF k
<1>9. /\ Same(u, k * Px(t)) /\ Same(v, k * Py(t)) /\ Same(w, k * Pz(t))
  BY <1>4, <1>5, <1>7, <1>8
<1>10. Stands(<<u, v, w>>, k, t) BY <1>9 DEF Stands
<1> QED BY <1>3, <1>6, <1>10, RepresentationIs DEF t

(* The formulae are numbers.                                               *)
LEMMA LawInt ==
  ASSUME IsCubic, NEW q \in CubicPoints, NEW s \in CubicPoints
  PROVE  LawU(q, s) \in Int /\ LawV(q, s) \in Int /\ LawW(q, s) \in Int
<1> DEFINE xx == Px(q) * Px(s)
           yy == Py(q) * Py(s)
           zz == Pz(q) * Pz(s)
           xy == Px(q) * Py(s) + Py(q) * Px(s)
           xz == Px(q) * Pz(s) + Pz(q) * Px(s)
           yz == Py(q) * Pz(s) + Pz(q) * Py(s)
<1>1. xx \in Int /\ yy \in Int /\ zz \in Int /\ xy \in Int /\ xz \in Int /\ yz \in Int
  BY PlainHas
<1>2. /\ LawU(q, s) = EndX(xx, yy, xy, xz, yz, zz)
      /\ LawV(q, s) = EndY(xx, yy, xz, zz)
      /\ LawW(q, s) = EndZ(xx, yy, xy, xz, yz, zz)
  BY DEF LawU, LawV, LawW
<1> HIDE DEF xx, yy, zz, xy, xz, yz
<1>3. /\ EndX(xx, yy, xy, xz, yz, zz) \in Int /\ EndY(xx, yy, xz, zz) \in Int
      /\ EndZ(xx, yy, xy, xz, yz, zz) \in Int
  BY <1>1, EndInt, Zenon
<1> QED BY <1>2, <1>3

(* The common end, for products of the coordinates of two points.          *)
LEMMA EndStands ==
  ASSUME IsCubic, NEW q \in CubicPoints, NEW s \in CubicPoints,
         NEW m \in Int, ~Vanishes(m),
         NEW xx \in Int, NEW yy \in Int, NEW xy \in Int,
         NEW xz \in Int, NEW yz \in Int, NEW zz \in Int,
         Same(xx, m * (Px(q) * Px(s))), Same(yy, m * (Py(q) * Py(s))),
         Same(xy, m * (Px(q) * Py(s) + Py(q) * Px(s))),
         Same(xz, m * (Px(q) * Pz(s) + Pz(q) * Px(s))),
         Same(yz, m * (Py(q) * Pz(s) + Pz(q) * Py(s))),
         Same(zz, m * (Pz(q) * Pz(s)))
  PROVE  CommonEnd(xx, yy, xy, xz, yz, zz) \in Representations(ChordSum(q, s))
<1> DEFINE sxx == Px(q) * Px(s)
           syy == Py(q) * Py(s)
           szz == Pz(q) * Pz(s)
           sxy == Px(q) * Py(s) + Py(q) * Px(s)
           sxz == Px(q) * Pz(s) + Pz(q) * Px(s)
           syz == Py(q) * Pz(s) + Pz(q) * Py(s)
<1>1. /\ sxx \in Int /\ syy \in Int /\ szz \in Int
      /\ sxy \in Int /\ sxz \in Int /\ syz \in Int
  BY PlainHas
<1>2. /\ LawU(q, s) = EndX(sxx, syy, sxy, sxz, syz, szz)
      /\ LawV(q, s) = EndY(sxx, syy, sxz, szz)
      /\ LawW(q, s) = EndZ(sxx, syy, sxy, sxz, syz, szz)
  BY DEF LawU, LawV, LawW
<1>3. /\ Same(xx, m * sxx) /\ Same(yy, m * syy) /\ Same(xy, m * sxy)
      /\ Same(xz, m * sxz) /\ Same(yz, m * syz) /\ Same(zz, m * szz)
  OBVIOUS
<1> HIDE DEF sxx, syy, szz, sxy, sxz, syz
<1>4. PICK u \in Fp, v \in Fp, w \in Fp :
        /\ CommonEnd(xx, yy, xy, xz, yz, zz) = <<u, v, w>>
        /\ Same(u, m * m * EndX(sxx, syy, sxy, sxz, syz, szz))
        /\ Same(v, m * m * EndY(sxx, syy, sxz, szz))
        /\ Same(w, m * m * EndZ(sxx, syy, sxy, sxz, syz, szz))
  <2>1. EndsWith(m, xx, yy, xy, xz, yz, zz, sxx, syy, sxy, sxz, syz, szz)
    BY <1>1, <1>3, EndIs
  <2> QED BY <2>1, Zenon DEF EndsWith
<1>5. PICK e \in Int : IsLaw(q, s, e) BY LawIsComplete
<1>6. <<u, v, w>> \in Representations(ChordSum(q, s))
  BY <1>2, <1>4, <1>5, LawInt, ResultIs, Zenon
<1> QED BY <1>4, <1>6

(* Addition of two variables.                                              *)
LEMMA ProjAddIs ==
  ASSUME IsCubic, NEW q \in CubicPoints, NEW s \in CubicPoints,
         NEW p \in Representations(q), NEW r \in Representations(s)
  PROVE  ProjAdd(p, r) \in Representations(ChordSum(q, s))
<1> DEFINE p1 == p[1]
           p2 == p[2]
           p3 == p[3]
           r1 == r[1]
           r2 == r[2]
           r3 == r[3]
           x1 == Px(q)
           y1 == Py(q)
           z1 == Pz(q)
           x2 == Px(s)
           y2 == Py(s)
           z2 == Pz(s)
           xx == Red(p1 * r1)
           yy == Red(p2 * r2)
           zz == Red(p3 * r3)
           xy == Cross(p1, p2, r1, r2)
           xz == Cross(p1, p3, r1, r3)
           yz == Cross(p2, p3, r2, r3)
<1>1. PICK c \in Int : ~Vanishes(c) /\ Stands(p, c, q) BY RepresentationHas
<1>2. PICK d \in Int : ~Vanishes(d) /\ Stands(r, d, s) BY RepresentationHas
<1>3. /\ p1 \in Int /\ p2 \in Int /\ p3 \in Int
      /\ r1 \in Int /\ r2 \in Int /\ r3 \in Int
  BY RepresentationHas
<1>4. /\ x1 \in Int /\ y1 \in Int /\ z1 \in Int
      /\ x2 \in Int /\ y2 \in Int /\ z2 \in Int
  BY PlainHas
<1>5. /\ Same(p1, c * x1) /\ Same(p2, c * y1) /\ Same(p3, c * z1)
      /\ Same(r1, d * x2) /\ Same(r2, d * y2) /\ Same(r3, d * z2)
  BY <1>1, <1>2 DEF Stands
<1>6. ProjAdd(p, r) = CommonEnd(xx, yy, xy, xz, yz, zz) BY DEF ProjAdd, Cross
<1> HIDE DEF p1, p2, p3, r1, r2, r3, x1, y1, z1, x2, y2, z2
<1>7. c * d \in Int /\ ~Vanishes(c * d) BY <1>1, <1>2, ProductIsNotZero
<1>8. /\ Crosses(c, p1, p2, x1, y1, d, r1, r2, x2, y2)
      /\ Crosses(c, p1, p3, x1, z1, d, r1, r3, x2, z2)
      /\ Crosses(c, p2, p3, y1, z1, d, r2, r3, y2, z2)
  BY <1>3, <1>4, <1>5, CrossIs
<1>9. /\ xx \in Int /\ Same(xx, c * d * (x1 * x2))
      /\ yy \in Int /\ Same(yy, c * d * (y1 * y2))
      /\ xy \in Int /\ Same(xy, c * d * (x1 * y2 + y1 * x2))
  BY <1>8, Zenon DEF Crosses
<1>10. /\ zz \in Int /\ Same(zz, c * d * (z1 * z2))
       /\ xz \in Int /\ Same(xz, c * d * (x1 * z2 + z1 * x2))
       /\ yz \in Int /\ Same(yz, c * d * (y1 * z2 + z1 * y2))
  BY <1>8, Zenon DEF Crosses
<1> DEFINE m == c * d
<1>12. m = c * d OBVIOUS
<1> HIDE DEF m, xx, yy, zz, xy, xz, yz
<1>11. CommonEnd(xx, yy, xy, xz, yz, zz) \in Representations(ChordSum(q, s))
  BY <1>7, <1>9, <1>10, <1>12, EndStands, Zenon DEF x1, y1, z1, x2, y2, z2
<1> QED BY <1>6, <1>11

(* Addition of a point that is not zero.                                   *)
LEMMA ProjAddMixedIs ==
  ASSUME IsCubic, NEW q \in CubicPoints, NEW s \in CubicPoints, s # Infinity,
         NEW p \in Representations(q)
  PROVE  ProjAddMixed(p, s) \in Representations(ChordSum(q, s))
<1> DEFINE p1 == p[1]
           p2 == p[2]
           p3 == p[3]
           x1 == Px(q)
           y1 == Py(q)
           z1 == Pz(q)
           x2 == s[1]
           y2 == s[2]
           xx == Red(p1 * x2)
           yy == Red(p2 * y2)
           xy == Cross(p1, p2, x2, y2)
           a  == x2 * p3 + p1
           b  == y2 * p3 + p2
           xz == Red(a)
           yz == Red(b)
<1>1. PICK c \in Int : ~Vanishes(c) /\ Stands(p, c, q) BY RepresentationHas
<1>2. p1 \in Int /\ p2 \in Int /\ p3 \in Int BY RepresentationHas
<1>3. x1 \in Int /\ y1 \in Int /\ z1 \in Int BY PlainHas
<1>4. x2 \in Int /\ y2 \in Int /\ Px(s) = x2 /\ Py(s) = y2 /\ Pz(s) = 1
  BY PlainHas, CubicHas
<1>5. Same(p1, c * x1) /\ Same(p2, c * y1) /\ Same(p3, c * z1)
  BY <1>1 DEF Stands
<1>6. ProjAddMixed(p, s) = CommonEnd(xx, yy, xy, xz, yz, p3) BY DEF ProjAddMixed, Cross
<1> HIDE DEF p1, p2, p3, x1, y1, z1, x2, y2
<1>7. Same(x2, 1 * x2) /\ Same(y2, 1 * y2)
  <2>1. x2 - 1 * x2 = 0 /\ y2 - 1 * y2 = 0 /\ 0 \in Fp BY <1>4, Modulus DEF Fp
  <2> QED BY <2>1, ElementZero DEF Same
<1>8. /\ xx \in Int /\ Same(xx, c * 1 * (x1 * x2))
      /\ yy \in Int /\ Same(yy, c * 1 * (y1 * y2))
      /\ xy \in Int /\ Same(xy, c * 1 * (x1 * y2 + y1 * x2))
  <2>1. 1 \in Int OBVIOUS
  <2>2. Crosses(c, p1, p2, x1, y1, 1, x2, y2, x2, y2)
    BY <1>2, <1>3, <1>4, <1>5, <1>7, <2>1, CrossIs
  <2> QED BY <2>2, Zenon DEF Crosses
<1>9. c * 1 = c OBVIOUS
<1>10. a \in Int /\ b \in Int BY <1>2, <1>4
<1>11. /\ xz \in Int /\ Same(xz, a) /\ yz \in Int /\ Same(yz, b)
  <2> HIDE DEF a, b
  <2> QED BY <1>10, RedSame
<1> HIDE DEF xx, yy, xy, xz, yz
<1>12. Same(xz, c * (x1 * 1 + z1 * x2))
  <2> DEFINE f1 == xz - a
             f2 == p1 - c * x1
             f3 == p3 - c * z1
  <2>1. 1 \in Int /\ f1 \in Int /\ f2 \in Int /\ x2 \in Int
        /\ f3 \in Int
    BY <1>2, <1>3, <1>4, <1>11
  <2>2. Vanishes(f1) /\ Vanishes(f2) /\ Vanishes(f3)
    BY <1>5, <1>11 DEF Same
  <2>3. Combine3(1, f1, 1, f2, x2, f3)
         = xz - (c * (x1 * 1 + z1 * x2))
    BY <1>2, <1>3, <1>4, <1>11 DEF Combine3
  <2> HIDE DEF f1, f2, f3
  <2>4. Vanishes(Combine3(1, f1, 1, f2, x2, f3))
    BY <2>1, <2>2, VanishesSum3, Zenon
  <2> QED BY <2>3, <2>4 DEF Same
<1>13. Same(yz, c * (y1 * 1 + z1 * y2))
  <2> DEFINE f1 == yz - b
             f2 == p2 - c * y1
             f3 == p3 - c * z1
  <2>1. 1 \in Int /\ f1 \in Int /\ f2 \in Int /\ y2 \in Int
        /\ f3 \in Int
    BY <1>2, <1>3, <1>4, <1>11
  <2>2. Vanishes(f1) /\ Vanishes(f2) /\ Vanishes(f3)
    BY <1>5, <1>11 DEF Same
  <2>3. Combine3(1, f1, 1, f2, y2, f3)
         = yz - (c * (y1 * 1 + z1 * y2))
    BY <1>2, <1>3, <1>4, <1>11 DEF Combine3
  <2> HIDE DEF f1, f2, f3
  <2>4. Vanishes(Combine3(1, f1, 1, f2, y2, f3))
    BY <2>1, <2>2, VanishesSum3, Zenon
  <2> QED BY <2>3, <2>4 DEF Same
<1>14. Same(p3, c * (z1 * 1))
  <2>1. z1 * 1 = z1 BY <1>3
  <2> QED BY <1>5, <2>1
<1>15. CommonEnd(xx, yy, xy, xz, yz, p3) \in Representations(ChordSum(q, s))
  BY <1>1, <1>2, <1>4, <1>8, <1>9, <1>11, <1>12, <1>13, <1>14, EndStands, Zenon
     DEF x1, y1, z1
<1> QED BY <1>6, <1>15

(* Doubled products of pairs of coordinates keep the factor.               *)
Squares(c, u, su, v, sv) ==
  /\ Red(u * v) \in Int /\ Same(Red(u * v), c * c * (su * sv))
  /\ Red(2 * u * v) \in Int /\ Same(Red(2 * u * v), c * c * (su * sv + sv * su))

(* The factor is squared.                                                  *)
LEMMA SquaresIs ==
  ASSUME NEW c \in Int, NEW u \in Int, NEW su \in Int, NEW v \in Int, NEW sv \in Int,
         Same(u, c * su), Same(v, c * sv)
  PROVE  Squares(c, u, su, v, sv)
<1> DEFINE a == u * v
           b == 2 * u * v
           n == c * c * (su * sv)
           m == c * c * (su * sv + sv * su)
<1>1. a \in Int /\ b \in Int /\ n \in Int /\ m \in Int OBVIOUS
<1>2. Same(a, n)
  <2> DEFINE f1 == u - c * su
             g2 == c * su
             f2 == v - c * sv
  <2>1. v \in Int /\ f1 \in Int /\ g2 \in Int /\ f2 \in Int
    OBVIOUS
  <2>2. Vanishes(f1) /\ Vanishes(f2)
    BY DEF Same
  <2>3. Combine(v, f1, g2, f2)
         = a - n
    BY DEF Combine
  <2> HIDE DEF f1, g2, f2
  <2>4. Vanishes(Combine(v, f1, g2, f2))
    BY <2>1, <2>2, VanishesSum, Zenon
  <2> QED BY <2>3, <2>4 DEF Same
<1>3. Same(b, m)
  <2> DEFINE g1 == 2 * v
             f1 == u - c * su
             g2 == 2 * (c * su)
             f2 == v - c * sv
  <2>1. g1 \in Int /\ f1 \in Int /\ g2 \in Int /\ f2 \in Int
    OBVIOUS
  <2>2. Vanishes(f1) /\ Vanishes(f2)
    BY DEF Same
  <2>3. Combine(g1, f1, g2, f2)
         = b - m
    BY DEF Combine
  <2> HIDE DEF g1, f1, g2, f2
  <2>4. Vanishes(Combine(g1, f1, g2, f2))
    BY <2>1, <2>2, VanishesSum, Zenon
  <2> QED BY <2>3, <2>4 DEF Same
<1> HIDE DEF a, b, n, m
<1>4. /\ Red(a) \in Int /\ Same(Red(a), a) /\ Red(b) \in Int /\ Same(Red(b), b)
  BY <1>1, RedSame
<1>5. Same(Red(a), n) /\ Same(Red(b), m) BY <1>1, <1>2, <1>3, <1>4, SameChain
<1> QED BY <1>4, <1>5, Zenon DEF Squares, a, b, n, m

(* The third coordinate of a double.                                       *)
LEMMA LawWOfDouble ==
  ASSUME IsCubic, NEW q \in CubicPoints
  PROVE  Same(LawW(q, q), 8 * (Py(q) * Py(q) * Py(q)) * Pz(q))
<1>1. CASE q = Infinity
  <2>1. Px(q) = 0 /\ Py(q) = 1 /\ Pz(q) = 0 BY <1>1, PlainHas
  <2>2. 0 * 0 = 0 /\ 1 * 1 = 1 /\ 0 * 1 + 1 * 0 = 0 /\ 0 * 0 + 0 * 0 = 0
        /\ 1 * 0 + 0 * 1 = 0 /\ 1 * 0 = 0
    OBVIOUS
  <2>3. LawW(q, q) = EndZ(0, 1, 0, 0, 0, 0) BY <2>1, <2>2, Zenon DEF LawW
  <2>4. EndZ(0, 1, 0, 0, 0, 0) = 1 * 0 BY EndOfZero
  <2>5. LawW(q, q) = 0 BY <2>2, <2>3, <2>4, Zenon
  <2>6. 0 \in Fp BY Modulus DEF Fp
  <2>7. 0 - 8 * (Py(q) * Py(q) * Py(q)) * Pz(q) = 0 BY <2>1
  <2> QED BY <2>5, <2>6, <2>7, ElementZero DEF Same
<1>2. CASE q # Infinity
  <2> DEFINE e == 8 * (q[2] * q[2] * q[2])
  <2>1. IsLaw(q, q, e) /\ ChordSum(q, q) # Infinity BY <1>2, LawOfDouble
  <2>2. Pz(ChordSum(q, q)) = 1 BY <2>1, ChordSumClosed, PlainHas
  <2>3. Py(q) = q[2] /\ Pz(q) = 1 /\ q[2] \in Int BY <1>2, PlainHas, CubicHas
  <2>4. Same(LawW(q, q), e * 1) BY <2>1, <2>2 DEF IsLaw
  <2> QED BY <2>3, <2>4, Zenon
<1> QED BY <1>1, <1>2

(* Doubling shares with the additions all but the third coordinate.        *)
LEMMA DoubleEnds ==
  ASSUME NEW p, IsCubic,
         NEW xx \in Int, NEW yy \in Int, NEW zz \in Int,
         NEW xy \in Int, NEW xz \in Int, NEW yz \in Int,
         xx = Red(p[1] * p[1]), yy = Red(p[2] * p[2]), zz = Red(p[3] * p[3]),
         xy = Red(2 * p[1] * p[2]), xz = Red(2 * p[1] * p[3]),
         yz = Red(2 * p[2] * p[3]),
         NEW u \in Fp, NEW v \in Fp, NEW w \in Fp,
         CommonEnd(xx, yy, xy, xz, yz, zz) = <<u, v, w>>
  PROVE  ProjDouble(p) = <<u, v, Red(4 * yz * yy)>>
<1> DEFINE a  == coeff_a
           b  == coeff_b
           bz == Red(a * xz + 3 * b * zz)
           az == Red(a * zz)
           t0 == 3 * xx + az
           t  == Red(t0)
           bx == Red(a * (xx - az) + 3 * b * xz)
           u0 == (yy - bz) * xy - bx * yz
           u1 == (yy - bz) * xy - yz * bx
           v0 == (yy + bz) * (yy - bz) + t0 * bx
           v1 == (yy + bz) * (yy - bz) + t * bx
<1>1. a \in Int /\ b \in Int BY CubicCoeffs
<1>2. ProjDouble(p) = <<Red(u0), Red(v0), Red(4 * yz * yy)>>
  BY DEF ProjDouble, Azz, ThreeB
<1>3. /\ CommonEnd(xx, yy, xy, xz, yz, zz)[1] = Red(u1)
      /\ CommonEnd(xx, yy, xy, xz, yz, zz)[2] = Red(v1)
  BY DEF CommonEnd, Azz, ThreeB
<1>4. u = Red(u1) /\ v = Red(v1) BY <1>3
<1> HIDE DEF a, b
<1>5. a * xz + 3 * b * zz \in Int /\ a * zz \in Int BY <1>1
<1>6. bz \in Int /\ az \in Int BY <1>5, RedRemainder
<1> HIDE DEF bz, az
<1>7. a * (xx - az) + 3 * b * xz \in Int /\ t0 \in Int BY <1>1, <1>6
<1> HIDE DEF t0
<1>8. bx \in Int /\ t \in Int /\ Same(t, t0) BY <1>7, RedSame
<1> HIDE DEF bx, t
<1>9. u0 = u1 BY <1>6, <1>8
<1>10. v0 \in Int /\ v1 \in Int BY <1>6, <1>7, <1>8
<1>11. Vanishes(v1 - v0)
  <2> DEFINE f1 == t - t0
  <2>1. bx \in Int /\ f1 \in Int /\ 0 \in Int
    BY <1>6, <1>7, <1>8
  <2>2. Vanishes(f1)
    BY <1>8 DEF Same
  <2>3. Combine(bx, f1, 0, f1)
         = v1 - v0
    BY <1>6, <1>7, <1>8 DEF Combine
  <2> HIDE DEF f1
  <2>4. Vanishes(Combine(bx, f1, 0, f1))
    BY <2>1, <2>2, VanishesSum, Zenon
  <2> QED BY <2>3, <2>4
<1> HIDE DEF u0, u1, v0, v1
<1>12. Red(v1) = Red(v0) BY <1>10, <1>11, RedEqual
<1> QED BY <1>2, <1>4, <1>9, <1>12

(* Doubling.                                                               *)
LEMMA ProjDoubleIs ==
  ASSUME IsCubic, NEW q \in CubicPoints, NEW p \in Representations(q)
  PROVE  ProjDouble(p) \in Representations(ChordSum(q, q))
<1> DEFINE p1 == p[1]
           p2 == p[2]
           p3 == p[3]
           x  == Px(q)
           y  == Py(q)
           z  == Pz(q)
           xx == Red(p1 * p1)
           yy == Red(p2 * p2)
           zz == Red(p3 * p3)
           xy == Red(2 * p1 * p2)
           xz == Red(2 * p1 * p3)
           yz == Red(2 * p2 * p3)

<1>1. PICK c \in Int : ~Vanishes(c) /\ Stands(p, c, q) BY RepresentationHas
<1>2. p1 \in Int /\ p2 \in Int /\ p3 \in Int BY RepresentationHas
<1>3. x \in Int /\ y \in Int /\ z \in Int BY PlainHas
<1>4. Same(p1, c * x) /\ Same(p2, c * y) /\ Same(p3, c * z) BY <1>1 DEF Stands
<1> DEFINE sxx == x * x
           syy == y * y
           szz == z * z
           sxy == x * y + y * x
           sxz == x * z + z * x
           syz == y * z + z * y
<1>5. /\ LawU(q, q) = EndX(sxx, syy, sxy, sxz, syz, szz)
      /\ LawV(q, q) = EndY(sxx, syy, sxz, szz)
      /\ LawW(q, q) = EndZ(sxx, syy, sxy, sxz, syz, szz)
  BY DEF LawU, LawV, LawW
<1> HIDE DEF p1, p2, p3, x, y, z
<1>6. /\ Squares(c, p1, x, p1, x) /\ Squares(c, p2, y, p2, y) /\ Squares(c, p3, z, p3, z)
      /\ Squares(c, p1, x, p2, y) /\ Squares(c, p1, x, p3, z) /\ Squares(c, p2, y, p3, z)
  BY <1>2, <1>3, <1>4, SquaresIs
<1>7. /\ xx \in Int /\ Same(xx, c * c * sxx) /\ yy \in Int /\ Same(yy, c * c * syy)
      /\ zz \in Int /\ Same(zz, c * c * szz) /\ xy \in Int /\ Same(xy, c * c * sxy)
  BY <1>6, Zenon DEF Squares
<1>8. xz \in Int /\ Same(xz, c * c * sxz) /\ yz \in Int /\ Same(yz, c * c * syz)
  BY <1>6, Zenon DEF Squares
<1> DEFINE m == c * c
<1>9. m = c * c /\ m \in Int /\ ~Vanishes(m) BY <1>1, ProductIsNotZero
<1>10. /\ sxx \in Int /\ syy \in Int /\ szz \in Int
       /\ sxy \in Int /\ sxz \in Int /\ syz \in Int
  BY <1>3
<1>11. /\ xx = Red(p[1] * p[1]) /\ yy = Red(p[2] * p[2]) /\ zz = Red(p[3] * p[3])
       /\ xy = Red(2 * p[1] * p[2]) /\ xz = Red(2 * p[1] * p[3])
       /\ yz = Red(2 * p[2] * p[3])
  BY DEF p1, p2, p3
<1>12. 8 * (y * y * y) * z \in Int BY <1>3
<1>13. Same(LawW(q, q), 8 * (y * y * y) * z) BY LawWOfDouble DEF y, z
<1> HIDE DEF m, xx, yy, zz, xy, xz, yz
<1>14. /\ Same(xx, m * sxx) /\ Same(yy, m * syy) /\ Same(zz, m * szz)
       /\ Same(xy, m * sxy) /\ Same(xz, m * sxz) /\ Same(yz, m * syz)
  BY <1>7, <1>8, <1>9, Zenon
<1>15. syz = 2 * (y * z) /\ syy = y * y BY <1>3
<1> HIDE DEF sxx, syy, szz, sxy, sxz, syz
<1>16. EndsWith(m, xx, yy, xy, xz, yz, zz, sxx, syy, sxy, sxz, syz, szz)
  BY <1>7, <1>8, <1>9, <1>10, <1>14, EndIs
<1>17. PICK u \in Fp, v \in Fp, w \in Fp :
         /\ CommonEnd(xx, yy, xy, xz, yz, zz) = <<u, v, w>>
         /\ Same(u, m * m * LawU(q, q)) /\ Same(v, m * m * LawV(q, q))
  BY <1>5, <1>16, Zenon DEF EndsWith
<1> DEFINE f == 4 * yz * yy
           r == Red(f)
<1>18. ProjDouble(p) = <<u, v, r>>
  BY <1>7, <1>8, <1>11, <1>17, DoubleEnds
<1>19. f \in Int BY <1>7, <1>8
<1> HIDE DEF f
<1>20. r \in Fp /\ r \in Int /\ Same(r, f) BY <1>19, RedSame
<1> HIDE DEF r
<1> DEFINE g == LawW(q, q)
<1>21. g \in Int /\ LawU(q, q) \in Int /\ LawV(q, q) \in Int BY LawInt
<1>22. Same(g, 8 * (y * y * y) * z) BY <1>13
<1> HIDE DEF g
<1>23. Same(r, m * m * g)
  <2> DEFINE f1 == r - f
             g2 == 4 * yy
             f2 == yz - m * syz
             g3 == 4 * (m * syz)
             f3 == yy - m * syy
             g4 == - (m * m)
             f4 == g - 8 * (y * y * y) * z
  <2>1. 1 \in Int /\ f1 \in Int /\ g2 \in Int /\ f2 \in Int
        /\ g3 \in Int /\ f3 \in Int /\ g4 \in Int /\ f4 \in Int
    BY <1>3, <1>7, <1>8, <1>9, <1>10, <1>12, <1>19, <1>20, <1>21
  <2>2. Vanishes(f1) /\ Vanishes(f2) /\ Vanishes(f3) /\ Vanishes(f4)
    BY <1>14, <1>20, <1>22 DEF Same
  <2>3. Combine4(1, f1, g2, f2, g3, f3, g4, f4)
         = r - m * m * g
    BY <1>3, <1>7, <1>8, <1>9, <1>15, <1>19, <1>20, <1>21 DEF Combine4, f
  <2> HIDE DEF f1, g2, f2, g3, f3, g4, f4
  <2>4. Vanishes(Combine4(1, f1, g2, f2, g3, f3, g4, f4))
    BY <2>1, <2>2, VanishesSum4, Zenon
  <2> QED BY <2>3, <2>4 DEF Same
<1>24. <<u, v, r>> \in Representations(ChordSum(q, q))
  <2>1. LawW(q, q) \in Int /\ Same(r, m * m * LawW(q, q)) BY <1>21, <1>23 DEF g
  <2>2. m \in Int /\ ~Vanishes(m) BY <1>9
  <2>3. PICK e \in Int : IsLaw(q, q, e) BY LawIsComplete
  <2> QED BY <1>17, <1>20, <1>21, <2>1, <2>2, <2>3, ResultIs
<1> QED BY <1>18, <1>24

(* Negation.                                                               *)
LEMMA ProjNegateIs ==
  ASSUME IsCubic, NEW q \in CubicPoints, NEW p \in Representations(q)
  PROVE  ProjNegate(p) \in Representations(Mirror(q))
<1> DEFINE s  == Mirror(q)
           p1 == p[1]
           p2 == p[2]
           p3 == p[3]
           n  == Red(- p2)
<1>1. PICK c \in Int : ~Vanishes(c) /\ Stands(p, c, q) BY RepresentationHas
<1>2. /\ p1 \in Fp /\ p2 \in Fp /\ p3 \in Fp
      /\ p1 \in Int /\ p2 \in Int /\ p3 \in Int
  BY RepresentationHas, ElementRed
<1>3. ProjNegate(p) = <<p1, n, p3>> BY DEF ProjNegate
<1>4. s \in CubicPoints BY MirrorIs
<1>5. /\ Px(q) \in Int /\ Py(q) \in Int /\ Pz(q) \in Int
      /\ Px(s) \in Int /\ Py(s) \in Int /\ Pz(s) \in Int
  BY <1>4, PlainHas
<1>6. Same(p1, c * Px(q)) /\ Same(p2, c * Py(q)) /\ Same(p3, c * Pz(q))
  BY <1>1 DEF Stands
<1>7. - p2 \in Int BY <1>2
<1>8. n \in Fp /\ n \in Int /\ Same(n, - p2) BY <1>7, RedSame
<1> HIDE DEF n
<1>9. CASE q = Infinity
  <2>1. /\ s = q /\ Px(q) = 0 /\ Py(q) = 1 /\ Pz(q) = 0 BY <1>9, MirrorIs, PlainHas
  <2> DEFINE d == - c
  <2>2. d \in Int /\ d = - 1 * c BY <1>1
  <2>3. ~Vanishes(d)
    <3> SUFFICES ASSUME Vanishes(d) PROVE FALSE OBVIOUS
    <3> HIDE DEF d
    <3>1. Vanishes(c)
      <4>1. -1 \in Int /\ d \in Int /\ 0 \in Int
        BY <1>1, <2>2
      <4>2. Vanishes(d)
        OBVIOUS
      <4>3. Combine(-1, d, 0, d)
             = c
        BY <1>1, <2>2 DEF Combine
      <4>4. Vanishes(Combine(-1, d, 0, d))
        BY <4>1, <4>2, VanishesSum, Zenon
      <4> QED BY <4>3, <4>4
    <3> QED BY <1>1, <3>1
  <2>4. d * Px(q) = c * Px(q) /\ d * Pz(q) = c * Pz(q) BY <1>1, <2>1
  <2>5. Same(n, d * Py(q))
    <3> DEFINE f1 == n - (- p2)
               f2 == p2 - c * Py(q)
    <3>1. 1 \in Int /\ f1 \in Int /\ -1 \in Int /\ f2 \in Int
      BY <1>1, <1>2, <1>5, <1>8
    <3>2. Vanishes(f1) /\ Vanishes(f2)
      BY <1>6, <1>8 DEF Same
    <3>3. Combine(1, f1, -1, f2)
           = n - d * Py(q)
      BY <1>1, <1>2, <1>5, <1>8 DEF Combine
    <3> HIDE DEF f1, f2
    <3>4. Vanishes(Combine(1, f1, -1, f2))
      BY <3>1, <3>2, VanishesSum, Zenon
    <3> QED BY <3>3, <3>4 DEF Same
  <2>6. Stands(<<p1, n, p3>>, d, q) BY <1>6, <2>4, <2>5 DEF Stands
  <2>7. <<p1, n, p3>> \in Representations(q)
    <3> HIDE DEF d, p1, p3
    <3> QED BY <1>2, <1>8, <2>2, <2>3, <2>6, RepresentationIs
  <2> QED BY <1>3, <2>1, <2>7
<1>10. CASE q # Infinity
  <2>1. s # Infinity /\ s[1] = q[1] /\ s[2] \in Int /\ Same(s[2], - q[2])
    BY <1>10, MirrorIs
  <2>2. /\ Px(s) = Px(q) /\ Pz(s) = Pz(q) /\ Same(Py(s), - Py(q))
    BY <1>4, <1>10, <2>1, PlainHas
  <2>3. Same(n, c * Py(s))
    <3> DEFINE f1 == n - (- p2)
               f2 == p2 - c * Py(q)
               g3 == - c
               f3 == Py(s) - (- Py(q))
    <3>1. 1 \in Int /\ f1 \in Int /\ -1 \in Int /\ f2 \in Int
          /\ g3 \in Int /\ f3 \in Int
      BY <1>1, <1>2, <1>5, <1>8
    <3>2. Vanishes(f1) /\ Vanishes(f2) /\ Vanishes(f3)
      BY <1>6, <1>8, <2>2 DEF Same
    <3>3. Combine3(1, f1, -1, f2, g3, f3)
           = n - c * Py(s)
      BY <1>1, <1>2, <1>5, <1>8 DEF Combine3
    <3> HIDE DEF f1, f2, g3, f3
    <3>4. Vanishes(Combine3(1, f1, -1, f2, g3, f3))
      BY <3>1, <3>2, VanishesSum3, Zenon
    <3> QED BY <3>3, <3>4 DEF Same
  <2>4. Stands(<<p1, n, p3>>, c, s) BY <1>6, <2>2, <2>3 DEF Stands
  <2>5. <<p1, n, p3>> \in Representations(s)
    <3> HIDE DEF s, p1, p3
    <3> QED BY <1>1, <1>2, <1>4, <1>8, <2>4, RepresentationIs
  <2> QED BY <1>3, <2>5
<1> QED BY <1>9, <1>10

(* Subtraction.                                                            *)
LEMMA ProjSubIs ==
  ASSUME IsCubic, NEW q \in CubicPoints, NEW s \in CubicPoints,
         NEW p \in Representations(q), NEW r \in Representations(s)
  PROVE  ProjSub(p, r) \in Representations(ChordSum(q, Mirror(s)))
<1>1. Mirror(s) \in CubicPoints /\ ProjNegate(r) \in Representations(Mirror(s))
  BY MirrorIs, ProjNegateIs
<1> QED BY <1>1, ProjAddIs DEF ProjSub

(* Addition of a constant.                                                 *)
LEMMA ProjAddConstantIs ==
  ASSUME IsCubic, NEW q \in CubicPoints, NEW s \in CubicPoints,
         NEW p \in Representations(q)
  PROVE  ProjAddConstant(p, s) \in Representations(ChordSum(q, s))
<1>1. CASE s = Infinity
  BY <1>1 DEF ProjAddConstant, ChordSum
<1>2. CASE s # Infinity
  BY <1>2, ProjAddMixedIs DEF ProjAddConstant
<1> QED BY <1>1, <1>2

(* Allocation from a point.                                                *)
LEMMA ProjAllocatedIs ==
  ASSUME IsCubic, NEW q \in CubicPoints
  PROVE  ProjAllocated(q) \in Representations(q)
<1> DEFINE p == ProjAllocated(q)
<1>1. 0 \in Fp /\ 1 \in Fp BY Modulus DEF Fp
<1>2. p = <<Px(q), Py(q), Pz(q)>> /\ Px(q) \in Fp /\ Py(q) \in Fp /\ Pz(q) \in Fp
  <2>1. CASE q = Infinity BY <1>1, <2>1, PlainHas DEF ProjAllocated
  <2>2. CASE q # Infinity BY <1>1, <2>2, PlainHas, CubicHas DEF ProjAllocated
  <2> QED BY <2>1, <2>2
<1>3. Px(q) \in Int /\ Py(q) \in Int /\ Pz(q) \in Int BY PlainHas
<1>4. ASSUME NEW k \in Int PROVE Same(k, 1 * k)
  <2>1. k - 1 * k = 0 OBVIOUS
  <2> QED BY <1>1, <2>1, ElementZero DEF Same
<1>5. Stands(<<Px(q), Py(q), Pz(q)>>, 1, q) BY <1>3, <1>4 DEF Stands
<1>6. 1 \in Int /\ ~Vanishes(1) BY OneIsNotZero
<1> QED BY <1>2, <1>5, <1>6, RepresentationIs

-----------------------------------------------------------------------------
(* The checked allocation.                                                 *)

(* Coordinates that pass the check, whose third is zero.                   *)
LEMMA CheckedZero ==
  ASSUME IsCubic, NEW p1 \in Fp, NEW p2 \in Fp, <<p1, p2, 0>> # <<0, 0, 0>>,
         OnCubicCheck(<<p1, p2, 0>>)
  PROVE  <<p1, p2, 0>> \in Representations(Infinity)
<1> DEFINE k == p1 * (p1 * p1 + coeff_a * 0 * 0)
           e == 0 * (p2 * p2 - coeff_b * 0 * 0)
           t == Red(k)
<1>1. p1 \in Int /\ p2 \in Int /\ coeff_a \in Int /\ coeff_b \in Int
  BY ElementRed, CubicCoeffs
<1>2. Red(e - t) = 0 BY DEF OnCubicCheck
<1>3. e = 0 /\ k = p1 * (p1 * p1) BY <1>1
<1>4. k \in Int BY <1>1
<1> HIDE DEF k, e
<1>5. t \in Int /\ Same(t, k) BY <1>4, RedSame
<1> HIDE DEF t
<1>6. Vanishes(e - t) BY <1>2 DEF Vanishes
<1>7. Vanishes(p1 * (p1 * p1))
  <2> DEFINE f1 == e - t
             f2 == t - k
  <2>1. -1 \in Int /\ f1 \in Int /\ f2 \in Int
    BY <1>1, <1>3, <1>4, <1>5
  <2>2. Vanishes(f1) /\ Vanishes(f2)
    BY <1>5, <1>6 DEF Same
  <2>3. Combine(-1, f1, -1, f2)
         = p1 * (p1 * p1)
    BY <1>1, <1>3, <1>4, <1>5 DEF Combine
  <2> HIDE DEF f1, f2
  <2>4. Vanishes(Combine(-1, f1, -1, f2))
    BY <2>1, <2>2, VanishesSum, Zenon
  <2> QED BY <2>3, <2>4
<1>8. p1 = 0
  <2> SUFFICES ASSUME ~Vanishes(p1) PROVE FALSE BY ElementZero
  <2> DEFINE s == p1 * p1
  <2>1. s \in Int /\ ~Vanishes(s) BY <1>1, ProductIsNotZero
  <2> HIDE DEF s
  <2>2. ~Vanishes(p1 * s) BY <1>1, <2>1, ProductIsNotZero
  <2> QED BY <1>7, <2>2 DEF s
<1>9. p2 \in 1 .. P - 1 BY <1>1, <1>8, Modulus DEF Fp
<1> QED BY <1>8, <1>9 DEF Representations

(* Coordinates that pass it, whose third is not.                           *)
LEMMA CheckedAffine ==
  ASSUME IsCubic, NEW p1 \in Fp, NEW p2 \in Fp, NEW p3 \in Fp, p3 # 0,
         OnCubicCheck(<<p1, p2, p3>>)
  PROVE  LET inv == Inverse0(p3)
             q == <<Red(p1 * inv), Red(p2 * inv)>>
         IN q \in CubicPoints /\ <<p1, p2, p3>> \in Representations(q)
<1> DEFINE a == coeff_a
           b == coeff_b
           inv == Inverse0(p3)
           x == Red(p1 * inv)
           y == Red(p2 * inv)
           q == <<x, y>>
           k == p1 * (p1 * p1 + a * p3 * p3)
           e == p3 * (p2 * p2 - b * p3 * p3)
           t == Red(k)
<1>1. /\ p1 \in Int /\ p2 \in Int /\ p3 \in Int /\ a \in Int /\ b \in Int
      /\ ~Vanishes(p3)
  BY ElementRed, ElementZero, CubicCoeffs
<1>2. Red(e - t) = 0 BY DEF OnCubicCheck
<1>3. inv \in Int /\ Vanishes(inv * p3 - 1) BY <1>1, InverseIs
<1> HIDE DEF inv, a, b
<1>4. k \in Int /\ e \in Int /\ p1 * inv \in Int /\ p2 * inv \in Int BY <1>1, <1>3
<1>5. x \in Fp /\ x \in Int /\ Same(x, p1 * inv) /\ y \in Fp /\ y \in Int /\ Same(y, p2 * inv)
  BY <1>4, RedSame
<1> HIDE DEF x, y
<1>6. t \in Int /\ Same(t, k)
  <2> HIDE DEF k
  <2> QED BY <1>4, RedSame
<1> HIDE DEF t
<1>7. Vanishes(e - t) BY <1>2 DEF Vanishes
<1>8. Same(p1, p3 * x)
  <2> DEFINE g1 == - p3
             f1 == x - p1 * inv
             g2 == - p1
             f2 == inv * p3 - 1
  <2>1. g1 \in Int /\ f1 \in Int /\ g2 \in Int /\ f2 \in Int
    BY <1>1, <1>3, <1>5
  <2>2. Vanishes(f1) /\ Vanishes(f2)
    BY <1>3, <1>5 DEF Same
  <2>3. Combine(g1, f1, g2, f2)
         = p1 - p3 * x
    BY <1>1, <1>3, <1>5 DEF Combine
  <2> HIDE DEF g1, f1, g2, f2
  <2>4. Vanishes(Combine(g1, f1, g2, f2))
    BY <2>1, <2>2, VanishesSum, Zenon
  <2> QED BY <2>3, <2>4 DEF Same
<1>9. Same(p2, p3 * y)
  <2> DEFINE g1 == - p3
             f1 == y - p2 * inv
             g2 == - p2
             f2 == inv * p3 - 1
  <2>1. g1 \in Int /\ f1 \in Int /\ g2 \in Int /\ f2 \in Int
    BY <1>1, <1>3, <1>5
  <2>2. Vanishes(f1) /\ Vanishes(f2)
    BY <1>3, <1>5 DEF Same
  <2>3. Combine(g1, f1, g2, f2)
         = p2 - p3 * y
    BY <1>1, <1>3, <1>5 DEF Combine
  <2> HIDE DEF g1, f1, g2, f2
  <2>4. Vanishes(Combine(g1, f1, g2, f2))
    BY <2>1, <2>2, VanishesSum, Zenon
  <2> QED BY <2>3, <2>4 DEF Same
<1> DEFINE c == Cubic(x, y)
           z == e - k
           d == p3 * p3 * p3
           u == p1 - p3 * x
           v == p2 - p3 * y
           w == p3 * x
<1>10. c = y * y - x * x * x - a * x - b BY DEF Cubic, a, b
<1> HIDE DEF c
<1>11. c \in Int BY <1>1, <1>5, <1>10
<1>12. z \in Int BY <1>4
<1>13. Vanishes(z)
  <2> DEFINE f1 == e - t
             f2 == t - k
  <2>1. 1 \in Int /\ f1 \in Int /\ f2 \in Int
    BY <1>4, <1>6
  <2>2. Vanishes(f1) /\ Vanishes(f2)
    BY <1>6, <1>7 DEF Same
  <2>3. Combine(1, f1, 1, f2)
         = z
    BY <1>4, <1>6 DEF Combine
  <2> HIDE DEF f1, f2
  <2>4. Vanishes(Combine(1, f1, 1, f2))
    BY <2>1, <2>2, VanishesSum, Zenon
  <2> QED BY <2>3, <2>4
<1>14. Vanishes(d * c)
  <2> DEFINE g2 == - (p3 * (p2 + p3 * y))
             g3 == p1 * p1 + p1 * w + w * w + a * p3 * p3
  <2>1. 1 \in Int /\ z \in Int /\ g2 \in Int /\ v \in Int
        /\ g3 \in Int /\ u \in Int
    BY <1>1, <1>5, <1>12
  <2>2. Vanishes(z) /\ Vanishes(v) /\ Vanishes(u)
    BY <1>8, <1>9, <1>13 DEF Same
  <2>3. Combine3(1, z, g2, v, g3, u)
         = d * c
    BY <1>1, <1>4, <1>5, <1>10 DEF Combine3
  <2> HIDE DEF g2, g3
  <2>4. Vanishes(Combine3(1, z, g2, v, g3, u))
    BY <2>1, <2>2, VanishesSum3, Zenon
  <2> QED BY <2>3, <2>4
<1>15. d \in Int /\ ~Vanishes(d)
  <2> DEFINE f == p3 * p3
  <2>1. f \in Int /\ ~Vanishes(f) BY <1>1, ProductIsNotZero
  <2> HIDE DEF f
  <2>2. f * p3 \in Int /\ ~Vanishes(f * p3) BY <1>1, <2>1, ProductIsNotZero
  <2> QED BY <2>2 DEF f
<1>16. Vanishes(c)
  <2> HIDE DEF d
  <2> QED BY <1>11, <1>14, <1>15, NoZeroDivisors
<1>17. q \in CubicPoints /\ q # Infinity BY <1>5, <1>16, CubicIs DEF c
<1>18. Px(q) = x /\ Py(q) = y /\ Pz(q) = 1 BY <1>17, PlainHas
<1>19. Same(p3, p3 * 1)
  <2>1. p3 - p3 * 1 = 0 /\ 0 \in Fp BY <1>1, Modulus DEF Fp
  <2> QED BY <2>1, ElementZero DEF Same
<1> HIDE DEF q
<1>20. Stands(<<p1, p2, p3>>, p3, q) BY <1>8, <1>9, <1>18, <1>19 DEF Stands
<1>21. <<p1, p2, p3>> \in Representations(q) BY <1>1, <1>17, <1>20, RepresentationIs
<1> QED BY <1>17, <1>21 DEF q, x, y, inv

-----------------------------------------------------------------------------
(* What is read from the coordinates.                                      *)

(* The third coordinate tells zero.                                        *)
LEMMA ZeroIs ==
  ASSUME NEW q \in CubicPoints, NEW p \in Representations(q)
  PROVE  IsZero(p) <=> q = Infinity
<1>1. PICK c \in Int : ~Vanishes(c) /\ Stands(p, c, q) BY RepresentationHas
<1>2. p[3] \in Fp /\ p[3] \in Int BY RepresentationHas
<1>3. Same(p[3], c * Pz(q)) BY <1>1 DEF Stands
<1>4. CASE q = Infinity
  <2>1. Pz(q) = 0 BY <1>4, PlainHas
  <2>2. p[3] - c * 0 = p[3] BY <1>1, <1>2
  <2> QED BY <1>2, <1>3, <1>4, <2>1, <2>2, ElementZero DEF Same, IsZero
<1>5. CASE q # Infinity
  <2>1. Pz(q) = 1 /\ c * 1 = c BY <1>1, <1>5, PlainHas
  <2>2. ~Vanishes(p[3]) BY <1>1, <1>2, <1>3, <2>1, SameVanishes
  <2> QED BY <1>2, <1>5, <2>2, ElementZero DEF IsZero
<1> QED BY <1>4, <1>5

(* to_affine.                                                              *)
LEMMA ToAffineIs ==
  ASSUME NEW q \in CubicPoints, NEW p \in Representations(q)
  PROVE  /\ ZInverses(p) # {}
         /\ \A inv \in ZInverses(p) :
              ToAffine(p, inv) = IF q = Infinity THEN <<0, 0, TRUE>>
                               ELSE <<q[1], q[2], FALSE>>
<1>1. CASE q = Infinity
  <2>1. IsZero(p) BY <1>1, ZeroIs
  <2>2. p[3] = 0 /\ 0 * 0 - 0 = 0 /\ 0 \in Fp BY <2>1, Modulus DEF IsZero, Fp
  <2>3. Red(0) = 0 BY <2>2, ElementRed
  <2>4. 0 \in ZInverses(p) BY <2>1, <2>2, <2>3, Zenon DEF ZInverses, Quotients
  <2> QED BY <1>1, <2>1, <2>4 DEF ToAffine
<1>2. CASE q # Infinity
  <2>1. ~IsZero(p) BY <1>2, ZeroIs
  <2>2. PICK c \in Int : ~Vanishes(c) /\ Stands(p, c, q) BY RepresentationHas
  <2> DEFINE p1 == p[1]
             p2 == p[2]
             p3 == p[3]
             x  == q[1]
             y  == q[2]
             z  == Red(1 * Inverse0(p3))
  <2>3. /\ p1 \in Int /\ p2 \in Int /\ p3 \in Int /\ p3 \in Fp
        /\ x \in Int /\ y \in Int /\ x \in Fp /\ y \in Fp
    BY <1>2, RepresentationHas, CubicHas
  <2>4. ~Vanishes(p3) BY <2>1, <2>3, ElementZero DEF IsZero
  <2>5. Px(q) = x /\ Py(q) = y /\ Pz(q) = 1 BY <1>2, PlainHas
  <2>6. Same(p1, c * x) /\ Same(p2, c * y) /\ Same(p3, c * 1)
    BY <2>2, <2>5 DEF Stands
  <2>7. ZInverses(p) = Quotients(1, p3) BY <2>1 DEF ZInverses
  <2>8. /\ ToAffine(p, z) = <<Red(p1 * z), Red(p2 * z), FALSE>>
    BY <2>1 DEF ToAffine
  <2> HIDE DEF p1, p2, p3, x, y
  <2>9. z \in Fp /\ Vanishes(z * p3 - 1) BY <2>3, <2>4, DivisionIs
  <2> HIDE DEF z
  <2>10. z \in Int BY <2>9, ElementRed
  <2>11. Quotients(1, p3) = {z} BY <2>3, <2>4, <2>9, QuotientIs
  <2>12. ASSUME NEW r \in Int, NEW s \in Fp, Same(r, c * s) PROVE Red(r * z) = s
    <3>1. s \in Int /\ r * z \in Int BY <2>10, ElementRed
    <3>2. Same(r * z, s)
      <4> DEFINE f1 == r - c * s
                 g2 == - (s * z)
                 f2 == p3 - c * 1
                 f3 == z * p3 - 1
      <4>1. z \in Int /\ f1 \in Int /\ g2 \in Int /\ f2 \in Int
            /\ s \in Int /\ f3 \in Int
        BY <2>2, <2>3, <2>10, <3>1
      <4>2. Vanishes(f1) /\ Vanishes(f2) /\ Vanishes(f3)
        BY <2>6, <2>9, <2>12 DEF Same
      <4>3. Combine3(z, f1, g2, f2, s, f3)
             = r * z - s
        BY <2>2, <2>3, <2>10, <3>1 DEF Combine3
      <4> HIDE DEF f1, g2, f2, f3
      <4>4. Vanishes(Combine3(z, f1, g2, f2, s, f3))
        BY <4>1, <4>2, VanishesSum3, Zenon
      <4> QED BY <4>3, <4>4 DEF Same
    <3> DEFINE e == r * z
    <3>3. e \in Int /\ Same(e, s) BY <3>1, <3>2
    <3> HIDE DEF e
    <3>4. Red(e) = Red(s) BY <3>1, <3>3, RedEqual DEF Same
    <3> QED BY <3>4, ElementRed DEF e
  <2>13. Red(p1 * z) = x /\ Red(p2 * z) = y BY <2>3, <2>6, <2>12
  <2> QED BY <1>2, <2>7, <2>8, <2>11, <2>13 DEF x, y
<1> QED BY <1>1, <1>2

(* is_eq.                                                                  *)
LEMMA IsEqIs ==
  ASSUME IsCubic, NEW q \in CubicPoints, NEW s \in CubicPoints,
         NEW p \in Representations(q), NEW r \in Representations(s)
  PROVE  ProjIsEq(p, r) <=> q = s
<1> DEFINE p1 == p[1]
           p2 == p[2]
           p3 == p[3]
           r1 == r[1]
           r2 == r[2]
           r3 == r[3]
           x1 == Px(q)
           y1 == Py(q)
           z1 == Pz(q)
           x2 == Px(s)
           y2 == Py(s)
           z2 == Pz(s)
           h  == p1 * r3 - r1 * p3
           v  == p2 * r3 - r2 * p3
           ih == x1 * z2 - x2 * z1
           iv == y1 * z2 - y2 * z1
<1>1. PICK c \in Int : ~Vanishes(c) /\ Stands(p, c, q) BY RepresentationHas
<1>2. PICK d \in Int : ~Vanishes(d) /\ Stands(r, d, s) BY RepresentationHas
<1>3. /\ p1 \in Int /\ p2 \in Int /\ p3 \in Int
      /\ r1 \in Int /\ r2 \in Int /\ r3 \in Int
  BY RepresentationHas
<1>4. /\ x1 \in Int /\ y1 \in Int /\ z1 \in Int
      /\ x2 \in Int /\ y2 \in Int /\ z2 \in Int
  BY PlainHas
<1>5. /\ Same(p1, c * x1) /\ Same(p2, c * y1) /\ Same(p3, c * z1)
      /\ Same(r1, d * x2) /\ Same(r2, d * y2) /\ Same(r3, d * z2)
  BY <1>1, <1>2 DEF Stands
<1>6. ProjIsEq(p, r) <=> \/ q = Infinity /\ s = Infinity
                         \/ Vanishes(h) /\ Vanishes(v)
  BY ZeroIs DEF ProjIsEq, Vanishes
<1> DEFINE m == c * d
<1>7. m \in Int /\ ~Vanishes(m) BY <1>1, <1>2, ProductIsNotZero
<1>8. h \in Int /\ v \in Int /\ ih \in Int /\ iv \in Int BY <1>3, <1>4
<1> HIDE DEF p1, p2, p3, r1, r2, r3, x1, y1, z1, x2, y2, z2
<1>9. Same(h, m * ih)
  <2> DEFINE f1 == p1 - c * x1
             g2 == c * x1
             f2 == r3 - d * z2
             g3 == - p3
             f3 == r1 - d * x2
             g4 == - (d * x2)
             f4 == p3 - c * z1
  <2>1. r3 \in Int /\ f1 \in Int /\ g2 \in Int /\ f2 \in Int
        /\ g3 \in Int /\ f3 \in Int /\ g4 \in Int /\ f4 \in Int
    BY <1>1, <1>2, <1>3, <1>4
  <2>2. Vanishes(f1) /\ Vanishes(f2) /\ Vanishes(f3) /\ Vanishes(f4)
    BY <1>5 DEF Same
  <2>3. Combine4(r3, f1, g2, f2, g3, f3, g4, f4)
         = h - m * ih
    BY <1>1, <1>2, <1>3, <1>4 DEF Combine4
  <2> HIDE DEF f1, g2, f2, g3, f3, g4, f4
  <2>4. Vanishes(Combine4(r3, f1, g2, f2, g3, f3, g4, f4))
    BY <2>1, <2>2, VanishesSum4, Zenon
  <2> QED BY <2>3, <2>4 DEF Same
<1>10. Same(v, m * iv)
  <2> DEFINE f1 == p2 - c * y1
             g2 == c * y1
             f2 == r3 - d * z2
             g3 == - p3
             f3 == r2 - d * y2
             g4 == - (d * y2)
             f4 == p3 - c * z1
  <2>1. r3 \in Int /\ f1 \in Int /\ g2 \in Int /\ f2 \in Int
        /\ g3 \in Int /\ f3 \in Int /\ g4 \in Int /\ f4 \in Int
    BY <1>1, <1>2, <1>3, <1>4
  <2>2. Vanishes(f1) /\ Vanishes(f2) /\ Vanishes(f3) /\ Vanishes(f4)
    BY <1>5 DEF Same
  <2>3. Combine4(r3, f1, g2, f2, g3, f3, g4, f4)
         = v - m * iv
    BY <1>1, <1>2, <1>3, <1>4 DEF Combine4
  <2> HIDE DEF f1, g2, f2, g3, f3, g4, f4
  <2>4. Vanishes(Combine4(r3, f1, g2, f2, g3, f3, g4, f4))
    BY <2>1, <2>2, VanishesSum4, Zenon
  <2> QED BY <2>3, <2>4 DEF Same
<1>11. ASSUME NEW a \in Int, NEW e \in Int, Same(a, m * e)
       PROVE  Vanishes(a) <=> Vanishes(e)
  <2> DEFINE n == m * e
  <2>1. n \in Int /\ Same(a, n) BY <1>7, <1>11
  <2>2. Vanishes(n) <=> Vanishes(e)
    <3>1. ASSUME Vanishes(e) PROVE Vanishes(n)
      <4> HIDE DEF m, n
      <4>1. Vanishes(m * e)
        <5>1. m \in Int /\ e \in Int /\ 0 \in Int
          BY <1>7
        <5>2. Vanishes(e)
          BY <3>1
        <5>3. Combine(m, e, 0, e)
               = m * e
          BY <1>7 DEF Combine
        <5>4. Vanishes(Combine(m, e, 0, e))
          BY <5>1, <5>2, VanishesSum, Zenon
        <5> QED BY <5>3, <5>4
      <4> QED BY <4>1 DEF n
    <3>2. ASSUME Vanishes(n) PROVE Vanishes(e)
      <4> HIDE DEF m
      <4> QED BY <1>7, <3>2, NoZeroDivisors
    <3> QED BY <3>1, <3>2
  <2> HIDE DEF n
  <2> QED BY <2>1, <2>2, SameVanishes
<1> HIDE DEF m
<1>12. ProjIsEq(p, r) <=> \/ q = Infinity /\ s = Infinity
                          \/ Vanishes(ih) /\ Vanishes(iv)
  <2> HIDE DEF h, v, ih, iv
  <2> QED BY <1>6, <1>8, <1>9, <1>10, <1>11
<1>13. CASE q = Infinity /\ s = Infinity BY <1>12, <1>13
<1>14. CASE q = Infinity /\ s # Infinity
  <2>1. x1 = 0 /\ y1 = 1 /\ z1 = 0 /\ z2 = 1 BY <1>14, PlainHas DEF x1, y1, z1, z2
  <2>2. iv = 1 BY <1>4, <2>1
  <2> QED BY <1>12, <1>14, <2>2, OneIsNotZero
<1>15. CASE q # Infinity /\ s = Infinity
  <2>1. x2 = 0 /\ y2 = 1 /\ z2 = 0 /\ z1 = 1 BY <1>15, PlainHas DEF x2, y2, z1, z2
  <2>2. iv = -1 * 1 BY <1>4, <2>1
  <2>3. ~Vanishes(iv)
    <3> SUFFICES ASSUME Vanishes(iv) PROVE FALSE OBVIOUS
    <3> HIDE DEF iv
    <3>1. Vanishes(1)
      <4>1. -1 \in Int /\ iv \in Int /\ 0 \in Int
        BY <1>8, <2>2
      <4>2. Vanishes(iv)
        OBVIOUS
      <4>3. Combine(-1, iv, 0, iv)
             = 1
        BY <1>8, <2>2 DEF Combine
      <4>4. Vanishes(Combine(-1, iv, 0, iv))
        BY <4>1, <4>2, VanishesSum, Zenon
      <4> QED BY <4>3, <4>4
    <3> QED BY <3>1, OneIsNotZero
  <2> QED BY <1>12, <1>15, <2>3
<1>16. CASE q # Infinity /\ s # Infinity
  <2>1. /\ x1 = q[1] /\ y1 = q[2] /\ z1 = 1 /\ x2 = s[1] /\ y2 = s[2] /\ z2 = 1
        /\ q = <<q[1], q[2]>> /\ s = <<s[1], s[2]>>
        /\ q[1] \in Fp /\ q[2] \in Fp /\ s[1] \in Fp /\ s[2] \in Fp
    BY <1>16, PlainHas, CubicHas DEF x1, y1, z1, x2, y2, z2
  <2>2. ih = x1 - x2 /\ iv = y1 - y2 BY <1>4, <2>1
  <2>3. ASSUME Vanishes(ih), Vanishes(iv) PROVE q = s
    <3>1. x1 = x2 /\ y1 = y2 BY <2>1, <2>2, <2>3, ElementsEqual
    <3> QED BY <2>1, <3>1
  <2>4. ASSUME q = s PROVE Vanishes(ih) /\ Vanishes(iv)
    <3>1. ih = 0 /\ iv = 0 /\ 0 \in Fp BY <1>4, <2>1, <2>2, <2>4, Modulus DEF Fp
    <3> QED BY <3>1, ElementZero
  <2> QED BY <1>12, <1>16, <2>3, <2>4
<1> QED BY <1>13, <1>14, <1>15, <1>16

-----------------------------------------------------------------------------
(* The operations of NonZeroAffineVar.                                     *)

(* double_unchecked.                                                       *)
LEMMA DoubleUncheckedIs ==
  ASSUME IsCubic, NEW q \in CubicPoints, q # Infinity
  PROVE  DoubleUnchecked(q) = {ChordSum(q, q)}
<1> DEFINE x1 == q[1]
           y1 == q[2]
           n  == 3 * x1 * x1 + coeff_a
           d  == 2 * y1
<1>1. x1 \in Int /\ y1 \in Int /\ coeff_a \in Int BY CubicHas, CubicCoeffs
<1>2. PICK l \in Fp, x \in Fp, y \in Fp :
        /\ ChordSum(q, q) = <<x, y>> /\ x = Red(l * l - x1 - x1)
        /\ y = Red(l * (x1 - x) - y1) /\ ~Vanishes(d) /\ IsTangent(l, x1, y1)
  BY TangentHas
<1>3. l \in Int BY ElementRed
<1>4. Vanishes(l * d - n) BY <1>2 DEF IsTangent, Same
<1>5. DoubleUnchecked(q)
        = {LET u == Red(k * k - 2 * x1) IN <<u, Red(k * (x1 - u) - y1)>> :
             k \in Quotients(n, d)}
  BY DEF DoubleUnchecked
<1> HIDE DEF x1, y1
<1>6. n \in Int /\ d \in Int BY <1>1
<1>7. l * l - x1 - x1 = l * l - 2 * x1 BY <1>1, <1>3
<1> HIDE DEF n, d
<1>8. Quotients(n, d) = {l} BY <1>2, <1>4, <1>6, QuotientIs
<1> QED BY <1>2, <1>5, <1>7, <1>8

(* add_unchecked.                                                          *)
LEMMA AddUncheckedIs ==
  ASSUME IsCubic, NEW q \in CubicPoints, NEW s \in CubicPoints,
         q # Infinity, s # Infinity, s # q, s # Mirror(q)
  PROVE  AddUnchecked(q, s) = {ChordSum(q, s)}
<1> DEFINE n == s[2] - q[2]
           d == s[1] - q[1]
<1>1. /\ q[1] \in Int /\ q[2] \in Int /\ s[1] \in Int /\ s[2] \in Int
  BY CubicHas
<1>2. PICK l \in Fp, x \in Fp, y \in Fp :
        /\ ChordSum(q, s) = <<x, y>> /\ x = Red(l * l - q[1] - s[1])
        /\ y = Red(l * (q[1] - x) - q[2]) /\ ~Same(s[1], q[1])
        /\ IsChord(l, q[1], q[2], s[1], s[2])
  BY ChordHas
<1>3. Vanishes(l * d - n) /\ ~Vanishes(d) BY <1>2 DEF IsChord, Same
<1>4. AddUnchecked(q, s)
        = {LET u == Red(k * k - q[1] - s[1]) IN <<u, Red(k * (q[1] - u) - q[2])>> :
             k \in Quotients(n, d)}
  BY DEF AddUnchecked
<1>5. n \in Int /\ d \in Int BY <1>1
<1> HIDE DEF n, d
<1>6. Quotients(n, d) = {l} BY <1>3, <1>5, QuotientIs
<1> QED BY <1>2, <1>4, <1>6

(* The sum of a point and another is not the point: if it were, the chord  *)
(* through both would return to its first point, mirrored.                 *)
LEMMA SumIsOther ==
  ASSUME IsCubic, NEW q \in CubicPoints, NEW s \in CubicPoints,
         q # Infinity, s # Infinity, s # q, s # Mirror(q)
  PROVE  ChordSum(q, s) # q
<1> SUFFICES ASSUME ChordSum(q, s) = q PROVE FALSE OBVIOUS
<1> DEFINE x1 == q[1]
           y1 == q[2]
<1>1. x1 \in Int /\ y1 \in Int /\ ~Vanishes(2 * y1) BY CubicHas, MirrorOther
<1>2. PICK l \in Fp, x \in Fp, y \in Fp :
        ChordSum(q, s) = <<x, y>> /\ Third(l, x1, y1, s[1], x, y)
  BY ChordHas
<1>3. x = x1 /\ y = y1 /\ l \in Int BY <1>2, ElementRed
<1>4. Same(y1, l * (x1 - x1) - y1) BY <1>2, <1>3 DEF Third
<1> HIDE DEF x1, y1
<1>5. y1 - (l * (x1 - x1) - y1) = 2 * y1 BY <1>1, <1>3
<1> QED BY <1>1, <1>4, <1>5 DEF Same

(* The second slope of double_and_add_unchecked, from the first.           *)
LEMMA SecondSlope ==
  ASSUME NEW l \in Int, NEW k \in Fp, NEW m \in Int, NEW x1 \in Int, NEW y1 \in Int,
         NEW x3 \in Int, NEW y3 \in Int, ~Vanishes(x3 - x1),
         Same(y3, l * (x1 - x3) - y1), Same(m * (x3 - x1), 2 * y1),
         Same(k * (x3 - x1), y3 - y1)
  PROVE  Red(- (l + m)) = k
<1> DEFINE n == - (l + m)
           d == x3 - x1
<1>1. k \in Int /\ n \in Int /\ d \in Int BY ElementRed
<1>2. Same(d * k, d * n)
  <2> DEFINE f1 == k * (x3 - x1) - (y3 - y1)
             f2 == y3 - (l * (x1 - x3) - y1)
             f3 == m * (x3 - x1) - 2 * y1
  <2>1. 1 \in Int /\ f1 \in Int /\ f2 \in Int /\ f3 \in Int
    BY <1>1
  <2>2. Vanishes(f1) /\ Vanishes(f2) /\ Vanishes(f3)
    BY DEF Same
  <2>3. Combine3(1, f1, 1, f2, 1, f3)
         = d * k - d * n
    BY <1>1 DEF Combine3
  <2> HIDE DEF f1, f2, f3
  <2>4. Vanishes(Combine3(1, f1, 1, f2, 1, f3))
    BY <2>1, <2>2, VanishesSum3, Zenon
  <2> QED BY <2>3, <2>4 DEF Same
<1> HIDE DEF n, d
<1>3. ~Vanishes(d) BY DEF d
<1>4. Same(k, n) BY <1>1, <1>2, <1>3, Cancelled
<1>5. Red(k) = Red(n) BY <1>1, <1>4, RedEqual DEF Same
<1> QED BY <1>5, ElementRed DEF n

(* double_and_add_unchecked of variables.                                  *)
LEMMA DoubleAndAddOfVariablesIs ==
  ASSUME IsCubic, NEW q \in CubicPoints, NEW s \in CubicPoints,
         q # Infinity, s # Infinity, s # q, s # Mirror(q),
         ChordSum(q, ChordSum(q, s)) # Infinity
  PROVE  DoubleAndAddOfVariables(q, s) = {ChordSum(q, ChordSum(q, s))}
<1> DEFINE t  == ChordSum(q, s)
           x1 == q[1]
           y1 == q[2]
           n  == s[2] - y1
           d  == s[1] - x1
           x3 == t[1]
           y3 == t[2]
           e  == x3 - x1
           m  == Red(2 * y1 * Inverse0(e))
<1>1. x1 \in Int /\ y1 \in Int /\ s[1] \in Int /\ s[2] \in Int BY CubicHas
<1>2. t \in CubicPoints /\ t # Infinity BY ChordSumClosed
<1>3. t # q BY SumIsOther
<1>4. t # Mirror(q) BY <1>2 DEF ChordSum
<1>5. PICK l \in Fp, x \in Fp, y \in Fp :
        /\ t = <<x, y>> /\ x = Red(l * l - x1 - s[1])
        /\ ~Same(s[1], x1) /\ IsChord(l, x1, y1, s[1], s[2])
        /\ Third(l, x1, y1, s[1], x, y)
  BY ChordHas
<1>6. x3 = x /\ y3 = y BY <1>5
<1>7. l \in Int /\ x3 \in Int /\ y3 \in Int BY <1>6, ElementRed
<1>8. Vanishes(l * d - n) /\ ~Vanishes(d) BY <1>5 DEF IsChord, Same
<1>9. Same(y3, l * (x1 - x3) - y1) BY <1>5, <1>6 DEF Third
<1> HIDE DEF t
<1>10. PICK k \in Fp, x4 \in Fp, y4 \in Fp :
         /\ ChordSum(q, t) = <<x4, y4>> /\ x4 = Red(k * k - x1 - x3)
         /\ y4 = Red(k * (x1 - x4) - y1) /\ ~Same(x3, x1)
         /\ IsChord(k, x1, y1, x3, y3)
  BY <1>2, <1>3, <1>4, ChordHas
<1>11. ~Vanishes(e) /\ Same(k * e, y3 - y1) BY <1>10 DEF IsChord, Same
<1>12. DoubleAndAddOfVariables(q, s)
         = UNION {LET u3 == Red(l1 * l1 - x1 - s[1])
                  IN {LET l2 == Red(-(l1 + m2))
                          u4 == Red(l2 * l2 - x1 - u3)
                      IN <<u4, Red(l2 * (x1 - u4) - y1)>> :
                        m2 \in Quotients(2 * y1, u3 - x1)} :
                  l1 \in Quotients(n, d)}
  BY DEF DoubleAndAddOfVariables
<1>13. n \in Int /\ d \in Int /\ e \in Int /\ 2 * y1 \in Int BY <1>1, <1>7
<1>14. Quotients(n, d) = {l}
  <2> HIDE DEF n, d
  <2> QED BY <1>8, <1>13, QuotientIs
<1>15. m \in Fp /\ m \in Int /\ Same(m * e, 2 * y1)
       /\ Quotients(2 * y1, e) = {m}
  <2> DEFINE w == 2 * y1
  <2>1. w \in Int /\ m = Red(w * Inverse0(e)) BY <1>13
  <2> HIDE DEF w, e, m
  <2>2. m \in Fp /\ Vanishes(m * e - w) BY <1>11, <1>13, <2>1, DivisionIs
  <2>3. Quotients(w, e) = {m} BY <1>11, <1>13, <2>1, <2>2, QuotientIs
  <2> QED BY <2>2, <2>3, ElementRed DEF Same, w
<1> HIDE DEF m
<1>16. Red(- (l + m)) = k
  <2> HIDE DEF x1, y1, x3, y3
  <2> QED BY <1>1, <1>7, <1>9, <1>11, <1>15, SecondSlope
<1>17. Red(l * l - x1 - s[1]) = x3 BY <1>5, <1>6
<1> DEFINE A(j) == {LET l2 == Red(-(j + m2))
                        u4 == Red(l2 * l2 - x1 - x3)
                    IN <<u4, Red(l2 * (x1 - u4) - y1)>> :
                      m2 \in Quotients(2 * y1, e)}
<1>18. DoubleAndAddOfVariables(q, s) = A(l) BY <1>12, <1>14, <1>17
<1>19. A(l) = {<<x4, y4>>} BY <1>10, <1>15, <1>16
<1> QED BY <1>10, <1>18, <1>19 DEF t

(* double_and_add_unchecked with a constant: a doubling and an addition.   *)
LEMMA DoubleAndAddWithConstantIs ==
  ASSUME IsCubic, NEW q \in CubicPoints, NEW s \in CubicPoints,
         q # Infinity, s # Infinity,
         s # ChordSum(q, q), s # Mirror(ChordSum(q, q))
  PROVE  DoubleAndAddUnchecked(q, s, TRUE) = {ChordSum(ChordSum(q, q), s)}
<1> DEFINE d == ChordSum(q, q)
<1>1. d \in CubicPoints /\ d # Infinity
  <2>1. d \in CubicPoints BY ChordSumClosed
  <2>2. PICK l \in Fp, x \in Fp, y \in Fp : d = <<x, y>> BY TangentHas
  <2> QED BY <2>1, <2>2 DEF Infinity
<1>2. DoubleUnchecked(q) = {d} BY DoubleUncheckedIs
<1>3. DoubleAndAddUnchecked(q, s, TRUE) = UNION {AddUnchecked(r, s) : r \in {d}}
  BY <1>2 DEF DoubleAndAddUnchecked
<1> HIDE DEF d
<1>4. AddUnchecked(d, s) = {ChordSum(d, s)} BY <1>1, AddUncheckedIs DEF d
<1> QED BY <1>3, <1>4 DEF d

-----------------------------------------------------------------------------
(* The programs.                                                           *)

(* The curve does not change, and the coordinates stand for the point.     *)
CubicInv == IsCubic /\ ProjectiveIsPoint

(* Both curves are the same after a step.                                  *)
LEMMA CubicSame ==
  ASSUME UNCHANGED <<coeff_a, coeff_b>>
  PROVE  (IsCubic => IsCubic') /\ CubicPoints' = CubicPoints
<1>1. coeff_a' = coeff_a /\ coeff_b' = coeff_b OBVIOUS
<1> QED BY <1>1 DEF IsCubic, CubicPoints, OnCubic

(* Coordinates that are all zero are those of no point.                    *)
LEMMA NoPointApart ==
  /\ NoPoint \notin CubicPoints /\ NoPoint # Infinity
  /\ NoPoint \in Fp \X Fp \X Fp
  /\ NoPoint[1] = 0 /\ NoPoint[2] = 0 /\ NoPoint[3] = 0
<1>1. NoPoint = <<0, 0, 0>> /\ 0 \in Fp BY Modulus DEF NoPoint, Fp
<1>2. NoPoint # Infinity BY <1>1 DEF Infinity
<1>3. NoPoint \notin Fp \X Fp
  <2>1. ASSUME NEW x, NEW y PROVE <<0, 0, 0>> # <<x, y>> OBVIOUS
  <2> QED BY <1>1, <2>1
<1> QED BY <1>1, <1>2, <1>3 DEF CubicPoints

(* The end of an addition all of whose products are zero.                  *)
LEMMA EndOfNothing ==
  ASSUME IsCubic
  PROVE  CommonEnd(0, 0, 0, 0, 0, 0) = NoPoint
<1>1. coeff_a \in Int /\ coeff_b \in Int BY CubicCoeffs
<1>2. Red(0) = 0 BY Modulus, ElementRed DEF Fp
<1>3. coeff_a * 0 = 0 /\ ThreeB * 0 = 0 BY <1>1 DEF ThreeB
<1>4. Azz(0) = 0 BY <1>2, <1>3 DEF Azz
<1> DEFINE bz == Red(coeff_a * 0 + ThreeB * 0)
           xx == Red(3 * 0 + Azz(0))
           bx == Red(coeff_a * (0 - Azz(0)) + ThreeB * 0)
<1>5. bz = 0 BY <1>2, <1>3
<1>6. xx = 0 BY <1>2, <1>4
<1>7. bx = 0 BY <1>2, <1>3, <1>4
<1>8. CommonEnd(0, 0, 0, 0, 0, 0) =
        <<Red((0 - bz) * 0 - 0 * bx), Red((0 + bz) * (0 - bz) + xx * bx),
          Red((0 + bz) * 0 + 0 * xx)>>
  BY DEF CommonEnd
<1> HIDE DEF bz, xx, bx
<1> QED BY <1>2, <1>5, <1>6, <1>7, <1>8 DEF NoPoint

(* They absorb whatever is added to them and whatever they are added to.   *)
LEMMA NothingAdds ==
  ASSUME IsCubic, NEW p \in Fp \X Fp \X Fp
  PROVE  ProjAdd(NoPoint, p) = NoPoint /\ ProjAdd(p, NoPoint) = NoPoint
<1> DEFINE p1 == p[1]
           p2 == p[2]
           p3 == p[3]
<1>1. p1 \in Int /\ p2 \in Int /\ p3 \in Int BY ElementRed
<1>2. Red(0) = 0 BY Modulus, ElementRed DEF Fp
<1>3. NoPoint[1] = 0 /\ NoPoint[2] = 0 /\ NoPoint[3] = 0 BY NoPointApart
<1>4. ProjAdd(NoPoint, p) =
        CommonEnd(Red(0 * p1), Red(0 * p2),
          Red((0 + 0) * (p1 + p2) - (Red(0 * p1) + Red(0 * p2))),
          Red((0 + 0) * (p1 + p3) - (Red(0 * p1) + Red(0 * p3))),
          Red((0 + 0) * (p2 + p3) - (Red(0 * p2) + Red(0 * p3))), Red(0 * p3))
  BY <1>3 DEF ProjAdd
<1>5. ProjAdd(p, NoPoint) =
        CommonEnd(Red(p1 * 0), Red(p2 * 0),
          Red((p1 + p2) * (0 + 0) - (Red(p1 * 0) + Red(p2 * 0))),
          Red((p1 + p3) * (0 + 0) - (Red(p1 * 0) + Red(p3 * 0))),
          Red((p2 + p3) * (0 + 0) - (Red(p2 * 0) + Red(p3 * 0))), Red(p3 * 0))
  BY <1>3 DEF ProjAdd
<1> HIDE DEF p1, p2, p3
<1>6. ASSUME NEW k \in Int
      PROVE  0 * k = 0 /\ k * 0 = 0 /\ (0 + 0) * k = 0 /\ k * (0 + 0) = 0
  OBVIOUS
<1>7. /\ p1 + p2 \in Int /\ p1 + p3 \in Int /\ p2 + p3 \in Int
      /\ 0 - (0 + 0) = 0
  BY <1>1
<1>8. ProjAdd(NoPoint, p) = CommonEnd(0, 0, 0, 0, 0, 0)
  BY <1>1, <1>2, <1>4, <1>6, <1>7
<1>9. ProjAdd(p, NoPoint) = CommonEnd(0, 0, 0, 0, 0, 0)
  BY <1>1, <1>2, <1>5, <1>6, <1>7
<1> QED BY <1>8, <1>9, EndOfNothing

(* So they do with a constant.                                             *)
LEMMA NothingAddsConstant ==
  ASSUME IsCubic, NEW q \in CubicPoints
  PROVE  ProjAddConstant(NoPoint, q) = NoPoint
<1>1. CASE q = Infinity BY <1>1 DEF ProjAddConstant
<1>2. CASE q # Infinity
  <2> DEFINE x == q[1]
             y == q[2]
  <2>1. x \in Int /\ y \in Int BY <1>2, CubicHas
  <2>2. Red(0) = 0 BY Modulus, ElementRed DEF Fp
  <2>3. NoPoint[1] = 0 /\ NoPoint[2] = 0 /\ NoPoint[3] = 0 BY NoPointApart
  <2>4. ProjAddMixed(NoPoint, q) =
          CommonEnd(Red(0 * x), Red(0 * y),
            Red((0 + 0) * (x + y) - (Red(0 * x) + Red(0 * y))),
            Red(x * 0 + 0), Red(y * 0 + 0), 0)
    BY <2>3 DEF ProjAddMixed
  <2> HIDE DEF x, y
  <2>5. /\ 0 * x = 0 /\ 0 * y = 0 /\ (0 + 0) * (x + y) = 0 /\ 0 - (0 + 0) = 0
        /\ x * 0 + 0 = 0 /\ y * 0 + 0 = 0
    BY <2>1
  <2>6. ProjAddMixed(NoPoint, q) = CommonEnd(0, 0, 0, 0, 0, 0)
    BY <2>2, <2>4, <2>5
  <2> QED BY <1>2, <2>6, EndOfNothing DEF ProjAddConstant
<1> QED BY <1>1, <1>2

(* Their double and their opposite are themselves.                         *)
LEMMA NothingAlone ==
  ASSUME IsCubic
  PROVE  ProjDouble(NoPoint) = NoPoint /\ ProjNegate(NoPoint) = NoPoint
<1>1. coeff_a \in Int /\ coeff_b \in Int BY CubicCoeffs
<1>2. Red(0) = 0 BY Modulus, ElementRed DEF Fp
<1>3. NoPoint[1] = 0 /\ NoPoint[2] = 0 /\ NoPoint[3] = 0 BY NoPointApart
<1>4. coeff_a * 0 = 0 /\ ThreeB * 0 = 0 BY <1>1 DEF ThreeB
<1>5. Azz(0) = 0 BY <1>2, <1>4 DEF Azz
<1> DEFINE z  == Red(0 * 0)
           d  == Red(2 * 0 * 0)
           bz == Red(coeff_a * d + ThreeB * z)
           b3 == Red(coeff_a * (z - Azz(z)) + ThreeB * d)
<1>6. z = 0 /\ d = 0 BY <1>2
<1> HIDE DEF z, d
<1>7. bz = 0 BY <1>2, <1>4, <1>6
<1>8. b3 = 0 BY <1>2, <1>4, <1>5, <1>6
<1>9. ProjDouble(NoPoint) =
        <<Red((z - bz) * d - b3 * d),
          Red((z + bz) * (z - bz) + (3 * z + Azz(z)) * b3), Red(4 * d * z)>>
  BY <1>3 DEF ProjDouble, z, d
<1> HIDE DEF bz, b3
<1>10. ProjDouble(NoPoint) = NoPoint
  BY <1>2, <1>5, <1>6, <1>7, <1>8, <1>9 DEF NoPoint
<1>11. ProjNegate(NoPoint) = NoPoint
  BY <1>2, <1>3 DEF ProjNegate, NoPoint
<1> QED BY <1>10, <1>11

(* They equal every point.                                                 *)
LEMMA NothingEquals ==
  ASSUME NEW q \in CubicPoints, NEW p \in Representations(q)
  PROVE  ProjIsEq(NoPoint, p)
<1>1. NoPoint[1] = 0 /\ NoPoint[2] = 0 /\ NoPoint[3] = 0 BY NoPointApart
<1>2. p[1] \in Int /\ p[2] \in Int /\ p[3] \in Int BY RepresentationHas
<1>3. 0 * p[3] - p[1] * 0 = 0 /\ 0 * p[3] - p[2] * 0 = 0 BY <1>2
<1>4. Red(0) = 0 BY Modulus, ElementRed DEF Fp
<1> QED BY <1>1, <1>3, <1>4 DEF ProjIsEq

(* The coordinates of an operand are three elements of the field.          *)
LEMMA CoordinatesHave ==
  ASSUME NEW q \in Operands, NEW p \in CoordinatesOf(q)
  PROVE  /\ p \in Fp \X Fp \X Fp
         /\ q = NoPoint => p = NoPoint
         /\ q # NoPoint => q \in CubicPoints /\ p \in Representations(q)
<1>1. CASE q = NoPoint BY <1>1, NoPointApart DEF CoordinatesOf
<1>2. CASE q # NoPoint
  <2>1. q \in CubicPoints /\ p \in Representations(q)
    BY <1>2 DEF Operands, CoordinatesOf
  <2> QED BY <1>2, <2>1, RepresentationHas
<1> QED BY <1>1, <1>2

(* The coordinates of a point, or of none.                                 *)
LEMMA CoordinatesAre ==
  ASSUME NEW q, NEW p
  PROVE  /\ q \in CubicPoints /\ p \in Representations(q) =>
              q \in Operands /\ p \in CoordinatesOf(q)
         /\ q = NoPoint /\ p = NoPoint => q \in Operands /\ p \in CoordinatesOf(q)
BY NoPointApart DEF Operands, CoordinatesOf

(* A program starts with a point.                                          *)
LEMMA CubicStarts ==
  ASSUME CubicInit
  PROVE  CubicInv
<1>1. IsCubic
  <2>1. PICK c \in CurveCoeffs : coeff_a = c[1] /\ coeff_b = c[2] BY DEF CubicInit
  <2>2. c = <<c[1], c[2]>> BY CubicsAssumption
  <2> QED BY <2>1, <2>2 DEF IsCubic
<1>2. affine \in CubicPoints /\ projective \in Representations(affine)
  BY <1>1, ProjAllocatedIs DEF CubicInit
<1>3. ProjectiveIsPoint BY <1>2, CoordinatesAre DEF ProjectiveIsPoint
<1> QED BY <1>1, <1>3 DEF CubicInv

(* Any coordinates that the check accepts are of a point or all zero.      *)
LEMMA AllocateKeeps ==
  ASSUME CubicInv, AllocateCoordinates
  PROVE  affine' \in Operands /\ projective' \in CoordinatesOf(affine')
<1>1. IsCubic BY DEF CubicInv
<1>2. PICK p1 \in Fp, p2 \in Fp, p3 \in Fp :
        projective' = <<p1, p2, p3>> /\ OnCubicCheck(<<p1, p2, p3>>)
  BY DEF AllocateCoordinates
<1>3. affine' = IF projective' = NoPoint THEN NoPoint
                ELSE IF p3 = 0 THEN Infinity
                ELSE <<Red(p1 * Inverse0(p3)), Red(p2 * Inverse0(p3))>>
  <2>1. projective'[1] = p1 /\ projective'[2] = p2 /\ projective'[3] = p3 BY <1>2
  <2> QED BY <2>1, Zenon DEF AllocateCoordinates, IsZero
<1>4. CASE projective' = NoPoint BY <1>3, <1>4, CoordinatesAre
<1>5. CASE projective' # NoPoint /\ p3 = 0
  <2>1. affine' = Infinity BY <1>3, <1>5
  <2>2. Infinity \in CubicPoints BY DEF CubicPoints
  <2>3. projective' = <<p1, p2, 0>> /\ <<p1, p2, 0>> # <<0, 0, 0>>
    BY <1>2, <1>5 DEF NoPoint
  <2>4. OnCubicCheck(<<p1, p2, 0>>) BY <1>2, <1>5
  <2>5. projective' \in Representations(Infinity)
    BY <1>1, <2>3, <2>4, CheckedZero
  <2> QED BY <2>1, <2>2, <2>5, CoordinatesAre
<1>6. CASE projective' # NoPoint /\ p3 # 0
  <2>1. affine' = <<Red(p1 * Inverse0(p3)), Red(p2 * Inverse0(p3))>>
    BY <1>3, <1>6
  <2>2. affine' \in CubicPoints /\ projective' \in Representations(affine')
    BY <1>1, <1>2, <1>6, <2>1, CheckedAffine
  <2> QED BY <2>2, CoordinatesAre
<1> QED BY <1>4, <1>5, <1>6

(* An addition of any operand.                                             *)
LEMMA AddKeeps ==
  ASSUME IsCubic, NEW q \in Operands, NEW p \in CoordinatesOf(q),
         NEW s \in Operands, NEW r \in CoordinatesOf(s)
  PROVE  Meant(q, s) \in Operands /\ ProjAdd(p, r) \in CoordinatesOf(Meant(q, s))
<1>1. CASE NoPoint \in {q, s}
  <2>1. Meant(q, s) = NoPoint BY <1>1 DEF Meant
  <2>2. p \in Fp \X Fp \X Fp /\ r \in Fp \X Fp \X Fp BY CoordinatesHave
  <2>3. p = NoPoint \/ r = NoPoint BY <1>1, CoordinatesHave
  <2>4. ProjAdd(p, r) = NoPoint BY <2>2, <2>3, NothingAdds
  <2> QED BY <2>1, <2>4, CoordinatesAre
<1>2. CASE NoPoint \notin {q, s}
  <2>1. Meant(q, s) = ChordSum(q, s) BY <1>2 DEF Meant
  <2>2. /\ q \in CubicPoints /\ p \in Representations(q)
        /\ s \in CubicPoints /\ r \in Representations(s)
    BY <1>2, CoordinatesHave
  <2>3. ChordSum(q, s) \in CubicPoints BY <2>2, ChordSumClosed
  <2>4. ProjAdd(p, r) \in Representations(ChordSum(q, s)) BY <2>2, ProjAddIs
  <2> QED BY <2>1, <2>3, <2>4, CoordinatesAre
<1> QED BY <1>1, <1>2

(* The opposite of any operand.                                            *)
LEMMA NegateKeeps ==
  ASSUME IsCubic, NEW q \in Operands, NEW p \in CoordinatesOf(q)
  PROVE  Opposite(q) \in Operands /\ ProjNegate(p) \in CoordinatesOf(Opposite(q))
<1>1. CASE q = NoPoint
  <2>1. Opposite(q) = NoPoint BY <1>1 DEF Opposite
  <2>2. ProjNegate(p) = NoPoint BY <1>1, CoordinatesHave, NothingAlone
  <2> QED BY <2>1, <2>2, CoordinatesAre
<1>2. CASE q # NoPoint
  <2>1. Opposite(q) = Mirror(q) BY <1>2 DEF Opposite
  <2>2. q \in CubicPoints /\ p \in Representations(q) BY <1>2, CoordinatesHave
  <2>3. Mirror(q) \in CubicPoints BY <2>2, MirrorIs
  <2>4. ProjNegate(p) \in Representations(Mirror(q)) BY <2>2, ProjNegateIs
  <2> QED BY <2>1, <2>3, <2>4, CoordinatesAre
<1> QED BY <1>1, <1>2

(* Every operation keeps the invariant.                                    *)
LEMMA CubicStep ==
  ASSUME CubicInv, [CubicNext]_cubicVars
  PROVE  CubicInv'
<1>1. IsCubic /\ affine \in Operands /\ projective \in CoordinatesOf(affine)
  BY DEF CubicInv, ProjectiveIsPoint
<1>2. /\ affine = NoPoint => projective = NoPoint
      /\ affine # NoPoint =>
           affine \in CubicPoints /\ projective \in Representations(affine)
  BY <1>1, CoordinatesHave
<1> SUFFICES /\ UNCHANGED <<coeff_a, coeff_b>>
             /\ affine' \in Operands /\ projective' \in CoordinatesOf(affine')
  <2>1. ASSUME UNCHANGED <<coeff_a, coeff_b>>, affine' \in Operands,
               projective' \in CoordinatesOf(affine')
        PROVE  CubicInv'
    <3>1. IsCubic' BY <1>1, <2>1, CubicSame
    <3>2. CubicPoints' = CubicPoints BY <2>1, CubicSame
    <3>3. (affine \in Operands)' BY <2>1, <3>2 DEF Operands, NoPoint
    <3>4. (projective \in CoordinatesOf(affine))'
      BY <2>1 DEF CoordinatesOf, Representations, Infinity, NoPoint
    <3> QED BY <3>1, <3>3, <3>4 DEF CubicInv, ProjectiveIsPoint
  <2> QED BY <2>1
<1>3. CASE AllocateCoordinates BY <1>3, AllocateKeeps DEF AllocateCoordinates
<1>4. CASE AddProjective
  <2>0. PICK q \in Operands : \E s \in CoordinatesOf(q) :
          projective' = ProjAdd(projective, s) /\ affine' = Meant(affine, q)
    BY <1>4 DEF AddProjective
  <2>1. PICK s \in CoordinatesOf(q) :
          projective' = ProjAdd(projective, s) /\ affine' = Meant(affine, q)
    BY <2>0
  <2> QED BY <1>1, <1>4, <2>1, AddKeeps DEF AddProjective
<1>5. CASE SubProjective
  <2>0. PICK q \in Operands : \E s \in CoordinatesOf(q) :
          projective' = ProjSub(projective, s) /\ affine' = Meant(affine, Opposite(q))
    BY <1>5 DEF SubProjective
  <2>1. PICK s \in CoordinatesOf(q) :
          projective' = ProjSub(projective, s) /\ affine' = Meant(affine, Opposite(q))
    BY <2>0
  <2>2. Opposite(q) \in Operands /\ ProjNegate(s) \in CoordinatesOf(Opposite(q))
    BY <1>1, <2>1, NegateKeeps
  <2>3. projective' = ProjAdd(projective, ProjNegate(s)) BY <2>1 DEF ProjSub
  <2> QED BY <1>1, <1>5, <2>1, <2>2, <2>3, AddKeeps DEF SubProjective
<1>6. CASE AddAConstant
  <2>1. PICK q \in CubicPoints :
          projective' = ProjAddConstant(projective, q) /\ affine' = Meant(affine, q)
    BY <1>6 DEF AddAConstant
  <2>2. CASE affine = NoPoint
    <3>1. affine' = NoPoint BY <2>1, <2>2 DEF Meant
    <3>2. projective' = NoPoint BY <1>1, <1>2, <2>1, <2>2, NothingAddsConstant
    <3> QED BY <1>6, <3>1, <3>2, CoordinatesAre DEF AddAConstant
  <2>3. CASE affine # NoPoint
    <3>1. affine' = ChordSum(affine, q) BY <2>1, <2>3, NoPointApart DEF Meant
    <3>2. affine' \in CubicPoints BY <1>1, <1>2, <2>1, <2>3, <3>1, ChordSumClosed
    <3>3. projective' \in Representations(affine')
      BY <1>1, <1>2, <2>1, <2>3, <3>1, ProjAddConstantIs
    <3> QED BY <1>6, <3>2, <3>3, CoordinatesAre DEF AddAConstant
  <2> QED BY <2>2, <2>3
<1>7. CASE DoubleProjective
  <2>1. projective' = ProjDouble(projective) /\ affine' = Meant(affine, affine)
    BY <1>7 DEF DoubleProjective
  <2>2. CASE affine = NoPoint
    <3>1. affine' = NoPoint BY <2>1, <2>2 DEF Meant
    <3>2. projective' = NoPoint BY <1>1, <1>2, <2>1, <2>2, NothingAlone
    <3> QED BY <1>7, <3>1, <3>2, CoordinatesAre DEF DoubleProjective
  <2>3. CASE affine # NoPoint
    <3>1. affine' = ChordSum(affine, affine) BY <2>1, <2>3 DEF Meant
    <3>2. affine' \in CubicPoints BY <1>1, <1>2, <2>3, <3>1, ChordSumClosed
    <3>3. projective' \in Representations(affine')
      BY <1>1, <1>2, <2>1, <2>3, <3>1, ProjDoubleIs
    <3> QED BY <1>7, <3>2, <3>3, CoordinatesAre DEF DoubleProjective
  <2> QED BY <2>2, <2>3
<1>8. CASE NegateProjective
  BY <1>1, <1>8, NegateKeeps DEF NegateProjective
<1>9. CASE UNCHANGED cubicVars BY <1>1, <1>9 DEF cubicVars
<1> QED BY <1>3, <1>4, <1>5, <1>6, <1>7, <1>8, <1>9 DEF CubicNext

(* The invariant of every program.                                         *)
LEMMA CubicAlways == CubicSpec => []CubicInv
<1>1. CubicInit => CubicInv BY CubicStarts
<1>2. CubicInv /\ [CubicNext]_cubicVars => CubicInv' BY CubicStep
<1> QED BY <1>1, <1>2, PTL DEF CubicSpec

(* On every curve of odd order over every prime field, and after every     *)
(* sequence of allocations, additions, subtractions, doublings and         *)
(* negations, the projective coordinates stand for the point that the      *)
(* chord-and-tangent law gives, with no exceptional case, and to_affine    *)
(* has a witness and only that point as its result.  Only coordinates that *)
(* are all zero, which the checked allocation accepts, stand for none;     *)
(* they stay all zero, and make every operand all zero they meet.          *)
THEOREM CoordinatesAlwaysMeant == CubicSpec => []CoordinatesAreMeant
<1>1. CubicInv => CoordinatesAreMeant
  <2>1. CubicInv => ProjectiveIsPoint BY DEF CubicInv
  <2>2. ProjectiveIsPoint => ToAffineIsPoint
    BY CoordinatesHave, ToAffineIs DEF ProjectiveIsPoint, ToAffineIsPoint
  <2> QED BY <2>1, <2>2 DEF CoordinatesAreMeant
<1> QED BY <1>1, CubicAlways, PTL

(* is_eq of projective coordinates is equality of points, except that      *)
(* coordinates that are all zero equal every point.                        *)
THEOREM EqualityAlwaysOfPoints == CubicSpec => []EqualityIsOfPoints
<1>1. ASSUME CubicInv, NEW q \in CubicPoints, NEW s \in Representations(q)
      PROVE  ProjIsEq(projective, s) <=> affine \in {q, NoPoint}
  <2>1. IsCubic /\ affine \in Operands /\ projective \in CoordinatesOf(affine)
    BY <1>1 DEF CubicInv, ProjectiveIsPoint
  <2>2. CASE affine = NoPoint
    BY <2>1, <2>2, CoordinatesHave, NothingEquals
  <2>3. CASE affine # NoPoint
    <3>1. affine \in CubicPoints /\ projective \in Representations(affine)
      BY <2>1, <2>3, CoordinatesHave
    <3>2. ProjIsEq(projective, s) <=> affine = q BY <2>1, <3>1, IsEqIs
    <3> QED BY <2>3, <3>2
  <2> QED BY <2>2, <2>3
<1>2. CubicInv => EqualityIsOfPoints BY <1>1 DEF EqualityIsOfPoints
<1> QED BY <1>2, CubicAlways, PTL

(* The incomplete formulae of NonZeroAffineVar, on the operands that their *)
(* comments allow, admit the sum and nothing else.                         *)
THEOREM AffineFormulaeAlwaysExact == CubicSpec => []AffineFormulaeAreExact
<1>1. ASSUME CubicInv, affine \notin {Infinity, NoPoint}
      PROVE  AffineFormulaeAreExact
  <2> DEFINE double == ChordSum(affine, affine)
  <2>1. IsCubic /\ affine \in CubicPoints
    BY <1>1 DEF CubicInv, ProjectiveIsPoint, Operands
  <2>2. DoubleUnchecked(affine) = {double} BY <1>1, <2>1, DoubleUncheckedIs
  <2>3. ASSUME NEW q \in CubicPoints \ {Infinity, affine, Mirror(affine)}
        PROVE  /\ AddUnchecked(affine, q) = {ChordSum(affine, q)}
               /\ ChordSum(affine, ChordSum(affine, q)) # Infinity =>
                    DoubleAndAddUnchecked(affine, q, FALSE)
                      = {ChordSum(affine, ChordSum(affine, q))}
               /\ q \notin {double, Mirror(double)} =>
                    DoubleAndAddUnchecked(affine, q, TRUE) = {ChordSum(double, q)}
    <3>1. AddUnchecked(affine, q) = {ChordSum(affine, q)}
      BY <1>1, <2>1, AddUncheckedIs
    <3>2. DoubleAndAddUnchecked(affine, q, FALSE) = DoubleAndAddOfVariables(affine, q)
      BY DEF DoubleAndAddUnchecked
    <3>3. ChordSum(affine, ChordSum(affine, q)) # Infinity =>
            DoubleAndAddOfVariables(affine, q) = {ChordSum(affine, ChordSum(affine, q))}
      BY <1>1, <2>1, DoubleAndAddOfVariablesIs
    <3>4. q \notin {double, Mirror(double)} =>
            DoubleAndAddUnchecked(affine, q, TRUE) = {ChordSum(double, q)}
      BY <1>1, <2>1, DoubleAndAddWithConstantIs
    <3> HIDE DEF double
    <3> QED BY <3>1, <3>2, <3>3, <3>4
  <2> QED BY <2>2, <2>3 DEF AffineFormulaeAreExact
<1>2. CubicInv => AffineFormulaeAreExact BY <1>1 DEF AffineFormulaeAreExact
<1> QED BY <1>2, CubicAlways, PTL
=============================================================================
