----------------------------- MODULE AffineLaw ------------------------------
(***************************************************************************)
(* The group law of a curve y^2 = x^3 + A x + B as textbooks have it, over *)
(* any field: what points are meant to be.  A point is <<x, y>>, and << >> *)
(* is the one at infinity.                                                 *)
(***************************************************************************)
EXTENDS Naturals, Sequences

CONSTANTS Coordinate, Zero, Add(_, _), Sub(_, _), Mul(_, _), Inverse(_), A

Infinity == << >>

Opposite(p) == IF p = Infinity THEN p ELSE <<p[1], Sub(Zero, p[2])>>

LOCAL Slope(p, q) ==
  IF p = q
  THEN LET xx == Mul(p[1], p[1])
       IN Mul(Add(Add(Add(xx, xx), xx), A), Inverse(Add(p[2], p[2])))
  ELSE Mul(Sub(q[2], p[2]), Inverse(Sub(q[1], p[1])))

Plus(p, q) ==
  CASE p = Infinity    -> q
    [] q = Infinity    -> p
    [] p = Opposite(q) -> Infinity
    [] OTHER           -> LET l == Slope(p, q)
                              x == Sub(Sub(Mul(l, l), p[1]), q[1])
                          IN <<x, Sub(Mul(l, Sub(p[1], x)), p[2])>>

Point == {Infinity} \cup (Coordinate \X Coordinate)

Times(n, p) ==
  LET times[k \in Nat, power \in Point, sum \in Point] ==
        IF k = 0 THEN sum
        ELSE times[k \div 2, Plus(power, power), IF k % 2 = 0 THEN sum ELSE Plus(sum, power)]
  IN times[n, p, Infinity]
=============================================================================
