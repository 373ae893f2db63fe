----------------------------- MODULE BooleanOps -----------------------------
(***************************************************************************)
(* Boolean and AllocatedBool of src/boolean, and the gadgets on slices of  *)
(* eq.rs, cmp.rs and select.rs.  A variable is a record of whether it is a *)
(* constant and of its value, a field element: nothing but constraints     *)
(* makes it a bit.  An operation is the set of results its constraints     *)
(* admit, over all witnesses; an enforcement is whether they can hold.     *)
(***************************************************************************)
EXTENDS PrimeField, PowersOfTwo, Sequences

LOCAL INSTANCE SequencesExt

Const(x) == [constant |-> TRUE, value |-> x]

Alloc(x) == [constant |-> FALSE, value |-> x]

FALSEBit == Const(0)

TRUEBit == Const(1)

Bits == {Const(0), Const(1), Alloc(0), Alloc(1)}

IsConst(a, x) == a.constant /\ a.value = x

(* A fresh witness bound by one constraint, x * y = z, where z may mention *)
(* the witness.                                                            *)
Witness(constraint(_)) == {Alloc(r) : r \in {r \in Fp : Red(constraint(r)) = 0}}

(* A relation of variables lifted to the sets earlier operations left.     *)
Then(S, op(_)) == UNION {op(a) : a \in S}

-----------------------------------------------------------------------------
(* Connectives.                                                            *)

Not(a) == [a EXCEPT !.value = Red(1 - a.value)]

And(a, b) ==
  CASE IsConst(a, 0) \/ IsConst(b, 0) -> {FALSEBit}
    [] IsConst(a, 1) -> {b}
    [] IsConst(b, 1) -> {a}
    [] OTHER -> Witness(LAMBDA r : a.value * b.value - r)

Or(a, b) ==
  CASE IsConst(a, 0) -> {b}
    [] IsConst(b, 0) -> {a}
    [] IsConst(a, 1) \/ IsConst(b, 1) -> {TRUEBit}
    [] OTHER -> Witness(LAMBDA r : (1 - a.value) * (1 - b.value) - (1 - r))

Xor(a, b) ==
  CASE IsConst(a, 0) -> {b}
    [] IsConst(b, 0) -> {a}
    [] IsConst(a, 1) -> {Not(b)}
    [] IsConst(b, 1) -> {Not(a)}
    [] OTHER -> Witness(LAMBDA r : 2 * a.value * b.value - (a.value + b.value - r))

Nand(a, b) == {Not(r) : r \in And(a, b)}

(* Two connectives of AllocatedBool alone.                                 *)
AndNot(a, b) == Witness(LAMBDA r : a.value * (1 - b.value) - r)

Nor(a, b) == Witness(LAMBDA r : (1 - a.value) * (1 - b.value) - r)

IsEq(a, b) == {Not(r) : r \in Xor(a, b)}

IsGe(a, b) == Or(a, Not(b))

IsGt(a, b) == {Not(r) : r \in IsGe(b, a)}

Select(cond, t, f) ==
  CASE IsConst(cond, 1) -> {t}
    [] IsConst(cond, 0) -> {f}
    [] IsConst(f, 0) -> And(cond, t)
    [] IsConst(t, 0) -> And(Not(cond), f)
    [] IsConst(t, 1) -> Or(cond, f)
    [] IsConst(f, 1) -> Or(Not(cond), t)
    [] OTHER -> Witness(LAMBDA r : cond.value * (t.value - f.value) - (r - f.value))

-----------------------------------------------------------------------------
(* Enforcements.                                                           *)

ConditionalEnforceEqual(a, b, cond) ==
  \/ IsConst(cond, 0)
  \/ IF a.constant /\ b.constant THEN a.value = b.value
     ELSE Red((a.value - b.value) * cond.value) = 0

ConditionalEnforceNotEqual(a, b, cond) ==
  \/ IsConst(cond, 0)
  \/ IF a.constant /\ b.constant THEN a.value # b.value
     ELSE Red((a.value + b.value) * cond.value - 1) = 0

EnforceEqual(a, b) == ConditionalEnforceEqual(a, b, TRUEBit)

EnforceNotEqual(a, b) == ConditionalEnforceNotEqual(a, b, TRUEBit)

-----------------------------------------------------------------------------
(* Many bits.                                                              *)

(* Mutant: the second constraint is left out.                              *)
MultiplierOnly(d, n) == \E multiplier \in Fp : Red(d * multiplier - n) = 0

(* Two constraints bind the answer n of is_neq and a multiplier.           *)
Differs(d, n) ==
  (\E multiplier \in Fp : Red(d * multiplier - n) = 0) /\ Red(d * (1 - n)) = 0

(* AllocatedFp::is_eq, on the difference of its operands.                  *)
IsZero(d) == {Alloc(Red(1 - n)) : n \in {n \in Fp : Differs(d, n)}}

SumIs(bits, x) ==
  LET total == FoldLeft(LAMBDA s, b : s + b.value, 0, bits)
  IN IF \A i \in DOMAIN bits : bits[i].constant
     THEN {Const(IF Red(total) = x THEN 1 ELSE 0)}
     ELSE IsZero(total - x)

(* Mutant: the sum of the bits is compared with one less.                  *)
CountShort(n) == n - 1

Count(n) == n

(* k-ary gates chain up to three bits and compare the sum of more.         *)
KaryAnd(bits) ==
  IF Len(bits) <= 3
  THEN FoldLeft(LAMBDA S, b : Then(S, LAMBDA a : And(a, b)), {bits[1]}, Tail(bits))
  ELSE SumIs(bits, Red(Count(Len(bits))))

KaryOr(bits) ==
  IF Len(bits) <= 3
  THEN FoldLeft(LAMBDA S, b : Then(S, LAMBDA a : Or(a, b)), {bits[1]}, Tail(bits))
  ELSE {Not(r) : r \in SumIs(bits, 0)}

EnforceKaryNand(bits) == \E r \in KaryAnd(bits) : EnforceEqual(r, FALSEBit)

-----------------------------------------------------------------------------
(* Comparison of a little-endian word with a constant.                     *)

RECURSIVE BigEndian(_)
BigEndian(n) == IF n = 0 THEN << >> ELSE Append(BigEndian(n \div 2), n % 2)

(* Mutant: the zeros of the constant are not enforced to be zeros.         *)
NandSkipped(last, a) == TRUE

NandAtZero(last, a) == EnforceKaryNand(<<last, a>>)

(* The constant is walked from its top bit beside the top bits of what is  *)
(* left of the word; a run of ones is folded into last_run when it ends.   *)
Walk(element, word) ==
  LET step(s, pair) ==
        IF pair[1] = 1
        THEN [s EXCEPT !.current_run = Append(@, pair[2])]
        ELSE LET last == IF s.current_run = << >> THEN s.last_run
                         ELSE CHOOSE r \in KaryAnd(Append(s.current_run, s.last_run)) : TRUE
             IN [last_run    |-> last,
                 current_run |-> << >>,
                 ok          |-> s.ok /\ NandAtZero(last, pair[2])]
      n == IF Len(element) < Len(word) THEN Len(element) ELSE Len(word)
  IN FoldLeft(step, [last_run |-> TRUEBit, current_run |-> << >>, ok |-> TRUE],
              [i \in 1 .. n |-> <<element[i], word[i]>>])

TopZero(bits) ==
  \E r \in FoldLeft(LAMBDA S, b : Then(S, LAMBDA a : Or(a, b)), {FALSEBit}, bits) :
    EnforceEqual(r, FALSEBit)

EnforceSmallerOrEqualThanLe(bits, element) ==
  LET be  == BigEndian(element)
      n   == Len(be)
      low == SubSeq(bits, 1, IF Len(bits) > n THEN n ELSE Len(bits))
  IN /\ Len(bits) > n => TopZero(SubSeq(bits, n + 1, Len(bits)))
     /\ Walk(be, Reverse(low)).ok

EnforceInFieldLe(bits) == EnforceSmallerOrEqualThanLe(bits, P - 1)

-----------------------------------------------------------------------------
(* Slices: eq.rs, cmp.rs, select.rs.                                       *)

(* The sequences of one element of each of a sequence of sets.             *)
Products(sets) ==
  FoldLeft(LAMBDA S, T : {Append(s, t) : s \in S, t \in T}, {<< >>}, sets)

SliceIsEq(xs, ys) ==
  IF xs = << >> THEN {TRUEBit}
  ELSE Then(Products([i \in DOMAIN xs |-> IsEq(xs[i], ys[i])]), KaryAnd)

SliceConditionalEnforceEqual(xs, ys, cond) ==
  \A i \in DOMAIN xs : ConditionalEnforceEqual(xs[i], ys[i], cond)

(* An assertion decides when everything is constant.                       *)
SliceConditionalEnforceNotEqual(xs, ys, cond) ==
  \E e \in SliceIsEq(xs, ys) :
    LET different == Not(e)
    IN IF different.constant /\ cond.constant THEN different.value = 1
       ELSE Red(different.value * cond.value - cond.value) = 0

(* What is_ge can hold after a step: the result, and whether all was equal *)
(* so far.                                                                 *)
SliceIsGe(xs, ys) ==
  LET step(S, i) ==
        {h \in Bits \X Bits : \E s \in S :
           /\ \E q \in IsEq(xs[i], ys[i]) : h[2] \in And(s[2], q)
           /\ \E g \in IsGt(xs[i], ys[i]) : \E o \in Or(g, h[2]) : h[1] \in And(s[1], o)}
  IN {h[1] : h \in FoldLeft(step, {<<TRUEBit, TRUEBit>>}, [i \in DOMAIN xs |-> i])}

(* The value at a big-endian position, halving the values bit by bit.      *)
SelectPowerOfTwoVector(position, values) ==
  LET step(S, cond) ==
        UNION {Products([j \in 1 .. Len(v) \div 2 |-> Select(cond, v[2 * j], v[2 * j - 1])]) :
               v \in S}
  IN {v[1] : v \in FoldLeft(step, {values}, Reverse(position))}
=============================================================================
