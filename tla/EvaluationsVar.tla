--------------------------- MODULE EvaluationsVar ---------------------------
(***************************************************************************)
(* EvaluationsVar of poly/evaluations/univariate/mod.rs: a polynomial by   *)
(* its values on a coset, pointwise arithmetic on it, and what it caches   *)
(* for interpolation.  The offset of the coset is a constant of the        *)
(* circuit or a variable; the cache differs.  The other operands are       *)
(* variables on the same domain, which may divide by zero.  Points of      *)
(* interpolation are variables.                                            *)
(***************************************************************************)
EXTENDS PolyDomain, FiniteSets

CONSTANTS
  Domains,  \* domains to start from
  Others,   \* vectors of the other operands, over any of the domains
  Coeffs,   \* polynomials to start from, shorter than the domains
  MaxOps    \* bound on the operations on one variable

VARIABLES
  evals,                  \* the values, as their constraints admit them
  constant,               \* they are constants
  domain,
  fixed,                  \* FpVar::Constant offset
  lagrange_interpolator,  \* the values it was made with, or None
  subgroup_points,        \* the cached points, or None
  expected,               \* the values the variable should have
  coeffs,                 \* the polynomial, until an operation changes it
  ops,
  outcome                 \* "ok", "panic" or "unsatisfied"

vars == <<evals, constant, domain, fixed, lagrange_interpolator, subgroup_points,
          expected, coeffs, ops, outcome>>

None == << >>

(* from_vec_and_domain without interpolation.                              *)
Init ==
  /\ domain \in Domains /\ fixed \in BOOLEAN /\ constant \in BOOLEAN
  /\ coeffs \in Coeffs /\ Len(coeffs) <= Size(domain)
  /\ evals = [i \in Indices(domain) |-> Horner(coeffs, Elements(domain)[i])]
  /\ expected = evals
  /\ lagrange_interpolator = None /\ subgroup_points = None
  /\ ops = 0 /\ outcome = "ok"

-----------------------------------------------------------------------------
(* Operations.                                                             *)

SubgroupPoints ==
  LET p[i \in Indices(domain)] ==
        IF i = 0 THEN 1 ELSE Red(p[i - 1] * domain.gen)
  IN p

GenerateInterpolationCache ==
  /\ outcome = "ok"
  /\ IF fixed
     THEN lagrange_interpolator' = evals /\ UNCHANGED subgroup_points
     ELSE subgroup_points' = SubgroupPoints /\ UNCHANGED lagrange_interpolator
  /\ UNCHANGED <<evals, constant, domain, fixed, expected, coeffs, ops, outcome>>

(* Mutant: the interpolator of the old values survives.                    *)
CacheKept == lagrange_interpolator

CacheAfterUpdate == None

Pointwise(f(_, _), other) ==
  /\ evals' = [i \in Indices(domain) |-> Red(f(evals[i], other[i]))]
  /\ expected' = [i \in Indices(domain) |-> Red(f(expected[i], other[i]))]

CanUpdate == outcome = "ok" /\ ops < MaxOps

Updated ==
  /\ lagrange_interpolator' = CacheAfterUpdate
  /\ constant' = FALSE
  /\ coeffs' = None
  /\ ops' = ops + 1
  /\ UNCHANGED <<domain, fixed, subgroup_points, outcome>>

Operand == {f \in Others : DOMAIN f = Indices(domain)}

AddAssign ==
  /\ CanUpdate /\ Updated
  /\ \E o \in Operand : Pointwise(LAMBDA a, b : a + b, o)

SubAssign ==
  /\ CanUpdate /\ Updated
  /\ \E o \in Operand : Pointwise(LAMBDA a, b : a - b, o)

MulAssign ==
  /\ CanUpdate /\ Updated
  /\ \E o \in Operand : Pointwise(LAMBDA a, b : a * b, o)

(* The witnesses of a division are new variables in the constraint system  *)
(* of the first value, which a constant does not have.                     *)
PanicDivConstant ==
  /\ CanUpdate /\ constant
  /\ outcome' = "panic"
  /\ UNCHANGED <<evals, constant, domain, fixed, lagrange_interpolator,
                 subgroup_points, expected, coeffs, ops>>

(* A divisor that is zero refuses a dividend that is not; it admits every  *)
(* value for one that is, and the value chosen is followed.                *)
DivAssign ==
  /\ CanUpdate /\ ~ constant
  /\ \E o \in Operand :
       LET Choice(i) == Quotients(evals[i], o[i])
           choices   == UNION {Choice(i) : i \in Indices(domain)}
       IN IF \A i \in Indices(domain) : Choice(i) # {}
          THEN /\ evals' \in {v \in [Indices(domain) -> choices] :
                               \A i \in Indices(domain) : v[i] \in Choice(i)}
               /\ expected' = [i \in Indices(domain) |->
                    IF o[i] = 0 THEN evals'[i] ELSE Red(expected[i] * Inverse0(o[i]))]
               /\ Updated
          ELSE /\ outcome' = "unsatisfied"
               /\ UNCHANGED <<evals, constant, domain, fixed, lagrange_interpolator,
                              subgroup_points, expected, coeffs, ops>>

Next ==
  \/ GenerateInterpolationCache \/ AddAssign \/ SubAssign \/ MulAssign
  \/ DivAssign \/ PanicDivConstant

Spec == Init /\ [][Next]_vars

-----------------------------------------------------------------------------
(* interpolate_and_evaluate.                                               *)

(* The cache its branch expects; without it the call panics.               *)
CanInterpolate ==
  outcome = "ok" /\ (IF fixed THEN lagrange_interpolator # None ELSE subgroup_points # None)

(* The sets a sum of one element of each set can be.                       *)
Sums(f(_)) ==
  LET s[i \in 0 .. Size(domain)] ==
        IF i = 0 THEN {0} ELSE {Red(a + b) : a \in s[i - 1], b \in f(i - 1)}
  IN s[Size(domain)]

(* Constant offset: each coefficient is a witness bound by one product.    *)
WithConstantOffset(t) ==
  LET v == VInv(domain)
      e == Elements(domain)
  IN Sums(LAMBDA i : {Red(c * evals[i]) :
            c \in Quotients(EvaluateConstraints(domain, t), v[i] * (t - e[i]))})

(* Mutant: the inverse of a point is looked up at its own index.           *)
InverseIndexSame(n, i) == i

InverseIndex(n, i) == (n - i) % n

(* Mutant: the numerator is not enforced to differ from zero.              *)
AcceptAll(n) == TRUE

Accepted(n) == n # 0

WithNonConstantOffset(t) ==
  LET h == PowByConstant(domain.offset, Size(domain))
      lhs_numerator == Red(PowByConstant(t, Size(domain)) - h)
      Point(i) == subgroup_points[InverseIndex(Size(domain), i)]
  IN IF ~ Accepted(lhs_numerator) THEN {}
     ELSE UNION {Sums(LAMBDA i : {Red(c * evals[i]) :
                        c \in Quotients(lhs, alpha * Point(i) - 1)}) :
                   lhs   \in Quotients(lhs_numerator, h * Size(domain)),
                   alpha \in Quotients(t, domain.offset)}

Interpolations(t) == IF fixed THEN WithConstantOffset(t) ELSE WithNonConstantOffset(t)

Coset == LET e == Elements(domain) IN {e[i] : i \in Indices(domain)}

-----------------------------------------------------------------------------
(* Properties.                                                             *)

(* Whatever was done to the variable before, an interpolation that does    *)
(* not panic gives the value of the polynomial outside the domain, for     *)
(* every choice of witnesses; with a variable offset a point of the domain *)
(* is refused.  An untouched variable is the polynomial it was made from.  *)
InterpolationIsExact ==
  CanInterpolate =>
    /\ \A t \in Fp \ Coset :
         /\ Interpolations(t) = {PolyAt(domain, expected, t)}
         /\ coeffs # None => Interpolations(t) = {Horner(coeffs, t)}
    /\ ~ fixed => \A t \in Coset : Interpolations(t) = {}

(* The interpolator that stays in its public field interpolates the        *)
(* current values.                                                         *)
CacheIsFresh ==
  lagrange_interpolator # None =>
    \A t \in Fp \ Coset :
      InterpolateNatively(domain, lagrange_interpolator, t) = PolyAt(domain, evals, t)

(* A query position selects one fibre of the map x -> x^(2^cosetDim) that  *)
(* a round of the protocol folds the domain by, and every point of the     *)
(* domain is selected by as many positions as any other.                   *)
QueriesSelectFibres ==
  \A cosetDim \in 0 .. domain.dim :
    LET Positions    == [1 .. domain.dim -> {0, 1}]
        Query(bits)  == QueryCoset(domain, bits, cosetDim)
        Points(dom)  == LET e == Elements(dom) IN {e[i] : i \in Indices(dom)}
        Folded(x)    == PowByConstant(x, Pow2[cosetDim])
        selected     == [bits \in Positions |-> Points(Query(bits))]
    IN  /\ \A bits \in Positions :
             selected[bits] = {x \in Coset : Folded(x) = Folded(Query(bits).offset)}
        /\ \A x \in Coset :
             Cardinality({bits \in Positions : x \in selected[bits]}) = Pow2[cosetDim]
=============================================================================
