----------------------------- MODULE PolyDomain -----------------------------
(***************************************************************************)
(* Multiplicative cosets and polynomials over them: poly/domain,           *)
(* poly/polynomial and the interpolator with its constants.  A domain is a *)
(* record of the generator of its subgroup, its offset and its dimension;  *)
(* a vector over it is a function on 0 .. Size - 1.                        *)
(***************************************************************************)
EXTENDS PrimeField, PowersOfTwo, Sequences

LOCAL INSTANCE SequencesExt

-----------------------------------------------------------------------------
(* Powers, as FieldVar computes them.                                      *)

(* pow_le: square and multiply from the least significant bit.             *)
PowLe(x, bits) ==
  FoldLeft(LAMBDA a, b : <<IF b = 1 THEN Red(a[1] * a[2]) ELSE a[1], Red(a[2] * a[2])>>,
           <<1, x>>, bits)[1]

RECURSIVE BitsBE(_)
BitsBE(n) == IF n = 0 THEN << >> ELSE Append(BitsBE(n \div 2), n % 2)

(* pow_by_constant: from the most significant.                             *)
PowByConstant(x, n) ==
  FoldLeft(LAMBDA a, b : Red(a * a * (IF b = 1 THEN x ELSE 1)), 1, BitsBE(n))

-----------------------------------------------------------------------------
(* Radix2DomainVar.                                                        *)

Size(dom) == Pow2[dom.dim]

Indices(dom) == 0 .. Size(dom) - 1

Elements(dom) ==
  LET e[i \in Indices(dom)] ==
        IF i = 0 THEN dom.offset ELSE Red(e[i - 1] * dom.gen)
  IN e

(* The bits of the position that name a coset.                             *)
CosetIndex(bits, dim, cosetDim) == SubSeq(bits, 1, dim - cosetDim)

(* Mutant: the generator of the domain is kept.                            *)
StrideOne(dim, cosetDim) == 1

Stride(dim, cosetDim) == Pow2[dim - cosetDim]

QueryCoset(dom, bits, cosetDim) ==
  [gen    |-> PowByConstant(dom.gen, Stride(dom.dim, cosetDim)),
   offset |-> Red(dom.offset * PowLe(dom.gen, CosetIndex(bits, dom.dim, cosetDim))),
   dim    |-> cosetDim]

-----------------------------------------------------------------------------
(* VanishingPolynomial, and DensePolynomialVar by Horner's method.         *)

ConstantTerm(dom) == PowByConstant(dom.offset, Size(dom))

Evaluate(dom, x) == Red(PowByConstant(x, Size(dom)) - ConstantTerm(dom))

(* The gadget squares before it counts, so at least once.                  *)
EvaluateConstraints(dom, x) ==
  LET cur[k \in 1 .. dom.dim + 1] == IF k = 1 THEN Red(x * x) ELSE Red(cur[k - 1] * cur[k - 1])
  IN Red(cur[IF dom.dim < 1 THEN 1 ELSE dom.dim] - ConstantTerm(dom))

Horner(coeffs, x) == FoldRight(LAMBDA c, a : Red(a * x + c), coeffs, 0)

-----------------------------------------------------------------------------
(* LagrangeInterpolator.                                                   *)

(* Mutant: the exponent of the offset is the order.                        *)
DegreeWhole(n) == n

Degree(n) == n - 1

(* v_inv[i], the product of h (g^i - g^j) over the other j.                *)
VInv(dom) ==
  LET v[i \in Indices(dom)] ==
        IF i = 0
        THEN Red(Size(dom) * PowByConstant(dom.offset, Degree(Size(dom))))
        ELSE Red(v[i - 1] * Inverse0(dom.gen))
  IN v

(* batch_inversion_and_mul leaves a zero as it is.                         *)
LagrangeCoefficients(dom, t) ==
  LET v  == VInv(dom)
      e  == Elements(dom)
      vp == Evaluate(dom, t)
  IN [i \in Indices(dom) |-> Red(vp * Inverse0(v[i] * (t - e[i])))]

SumOver(dom, f(_)) ==
  LET s[i \in 0 .. Size(dom)] == IF i = 0 THEN 0 ELSE Red(s[i - 1] + f(i - 1))
  IN s[Size(dom)]

(* LagrangeInterpolator::interpolate on the values it was made with.       *)
InterpolateNatively(dom, values, t) ==
  LET c == LagrangeCoefficients(dom, t) IN SumOver(dom, LAMBDA i : c[i] * values[i])

-----------------------------------------------------------------------------
(* The polynomial through the values, by its definition.                   *)

ProductOver(S, f(_)) == FoldLeft(LAMBDA a, i : Red(a * f(i)), 1, SetToSeq(S))

PolyAt(dom, values, t) ==
  LET e == Elements(dom)
      Basis(i) == ProductOver(Indices(dom) \ {i},
                              LAMBDA j : (t - e[j]) * Inverse0(e[i] - e[j]))
  IN SumOver(dom, LAMBDA i : values[i] * Basis(i))
=============================================================================
