# Verification of r1cs-std

`r1cs-std` is a library of *gadgets*: functions that take variables of a
constraint system, allocate new ones and add constraints, so that whoever
satisfies the constraints must have computed the function. This directory holds
TLA+ models of the gadgets, TLC configurations that check them on small
instances, and proofs that TLAPS checks for every value of the constants.

1. The system · 2. How gadgets are modelled · 3. Modules · 4. Runs ·
5. Proofs · 6. Divergences from the documentation · 7. Limits · 8. Plan

Paths below are relative to the crate: `fields/fp/mod.rs` is
`src/src/fields/fp/mod.rs`.

## 1. The system

| component | state it keeps | operations | uses | correct when |
|---|---|---|---|---|
| emulated field: parameters (`fields/emulated_fp/params.rs`, `mod.rs`) | none (a scan) | `find_parameters`, `get_params`, `overhead!` | – | the cheapest limb size is found, its limbs cover the field, products of two fresh elements fit |
| emulated field: elements (`allocated_field_var.rs`) | limbs, `num_of_additions_over_normal_form`, `is_in_the_normal_form` | allocation, arithmetic, equality, selection, bits | `Reducer`, native field | the counter bounds the limbs, but for those of one lookup; no sequence of calls without it overflows the native field, and none panics |
| emulated field: products (`allocated_mul_result.rs`) | double limbs, `prod_of_num_of_additions` | `From`, `add`, `add_constant`, `reduce` | `Reducer` | the same, and the witnesses of the reduction fit their bits |
| emulated field: reduction (`reduce.rs`) | none | `post_add_reduce`, `pre_mul_reduce`, `reduce`, `group_and_check_equality` | native field | loops end; the grouped check accepts equal integers, and no others as long as no carry is too large |
| Booleans (`boolean/`) and slices (`eq.rs`, `cmp.rs`, `select.rs`) | a constant or a variable | connectives, k-ary gates, equality, order, selection, comparison of a word with a constant | native field | results that are allocated without a booleanity check are bits, and the right ones |
| native field (`fields/fp/`, `fields/mod.rs`) | a constant or a variable | linear operations, products, inverses, equality, order, selection, lookups, bits | Booleans | the constraints admit the meant value and no other; enforcements are exact |
| unsigned integers (`uint/`) | bits and a cached machine value | connectives, rotations, shifts, sums, order, equality, conversions | Booleans, native field | arithmetic modulo 2^N, cache and bits agree |
| Weierstrass curves (`groups/curves/short_weierstrass/mod.rs`, `non_zero_affine.rs`) | projective coordinates | complete and incomplete arithmetic, `scalar_mul_le`, allocation | field variables, bits | complete formulae are the group law; incomplete ones are only met where they are exact |
| Edwards curves (`groups/curves/twisted_edwards/mod.rs`), group trait (`groups/mod.rs`) | affine coordinates | arithmetic, scalar and table multiplication, signed digits over the Montgomery model | field variables, bits | as above |
| prime-order subgroup (both `new_variable`, `enforce_prime_order`) | – | allocation with the cheaper of two checks | curve arithmetic | an honest prover gets the point it means; the checked points are in the subgroup |
| polynomials (`poly/`) | values on a coset, two caches | arithmetic, interpolation, vanishing polynomials, query cosets | native field | interpolation is that of the current values, whatever was cached before |
| emulated field: enum (`field_var.rs`, `mul_result.rs`) | a constant of the target field or an element | every operation, with a case for each mixture | elements, Booleans | a register is the element the program means, whichever of its operands were constants |
| extension fields (`fields/quadratic_extension.rs`, `cubic_extension.rs`, `fp2.rs` … `fp12.rs`, defaults of `fields/mod.rs`) | two or three coefficients, each a variable of the base | arithmetic, Frobenius maps, powers, inverses, enforcements, selection, sparse products and cyclotomic squares of the pairing towers | native field, Booleans | polynomials modulo w^2 - nonresidue, w^3 - nonresidue, with no free coefficient |
| pairings (`pairing/`, prepared points of `groups/curves/short_weierstrass/{mnt4,mnt6,bls12}`) | coefficients of lines, the Miller value | preparation, Miller loop, final exponentiation, products of pairings | extension fields, Weierstrass curves | the native bilinear map, and a witness for every pair of points that are not at infinity |
| traits, macros and allocation (`lib.rs`, `alloc.rs`, `convert.rs`, `gr1cs_var.rs`, `macros.rs`), test helpers | – | – | – | not modelled, see section 7 |

The library is sequential: no threads, no messages, nothing persisted. What is
hard about it is elsewhere:

* **two executions at once.** A gadget is run by the prover, whose witnesses the
  code computes, and constrains every prover, whose witnesses it does not. A
  gadget is right only if its honest witness satisfies the constraints
  *and* no other result does.
* **bookkeeping that decides later calls.** The emulated field lets limbs grow
  and keeps one counter; whether to reduce is decided from the counter one call
  ahead. Evaluations and integers keep caches beside the values.
* **exceptional inputs.** Incomplete curve formulae, in scalar multiplications and in
  the preparation of pairings, divisions 0/0, sums at the size of the field, lookups and
  selections with constants among their operands.
* **conventions that two places share.** Signs of digits, loop counts and twists; the order
  in which coefficients are stored and consumed.
* **loops with data-dependent ends**, in the parameter scan and in
  `pre_mul_reduce`.

## 2. How gadgets are modelled

*A program is a behaviour.* A module of gadgets has as its state the variables a
circuit-building program holds; every gadget call is an action on any of them,
in any order, so an invariant speaks of all programs.

*Witnesses are nondeterministic.* A constraint `a * b = c` with `b` and `c` given
is the set of `a` that satisfy it (`Quotients` of `PrimeField`); an action takes
the result out of the set of everything its constraints admit. An empty set is a
constraint that cannot be satisfied, an error or a failed assertion, and ends the
program. Beside the admitted values the state has the meant ones (`want`,
`point`, `expected`), computed from the documentation's reading of the
call. "The two agree" is soundness, "the set is not empty when the call is legal"
is completeness.

*Counting instead of values.* In the emulated field what matters is how large a
limb can be. `EmulatedRepr` keeps the code's counter and, beside it, the number of
fresh ranges that were really summed into a limb (`size`); a call reports faults
(`panic`, `wrap`, `unsat`) computed from the sizes, while its decisions are taken
from the counter, as in the code. Only `group_and_check_equality` is also
modelled limb by limb.

*Points as multiples.* Where the formulae are not the question (the loops of
`scalar_mul_le`, the subgroup checks) a point is its discrete logarithm. The
formulae themselves are checked on coordinates in `WeierstrassLaw` and
`EdwardsLaw`.

*Towers as instances.* `QuadExt` and `CubicExt` take the operations of their base as
CONSTANT operators, as `QuadExtVar<BF, P>` is generic in `BF`. `ExtensionVars` instantiates them
over `FpOps` (constants, witnesses, enforcements: what constraints admit), and
`MntCurve` and `BlsCurve` over field elements and over each other; these build the fields and the
groups of a curve and hand their operations to `MntPairing` and `BlsPairing`. In a pairing every
product has one result and every inverse is bound by a product, so the values suffice:
an inverse of zero is a refusal, `rejected`.

*Emulated elements as residues.* `EmulatedVars` is the enum with its cases; a variable is the
residue that its limbs stand for, because that they do is what `EmulatedFp` is about.
Lookups, which work limb by limb, are made limb by limb.

Definitions that begin with a comment "Mutant:" are not part of the model. Each
is a plausible mistake in the definition that follows it; replacing the one by the
other makes the property named for it in `PROJECT.json` fail.

## 3. Modules

| module | models | state and actions |
|---|---|---|
| `PowersOfTwo` | `overhead!`, `log2`, `BigUint::bits`, shifts | functions |
| `EmulatedParams` | `find_parameters` and the size formulas of the grouped check | functions |
| `EmulatedParams` → `PreMulReduce` | the scan of `find_parameters`, one size per step; then the loop of `pre_mul_reduce` on two counters | `limbSize`, `best`; `Try` is one iteration, `Check` the assertion at the top of `pre_mul_reduce`, `Break`, `ReduceElem`, `ReduceOther` the branches of its loop |
| `GroupSizes` → `EmulatedRepr` → `EmulatedFp` | sizes of groups; representation of an element and the effect of every gadget on it; programs of gadget calls | `slot[s]` is an `AllocatedEmulatedFpVar` (`adds` = `num_of_additions_over_normal_form`, `normal` = `is_in_the_normal_form`), `prod[s]` an `AllocatedMulResultVar`; one action per public method that changes or needs this bookkeeping, with the reductions it makes; `"negated"` in `faults` records a call of `three_bit_cond_neg_lookup` |
| `GroupSizes` → `GroupEquality` | `group_and_check_equality` | `AddLimb` packs the next pair, `CheckGroup` ends a group: padding, carry, constraint. The carry is any that satisfies the constraints, or the one that the program computes; `honest` and `inField` remember whether it was always the latter, and whether the side with the carry stayed below the modulus |
| `PrimeField` → `BooleanOps` → `BooleanGadgets` | Booleans, k-ary gates, words against constants, slices | `bits[i]` a `Boolean` (constant or not, and its value), one action per method |
| `BooleanOps` → `FpOps` → `NativeFp` | `AllocatedFp`/`FpVar`, comparison, conversions; composed with `BooleanGadgets` | `regs[i]` an `FpVar`; an action of `BooleanGadgets` is an action of the composed system |
| `FpOps` → `UIntOps` → `UIntGadgets` | `UInt<N>` | `regs[i].bits`, `regs[i].value` |
| `PrimeField` → `QuadExt`, `CubicExt` → `ExtField`, `MntCurve`, `BlsCurve` (instances) | values of field variables; extensions over any base; the extension of degree `D` of a prime field; the towers and groups of MNT4, MNT6 and BLS12 | operators |
| `BooleanGadgets`, `FpOps` → `ExtensionVars` | `Fp2Var` and `Fp3Var`, with the defaults of `FieldVar` | `regs[i]` the coefficients, one action per method |
| `BooleanGadgets`, `FpOps` → `EmulatedVars` | `EmulatedFpVar`, `MulResultVar` | `regs[i]` constant or variable and its residue, one action per method |
| `MntPairing`, `BlsPairing` (in `MntCurve`, `BlsCurve`) | preparation, Miller loop and final exponentiation of `pairing/mnt4` and `mnt6` (one program over `D` = 2 and 3), and of `pairing/bls12` | `r` the running point, `coeffs` and `prepared` the coefficients, `f` and `result` the values; an action per bit of the loops, and one per `exp_by_x` of the final exponentiation. `AffineLaw` is the native group |
| `ScalarMulSpec`, `ScalarMul` | what `scalar_mul_le` promises; its loops (`scalar_mul_le`, `fixed_scalar_mul_le`) | `accumulator`, `power` (the doubled base), `mulResult`; an action per loop step, `exceptional` if an incomplete formula met a pair it is wrong on |
| `PrimeField` → `WeierstrassLaw` | `ProjectiveVar`, `NonZeroAffineVar` | `projective` the coordinates, `affine` the point they stand for, or `NoPoint`; an action per operation |
| `PrimeField` → `EdwardsLaw` → `SignedDigitMul` | `AffineVar`, the Montgomery model, `scalar_mul_le` and the windowed `precomputed_base_scalar_mul_le`; the signed-digit multiplication, digit by digit | `acc`, `point`; `mont_result` (the code's `result`) and `ed_result` are the code's, `segment` and `total` what they stand for |
| `SubgroupWitness` | `AllocVar::new_variable` of points, `enforce_prime_order` | the doublings and the loop over the bits of the factor |
| `PolyDomain` → `EvaluationsVar` | domains, vanishing polynomials, dense polynomials; `EvaluationsVar` | `evals`, `lagrange_interpolator`, `subgroup_points`; one action per operator, interpolation as an operator on every point |
| `MC_*` | values of constants for TLC; `MC_UIntGadgets`, `MC_FieldVars`, `MC_ShortWeierstrass`, `MC_TwistedEdwards` and `MC_Pairings` put instances or components beside each other, a behaviour being about one of them | |
| `*_proofs` | theorems; `PrimeField_proofs` holds the field lemmas that those on curves rest on, `ShortWeierstrass_proofs` is about `ScalarMul` and `WeierstrassLaw` | |

`A → B` reads "B extends A". `ScalarMulSpec` is the abstract specification that
`ScalarMul` is shown to implement (`Abstract == INSTANCE ScalarMulSpec`, checked
as the property `ImplementsScalarMul` and, for its safety part, proved).
The other promises are functions (`Sum`, `PolyAt`, `want`, the power of the native
pairing) and are compared with state by state.

`PROJECT.json` maps each definition to the lines it stands for.

## 4. Runs

Nine runs pass and three show a violation.

| run | instance | what it shows |
|---|---|---|
| `pre_mul_reduce` | 11 × 11 field sizes up to 255 and 381 bits, both goals, counters 0, 1, 2, 7, 40; 24 338 states | the scan returns the first size of least cost (`ScanFindsFirstMinimum`), the limbs cover the target and the top one is neither empty nor too wide (`LimbsCoverTarget`); wherever the check at the top of `pre_mul_reduce` passes, two witnesses fit (`TwoWitnessesMultiply`), so the loop ends (`Terminates`) and never reduces for nothing (`ReductionShrinks`) |
| `emulated_products` | native field of 16 bits, target of 8, two limbs of 4 bits; an element, fresh operands, an unreduced product summed up to 3; 4 694 states | no call panics (`NoPanic`), and none leaves an element without room for the next (`LazyReductionHasRoom`); as long as no lookup negates limbs, counters bound limbs, the normal form is one, nothing wraps around, whatever quotient and remainder a prover gives, and the honest prover has its witnesses |
| `group_equality` | modulus 65521, three limbs wider than the shift, two to a group, every choice of five limb values on either side, every carry; 94 425 states | the carry is the difference of what was compared, modulo the modulus and, while no right side of an equation has left the field, exactly; so what passes is equal; equal integers pass with the program's carries; the integers are those of the whole vectors |
| `short_weierstrass` | order 13, every scalar of up to 6 bits (two chunks), every set of constant bits; three curves of odd order over the field of 13; 230 252 states | no incomplete formula is used where it is wrong; the result is the product; the loops refine `ScalarMulSpec`; complete formulae, equality, `to_affine`, and the affine formulae on every pair they allow |
| `twisted_edwards` | a complete Edwards curve over the field of 13; ten pairs of order and cofactor; 374 441 states | the Edwards law; table and signed-digit multiplication, and the Montgomery model wherever it is defined; allocation round-trips by either check of the order. Multiplying by the cofactor gives points of the subgroup alone, and `enforce_prime_order` accepts those alone; the other check of `new_variable` compares a point with itself and enforces nothing (section 6) |
| `field_vars` | the field of 5 with three bits and words; Fp2 over 3, with every element, and over 5; Fp3 over 7; the field of 7 emulated in that of 5 | the constraints admit exactly what is meant, for every mixture of constants and variables; calls succeed exactly when legal |
| `pairings` | two MNT4, two MNT6, two BLS12 pairings; 3 269 states | the value is the native bilinear pairing; the line of every digit meets the curve where it should; only infinity is refused |
| `evaluations_var` | cosets of 2 and 4 elements of the field of 13, two operations, caching anywhere, every quotient of zero by zero; constant and variable offsets; 4 020 states | interpolation is exact and refuses points of the domain, caches are never stale; a query position selects a fibre of the map the domain is folded by, and every point is selected equally often |
| `uint` | three bits, in the field of 37 (a sum of four fits) and of 5 (two chunks); 85 552 states | results are modulo eight, the cache agrees with the bits, enforcements are exact |
| `slice_order` (violation) | slices of two bits | `is_ge` on slices is not the lexicographic order |
| `uint_not_equal` (violation) | three bits in chunks of two | 0 and 1 cannot be enforced to differ |
| `mnt_value` (violation) | the pairings above | `value()` of the coefficients of a doubling of MNT4 is not what was assigned |

Related questions share a run: its root module has a variable (`mode`, `family`) that
says which instance a behaviour is about and never changes, and each property is the
conjunction of those of the instances. Mutants are found in whichever instance they touch.

*The pairings.* Six curves small enough to enumerate on which the programs mean what they
mean in the library: the trace gives the loop count, the embedding degree is the family's.

| instance | field | order | loop digits | negative | covers |
|---|---|---|---|---|---|
| `M4` | 13, degree 2 | 17 | 1 -1 0 0 | yes | digit -1, last line, inverted value, negative chunk w0 |
| `M4P` | 421, degree 2 | 401 | 1 0 1 0 0 | no | positive count |
| `M6` | 37, degree 3 | 31 | 1 0 -1 0 | no | digit -1, cubic field |
| `M6N` | 37, degree 3 | 43 | 1 1 0 | yes | as `M4`, cubic field |
| `BM` | 7207 | 601 | 1 0 1 | yes | twist of type M, negative count |
| `BD` | 727 | 241 | 1 0 0 | no | twist of type D, positive count |

Inputs are multiples 0, 1, 2, 5 and -1 of the generators, and products of two pairs. The
constant `E` is the native value of the generators: it is required not to be one, and every
other value to be its power.

*Why the bounds are enough.* The field-level modules enumerate the whole field and
every prover's witness, so a bound only limits widths: 5 is the smallest field
in which non-unique bit decompositions, a middle (p-1)/2 and inverses other than ±1 all
exist; three bits are the modulus' own width there. Extensions enumerate every element of
the smallest one and, in larger ones, elements with zeros, ones and full coefficients, whose
coefficients are constants, variables and a mixture; a call is made on operands among them.
The states of gadget programs
are what the variables hold, not the history, so the length of a program is not
bounded except in `EvaluationsVar` (`MaxOps`; each operation
drops the same cache) and `EmulatedFp` (`MaxProdSums`, see section 6; an element larger than `MaxSize`, which only
negated limbs make, is held but not passed on: `NeverPanics` is proved without that bound;
beside an unreduced product only elements of up to `MaxBeside` additions are explored
further, which reaches the same elements, products and faults as the run without that
constraint, whose 35 774 states are their combinations). Scalars of 6
bits in a group of 4-bit order make two chunks, the second shorter than the
first. Cosets of 4 are the smallest whose inverse index is not its own. The
emulated instance is tight: with one bit less of native field its parameters are refused by
`MulAssumption`.

*Fairness.* Only `PreMulReduce` and `ScalarMulSpec`/`ScalarMul` state liveness.
They are loops of a single sequential function that
runs until it returns, hence weak fairness on each of their steps; no other
environment is involved. Programs of gadget calls need not go on and have none.

*Deadlock* is checked except in `field_vars`, `uint`, `twisted_edwards`, `pairings`,
`evaluations_var` and the violation runs, where a program ends at its result, at an enforcement
that fails, a panic, or an irregular multiplication, and the models stop there.

## 5. Proofs

| theorem | for every | says |
|---|---|---|
| `PowersOfTwo_proofs!OverheadLeast` | argument | `overhead!` is the least exponent whose power bounds it |
| `PreMulReduce_proofs!FirstMinimumFound`, `LimbsAlwaysCover` | native field of more than 13 bits, target field, goal | `ScanFindsFirstMinimum`, `LimbsCoverTarget` |
| `PreMulReduce_proofs!WitnessesMultiply`, `NeverPanics`, `ReductionAlwaysShrinks` | the same where at most 255 limbs are found, operands with any counters | `TwoWitnessesMultiply`, `ReductionShrinks`; the assertion at the top of `pre_mul_reduce` never fails |
| `EmulatedFp_proofs!TypeCorrect`, `LazyReductionHasRoomAlways` | native and target field, limb size, number of variables, program | the invariants of the same names |
| `EmulatedFp_proofs!CounterBoundsLimbsAlways`, `NormalFormIsInRangeAlways` | the same; the properties are about programs without `three_bit_cond_neg_lookup` (`NeverNegates`) | the invariants of the same names |
| `EmulatedFp_proofs!NeverPanics` | any program, with limbs of at least four bits (`LimbsNotNarrow`) and sums that `reduce` can take (`SumsReducible`) | `NoPanic` |
| `EmulatedFp_proofs!NeverWraps` | the same, with at most seven limbs (`FewLimbs`), programs without that lookup, quotients and remainders of any prover | `NoWrapAround` |
| `EmulatedFp_proofs!HonestProversSucceed` | `LimbsNotNarrow`, `SumsReducible`, and a prime that is not just above a power of two and has at least two limbs (`ModulusIsLarge`); programs without that lookup | `HonestProverSucceeds` |
| `GroupEquality_proofs!CheckIsSound`, `CarriesAlwaysExact` | field, surfeit, limb size, number of limbs in which `GroupFaults` finds no fault but a loose carry; every carry a prover can give | what passes is equal modulo the native modulus, and equal if no right side of an equation left the field |
| `GroupEquality_proofs!TightCheckIsSound` | the same, where no carry is loose either (`TightCarries`) | what passes is equal, whatever the carries |
| `GroupEquality_proofs!CheckIsComplete`, `IntegersAlwaysWhole`, `GroupTypeCorrect` | as `CheckIsSound` | equal integers pass with the program's carries; the integers are those of all the limbs |
| `ShortWeierstrass_proofs!TypeCorrect`, `IncompleteFormulaeAreSafe`, `ScalarMulCorrect` | group of odd order, scalar, set of constant bits | no exceptional pair is met, the result is the product |
| `ShortWeierstrass_proofs!ImplementsSpec` | the same | every step is a step of `ScalarMulSpec` or a stutter |
| `ShortWeierstrass_proofs!CoordinatesAlwaysMeant` | prime field of more than three elements, curve without points of order two, program | `CoordinatesAreMeant`: the complete formulae of addition, mixed and constant addition, and doubling give the chord-and-tangent law, without exceptions; `to_affine` has a witness and one result. All-zero coordinates, which the allocation admits, stand for no point and stay all zero |
| `ShortWeierstrass_proofs!EqualityAlwaysOfPoints`, `AffineFormulaeAlwaysExact` | the same, any second point and coordinates | `EqualityIsOfPoints`; the affine formulae admit the sum alone on the operands they are meant for: for `double_and_add_unchecked` not p and -2p and, with a constant, not p and 2p |
| `SubgroupWitness_proofs!RoundTrip`, `ClearsCofactor`, `EnforcesPrimeOrder` | order and cofactor that are `Allowed`, point | an honest prover gets the point it means, multiplying by the cofactor clears it, `enforce_prime_order` accepts the subgroup alone |
| `SignedDigitMul_proofs!PointsAreGroup` | prime field, square `a`, `d` not a square | the points are a commutative group under the unified law; associativity is proved, not assumed |
| `SignedDigitMul_proofs!VariableIsPoint`, `FormulaeAreComplete` | the same, any program, scalars and tables of any length, any witnesses | `AccIsPoint`, `NoDivisionByZero` |
| `SignedDigitMul_proofs!MontgomeryModelIsExact`, `RegularMultiplicationIsExact` | the same, any bases, segments and digits | `MontgomeryIsExact`, `RegularMulIsExact` |

*Assumptions.* In `PreMulReduce`, `LimbsAssumption` bounds the number of limbs by 255. The bound is
sharp: 256 limbs of one bit over a native field of 16 bits pass the check, but no two witnesses
fit (section 6). No native field of 47 bits or more has so many limbs, up to target
fields of 4096 bits. The first two theorems do not use it. `TargetAssumption`, `LimbAssumption`, `FieldAssumption` say that the
sizes are those of the primes; `MulAssumption` that two witnesses may be
multiplied, which `TwoWitnessesMultiply` checks of `find_parameters`. `CallAssumption` is the shape
of a call of `group_and_check_equality`; `NoFaultsAssumption` says that `GroupFaults` finds nothing
wrong with its sizes but that a carry may be loose, the same condition that `EmulatedFp` evaluates on
every call. `GroupFaults`
tests the largest group and the middle one only: that a shorter last group then has room too, and
that every carry but the last fits its bits, is proved (`RoomHolds`, `CarryFits`). In `ScalarMul` the order is odd, and `OrderBits` its length. In
`SubgroupWitness` every pair is `Allowed`: each nonzero residue modulo the order has an inverse, the
cofactor is no multiple of the order, and the powers of two in it are below the order
(`CurvesAssumption`, which TLC evaluates for the ten pairs of `MC_TwistedEdwards`). The curve
theorems assume a prime `P` (`FieldAssumption`) and what makes the Edwards law complete, a square
`A` and a `D` that is not (`EdwardsAssumption`); the characteristic is then not two. On Weierstrass
curves no point has order two, `x^3 + ax + b` has no root, and the characteristic is above three
(`CubicsAssumption`): curves of odd order, those that the formulae are complete for. That
numbers modulo a prime have inverses, and a product vanishes only with a factor, is proved
from `FieldAssumption` in `PrimeField_proofs`.

*The invariants.* None of the properties is inductive alone.

* Parameters: `BestInv` says that the scan has kept the first of the cheapest sizes tried so far, with
  the cost and the number of limbs that belong to it, and `PhaseInv` that elements are multiplied
  only with what the whole scan found. That two witnesses then fit is arithmetic: the widest
  limb leaves surfeit + 4 bits, twice its size is at most the native size less 14, and 1024 products
  add at most ten bits.
* Emulated field: three invariants, each on top of the one before. `CountInv` is about every program:
  the counter of every element leaves the room that `post_add_reduce` tests, sums of products can be
  reduced, and no fault so far is a panic. The room is needed because a subtraction raises the counter
  by a power of two above the subtrahend's, which only the test made *after the previous call* bounds.
  `Inv` adds, as long as no lookup has negated limbs, that every element is `Good` (its size is
  bounded by its counter, and a normal element is fresh) and every product `GoodProd`.
  `QuietInv` adds that no fault so far is a wrap: with a good operand the padding,
  at most one bit above the counter's room, leaves at least four bits to a group. A
  group of limbs below 2^(surfeit + bits) totals at most half its padding, so that
  the left side, the padding and the carry stay below twice the padding, which is below the
  modulus, and the padding outweighs the right side, whatever quotient of the allotted bits
  is on it: its limbs are fresh but for the top one, which has the surfeit's bits more. Against the
  least surfeit, that of an element taken as a product, this takes at most seven limbs (`FewLimbs`).
  For an honest prover `QuietInv` adds that products are `Tame`, that is, that their integers are
  in proportion to the number of summed products. Compared with the prime, that is what the
  quotient's bits are counted for: `ModulusIsLarge` says that a fresh element is below twice the
  prime, and its square within `NumLimbs` times the prime times the power of two of its bits.
  Without that the bound says nothing of the quotient, as it lets every limb of
  a canonical element be anything.
* Grouped equality: `GroupInv` relates the carry to what remains: while the
  constraints hold, the carry minus the accumulated padding is the quotient
  of the integers compared so far by the power of two they end at, up to a multiple of the
  native modulus that appears only when a right side has left the field (`DifferenceIs`).
  The left sides never do (`Bounded`), and the program's own carries do not make a right side do so
  (`OwnInField`), which completeness rests on together with `DifferenceRemains`: an equation
  that fails shows in the low digits of the difference for good. Where the carries that are not the
  last are too short for a right side to leave the field, none does: the last is bound to the paddings,
  which `TightInv` bounds.
* Scalar multiplication: `MulInv` has one conjunct per phase. In the affine phase
  the accumulator is (2^i plus the low bits) times the chunk's base, between 2^i
  and 2^(i+1), while the doubled base is 2^(i+1): they are neither equal nor opposite
  as long as the sum stays below the order, which is why the last
  two bits are left to the complete formulae.
* Grouped equality, the history: `IntsSoFar` says that the integers are those of the limbs taken. The
  recursive function `IntegerUpTo` is shown to exist for every number of limbs (`IntegerUpToIs`).
* Weierstrass curves: `CubicInv` says that the coordinates stand for the point. A step keeps it because
  the formulae know no exception (`LawIsComplete`): they are a multiple of the chord, the tangent or
  infinity, by a factor that does not vanish. The multiple is an identity of polynomials modulo the
  curve equations of both operands. The factor is, for equal points, eight times the cube of the ordinate, and
  for a chord the last coordinate, which could only vanish if the difference of the points had
  ordinate zero: here the missing points of order two are used (`OrdinateNotZero`).
* Subgroup: `Inv` says that `ge` is the allocated point times the power of two
  of the doublings done, and `result` is `ge` times the bits of the factor gone through
  (`LoopInv`); what each way out returns and compares (`ReturnInv`) follows. The rest is
  arithmetic: -P = (r-1)P exactly where rP is zero, and one more than a multiple of the order
  leaves a point of the subgroup.

* Edwards curves: `MulInv` says that before and after a multiplication the variable is the point it
  stands for and, while no exceptional case was met, that `mont_result` is the Montgomery form of
  what the digits of the segment sum to, which is not zero, and `ed_result` the sum of the
  segments before it. That the segment is not zero is what makes the next chord exist; it follows
  from the digit being neither equal nor opposite to the segment, which `regular` says.
  Underneath are identities of polynomials modulo the curve equation: a proof names a combination
  of what is known to vanish and compares it with the number in question. The denominators of the
  law vanish nowhere because `D` is no square; associativity compares the cross products of both
  sides; the chord is compared with the sum on general points, through the point of order two,
  and where the sum is that point. The multiplications follow by induction on the bits,
  on which the loops are recursive functions.

Inductions, over exponents, scan positions and bits, are done on subsets of the naturals: a set without
a least element is empty (`LeastElement`, proved from the library's theorems on finite sets).

*Only model-checked*: liveness (`Terminates`, the fairness part of
`ImplementsScalarMul`), everything about
native gadgets, integers, extensions, pairings and polynomials. Most of these modules
fold over sequences or have `RECURSIVE` operators: what those compute for
every length needs induction over data, which the prover does not offer.

## 6. Divergences from the documentation

Three are shown by runs (`slice_order`, `uint_not_equal`, `mnt_value`). The following were met
while modelling. The models do what the code does; the properties exclude the case, by the
name an action gives the call, or by a constant.

| where | documentation | code |
|---|---|---|
| `boolean/eq.rs:95`, `:39` | `eq.rs:53`: with a false condition an enforcement is vacuous | a false *variable* as condition is not (`"off"`) |
| `boolean/cmp.rs:67` | `cmp.rs:38`: word and constant compared as integers | a word shorter than the constant is compared with the constant's top bits (`"short"`) |
| `fields/fp/mod.rs:919` | `mod.rs:911`: `self * self == result` | with one constant a free witness stands in for it (`"square_with_constant"`) |
| `fields/fp/mod.rs:1089` | `eq.rs:21`: enforce equality | between two constants nothing is compared, also in `mul_equals` (`"constants"`) |
| `fields/fp/cmp.rs:87` | `cmp.rs:10`: operands up to (p-1)/2 | with equality admitted, one side is moved by one before its range is checked (`"edge"`) |
| `emulated_fp/reduce.rs:240` | `reduce.rs:225`: a group always has a limb | not with limbs of up to three bits, which `find_parameters(20, 6, Constraints)` returns: `LimbsNotNarrow` |
| `emulated_fp/allocated_mul_result.rs:231` | `allocated_field_var.rs:345`: products can be added and reduced later | a long enough sum panics in `reduce`: `MaxProdSums`, `SumsReducible` |
| `emulated_fp/reduce.rs:160` | `reduce.rs:140` | the check for parameters that do not support multiplication is weaker than what the loop needs: `find_parameters(16, 256, Constraints)` passes it and the loop never ends. `BaseSizes` starts at 21 |
| `short_weierstrass/mod.rs:910`, `twisted_edwards/mod.rs:650` | `mod.rs:860`: multiply by the modulus, compare with the identity | a point is compared with itself; `CofactorClears` is claimed of the other check only |
| `non_zero_affine.rs:125` | `:108`: `self != ±other` suffices | `other = -2 self` has no witness; excluded in `AffineFormulaeAreExact` |
| `non_zero_affine.rs:105` | the same | if an operand is a constant, `self` is doubled and `other` added: `other = 2 self` then divides zero by zero and every slope is admitted, `other = -2 self` has no witness; both are excluded for that case |
| `short_weierstrass/mod.rs:422` | `mod.rs:418`: perform an on-curve check | all-zero coordinates pass it. They stand for no point, every result they enter is all zero, and `is_eq` holds between them and every point; `NoPoint`, `EqualityIsOfPoints` |
| `poly/domain/vanishing_poly.rs:41` | `:37` | over a domain of dimension 0 `evaluate_constraints` squares once; dimensions 1 and 2 are checked |
| `lagrange_interpolator.rs:86` | `:85` | `interpolate` is 0 at points of the domain; checked outside it |
| `poly/domain/mod.rs:107` | `:95`: big endian position | the position is read low bit first: the model does the same, and `QueriesSelectFibres` says what holds in either order |
| `fields/quadratic_extension.rs:278`, `cubic_extension.rs:270`, `emulated_fp/field_var.rs:122` | `fields/mod.rs:167`: `self * result == Self::one()` | zero as a constant is inverted to zero and nothing is compared (`"constants"`) |
| `emulated_fp/allocated_field_var.rs:838` | `select.rs`, three-bit lookup: the entry is negated | limbs are negated one by one in the native field, which is not the negative of the element, and come back with a counter of zero and marked as in normal form, though neither bounds them. `EmulatedVars` names such calls `"negated"`; `EmulatedFp` makes them, remembers that they were made (`"negated"` in `faults`), and its properties on limbs are about programs without (`NeverNegates`) |
| `emulated_fp/reduce.rs:319`, `:349` | `reduce.rs:227`: no overflow or underflow can happen | the carry of a group is a witness of up to surfeit + bits_per_limb bits; for groups of two and more limbs its product with the group's weight can reach the native modulus, so that carries other than the program's satisfy the equation of the field where they do not satisfy that of the integers. `GroupFaults` calls it `"loose"`, and `CheckIsSound` speaks of what is then left; `TightCheckIsSound` of sizes where it cannot happen |
| `emulated_fp/field_var.rs:459` | product without reduction of any two | with a constant on the left and a variable on the right the constant is allocated outside the constraint system, for another goal: under the goal of least weight an assertion fails (`"constant_first"`) |
| `emulated_fp/field_var.rs:433` | `allocated_field_var.rs:881`: a unique representation | a constant is always converted with the parameters of least weight, a variable with its own: they can differ in the number of elements |
| `emulated_fp/field_var.rs:276` | bits of an element | a constant has as many bits as the modulus, a variable as its limbs |
| `pairing/mnt4/mod.rs`, `mnt6/mod.rs` | points of the groups | a point of G2 at infinity gives one where the loop count is positive and no witness where it is negative; BLS12 refuses it by name |
| `groups/curves/short_weierstrass/bls12/mod.rs:204` | bits of X | leading zeros of the word are iterated over as well; every X in use has its top bit set (`X`) |

## 7. Limits

* Not modelled: traits, macros, `Vec` allocation (declarations and element-wise
  repetition), test helpers, conversions to bytes and to constraint
  fields (regroupings of bits, limbs and coefficients), `enforce_prime_order` of Weierstrass curves
  (`unimplemented!`), the default table multiplication that both curve models override.
* A prepared point that is *allocated*, rather than prepared from a group element, has
  coefficients that no constraint binds to a point; programs of `MntPairing` and `BlsPairing`
  prepare their points.
* Fp4, Fp6 and Fp12 are checked over values, in the pairings; constants among their
  coefficients are checked for Fp2 and Fp3.
* The emulated field runs the code's own witness generation; the values of limbs are
  bounded, not enumerated. `HonestProverSucceeds` is checked and proved for target primes
  that are not just above a power of two, because the bound on a canonical value (`ValMax`) is
  the padding's, not the prime: the Pasta primes and fields of one limb are not covered.
  `sub_without_reduce` occurs inside `sub` and the equality checks.
* Points of `SubgroupWitness` are multiples of one generator of the whole curve, which is
  thus cyclic; the odd part of the cofactor is coprime to the order. Points of
  `ScalarMul` are of the one odd order.
* `to_affine` of all-zero coordinates, which stand for no point, is not examined. That
  double_and_add_unchecked adds up in the order (p + q) + p is how it is stated: associativity of
  the chord-and-tangent law is not proved.
* Base fields are prime fields. Edwards curves are complete (a square, d not).
* k-ary gates have fewer operands than the characteristic. UInt order is compared where N + 1 bits
  are well below the modulus. Signed digits have three bits, as the code requires.
* In `field_vars` operations on bits alone are taken beside one value of the field
  variables, which they do not read.
* Points of interpolation are variables.

## 8. Plan

Done, in this order: emulated field (`PowersOfTwo` … `EmulatedFp`), grouped equality,
scalar multiplication with its abstract specification, curve laws, subgroup,
polynomials, Booleans, native field, integers, extension fields, pairings, the enum of the
emulated field; the theorems of section 5.

Next:

1. Proofs: the cache invariant of `EvaluationsVar`, for which `PolyDomain` has to do without
   `RECURSIVE` operators and folds.
2. An instance of the emulated field with two elements and one of `GroupEquality` with
   three groups.
3. Runs that show the loose carry of `reduce.rs:319` and the endianness of
   `query_position_to_coset` (section 6) as violations.
4. Associativity of the Weierstrass law for every curve, which its theorems leave to TLC.
