--------------------------- MODULE SignedDigitMul ---------------------------
(***************************************************************************)
(* precomputed_base_3_bit_signed_digit_scalar_mul of twisted_edwards/      *)
(* mod.rs.  Three bits of a scalar select a base times 1, 2, 3 or 4 and a  *)
(* sign.  The digits of a segment are summed with the incomplete addition  *)
(* of the Montgomery model, the segments with the complete one of the      *)
(* Edwards model.  segment and total are the sums the code means to        *)
(* compute; regular holds until an addition or a conversion meets a case   *)
(* its formula does not cover.  Before and after the variable acc goes     *)
(* through the operations of EdwardsLaw; a multiplication puts its result  *)
(* there.                                                                  *)
(***************************************************************************)
EXTENDS EdwardsLaw

CONSTANT Tables  \* the bases: for every segment, a base for every digit

ASSUME TablesAssumption == Tables \subseteq Seq(Seq(Points))

VARIABLES
  bases,           \* bases
  mont_result,     \* result
  ed_result,       \* ed_result
  done,            \* the segments gone through, and the digits of the current one
  segment, total,  \* what result and ed_result are meant to be
  regular,         \* no exceptional case was met
  outcome          \* "idle", "running", or how the multiplication ended

mulVars == <<bases, mont_result, ed_result, done, segment, total, regular, outcome>>

edwardsVars == <<acc, point, mulVars>>

None == << >>

Running == outcome = "running"

(* No multiplication is under way.                                         *)
Idle ==
  /\ bases = None /\ mont_result = None /\ ed_result = None
  /\ done = <<0, 0>>
  /\ segment = Zero /\ total = Zero /\ regular = TRUE
  /\ outcome = "idle"

EdwardsInit == AccIsZero /\ Idle

LawOf == outcome = "idle" /\ LawNext /\ UNCHANGED mulVars

(* The variable is going to be replaced.                                   *)
Begin ==
  /\ outcome = "idle"
  /\ bases' \in Tables /\ outcome' = "running"
  /\ acc' = Zero /\ point' = Zero
  /\ UNCHANGED <<mont_result, ed_result, done, segment, total, regular>>

-----------------------------------------------------------------------------
(* A base and its multiples.                                               *)

(* Mutant: the bits are read with the first as the more significant.       *)
IndexReversed(b0, b1) == 1 + b1 + 2 * b0

Index(b0, b1) == 1 + b0 + 2 * b1

AllConvertible(q) == \A n \in 1 .. 4 : CanConvert(Multiple(q, n))

(* three_bit_cond_neg_lookup on the second coordinates.                    *)
CondNeg(m, b2) == IF b2 = 1 THEN <<m[1], Red(-m[2])>> ELSE m

(* The Montgomery point the bits select, and the point it stands for.      *)
Looked(q, b0, b1, b2) == CondNeg(FromEdwards(Multiple(q, Index(b0, b1))), b2)

Signed(q, b0, b1, b2) ==
  LET n == 1 + b0 + 2 * b1
  IN IF b2 = 1 THEN Opposite(Multiple(q, n)) ELSE Multiple(q, n)

-----------------------------------------------------------------------------
(* Steps.                                                                  *)

Base == bases[done[1] + 1][done[2] + 1]

InSegment == done[1] < Len(bases) /\ done[2] < Len(bases[done[1] + 1])

Stop(o) ==
  /\ outcome' = o
  /\ UNCHANGED <<acc, point, bases, mont_result, ed_result, done, segment, total, regular>>

(* What the segment and the result can become.                             *)
Extended(m) == IF mont_result = None THEN {m} ELSE MontAdd(m, mont_result)

Joined(q) == IF ed_result = None THEN {q} ELSE Add(q, ed_result)

Results == UNION {Joined(q) : q \in IntoEdwards(mont_result)}

Regular(digit) ==
  regular /\ (mont_result # None => digit \notin {segment, Opposite(segment)})

(* One digit of the current segment, whose constraints may fit no witness. *)
AddDigit ==
  /\ Running /\ InSegment /\ AllConvertible(Base)
  /\ \E b0, b1, b2 \in 0 .. 1 :
       LET sums == Extended(Looked(Base, b0, b1, b2))
       IN /\ regular' = Regular(Signed(Base, b0, b1, b2))
          /\ segment' = Sum(segment, Signed(Base, b0, b1, b2))
          /\ \/ mont_result' \in sums /\ UNCHANGED outcome
             \/ sums = {} /\ outcome' = "unsatisfied" /\ UNCHANGED mont_result
  /\ done' = <<done[1], done[2] + 1>>
  /\ UNCHANGED <<acc, point, bases, ed_result, total>>

(* Some multiple of the base has no Montgomery coordinates: an error.      *)
RejectBase == Running /\ InSegment /\ ~ AllConvertible(Base) /\ Stop("error")

(* Mutant: result = None is left out at the end of a segment.              *)
KeepResult(r) == r

NextResult(r) == None

(* The end of a segment, which may have fewer digits than bases.           *)
EndSegment ==
  /\ Running /\ mont_result # None /\ done[2] > 0
  /\ regular' = (regular /\ segment[1] # 0)
  /\ \/ ed_result' \in Results /\ UNCHANGED outcome
     \/ Results = {} /\ outcome' = "unsatisfied" /\ UNCHANGED ed_result
  /\ mont_result' = NextResult(mont_result)
  /\ segment' = Zero
  /\ total' = Sum(total, segment)
  /\ done' = <<done[1] + 1, 0>>
  /\ UNCHANGED <<acc, point, bases>>

(* unwrap() of the result of a segment without digits, or of no segment.   *)
PanicEmpty ==
  /\ Running /\ done[2] = 0 /\ (done[1] < Len(bases) \/ ed_result = None)
  /\ Stop("panic")

ReturnSum == Running /\ done[2] = 0 /\ ed_result # None /\ Stop("returned")

(* The result of a regular multiplication is used further.                 *)
Use ==
  /\ outcome = "returned" /\ regular
  /\ acc' = ed_result /\ point' = total
  /\ bases' = None /\ ed_result' = None /\ done' = <<0, 0>> /\ total' = Zero
  /\ outcome' = "idle"
  /\ UNCHANGED <<mont_result, segment, regular>>

EdwardsNext ==
  LawOf \/ Begin \/ AddDigit \/ RejectBase \/ EndSegment \/ PanicEmpty \/ ReturnSum \/ Use

EdwardsSpec == EdwardsInit /\ [][EdwardsNext]_edwardsVars

-----------------------------------------------------------------------------
(* Properties.                                                             *)

(* After any program, and whatever witnesses are chosen for the quotients, *)
(* the variable is the point it should be, and that is one of the curve.   *)
AccIsPoint == acc = point /\ point \in Points

(* The formulae are complete: no pair of points makes a denominator zero,  *)
(* so no honest prover is left without a witness.                          *)
NoDivisionByZero ==
  outcome = "idle" =>
    Double(acc) # {} /\ \A q \in Points : Add(acc, q) # {} /\ Sub(acc, q) # {}

(* Through the Montgomery model and back: the constraints admit the sum    *)
(* and nothing else, on points and sums that have Montgomery coordinates   *)
(* and are not the point of order two, and on pairs that have a chord.     *)
Convertible(q) == CanConvert(q) /\ q[1] # 0

MontgomeryIsExact ==
  outcome = "idle" /\ Convertible(point) =>
    /\ IntoEdwards(FromEdwards(point)) = {point}
    /\ \A q \in Points :
         Convertible(q) /\ q \notin {point, Opposite(point)}
           /\ Convertible(Sum(point, q)) =>
             UNION {IntoEdwards(m) : m \in MontAdd(FromEdwards(point), FromEdwards(q))}
               = {Sum(point, q)}

(* Unless an addition met two equal or opposite points or a segment came   *)
(* to the point of order two, the result is the sum of the digits, for     *)
(* every choice of witnesses, and an honest prover has witnesses.          *)
RegularMulIsExact ==
  regular =>
    outcome # "unsatisfied" /\ (outcome = "returned" => ed_result = total)
=============================================================================
