---------------------------- MODULE MC_Pairings -----------------------------
(***************************************************************************)
(* Pairings on small curves of the three families, two of each: with loop  *)
(* counts of both signs and of all digits, and twists of both types.       *)
(***************************************************************************)
EXTENDS Integers, Sequences

VARIABLES family, as, bs, pc, k, i, r, coeffs, prepared, f, result

M4 == INSTANCE MntCurve WITH
  P <- 13, D <- 2, NR <- 2, CurveA <- 2, G1 <- <<0, 11>>, G2 <- <<<<6, 10>>, <<4, 1>>>>,
  Order <- 17, ATE_LOOP_COUNT <- <<1, -1, 0, 0>>, ATE_IS_LOOP_COUNT_NEG <- TRUE,
  W1 <- 1, ABS_OF_W0 <- 3, W0_IS_NEG <- TRUE, E <- <<<<4, 5>>, <<1, 0>>>>

M4P == INSTANCE MntCurve WITH
  P <- 421, D <- 2, NR <- 2, CurveA <- 2, G1 <- <<151, 84>>,
  G2 <- <<<<297, 222>>, <<381, 144>>>>,
  Order <- 401, ATE_LOOP_COUNT <- <<1, 0, 1, 0, 0>>, ATE_IS_LOOP_COUNT_NEG <- FALSE,
  W1 <- 1, ABS_OF_W0 <- 21, W0_IS_NEG <- FALSE, E <- <<<<332, 252>>, <<297, 407>>>>

M6 == INSTANCE MntCurve WITH
  P <- 37, D <- 3, NR <- 2, CurveA <- 2, G1 <- <<12, 24>>,
  G2 <- <<<<17, 22, 31>>, <<20, 33, 18>>>>,
  Order <- 31, ATE_LOOP_COUNT <- <<1, 0, -1, 0>>, ATE_IS_LOOP_COUNT_NEG <- FALSE,
  W1 <- 1, ABS_OF_W0 <- 6, W0_IS_NEG <- FALSE, E <- <<<<1, 6, 31>>, <<5, 27, 5>>>>

M6N == INSTANCE MntCurve WITH
  P <- 37, D <- 3, NR <- 2, CurveA <- 2, G1 <- <<15, 26>>,
  G2 <- <<<<14, 32, 7>>, <<33, 26, 26>>>>,
  Order <- 43, ATE_LOOP_COUNT <- <<1, 1, 0>>, ATE_IS_LOOP_COUNT_NEG <- TRUE,
  W1 <- 1, ABS_OF_W0 <- 6, W0_IS_NEG <- TRUE, E <- <<<<29, 20, 14>>, <<8, 25, 6>>>>

BM == INSTANCE BlsCurve WITH
  P <- 7207, Beta <- 7206, Xi <- <<1, 3>>,
  FROBENIUS_COEFF_FP12_C1 <- <<<<1, 0>>, <<1962, 1680>>, <<5369, 0>>, <<4551, 3963>>>>,
  TWIST_TYPE <- "M", G1 <- <<3560, 5713>>,
  G2 <- <<<<6068, 652>>, <<5088, 3630>>>>, Order <- 601, X <- <<1, 0, 1>>, X_IS_NEGATIVE <- TRUE,
  E <- <<<<<<3974, 2847>>, <<6423, 1230>>, <<6154, 4306>>>>,
         <<<<1664, 3995>>, <<7140, 1975>>, <<4880, 4935>>>>>>

BD == INSTANCE BlsCurve WITH
  P <- 727, Beta <- 726, Xi <- <<1, 2>>,
  FROBENIUS_COEFF_FP12_C1 <- <<<<1, 0>>, <<277, 448>>, <<446, 0>>, <<679, 610>>>>,
  TWIST_TYPE <- "D", G1 <- <<340, 478>>,
  G2 <- <<<<133, 211>>, <<45, 636>>>>, Order <- 241, X <- <<1, 0, 0>>, X_IS_NEGATIVE <- FALSE,
  E <- <<<<<<467, 421>>, <<657, 537>>, <<6, 427>>>>,
         <<<<716, 269>>, <<262, 385>>, <<564, 216>>>>>>

ASSUME BM!CoefficientsArePowers /\ BD!CoefficientsArePowers

(* One pair, and two pairs in one product.                                 *)
Inputs(order) ==
  {<<<<a>>, <<b>>>> : a, b \in {0, 1, 2, 5, order - 1}}
    \cup {<<<<a, 3>>, <<b, c>>>> : a \in {0, 2}, b, c \in {0, 1, 4}}

Started(order) == \E input \in Inputs(order) : as = input[1] /\ bs = input[2]

Init ==
  \/ family = "M4" /\ Started(17) /\ M4!Init
  \/ family = "M4P" /\ Started(401) /\ M4P!Init
  \/ family = "M6" /\ Started(31) /\ M6!Init
  \/ family = "M6N" /\ Started(43) /\ M6N!Init
  \/ family = "BM" /\ Started(601) /\ BM!Init
  \/ family = "BD" /\ Started(241) /\ BD!Init

Next ==
  /\ \/ family = "M4" /\ M4!Next
     \/ family = "M4P" /\ M4P!Next
     \/ family = "M6" /\ M6!Next
     \/ family = "M6N" /\ M6N!Next
     \/ family = "BM" /\ BM!Next
     \/ family = "BD" /\ BD!Next
  /\ UNCHANGED family

Spec == Init /\ [][Next]_<<family, as, bs, pc, k, i, r, coeffs, prepared, f, result>>

(* The pairing that is done is the native one: bilinear, with products of  *)
(* pairs and points at infinity on either side.                            *)
PairingIsBilinear ==
  CASE family = "M4" -> M4!PairingIsBilinear
    [] family = "M4P" -> M4P!PairingIsBilinear
    [] family = "M6" -> M6!PairingIsBilinear
    [] family = "M6N" -> M6N!PairingIsBilinear
    [] family = "BM" -> BM!PairingIsBilinear
    [] family = "BD" -> BD!PairingIsBilinear

(* The line prepared for every digit meets the curve where the loop needs  *)
(* it to, and the running point is the multiple that the digits so far     *)
(* spell.                                                                  *)
LinesMeetPoints ==
  CASE family = "M4" -> M4!LinesMeetPoints
    [] family = "M4P" -> M4P!LinesMeetPoints
    [] family = "M6" -> M6!LinesMeetPoints
    [] family = "M6N" -> M6N!LinesMeetPoints
    [] family = "BM" -> BM!LinesMeetPoints
    [] family = "BD" -> BD!LinesMeetPoints

(* An honest prover fails only for a point of G2 at infinity: no other     *)
(* input of the group makes a preparation, an inversion of the Miller      *)
(* value or the final exponentiation divide by zero.                       *)
RefusedOnlyAtInfinity ==
  CASE family = "M4" -> M4!RefusedOnlyAtInfinity
    [] family = "M4P" -> M4P!RefusedOnlyAtInfinity
    [] family = "M6" -> M6!RefusedOnlyAtInfinity
    [] family = "M6N" -> M6N!RefusedOnlyAtInfinity
    [] family = "BM" -> BM!RefusedOnlyAtInfinity
    [] family = "BD" -> BD!RefusedOnlyAtInfinity

(* What a comment says of value() of the coefficients of a doubling: it    *)
(* "returns the value assigned to self".                                   *)
ValueIsAssigned ==
  CASE family = "M4"  -> M4!ValueIsAssigned
    [] family = "M4P" -> M4P!ValueIsAssigned
    [] family = "M6"  -> M6!ValueIsAssigned
    [] family = "M6N" -> M6N!ValueIsAssigned
    [] OTHER          -> TRUE
=============================================================================
