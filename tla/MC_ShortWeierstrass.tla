------------------------- MODULE MC_ShortWeierstrass ------------------------
(***************************************************************************)
(* Short Weierstrass curves: scalar multiplications in a group of order    *)
(* 13, and the arithmetic of the points of curves of 17, 19 and 9 points   *)
(* over the field of 13 elements.  Every behaviour is about one of the     *)
(* two: the programs of points follow a multiplication by no bits.         *)
(***************************************************************************)
EXTENDS ScalarMul, WeierstrassLaw

VARIABLE mode

MCCoeffs == {<<2, 4>>, <<0, 2>>, <<0, 3>>}

NoScalar == len = 0 /\ scalar = 0 /\ selfZero = FALSE /\ selfConstant = FALSE

NoPoints ==
  /\ coeff_a = 0 /\ coeff_b = 3
  /\ affine = Infinity /\ projective = ProjAllocated(Infinity)

CurvesInit ==
  \/ mode = "scalar" /\ Init /\ NoPoints
  \/ mode = "points" /\ Init /\ NoScalar /\ CubicInit

CurvesNext ==
  /\ UNCHANGED mode
  /\ \/ Next /\ UNCHANGED cubicVars
     \/ mode = "points" /\ pc = "done" /\ CubicNext /\ UNCHANGED vars

CurvesSpec ==
  /\ CurvesInit
  /\ [][CurvesNext]_<<mode, vars, cubicVars>>
  /\ WF_vars(Step)
=============================================================================
