-------------------------- MODULE MC_TwistedEdwards -------------------------
(***************************************************************************)
(* A twisted Edwards curve over the field of 13 elements, with             *)
(* multiplications by signed digits for two segments, of two digits and of *)
(* one, with any points as bases; and allocations of points of prime       *)
(* order, with both checks and with odd and even cofactors.  Every         *)
(* behaviour is about one of the two.                                      *)
(***************************************************************************)
EXTENDS SubgroupWitness, SignedDigitMul

VARIABLE mode

MCCurves ==
  {<<13, 1>>, <<13, 4>>, <<13, 8>>, <<29, 12>>, <<7, 6>>, <<7, 2>>, <<11, 3>>,
   <<13, 3>>, <<5, 7>>, <<17, 14>>}

MCTables == {<< <<g1, g2>>, <<g1>> >> : g1, g2 \in Points}

NoSubgroup ==
  /\ r = 0 /\ h = 0 /\ task = "none" /\ allocated = 0 /\ ge = 0 /\ doublings = 0
  /\ place = 0 /\ result = 0 /\ pc = "none" /\ satisfied = TRUE

CurveInit ==
  \/ mode = "order" /\ Init /\ EdwardsInit
  \/ mode = "Edwards" /\ EdwardsInit /\ NoSubgroup

CurveNext ==
  /\ UNCHANGED mode
  /\ \/ mode = "order" /\ Next /\ UNCHANGED edwardsVars
     \/ mode = "Edwards" /\ EdwardsNext /\ UNCHANGED vars

CurveSpec == CurveInit /\ [][CurveNext]_<<mode, vars, edwardsVars>>
=============================================================================
