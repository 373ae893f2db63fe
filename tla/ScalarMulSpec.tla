---------------------------- MODULE ScalarMulSpec ---------------------------
(***************************************************************************)
(* What a scalar multiplication promises: one answer, `bits * self`, and   *)
(* an answer in the end.                                                   *)
(*                                                                         *)
(* A point of a cyclic group is written as the multiple of a fixed point   *)
(* that it is, a number below the order of the group; a little-endian      *)
(* vector of bits is the number it stands for.                             *)
(***************************************************************************)
EXTENDS Integers

CONSTANT Order  \* the order of the group

VARIABLES
  scalar,   \* the number the bits stand for
  base,     \* the point that is multiplied
  answers   \* the points returned so far: none, then one

vars == <<scalar, base, answers>>

Init == scalar \in Nat /\ base \in 0 .. Order - 1 /\ answers = {}

Answer ==
  /\ answers = {}
  /\ answers' = {(scalar * base) % Order}
  /\ UNCHANGED <<scalar, base>>

Spec == Init /\ [][Answer]_vars /\ WF_vars(Answer)
=============================================================================
