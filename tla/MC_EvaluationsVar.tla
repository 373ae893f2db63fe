-------------------------- MODULE MC_EvaluationsVar -------------------------
(* Cosets of the subgroups of order two and four of the field of 13 elements.  *)
EXTENDS EvaluationsVar

Dom(g, h, d) == [gen |-> g, offset |-> h, dim |-> d]

MCDomains == {Dom(12, 1, 1), Dom(12, 7, 1), Dom(5, 2, 2), Dom(5, 4, 2)}

MCOthers ==
  {[i \in 0 .. 1 |-> IF i = 0 THEN a ELSE b] : a \in {0, 2}, b \in {3, 12}}
    \cup {[i \in 0 .. 3 |-> (5 * i + 2) % 13], [i \in 0 .. 3 |-> i]}

MCCoeffs == {<<4>>, <<0, 1>>, <<3, 12>>, <<1, 0, 5, 2>>}
=============================================================================
