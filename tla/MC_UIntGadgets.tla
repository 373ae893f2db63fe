--------------------------- MODULE MC_UIntGadgets ---------------------------
(***************************************************************************)
(* Programs over integers of three bits, in a native field that holds the  *)
(* sum of four of them and in one so small that they are compared in two   *)
(* chunks.                                                                 *)
(***************************************************************************)
VARIABLES chunked, regs, want, bit, wantBit, last, outcome, meant

Whole == INSTANCE UIntGadgets WITH P <- 37, N <- 3
Parts == INSTANCE UIntGadgets WITH P <- 5, N <- 3

Init ==
  \/ chunked = FALSE /\ Whole!Init
  \/ chunked = TRUE /\ Parts!Init

Next ==
  /\ \/ ~ chunked /\ Whole!Next
     \/ chunked /\ Parts!Next
  /\ UNCHANGED chunked

Spec == Init /\ [][Next]_<<chunked, regs, want, bit, wantBit, last, outcome, meant>>

(* Properties, as module UIntGadgets states them.                          *)

(* The bits are those of the number that the program means.                *)
NumbersAreMeant == Whole!NumbersAreMeant

(* The machine value never parts from the bits.                            *)
CacheAgrees == Whole!CacheAgrees

(* Operations go through exactly when their operands are in range, and     *)
(* enforcements exactly when they are true.                                *)
CallsAreExact == Whole!CallsAreExact
=============================================================================
