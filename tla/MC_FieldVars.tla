---------------------------- MODULE MC_FieldVars ----------------------------
(***************************************************************************)
(* Programs over variables of fields: of the field of five elements and    *)
(* its Booleans; of the extension of degree two of the field of three,     *)
(* with all its elements, and of extensions of the fields of five and of   *)
(* seven, with some of their elements; and of the field of seven emulated  *)
(* in that of five, by two limbs of two bits.  A behaviour is about one of *)
(* these fields.                                                           *)
(***************************************************************************)
EXTENDS Integers, Sequences

VARIABLES mode, bits, wantBits, last, outcome, meant, regs, want

Native ==
  INSTANCE NativeFp WITH P <- 5, N <- 3, MaxOperands <- 4, MaxElement <- 31,
                         Tables <- {<<1, 2, 4, 3>>, <<4, 0, 2, 2>>}

Variable(constant, v) == [constant |-> constant, value |-> v]

AllOfFp2 == [1 .. 2 -> {Variable(c, v) : c \in BOOLEAN, v \in 0 .. 2}]

Fp2 ==
  INSTANCE ExtensionVars WITH
    P <- 3, D <- 2, NR <- 2, N <- 1, MaxOperands <- 1, MaxElement <- 0, Elements <- AllOfFp2,
    Tables <- {<<<<1, 2>>, <<0, 1>>, <<2, 2>>, <<1, 0>>>>}

(* Constants, variables and a mixture.                                     *)
Mixed(v) ==
  LET n == Len(v)
  IN {[j \in 1 .. n |-> Variable(j \in constants, v[j])] : constants \in {{}, {1}, {n}, 1 .. n}}

SomeOfFp2 == UNION {Mixed(v) : v \in {<<0, 0>>, <<0, 3>>, <<2, 4>>, <<3, 1>>}}

LargeFp2 ==
  INSTANCE ExtensionVars WITH
    P <- 5, D <- 2, NR <- 2, N <- 1, MaxOperands <- 1, MaxElement <- 0, Elements <- SomeOfFp2,
    Tables <- {<<<<1, 2>>, <<0, 4>>, <<3, 2>>, <<4, 4>>>>}

SomeOfFp3 == UNION {Mixed(v) : v \in {<<0, 0, 0>>, <<1, 0, 0>>, <<0, 3, 0>>, <<2, 5, 4>>}}

Fp3 ==
  INSTANCE ExtensionVars WITH
    P <- 7, D <- 3, NR <- 3, N <- 1, MaxOperands <- 1, MaxElement <- 0, Elements <- SomeOfFp3,
    Tables <- {<<<<1, 2, 3>>, <<0, 5, 1>>, <<3, 2, 2>>, <<6, 4, 0>>>>}

Emulated ==
  INSTANCE EmulatedVars WITH
    P <- 5, T <- 7, NumLimbs <- 2, LimbBits <- 2, N <- 1, MaxOperands <- 1, MaxElement <- 0,
    Tables <- {<<1, 6, 4, 3>>, <<5, 0, 2, 2>>}

ASSUME BoundsAssumption ==
  /\ Native!WordsAllowed /\ Fp2!OperandsAllowed /\ LargeFp2!OperandsAllowed
  /\ Fp3!OperandsAllowed /\ Emulated!OperandsAllowed

Init ==
  \/ mode = "Fp" /\ Native!Init
  \/ mode = "Fp2" /\ Fp2!Init
  \/ mode = "LargeFp2" /\ LargeFp2!Init
  \/ mode = "Fp3" /\ Fp3!Init
  \/ mode = "emulated" /\ Emulated!Init

Next ==
  /\ \/ mode = "Fp" /\ Native!Next
     \/ mode = "Fp2" /\ Fp2!Next
     \/ mode = "LargeFp2" /\ LargeFp2!Next
     \/ mode = "Fp3" /\ Fp3!Next
     \/ mode = "emulated" /\ Emulated!Next
  /\ UNCHANGED mode

Spec == Init /\ [][Next]_<<mode, bits, wantBits, last, outcome, meant, regs, want>>

-----------------------------------------------------------------------------
(* Properties.                                                             *)

(* After any program the variables have the values that the program means. *)
FieldValuesAreMeant ==
  CASE mode = "Fp"       -> Native!FieldValuesAreMeant
    [] mode = "Fp2"      -> Fp2!FieldValuesAreMeant
    [] mode = "LargeFp2" -> LargeFp2!FieldValuesAreMeant
    [] mode = "Fp3"      -> Fp3!FieldValuesAreMeant
    [] mode = "emulated" -> Emulated!FieldValuesAreMeant

(* And so have the bits that they are taken apart into and compared to.    *)
BitsAreMeant == IF mode = "Fp" THEN Native!BitsAreMeant ELSE Fp2!BitsAreMeant

(* Calls go through exactly on legal operands, and enforcements exactly    *)
(* when they are true.                                                     *)
CallsAreExact == IF mode = "Fp" THEN Native!CallsAreExact ELSE Fp2!CallsAreExact
=============================================================================
