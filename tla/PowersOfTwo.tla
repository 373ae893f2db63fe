---------------------------- MODULE PowersOfTwo ----------------------------
(***************************************************************************)
(* Powers of two and the two logarithms the gadgets are sized with.  The   *)
(* powers are a recursive function rather than 2^k so that the proof       *)
(* system can reason about them (module PowersOfTwo_proofs).               *)
(***************************************************************************)
EXTENDS Integers

(* 1 << k, as `cur <<= k` on a BigInteger computes it. *)
Pow2[k \in Nat] == IF k = 0 THEN 1 ELSE 2 * Pow2[k - 1]

(* macro overhead!: ceil(log2(x)), with log(0) = 0.  The code counts the  *)
(* significant bits of x, less one for a power of two: the least n with    *)
(* x <= 2^n.                                                               *)
Overhead(x) ==
  CHOOSE n \in 0 .. x : x <= Pow2[n] /\ (n = 0 \/ Pow2[n - 1] < x)

(* ark_std::log2: the same.                                                *)
Log2Ceil(x) == Overhead(x)

(* The number of significant bits of x.                                    *)
BitLength(x) == Overhead(x + 1)
=============================================================================
