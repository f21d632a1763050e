----------------------------- MODULE PowersOfTwo -----------------------------
(***************************************************************************)
(* What a shift by n multiplies or divides by: as a recursive function,    *)
(* since the provers know nothing of 2 ^ n.                                *)
(***************************************************************************)
EXTENDS Integers

Pow2[n \in Nat] == IF n = 0 THEN 1 ELSE 2 * Pow2[n - 1]
=============================================================================
