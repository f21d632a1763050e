----------------------------- MODULE FixedPoint -----------------------------
(***************************************************************************)
(* The integer arithmetic every formula of the library is written in:      *)
(* full_math.rs, unsafe_math.rs, fixed_point_64.rs and the widths of the   *)
(* Rust integer types.                                                     *)
(*                                                                         *)
(* One constant, Q, stands for 2^64.  It is at once the weight of the      *)
(* fixed-point unit (Q64.64 numbers) and the range of a u64, so that the   *)
(* ratios between prices, liquidities, amounts and the widths they must    *)
(* fit are those of the code when Q is made small for TLC.                 *)
(***************************************************************************)
EXTENDS Integers

CONSTANT Q

ASSUME QAssumption == Q \in Nat /\ Q >= 2

U64Max  == Q - 1
U128Max == Q * Q - 1
U256Max == Q * Q * Q * Q - 1

U64  == 0 .. U64Max
U128 == 0 .. U128Max

(***************************************************************************)
(* MulDiv and UnsafeMathTrait.  The products are taken in a type twice as  *)
(* wide, so they never overflow; the caller compares the quotient with the *)
(* width of its own type, which is where the code returns None.            *)
(***************************************************************************)
MulDivFloor(val, num, denom) == (val * num) \div denom

MulDivCeil(val, num, denom) == (val * num + (denom - 1)) \div denom

DivRoundingUp(x, y) == (x \div y) + (IF x % y > 0 THEN 1 ELSE 0)

(* core::mem::swap of a price pair that arrives in the wrong order *)
LowerOf(a, b) == IF a <= b THEN a ELSE b
UpperOf(a, b) == IF a <= b THEN b ELSE a
=============================================================================
