------------------------------ MODULE MCTickMath ------------------------------
(***************************************************************************)
(* Fifteen-bit prices and a base of 2^(2048/6932), about 1.23.  With five  *)
(* bits of the logarithm its greatest error is 0.21 ticks, as 16 bits are  *)
(* for the base 1.0001; the margins 0.01 and 0.8561 are the code's.        *)
(***************************************************************************)
EXTENDS TickMath

MCFactors == <<29579, 26700, 21756, 14445, 6367, 1237>>

(* The price of every tick and its neighbours, 31 more in each interval,    *)
(* and prices on either side of the domain                                  *)
MCSqrtPrices ==
  LET at(t, i) == SqrtPriceAt[t] + ((SqrtPriceAt[t + 1] - SqrtPriceAt[t]) * i) \div 32
  IN  {at(t, i) : t \in MIN_TICK .. MAX_TICK - 1, i \in 1 .. 31}
        \cup {SqrtPriceAt[t] + i : t \in Ticks, i \in -1 .. 1}
        \cup {0, U128Max}
=============================================================================
