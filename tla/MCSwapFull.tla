----------------------------- MODULE MCSwapFull -----------------------------
(* Books built from positions, a seven-tick price table and small widths *)
EXTENDS SwapFull

MCSqrtPriceAt ==
  [t \in -3 .. 3 |-> CASE t = -3 -> 6  [] t = -2 -> 10 [] t = -1 -> 18
                       [] t = 0  -> 32 [] t = 1  -> 57 [] t = 2  -> 102
                       [] t = 3  -> 181]

Position(lower, upper, amount) ==
  [lower |-> lower, upper |-> upper, liquidity |-> amount]

(* no position at all; the part of a pool that has liquidity and no tick in *)
(* reach (tests/swap_full.rs:95-106); one wide; nested; side by side, where *)
(* an initialized tick changes nothing; disjoint, with a gap of zero        *)
(* liquidity                                                                *)
MCBooks ==
  {BookOf({}),
   [net |-> [t \in {} |-> 0], active |-> [t \in CurrentTicks |-> 9]],
   BookOf({Position(-3, 3, 9)}),
   BookOf({Position(-2, 2, 6), Position(-1, 1, 5)}),
   BookOf({Position(-2, 0, 4), Position(0, 2, 4), Position(1, 3, 11)}),
   BookOf({Position(-2, -1, 7), Position(1, 2, 3)})}

MCPrices   == {10, 18, 31, 44, 57, 101}
MCFeeRates == {1, 4}
MCAmounts  == {0, 1, 5, 31}
MCLimits   == {0, 18, 25, 60, 102}

(* explicit limits on the domain bounds: 6 and 181 are the prices of the *)
(* first and last tick                                                   *)
MCLimitsAtBounds == {6, 181}
=============================================================================
