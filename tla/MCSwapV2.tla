------------------------------ MODULE MCSwapV2 -------------------------------
EXTENDS SwapV2

(* no fee; small; capped at once; capped late; nearly and fully 100% *)
MCTransferFees ==
  {[bps |-> 0, max |-> 0], [bps |-> 2, max |-> 31], [bps |-> 3, max |-> 2],
   [bps |-> 5, max |-> 4], [bps |-> 9, max |-> 31], [bps |-> 10, max |-> 6]}

(* of the last, the output of the whole range is floored by a quarter *)
MCRanges ==
  {[price |-> 32, target |-> 12, liquidity |-> 40, zeroForOne |-> TRUE],
   [price |-> 32, target |-> 70, liquidity |-> 21, zeroForOne |-> FALSE],
   [price |-> 20, target |-> 90, liquidity |-> 60, zeroForOne |-> FALSE],
   [price |-> 32, target |-> 128, liquidity |-> 3, zeroForOne |-> FALSE]}

MCFeeRates == {1, 4}
MCRequests == {1, 3, 8, 19, 31}
==============================================================================
