---------------------------- MODULE MCPoolLedger ----------------------------
(* Two owners, four overlapping ranges, the price table of MCSwapFull *)
EXTENDS PoolLedger, TLC

MCSqrtPriceAt ==
  [t \in -3 .. 3 |-> CASE t = -3 -> 6  [] t = -2 -> 10 [] t = -1 -> 18
                       [] t = 0  -> 32 [] t = 1  -> 57 [] t = 2  -> 102
                       [] t = 3  -> 181]

(* around the price, one of them inside the other; above it and below it *)
MCRanges == {<<-2, 2>>, <<-1, 1>>, <<1, 3>>, <<-3, 0>>}
MCOffers == {<<7, 13>>, <<16, 10>>}

MCFeeRates      == {1}
MCAmounts       == {3, 20}
MCLimits        == {0, 18, 80}
MCInitialPrices == {32, 44}

OwnerSymmetry == Permutations(Owners)
=============================================================================
