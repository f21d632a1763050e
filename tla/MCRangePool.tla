---------------------------- MODULE MCRangePool -----------------------------
EXTENDS RangePool

MCLiquidities == {0, 3, 8, 24, 100}
MCStartPrices == {4, 16, 50}
MCTargets     == {4, 8, 16, 24, 64}
MCFeeRates    == {1, 5}
MCAmounts     == {1, 2, 7, 14}
=============================================================================
