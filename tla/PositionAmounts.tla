--------------------------- MODULE PositionAmounts ---------------------------
(***************************************************************************)
(* The position helpers of liquidity_math.rs: the liquidity that amounts   *)
(* of the two tokens buy over a price range, and the amounts a change of   *)
(* liquidity takes from its owner or pays to it.  Pure functions.          *)
(* Faulty_X is X with a mistake, used by no specification.                 *)
(***************************************************************************)
EXTENDS SwapMath, TickTable

(* A quotient that mul_div_floor cannot return in a U128 is an unwrap of None *)
Unwrapped(liquidity) == IF liquidity \in U128 THEN LiquidityOk(liquidity) ELSE Panic

(* The product of the prices is brought back to Q64.64, rounded down, before *)
(* the amount is multiplied by it.                                           *)
GetLiquidityFromAmount0(a, b, amount0) ==
  LET width        == UpperOf(a, b) - LowerOf(a, b)
      intermediate == MulDivFloor(a, b, Q)
  IN  IF intermediate \in U128 /\ width > 0
        THEN Unwrapped(MulDivFloor(amount0, intermediate, width))
        ELSE Panic

GetLiquidityFromAmount1(a, b, amount1) ==
  LET width == UpperOf(a, b) - LowerOf(a, b)
  IN  IF width > 0 THEN Unwrapped(MulDivFloor(amount1, Q, width)) ELSE Panic

(* u128::min, of two calls that may each have panicked *)
LesserLiquidity(x, y) ==
  IF x = Panic \/ y = Panic THEN Panic ELSE LiquidityOk(LowerOf(x.liquidity, y.liquidity))

(* the greater of the two *)
Faulty_GetLiquidityFromAmounts(price, a, b, amount0, amount1) ==
  LET from0 == GetLiquidityFromAmount0(price, UpperOf(a, b), amount0)
      from1 == GetLiquidityFromAmount1(LowerOf(a, b), price, amount1)
  IN  CASE price <= LowerOf(a, b) -> GetLiquidityFromAmount0(a, b, amount0)
        [] LowerOf(a, b) < price /\ price < UpperOf(a, b) ->
             IF LesserLiquidity(from0, from1) = from0 THEN from1 ELSE from0
        [] price >= UpperOf(a, b) -> GetLiquidityFromAmount1(a, b, amount1)

GetLiquidityFromAmounts(price, a, b, amount0, amount1) ==
  CASE price <= LowerOf(a, b) -> GetLiquidityFromAmount0(a, b, amount0)
    [] LowerOf(a, b) < price /\ price < UpperOf(a, b) ->
         LesserLiquidity(GetLiquidityFromAmount0(price, UpperOf(a, b), amount0),
                         GetLiquidityFromAmount1(LowerOf(a, b), price, amount1))
    [] price >= UpperOf(a, b) -> GetLiquidityFromAmount1(a, b, amount1)

GetLiquidityFromSingleAmount0(price, a, b, amount0) ==
  CASE price <= LowerOf(a, b) -> GetLiquidityFromAmount0(a, b, amount0)
    [] LowerOf(a, b) < price /\ price < UpperOf(a, b) ->
         GetLiquidityFromAmount0(price, UpperOf(a, b), amount0)
    [] price >= UpperOf(a, b) -> LiquidityOk(0)

GetLiquidityFromSingleAmount1(price, a, b, amount1) ==
  CASE price <= LowerOf(a, b) -> LiquidityOk(0)
    [] LowerOf(a, b) < price /\ price < UpperOf(a, b) ->
         GetLiquidityFromAmount1(LowerOf(a, b), price, amount1)
    [] price >= UpperOf(a, b) -> GetLiquidityFromAmount1(a, b, amount1)

(***************************************************************************)
(* What a change of liquidity is worth: added liquidity is paid for        *)
(* rounding up, removed liquidity is paid out rounding down.               *)
(***************************************************************************)
(* the liquidity taken for its magnitude only *)
Faulty_DeltaAmount0Signed(a, b, delta) ==
  DeltaAmount0(a, b, IF delta < 0 THEN -delta ELSE delta, TRUE)

DeltaAmount0Signed(a, b, delta) ==
  IF delta < 0 THEN DeltaAmount0(a, b, -delta, FALSE) ELSE DeltaAmount0(a, b, delta, TRUE)

DeltaAmount1Signed(a, b, delta) ==
  IF delta < 0 THEN DeltaAmount1(a, b, -delta, FALSE) ELSE DeltaAmount1(a, b, delta, TRUE)

(* The side of the range is told by the tick, the amounts inside it by the *)
(* price.                                                                  *)
Amounts0And1(tickCurrent, price, lower, upper, delta) ==
  CASE tickCurrent < lower ->
         <<DeltaAmount0Signed(SqrtPriceAt[lower], SqrtPriceAt[upper], delta), 0>>
    [] lower <= tickCurrent /\ tickCurrent < upper ->
         <<DeltaAmount0Signed(price, SqrtPriceAt[upper], delta),
           DeltaAmount1Signed(SqrtPriceAt[lower], price, delta)>>
    [] lower <= tickCurrent /\ upper <= tickCurrent ->
         <<0, DeltaAmount1Signed(SqrtPriceAt[lower], SqrtPriceAt[upper], delta)>>

(***************************************************************************)
(* get_delta_amounts_signed for ticks of the domain.  MaxTokenOverflow of  *)
(* either amount is unwrapped, although the function returns a Result.     *)
(***************************************************************************)
GetDeltaAmountsSigned(tickCurrent, price, lower, upper, delta) ==
  LET amounts == Amounts0And1(tickCurrent, price, lower, upper, delta)
  IN  IF amounts[1] \in U64 /\ amounts[2] \in U64
        THEN [tag |-> "ok", amount0 |-> amounts[1], amount1 |-> amounts[2]]
        ELSE Panic
=============================================================================
