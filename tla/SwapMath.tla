------------------------------ MODULE SwapMath ------------------------------
(***************************************************************************)
(* One swap step: the token amounts of a price move (liquidity_math.rs),   *)
(* the price reached by an amount (sqrt_price_math.rs) and the step that   *)
(* combines them (swap_math.rs).  Everything here is a pure function of    *)
(* its arguments, as it is in the code.                                    *)
(*                                                                         *)
(* An operator Faulty_X is X with a plausible mistake.  No specification   *)
(* uses it: it stands in for X to show that a property can fail.           *)
(***************************************************************************)
EXTENDS FixedPoint

CONSTANT FEE_RATE_DENOMINATOR_VALUE

ASSUME FeeDenominatorAssumption ==
  FEE_RATE_DENOMINATOR_VALUE \in Nat /\ FEE_RATE_DENOMINATOR_VALUE > 0

(***************************************************************************)
(* Outcomes of a call: Result::Ok, Result::Err and a panic.                *)
(***************************************************************************)
Err(code) == [tag |-> "err", code |-> code]
Panic     == [tag |-> "panic"]

(***************************************************************************)
(* get_delta_amount_0_unsigned and get_delta_amount_1_unsigned, before the *)
(* comparison with u64::MAX: an amount above U64Max is MaxTokenOverflow.   *)
(***************************************************************************)
DeltaAmount0(a, b, liquidity, roundUp) ==
  LET lo == LowerOf(a, b)
      hi == UpperOf(a, b)
  IN  IF roundUp
        THEN DivRoundingUp(MulDivCeil(liquidity * Q, hi - lo, hi), lo)
        ELSE MulDivFloor(liquidity * Q, hi - lo, hi) \div lo

DeltaAmount1(a, b, liquidity, roundUp) ==
  LET width == UpperOf(a, b) - LowerOf(a, b)
  IN  IF roundUp THEN MulDivCeil(liquidity, width, Q)
                 ELSE MulDivFloor(liquidity, width, Q)

Faulty_AmountIn(from, to, liquidity, zeroForOne) ==
  IF zeroForOne THEN DeltaAmount0(to, from, liquidity, FALSE)
                ELSE DeltaAmount1(from, to, liquidity, FALSE)

(* The amount the pool takes, rounded up, when the price moves from -> to *)
AmountIn(from, to, liquidity, zeroForOne) ==
  IF zeroForOne THEN DeltaAmount0(to, from, liquidity, TRUE)
                ELSE DeltaAmount1(from, to, liquidity, TRUE)

Faulty_AmountOut(from, to, liquidity, zeroForOne) ==
  IF zeroForOne THEN DeltaAmount1(to, from, liquidity, TRUE)
                ELSE DeltaAmount0(from, to, liquidity, TRUE)

(* The amount the pool pays, rounded down, when the price moves from -> to *)
AmountOut(from, to, liquidity, zeroForOne) ==
  IF zeroForOne THEN DeltaAmount1(to, from, liquidity, FALSE)
                ELSE DeltaAmount0(from, to, liquidity, FALSE)

(* calculate_amount_in_range: a value above U64Max is the code's None *)
CalculateAmountInRange(from, to, liquidity, zeroForOne, isBaseInput) ==
  IF isBaseInput THEN AmountIn(from, to, liquidity, zeroForOne)
                 ELSE AmountOut(from, to, liquidity, zeroForOne)

(***************************************************************************)
(* The next price.  The code unwraps a checked subtraction, a checked      *)
(* addition and a cast to u128: a value outside U128 is that panic, and    *)
(* NoPrice is the panic of a zero or negative denominator.                 *)
(***************************************************************************)
NoPrice == -1

NextSqrtPriceFromAmount0RoundingUp(sqrtPrice, liquidity, amount, add) ==
  LET numerator1 == liquidity * Q
      product    == amount * sqrtPrice
  IN  IF amount = 0 THEN sqrtPrice
      ELSE IF add /\ product <= U256Max
        THEN MulDivCeil(numerator1, sqrtPrice, numerator1 + product)
      ELSE IF add
        THEN DivRoundingUp(numerator1, (numerator1 \div sqrtPrice) + amount)
      ELSE IF product < numerator1
        THEN MulDivCeil(numerator1, sqrtPrice, numerator1 - product)
      ELSE NoPrice

NextSqrtPriceFromAmount1RoundingDown(sqrtPrice, liquidity, amount, add) ==
  IF add THEN sqrtPrice + ((amount * Q) \div liquidity)
         ELSE sqrtPrice - DivRoundingUp(amount * Q, liquidity)

NextSqrtPriceFromInput(sqrtPrice, liquidity, amountIn, zeroForOne) ==
  IF zeroForOne
    THEN NextSqrtPriceFromAmount0RoundingUp(sqrtPrice, liquidity, amountIn, TRUE)
    ELSE NextSqrtPriceFromAmount1RoundingDown(sqrtPrice, liquidity, amountIn, TRUE)

NextSqrtPriceFromOutput(sqrtPrice, liquidity, amountOut, zeroForOne) ==
  IF zeroForOne
    THEN NextSqrtPriceFromAmount1RoundingDown(sqrtPrice, liquidity, amountOut, FALSE)
    ELSE NextSqrtPriceFromAmount0RoundingUp(sqrtPrice, liquidity, amountOut, FALSE)

(***************************************************************************)
(* compute_swap_step, value by value in the order the code computes them.  *)
(***************************************************************************)
AmountRemainingLessFee(amountRemaining, feeRate) ==
  MulDivFloor(amountRemaining, FEE_RATE_DENOMINATOR_VALUE - feeRate,
              FEE_RATE_DENOMINATOR_VALUE)

(* rounded down *)
Faulty_FeeOnTop_Floor(amountIn, feeRate) ==
  MulDivFloor(amountIn, feeRate, FEE_RATE_DENOMINATOR_VALUE - feeRate)

(* a rounding up done on top of one *)
Faulty_FeeOnTop_TwiceUp(amountIn, feeRate) ==
  MulDivCeil(amountIn, feeRate, FEE_RATE_DENOMINATOR_VALUE - feeRate) + 1

(* the gross amount in place of the fee *)
Faulty_FeeOnTop_Gross(amountIn, feeRate) ==
  MulDivCeil(amountIn, FEE_RATE_DENOMINATOR_VALUE,
             FEE_RATE_DENOMINATOR_VALUE - feeRate)

FeeOnTop(amountIn, feeRate) ==
  MulDivCeil(amountIn, feeRate, FEE_RATE_DENOMINATOR_VALUE - feeRate)

(* What the step may spend on the move: the input without fee, or the output *)
StepBudget(amountRemaining, feeRate, isBaseInput) ==
  IF isBaseInput THEN AmountRemainingLessFee(amountRemaining, feeRate)
                 ELSE amountRemaining

(* None taken for zero *)
Faulty_ReachesTarget(sqrtPrice, target, liquidity, budget, isBaseInput, zeroForOne) ==
  LET range == CalculateAmountInRange(sqrtPrice, target, liquidity,
                                      zeroForOne, isBaseInput)
  IN  range > U64Max \/ budget >= range

(* The whole range to the target is affordable: the price goes to the target *)
ReachesTarget(sqrtPrice, target, liquidity, budget, isBaseInput, zeroForOne) ==
  LET range == CalculateAmountInRange(sqrtPrice, target, liquidity,
                                      zeroForOne, isBaseInput)
  IN  range <= U64Max /\ budget >= range

NextSqrtPrice(sqrtPrice, target, liquidity, budget, isBaseInput, zeroForOne) ==
  IF ReachesTarget(sqrtPrice, target, liquidity, budget, isBaseInput, zeroForOne)
    THEN target
    ELSE IF isBaseInput
           THEN NextSqrtPriceFromInput(sqrtPrice, liquidity, budget, zeroForOne)
           ELSE NextSqrtPriceFromOutput(sqrtPrice, liquidity, budget, zeroForOne)

(* The field the range calculation has filled; a None leaves its default 0 *)
Prefilled(range) == IF range <= U64Max THEN range ELSE 0

Faulty_StepFee(max, amountRemaining, amountIn, feeRate, isBaseInput) ==
  FeeOnTop(amountIn, feeRate)

StepFee(max, amountRemaining, amountIn, feeRate, isBaseInput) ==
  IF isBaseInput /\ ~max THEN amountRemaining - amountIn
                         ELSE FeeOnTop(amountIn, feeRate)

StepOk(next, amountIn, amountOut, fee) ==
  [tag |-> "ok", next |-> next, amountIn |-> amountIn,
   amountOut |-> amountOut, fee |-> fee]

(* the conversion of the output to u64 left out *)
Faulty_Reported(next, amountIn, rawOut, amountOut, fee) ==
  IF amountIn > U64Max THEN Err("MaxTokenOverflow")
  ELSE StepOk(next, amountIn, amountOut, fee)

(* The conversions to u64 a computed step goes through *)
Reported(next, amountIn, rawOut, amountOut, fee) ==
  IF amountIn > U64Max \/ rawOut > U64Max THEN Err("MaxTokenOverflow")
  ELSE IF fee \notin U64 THEN Panic
  ELSE StepOk(next, amountIn, amountOut, fee)

ComputeSwapStep(sqrtPrice, target, liquidity, amountRemaining, feeRate, isBaseInput, zeroForOne) ==
  LET budget    == StepBudget(amountRemaining, feeRate, isBaseInput)
      range     == CalculateAmountInRange(sqrtPrice, target, liquidity,
                                          zeroForOne, isBaseInput)
      reached   == ReachesTarget(sqrtPrice, target, liquidity, budget,
                                 isBaseInput, zeroForOne)
      next      == NextSqrtPrice(sqrtPrice, target, liquidity, budget,
                                 isBaseInput, zeroForOne)
      max       == target = next
      amountIn  == IF max /\ isBaseInput
                     THEN Prefilled(range)
                     ELSE AmountIn(sqrtPrice, next, liquidity, zeroForOne)
      rawOut    == IF max /\ ~isBaseInput
                     THEN Prefilled(range)
                     ELSE AmountOut(sqrtPrice, next, liquidity, zeroForOne)
      amountOut == IF ~isBaseInput /\ rawOut > amountRemaining
                     THEN amountRemaining
                     ELSE rawOut
      fee       == StepFee(max, amountRemaining, amountIn, feeRate, isBaseInput)
  IN  IF ~reached /\ (liquidity = 0 \/ next \notin 1 .. U128Max) THEN Panic
      ELSE Reported(next, amountIn, rawOut, amountOut, fee)

(* What moving the price from -> to costs, with its fee: a measure for the *)
(* properties that compare two quotes, not a value of the code             *)
CostOfWay(from, to, liquidity, feeRate, zeroForOne) ==
  LET amountIn == AmountIn(from, to, liquidity, zeroForOne)
  IN  amountIn + FeeOnTop(amountIn, feeRate)

(***************************************************************************)
(* add_delta and cross.  Liquidity that leaves u128 is an error in a       *)
(* release build (the wrapped sum fails the comparison) and an arithmetic  *)
(* panic in a checked one.                                                 *)
(***************************************************************************)
CONSTANT OverflowChecks

ASSUME OverflowChecksAssumption == OverflowChecks \in BOOLEAN

LiquidityOk(liquidity) == [tag |-> "ok", liquidity |-> liquidity]

AddDelta(x, y) ==
  CASE x + y \in U128 -> LiquidityOk(x + y)
    [] x + y \notin U128 /\ OverflowChecks -> Panic
    [] x + y < 0 /\ ~OverflowChecks -> Err("LiquiditySubValueErr")
    [] x + y > U128Max /\ ~OverflowChecks -> Err("LiquidityAddValueErr")

Cross(liquidity, liquidityNet, zeroForOne) ==
  AddDelta(liquidity, IF zeroForOne THEN -liquidityNet ELSE liquidityNet)
=============================================================================
