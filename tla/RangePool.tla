----------------------------- MODULE RangePool ------------------------------
(***************************************************************************)
(* A caller that drives compute_swap_step itself inside one range of       *)
(* constant liquidity (the use README.md:87-108 describes, and what        *)
(* compute_swap_full does between two tick crossings): it applies the      *)
(* price of each step and moves the two token amounts of the step between  *)
(* the user and the pool.  The fee is kept apart, as the code reports it   *)
(* apart.                                                                  *)
(***************************************************************************)
EXTENDS SwapMath

CONSTANTS
  Liquidities,   \* active liquidity of the range
  StartPrices,   \* sqrt prices the pool may start from
  Targets,       \* sqrt prices a caller may ask a step to stop at
  FeeRates,      \* fee_rate
  Amounts,       \* amount_remaining
  MaxCalls       \* bound: steps of one behaviour

ASSUME RangePoolAssumption ==
  /\ Liquidities \subseteq U128
  /\ StartPrices \subseteq U128 \ {0}
  /\ Targets \subseteq U128 \ {0}
  /\ FeeRates \subseteq 0 .. FEE_RATE_DENOMINATOR_VALUE - 1
  /\ Amounts \subseteq U64 \ {0}
  /\ MaxCalls \in Nat

VARIABLES
  liquidity,   \* the range's liquidity, constant
  startPrice,  \* where the pool started, constant
  sqrtPrice,   \* the pool's current sqrt price
  net0,        \* token 0 received minus token 0 paid since the start
  net1,        \* token 1 received minus token 1 paid since the start
  calls,       \* steps asked for
  last         \* arguments and outcome of the last step

vars == <<liquidity, startPrice, sqrtPrice, net0, net1, calls, last>>

NoCall == [tag |-> "none"]

Init ==
  /\ liquidity \in Liquidities
  /\ startPrice \in StartPrices
  /\ sqrtPrice = startPrice
  /\ net0 = 0
  /\ net1 = 0
  /\ calls = 0
  /\ last = NoCall

(* swap_full.rs:151-157: the target is never behind the price *)
Ahead(target, zeroForOne) ==
  IF zeroForOne THEN target <= sqrtPrice ELSE target >= sqrtPrice

CallRecord(target, amount, feeRate, isBaseInput, zeroForOne, outcome) ==
  [tag |-> "call", from |-> sqrtPrice, target |-> target, amount |-> amount,
   feeRate |-> feeRate, isBaseInput |-> isBaseInput, zeroForOne |-> zeroForOne,
   outcome |-> outcome]

(* compute_swap_step returns Ok: its price and amounts take effect *)
StepSettles(target, amount, feeRate, isBaseInput, zeroForOne) ==
  LET step == ComputeSwapStep(sqrtPrice, target, liquidity, amount, feeRate,
                              isBaseInput, zeroForOne)
  IN  /\ calls < MaxCalls
      /\ Ahead(target, zeroForOne)
      /\ step.tag = "ok"
      /\ sqrtPrice' = step.next
      /\ net0' = net0 + (IF zeroForOne THEN step.amountIn ELSE -step.amountOut)
      /\ net1' = net1 + (IF zeroForOne THEN -step.amountOut ELSE step.amountIn)
      /\ calls' = calls + 1
      /\ last' = CallRecord(target, amount, feeRate, isBaseInput, zeroForOne, step)
      /\ UNCHANGED <<liquidity, startPrice>>

(* compute_swap_step returns Err or panics: nothing moves *)
StepRefused(target, amount, feeRate, isBaseInput, zeroForOne) ==
  LET step == ComputeSwapStep(sqrtPrice, target, liquidity, amount, feeRate,
                              isBaseInput, zeroForOne)
  IN  /\ calls < MaxCalls
      /\ Ahead(target, zeroForOne)
      /\ step.tag # "ok"
      /\ calls' = calls + 1
      /\ last' = CallRecord(target, amount, feeRate, isBaseInput, zeroForOne, step)
      /\ UNCHANGED <<liquidity, startPrice, sqrtPrice, net0, net1>>

Next ==
  \E target \in Targets, amount \in Amounts, feeRate \in FeeRates,
     isBaseInput \in BOOLEAN, zeroForOne \in BOOLEAN :
    \/ StepSettles(target, amount, feeRate, isBaseInput, zeroForOne)
    \/ StepRefused(target, amount, feeRate, isBaseInput, zeroForOne)

Spec == Init /\ [][Next]_vars

-----------------------------------------------------------------------------
(* The step the last call settled, for the properties below *)
Settled == last.tag = "call" /\ last.outcome.tag = "ok"

(* Types of every variable; amounts and fee of a settled step fit a u64. *)
TypeOK ==
  /\ liquidity \in Liquidities
  /\ startPrice \in StartPrices
  /\ sqrtPrice \in 1 .. U128Max
  /\ net0 \in Int
  /\ net1 \in Int
  /\ calls \in 0 .. MaxCalls
  /\ Settled => /\ last.outcome.next = sqrtPrice
                /\ last.outcome.amountIn \in U64
                /\ last.outcome.amountOut \in U64
                /\ last.outcome.fee \in U64

(***************************************************************************)
(* Whatever the sequence of steps, in either direction, exact in or out,   *)
(* the pool holds at least what the curve of its liquidity requires at the *)
(* price it has moved to: every rounding of the six amount and price       *)
(* formulas (token deltas and next price, both tokens) favours the pool. *)
(***************************************************************************)
ReservesCoverCurve ==
  /\ net1 * Q >= liquidity * (sqrtPrice - startPrice)
  /\ net0 * (sqrtPrice * startPrice) >= liquidity * Q * (startPrice - sqrtPrice)

(***************************************************************************)
(* tests/properties.rs:166-179: a step stays between the price and its     *)
(* target, and if it does not reach the target it has used exactly the     *)
(* whole amount remaining (otherwise it has used no more).                 *)
(***************************************************************************)
StepConsumesOrReaches ==
  Settled =>
    LET s    == last.outcome
        used == IF last.isBaseInput THEN s.amountIn + s.fee ELSE s.amountOut
    IN  /\ used <= last.amount
        /\ s.next # last.target => used = last.amount
        /\ LowerOf(last.from, last.target) <= s.next
        /\ s.next <= UpperOf(last.from, last.target)

(***************************************************************************)
(* A price move to the target is always paid in full: whichever branch of  *)
(* compute_swap_step put the price on the target, the input is that of the *)
(* whole range.  In particular the default 0 that a range amount above     *)
(* u64::MAX leaves in amount_in (swap_math.rs:45-47) is never the answer.  *)
(***************************************************************************)
TargetIsPaidFor ==
  Settled /\ last.outcome.next = last.target
    => last.outcome.amountIn
         = AmountIn(last.from, last.target, liquidity, last.zeroForOne)

(***************************************************************************)
(* The fee is at least fee_rate of the gross input on every branch         *)
(* (percentage on top, or the remainder with the swap dust).               *)
(***************************************************************************)
FeeAtLeastRate ==
  Settled =>
    last.outcome.fee * (FEE_RATE_DENOMINATOR_VALUE - last.feeRate)
      >= last.outcome.amountIn * last.feeRate

(***************************************************************************)
(* No unwrap of a step panics, whatever the liquidity: never for an exact  *)
(* input, and for an exact output as long as the fee rate is at most one   *)
(* half (the range tests/properties.rs:144 draws from), since the fee on   *)
(* top of the input is the one amount that may then exceed u64::MAX.       *)
(***************************************************************************)
NoPanic ==
  last.tag = "call" =>
    (last.isBaseInput \/ 2 * last.feeRate <= FEE_RATE_DENOMINATOR_VALUE
       => last.outcome.tag # "panic")

(***************************************************************************)
(* Quoting back, for exactly the output an exact input bought: a quote     *)
(* that stops short of the target costs no more than that input did.  One  *)
(* that ends on the target may cost more, because the range's output is    *)
(* floored (swap_math.rs:75-82) and the whole range is then charged; but   *)
(* it can only end there when the rest of the way pays nothing out, and    *)
(* the excess is at most what that rest costs.                             *)
(***************************************************************************)
ExactOutQuoteBounded ==
  Settled /\ last.isBaseInput /\ last.outcome.amountOut > 0 =>
    LET s    == last.outcome
        back == ComputeSwapStep(last.from, last.target, liquidity, s.amountOut,
                                last.feeRate, FALSE, last.zeroForOne)
        rest == CostOfWay(s.next, last.target, liquidity, last.feeRate,
                          last.zeroForOne)
    IN  back.tag = "ok" =>
          /\ back.next # last.target =>
               back.amountIn + back.fee <= s.amountIn + s.fee
          /\ back.next = last.target =>
               /\ AmountOut(s.next, last.target, liquidity, last.zeroForOne) = 0
               /\ back.amountIn + back.fee <= (s.amountIn + s.fee) + rest

(***************************************************************************)
(* Splitting an exact input over two steps never buys more than giving it  *)
(* at once: the second step starts from the rounded price of the first, so *)
(* the roundings must compose in the pool's favour.                        *)
(***************************************************************************)
SplitNeverPays ==
  Settled /\ last.isBaseInput =>
    \A part \in {a \in Amounts : a < last.amount} :
      LET first  == ComputeSwapStep(last.from, last.target, liquidity, part,
                                    last.feeRate, TRUE, last.zeroForOne)
          second == ComputeSwapStep(first.next, last.target, liquidity,
                                    last.amount - part, last.feeRate, TRUE,
                                    last.zeroForOne)
      IN  first.tag = "ok" /\ second.tag = "ok"
            => first.amountOut + second.amountOut <= last.outcome.amountOut

(***************************************************************************)
(* swap_math.rs:98 says of the exact output case: "if max is reached for   *)
(* exact output case, entire amount_out is needed".  A step that ends on   *)
(* its target pays the whole range's output, up to what was asked for.     *)
(***************************************************************************)
TargetPaysOut ==
  Settled /\ ~last.isBaseInput /\ last.outcome.next = last.target =>
    LET range == AmountOut(last.from, last.target, liquidity, last.zeroForOne)
    IN  last.outcome.amountOut = (IF range <= last.amount THEN range ELSE last.amount)
=============================================================================
