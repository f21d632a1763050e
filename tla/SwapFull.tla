------------------------------ MODULE SwapFull ------------------------------
(***************************************************************************)
(* compute_swap_full: a swap that walks over any number of initialized     *)
(* ticks.  One action is one iteration of the loop; the local variables of *)
(* the function are the variables of the module.  Faulty_X is as in        *)
(* SwapMath: X with a mistake, used by no specification.                   *)
(***************************************************************************)
EXTENDS SwapMath, TickTable, FiniteSets

CONSTANTS
  Books,          \* tick books of the pools a caller may quote
  Prices,         \* sqrt prices those pools may stand at
  FeeRates,       \* fee_rate_pips
  Amounts,        \* amount_specified
  Limits,         \* sqrt_price_limit_x64; 0 is "no limit"
  CheckedLimits,  \* TRUE: limits ahead of the price and inside the domain
  MAX_STEPS

ASSUME SwapFullAssumption ==
  /\ \A book \in Books : WellFormedBook(book)
  /\ Prices \subseteq MIN_SQRT_PRICE_X64 + 1 .. MAX_SQRT_PRICE_X64 - 1
  /\ FeeRates \subseteq 0 .. FEE_RATE_DENOMINATOR_VALUE - 1
  /\ Amounts \subseteq U64
  /\ Limits \subseteq U128
  /\ CheckedLimits \in BOOLEAN
  /\ MAX_STEPS \in Nat \ {0}

VARIABLES
  pc,                 \* "idle", "loop", "return" (the loop has ended), "done"
  call,               \* the arguments
  sp_current,
  tick_current,
  liquidity,
  amount_remaining,
  amount_calculated,
  fee_total,
  steps,
  result              \* what the call returns

locals == <<sp_current, tick_current, liquidity, amount_remaining,
            amount_calculated, fee_total, steps>>
vars == <<pc, call, locals, result>>

NoCall   == [tag |-> "none"]
NoResult == [tag |-> "none"]

Init ==
  /\ pc = "idle"
  /\ call = NoCall
  /\ sp_current = 0 /\ tick_current = 0 /\ liquidity = 0
  /\ amount_remaining = 0 /\ amount_calculated = 0
  /\ fee_total = 0 /\ steps = 0
  /\ result = NoResult

(* the domain bound itself *)
Faulty_ResolvedLimit(limit, zeroForOne) ==
  IF limit # 0 THEN limit
  ELSE IF zeroForOne THEN MIN_SQRT_PRICE_X64 ELSE MAX_SQRT_PRICE_X64

(* 0 stands for one inside the domain bound the swap moves towards *)
ResolvedLimit(limit, zeroForOne) ==
  IF limit # 0 THEN limit
  ELSE IF zeroForOne THEN MIN_SQRT_PRICE_X64 + 1 ELSE MAX_SQRT_PRICE_X64 - 1

SpLimit == ResolvedLimit(call.limit, call.zeroForOne)

(***************************************************************************)
(* The limits the on-chain instruction lets through: none, or one between  *)
(* the price and the domain bound.  compute_swap_full itself checks        *)
(* nothing.                                                                *)
(***************************************************************************)
LimitAhead(limit, price, zeroForOne) ==
  \/ limit = 0
  \/ IF zeroForOne THEN MIN_SQRT_PRICE_X64 < limit /\ limit <= price
                   ELSE price <= limit /\ limit < MAX_SQRT_PRICE_X64

(***************************************************************************)
(* The slice of initialized ticks a caller may pass: all of the book's, or *)
(* pre-filtered, those from the price to the limit with both ends.         *)
(***************************************************************************)
InReach(book, price, spLimit) ==
  {t \in DOMAIN book.net : /\ LowerOf(price, spLimit) <= SqrtPriceAt[t]
                           /\ SqrtPriceAt[t] <= UpperOf(price, spLimit)}

Slices(book, price, limit, zeroForOne) ==
  {DOMAIN book.net, InReach(book, price, ResolvedLimit(limit, zeroForOne))}

Start(book, price, tick, feeRate, amount, limit, isBaseInput, zeroForOne) ==
  /\ PriceInTick(price, tick)
  /\ CheckedLimits => LimitAhead(limit, price, zeroForOne)
  /\ \E slice \in Slices(book, price, limit, zeroForOne) :
       call' = [tag |-> "call", book |-> book, slice |-> slice, price |-> price,
                feeRate |-> feeRate, amount |-> amount, limit |-> limit,
                isBaseInput |-> isBaseInput, zeroForOne |-> zeroForOne]
  /\ sp_current' = price
  /\ tick_current' = tick
  /\ liquidity' = book.active[tick]
  /\ amount_remaining' = amount
  /\ amount_calculated' = 0
  /\ fee_total' = 0
  /\ steps' = 0
  /\ pc' = "loop"
  /\ UNCHANGED result

-----------------------------------------------------------------------------
(* One iteration *)

Initialized == call.slice

Faulty_LoopGuard == amount_remaining > 1 /\ sp_current # SpLimit

LoopGuard == amount_remaining > 0 /\ sp_current # SpLimit

(* the inclusive and the strict comparison mixed up *)
Faulty_Candidates_Strict ==
  {t \in Initialized : IF call.zeroForOne THEN t < tick_current
                                          ELSE t > tick_current}

Faulty_Candidates_Inclusive ==
  {t \in Initialized : IF call.zeroForOne THEN t <= tick_current
                                          ELSE t >= tick_current}

(* Initialized ticks in the swap direction: `<=' downwards, `>' upwards *)
Candidates ==
  {t \in Initialized : IF call.zeroForOne THEN t <= tick_current
                                          ELSE t > tick_current}

(* The nearest of them, or the domain bound if the slice has none left *)
IsNextTick(t) ==
  IF Candidates = {}
    THEN t = (IF call.zeroForOne THEN MIN_TICK ELSE MAX_TICK)
    ELSE /\ t \in Candidates
         /\ \A s \in Candidates : IF call.zeroForOne THEN s <= t ELSE t <= s

(* the limit left out *)
Faulty_TargetPrice(t) == SqrtPriceAt[t]

(* Whichever of the next tick's price and the limit comes first *)
TargetPrice(t) ==
  IF call.zeroForOne THEN UpperOf(SqrtPriceAt[t], SpLimit)
                     ELSE LowerOf(SqrtPriceAt[t], SpLimit)

StepTo(t) ==
  ComputeSwapStep(sp_current, TargetPrice(t), liquidity, amount_remaining,
                  call.feeRate, call.isBaseInput, call.zeroForOne)

(* step.amount_in + step.fee_amount is a plain u64 addition: it wraps in a *)
(* release build and panics in a checked one.                              *)
GrossIn(step) == (step.amountIn + step.fee) % Q

GrossInPanics(step) == OverflowChecks /\ step.amountIn + step.fee > U64Max

Spent(step)  == IF call.isBaseInput THEN GrossIn(step) ELSE step.amountOut
Gained(step) == IF call.isBaseInput THEN step.amountOut ELSE GrossIn(step)

AtNextTick(step, t) == step.next = TargetPrice(t) /\ TargetPrice(t) = SqrtPriceAt[t]

(* liquidity_net applied with the same sign in both directions *)
Faulty_Crossed(t) == Cross(liquidity, call.book.net[t], FALSE)

Crossed(t) == Cross(liquidity, call.book.net[t], call.zeroForOne)

NoFailure == [tag |-> "ok"]

Faulty_TickAfterCrossing(t) == t

TickAfterCrossing(t) == IF call.zeroForOne THEN t - 1 ELSE t

(* the running totals summed without a check *)
Faulty_Failure(step, t) ==
  CASE step.tag # "ok" -> step
    [] step.tag = "ok" /\ Spent(step) > amount_remaining -> Err("MaxTokenOverflow")
    [] step.tag = "ok" /\ Spent(step) <= amount_remaining ->
         IF ~AtNextTick(step, t) THEN NoFailure
         ELSE IF t \notin Initialized THEN Err("InvalidTickIndex")
         ELSE Crossed(t)

(* The first operation of the iteration that fails, in the code's order *)
Failure(step, t) ==
  CASE step.tag # "ok" -> step
    [] step.tag = "ok" /\ fee_total + step.fee > U64Max -> Err("MaxTokenOverflow")
    [] step.tag = "ok" /\ fee_total + step.fee <= U64Max ->
         IF ~call.isBaseInput /\ step.amountOut > amount_remaining
           THEN Err("MaxTokenOverflow")
         ELSE IF GrossInPanics(step) THEN Panic
         ELSE IF Spent(step) > amount_remaining
                 \/ amount_calculated + Gained(step) > U64Max
           THEN Err("MaxTokenOverflow")
         ELSE IF ~AtNextTick(step, t) THEN NoFailure
         ELSE IF t \notin Initialized THEN Err("InvalidTickIndex")
         ELSE IF Crossed(t).tag # "ok" THEN Crossed(t)
         ELSE NoFailure

(* The iteration's accounting, common to its three ways to go on *)
Account(step) ==
  /\ sp_current' = step.next
  /\ fee_total' = fee_total + step.fee
  /\ amount_remaining' = amount_remaining - Spent(step)
  /\ amount_calculated' = amount_calculated + Gained(step)
  /\ steps' = steps + 1

Iterating(t) == pc = "loop" /\ LoopGuard /\ steps < MAX_STEPS /\ IsNextTick(t)

StepCapReached ==
  /\ pc = "loop" /\ LoopGuard /\ steps >= MAX_STEPS
  /\ result' = Err("SqrtPriceLimitOverflow")
  /\ pc' = "done"
  /\ UNCHANGED <<call, locals>>

IterationFails(t) ==
  /\ Iterating(t)
  /\ \E step \in {StepTo(t)} :
       /\ Failure(step, t).tag # "ok"
       /\ result' = Failure(step, t)
  /\ pc' = "done"
  /\ UNCHANGED <<call, locals>>

CrossTick(t) ==
  /\ Iterating(t)
  /\ \E step \in {StepTo(t)} :
       /\ Failure(step, t).tag = "ok"
       /\ AtNextTick(step, t)
       /\ Account(step)
  /\ liquidity' = Crossed(t).liquidity
  /\ tick_current' = TickAfterCrossing(t)
  /\ UNCHANGED <<pc, call, result>>

(* The break: tick_current keeps the value it had before the step *)
StopAtLimit(t) ==
  /\ Iterating(t)
  /\ \E step \in {StepTo(t)} :
       /\ Failure(step, t).tag = "ok"
       /\ ~AtNextTick(step, t)
       /\ step.next = TargetPrice(t)
       /\ Account(step)
  /\ pc' = "return"
  /\ UNCHANGED <<call, liquidity, tick_current, result>>

(* The step ended between ticks: the tick is looked up from the price *)
StayInRange(t) ==
  /\ Iterating(t)
  /\ \E step \in {StepTo(t)} :
       /\ Failure(step, t).tag = "ok"
       /\ step.next # TargetPrice(t)
       /\ Account(step)
       /\ \E u \in CurrentTicks :
            /\ IF InPriceDomain(step.next) THEN IsTickAtSqrtPrice(step.next, u)
                                           ELSE u = tick_current
            /\ tick_current' = u
  /\ UNCHANGED <<pc, call, liquidity, result>>

(* consumed is what the loop took off amount_specified *)
Consumed == call.amount - amount_remaining

Return ==
  /\ pc = "return" \/ (pc = "loop" /\ ~LoopGuard)
  /\ result' =
       [tag |-> "ok",
        amountIn  |-> IF call.isBaseInput THEN Consumed ELSE amount_calculated,
        amountOut |-> IF call.isBaseInput THEN amount_calculated ELSE Consumed,
        fee |-> fee_total, price |-> sp_current, tick |-> tick_current,
        liquidity |-> liquidity, steps |-> steps]
  /\ pc' = "done"
  /\ UNCHANGED <<call, locals>>

Iterate ==
  \/ StepCapReached
  \/ \E t \in Ticks : \/ IterationFails(t)
                      \/ CrossTick(t)
                      \/ StopAtLimit(t)
                      \/ StayInRange(t)
  \/ Return

Call ==
  /\ pc = "idle"
  /\ \E book \in Books, price \in Prices, tick \in CurrentTicks,
        feeRate \in FeeRates, amount \in Amounts, limit \in Limits,
        isBaseInput \in BOOLEAN, zeroForOne \in BOOLEAN :
       Start(book, price, tick, feeRate, amount, limit, isBaseInput, zeroForOne)

Next == Call \/ Iterate

Spec == Init /\ [][Next]_vars

-----------------------------------------------------------------------------
(* Properties *)

Succeeded == pc = "done" /\ result.tag = "ok"

(* Types of every variable once a call has been made. *)
TypeOK ==
  /\ pc \in {"idle", "loop", "return", "done"}
  /\ call.tag \in {"none", "call"}
  /\ sp_current \in U128
  /\ tick_current \in CurrentTicks
  /\ liquidity \in U128
  /\ amount_remaining \in U64
  /\ amount_calculated \in U64
  /\ fee_total \in U64
  /\ steps \in 0 .. MAX_STEPS
  /\ result.tag \in {"none", "ok", "err", "panic"}

(***************************************************************************)
(* Every call, step by step, is the trade CurveSwap promises: the ticks,   *)
(* the running liquidity and the number of iterations are details of how   *)
(* the price gets there.  (A wrapped amount_in is not: OverflowChecks.)    *)
(***************************************************************************)
Curve == INSTANCE CurveSwap WITH
  phase   <- CASE pc = "idle" -> "idle" [] pc \in {"loop", "return"} -> "running"
               [] pc = "done" -> "answered",
  request <- call,
  limit   <- IF pc = "idle" THEN 0 ELSE SpLimit,
  price   <- sp_current,
  paid    <- IF pc = "idle" THEN 0
             ELSE IF call.isBaseInput THEN Consumed ELSE amount_calculated,
  got     <- IF pc = "idle" THEN 0
             ELSE IF call.isBaseInput THEN amount_calculated ELSE Consumed,
  answer  <- result

ImplementsCurveSwap == Curve!Spec

(***************************************************************************)
(* While the walk goes on, the active liquidity is that of the current     *)
(* tick's interval in the book, and the price lies in that interval: no    *)
(* order of crossings applies a liquidity_net twice, skips one or applies  *)
(* it with the wrong sign.                                                 *)
(***************************************************************************)
WalkMatchesBook ==
  pc = "loop" /\ amount_remaining > 0 =>
    /\ PriceInTick(sp_current, tick_current)
    /\ liquidity = call.book.active[tick_current]

(***************************************************************************)
(* However the call ends (at the limit, between ticks, on a tick just      *)
(* crossed), the price and liquidity it returns belong together: some tick *)
(* interval has both.                                                      *)
(***************************************************************************)
ResultIsOnBook ==
  Succeeded =>
    \E t \in CurrentTicks : /\ PriceInTick(result.price, t)
                            /\ result.liquidity = call.book.active[t]

(***************************************************************************)
(* The price never passes the limit nor moves away from it, on any         *)
(* iteration, whatever rounding the next-price formulas do.                *)
(***************************************************************************)
LimitRespected ==
  pc # "idle" =>
    IF call.zeroForOne
      THEN SpLimit <= sp_current /\ sp_current <= call.price
      ELSE call.price <= sp_current /\ sp_current <= SpLimit

(***************************************************************************)
(* A call that returns has used the whole specified amount unless it was   *)
(* stopped by the limit, and never more than it: no iteration leaves dust  *)
(* behind or spends it twice.                                              *)
(***************************************************************************)
SpecifiedAmountIsMet ==
  Succeeded =>
    LET used == IF call.isBaseInput THEN result.amountIn ELSE result.amountOut
    IN  /\ used <= call.amount
        /\ result.price # SpLimit => used = call.amount

(***************************************************************************)
(* Over all the iterations of an exact-input call the fee is at least      *)
(* fee_rate of the gross input it reports: the fees of partial steps, of   *)
(* zero-length crossing steps and of the dust do not lose any of it.       *)
(***************************************************************************)
FeeTotalAtLeastRate ==
  Succeeded /\ call.isBaseInput =>
    result.fee * FEE_RATE_DENOMINATOR_VALUE >= result.amountIn * call.feeRate

(***************************************************************************)
(* SqrtPriceLimitOverflow is returned only after MAX_STEPS initialized     *)
(* ticks lay on the way: no iteration is wasted.                           *)
(***************************************************************************)
CapOnlyAfterManyTicks ==
  pc = "done" /\ result = Err("SqrtPriceLimitOverflow") =>
    Cardinality({t \in Initialized :
                   /\ LowerOf(call.price, sp_current) <= SqrtPriceAt[t]
                   /\ SqrtPriceAt[t] <= UpperOf(call.price, sp_current)})
      >= MAX_STEPS

(***************************************************************************)
(* swap_full.rs:128-130: with no initialized tick left the swap "will hit  *)
(* sp_limit before reaching" the domain bound, so an uninitialized tick is *)
(* never looked up; and crossing a well-formed book neither errs nor       *)
(* panics.  The only failure left is an amount that does not fit a u64,    *)
(* and it panics for an exact output alone: where the gross input is added *)
(* with overflow checks, or the fee on top exceeds the input it is on.     *)
(***************************************************************************)
OnlyAmountErrors ==
  pc = "done" /\ result.tag # "ok" =>
    \/ result = Err("MaxTokenOverflow")
    \/ result = Err("SqrtPriceLimitOverflow") /\ steps = MAX_STEPS
    \/ /\ result = Panic /\ ~call.isBaseInput
       /\ OverflowChecks \/ 2 * call.feeRate > FEE_RATE_DENOMINATOR_VALUE

(***************************************************************************)
(* An iteration moves the price towards the limit only, and one that       *)
(* leaves work to do has moved the tick strictly further: no initialized   *)
(* tick is crossed twice.                                                  *)
(***************************************************************************)
WalksForward ==
  [][ steps' = steps + 1 =>
        IF call.zeroForOne
          THEN /\ sp_current' <= sp_current
               /\ pc' = "loop" /\ amount_remaining' > 0 => tick_current' < tick_current
          ELSE /\ sp_current' >= sp_current
               /\ pc' = "loop" /\ amount_remaining' > 0 => tick_current' > tick_current
    ]_vars

-----------------------------------------------------------------------------
(* What the documentation says of the result *)

(* swap_full.rs:72-75: final_tick is the tick, and final_liquidity the     *)
(* active liquidity, "after the swap settled": they belong together.       *)
FinalLiquidityMatchesFinalTick ==
  Succeeded => result.liquidity = call.book.active[result.tick]

(* swap_full.rs:72-73: final_tick is the tick of the settled price. *)
FinalTickMatchesFinalPrice ==
  Succeeded => PriceInTick(result.price, result.tick)

(* swap_full.rs:63-65: amount_in includes the pool fees. *)
AmountInIncludesFees ==
  Succeeded => result.amountIn >= result.fee

(* swap_full.rs:128-130 again, for every limit a caller may pass: the      *)
(* swap hits the limit before the domain bound.                            *)
LimitHitBeforeDomainBound ==
  pc = "done" => result # Err("InvalidTickIndex")
=============================================================================
