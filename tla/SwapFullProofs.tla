---------------------------- MODULE SwapFullProofs ----------------------------
(***************************************************************************)
(* The safety properties of compute_swap_full, proved for every width,     *)
(* price table, well-formed book, pool state, fee rate and amount, and for *)
(* every limit the on-chain instruction lets through; and that the walk    *)
(* implements the trade along the curve that CurveSwap promises.           *)
(***************************************************************************)
EXTENDS SwapFull, SwapMathProofs

-----------------------------------------------------------------------------
(* Ticks and prices *)

(* The tick domain is an interval of integers. *)
LEMMA TickDomain ==
  /\ MAX_TICK \in Nat \ {0} /\ MIN_TICK \in Int /\ MIN_TICK < MAX_TICK
  /\ MIN_TICK \in Ticks /\ MAX_TICK \in Ticks
  /\ Ticks \subseteq Int /\ CurrentTicks \subseteq Int
  /\ Ticks \subseteq CurrentTicks
BY TickTableAssumption, SMT DEF Ticks, CurrentTicks, MIN_TICK

(* Prices increase with the tick. *)
LEMMA TableMonotone ==
  ASSUME NEW s \in Ticks, NEW t \in Ticks, s <= t
  PROVE  /\ SqrtPriceAt[s] \in Nat /\ SqrtPriceAt[t] \in Nat
         /\ SqrtPriceAt[s] <= SqrtPriceAt[t]
         /\ s # t => SqrtPriceAt[s] < SqrtPriceAt[t]
<1>1. SqrtPriceAt[s] \in Nat /\ SqrtPriceAt[t] \in Nat
  BY TickTableAssumption, QAssumption, SMT DEF U128, U128Max
<1>2. CASE s = t
  BY <1>1, <1>2, SMT
<1>3. CASE s # t
  <2>1. s < t
    BY <1>3, TickDomain, SMT
  <2>2. SqrtPriceAt[s] < SqrtPriceAt[t]
    BY <2>1, TickTableAssumption
  <2> QED BY <1>1, <2>2, SMT
<1> QED BY <1>2, <1>3

(* Every price of the table is a positive u128. *)
LEMMA TablePrices ==
  ASSUME NEW t \in Ticks
  PROVE  /\ SqrtPriceAt[t] \in Prices128
         /\ SqrtPriceAt[t] \in Nat \ {0}
         /\ MIN_SQRT_PRICE_X64 <= SqrtPriceAt[t]
         /\ SqrtPriceAt[t] <= MAX_SQRT_PRICE_X64
<1>1. MIN_TICK <= t /\ t <= MAX_TICK
  BY TickDomain, SMT DEF Ticks
<1>2. /\ MIN_SQRT_PRICE_X64 <= SqrtPriceAt[t] /\ SqrtPriceAt[t] <= MAX_SQRT_PRICE_X64
      /\ MIN_SQRT_PRICE_X64 \in Nat /\ SqrtPriceAt[t] \in Nat
  BY <1>1, TickDomain, TableMonotone DEF MIN_SQRT_PRICE_X64, MAX_SQRT_PRICE_X64
<1>3. MIN_SQRT_PRICE_X64 > 0
  BY TickTableAssumption DEF MIN_SQRT_PRICE_X64
<1>4. SqrtPriceAt[t] \in U128
  BY TickTableAssumption
<1>5. SqrtPriceAt[t] \in 1 .. U128Max
  BY <1>2, <1>3, <1>4, QAssumption, SMT DEF U128, U128Max
<1> QED BY <1>2, <1>3, <1>5, SMT DEF Prices128

(* A price strictly inside the domain has a tick with a price on each side. *)
LEMMA TickInside ==
  ASSUME NEW p \in Int, MIN_SQRT_PRICE_X64 < p, p < MAX_SQRT_PRICE_X64,
         NEW t, PriceInTick(p, t)
  PROVE  /\ t \in Ticks /\ t + 1 \in Ticks /\ t \in Int
         /\ SqrtPriceAt[t] <= p /\ p <= SqrtPriceAt[t + 1]
<1>1. /\ t \in Int /\ MIN_TICK - 1 <= t /\ t <= MAX_TICK
      /\ t >= MIN_TICK => SqrtPriceAt[t] <= p
      /\ t < MAX_TICK  => p <= SqrtPriceAt[t + 1]
  BY TickDomain, SMT DEF PriceInTick, CurrentTicks
<1>2. MIN_SQRT_PRICE_X64 \in Nat /\ MAX_SQRT_PRICE_X64 \in Nat
  BY TickDomain, TablePrices DEF MIN_SQRT_PRICE_X64, MAX_SQRT_PRICE_X64
<1>3. t # MAX_TICK
  <2> SUFFICES ASSUME t = MAX_TICK PROVE FALSE
    OBVIOUS
  <2>1. MAX_SQRT_PRICE_X64 <= p
    BY <1>1, TickDomain, SMT DEF MAX_SQRT_PRICE_X64
  <2> QED BY <1>2, <2>1, SMT
<1>4. t # MIN_TICK - 1
  <2> SUFFICES ASSUME t = MIN_TICK - 1 PROVE FALSE
    OBVIOUS
  <2>1. t + 1 = MIN_TICK /\ t < MAX_TICK
    BY TickDomain, SMT
  <2>2. p <= MIN_SQRT_PRICE_X64
    BY <1>1, <2>1 DEF MIN_SQRT_PRICE_X64
  <2> QED BY <1>2, <2>2, SMT
<1>5. MIN_TICK <= t /\ t < MAX_TICK
  BY <1>1, <1>3, <1>4, TickDomain, SMT
<1> QED BY <1>1, <1>5, TickDomain, SMT DEF Ticks

(* A price of the domain has a tick: the greatest one not above it. *)
LEMMA TickExists ==
  ASSUME NEW p \in Int, InPriceDomain(p)
  PROVE  \E t \in Ticks : t + 1 \in Ticks /\ IsTickAtSqrtPrice(p, t)
<1> DEFINE below == {n \in Nat : MAX_TICK - n \in Ticks /\ SqrtPriceAt[MAX_TICK - n] <= p}
<1>1. /\ MAX_TICK \in Nat \ {0} /\ MIN_TICK = -MAX_TICK
      /\ Ticks = MIN_TICK .. MAX_TICK
  BY TickTableAssumption DEF MIN_TICK, Ticks
<1>2. MAX_TICK - MIN_TICK \in Nat /\ MAX_TICK - (MAX_TICK - MIN_TICK) = MIN_TICK
  BY <1>1, SMT
<1>3. MAX_TICK - MIN_TICK \in below
  BY <1>2, TickDomain DEF InPriceDomain, MIN_SQRT_PRICE_X64
<1>4. PICK n \in below : \A m \in below : n <= m
  BY <1>3, LeastNatural
<1> DEFINE t == MAX_TICK - n
<1>5. n \in Nat /\ t \in Ticks /\ SqrtPriceAt[t] <= p
  BY <1>4
<1>6. n # 0
  <2> SUFFICES ASSUME n = 0 PROVE FALSE
    OBVIOUS
  <2>1. t = MAX_TICK
    BY <1>1, SMT
  <2>2. MAX_SQRT_PRICE_X64 <= p /\ p < MAX_SQRT_PRICE_X64
    BY <1>5, <2>1 DEF InPriceDomain, MAX_SQRT_PRICE_X64
  <2>3. MAX_SQRT_PRICE_X64 \in Nat
    BY TickDomain, TablePrices DEF MAX_SQRT_PRICE_X64
  <2> QED BY <2>2, <2>3, SMT
<1>7. n - 1 \in Nat /\ MAX_TICK - (n - 1) = t + 1 /\ t + 1 \in Ticks
  BY <1>1, <1>5, <1>6, SMT
<1>8. p < SqrtPriceAt[t + 1]
  <2>1. n - 1 \notin below
    BY <1>4, <1>5, SMT
  <2>2. ~(SqrtPriceAt[t + 1] <= p)
    BY <1>7, <2>1
  <2>3. SqrtPriceAt[t + 1] \in Nat
    BY <1>7, TablePrices
  <2> QED BY <2>2, <2>3, SMT
<1>9. t \in MIN_TICK .. MAX_TICK - 1
  BY <1>1, <1>5, <1>7, SMT
<1> QED BY <1>5, <1>7, <1>8, <1>9 DEF IsTickAtSqrtPrice

-----------------------------------------------------------------------------
(* The inductive invariant *)

(* The arguments of a call on a pool with a well-formed book and a price     *)
(* inside the domain, with a limit the on-chain instruction lets through.    *)
CallSane ==
  /\ call.tag = "call"
  /\ WellFormedBook(call.book)
  /\ call.price \in MIN_SQRT_PRICE_X64 + 1 .. MAX_SQRT_PRICE_X64 - 1
  /\ call.feeRate \in FeeRates /\ call.amount \in Amounts /\ call.limit \in Limits
  /\ call.isBaseInput \in BOOLEAN /\ call.zeroForOne \in BOOLEAN
  /\ call.slice \in Slices(call.book, call.price, call.limit, call.zeroForOne)
  /\ LimitAhead(call.limit, call.price, call.zeroForOne)

(* The price has the liquidity of some tick interval it lies in. *)
PriceOnBook ==
  \E t \in CurrentTicks : /\ PriceInTick(sp_current, t)
                          /\ liquidity = call.book.active[t]

(* What was taken off the amount, and the fee that has been charged for it. *)
Accounted ==
  /\ amount_remaining <= call.amount
  /\ call.isBaseInput =>
       fee_total * FEE_RATE_DENOMINATOR_VALUE
         >= (call.amount - amount_remaining) * call.feeRate

(* The initialized ticks on the way from the call's price to the current     *)
(* tick.                                                                     *)
Passed ==
  {t \in Initialized :
     IF call.zeroForOne THEN tick_current < t /\ SqrtPriceAt[t] <= call.price
                        ELSE t <= tick_current /\ call.price <= SqrtPriceAt[t]}

(* While there is an amount left to walk for. *)
Walking == pc = "loop" /\ amount_remaining > 0

(* No iteration is spent on anything but an initialized tick: this bounds    *)
(* the steps by the ticks passed, and so gives the cap its meaning.          *)
EveryStepCrossed == Walking => steps <= Cardinality(Passed)

(* What the answer says of the state the walk ended in. *)
AnswerTellsState ==
  /\ result.price = sp_current /\ result.liquidity = liquidity
  /\ result.fee = fee_total
  /\ (IF call.isBaseInput THEN result.amountIn ELSE result.amountOut)
       = call.amount - amount_remaining
  /\ sp_current = SpLimit \/ amount_remaining = 0

(* What holds throughout a call.  A walk that its limit stops keeps the tick *)
(* of before its last step, so the tick is matched while there is work to do *)
(* (WalkMatchesBook); price and liquidity belong together always             *)
(* (PriceOnBook).                                                            *)
IInv ==
  /\ TypeOK
  /\ pc = "idle" => steps = 0
  /\ pc # "idle" => CallSane /\ LimitRespected /\ PriceOnBook /\ Accounted
  /\ WalkMatchesBook
  /\ EveryStepCrossed
  /\ pc = "return" => sp_current = SpLimit
  /\ Succeeded => AnswerTellsState
  /\ OnlyAmountErrors
  /\ CapOnlyAfterManyTicks

(* The limit lies strictly inside the domain, on the far side of the price. *)
LEMMA LimitFacts ==
  ASSUME CallSane
  PROVE  /\ SpLimit \in Int /\ call.price \in Int
         /\ MIN_SQRT_PRICE_X64 \in Nat /\ MAX_SQRT_PRICE_X64 \in Nat
         /\ MIN_SQRT_PRICE_X64 < SpLimit /\ SpLimit < MAX_SQRT_PRICE_X64
         /\ MIN_SQRT_PRICE_X64 < call.price /\ call.price < MAX_SQRT_PRICE_X64
         /\ IF call.zeroForOne THEN SpLimit <= call.price ELSE call.price <= SpLimit
<1>1. MIN_SQRT_PRICE_X64 \in Nat /\ MAX_SQRT_PRICE_X64 \in Nat
  BY TickDomain, TablePrices DEF MIN_SQRT_PRICE_X64, MAX_SQRT_PRICE_X64
<1>2. call.price \in MIN_SQRT_PRICE_X64 + 1 .. MAX_SQRT_PRICE_X64 - 1
  BY DEF CallSane
<1>3. call.limit \in Nat
  <2>1. call.limit \in U128
    BY SwapFullAssumption DEF CallSane
  <2> QED BY <2>1, QAssumption, SMT DEF U128, U128Max
<1>4. call.zeroForOne \in BOOLEAN /\ LimitAhead(call.limit, call.price, call.zeroForOne)
  BY DEF CallSane
<1>5. CASE call.limit = 0
  <2>1. SpLimit = IF call.zeroForOne THEN MIN_SQRT_PRICE_X64 + 1 ELSE MAX_SQRT_PRICE_X64 - 1
    BY <1>5 DEF SpLimit, ResolvedLimit
  <2> QED BY <1>1, <1>2, <1>4, <2>1, SMT
<1>6. CASE call.limit # 0
  <2>1. SpLimit = call.limit
    BY <1>6 DEF SpLimit, ResolvedLimit
  <2>2. CASE call.zeroForOne
    BY <1>1, <1>2, <1>3, <1>4, <1>6, <2>1, <2>2, SMT DEF LimitAhead
  <2>3. CASE ~call.zeroForOne
    BY <1>1, <1>2, <1>3, <1>4, <1>6, <2>1, <2>3, SMT DEF LimitAhead
  <2> QED BY <2>2, <2>3
<1> QED BY <1>5, <1>6

(* ... and so does the price of the walk. *)
LEMMA PriceInside ==
  ASSUME CallSane, LimitRespected, pc # "idle", sp_current \in U128
  PROVE  /\ sp_current \in Prices128
         /\ MIN_SQRT_PRICE_X64 < sp_current /\ sp_current < MAX_SQRT_PRICE_X64
         /\ IF call.zeroForOne THEN SpLimit <= sp_current ELSE sp_current <= SpLimit
<1>1. sp_current \in Nat /\ sp_current <= U128Max
  BY QAssumption, SMT DEF U128, U128Max
<1>2. IF call.zeroForOne
        THEN SpLimit <= sp_current /\ sp_current <= call.price
        ELSE call.price <= sp_current /\ sp_current <= SpLimit
  BY DEF LimitRespected
<1>3. MIN_SQRT_PRICE_X64 < sp_current /\ sp_current < MAX_SQRT_PRICE_X64
  <2>1. CASE call.zeroForOne
    BY <1>1, <1>2, <2>1, LimitFacts, SMT
  <2>2. CASE ~call.zeroForOne
    BY <1>1, <1>2, <2>2, LimitFacts, SMT
  <2> QED BY <2>1, <2>2
<1>4. sp_current \in 1 .. U128Max
  BY <1>1, <1>3, LimitFacts, QAssumption, SMT DEF U128Max
<1> QED BY <1>2, <1>3, <1>4 DEF Prices128

(* The initialized ticks are ticks of the book, and all of the book's that   *)
(* lie between the call's price and the limit are among them.                *)
LEMMA SliceFacts ==
  ASSUME CallSane
  PROVE  /\ Initialized \subseteq DOMAIN call.book.net
         /\ Initialized \subseteq Ticks
         /\ InReach(call.book, call.price, SpLimit) \subseteq Initialized
<1>1. DOMAIN call.book.net \subseteq Ticks
  BY DEF CallSane, WellFormedBook
<1> QED BY <1>1 DEF CallSane, Slices, Initialized, InReach, SpLimit

(* Between two ticks without one of the book's, the liquidity is the same. *)
LEMMA BookFacts ==
  ASSUME CallSane
  PROVE  /\ call.book.active \in [CurrentTicks -> U128]
         /\ \A t \in DOMAIN call.book.net :
              call.book.net[t] = call.book.active[t] - call.book.active[t - 1]
         /\ \A s, t \in CurrentTicks :
              s <= t /\ (\A i \in DOMAIN call.book.net : ~(s < i /\ i <= t))
                => call.book.active[s] = call.book.active[t]
<1>1. WellFormedBook(call.book)
  BY DEF CallSane
<1> QED BY <1>1 DEF WellFormedBook

-----------------------------------------------------------------------------
(* The next tick *)

(* In a walk that goes on, the next tick is on the way and its target ahead. *)
LEMMA NextTickAhead ==
  ASSUME IInv, LoopGuard, pc = "loop", NEW t \in Ticks, IsNextTick(t)
  PROVE  /\ Walking
         /\ tick_current \in Ticks /\ tick_current + 1 \in Ticks /\ tick_current \in Int
         /\ SqrtPriceAt[tick_current] <= sp_current
         /\ sp_current <= SqrtPriceAt[tick_current + 1]
         /\ liquidity = call.book.active[tick_current]
         /\ IF call.zeroForOne THEN t <= tick_current ELSE tick_current + 1 <= t
<1>1. Walking
  BY DEF LoopGuard, Walking
<1>2. PriceInTick(sp_current, tick_current) /\ liquidity = call.book.active[tick_current]
  BY <1>1 DEF IInv, WalkMatchesBook, Walking
<1>3. CallSane /\ LimitRespected /\ sp_current \in U128
  BY DEF IInv, TypeOK
<1>4. sp_current \in Int /\ MIN_SQRT_PRICE_X64 < sp_current /\ sp_current < MAX_SQRT_PRICE_X64
  BY <1>3, PriceInside, QAssumption, SMT DEF U128, U128Max
<1>5. /\ tick_current \in Ticks /\ tick_current + 1 \in Ticks /\ tick_current \in Int
      /\ SqrtPriceAt[tick_current] <= sp_current
      /\ sp_current <= SqrtPriceAt[tick_current + 1]
  BY <1>2, <1>4, TickInside
<1>6. IF call.zeroForOne THEN t <= tick_current ELSE tick_current + 1 <= t
  <2>1. CASE Candidates = {}
    <3>1. t = IF call.zeroForOne THEN MIN_TICK ELSE MAX_TICK
      BY <2>1 DEF IsNextTick
    <3> QED BY <1>5, <3>1, TickDomain, SMT DEF Ticks
  <2>2. CASE Candidates # {}
    <3>1. t \in Candidates
      BY <2>2 DEF IsNextTick
    <3>2. IF call.zeroForOne THEN t <= tick_current ELSE t > tick_current
      BY <3>1 DEF Candidates
    <3> QED BY <1>5, <3>2, TickDomain, SMT
  <2> QED BY <2>1, <2>2
<1> QED BY <1>1, <1>2, <1>5, <1>6

(* The target is a price ahead, not beyond the limit, and it is the next     *)
(* tick's only if that tick is in the slice: the domain bound is never met.  *)
LEMMA TargetFacts ==
  ASSUME IInv, LoopGuard, pc = "loop", NEW t \in Ticks, IsNextTick(t)
  PROVE  /\ sp_current \in Prices128 /\ TargetPrice(t) \in Prices128
         /\ AheadOf(sp_current, TargetPrice(t), call.zeroForOne)
         /\ AheadOf(TargetPrice(t), SpLimit, call.zeroForOne)
         /\ AheadOf(TargetPrice(t), SqrtPriceAt[t], call.zeroForOne)
         /\ TargetPrice(t) = SqrtPriceAt[t] \/ TargetPrice(t) = SpLimit
         /\ TargetPrice(t) = SqrtPriceAt[t] => t \in Candidates
<1>1. CallSane /\ LimitRespected /\ sp_current \in U128 /\ call.zeroForOne \in BOOLEAN
  BY DEF IInv, TypeOK, CallSane
<1>2. /\ sp_current \in Prices128 /\ sp_current \in Int
      /\ IF call.zeroForOne THEN SpLimit <= sp_current ELSE sp_current <= SpLimit
  BY <1>1, PriceInside, QAssumption, SMT DEF U128, U128Max
<1>3. /\ SpLimit \in Int /\ MIN_SQRT_PRICE_X64 < SpLimit /\ SpLimit < MAX_SQRT_PRICE_X64
      /\ MIN_SQRT_PRICE_X64 \in Nat /\ MAX_SQRT_PRICE_X64 \in Nat
  BY <1>1, LimitFacts
<1>4. SqrtPriceAt[t] \in Prices128 /\ SqrtPriceAt[t] \in Nat
  BY TablePrices
<1>5. /\ call.zeroForOne => SqrtPriceAt[t] <= sp_current
      /\ ~call.zeroForOne => sp_current <= SqrtPriceAt[t]
  <2>1. /\ tick_current \in Ticks /\ tick_current + 1 \in Ticks /\ tick_current \in Int
        /\ SqrtPriceAt[tick_current] <= sp_current
        /\ sp_current <= SqrtPriceAt[tick_current + 1]
        /\ IF call.zeroForOne THEN t <= tick_current ELSE tick_current + 1 <= t
    BY NextTickAhead
  <2>2. CASE call.zeroForOne
    <3>1. SqrtPriceAt[t] <= SqrtPriceAt[tick_current] /\ SqrtPriceAt[tick_current] \in Nat
      BY <2>1, <2>2, TableMonotone
    <3> QED BY <1>2, <1>4, <2>1, <2>2, <3>1, SMT
  <2>3. CASE ~call.zeroForOne
    <3>1. SqrtPriceAt[tick_current + 1] <= SqrtPriceAt[t] /\ SqrtPriceAt[tick_current + 1] \in Nat
      BY <2>1, <2>3, TableMonotone
    <3> QED BY <1>2, <1>4, <2>1, <2>3, <3>1, SMT
  <2> QED BY <2>2, <2>3
<1>6. /\ TargetPrice(t) = SqrtPriceAt[t] \/ TargetPrice(t) = SpLimit
      /\ AheadOf(sp_current, TargetPrice(t), call.zeroForOne)
      /\ AheadOf(TargetPrice(t), SpLimit, call.zeroForOne)
      /\ AheadOf(TargetPrice(t), SqrtPriceAt[t], call.zeroForOne)
  <2>1. CASE call.zeroForOne
    BY <1>2, <1>3, <1>4, <1>5, <2>1, SMT DEF TargetPrice, AheadOf, UpperOf, LowerOf
  <2>2. CASE ~call.zeroForOne
    BY <1>2, <1>3, <1>4, <1>5, <2>2, SMT DEF TargetPrice, AheadOf, UpperOf, LowerOf
  <2> QED BY <2>1, <2>2
<1>7. SpLimit \in Prices128
  <2>1. MAX_SQRT_PRICE_X64 \in Prices128
    BY TickDomain, TablePrices DEF MAX_SQRT_PRICE_X64
  <2> QED BY <1>3, <2>1, QAssumption, SMT DEF Prices128, U128Max
<1>8. TargetPrice(t) = SqrtPriceAt[t] => t \in Candidates
  <2> SUFFICES ASSUME TargetPrice(t) = SqrtPriceAt[t], Candidates = {} PROVE FALSE
    BY DEF IsNextTick
  <2>1. t = IF call.zeroForOne THEN MIN_TICK ELSE MAX_TICK
    BY DEF IsNextTick
  <2>2. CASE call.zeroForOne
    <3>1. TargetPrice(t) = MIN_SQRT_PRICE_X64 /\ SpLimit <= TargetPrice(t)
      BY <1>6, <2>1, <2>2 DEF AheadOf, MIN_SQRT_PRICE_X64
    <3> QED BY <1>3, <3>1, SMT
  <2>3. CASE ~call.zeroForOne
    <3>1. TargetPrice(t) = MAX_SQRT_PRICE_X64 /\ TargetPrice(t) <= SpLimit
      BY <1>6, <2>1, <2>3 DEF AheadOf, MAX_SQRT_PRICE_X64
    <3> QED BY <1>3, <3>1, SMT
  <2> QED BY <2>2, <2>3
<1> QED BY <1>2, <1>4, <1>6, <1>7, <1>8

(* A liquidity that fits a u128 is what add_delta returns. *)
LEMMA AddDeltaFits ==
  ASSUME NEW x \in Int, NEW y \in Int, x + y \in U128
  PROVE  AddDelta(x, y) = LiquidityOk(x + y)
<1>1. ~(x + y < 0) /\ ~(x + y > U128Max)
  BY QAssumption, SMT DEF U128, U128Max
<1>2. ~(x + y \notin U128)
  OBVIOUS
<1> QED BY <1>1, <1>2, Zenon DEF AddDelta

(* No tick of the book lies between the current one and the next, so the     *)
(* crossing turns the liquidity of the one side of it into the other's.      *)
LEMMA CrossFacts ==
  ASSUME IInv, LoopGuard, pc = "loop", NEW t \in Ticks, IsNextTick(t),
         TargetPrice(t) = SqrtPriceAt[t]
  PROVE  /\ t \in Initialized
         /\ TickAfterCrossing(t) \in CurrentTicks
         /\ PriceInTick(SqrtPriceAt[t], TickAfterCrossing(t))
         /\ IF call.zeroForOne THEN TickAfterCrossing(t) < tick_current
                               ELSE tick_current < TickAfterCrossing(t)
         /\ Crossed(t) = LiquidityOk(call.book.active[TickAfterCrossing(t)])
<1> DEFINE lo == IF call.zeroForOne THEN t ELSE tick_current
           hi == IF call.zeroForOne THEN tick_current ELSE t - 1
           active == call.book.active
<1>1. CallSane /\ LimitRespected /\ sp_current \in U128 /\ call.zeroForOne \in BOOLEAN
  BY DEF IInv, TypeOK, CallSane
<1>2. sp_current \in Int
  BY <1>1, QAssumption, SMT DEF U128, U128Max
<1>3. /\ SpLimit \in Int /\ call.price \in Int
      /\ IF call.zeroForOne THEN SpLimit <= call.price ELSE call.price <= SpLimit
      /\ IF call.zeroForOne THEN sp_current <= call.price ELSE call.price <= sp_current
  BY <1>1, LimitFacts DEF LimitRespected
<1>4. /\ tick_current \in Ticks /\ tick_current + 1 \in Ticks /\ tick_current \in Int
      /\ SqrtPriceAt[tick_current] <= sp_current
      /\ sp_current <= SqrtPriceAt[tick_current + 1]
      /\ liquidity = active[tick_current]
      /\ IF call.zeroForOne THEN t <= tick_current ELSE tick_current + 1 <= t
  BY NextTickAhead
<1>5. /\ t \in Candidates /\ t \in Initialized /\ t \in DOMAIN call.book.net
      /\ \A s \in Candidates : IF call.zeroForOne THEN s <= t ELSE t <= s
      /\ IF call.zeroForOne THEN SpLimit <= SqrtPriceAt[t] ELSE SqrtPriceAt[t] <= SpLimit
  <2>1. t \in Candidates /\ AheadOf(SqrtPriceAt[t], SpLimit, call.zeroForOne)
    BY TargetFacts
  <2>2. t \in Initialized
    BY <2>1 DEF Candidates
  <2> QED BY <1>1, <2>1, <2>2, SliceFacts DEF IsNextTick, AheadOf
<1>6. /\ t \in Int /\ MIN_TICK <= t /\ t <= MAX_TICK
      /\ MIN_TICK \in Int /\ MAX_TICK \in Int /\ MIN_TICK < MAX_TICK
  BY TickDomain, SMT DEF Ticks
<1>7. t - 1 \in CurrentTicks /\ t \in CurrentTicks /\ tick_current \in CurrentTicks
  BY <1>4, <1>6, TickDomain, SMT DEF CurrentTicks
<1>8. TickAfterCrossing(t) = IF call.zeroForOne THEN t - 1 ELSE t
  BY DEF TickAfterCrossing
<1>9. PriceInTick(SqrtPriceAt[t], TickAfterCrossing(t))
  <2>1. PriceInTick(SqrtPriceAt[t], t)
    <3>1. SqrtPriceAt[t] <= SqrtPriceAt[t]
      BY TableMonotone, <1>6, SMT
    <3>2. ASSUME t < MAX_TICK PROVE SqrtPriceAt[t] <= SqrtPriceAt[t + 1]
      <4>1. t + 1 \in Ticks /\ t <= t + 1
        BY <1>6, <3>2, SMT DEF Ticks
      <4> QED BY <4>1, TableMonotone
    <3> QED BY <1>7, <3>1, <3>2 DEF PriceInTick
  <2>2. PriceInTick(SqrtPriceAt[t], t - 1)
    <3>1. SqrtPriceAt[t] <= SqrtPriceAt[(t - 1) + 1]
      <4>1. (t - 1) + 1 = t
        BY <1>6, SMT
      <4> QED BY <4>1, TableMonotone, <1>6, SMT
    <3>2. ASSUME t - 1 >= MIN_TICK PROVE SqrtPriceAt[t - 1] <= SqrtPriceAt[t]
      <4>1. t - 1 \in Ticks /\ t - 1 <= t
        BY <1>6, <3>2, SMT DEF Ticks
      <4> QED BY <4>1, TableMonotone
    <3> QED BY <1>7, <3>1, <3>2 DEF PriceInTick
  <2> QED BY <1>8, <2>1, <2>2
<1>10. \A i \in DOMAIN call.book.net : ~(lo < i /\ i <= hi)
  <2> SUFFICES ASSUME NEW i \in DOMAIN call.book.net, lo < i, i <= hi
               PROVE  FALSE
    OBVIOUS
  <2>1. i \in Ticks /\ i \in Int
    BY <1>1, TickDomain DEF CallSane, WellFormedBook
  <2>2. SqrtPriceAt[i] \in Nat /\ SqrtPriceAt[t] \in Nat
    BY <2>1, TablePrices
  <2>3. ASSUME i \in Initialized PROVE FALSE
    <3>1. i \in Candidates
      BY <1>1, <1>4, <1>6, <2>1, <2>3, SMT DEF Candidates
    <3> QED BY <1>1, <1>5, <1>6, <2>1, <3>1, SMT
  <2>4. CASE call.zeroForOne
    <3>1. t <= i /\ i <= tick_current
      BY <1>6, <2>1, <2>4, SMT
    <3>2. SqrtPriceAt[t] <= SqrtPriceAt[i] /\ SqrtPriceAt[i] <= SqrtPriceAt[tick_current]
      BY <1>4, <2>1, <3>1, TableMonotone
    <3>3. SqrtPriceAt[tick_current] \in Nat
      BY <1>4, TablePrices
    <3>4. SpLimit <= SqrtPriceAt[i] /\ SqrtPriceAt[i] <= call.price
      BY <1>2, <1>3, <1>4, <1>5, <2>2, <2>4, <3>2, <3>3, SMT
    <3>5. i \in InReach(call.book, call.price, SpLimit)
      BY <1>3, <2>4, <3>4, SMT DEF InReach, LowerOf, UpperOf
    <3> QED BY <1>1, <2>3, <3>5, SliceFacts
  <2>5. CASE ~call.zeroForOne
    <3>1. tick_current + 1 <= i /\ i <= t
      BY <1>4, <1>6, <2>1, <2>5, SMT
    <3>2. SqrtPriceAt[tick_current + 1] <= SqrtPriceAt[i] /\ SqrtPriceAt[i] <= SqrtPriceAt[t]
      BY <1>4, <2>1, <3>1, TableMonotone
    <3>3. SqrtPriceAt[tick_current + 1] \in Nat
      BY <1>4, TablePrices
    <3>4. call.price <= SqrtPriceAt[i] /\ SqrtPriceAt[i] <= SpLimit
      BY <1>2, <1>3, <1>4, <1>5, <2>2, <2>5, <3>2, <3>3, SMT
    <3>5. i \in InReach(call.book, call.price, SpLimit)
      <4>1. LowerOf(call.price, SpLimit) = call.price /\ UpperOf(call.price, SpLimit) = SpLimit
        BY <1>3, <2>5, SMT DEF LowerOf, UpperOf
      <4> QED BY <3>4, <4>1 DEF InReach
    <3> QED BY <1>1, <2>3, <3>5, SliceFacts
  <2> QED BY <1>1, <2>4, <2>5
<1>11. active[lo] = active[hi]
  <2>1. lo \in CurrentTicks /\ hi \in CurrentTicks /\ lo <= hi
    BY <1>1, <1>4, <1>6, <1>7, SMT
  <2> HIDE DEF lo, hi
  <2> QED BY <1>1, <1>10, <2>1, BookFacts
<1>12. /\ active[t] \in U128 /\ active[t - 1] \in U128
       /\ active[t] \in Int /\ active[t - 1] \in Int
       /\ call.book.net[t] = active[t] - active[t - 1]
  <2>1. active[t] \in U128 /\ active[t - 1] \in U128
    BY <1>1, <1>7, BookFacts
  <2>2. call.book.net[t] = active[t] - active[t - 1]
    BY <1>1, <1>5, BookFacts
  <2> QED BY <2>1, <2>2, QAssumption, SMT DEF U128, U128Max
<1>13. Crossed(t) = LiquidityOk(active[TickAfterCrossing(t)])
  <2>1. CASE call.zeroForOne
    <3>1. liquidity = active[t]
      BY <1>4, <1>11, <2>1
    <3>2. Crossed(t) = AddDelta(active[t], -(active[t] - active[t - 1]))
      BY <1>12, <2>1, <3>1 DEF Crossed, Cross
    <3>3. active[t] + -(active[t] - active[t - 1]) = active[t - 1]
      BY <1>12, SMT
    <3>4. Crossed(t) = LiquidityOk(active[t - 1])
      BY <1>12, <3>2, <3>3, AddDeltaFits, SMT
    <3> QED BY <1>8, <2>1, <3>4
  <2>2. CASE ~call.zeroForOne
    <3>1. liquidity = active[t - 1]
      BY <1>4, <1>11, <2>2
    <3>2. Crossed(t) = AddDelta(active[t - 1], active[t] - active[t - 1])
      BY <1>12, <2>2, <3>1 DEF Crossed, Cross
    <3>3. active[t - 1] + (active[t] - active[t - 1]) = active[t]
      BY <1>12, SMT
    <3>4. Crossed(t) = LiquidityOk(active[t])
      BY <1>12, <3>2, <3>3, AddDeltaFits, SMT
    <3> QED BY <1>8, <2>2, <3>4
  <2> QED BY <1>1, <2>1, <2>2
<1>14. IF call.zeroForOne THEN TickAfterCrossing(t) < tick_current
                          ELSE tick_current < TickAfterCrossing(t)
  BY <1>1, <1>4, <1>6, <1>8, SMT
<1> QED BY <1>5, <1>7, <1>8, <1>9, <1>13, <1>14

-----------------------------------------------------------------------------
(* The stretch of one iteration *)

(* The stretch from the price to any price not beyond the target has one     *)
(* liquidity in the book, the running one: an unlisted tick of the book is   *)
(* not on the way.                                                           *)
LEMMA SameLiquidity ==
  ASSUME IInv, LoopGuard, pc = "loop", NEW t \in Ticks, IsNextTick(t),
         NEW q \in Int, AheadOf(sp_current, q, call.zeroForOne),
         AheadOf(q, TargetPrice(t), call.zeroForOne),
         NEW u \in Ticks, u + 1 \in Ticks,
         IF call.zeroForOne THEN q < SqrtPriceAt[u + 1] /\ SqrtPriceAt[u] < sp_current
                            ELSE sp_current < SqrtPriceAt[u + 1] /\ SqrtPriceAt[u] < q
  PROVE  call.book.active[u] = liquidity
<1> DEFINE tc == tick_current
<1>1. CallSane /\ LimitRespected /\ sp_current \in U128 /\ call.zeroForOne \in BOOLEAN
  BY DEF IInv, TypeOK, CallSane
<1>2. sp_current \in Int
  BY <1>1, QAssumption, SMT DEF U128, U128Max
<1>3. /\ SpLimit \in Int /\ call.price \in Int
      /\ IF call.zeroForOne THEN SpLimit <= call.price ELSE call.price <= SpLimit
      /\ IF call.zeroForOne THEN sp_current <= call.price ELSE call.price <= sp_current
  BY <1>1, LimitFacts DEF LimitRespected
<1>4. /\ tc \in Ticks /\ tc + 1 \in Ticks /\ tc \in Int
      /\ SqrtPriceAt[tc] <= sp_current /\ sp_current <= SqrtPriceAt[tc + 1]
      /\ liquidity = call.book.active[tc]
      /\ SqrtPriceAt[tc] \in Nat /\ SqrtPriceAt[tc + 1] \in Nat
      /\ SqrtPriceAt[t] \in Nat /\ SqrtPriceAt[u] \in Nat /\ SqrtPriceAt[u + 1] \in Nat
  BY NextTickAhead, TablePrices
<1>5. TargetPrice(t) \in Int
  BY TargetFacts, QAssumption, SMT DEF Prices128, U128Max
<1>6. IF call.zeroForOne THEN SpLimit <= q /\ SqrtPriceAt[t] <= q
                         ELSE q <= SpLimit /\ q <= SqrtPriceAt[t]
  <2>1. /\ AheadOf(TargetPrice(t), SpLimit, call.zeroForOne)
        /\ AheadOf(TargetPrice(t), SqrtPriceAt[t], call.zeroForOne)
    BY TargetFacts
  <2> QED BY <1>1, <1>3, <1>4, <1>5, <2>1, SMT DEF AheadOf
<1>7. t \in Int /\ u \in Int /\ u \in CurrentTicks /\ tc \in CurrentTicks
  BY <1>4, TickDomain
<1>8. ASSUME NEW i \in DOMAIN call.book.net,
             LowerOf(call.price, SpLimit) <= SqrtPriceAt[i],
             SqrtPriceAt[i] <= UpperOf(call.price, SpLimit),
             IF call.zeroForOne THEN t < i /\ i <= tc ELSE i < t /\ tc < i
      PROVE  FALSE
  <2>1. i \in Initialized /\ i \in Int
    BY <1>1, <1>8, SliceFacts, TickDomain DEF InReach
  <2>2. i \in Candidates
    BY <1>1, <1>4, <1>8, <2>1, SMT DEF Candidates
  <2>3. IF call.zeroForOne THEN i <= t ELSE t <= i
    BY <2>2 DEF IsNextTick
  <2> QED BY <1>1, <1>7, <1>8, <2>1, <2>3, SMT
<1>9. CASE call.zeroForOne
  <2>1. t <= u
    <3> SUFFICES ASSUME u + 1 <= t PROVE FALSE
      BY <1>7, SMT
    <3>1. SqrtPriceAt[u + 1] <= SqrtPriceAt[t]
      BY TableMonotone
    <3> QED BY <1>4, <1>6, <1>9, <3>1, SMT
  <2>2. u <= tc
    <3> SUFFICES ASSUME tc + 1 <= u PROVE FALSE
      BY <1>4, <1>7, SMT
    <3>1. SqrtPriceAt[tc + 1] <= SqrtPriceAt[u]
      BY <1>4, TableMonotone
    <3> QED BY <1>2, <1>4, <1>9, <3>1, SMT
  <2>3. ASSUME NEW i \in DOMAIN call.book.net, u < i, i <= tc
        PROVE  FALSE
    <3>1. i \in Ticks /\ i \in Int /\ SqrtPriceAt[i] \in Nat
      BY <1>1, TickDomain, TablePrices DEF CallSane, WellFormedBook
    <3>2. u + 1 <= i /\ t < i
      BY <1>7, <2>1, <2>3, <3>1, SMT
    <3>3. SqrtPriceAt[u + 1] <= SqrtPriceAt[i] /\ SqrtPriceAt[i] <= SqrtPriceAt[tc]
      BY <1>4, <2>3, <3>1, <3>2, TableMonotone
    <3>4. SpLimit <= SqrtPriceAt[i] /\ SqrtPriceAt[i] <= call.price
      BY <1>2, <1>3, <1>4, <1>6, <1>9, <3>1, <3>3, SMT
    <3>5. LowerOf(call.price, SpLimit) = SpLimit /\ UpperOf(call.price, SpLimit) = call.price
      BY <1>3, <1>9, SMT DEF LowerOf, UpperOf
    <3> QED BY <1>8, <1>9, <2>3, <3>2, <3>4, <3>5
  <2> QED BY <1>1, <1>4, <1>7, <2>2, <2>3, BookFacts
<1>10. CASE ~call.zeroForOne
  <2>1. tc <= u
    <3> SUFFICES ASSUME u + 1 <= tc PROVE FALSE
      BY <1>4, <1>7, SMT
    <3>1. SqrtPriceAt[u + 1] <= SqrtPriceAt[tc]
      BY <1>4, TableMonotone
    <3> QED BY <1>2, <1>4, <1>10, <3>1, SMT
  <2>2. u < t
    <3> SUFFICES ASSUME t <= u PROVE FALSE
      BY <1>7, SMT
    <3>1. SqrtPriceAt[t] <= SqrtPriceAt[u]
      BY TableMonotone
    <3> QED BY <1>4, <1>6, <1>10, <3>1, SMT
  <2>3. ASSUME NEW i \in DOMAIN call.book.net, tc < i, i <= u
        PROVE  FALSE
    <3>1. i \in Ticks /\ i \in Int /\ SqrtPriceAt[i] \in Nat
      BY <1>1, TickDomain, TablePrices DEF CallSane, WellFormedBook
    <3>2. tc + 1 <= i /\ i < t
      BY <1>4, <1>7, <2>2, <2>3, <3>1, SMT
    <3>3. SqrtPriceAt[tc + 1] <= SqrtPriceAt[i] /\ SqrtPriceAt[i] <= SqrtPriceAt[u]
      BY <1>4, <2>3, <3>1, <3>2, TableMonotone
    <3>4. call.price <= SqrtPriceAt[i] /\ SqrtPriceAt[i] <= SpLimit
      BY <1>2, <1>3, <1>4, <1>6, <1>10, <3>1, <3>3, SMT
    <3>5. LowerOf(call.price, SpLimit) = call.price /\ UpperOf(call.price, SpLimit) = SpLimit
      BY <1>3, <1>10, SMT DEF LowerOf, UpperOf
    <3> QED BY <1>8, <1>10, <2>3, <3>2, <3>4, <3>5
  <2> QED BY <1>1, <1>4, <1>7, <2>1, <2>3, BookFacts
<1> QED BY <1>1, <1>9, <1>10

(* So a price reached on the way has the running liquidity in the book. *)
LEMMA ReachedOnBook ==
  ASSUME IInv, LoopGuard, pc = "loop", NEW t \in Ticks, IsNextTick(t),
         NEW q \in Int, AheadOf(sp_current, q, call.zeroForOne),
         AheadOf(q, TargetPrice(t), call.zeroForOne)
  PROVE  \E u \in CurrentTicks : PriceInTick(q, u) /\ liquidity = call.book.active[u]
<1>1. CallSane /\ LimitRespected /\ sp_current \in U128 /\ call.zeroForOne \in BOOLEAN
  BY DEF IInv, TypeOK, CallSane
<1>2. /\ sp_current \in Int
      /\ MIN_SQRT_PRICE_X64 < sp_current /\ sp_current < MAX_SQRT_PRICE_X64
  BY <1>1, PriceInside, QAssumption, SMT DEF U128, U128Max
<1>3. /\ MIN_SQRT_PRICE_X64 \in Nat /\ MAX_SQRT_PRICE_X64 \in Nat
      /\ SpLimit \in Int /\ MIN_SQRT_PRICE_X64 < SpLimit /\ SpLimit < MAX_SQRT_PRICE_X64
  BY <1>1, LimitFacts
<1>4. MIN_SQRT_PRICE_X64 < q /\ q < MAX_SQRT_PRICE_X64
  <2>1. AheadOf(TargetPrice(t), SpLimit, call.zeroForOne) /\ TargetPrice(t) \in Int
    BY TargetFacts, QAssumption, SMT DEF Prices128, U128Max
  <2> QED BY <1>1, <1>2, <1>3, <2>1, SMT DEF AheadOf
<1>5. CASE q = sp_current
  <2>1. PriceInTick(sp_current, tick_current) /\ liquidity = call.book.active[tick_current]
    BY NextTickAhead DEF IInv, WalkMatchesBook, Walking
  <2> QED BY <1>5, <2>1 DEF PriceInTick
<1>6. CASE q # sp_current
  <2> DEFINE p == IF call.zeroForOne THEN q ELSE q - 1
  <2>1. p \in Int /\ InPriceDomain(p)
    BY <1>1, <1>2, <1>3, <1>4, <1>6, SMT DEF InPriceDomain, AheadOf
  <2>2. PICK u \in Ticks : u + 1 \in Ticks /\ IsTickAtSqrtPrice(p, u)
    BY <2>1, TickExists
  <2>3. /\ SqrtPriceAt[u] <= p /\ p < SqrtPriceAt[u + 1]
        /\ SqrtPriceAt[u] \in Nat /\ SqrtPriceAt[u + 1] \in Nat
    BY <2>2, TablePrices DEF IsTickAtSqrtPrice
  <2>4. PriceInTick(q, u)
    BY <1>1, <2>2, <2>3, TickDomain, SMT DEF PriceInTick
  <2>5. IF call.zeroForOne THEN q < SqrtPriceAt[u + 1] /\ SqrtPriceAt[u] < sp_current
                           ELSE sp_current < SqrtPriceAt[u + 1] /\ SqrtPriceAt[u] < q
    BY <1>1, <1>2, <1>6, <2>3, SMT DEF AheadOf
  <2>6. call.book.active[u] = liquidity
    BY <2>2, <2>5, SameLiquidity
  <2> QED BY <2>4, <2>6, TickDomain
<1> QED BY <1>5, <1>6

-----------------------------------------------------------------------------
(* One iteration *)

(* compute_swap_step is called within its domain: the step is sound, or it   *)
(* is one of two failures, and a panic is an exact output's alone.           *)
LEMMA IterationFacts ==
  ASSUME IInv, LoopGuard, pc = "loop", NEW t \in Ticks, IsNextTick(t),
         NEW s, s = StepTo(t)
  PROVE  /\ s.tag = "ok" =>
              StepSound(s, sp_current, TargetPrice(t), liquidity, amount_remaining,
                        call.feeRate, call.isBaseInput, call.zeroForOne)
         /\ s.tag # "ok" =>
              \/ s = Err("MaxTokenOverflow")
              \/ s = Panic /\ ~call.isBaseInput
                   /\ 2 * call.feeRate > FEE_RATE_DENOMINATOR_VALUE
<1> DEFINE f == call.feeRate
<1>1. /\ CallSane /\ liquidity \in U128 /\ amount_remaining \in U64
      /\ call.isBaseInput \in BOOLEAN /\ call.zeroForOne \in BOOLEAN
  BY DEF IInv, TypeOK, CallSane
<1>2. f \in FeeRatesBelowOne /\ f \in Nat
  <2>1. f \in 0 .. FEE_RATE_DENOMINATOR_VALUE - 1
    BY <1>1, SwapFullAssumption DEF CallSane
  <2> QED BY <2>1, FeeDenominatorAssumption, SMT DEF FeeRatesBelowOne
<1>3. /\ sp_current \in Prices128 /\ TargetPrice(t) \in Prices128
      /\ AheadOf(sp_current, TargetPrice(t), call.zeroForOne)
  BY TargetFacts
<1>4. s = ComputeSwapStep(sp_current, TargetPrice(t), liquidity, amount_remaining,
                          f, call.isBaseInput, call.zeroForOne)
  BY DEF StepTo
<1> HIDE DEF f
<1>5. /\ call.isBaseInput \/ 2 * f <= FEE_RATE_DENOMINATOR_VALUE => s.tag # "panic"
      /\ s.tag = "ok" =>
           StepSound(s, sp_current, TargetPrice(t), liquidity, amount_remaining,
                     f, call.isBaseInput, call.zeroForOne)
  BY <1>1, <1>2, <1>3, <1>4, StepFacts
<1>6. s.tag = "ok" \/ s = Err("MaxTokenOverflow") \/ s = Panic
  BY <1>4 DEF ComputeSwapStep, Reported, StepOk
<1>7. ~(2 * f <= FEE_RATE_DENOMINATOR_VALUE) => 2 * f > FEE_RATE_DENOMINATOR_VALUE
  BY <1>2, FeeDenominatorAssumption, SMT
<1> QED BY <1>5, <1>6, <1>7 DEF Panic, f

(* The order of the code's checks once a step is computed. *)
FailureAfterStep(s, t) ==
  IF ~call.isBaseInput /\ s.amountOut > amount_remaining THEN Err("MaxTokenOverflow")
  ELSE IF GrossInPanics(s) THEN Panic
  ELSE IF Spent(s) > amount_remaining \/ amount_calculated + Gained(s) > U64Max
    THEN Err("MaxTokenOverflow")
  ELSE IF ~AtNextTick(s, t) THEN NoFailure
  ELSE IF t \notin Initialized THEN Err("InvalidTickIndex")
  ELSE IF Crossed(t).tag # "ok" THEN Crossed(t)
  ELSE NoFailure

(* ... arm by arm. *)
LEMMA FailureArms ==
  ASSUME NEW s, NEW t,
         s.tag = "ok" => s.fee \in Int /\ fee_total \in Int
  PROVE  /\ s.tag # "ok" => Failure(s, t) = s
         /\ s.tag = "ok" /\ fee_total + s.fee > U64Max
              => Failure(s, t) = Err("MaxTokenOverflow")
         /\ s.tag = "ok" /\ fee_total + s.fee <= U64Max
              => Failure(s, t) = FailureAfterStep(s, t)
<1>1. s.tag # "ok" => Failure(s, t) = s
  BY Zenon DEF Failure
<1>2. s.tag = "ok" => (fee_total + s.fee > U64Max <=> ~(fee_total + s.fee <= U64Max))
  BY QAssumption, SMT DEF U64Max
<1>3. ASSUME s.tag = "ok", fee_total + s.fee > U64Max
      PROVE  Failure(s, t) = Err("MaxTokenOverflow")
  <2>1. ~(fee_total + s.fee <= U64Max)
    BY <1>2, <1>3
  <2> QED BY <1>3, <2>1, Zenon DEF Failure
<1>4. ASSUME s.tag = "ok", fee_total + s.fee <= U64Max
      PROVE  Failure(s, t) = FailureAfterStep(s, t)
  <2>1. ~(fee_total + s.fee > U64Max)
    BY <1>2, <1>4
  <2> QED BY <1>4, <2>1, Zenon DEF Failure, FailureAfterStep
<1> QED BY <1>1, <1>3, <1>4

(* What an iteration takes off the amount and adds to the totals: u64 values, *)
(* the whole of the amount unless the target is reached.                     *)
LEMMA StepAccount ==
  ASSUME IInv, LoopGuard, pc = "loop", NEW t \in Ticks, IsNextTick(t),
         NEW s, s = StepTo(t), s.tag = "ok"
  PROVE  /\ s.fee \in Nat /\ fee_total \in Nat /\ s.amountIn \in Nat
         /\ Spent(s) \in Nat /\ Gained(s) \in Nat
         /\ amount_remaining \in Nat /\ amount_calculated \in Nat
         /\ amount_remaining <= U64Max
         /\ Spent(s) <= amount_remaining
         /\ s.next # TargetPrice(t) => Spent(s) = amount_remaining
         /\ call.isBaseInput => ~GrossInPanics(s) /\ GrossIn(s) = s.amountIn + s.fee
         /\ OverflowChecks /\ ~GrossInPanics(s) => GrossIn(s) = s.amountIn + s.fee
<1>1. /\ amount_remaining \in U64 /\ amount_calculated \in U64 /\ fee_total \in U64
      /\ call.isBaseInput \in BOOLEAN
  BY DEF IInv, TypeOK, CallSane
<1>2. /\ s.amountIn \in U64 /\ s.amountOut \in U64 /\ s.fee \in U64
      /\ call.isBaseInput => /\ s.amountIn + s.fee <= amount_remaining
                             /\ s.next # TargetPrice(t) => s.amountIn + s.fee = amount_remaining
      /\ ~call.isBaseInput => /\ s.amountOut <= amount_remaining
                              /\ s.next # TargetPrice(t) => s.amountOut = amount_remaining
  BY IterationFacts DEF StepSound
<1>3. /\ Q \in Nat /\ Q >= 2 /\ U64Max = Q - 1
      /\ amount_remaining \in Nat /\ amount_remaining <= U64Max
      /\ amount_calculated \in Nat /\ fee_total \in Nat
      /\ s.amountIn \in Nat /\ s.amountOut \in Nat /\ s.fee \in Nat
  BY <1>1, <1>2, QAssumption, SMT DEF U64, U64Max
<1>4. GrossIn(s) \in Nat
  <2>1. s.amountIn + s.fee \in Int /\ Q \in Nat \ {0}
    BY <1>3, SMT
  <2> QED BY <2>1, SMT DEF GrossIn
<1>5. s.amountIn + s.fee <= U64Max => GrossIn(s) = s.amountIn + s.fee
  BY <1>3, SMT DEF GrossIn
<1>6. call.isBaseInput => ~GrossInPanics(s) /\ GrossIn(s) = s.amountIn + s.fee
  <2>1. call.isBaseInput => s.amountIn + s.fee <= U64Max /\ ~(s.amountIn + s.fee > U64Max)
    BY <1>2, <1>3, SMT
  <2> QED BY <1>5, <2>1 DEF GrossInPanics
<1>7. OverflowChecks /\ ~GrossInPanics(s) => GrossIn(s) = s.amountIn + s.fee
  <2>1. OverflowChecks /\ ~GrossInPanics(s) => ~(s.amountIn + s.fee > U64Max)
    BY DEF GrossInPanics
  <2>2. ~(s.amountIn + s.fee > U64Max) => s.amountIn + s.fee <= U64Max
    BY <1>3, SMT
  <2> QED BY <1>5, <2>1, <2>2
<1>8. CASE call.isBaseInput
  <2>1. Spent(s) = s.amountIn + s.fee /\ Gained(s) = s.amountOut
    BY <1>6, <1>8 DEF Spent, Gained
  <2> QED BY <1>2, <1>3, <1>4, <1>6, <1>7, <1>8, <2>1
<1>9. CASE ~call.isBaseInput
  <2>1. Spent(s) = s.amountOut /\ Gained(s) = GrossIn(s)
    BY <1>9 DEF Spent, Gained
  <2> QED BY <1>2, <1>3, <1>4, <1>6, <1>7, <1>9, <2>1
<1> QED BY <1>1, <1>8, <1>9

(* An iteration that goes on has passed every check of the totals. *)
LEMMA GoesOn ==
  ASSUME IInv, LoopGuard, pc = "loop", NEW t \in Ticks, IsNextTick(t),
         NEW s, s = StepTo(t), Failure(s, t).tag = "ok"
  PROVE  /\ s.tag = "ok"
         /\ fee_total + s.fee <= U64Max
         /\ amount_calculated + Gained(s) <= U64Max
         /\ ~GrossInPanics(s)
<1>1. s.tag = "ok"
  <2> SUFFICES ASSUME s.tag # "ok" PROVE FALSE
    OBVIOUS
  <2>1. Failure(s, t) = s
    BY Zenon DEF Failure
  <2> QED BY <2>1
<1>2. /\ s.fee \in Int /\ fee_total \in Int /\ Spent(s) \in Nat /\ Gained(s) \in Nat
      /\ amount_calculated \in Nat
  BY <1>1, StepAccount, SMT
<1>3. /\ fee_total + s.fee > U64Max => Failure(s, t) = Err("MaxTokenOverflow")
      /\ fee_total + s.fee <= U64Max => Failure(s, t) = FailureAfterStep(s, t)
  BY <1>1, <1>2, FailureArms
<1>4. Err("MaxTokenOverflow").tag # "ok" /\ Panic.tag # "ok"
  BY DEF Err, Panic
<1>5. ~(fee_total + s.fee > U64Max)
  BY <1>3, <1>4
<1>6. fee_total + s.fee <= U64Max
  BY <1>2, <1>5, QAssumption, SMT DEF U64Max
<1>7. ~GrossInPanics(s) /\ ~(amount_calculated + Gained(s) > U64Max)
  BY <1>3, <1>4, <1>6 DEF FailureAfterStep
<1>8. amount_calculated + Gained(s) <= U64Max
  BY <1>2, <1>7, QAssumption, SMT DEF U64Max
<1> QED BY <1>1, <1>6, <1>7, <1>8

(* An iteration that fails had an amount too large for a u64; the crossing   *)
(* neither fails nor meets an uninitialized tick.                            *)
LEMMA FailsOnAmounts ==
  ASSUME IInv, LoopGuard, pc = "loop", NEW t \in Ticks, IsNextTick(t),
         NEW s, s = StepTo(t), Failure(s, t).tag # "ok"
  PROVE  \/ Failure(s, t) = Err("MaxTokenOverflow")
         \/ /\ Failure(s, t) = Panic /\ ~call.isBaseInput
            /\ OverflowChecks \/ 2 * call.feeRate > FEE_RATE_DENOMINATOR_VALUE
<1>1. CASE s.tag # "ok"
  <2>1. Failure(s, t) = s
    BY <1>1, Zenon DEF Failure
  <2> QED BY <1>1, <2>1, IterationFacts
<1>2. CASE s.tag = "ok"
  <2>1. /\ s.fee \in Int /\ fee_total \in Int
        /\ call.isBaseInput => ~GrossInPanics(s)
    BY <1>2, StepAccount, SMT
  <2>2. /\ fee_total + s.fee > U64Max => Failure(s, t) = Err("MaxTokenOverflow")
        /\ fee_total + s.fee <= U64Max => Failure(s, t) = FailureAfterStep(s, t)
    BY <1>2, <2>1, FailureArms
  <2>3. fee_total + s.fee > U64Max \/ fee_total + s.fee <= U64Max
    BY <2>1, QAssumption, SMT DEF U64Max
  <2>4. AtNextTick(s, t) => t \in Initialized /\ Crossed(t).tag = "ok"
    <3>1. TargetPrice(t) = SqrtPriceAt[t] =>
            /\ t \in Initialized
            /\ Crossed(t) = LiquidityOk(call.book.active[TickAfterCrossing(t)])
      BY CrossFacts
    <3> QED BY <3>1 DEF AtNextTick, LiquidityOk
  <2>5. GrossInPanics(s) => OverflowChecks
    BY DEF GrossInPanics
  <2> QED BY <2>1, <2>2, <2>3, <2>4, <2>5 DEF FailureAfterStep, NoFailure
<1> QED BY <1>1, <1>2

(* The fee of an exact input stays above its share of what was spent. *)
LEMMA FeeShareGrows ==
  ASSUME NEW D \in Nat, NEW f \in Nat, NEW total \in Nat, NEW fee \in Nat,
         NEW used \in Nat, NEW in \in Nat, f <= D,
         total * D >= used * f, fee * (D - f) >= in * f
  PROVE  (total + fee) * D >= (used + (in + fee)) * f
<1>1. fee * (D - f) = fee * D - fee * f
  BY SMT
<1>2. /\ (total + fee) * D = total * D + fee * D
      /\ (used + (in + fee)) * f = used * f + in * f + fee * f
  BY SMT
<1>3. /\ total * D \in Int /\ fee * D \in Int /\ used * f \in Int
      /\ in * f \in Int /\ fee * f \in Int
  BY SMT
<1> DEFINE a == total * D
           b == fee * D
           c == used * f
           d == in * f
           e == fee * f
<1>4. a \in Int /\ b \in Int /\ c \in Int /\ d \in Int /\ e \in Int
      /\ a >= c /\ b - e >= d
  BY <1>1, <1>3
<1>5. (total + fee) * D = a + b /\ (used + (in + fee)) * f = c + d + e
  BY <1>2
<1> HIDE DEF a, b, c, d, e
<1>6. a + b >= c + d + e
  BY <1>4, SMT
<1> QED BY <1>5, <1>6

(* What every iteration that goes on does: the price moves towards the       *)
(* target, the totals stay u64 values and the fee keeps its share.           *)
LEMMA Progress ==
  ASSUME IInv, LoopGuard, pc = "loop", steps < MAX_STEPS, NEW t \in Ticks, IsNextTick(t),
         NEW s, s = StepTo(t), Failure(s, t).tag = "ok",
         Account(s), call' = call
  PROVE  /\ sp_current' = s.next /\ sp_current' \in U128 /\ sp_current' \in Int
         /\ AheadOf(sp_current, sp_current', call.zeroForOne)
         /\ AheadOf(sp_current', TargetPrice(t), call.zeroForOne)
         /\ amount_remaining' \in U64 /\ amount_calculated' \in U64 /\ fee_total' \in U64
         /\ steps' \in 0 .. MAX_STEPS
         /\ sp_current' # TargetPrice(t) => amount_remaining' = 0
         /\ CallSane' /\ (pc' # "idle" => LimitRespected') /\ Accounted'
<1>1. /\ CallSane /\ LimitRespected /\ Accounted /\ sp_current \in U128
      /\ steps \in 0 .. MAX_STEPS
      /\ call.zeroForOne \in BOOLEAN /\ call.isBaseInput \in BOOLEAN
  BY DEF IInv, TypeOK, CallSane
<1>2. /\ s.tag = "ok" /\ fee_total + s.fee <= U64Max
      /\ amount_calculated + Gained(s) <= U64Max
  BY GoesOn
<1>3. /\ s.fee \in Nat /\ fee_total \in Nat /\ s.amountIn \in Nat
      /\ Spent(s) \in Nat /\ Gained(s) \in Nat
      /\ amount_remaining \in Nat /\ amount_calculated \in Nat
      /\ amount_remaining <= U64Max
      /\ Spent(s) <= amount_remaining
      /\ s.next # TargetPrice(t) => Spent(s) = amount_remaining
      /\ call.isBaseInput => Spent(s) = s.amountIn + s.fee
  BY <1>2, StepAccount DEF Spent
<1>4. StepSound(s, sp_current, TargetPrice(t), liquidity, amount_remaining,
                call.feeRate, call.isBaseInput, call.zeroForOne)
  BY <1>2, IterationFacts
<1>5. /\ sp_current' = s.next /\ fee_total' = fee_total + s.fee
      /\ amount_remaining' = amount_remaining - Spent(s)
      /\ amount_calculated' = amount_calculated + Gained(s)
      /\ steps' = steps + 1
  BY DEF Account
<1>6. /\ sp_current' \in U128 /\ sp_current' \in Int
      /\ AheadOf(sp_current, sp_current', call.zeroForOne)
      /\ AheadOf(sp_current', TargetPrice(t), call.zeroForOne)
  <2>1. s.next \in Prices128
    BY <1>4 DEF StepSound
  <2>2. s.next \in U128 /\ s.next \in Int
    BY <2>1, QAssumption, SMT DEF Prices128, U128, U128Max
  <2> QED BY <1>4, <1>5, <2>2 DEF StepSound
<1>7. amount_remaining' \in U64 /\ amount_calculated' \in U64 /\ fee_total' \in U64
  BY <1>2, <1>3, <1>5, QAssumption, SMT DEF U64, U64Max
<1>8. steps' \in 0 .. MAX_STEPS
  BY <1>1, <1>5, SwapFullAssumption, SMT
<1>9. sp_current' # TargetPrice(t) => amount_remaining' = 0
  BY <1>3, <1>5, SMT
<1>10. CallSane'
  BY <1>1 DEF CallSane, WellFormedBook, Slices, InReach, LimitAhead, ResolvedLimit
<1>11. LimitRespected'
  <2>1. SpLimit' = SpLimit
    BY DEF SpLimit
  <2>2. AheadOf(TargetPrice(t), SpLimit, call.zeroForOne) /\ TargetPrice(t) \in Int
    BY TargetFacts, QAssumption, SMT DEF Prices128, U128Max
  <2>3. sp_current \in Int /\ SpLimit \in Int /\ call.price \in Int
    BY <1>1, LimitFacts, QAssumption, SMT DEF U128, U128Max
  <2>4. IF call.zeroForOne
          THEN SpLimit <= sp_current' /\ sp_current' <= call.price
          ELSE call.price <= sp_current' /\ sp_current' <= SpLimit
    <3>1. IF call.zeroForOne THEN sp_current <= call.price ELSE call.price <= sp_current
      BY <1>1 DEF LimitRespected
    <3> QED BY <1>1, <1>6, <2>2, <2>3, <3>1, SMT DEF AheadOf
  <2> QED BY <2>1, <2>4 DEF LimitRespected
<1>12. Accounted'
  <2>1. /\ call.amount \in Nat /\ amount_remaining <= call.amount
        /\ call.feeRate \in Nat /\ call.feeRate <= FEE_RATE_DENOMINATOR_VALUE
        /\ FEE_RATE_DENOMINATOR_VALUE \in Nat
    <3>1. call.amount \in U64 /\ call.feeRate \in 0 .. FEE_RATE_DENOMINATOR_VALUE - 1
      BY <1>1, SwapFullAssumption DEF CallSane
    <3> QED BY <1>1, <3>1, FeeDenominatorAssumption, QAssumption, SMT DEF U64, U64Max, Accounted
  <2>2. amount_remaining' <= call.amount
    BY <1>3, <1>5, <2>1, SMT
  <2>3. ASSUME call.isBaseInput
        PROVE  fee_total' * FEE_RATE_DENOMINATOR_VALUE
                 >= (call.amount - amount_remaining') * call.feeRate
    <3> DEFINE used == call.amount - amount_remaining
    <3>1. used \in Nat /\ call.amount - amount_remaining' = used + (s.amountIn + s.fee)
      BY <1>3, <1>5, <2>1, <2>3, SMT
    <3>2. fee_total * FEE_RATE_DENOMINATOR_VALUE >= used * call.feeRate
      BY <1>1, <2>3 DEF Accounted
    <3>3. s.fee * (FEE_RATE_DENOMINATOR_VALUE - call.feeRate) >= s.amountIn * call.feeRate
      BY <1>4 DEF StepSound
    <3> HIDE DEF used
    <3>4. (fee_total + s.fee) * FEE_RATE_DENOMINATOR_VALUE
            >= (used + (s.amountIn + s.fee)) * call.feeRate
      BY <1>3, <2>1, <3>1, <3>2, <3>3, FeeShareGrows
    <3> QED BY <1>5, <3>1, <3>4
  <2> QED BY <2>2, <2>3 DEF Accounted
<1> QED BY <1>5, <1>6, <1>7, <1>8, <1>9, <1>10, <1>11, <1>12

-----------------------------------------------------------------------------
(* The invariant *)

(* No call has been made, and the invariant asks nothing of one. *)
LEMMA InitIInv == Init => IInv
<1> SUFFICES ASSUME Init PROVE IInv
  OBVIOUS
<1>1. /\ 0 \in U128 /\ 0 \in U64 /\ 0 \in CurrentTicks /\ 0 \in 0 .. MAX_STEPS
  BY QAssumption, TickTableAssumption, SwapFullAssumption, SMT
     DEF U128, U128Max, U64, U64Max, CurrentTicks, MIN_TICK
<1>2. TypeOK
  BY <1>1 DEF Init, TypeOK, NoCall, NoResult
<1> QED BY <1>2 DEF Init, IInv, WalkMatchesBook, EveryStepCrossed, Walking, Succeeded,
          OnlyAmountErrors, CapOnlyAfterManyTicks

(* The ticks passed are finitely many. *)
LEMMA PassedFinite ==
  ASSUME CallSane
  PROVE  IsFiniteSet(Passed) /\ Cardinality(Passed) \in Nat
<1>1. IsFiniteSet(Ticks)
  BY TickDomain, FS_Interval DEF Ticks
<1>2. Passed \in SUBSET Ticks
  BY SliceFacts DEF Passed
<1> QED BY <1>1, <1>2, FS_Subset, FS_CardinalityType

(* A call starts at its own price and tick, with nothing accounted, whatever *)
(* well-formed book and price inside the domain it is made on.               *)
LEMMA StartKeepsIInv ==
  ASSUME CheckedLimits, IInv,
         NEW book, WellFormedBook(book),
         NEW price \in MIN_SQRT_PRICE_X64 + 1 .. MAX_SQRT_PRICE_X64 - 1,
         NEW tick \in CurrentTicks,
         NEW feeRate \in FeeRates, NEW amount \in Amounts, NEW limit \in Limits,
         NEW isBaseInput \in BOOLEAN, NEW zeroForOne \in BOOLEAN,
         Start(book, price, tick, feeRate, amount, limit, isBaseInput, zeroForOne)
  PROVE  IInv'
<1>1. PriceInTick(price, tick) /\ LimitAhead(limit, price, zeroForOne)
  BY DEF Start
<1>2. PICK slice \in Slices(book, price, limit, zeroForOne) :
        call' = [tag |-> "call", book |-> book, slice |-> slice, price |-> price,
                 feeRate |-> feeRate, amount |-> amount, limit |-> limit,
                 isBaseInput |-> isBaseInput, zeroForOne |-> zeroForOne]
  BY DEF Start
<1>3. /\ sp_current' = price /\ tick_current' = tick /\ liquidity' = book.active[tick]
      /\ amount_remaining' = amount /\ amount_calculated' = 0
      /\ fee_total' = 0 /\ steps' = 0 /\ pc' = "loop" /\ result' = result
  BY DEF Start
<1>4. /\ call'.tag = "call" /\ call'.book = book /\ call'.price = price
      /\ call'.amount = amount /\ call'.limit = limit /\ call'.feeRate = feeRate
      /\ call'.zeroForOne = zeroForOne /\ call'.isBaseInput = isBaseInput
      /\ call'.slice = slice
  BY <1>2
<1>5. CallSane'
  BY <1>1, <1>4 DEF CallSane, WellFormedBook, Slices, InReach, ResolvedLimit, LimitAhead
<1>6. /\ price \in Nat /\ price \in U128 /\ amount \in Nat /\ amount \in U64
      /\ feeRate \in Nat
  <2>1. /\ MIN_SQRT_PRICE_X64 \in Nat /\ MAX_SQRT_PRICE_X64 \in Prices128
    BY TickDomain, TablePrices DEF MIN_SQRT_PRICE_X64, MAX_SQRT_PRICE_X64
  <2>2. price \in U128 /\ price \in Nat
    BY <2>1, QAssumption, SMT DEF Prices128, U128, U128Max
  <2>3. amount \in U64 /\ feeRate \in 0 .. FEE_RATE_DENOMINATOR_VALUE - 1
    BY SwapFullAssumption
  <2> QED BY <2>2, <2>3, FeeDenominatorAssumption, QAssumption, SMT DEF U64, U64Max
<1>7. book.active[tick] \in U128
  BY DEF WellFormedBook
<1>8. TypeOK'
  <2>1. 0 \in U64 /\ 0 \in 0 .. MAX_STEPS
    BY QAssumption, SwapFullAssumption, SMT DEF U64, U64Max
  <2>2. result.tag \in {"none", "ok", "err", "panic"}
    BY DEF IInv, TypeOK
  <2> QED BY <1>3, <1>4, <1>6, <1>7, <2>1, <2>2 DEF TypeOK
<1>9. LimitRespected'
  <2>1. (SpLimit \in Int)'
    BY <1>5, LimitFacts, PTL
  <2>2. (IF call.zeroForOne THEN SpLimit <= call.price ELSE call.price <= SpLimit)'
    BY <1>5, LimitFacts, PTL
  <2> QED BY <1>3, <1>4, <1>6, <2>1, <2>2, SMT DEF LimitRespected
<1>10. PriceOnBook'
  BY <1>1, <1>3, <1>4 DEF PriceOnBook, PriceInTick
<1>11. Accounted'
  <2>1. amount - amount = 0 /\ amount <= amount /\ 0 * feeRate = 0
    BY <1>6, SMT
  <2>2. 0 * FEE_RATE_DENOMINATOR_VALUE >= 0
    BY FeeDenominatorAssumption, SMT
  <2> QED BY <1>3, <1>4, <2>1, <2>2 DEF Accounted
<1>12. WalkMatchesBook'
  BY <1>1, <1>3, <1>4 DEF WalkMatchesBook, PriceInTick
<1>13. EveryStepCrossed'
  <2>1. (Cardinality(Passed) \in Nat)'
    BY <1>5, PassedFinite, PTL
  <2>2. steps' <= Cardinality(Passed)'
    BY <1>3, <2>1, SMT
  <2> QED BY <2>2 DEF EveryStepCrossed
<1> QED BY <1>3, <1>5, <1>8, <1>9, <1>10, <1>11, <1>12, <1>13
        DEF IInv, Succeeded, OnlyAmountErrors, CapOnlyAfterManyTicks

(* In particular on the pools of the model. *)
LEMMA CallKeepsIInv ==
  ASSUME CheckedLimits, IInv, Call
  PROVE  IInv'
<1>1. PICK book \in Books, price \in Prices, tick \in CurrentTicks,
           feeRate \in FeeRates, amount \in Amounts, limit \in Limits,
           isBaseInput \in BOOLEAN, zeroForOne \in BOOLEAN :
        Start(book, price, tick, feeRate, amount, limit, isBaseInput, zeroForOne)
  BY DEF Call
<1>2. WellFormedBook(book) /\ price \in MIN_SQRT_PRICE_X64 + 1 .. MAX_SQRT_PRICE_X64 - 1
  BY SwapFullAssumption
<1> QED BY <1>1, <1>2, StartKeepsIInv

(* The cap is met only after MAX_STEPS crossings, each of another tick of the slice. *)
LEMMA StepCapKeepsIInv ==
  ASSUME IInv, StepCapReached
  PROVE  IInv'
<1>1. /\ pc = "loop" /\ LoopGuard /\ steps >= MAX_STEPS /\ pc' = "done"
      /\ result' = Err("SqrtPriceLimitOverflow") /\ call' = call
      /\ sp_current' = sp_current /\ tick_current' = tick_current
      /\ liquidity' = liquidity /\ amount_remaining' = amount_remaining
      /\ amount_calculated' = amount_calculated /\ fee_total' = fee_total
      /\ steps' = steps
  BY DEF StepCapReached, locals
<1>2. /\ TypeOK /\ CallSane /\ LimitRespected /\ PriceOnBook /\ Accounted
      /\ EveryStepCrossed /\ WalkMatchesBook
  BY <1>1 DEF IInv
<1>3. TypeOK'
  BY <1>1, <1>2 DEF TypeOK, Err
<1>4. CallSane' /\ LimitRespected' /\ PriceOnBook' /\ Accounted'
  BY <1>1, <1>2 DEF CallSane, WellFormedBook, Slices, InReach, LimitAhead, ResolvedLimit,
                    LimitRespected, SpLimit, PriceOnBook, PriceInTick, Accounted
<1>5. steps = MAX_STEPS /\ MAX_STEPS \in Nat /\ steps \in Nat
  BY <1>1, <1>2, SwapFullAssumption, SMT DEF TypeOK
<1>6. CapOnlyAfterManyTicks'
  <2> DEFINE way == {t \in Initialized :
                       /\ LowerOf(call.price, sp_current) <= SqrtPriceAt[t]
                       /\ SqrtPriceAt[t] <= UpperOf(call.price, sp_current)}
  <2>1. Passed \subseteq way
    <3> SUFFICES ASSUME NEW i \in Passed PROVE i \in way
      OBVIOUS
    <3>1. /\ i \in Initialized /\ i \in Ticks /\ i \in Int
          /\ SqrtPriceAt[i] \in Nat
      BY <1>2, SliceFacts, TickDomain, TablePrices DEF Passed
    <3>2. /\ sp_current \in Int /\ call.price \in Int /\ call.zeroForOne \in BOOLEAN
          /\ IF call.zeroForOne THEN sp_current <= call.price ELSE call.price <= sp_current
      <4>1. sp_current \in Int
        BY <1>2, QAssumption, SMT DEF TypeOK, U128, U128Max
      <4> QED BY <1>1, <1>2, <4>1, LimitFacts DEF LimitRespected, CallSane
    <3>3. /\ tick_current \in Ticks /\ tick_current + 1 \in Ticks /\ tick_current \in Int
          /\ SqrtPriceAt[tick_current] <= sp_current
          /\ sp_current <= SqrtPriceAt[tick_current + 1]
          /\ SqrtPriceAt[tick_current] \in Nat /\ SqrtPriceAt[tick_current + 1] \in Nat
      <4>1. PriceInTick(sp_current, tick_current)
        BY <1>1, <1>2 DEF LoopGuard, WalkMatchesBook
      <4>2. MIN_SQRT_PRICE_X64 < sp_current /\ sp_current < MAX_SQRT_PRICE_X64
        BY <1>1, <1>2, PriceInside DEF TypeOK
      <4> QED BY <3>2, <4>1, <4>2, TickInside, TablePrices
    <3>4. CASE call.zeroForOne
      <4>1. tick_current + 1 <= i /\ SqrtPriceAt[i] <= call.price
        BY <3>1, <3>3, <3>4, SMT DEF Passed
      <4>2. SqrtPriceAt[tick_current + 1] <= SqrtPriceAt[i]
        BY <3>1, <3>3, <4>1, TableMonotone
      <4>3. sp_current <= SqrtPriceAt[i]
        BY <3>1, <3>2, <3>3, <4>2, SMT
      <4>4. LowerOf(call.price, sp_current) = sp_current
            /\ UpperOf(call.price, sp_current) = call.price
        BY <3>2, <3>4, SMT DEF LowerOf, UpperOf
      <4> QED BY <3>1, <4>1, <4>3, <4>4
    <3>5. CASE ~call.zeroForOne
      <4>1. i <= tick_current /\ call.price <= SqrtPriceAt[i]
        BY <3>1, <3>5 DEF Passed
      <4>2. SqrtPriceAt[i] <= SqrtPriceAt[tick_current]
        BY <3>1, <3>3, <4>1, TableMonotone
      <4>3. SqrtPriceAt[i] <= sp_current
        BY <3>1, <3>2, <3>3, <4>2, SMT
      <4>4. LowerOf(call.price, sp_current) = call.price
            /\ UpperOf(call.price, sp_current) = sp_current
        BY <3>2, <3>5, SMT DEF LowerOf, UpperOf
      <4> QED BY <3>1, <4>1, <4>3, <4>4
    <3> QED BY <3>2, <3>4, <3>5
  <2>2. IsFiniteSet(way) /\ Cardinality(way) \in Nat
    <3>1. IsFiniteSet(Ticks) /\ way \in SUBSET Ticks
      BY <1>2, SliceFacts, TickDomain, FS_Interval DEF Ticks
    <3> QED BY <3>1, FS_Subset, FS_CardinalityType
  <2> HIDE DEF way
  <2>3. Cardinality(Passed) <= Cardinality(way)
    BY <2>1, <2>2, FS_Subset
  <2>4. steps <= Cardinality(Passed) /\ Cardinality(Passed) \in Nat
    BY <1>1, <1>2, PassedFinite DEF EveryStepCrossed, Walking, LoopGuard
  <2>5. Cardinality(way) >= MAX_STEPS
    BY <1>5, <2>2, <2>3, <2>4, SMT
  <2> QED BY <1>1, <2>5 DEF CapOnlyAfterManyTicks, Initialized, way
<1>7. OnlyAmountErrors'
  BY <1>1, <1>5 DEF OnlyAmountErrors
<1> QED BY <1>1, <1>3, <1>4, <1>6, <1>7
        DEF IInv, WalkMatchesBook, EveryStepCrossed, Walking, Succeeded, Err

(* A failing iteration changes no local, and its error is one of the amounts. *)
LEMMA FailureKeepsIInv ==
  ASSUME IInv, NEW t \in Ticks, IterationFails(t)
  PROVE  IInv'
<1>1. PICK s \in {StepTo(t)} : Failure(s, t).tag # "ok" /\ result' = Failure(s, t)
  BY DEF IterationFails
<1>2. /\ pc = "loop" /\ LoopGuard /\ IsNextTick(t) /\ pc' = "done" /\ call' = call
      /\ sp_current' = sp_current /\ tick_current' = tick_current
      /\ liquidity' = liquidity /\ amount_remaining' = amount_remaining
      /\ amount_calculated' = amount_calculated /\ fee_total' = fee_total
      /\ steps' = steps
  BY DEF IterationFails, Iterating, locals
<1>3. \/ result' = Err("MaxTokenOverflow")
      \/ /\ result' = Panic /\ ~call.isBaseInput
         /\ OverflowChecks \/ 2 * call.feeRate > FEE_RATE_DENOMINATOR_VALUE
  BY <1>1, <1>2, FailsOnAmounts
<1>4. /\ result'.tag \in {"err", "panic"} /\ result' # Err("SqrtPriceLimitOverflow")
  BY <1>3 DEF Err, Panic
<1>5. TypeOK /\ CallSane /\ LimitRespected /\ PriceOnBook /\ Accounted
  BY <1>2 DEF IInv
<1>6. TypeOK'
  BY <1>2, <1>4, <1>5 DEF TypeOK
<1>7. CallSane' /\ LimitRespected' /\ PriceOnBook' /\ Accounted'
  BY <1>2, <1>5 DEF CallSane, WellFormedBook, Slices, InReach, LimitAhead, ResolvedLimit,
                    LimitRespected, SpLimit, PriceOnBook, PriceInTick, Accounted
<1>8. OnlyAmountErrors' /\ CapOnlyAfterManyTicks'
  BY <1>2, <1>3, <1>4 DEF OnlyAmountErrors, CapOnlyAfterManyTicks
<1> QED BY <1>2, <1>4, <1>6, <1>7, <1>8
        DEF IInv, WalkMatchesBook, EveryStepCrossed, Walking, Succeeded

(* Crossing a tick moves to the neighbouring interval, whose liquidity is the
   one held changed by what the tick carries. *)
LEMMA CrossTickKeepsIInv ==
  ASSUME IInv, NEW t \in Ticks, CrossTick(t)
  PROVE  IInv'
<1>1. PICK s \in {StepTo(t)} : Failure(s, t).tag = "ok" /\ AtNextTick(s, t) /\ Account(s)
  BY DEF CrossTick
<1>2. /\ pc = "loop" /\ LoopGuard /\ IsNextTick(t) /\ steps < MAX_STEPS
      /\ pc' = pc /\ call' = call /\ result' = result
      /\ liquidity' = Crossed(t).liquidity /\ tick_current' = TickAfterCrossing(t)
  BY DEF CrossTick, Iterating
<1>3. s = StepTo(t)
  OBVIOUS
<1>4. /\ sp_current' = s.next /\ sp_current' \in U128
      /\ AheadOf(sp_current, sp_current', call.zeroForOne)
      /\ amount_remaining' \in U64 /\ amount_calculated' \in U64 /\ fee_total' \in U64
      /\ steps' \in 0 .. MAX_STEPS
      /\ CallSane' /\ LimitRespected' /\ Accounted'
  BY <1>1, <1>2, <1>3, Progress
<1>5. TargetPrice(t) = SqrtPriceAt[t] /\ sp_current' = SqrtPriceAt[t]
  BY <1>1, <1>4 DEF AtNextTick
<1>6. /\ t \in Initialized /\ tick_current' \in CurrentTicks
      /\ PriceInTick(sp_current', tick_current')
      /\ IF call.zeroForOne THEN tick_current' < tick_current
                            ELSE tick_current < tick_current'
      /\ liquidity' = call.book.active[tick_current']
  BY <1>2, <1>5, CrossFacts DEF LiquidityOk
<1>7. TypeOK /\ CallSane /\ LimitRespected /\ EveryStepCrossed /\ OnlyAmountErrors
  BY <1>2 DEF IInv
<1>8. liquidity' \in U128
  BY <1>6, <1>7, BookFacts
<1>9. TypeOK'
  BY <1>2, <1>4, <1>6, <1>7, <1>8 DEF TypeOK
<1>10. PriceOnBook' /\ WalkMatchesBook'
  BY <1>2, <1>6 DEF PriceOnBook, WalkMatchesBook, PriceInTick
<1>11. EveryStepCrossed'
  <2>1. steps <= Cardinality(Passed)
    BY <1>2, <1>7 DEF EveryStepCrossed, Walking, LoopGuard
  <2>2. IsFiniteSet(Passed) /\ Cardinality(Passed) \in Nat
    BY <1>7, PassedFinite
  <2>3. (IsFiniteSet(Passed) /\ Cardinality(Passed) \in Nat)'
    BY <1>4, PassedFinite, PTL
  <2>4. /\ t \in Int /\ tick_current \in Int /\ tick_current' \in Int
        /\ call.zeroForOne \in BOOLEAN
    BY <1>6, <1>7, TickDomain DEF TypeOK, CallSane
  <2>5. IF call.zeroForOne THEN t <= tick_current ELSE tick_current + 1 <= t
    BY <1>2, NextTickAhead
  <2>6. t \notin Passed
    BY <2>4, <2>5, SMT DEF Passed
  <2>7. /\ Passed' \subseteq Ticks /\ Passed \subseteq Ticks
        /\ Initialized' = Initialized /\ call' = call
    BY <1>2, <1>7, SliceFacts DEF Passed, Initialized
  <2>8. ASSUME NEW i \in Passed PROVE i \in Passed'
    <3>1. i \in Int /\ i \in Initialized
      BY <2>7, TickDomain DEF Passed
    <3>2. CASE call.zeroForOne
      <4>1. tick_current' < i /\ SqrtPriceAt[i] <= call.price
        BY <1>6, <2>4, <3>1, <3>2, SMT DEF Passed
      <4> QED BY <2>7, <3>1, <3>2, <4>1 DEF Passed
    <3>3. CASE ~call.zeroForOne
      <4>1. i <= tick_current' /\ call.price <= SqrtPriceAt[i]
        BY <1>6, <2>4, <3>1, <3>3, SMT DEF Passed
      <4> QED BY <2>7, <3>1, <3>3, <4>1 DEF Passed
    <3> QED BY <2>4, <3>2, <3>3
  <2>9. t \in Passed'
    <3>1. IF call.zeroForOne THEN SqrtPriceAt[t] <= call.price
                             ELSE call.price <= SqrtPriceAt[t]
      BY <1>2, <1>4, <1>5, <2>4 DEF LimitRespected
    <3>2. IF call.zeroForOne THEN tick_current' < t ELSE t <= tick_current'
      BY <1>2, <2>4, SMT DEF TickAfterCrossing
    <3> QED BY <1>2, <1>6, <2>4, <2>7, <3>1, <3>2 DEF Passed
  <2>10. Cardinality(Passed \cup {t}) = Cardinality(Passed) + 1
    BY <2>2, <2>6, FS_AddElement
  <2>11. (Passed \cup {t}) \in SUBSET (Passed')
    BY <2>8, <2>9
  <2>12. Cardinality(Passed \cup {t}) <= Cardinality(Passed')
    BY <2>3, <2>11, FS_Subset
  <2>13. steps \in Nat /\ steps' = steps + 1
    BY <1>1, <1>7, SMT DEF TypeOK, Account
  <2>14. steps' <= Cardinality(Passed')
    BY <2>1, <2>2, <2>3, <2>10, <2>12, <2>13, SMT
  <2> QED BY <2>14 DEF EveryStepCrossed
<1> QED BY <1>2, <1>4, <1>9, <1>10, <1>11
        DEF IInv, Succeeded, OnlyAmountErrors, CapOnlyAfterManyTicks

(* The two ways to stop between ticks keep the liquidity, which the price    *)
(* reached has in the book.                                                  *)
LEMMA StopKeepsIInv ==
  ASSUME IInv, NEW t \in Ticks, StopAtLimit(t)
  PROVE  IInv'
<1>1. PICK s \in {StepTo(t)} :
        /\ Failure(s, t).tag = "ok" /\ ~AtNextTick(s, t)
        /\ s.next = TargetPrice(t) /\ Account(s)
  BY DEF StopAtLimit
<1>2. /\ pc = "loop" /\ LoopGuard /\ IsNextTick(t) /\ steps < MAX_STEPS
      /\ pc' = "return" /\ call' = call /\ result' = result
      /\ liquidity' = liquidity /\ tick_current' = tick_current
  BY DEF StopAtLimit, Iterating
<1>3. s = StepTo(t)
  OBVIOUS
<1>4. /\ sp_current' = s.next /\ sp_current' \in U128 /\ sp_current' \in Int
      /\ AheadOf(sp_current, sp_current', call.zeroForOne)
      /\ AheadOf(sp_current', TargetPrice(t), call.zeroForOne)
      /\ amount_remaining' \in U64 /\ amount_calculated' \in U64 /\ fee_total' \in U64
      /\ steps' \in 0 .. MAX_STEPS
      /\ CallSane' /\ LimitRespected' /\ Accounted'
  BY <1>1, <1>2, <1>3, Progress
<1>5. TargetPrice(t) = SqrtPriceAt[t] \/ TargetPrice(t) = SpLimit
  BY <1>2, TargetFacts
<1>6. sp_current' = SpLimit'
  BY <1>1, <1>2, <1>4, <1>5 DEF AtNextTick, SpLimit
<1>7. PriceOnBook'
  <2>1. PICK u \in CurrentTicks :
          PriceInTick(sp_current', u) /\ liquidity = call.book.active[u]
    BY <1>2, <1>4, ReachedOnBook
  <2> QED BY <1>2, <2>1 DEF PriceOnBook, PriceInTick
<1>8. TypeOK
  BY DEF IInv
<1>9. TypeOK'
  BY <1>2, <1>4, <1>8 DEF TypeOK
<1> QED BY <1>2, <1>4, <1>6, <1>7, <1>9
        DEF IInv, WalkMatchesBook, EveryStepCrossed, Walking, Succeeded,
            OnlyAmountErrors, CapOnlyAfterManyTicks

(* A step that ends short of its target has used the amount up or met the limit. *)
LEMMA StayKeepsIInv ==
  ASSUME IInv, NEW t \in Ticks, StayInRange(t)
  PROVE  IInv'
<1>1. PICK s \in {StepTo(t)} :
        /\ Failure(s, t).tag = "ok" /\ s.next # TargetPrice(t) /\ Account(s)
        /\ \E u \in CurrentTicks : tick_current' = u
  BY DEF StayInRange
<1>2. /\ pc = "loop" /\ LoopGuard /\ IsNextTick(t) /\ steps < MAX_STEPS
      /\ pc' = pc /\ call' = call /\ result' = result /\ liquidity' = liquidity
  BY DEF StayInRange, Iterating
<1>3. s = StepTo(t)
  OBVIOUS
<1>4. /\ sp_current' = s.next /\ sp_current' \in U128 /\ sp_current' \in Int
      /\ AheadOf(sp_current, sp_current', call.zeroForOne)
      /\ AheadOf(sp_current', TargetPrice(t), call.zeroForOne)
      /\ amount_remaining' \in U64 /\ amount_calculated' \in U64 /\ fee_total' \in U64
      /\ steps' \in 0 .. MAX_STEPS
      /\ sp_current' # TargetPrice(t) => amount_remaining' = 0
      /\ CallSane' /\ LimitRespected' /\ Accounted'
  BY <1>1, <1>2, <1>3, Progress
<1>5. amount_remaining' = 0 /\ ~(amount_remaining' > 0)
  BY <1>1, <1>4, SMT
<1>6. PriceOnBook'
  <2>1. PICK u \in CurrentTicks :
          PriceInTick(sp_current', u) /\ liquidity = call.book.active[u]
    BY <1>2, <1>4, ReachedOnBook
  <2> QED BY <1>2, <2>1 DEF PriceOnBook, PriceInTick
<1>7. TypeOK
  BY DEF IInv
<1>8. TypeOK'
  BY <1>1, <1>2, <1>4, <1>7 DEF TypeOK
<1> QED BY <1>2, <1>4, <1>5, <1>6, <1>8
        DEF IInv, WalkMatchesBook, EveryStepCrossed, Walking, Succeeded,
            OnlyAmountErrors, CapOnlyAfterManyTicks

(* The answer is read off the locals, and the loop has ended for one of its reasons. *)
LEMMA ReturnKeepsIInv ==
  ASSUME IInv, Return
  PROVE  IInv'
<1> DEFINE used == call.amount - amount_remaining
           in   == IF call.isBaseInput THEN used ELSE amount_calculated
           out  == IF call.isBaseInput THEN amount_calculated ELSE used
<1>1. /\ pc = "return" \/ (pc = "loop" /\ ~LoopGuard)
      /\ pc' = "done" /\ call' = call
      /\ result' = [tag |-> "ok", amountIn |-> in, amountOut |-> out,
                    fee |-> fee_total, price |-> sp_current, tick |-> tick_current,
                    liquidity |-> liquidity, steps |-> steps]
      /\ sp_current' = sp_current /\ tick_current' = tick_current
      /\ liquidity' = liquidity /\ amount_remaining' = amount_remaining
      /\ amount_calculated' = amount_calculated /\ fee_total' = fee_total
      /\ steps' = steps
  BY DEF Return, Consumed, locals
<1> HIDE DEF in, out
<1>2. TypeOK /\ CallSane /\ LimitRespected /\ PriceOnBook /\ Accounted
  BY <1>1 DEF IInv
<1>3. TypeOK'
  BY <1>1, <1>2 DEF TypeOK
<1>4. CallSane' /\ LimitRespected' /\ PriceOnBook' /\ Accounted'
  BY <1>1, <1>2 DEF CallSane, WellFormedBook, Slices, InReach, LimitAhead, ResolvedLimit,
                    LimitRespected, SpLimit, PriceOnBook, PriceInTick, Accounted
<1>5. sp_current = SpLimit \/ amount_remaining = 0
  <2>1. CASE pc = "return"
    BY <2>1 DEF IInv
  <2>2. CASE pc = "loop" /\ ~LoopGuard
    <3>1. amount_remaining \in Nat
      BY <1>2, QAssumption, SMT DEF TypeOK, U64, U64Max
    <3> QED BY <2>2, <3>1, SMT DEF LoopGuard
  <2> QED BY <1>1, <2>1, <2>2
<1>6. AnswerTellsState'
  <2>1. (IF call.isBaseInput THEN in ELSE out) = used
    BY DEF in, out
  <2> QED BY <1>1, <1>5, <2>1 DEF AnswerTellsState, SpLimit
<1>7. result'.tag = "ok" /\ result' # Err("SqrtPriceLimitOverflow")
  BY <1>1 DEF Err
<1>8. OnlyAmountErrors' /\ CapOnlyAfterManyTicks'
  BY <1>7 DEF OnlyAmountErrors, CapOnlyAfterManyTicks
<1> QED BY <1>1, <1>3, <1>4, <1>6, <1>8
        DEF IInv, WalkMatchesBook, EveryStepCrossed, Walking, Succeeded

(* Whatever starts the call, its steps keep the invariant, and so does a     *)
(* step that leaves the call alone.                                          *)
LEMMA IterateKeepsIInv ==
  ASSUME IInv, Iterate \/ UNCHANGED vars
  PROVE  IInv'
<1>1. CASE StepCapReached
  BY <1>1, StepCapKeepsIInv
<1>2. ASSUME NEW t \in Ticks, IterationFails(t) PROVE IInv'
  BY <1>2, FailureKeepsIInv
<1>3. ASSUME NEW t \in Ticks, CrossTick(t) PROVE IInv'
  BY <1>3, CrossTickKeepsIInv
<1>4. ASSUME NEW t \in Ticks, StopAtLimit(t) PROVE IInv'
  BY <1>4, StopKeepsIInv
<1>5. ASSUME NEW t \in Ticks, StayInRange(t) PROVE IInv'
  BY <1>5, StayKeepsIInv
<1>6. CASE Return
  BY <1>6, ReturnKeepsIInv
<1>7. CASE UNCHANGED vars
  <2>1. /\ pc' = pc /\ call' = call /\ result' = result
        /\ sp_current' = sp_current /\ tick_current' = tick_current
        /\ liquidity' = liquidity /\ amount_remaining' = amount_remaining
        /\ amount_calculated' = amount_calculated /\ fee_total' = fee_total
        /\ steps' = steps
    BY <1>7 DEF vars, locals
  <2>2. SpLimit' = SpLimit /\ Passed' = Passed /\ Initialized' = Initialized
    BY <2>1 DEF SpLimit, Passed, Initialized
  <2>3. /\ CallSane' = CallSane /\ TypeOK' = TypeOK
        /\ LimitRespected' = LimitRespected /\ PriceOnBook' = PriceOnBook
        /\ Accounted' = Accounted
    BY <2>1, <2>2 DEF CallSane, TypeOK, LimitRespected, PriceOnBook, Accounted
  <2>4. /\ WalkMatchesBook' = WalkMatchesBook /\ EveryStepCrossed' = EveryStepCrossed
        /\ Succeeded' = Succeeded /\ AnswerTellsState' = AnswerTellsState
        /\ OnlyAmountErrors' = OnlyAmountErrors
        /\ CapOnlyAfterManyTicks' = CapOnlyAfterManyTicks
    BY <2>1, <2>2 DEF WalkMatchesBook, EveryStepCrossed, Walking, Succeeded,
                      AnswerTellsState, OnlyAmountErrors, CapOnlyAfterManyTicks
  <2> QED BY <2>1, <2>2, <2>3, <2>4 DEF IInv
<1> QED BY <1>1, <1>2, <1>3, <1>4, <1>5, <1>6, <1>7 DEF Iterate

(* The invariant is inductive. *)
LEMMA NextIInv ==
  CheckedLimits => (IInv /\ [Next]_vars => IInv')
BY CallKeepsIInv, IterateKeepsIInv DEF Next

-----------------------------------------------------------------------------
(* What every call keeps to *)

(* With the limits the on-chain instruction lets through, the invariant      *)
(* holds in every state of a call.                                           *)
THEOREM Invariance ==
  ASSUME CheckedLimits
  PROVE  Spec => []IInv
<1>1. Init => IInv
  BY InitIInv
<1>2. IInv /\ [Next]_vars => IInv'
  BY NextIInv
<1> QED BY <1>1, <1>2, PTL DEF Spec

(* Every variable of a call keeps its width: no price leaves a u128, no      *)
(* amount, total or fee leaves a u64, and the iterations stay under the cap. *)
THEOREM TypeCorrect ==
  ASSUME CheckedLimits
  PROVE  Spec => []TypeOK
<1>1. IInv => TypeOK
  BY DEF IInv
<1> QED BY <1>1, Invariance, PTL

(* Whatever the book, the running liquidity is that of the tick interval the *)
(* price is in, as long as there is an amount left to walk for.              *)
THEOREM LiquidityFollowsBook ==
  ASSUME CheckedLimits
  PROVE  Spec => []WalkMatchesBook
<1>1. IInv => WalkMatchesBook
  BY DEF IInv
<1> QED BY <1>1, Invariance, PTL

(* The price and the liquidity an answer gives belong together in the book.  *)
THEOREM AnswerOnBook ==
  ASSUME CheckedLimits
  PROVE  Spec => []ResultIsOnBook
<1>1. IInv => ResultIsOnBook
  <2> SUFFICES ASSUME IInv, Succeeded PROVE ResultIsOnBook
    BY DEF ResultIsOnBook
  <2>1. PriceOnBook /\ AnswerTellsState
    BY DEF IInv, Succeeded
  <2> QED BY <2>1 DEF ResultIsOnBook, PriceOnBook, AnswerTellsState
<1> QED BY <1>1, Invariance, PTL

(* No rounding of any step takes the price beyond the limit or backwards.    *)
THEOREM PriceRespectsLimit ==
  ASSUME CheckedLimits
  PROVE  Spec => []LimitRespected
<1>1. IInv => LimitRespected
  BY DEF IInv, LimitRespected
<1> QED BY <1>1, Invariance, PTL

(* An answer short of the limit has used exactly the amount specified.       *)
THEOREM AmountIsUsedUp ==
  ASSUME CheckedLimits
  PROVE  Spec => []SpecifiedAmountIsMet
<1>1. IInv => SpecifiedAmountIsMet
  <2> SUFFICES ASSUME IInv, Succeeded PROVE SpecifiedAmountIsMet
    BY DEF SpecifiedAmountIsMet
  <2> DEFINE used == IF call.isBaseInput THEN result.amountIn ELSE result.amountOut
  <2>1. TypeOK /\ CallSane /\ AnswerTellsState
    BY DEF IInv, Succeeded
  <2>2. call.amount \in Nat /\ amount_remaining \in Nat
    <3>1. call.amount \in U64 /\ amount_remaining \in U64
      BY <2>1, SwapFullAssumption DEF CallSane, TypeOK
    <3> QED BY <3>1, QAssumption, SMT DEF U64, U64Max
  <2>3. used = call.amount - amount_remaining /\ result.price = sp_current
    BY <2>1 DEF AnswerTellsState
  <2> HIDE DEF used
  <2>4. used <= call.amount
    BY <2>2, <2>3, SMT
  <2>5. result.price # SpLimit => used = call.amount
    <3> SUFFICES ASSUME result.price # SpLimit PROVE used = call.amount
      OBVIOUS
    <3>1. amount_remaining = 0
      BY <2>1, <2>3 DEF AnswerTellsState
    <3> QED BY <2>2, <2>3, <3>1, SMT
  <2> QED BY <2>4, <2>5 DEF SpecifiedAmountIsMet, used
<1> QED BY <1>1, Invariance, PTL

(* Over any number of iterations the fee of an exact input is at least       *)
(* fee_rate of the gross input.                                              *)
THEOREM FeeKeepsRate ==
  ASSUME CheckedLimits
  PROVE  Spec => []FeeTotalAtLeastRate
<1>1. IInv => FeeTotalAtLeastRate
  BY DEF IInv, Succeeded, FeeTotalAtLeastRate, AnswerTellsState, Accounted
<1> QED BY <1>1, Invariance, PTL

(* The step cap is met only after MAX_STEPS initialized ticks lay between    *)
(* the price the call started at and the one it had reached.                 *)
THEOREM CapAfterManyTicks ==
  ASSUME CheckedLimits
  PROVE  Spec => []CapOnlyAfterManyTicks
<1>1. IInv => CapOnlyAfterManyTicks
  BY DEF IInv
<1> QED BY <1>1, Invariance, PTL

(* A call fails only for an amount that does not fit a u64 or for the cap.   *)
THEOREM FailsForAmountsOnly ==
  ASSUME CheckedLimits
  PROVE  Spec => []OnlyAmountErrors
<1>1. IInv => OnlyAmountErrors
  BY DEF IInv
<1> QED BY <1>1, Invariance, PTL

(* Every iteration moves the price and the tick in the direction of the swap *)
(* only, and a crossing moves the tick strictly: none is crossed twice.      *)
THEOREM NeverTurnsBack ==
  ASSUME CheckedLimits
  PROVE  Spec => WalksForward
<1> DEFINE Forward ==
      steps' = steps + 1 =>
        IF call.zeroForOne
          THEN /\ sp_current' <= sp_current
               /\ pc' = "loop" /\ amount_remaining' > 0 => tick_current' < tick_current
          ELSE /\ sp_current' >= sp_current
               /\ pc' = "loop" /\ amount_remaining' > 0 => tick_current' > tick_current
<1>1. IInv /\ [Next]_vars => [Forward]_vars
  <2> SUFFICES ASSUME IInv, Next, steps' = steps + 1 PROVE Forward
    OBVIOUS
  <2>1. steps \in Nat /\ steps' # steps
    <3>1. steps \in 0 .. MAX_STEPS
      BY DEF IInv, TypeOK
    <3> QED BY <3>1, SwapFullAssumption, SMT
  <2>2. ASSUME NEW t \in Ticks, NEW s \in {StepTo(t)},
               Iterating(t), call' = call, Failure(s, t).tag = "ok", Account(s)
        PROVE  IF call.zeroForOne THEN sp_current' <= sp_current
                                  ELSE sp_current' >= sp_current
    <3>1. s = StepTo(t) /\ pc = "loop" /\ LoopGuard /\ IsNextTick(t) /\ steps < MAX_STEPS
      BY <2>2 DEF Iterating
    <3>2. /\ AheadOf(sp_current, sp_current', call.zeroForOne)
          /\ sp_current' \in Int
      BY <2>2, <3>1, Progress
    <3>3. sp_current \in Int /\ call.zeroForOne \in BOOLEAN
      BY <3>1, QAssumption, SMT DEF IInv, TypeOK, CallSane, U128, U128Max
    <3> QED BY <3>2, <3>3, SMT DEF AheadOf
  <2>3. ASSUME Call PROVE FALSE
    <3>1. steps' = 0 /\ steps = 0
      BY <2>3 DEF Call, Start, IInv
    <3> QED BY <2>1, <3>1
  <2>4. ASSUME StepCapReached \/ Return \/ \E t \in Ticks : IterationFails(t) PROVE FALSE
    <3>1. steps' = steps
      BY <2>4 DEF StepCapReached, Return, IterationFails, locals
    <3> QED BY <2>1, <3>1
  <2>5. ASSUME NEW t \in Ticks, CrossTick(t) PROVE Forward
    <3>1. PICK s \in {StepTo(t)} : Failure(s, t).tag = "ok" /\ AtNextTick(s, t) /\ Account(s)
      BY <2>5 DEF CrossTick
    <3>2. /\ Iterating(t) /\ pc = "loop" /\ LoopGuard /\ IsNextTick(t) /\ call' = call
          /\ tick_current' = TickAfterCrossing(t)
      BY <2>5 DEF CrossTick, Iterating
    <3>3. /\ tick_current' \in CurrentTicks
          /\ IF call.zeroForOne THEN tick_current' < tick_current
                                ELSE tick_current < tick_current'
      BY <3>1, <3>2, CrossFacts DEF AtNextTick
    <3>4. tick_current \in Int /\ tick_current' \in Int /\ call.zeroForOne \in BOOLEAN
      BY <3>2, <3>3, TickDomain DEF IInv, TypeOK, CallSane
    <3>5. ~call.zeroForOne => tick_current' > tick_current
      BY <3>3, <3>4, SMT
    <3> QED BY <2>2, <3>1, <3>2, <3>3, <3>5
  <2>6. ASSUME NEW t \in Ticks, StopAtLimit(t) PROVE Forward
    <3>1. PICK s \in {StepTo(t)} : Failure(s, t).tag = "ok" /\ Account(s)
      BY <2>6 DEF StopAtLimit
    <3>2. Iterating(t) /\ call' = call /\ pc' = "return"
      BY <2>6 DEF StopAtLimit
    <3> QED BY <2>2, <3>1, <3>2
  <2>7. ASSUME NEW t \in Ticks, StayInRange(t) PROVE Forward
    <3>1. PICK s \in {StepTo(t)} :
            Failure(s, t).tag = "ok" /\ s.next # TargetPrice(t) /\ Account(s)
      BY <2>7 DEF StayInRange
    <3>2. Iterating(t) /\ call' = call /\ pc = "loop" /\ LoopGuard /\ IsNextTick(t)
          /\ steps < MAX_STEPS
      BY <2>7 DEF StayInRange, Iterating
    <3>3. s = StepTo(t)
      OBVIOUS
    <3>4. amount_remaining' = 0
      BY <3>1, <3>2, <3>3, Progress
    <3>5. ~(amount_remaining' > 0)
      BY <3>4, SMT
    <3> QED BY <2>2, <3>1, <3>2, <3>5
  <2> QED BY <2>3, <2>4, <2>5, <2>6, <2>7 DEF Next, Iterate
<1> QED BY <1>1, Invariance, PTL DEF Spec, WalksForward

-----------------------------------------------------------------------------
(* The refinement: an iteration that goes on is a Trade, a return an answer *)

Phase == CASE pc = "idle" -> "idle" [] pc \in {"loop", "return"} -> "running"
           [] pc = "done" -> "answered"

LimitInForce == IF pc = "idle" THEN 0 ELSE SpLimit

Paid == IF pc = "idle" THEN 0
        ELSE IF call.isBaseInput THEN Consumed ELSE amount_calculated

Got == IF pc = "idle" THEN 0
       ELSE IF call.isBaseInput THEN amount_calculated ELSE Consumed

(* The phase of the abstract swap is told by pc. *)
LEMMA PhaseOf ==
  /\ pc = "idle" => Phase = "idle"
  /\ pc = "loop" \/ pc = "return" => Phase = "running"
  /\ pc = "done" => Phase = "answered"
<1>1. pc = "idle" => Phase = "idle"
  BY Zenon DEF Phase
<1>2. pc = "loop" \/ pc = "return" => Phase = "running"
  <2>1. ASSUME pc = "loop" \/ pc = "return"
        PROVE  pc \in {"loop", "return"} /\ ~(pc = "idle") /\ ~(pc = "done")
    BY <2>1
  <2> QED BY <2>1, Zenon DEF Phase
<1>3. pc = "done" => Phase = "answered"
  <2>1. ASSUME pc = "done"
        PROVE  ~(pc \in {"loop", "return"}) /\ ~(pc = "idle")
    BY <2>1
  <2> QED BY <2>1, Zenon DEF Phase
<1> QED BY <1>1, <1>2, <1>3

-----------------------------------------------------------------------------
(* What a step pays for *)

(* A fee that is its share of the gross input leaves the net input covered. *)
LEMMA NetInput ==
  ASSUME NEW D \in Nat, NEW f \in Nat, NEW fee \in Nat, NEW in \in Nat, f <= D,
         fee * (D - f) >= in * f
  PROVE  (in + fee) * (D - f) >= in * D /\ (in + fee) * (D - f) \in Nat
<1>1. (in + fee) * (D - f) = in * D - in * f + fee * (D - f)
  BY SMT
<1>2. in * D \in Nat /\ in * f \in Nat /\ fee * (D - f) \in Nat
  BY ProductNat, SMT
<1> DEFINE a == in * D
           b == in * f
           c == fee * (D - f)
<1>3. a \in Nat /\ b \in Nat /\ c \in Nat /\ c >= b /\ (in + fee) * (D - f) = a - b + c
  BY <1>1, <1>2
<1> HIDE DEF a, b, c
<1>4. a - b + c >= a /\ a - b + c \in Nat
  BY <1>3, SMT
<1> QED BY <1>3, <1>4 DEF a

(* net covers D times in, so it covers D times what in covers. *)
LEMMA CoversScaled ==
  ASSUME NEW D \in Nat, NEW net \in Nat, NEW in \in Nat, NEW m \in Nat, NEW w \in Nat,
         net >= in * D, w <= in * m
  PROVE  D * w <= net * m
<1>1. D * w <= D * (in * m)
  BY ProductNat, ProductMonotone, SMT
<1>2. (in * D) * m <= net * m
  BY ProductNat, ProductMonotone, SMT
<1>3. D * (in * m) = (in * D) * m
  BY SMT
<1>4. D * w \in Int /\ (in * D) * m \in Int /\ net * m \in Int
  BY ProductNat, SMT
<1> QED BY <1>1, <1>2, <1>3, <1>4, SMT

(* Less than what m divides w into is no more than w. *)
LEMMA PaysAtMost ==
  ASSUME NEW out \in Nat, NEW amount \in Nat, NEW m \in Nat, NEW w \in Nat,
         out <= amount, amount * m <= w
  PROVE  out * m <= w
<1>1. out * m <= amount * m
  BY ProductMonotone, SMT
<1>2. out * m \in Int /\ amount * m \in Int
  BY SMT
<1> QED BY <1>1, <1>2, SMT

(* Before the fee: a step takes what the running liquidity is worth between  *)
(* its prices or more, and gives that or less.                               *)
LEMMA StepExchanges ==
  ASSUME IInv, LoopGuard, pc = "loop", NEW t \in Ticks, IsNextTick(t),
         NEW s, s = StepTo(t), s.tag = "ok"
  PROVE  LET lo == LowerOf(sp_current, s.next)
             hi == UpperOf(sp_current, s.next)
             L  == liquidity
         IN  /\ lo \in Nat \ {0} /\ hi \in Nat \ {0} /\ lo <= hi /\ L \in Nat
             /\ s.amountIn \in Nat /\ s.amountOut \in Nat
             /\ IF call.zeroForOne
                  THEN /\ lo = s.next /\ hi = sp_current
                       /\ (L * Q) * (hi - lo) <= s.amountIn * (lo * hi)
                       /\ s.amountOut * Q <= L * (hi - lo)
                  ELSE /\ lo = sp_current /\ hi = s.next
                       /\ L * (hi - lo) <= s.amountIn * Q
                       /\ s.amountOut * (lo * hi) <= (L * Q) * (hi - lo)
<1> DEFINE lo == LowerOf(sp_current, s.next)
           hi == UpperOf(sp_current, s.next)
           L  == liquidity
<1>1. /\ CallSane /\ call.zeroForOne \in BOOLEAN
      /\ L \in U128 /\ sp_current \in Prices128
  BY TargetFacts DEF IInv, TypeOK, CallSane
<1>2. StepSound(s, sp_current, TargetPrice(t), L, amount_remaining, call.feeRate,
                call.isBaseInput, call.zeroForOne)
  BY IterationFacts
<1>3. /\ s.next \in Prices128 /\ AheadOf(sp_current, s.next, call.zeroForOne)
      /\ s.amountIn = AmountIn(sp_current, s.next, L, call.zeroForOne)
      /\ s.amountOut <= AmountOut(sp_current, s.next, L, call.zeroForOne)
      /\ s.amountIn \in U64 /\ s.amountOut \in U64
  BY <1>2 DEF StepSound
<1>4. /\ s.amountIn \in Nat /\ s.amountOut \in Nat /\ L \in Nat
      /\ Q \in Nat /\ sp_current \in Nat \ {0} /\ s.next \in Nat \ {0}
  BY <1>1, <1>3, QAssumption, SMT DEF U64, U64Max, U128, U128Max, Prices128
<1>5. CASE call.zeroForOne
  <2>1. lo = s.next /\ hi = sp_current /\ lo <= hi
    BY <1>3, <1>4, <1>5, SMT DEF AheadOf, LowerOf, UpperOf
  <2> HIDE DEF lo, hi
  <2>2. /\ lo \in Nat \ {0} /\ hi \in Nat \ {0}
        /\ s.amountIn = DeltaAmount0(lo, hi, L, TRUE)
        /\ s.amountOut <= DeltaAmount1(lo, hi, L, FALSE)
    BY <1>3, <1>4, <1>5, <2>1 DEF AmountIn, AmountOut
  <2>3. (L * Q) * (hi - lo) <= s.amountIn * (lo * hi)
    BY <1>4, <2>1, <2>2, Range0
  <2>4. s.amountOut * Q <= L * (hi - lo)
    <3>1. lo \in Nat /\ hi \in Nat /\ L * (hi - lo) \in Nat
      BY <1>4, <2>1, <2>2, ProductNat, SMT
    <3>2. /\ DeltaAmount1(lo, hi, L, FALSE) * Q <= L * (hi - lo)
          /\ DeltaAmount1(lo, hi, L, FALSE) \in Nat
      BY <1>4, <2>1, <3>1, Range1
    <3> QED BY <1>4, <2>2, <3>1, <3>2, PaysAtMost
  <2> QED BY <1>4, <1>5, <2>1, <2>2, <2>3, <2>4 DEF lo, hi
<1>6. CASE ~call.zeroForOne
  <2>1. lo = sp_current /\ hi = s.next /\ lo <= hi
    BY <1>3, <1>4, <1>6, SMT DEF AheadOf, LowerOf, UpperOf
  <2> HIDE DEF lo, hi
  <2>2. /\ lo \in Nat \ {0} /\ hi \in Nat \ {0}
        /\ s.amountIn = DeltaAmount1(lo, hi, L, TRUE)
        /\ s.amountOut <= DeltaAmount0(lo, hi, L, FALSE)
    BY <1>3, <1>4, <1>6, <2>1 DEF AmountIn, AmountOut
  <2>3. L * (hi - lo) <= s.amountIn * Q
    <3>1. lo \in Nat /\ hi \in Nat
      BY <2>2
    <3> QED BY <1>4, <2>1, <2>2, <3>1, Range1
  <2>4. s.amountOut * (lo * hi) <= (L * Q) * (hi - lo)
    <3>1. lo * hi \in Nat /\ (L * Q) * (hi - lo) \in Nat
      <4>1. L * Q \in Nat /\ hi - lo \in Nat /\ lo * hi \in Nat
        BY <1>4, <2>1, <2>2, ProductNat, SMT
      <4> QED BY <4>1, ProductNat
    <3>2. /\ DeltaAmount0(lo, hi, L, FALSE) * (lo * hi) <= (L * Q) * (hi - lo)
          /\ DeltaAmount0(lo, hi, L, FALSE) \in Nat
      BY <1>4, <2>1, <2>2, Range0
    <3> QED BY <1>4, <2>2, <3>1, <3>2, PaysAtMost
  <2> QED BY <1>4, <1>6, <2>1, <2>2, <2>3, <2>4 DEF lo, hi
<1> QED BY <1>1, <1>5, <1>6

(* A step covers what the curve asks for its move, and pays no more than the *)
(* curve gives for it.                                                       *)
LEMMA StepPays ==
  ASSUME IInv, LoopGuard, pc = "loop", NEW t \in Ticks, IsNextTick(t),
         NEW s, s = StepTo(t), s.tag = "ok"
  PROVE  Curve!PaysForCurve(LowerOf(sp_current, s.next), UpperOf(sp_current, s.next),
                            liquidity, s.amountIn + s.fee, s.amountOut)
<1> DEFINE D   == FEE_RATE_DENOMINATOR_VALUE
           f   == call.feeRate
           lo  == LowerOf(sp_current, s.next)
           hi  == UpperOf(sp_current, s.next)
           L   == liquidity
           net == (s.amountIn + s.fee) * (D - f)
<1>1. CallSane /\ call.zeroForOne \in BOOLEAN
  BY DEF IInv, CallSane
<1>2. /\ D \in Nat /\ f \in Nat /\ f <= D
  <2>1. f \in 0 .. D - 1
    BY <1>1, SwapFullAssumption DEF CallSane
  <2> QED BY <2>1, FeeDenominatorAssumption, SMT
<1>3. /\ lo \in Nat \ {0} /\ hi \in Nat \ {0} /\ lo <= hi /\ L \in Nat
      /\ s.amountIn \in Nat /\ s.amountOut \in Nat
      /\ IF call.zeroForOne
           THEN /\ (L * Q) * (hi - lo) <= s.amountIn * (lo * hi)
                /\ s.amountOut * Q <= L * (hi - lo)
           ELSE /\ L * (hi - lo) <= s.amountIn * Q
                /\ s.amountOut * (lo * hi) <= (L * Q) * (hi - lo)
  BY <1>1, StepExchanges
<1>4. s.fee \in Nat /\ Q \in Nat
  BY StepAccount, QAssumption
<1>5. s.fee * (D - f) >= s.amountIn * f
  BY IterationFacts DEF StepSound
<1>6. net >= s.amountIn * D /\ net \in Nat
  BY <1>2, <1>3, <1>4, <1>5, NetInput
<1> HIDE DEF D, f, net, lo, hi
<1>7. hi - lo \in Nat /\ lo * hi \in Nat /\ L * Q \in Nat
  BY <1>3, <1>4, ProductNat, SMT
<1>8. L * (hi - lo) \in Nat /\ (L * Q) * (hi - lo) \in Nat
  BY <1>3, <1>7, ProductNat
<1>9. CASE call.zeroForOne
  <2>1. D * ((L * Q) * (hi - lo)) <= net * (lo * hi)
    BY <1>2, <1>3, <1>6, <1>7, <1>8, <1>9, CoversScaled
  <2>2. net * lo * hi = net * (lo * hi) /\ D * L * Q * (hi - lo) = D * ((L * Q) * (hi - lo))
    BY <1>2, <1>3, <1>4, <1>6, SMT
  <2>3. net * lo * hi >= D * L * Q * (hi - lo)
    <3>1. D * ((L * Q) * (hi - lo)) \in Int /\ net * (lo * hi) \in Int
      BY <1>2, <1>6, <1>7, <1>8, SMT
    <3> QED BY <2>1, <2>2, <3>1, SMT
  <2> QED BY <1>3, <1>9, <2>3 DEF Curve!PaysForCurve, D, f, net, lo, hi
<1>10. CASE ~call.zeroForOne
  <2>1. D * (L * (hi - lo)) <= net * Q
    BY <1>2, <1>3, <1>4, <1>6, <1>8, <1>10, CoversScaled
  <2>2. /\ D * L * (hi - lo) = D * (L * (hi - lo))
        /\ s.amountOut * lo * hi = s.amountOut * (lo * hi)
        /\ L * Q * (hi - lo) = (L * Q) * (hi - lo)
    BY <1>2, <1>3, <1>4, SMT
  <2>3. net * Q >= D * L * (hi - lo)
    <3>1. D * (L * (hi - lo)) \in Int /\ net * Q \in Int
      BY <1>2, <1>4, <1>6, <1>8, SMT
    <3> QED BY <2>1, <2>2, <3>1, SMT
  <2> QED BY <1>3, <1>10, <2>2, <2>3 DEF Curve!PaysForCurve, D, f, net, lo, hi
<1> QED BY <1>1, <1>9, <1>10

(* Every tick interval the move goes through has the running liquidity. *)
LEMMA OneLiquidityBetween ==
  ASSUME IInv, LoopGuard, pc = "loop", NEW t \in Ticks, IsNextTick(t),
         NEW q \in Int, AheadOf(sp_current, q, call.zeroForOne),
         AheadOf(q, TargetPrice(t), call.zeroForOne),
         NEW u \in Curve!Between(LowerOf(sp_current, q), UpperOf(sp_current, q))
  PROVE  call.book.active[u] = liquidity
<1> DEFINE lo == LowerOf(sp_current, q)
           hi == UpperOf(sp_current, q)
<1>1. CallSane /\ LimitRespected /\ sp_current \in U128 /\ call.zeroForOne \in BOOLEAN
  BY DEF IInv, TypeOK, CallSane
<1>2. /\ sp_current \in Int
      /\ MIN_SQRT_PRICE_X64 < sp_current /\ sp_current < MAX_SQRT_PRICE_X64
      /\ MIN_SQRT_PRICE_X64 \in Nat /\ MAX_SQRT_PRICE_X64 \in Nat
      /\ SpLimit \in Int /\ MIN_SQRT_PRICE_X64 < SpLimit /\ SpLimit < MAX_SQRT_PRICE_X64
  BY <1>1, PriceInside, LimitFacts, QAssumption, SMT DEF U128, U128Max
<1>3. MIN_SQRT_PRICE_X64 < q /\ q < MAX_SQRT_PRICE_X64
  <2>1. AheadOf(TargetPrice(t), SpLimit, call.zeroForOne) /\ TargetPrice(t) \in Int
    BY TargetFacts, QAssumption, SMT DEF Prices128, U128Max
  <2> QED BY <1>1, <1>2, <2>1, SMT DEF AheadOf
<1>4. /\ lo = IF call.zeroForOne THEN q ELSE sp_current
      /\ hi = IF call.zeroForOne THEN sp_current ELSE q
  BY <1>1, <1>2, SMT DEF AheadOf, LowerOf, UpperOf
<1>5. /\ u \in CurrentTicks
      /\ u < MAX_TICK  => lo < SqrtPriceAt[u + 1]
      /\ u >= MIN_TICK => SqrtPriceAt[u] < hi
  BY DEF Curve!Between, Curve!CurrentTicks, Curve!MIN_TICK, CurrentTicks, MIN_TICK
<1> HIDE DEF lo, hi
<1>6. /\ u \in Int /\ MIN_TICK - 1 <= u /\ u <= MAX_TICK
      /\ MIN_TICK \in Int /\ MAX_TICK \in Int /\ MIN_TICK < MAX_TICK
  BY <1>5, TickDomain, SMT DEF CurrentTicks
<1>7. u # MIN_TICK - 1
  <2> SUFFICES ASSUME u = MIN_TICK - 1 PROVE FALSE
    OBVIOUS
  <2>1. u + 1 = MIN_TICK /\ u < MAX_TICK
    BY <1>6, SMT
  <2>2. lo < MIN_SQRT_PRICE_X64
    BY <1>5, <2>1 DEF MIN_SQRT_PRICE_X64
  <2> QED BY <1>1, <1>2, <1>3, <1>4, <2>2, SMT
<1>8. u # MAX_TICK
  <2> SUFFICES ASSUME u = MAX_TICK PROVE FALSE
    OBVIOUS
  <2>1. u >= MIN_TICK
    BY <1>6, SMT
  <2>2. MAX_SQRT_PRICE_X64 < hi
    BY <1>5, <2>1 DEF MAX_SQRT_PRICE_X64
  <2> QED BY <1>1, <1>2, <1>3, <1>4, <2>2, SMT
<1>9. /\ u \in Ticks /\ u + 1 \in Ticks /\ u < MAX_TICK /\ u >= MIN_TICK
  BY <1>6, <1>7, <1>8, SMT DEF Ticks
<1>10. IF call.zeroForOne THEN q < SqrtPriceAt[u + 1] /\ SqrtPriceAt[u] < sp_current
                          ELSE sp_current < SqrtPriceAt[u + 1] /\ SqrtPriceAt[u] < q
  BY <1>4, <1>5, <1>9
<1> QED BY <1>9, <1>10, SameLiquidity

-----------------------------------------------------------------------------
(* Step by step *)

(* What an iteration that goes on adds to what is paid, got and charged.     *)
LEMMA StepTotals ==
  ASSUME OverflowChecks, IInv, LoopGuard, pc = "loop", steps < MAX_STEPS,
         NEW t \in Ticks, IsNextTick(t),
         NEW s, s = StepTo(t), Failure(s, t).tag = "ok", Account(s),
         call' = call, pc' = "loop" \/ pc' = "return"
  PROVE  /\ s.tag = "ok"
         /\ s.amountIn \in Nat /\ s.fee \in Nat /\ s.amountOut \in Nat
         /\ Paid \in Int /\ Paid' = Paid + (s.amountIn + s.fee)
         /\ Got \in Int /\ Got' = Got + s.amountOut
         /\ fee_total \in Int /\ fee_total' = fee_total + s.fee
         /\ (IF call.isBaseInput THEN Paid' ELSE Got') <= call.amount
<1>1. CallSane /\ call.isBaseInput \in BOOLEAN
  BY DEF IInv, CallSane
<1>2. amount_remaining' \in U64
  BY Progress
<1>3. s.tag = "ok" /\ ~GrossInPanics(s)
  BY GoesOn
<1>4. /\ s.amountIn \in Nat /\ s.fee \in Nat /\ Spent(s) \in Nat /\ Gained(s) \in Nat
      /\ amount_remaining \in Nat /\ amount_calculated \in Nat /\ fee_total \in Nat
      /\ GrossIn(s) = s.amountIn + s.fee
  BY <1>3, StepAccount
<1>5. /\ amount_remaining' = amount_remaining - Spent(s)
      /\ amount_calculated' = amount_calculated + Gained(s)
      /\ fee_total' = fee_total + s.fee
  BY DEF Account
<1>6. call.amount \in Nat
  <2>1. call.amount \in U64
    BY <1>1, SwapFullAssumption DEF CallSane
  <2> QED BY <2>1, QAssumption, SMT DEF U64, U64Max
<1>7. /\ Paid = IF call.isBaseInput THEN Consumed ELSE amount_calculated
      /\ Got = IF call.isBaseInput THEN amount_calculated ELSE Consumed
      /\ Paid' = IF call.isBaseInput THEN Consumed' ELSE amount_calculated'
      /\ Got' = IF call.isBaseInput THEN amount_calculated' ELSE Consumed'
  BY DEF Paid, Got
<1>8. /\ Consumed \in Int /\ Consumed' = Consumed + Spent(s) /\ Consumed' <= call.amount
  <2>1. Consumed = call.amount - amount_remaining /\ Consumed' = call.amount - amount_remaining'
    BY DEF Consumed
  <2>2. amount_remaining' \in Nat
    BY <1>2, QAssumption, SMT DEF U64, U64Max
  <2> QED BY <1>4, <1>5, <1>6, <2>1, <2>2, SMT
<1>9. s.amountOut \in Nat /\ \A n \in Nat : n \in Int
  BY <1>3, StepExchanges, SMT
<1>10. CASE call.isBaseInput
  BY <1>3, <1>4, <1>5, <1>7, <1>8, <1>9, <1>10 DEF Spent, Gained
<1>11. CASE ~call.isBaseInput
  BY <1>3, <1>4, <1>5, <1>7, <1>8, <1>9, <1>11 DEF Spent, Gained
<1> QED BY <1>1, <1>10, <1>11

(* An iteration that goes on trades along one stretch of the curve. *)
LEMMA IterationTrades ==
  ASSUME OverflowChecks, IInv, LoopGuard, pc = "loop", steps < MAX_STEPS,
         NEW t \in Ticks, IsNextTick(t),
         NEW s, s = StepTo(t), Failure(s, t).tag = "ok", Account(s),
         call' = call, result' = result, pc' = "loop" \/ pc' = "return"
  PROVE  Curve!Trade
<1>1. /\ CallSane /\ LimitRespected /\ call.zeroForOne \in BOOLEAN
      /\ tick_current \in CurrentTicks
  BY DEF IInv, TypeOK, CallSane
<1>2. /\ sp_current' = s.next /\ sp_current' \in Int
      /\ AheadOf(sp_current, sp_current', call.zeroForOne)
      /\ AheadOf(sp_current', TargetPrice(t), call.zeroForOne)
      /\ LimitRespected'
  BY Progress
<1>3. /\ s.tag = "ok"
      /\ s.amountIn \in Nat /\ s.fee \in Nat /\ s.amountOut \in Nat
      /\ Paid \in Int /\ Paid' = Paid + (s.amountIn + s.fee)
      /\ Got \in Int /\ Got' = Got + s.amountOut
      /\ (IF call.isBaseInput THEN Paid' ELSE Got') <= call.amount
  BY StepTotals
<1>4. /\ Paid' >= Paid /\ Got' >= Got
      /\ (IF call.isBaseInput THEN Paid' ELSE Got') <= call.amount
      /\ Paid' - Paid = s.amountIn + s.fee /\ Got' - Got = s.amountOut
  <2>1. /\ Paid' >= Paid /\ Got' >= Got
        /\ Paid' - Paid = s.amountIn + s.fee /\ Got' - Got = s.amountOut
    BY <1>3, SMT
  <2> QED BY <1>3, <2>1
<1>5. Phase = "running" /\ Phase' = "running"
  <2>1. Phase = "running"
    BY PhaseOf
  <2>2. (pc = "loop" \/ pc = "return" => Phase = "running")'
    BY PhaseOf, PTL
  <2> QED BY <2>1, <2>2
<1>6. LimitInForce = SpLimit /\ LimitInForce' = SpLimit
  BY DEF LimitInForce, SpLimit
<1>7. IF call.zeroForOne THEN SpLimit <= sp_current' /\ sp_current' <= sp_current
                          ELSE sp_current <= sp_current' /\ sp_current' <= SpLimit
  BY <1>1, <1>2 DEF LimitRespected, AheadOf, SpLimit
<1>8. /\ liquidity \in {call.book.active[u] : u \in CurrentTicks}
       /\ \A u \in Curve!Between(LowerOf(sp_current, sp_current'), UpperOf(sp_current, sp_current')) :
            call.book.active[u] = liquidity
  BY <1>1, <1>2, NextTickAhead, OneLiquidityBetween
<1>9. Curve!PaysForCurve(LowerOf(sp_current, sp_current'), UpperOf(sp_current, sp_current'),
                          liquidity, Paid' - Paid, Got' - Got)
  BY <1>2, <1>3, <1>4, StepPays
<1> QED BY <1>4, <1>5, <1>6, <1>7, <1>8, <1>9
        DEF Curve!Trade, Curve!Specified, Curve!CurrentTicks, Curve!MIN_TICK, CurrentTicks,
            MIN_TICK, Curve!LowerOf, Curve!UpperOf, LowerOf, UpperOf,
            Phase, LimitInForce, Paid, Got

(* A call on a well-formed book is a request of the same trade. *)
LEMMA StartRequests ==
  ASSUME pc = "idle", NEW book, WellFormedBook(book), NEW price, NEW tick,
         NEW feeRate, NEW amount \in Amounts, NEW limit,
         NEW isBaseInput, NEW zeroForOne,
         Start(book, price, tick, feeRate, amount, limit, isBaseInput, zeroForOne)
  PROVE  Curve!Request
<1>1. /\ pc' = "loop"
      /\ call'.book = book /\ call'.price = price /\ call'.amount = amount
      /\ sp_current' = price /\ amount_remaining' = amount /\ amount_calculated' = 0
  BY DEF Start
<1>2. WellFormedBook(call'.book)
  BY <1>1
<1>3. Phase = "idle" /\ Phase' = "running"
  <2>1. (pc = "loop" \/ pc = "return" => Phase = "running")'
    BY PhaseOf, PTL
  <2> QED BY <1>1, <2>1, PhaseOf
<1>4. call'.limit # 0 => LimitInForce' = call'.limit
  BY <1>1 DEF LimitInForce, SpLimit, ResolvedLimit
<1>5. Paid' = 0 /\ Got' = 0
  <2>1. amount \in Int
    <3>1. amount \in U64
      BY SwapFullAssumption
    <3> QED BY <3>1, QAssumption, SMT DEF U64, U64Max
  <2>2. Consumed' = amount - amount /\ amount - amount = 0
    BY <1>1, <2>1, SMT DEF Consumed
  <2> QED BY <1>1, <2>2 DEF Paid, Got
<1> QED BY <1>1, <1>2, <1>3, <1>4, <1>5
        DEF Curve!Request, Curve!WellFormedBook, Curve!Ticks, Curve!CurrentTicks,
            Curve!MIN_TICK, Curve!U128, Curve!U128Max, WellFormedBook, Ticks, CurrentTicks,
            MIN_TICK, U128, U128Max, Phase, LimitInForce, Paid, Got

(* So is a call on the pools of the model. *)
LEMMA CallRequests ==
  ASSUME Call
  PROVE  Curve!Request
<1>1. PICK book \in Books, price \in Prices, tick \in CurrentTicks,
           feeRate \in FeeRates, amount \in Amounts, limit \in Limits,
           isBaseInput \in BOOLEAN, zeroForOne \in BOOLEAN :
        Start(book, price, tick, feeRate, amount, limit, isBaseInput, zeroForOne)
  BY DEF Call
<1>2. pc = "idle" /\ WellFormedBook(book)
  BY SwapFullAssumption DEF Call
<1> QED BY <1>1, <1>2, StartRequests

(* A call that ends leaves the price and the totals where they were. *)
LEMMA EndKeeps ==
  ASSUME IInv, pc # "idle", pc' = "done", call' = call, UNCHANGED locals
  PROVE  /\ pc # "done" => Phase = "running"
         /\ Phase' = "answered"
         /\ LimitInForce' = LimitInForce /\ Paid' = Paid /\ Got' = Got
<1>1. /\ sp_current' = sp_current /\ amount_remaining' = amount_remaining
      /\ amount_calculated' = amount_calculated
  BY DEF locals
<1>2. pc # "done" => Phase = "running"
  BY PhaseOf DEF IInv, TypeOK
<1>3. (pc = "done" => Phase = "answered")'
  BY PhaseOf, PTL
<1>4. LimitInForce' = LimitInForce /\ Paid' = Paid /\ Got' = Got
  BY <1>1 DEF LimitInForce, SpLimit, Paid, Got, Consumed
<1> QED BY <1>2, <1>3, <1>4

(* The cap and a failing iteration answer with a failure and trade nothing. *)
LEMMA FailureAnswers ==
  ASSUME IInv, StepCapReached \/ \E t \in Ticks : IterationFails(t)
  PROVE  Curve!AnswerFailure
<1>1. /\ pc = "loop" /\ pc' = "done" /\ call' = call /\ UNCHANGED locals
      /\ result'.tag # "ok"
  BY DEF StepCapReached, IterationFails, Iterating, Err
<1>2. /\ Phase = "running" /\ Phase' = "answered"
      /\ LimitInForce' = LimitInForce /\ Paid' = Paid /\ Got' = Got
  BY <1>1, EndKeeps
<1>3. sp_current' = sp_current
  BY <1>1 DEF locals
<1> QED BY <1>1, <1>2, <1>3
        DEF Curve!AnswerFailure, Phase, LimitInForce, Paid, Got

(* The loop returns when the amount is met or the limit reached, as AnswerOk asks. *)
LEMMA ReturnAnswers ==
  ASSUME IInv, Return
  PROVE  Curve!AnswerOk
<1>1. /\ pc = "return" \/ pc = "loop"
      /\ pc' = "done" /\ call' = call /\ UNCHANGED locals
  BY DEF Return
<1>2. /\ Phase = "running" /\ Phase' = "answered"
      /\ LimitInForce' = LimitInForce /\ Paid' = Paid /\ Got' = Got
  BY <1>1, EndKeeps
<1>3. /\ Paid = IF call.isBaseInput THEN Consumed ELSE amount_calculated
      /\ Got = IF call.isBaseInput THEN amount_calculated ELSE Consumed
      /\ LimitInForce = SpLimit
  BY <1>1 DEF Paid, Got, LimitInForce
<1>4. /\ result'.tag = "ok" /\ result'.price = sp_current
      /\ result'.amountIn = Paid /\ result'.amountOut = Got
  BY <1>3 DEF Return
<1>5. sp_current = LimitInForce \/ (IF call.isBaseInput THEN Paid ELSE Got) = call.amount
  <2>1. amount_remaining \in Nat /\ call.amount \in Nat
    <3>1. amount_remaining \in U64 /\ call.amount \in U64
      BY <1>1, SwapFullAssumption DEF IInv, TypeOK, CallSane
    <3> QED BY <3>1, QAssumption, SMT DEF U64, U64Max
  <2>2. sp_current = SpLimit \/ amount_remaining = 0
    <3>1. CASE pc = "return"
      BY <3>1 DEF IInv
    <3>2. CASE pc # "return"
      <4>1. ~LoopGuard
        BY <3>2 DEF Return
      <4> QED BY <2>1, <4>1, SMT DEF LoopGuard
    <3> QED BY <3>1, <3>2
  <2>3. amount_remaining = 0 => Consumed = call.amount
    BY <2>1, SMT DEF Consumed
  <2> QED BY <1>3, <2>2, <2>3
<1>6. sp_current' = sp_current
  BY <1>1 DEF locals
<1> QED BY <1>1, <1>2, <1>4, <1>5, <1>6
        DEF Curve!AnswerOk, Curve!Specified, Phase, LimitInForce, Paid, Got

(* Every step of a call is a step of the promise, or changes nothing of it. *)
LEMMA IterateKeepsPromise ==
  ASSUME OverflowChecks, IInv, Iterate \/ UNCHANGED vars
  PROVE  [Curve!Next]_(Curve!promise)
<1>1. CASE StepCapReached \/ \E t \in Ticks : IterationFails(t)
  BY <1>1, FailureAnswers DEF Curve!Next
<1>2. CASE Return
  BY <1>2, ReturnAnswers DEF Curve!Next
<1>3. ASSUME NEW t \in Ticks, CrossTick(t) \/ StopAtLimit(t) \/ StayInRange(t)
      PROVE  Curve!Trade
  <2>1. /\ Iterating(t) /\ call' = call /\ result' = result
        /\ pc' = pc \/ pc' = "return"
        /\ \E s \in {StepTo(t)} : Failure(s, t).tag = "ok" /\ Account(s)
    BY <1>3 DEF CrossTick, StopAtLimit, StayInRange
  <2>2. pc = "loop" /\ LoopGuard /\ steps < MAX_STEPS /\ IsNextTick(t)
    BY <2>1 DEF Iterating
  <2>3. PICK s \in {StepTo(t)} : Failure(s, t).tag = "ok" /\ Account(s)
    BY <2>1
  <2>4. s = StepTo(t)
    OBVIOUS
  <2> QED BY <2>1, <2>2, <2>3, <2>4, IterationTrades
<1>4. CASE UNCHANGED vars
  <2>1. /\ pc' = pc /\ call' = call /\ result' = result
        /\ sp_current' = sp_current /\ amount_remaining' = amount_remaining
        /\ amount_calculated' = amount_calculated
    BY <1>4 DEF vars, locals
  <2>2. UNCHANGED Curve!promise
    BY <2>1 DEF Curve!promise, Consumed, SpLimit
  <2> QED BY <2>2
<1>5. ASSUME NEW t \in Ticks, CrossTick(t) \/ StopAtLimit(t) \/ StayInRange(t)
      PROVE  Curve!Next
  BY <1>3, <1>5 DEF Curve!Next
<1> QED BY <1>1, <1>2, <1>4, <1>5 DEF Iterate

(* ... and so is the call itself. *)
LEMMA NextKeepsPromise ==
  CheckedLimits /\ OverflowChecks =>
    (IInv /\ [Next]_vars => [Curve!Next]_(Curve!promise))
BY CallRequests, IterateKeepsPromise DEF Next, Curve!Next

(* With overflow checks (without them a gross input that wraps is reported   *)
(* as less than was paid for) a swap over any number of ticks is the trade   *)
(* along the curve that CurveSwap promises.                                  *)
THEOREM Refinement ==
  ASSUME CheckedLimits, OverflowChecks
  PROVE  Spec => ImplementsCurveSwap
<1>1. Init => Curve!Init
  BY PhaseOf DEF Init, Curve!Init, Phase
<1>2. IInv /\ [Next]_vars => [Curve!Next]_(Curve!promise)
  BY NextKeepsPromise
<1>3. Spec => []IInv
  BY Invariance
<1> QED BY <1>1, <1>2, <1>3, PTL DEF Spec, ImplementsCurveSwap, Curve!Spec
=============================================================================
