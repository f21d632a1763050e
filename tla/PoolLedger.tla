------------------------------ MODULE PoolLedger ------------------------------
(***************************************************************************)
(* A pool kept by a caller of the library: owners add and remove           *)
(* liquidity, sized and priced by the position helpers, between swaps      *)
(* computed by compute_swap_full.  The library keeps no state; the pool's  *)
(* price, tick, active liquidity, positions and token accounts are the     *)
(* caller's (the on-chain program, or a simulator that replays it).        *)
(* Faulty_X is X with a mistake, used by no specification.                 *)
(*                                                                         *)
(* Fees are kept apart from the reserves, so that what owners deposited    *)
(* and what swaps exchanged has to pay them without any fee income.        *)
(***************************************************************************)
EXTENDS SwapFull, PositionAmounts

CONSTANTS
  Owners,
  Ranges,          \* <<tick_lower, tick_upper>>
  Offers,          \* <<amount_0, amount_1>> an owner is ready to deposit
  InitialPrices,
  MAX_OPERATIONS   \* bound on the operations of a behaviour

ASSUME PoolLedgerAssumption ==
  /\ Ranges \subseteq Ticks \X Ticks /\ \A r \in Ranges : r[1] < r[2]
  /\ Offers \subseteq U64 \X U64
  /\ InitialPrices \subseteq MIN_SQRT_PRICE_X64 + 1 .. MAX_SQRT_PRICE_X64 - 1
  /\ MAX_OPERATIONS \in Nat

(***************************************************************************)
(* Even over a single tick, a u64 of token 0 is worth no more liquidity    *)
(* than a u128 holds.  In the code's table neighbours are a factor 1.00005 *)
(* apart and below 2^97, so their product is below 2^112 differences.      *)
(***************************************************************************)
ASSUME TableSpacing ==
  \A t \in MIN_TICK .. MAX_TICK - 1 :
    SqrtPriceAt[t] * SqrtPriceAt[t + 1] <= U128Max * (SqrtPriceAt[t + 1] - SqrtPriceAt[t])

VARIABLES
  sqrt_price,   \* between swaps; sp_current is the price of the running one
  tick,
  active,       \* the pool's liquidity
  positions,    \* records of owner, lower, upper and liquidity
  reserve0,
  reserve1,
  operations

pool   == <<sqrt_price, tick, active, positions, reserve0, reserve1, operations>>
swap   == <<pc, call, locals, result>>
ledger == <<swap, pool>>

LedgerInit ==
  /\ Init
  /\ sqrt_price \in InitialPrices
  /\ tick \in {t \in Ticks : IsTickAtSqrtPrice(sqrt_price, t)}
  /\ active = 0 /\ positions = {}
  /\ reserve0 = 0 /\ reserve1 = 0
  /\ operations = 0

BetweenSwaps == pc = "idle" /\ operations < MAX_OPERATIONS

Covers(position, t) == position.lower <= t /\ t < position.upper

(* the liquidity of a range that is not active added all the same *)
Faulty_ActiveAfter(position, delta) == AddDelta(active, delta)

(* Liquidity changed in a range changes the pool's if the range is active *)
ActiveAfter(position, delta) ==
  IF Covers(position, tick) THEN AddDelta(active, delta) ELSE LiquidityOk(active)

Worth(position, delta) ==
  GetDeltaAmountsSigned(tick, sqrt_price, position.lower, position.upper, delta)

-----------------------------------------------------------------------------
(* Liquidity *)

Sizings == {"amounts", "amount0", "amount1"}

Minted(sizing, range, offer) ==
  LET a == SqrtPriceAt[range[1]]
      b == SqrtPriceAt[range[2]]
  IN  CASE sizing = "amounts" -> GetLiquidityFromAmounts(sqrt_price, a, b, offer[1], offer[2])
        [] sizing = "amount0" -> GetLiquidityFromSingleAmount0(sqrt_price, a, b, offer[1])
        [] sizing = "amount1" -> GetLiquidityFromSingleAmount1(sqrt_price, a, b, offer[2])

(* A sizing, price or account that fails leaves the pool as it was *)
OpenPosition(owner, sizing, range, offer) ==
  /\ BetweenSwaps
  /\ \A p \in positions : p.owner # owner
  /\ \E minted \in {Minted(sizing, range, offer)} :
       /\ minted.tag = "ok" /\ minted.liquidity > 0
       /\ LET position == [owner |-> owner, lower |-> range[1], upper |-> range[2],
                           liquidity |-> minted.liquidity]
              deposit  == Worth(position, minted.liquidity)
              added    == ActiveAfter(position, minted.liquidity)
          IN  /\ deposit.tag = "ok" /\ added.tag = "ok"
              /\ reserve0 + deposit.amount0 <= U64Max
              /\ reserve1 + deposit.amount1 <= U64Max
              /\ positions' = positions \cup {position}
              /\ active' = added.liquidity
              /\ reserve0' = reserve0 + deposit.amount0
              /\ reserve1' = reserve1 + deposit.amount1
  /\ operations' = operations + 1
  /\ UNCHANGED <<swap, sqrt_price, tick>>

RemoveLiquidity(position, part) ==
  /\ BetweenSwaps
  /\ LET payment == Worth(position, -part)
         left    == ActiveAfter(position, -part)
     IN  /\ payment.tag = "ok" /\ left.tag = "ok"
         /\ active' = left.liquidity
         /\ reserve0' = reserve0 - payment.amount0
         /\ reserve1' = reserve1 - payment.amount1
  /\ positions' = (positions \ {position})
                    \cup {p \in {[position EXCEPT !.liquidity = @ - part]} : p.liquidity > 0}
  /\ operations' = operations + 1
  /\ UNCHANGED <<swap, sqrt_price, tick>>

-----------------------------------------------------------------------------
(* Swaps *)

StartSwap(feeRate, amount, limit, isBaseInput, zeroForOne) ==
  /\ BetweenSwaps /\ positions # {}
  /\ Start(BookOf(positions), sqrt_price, tick, feeRate, amount, limit,
           isBaseInput, zeroForOne)
  /\ UNCHANGED pool

Walk == Iterate /\ UNCHANGED pool

NoSwap ==
  /\ pc' = "idle" /\ call' = NoCall /\ result' = NoResult
  /\ sp_current' = 0 /\ tick_current' = 0 /\ liquidity' = 0
  /\ amount_remaining' = 0 /\ amount_calculated' = 0
  /\ fee_total' = 0 /\ steps' = 0

In0 == IF call.zeroForOne THEN result.amountIn - result.fee ELSE -result.amountOut
In1 == IF call.zeroForOne THEN -result.amountOut ELSE result.amountIn - result.fee

AccountsTakeResult ==
  result.tag = "ok" /\ reserve0 + In0 <= U64Max /\ reserve1 + In1 <= U64Max

(***************************************************************************)
(* final_tick and final_liquidity need not belong to each other or to the  *)
(* final price: the caller looks the tick up from the price and takes the  *)
(* liquidity of the positions that cover it.                               *)
(***************************************************************************)
SettleSwap ==
  /\ pc = "done" /\ AccountsTakeResult
  /\ sqrt_price' = result.price
  /\ \E t \in Ticks : /\ IsTickAtSqrtPrice(result.price, t)
                      /\ tick' = t
                      /\ active' = ActiveAt(positions, t)
  /\ reserve0' = reserve0 + In0
  /\ reserve1' = reserve1 + In1
  /\ operations' = operations + 1
  /\ NoSwap
  /\ UNCHANGED positions

DropSwap ==
  /\ pc = "done" /\ ~AccountsTakeResult
  /\ operations' = operations + 1
  /\ NoSwap
  /\ UNCHANGED <<sqrt_price, tick, active, positions, reserve0, reserve1>>

LedgerNext ==
  \/ \E owner \in Owners, sizing \in Sizings, range \in Ranges, offer \in Offers :
       OpenPosition(owner, sizing, range, offer)
  \/ \E p \in positions : \E part \in {p.liquidity, p.liquidity \div 2} \ {0} :
       RemoveLiquidity(p, part)
  \/ \E feeRate \in FeeRates, amount \in Amounts, limit \in Limits,
        isBaseInput \in BOOLEAN, zeroForOne \in BOOLEAN :
       StartSwap(feeRate, amount, limit, isBaseInput, zeroForOne)
  \/ Walk
  \/ SettleSwap
  \/ DropSwap

LedgerSpec == LedgerInit /\ [][LedgerNext]_ledger

-----------------------------------------------------------------------------
(* Properties *)

(* Types of the pool; no reserve is ever overdrawn. *)
LedgerTypeOK ==
  /\ TypeOK
  /\ InPriceDomain(sqrt_price)
  /\ tick \in Ticks /\ PriceInTick(sqrt_price, tick)
  /\ active = ActiveAt(positions, tick)
  /\ \A p \in positions :
       p.owner \in Owners /\ <<p.lower, p.upper>> \in Ranges /\ p.liquidity \in U128 \ {0}
  /\ reserve0 \in U64 /\ reserve1 \in U64
  /\ operations \in 0 .. MAX_OPERATIONS

(***************************************************************************)
(* Whatever deposits, withdrawals and swaps came before, all owners can    *)
(* withdraw all their liquidity at the current price: no amount exceeds a  *)
(* u64 (the unwraps of get_delta_amounts_signed) and the reserves pay the  *)
(* sum, though each position was sized, priced and rounded on its own and  *)
(* the swaps were priced on the sum of them.                               *)
(***************************************************************************)
EveryoneCanWithdraw ==
  LET payment(p) == Worth(p, -p.liquidity)
  IN  /\ \A p \in positions : payment(p).tag = "ok"
      /\ MapThenSumSet(LAMBDA p : payment(p).amount0, positions) <= reserve0
      /\ MapThenSumSet(LAMBDA p : payment(p).amount1, positions) <= reserve1

(***************************************************************************)
(* At every price a swap leaves behind, the liquidity the helpers compute  *)
(* from an offer costs no more than the offer: get_liquidity_from_* rounds *)
(* down by enough for get_delta_amounts_signed to round up.                *)
(***************************************************************************)
DepositWithinOffer ==
  pc = "idle" =>
    \A sizing \in Sizings, range \in Ranges, offer \in Offers :
      LET minted == Minted(sizing, range, offer)
          cost   == Amounts0And1(tick, sqrt_price, range[1], range[2], minted.liquidity)
      IN  minted.tag = "ok" =>
            /\ sizing # "amount1" => cost[1] <= offer[1]
            /\ sizing # "amount0" => cost[2] <= offer[2]

(***************************************************************************)
(* liquidity_math.rs:94: the liquidity from two amounts is "the maximum    *)
(* amount of liquidity received" for them: one unit more would cost more   *)
(* than is offered.                                                        *)
(***************************************************************************)
LiquidityIsMaximum ==
  pc = "idle" =>
    \A range \in Ranges, offer \in Offers :
      LET minted == Minted("amounts", range, offer)
          cost   == Amounts0And1(tick, sqrt_price, range[1], range[2],
                                 minted.liquidity + 1)
      IN  minted.tag = "ok" => cost[1] > offer[1] \/ cost[2] > offer[2]
=============================================================================
