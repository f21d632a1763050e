----------------------------- MODULE TickTable ------------------------------
(***************************************************************************)
(* Ticks and their sqrt prices, and what the pool's positions make of      *)
(* them: the signed liquidity change at each initialized tick and the      *)
(* liquidity active in each tick interval.                                 *)
(***************************************************************************)
EXTENDS FixedPoint, FiniteSetsExt

CONSTANTS
  MAX_TICK,
  SqrtPriceAt   \* get_sqrt_price_at_tick on its domain

MIN_TICK == -MAX_TICK
Ticks    == MIN_TICK .. MAX_TICK

ASSUME TickTableAssumption ==
  /\ MAX_TICK \in Nat \ {0}
  /\ SqrtPriceAt \in [Ticks -> U128] /\ SqrtPriceAt[MIN_TICK] > 0
  /\ \A s, t \in Ticks : s < t => SqrtPriceAt[s] < SqrtPriceAt[t]

MIN_SQRT_PRICE_X64 == SqrtPriceAt[MIN_TICK]
MAX_SQRT_PRICE_X64 == SqrtPriceAt[MAX_TICK]

(* A current tick may lie one below MIN_TICK, after crossing it downwards *)
CurrentTicks == MIN_TICK - 1 .. MAX_TICK

(***************************************************************************)
(* get_tick_at_sqrt_price: the greatest tick whose price is at most p, for *)
(* p inside [MIN_SQRT_PRICE_X64, MAX_SQRT_PRICE_X64); an error outside.    *)
(***************************************************************************)
InPriceDomain(p) == MIN_SQRT_PRICE_X64 <= p /\ p < MAX_SQRT_PRICE_X64

IsTickAtSqrtPrice(p, t) ==
  /\ InPriceDomain(p)
  /\ t \in MIN_TICK .. MAX_TICK - 1
  /\ SqrtPriceAt[t] <= p
  /\ p < SqrtPriceAt[t + 1]

(* p lies in tick t's interval, its upper end included: a pool that has just *)
(* crossed t + 1 downwards has tick t and the price of tick t + 1.           *)
PriceInTick(p, t) ==
  /\ t \in CurrentTicks
  /\ t >= MIN_TICK => SqrtPriceAt[t] <= p
  /\ t < MAX_TICK  => p <= SqrtPriceAt[t + 1]

(***************************************************************************)
(* A book is what the caller decodes from the tick arrays: `net' maps each *)
(* initialized tick to its liquidity_net.  `active' is the liquidity of    *)
(* the positions that cover a tick interval, of which net is the change.   *)
(***************************************************************************)
WellFormedBook(book) ==
  /\ DOMAIN book.net \subseteq Ticks
  /\ book.active \in [CurrentTicks -> U128]
  /\ \A t \in DOMAIN book.net :
       book.net[t] = book.active[t] - book.active[t - 1]
  /\ \A s, t \in CurrentTicks :
       s <= t /\ (\A i \in DOMAIN book.net : ~(s < i /\ i <= t))
         => book.active[s] = book.active[t]

(* The book of a set of positions *)
ActiveAt(positions, t) ==
  MapThenSumSet(LAMBDA p : p.liquidity, {p \in positions : p.lower <= t /\ t < p.upper})

BookOf(positions) ==
  [net    |-> [t \in {p.lower : p \in positions} \cup {p.upper : p \in positions}
                 |-> ActiveAt(positions, t) - ActiveAt(positions, t - 1)],
   active |-> [t \in CurrentTicks |-> ActiveAt(positions, t)]]
=============================================================================
