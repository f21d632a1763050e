# A TLA+ verification of solana-clmm-raydium

The library computes what Raydium's concentrated-liquidity pools do in a swap:
integers in, integers out, no I/O, no threads, nothing stored.  What is hard
about it is arithmetic in fixed widths (every rounding must favour the pool, no
`unwrap` may panic), the *sequences* its callers build from it (steps, tick
crossings, bitmap searches, a quote and its transfers), and the agreement of
several pieces of state that the walk over ticks changes one at a time.  This
directory models those, checks them with TLC on small widths and proves with
TLAPS, for every width, table of ticks, book, fee and bitmap and any number of
owners, nearly all of what the runs check.

## 1. The system

| Component | Source | State | Operations | What makes it correct |
|---|---|---|---|---|
| Fixed-point arithmetic | `full_math.rs`, `unsafe_math.rs`, `fixed_point_64.rs` | none | `mul_div_floor`, `mul_div_ceil`, `div_rounding_up` | brackets of floor and ceiling; the quotient fits or is `None` |
| Token deltas, liquidity | `liquidity_math.rs` | none | `get_delta_amount_{0,1}_unsigned`, `add_delta`, `cross` | in rounds up, out rounds down; liquidity never leaves `u128` |
| Position helpers | `liquidity_math.rs` | none | `get_liquidity_from_*`, `get_delta_amount*_signed` | liquidity costs no more than the offer it was sized for; what was deposited can be withdrawn |
| Next price | `sqrt_price_math.rs` | none | `get_next_sqrt_price_from_{input,output}` | does not pass the target; costs no less than the curve |
| Swap step | `swap_math.rs` | none | `compute_swap_step` | consumes the amount or reaches the target; fee at least the rate; no panic |
| Multi-tick swap | `swap_full.rs` | locals of one call: price, tick, liquidity, amounts, fee, steps | `compute_swap_full` | price, tick and liquidity stay together; each tick crossed once; limit respected; returns |
| Ticks and prices | `tick_math.rs` | none | `get_sqrt_price_at_tick`, `get_tick_at_sqrt_price` | monotone; one is the inverse of the other on a half-open domain |
| Tick-array bitmap | `tick_array_bit_map.rs`, `state_helpers.rs` | the pool's 1024 bits, read only | `check_current_...`, `next_initialized_...`, start-index arithmetic | no initialized array is skipped, in either direction |
| Transfer fees | `transfer_fee.rs` | none | `calculate_fee`, `apply_...`, `reverse_apply_transfer_fee` | the inverse is sufficient and least |
| Big integers | `big_num.rs` | none | `U1024` limb arithmetic | shifts and counts of zeros carry between limbs |
| Errors, crate root | `error.rs`, `lib.rs` | none | error codes, re-exports | - |
| Tests, fixtures, scripts | `tests/`, `scripts/` | - | replay, differential and property tests, RPC capture | - |

How they interact: a caller decodes a pool, searches the bitmap for the tick
arrays a swap may touch, flattens them into a sorted slice and calls
`compute_swap_full`; that calls `compute_swap_step` once per range, which calls
the price and delta formulas, and `cross` at each tick.  For fee-bearing mints
the caller wraps the call in `apply_transfer_fee` on both legs, and sizes an
exact-output request backwards first.  A caller that keeps a pool sizes and
prices positions with the helpers of `liquidity_math.rs` between swaps.  All
calls are synchronous; the state that outlives a call is the caller's.

Where the behaviour is hard (the full list, with lines and properties, is
`hazards` in PROJECT.json):

- a range amount that does not fit a `u64` becomes `None`, and the field it
  should have filled keeps a default 0 through the rest of the step;
- roundings of price and amounts compose over steps, and over the two directions
  of a quote;
- a price may stand exactly on a tick that has just been crossed downwards; the
  comparisons `<=` and `>` and the `- 1` after a crossing must fit together;
- the loop must make progress over gaps of zero liquidity and over zero-length
  steps, or the cap on iterations refuses a legal swap;
- additions that are checked, unchecked, or checked after an unchecked one;
- division truncates towards zero while arrays of negative ticks round down;
- the index a negative bitmap answer carries is a sentinel that the next search
  takes as a start;
- a transfer fee resolved for a quote may have changed when the tokens move;
- positions are sized, deposited and withdrawn one by one with their own
  roundings, while swaps are priced on the sum of their liquidity;
- the tick of a price comes from a logarithm cut short, and two margins decide
  whether the truncation is repaired or the tick is one off;
- a bitmap is stored in words, and a shift carries between them.

There is nothing persisted and nothing runs concurrently inside the library, so
crashes, lost messages and locks do not arise.  The one thing that may happen
between two calls is a change of epoch.

## 2. The modules

| Module | Models | Notes |
|---|---|---|
| `FixedPoint` | widths and the three rounding operators | constant `Q` |
| `SwapMath` | deltas, next prices, `compute_swap_step`, `add_delta`, `cross` | pure operators, one per value the code computes, in its order |
| `RangePool` | a caller driving `compute_swap_step` in one range | composes `SwapMath` with a ledger of both tokens |
| `TickTable` | ticks, their prices, books of positions | `SqrtPriceAt` is any increasing table |
| `SwapFull` | `compute_swap_full` | composes `SwapMath` and `TickTable`; one action per way an iteration ends |
| `CurveSwap` | what a swap promises | abstract: a trade along the curve of a book, in one step; `SwapFull` implements it |
| `PositionAmounts` | the position helpers of `liquidity_math.rs` | pure operators |
| `PoolLedger` | a caller that keeps a pool: deposits, withdrawals and swaps | composes `SwapFull` and `PositionAmounts` |
| `TickMath` | `get_sqrt_price_at_tick`, `get_tick_at_sqrt_price` | one action per iteration of the logarithm; shown to be a `TickTable` |
| `TransferFee` | the three transfer-fee functions | pure operators |
| `SwapV2` | user, router and pool of a fee-bearing swap | composes `SwapMath` and `TransferFee`; epochs may turn |
| `TickArrayBitmap` | all of the bitmap and start-index functions, and a search | the 1024 bits are a set of positions |
| `BigNum` | the operations of `U1024` the bitmap uses, word by word | checked in `TickArrayBitmap` to be operations on the set of positions |
| `MC*` | constants for TLC | one per state machine |
| `PowersOfTwo` | what a shift multiplies or divides by | a recursive function, which can be reasoned about, in place of `2 ^ n` |
| `ArithmeticProofs`, `SwapMathProofs` | lemmas on the arithmetic and on one step | no state; every other proof rests on them |
| `RangePoolProofs`, `SwapFullProofs`, `SwapV2Proofs`, `TickArrayBitmapProofs`, `PoolLedgerProofs`, `TickMathProofs` | theorems | section 5 |

**One scale.**  `Q` stands for 2^64 everywhere: the fixed-point unit and the
range of a `u64`; `Q * Q` is the range of a `u128`.  Making `Q` 16 or 32 keeps
every ratio between prices, liquidities, amounts and the widths they must fit,
so overflow, `None` and rounding happen in the model where they happen in the
code, and TLC's 32-bit integers hold all products.  The proofs leave `Q`
unspecified, except that `TickMath`, which shifts, says it is a power of two.

**Outcomes.**  `Ok`, `Err(code)` and a panic are records with a tag.  A panic is
an outcome like the others, so that "does not panic" is a property.

**`compute_swap_step`.**  `ComputeSwapStep` names each intermediate value as the
code does: what may be spent (`StepBudget`), the amount of the whole range,
whether the target is affordable (`ReachesTarget`), the next price, the amounts
(with `Prefilled` for the field a `None` leaves at 0), the cap, the fee; then
the conversions to `u64` (`Reported`).  A `checked_*().unwrap()`, an
`assert!` and a cast that panics are a next price outside `1 .. U128Max`.

**`RangePool`.**  `StepSettles` is a step that returns `Ok` and takes effect,
`StepRefused` one that returns `Err` or panics.  `net0` and `net1` are the tokens
the pool has received less what it has paid; `last` remembers the arguments and
the outcome.  The target is ahead of the price, as `swap_full.rs:151-157` makes
it.

**`SwapFull`.**  The local variables of the function are the variables; `pc` is
`"loop"`, `"return"` (after the `break`) or `"done"`.  `StepCapReached`,
`IterationFails`, `CrossTick`, `StopAtLimit`, `StayInRange` and `Return` are the
ways through the loop body, and each of them contains all of its accounting.
`Failure` lists the `?`s of an iteration in the order the code meets them.
`OverflowChecks` chooses between a release build (the sum `amount_in +
fee_amount` wraps) and a checked one (it panics).  A *book* is the slice the
caller passes, with the liquidity of each tick interval it was derived from; the
walk reads only the slice.  The pool's tick and price belong together
(`PriceInTick`), which includes the state in which an on-chain pool rests after
crossing a tick downwards: the price of the tick, and the tick below.  The slice
is the whole book or the pre-filtered one (`Slices`): the ticks a swap in that
direction may still cross, which is what a caller passes that has searched the
bitmap.

**`CurveSwap`.**  A pool that is a point on the curve of its book.  `Request`
fixes a book, a direction, an amount and a limit; `Trade` moves the price
towards the limit, along the liquidity the book has at each tick interval
passed, taking at least what the curve asks for and paying at most what it
yields; `AnswerOk` may come only when the amount is met or the limit is reached,
`AnswerFailure` at any moment.  `SwapFull` maps its locals onto it (`Curve`);
`ImplementsCurveSwap` says that every iteration of the loop is a `Trade`, a
stutter or an answer.  The mapping reads the book and the walk only the slice,
so it fails when a tick is crossed twice, missed, or crossed with the wrong
sign.  It holds where sums are checked: in a release build the unchecked
addition of `swap_full.rs:185` breaks it, which is the finding of
`swap_full_amount_in`.

**`PoolLedger`.**  The library keeps no pool; this module is the caller that the
helpers were written for.  `OpenPosition` sizes liquidity from an offer
(`Minted`, one of three helpers), prices it (`Worth`) and takes the tokens;
`RemoveLiquidity` pays half or all of a position; `StartSwap`, the walk of
`SwapFull` one iteration at a time (`Walk`), and `SettleSwap` or `DropSwap`
make a swap.  The caller looks the tick up from the final price and takes the
liquidity of the positions there, since `final_tick` and `final_liquidity` need
not fit (see the disagreements below).  Fees are kept apart from the reserves,
so that a rounding in the owners' disfavour is not covered by fee income; the
reserves are `u64` token accounts, and a deposit or swap they cannot take fails.

**`TickMath`.**  The functions bit by bit, with every width, factor and margin a
constant.  Section 3 says how the constants were scaled.  `Table` is `TickTable`
instantiated with the prices this module computes: `TableMeetsAssumption`
establishes for it what every other module assumes.

**`BigNum`.**  A number is a sequence of words.  `Shl` and `Shr` move whole words
and carry bits between neighbours, `LeadingZeros` and `TrailingZeros` count
through zero words.  `TickArrayBitmap` keeps positions in a set, and
`WordsHoldBitmap` says for every bitmap that the words of that bitmap, shifted
as the searches shift them, hold the shifted set and count its zeros, and that
the mask of one bit is not zero exactly if the bit is set.

**`SwapV2`.**  Phases of one route: an exact-output request is sized
(`SizeOutput`), quoted (`QuoteInput`); an exact input is signed for
(`SignInput`); the input transfer loses its fee (`SendInput`), the step runs
(`Swap`), the output transfer loses its fee (`DeliverOutput`).  `EpochTurns` may
replace both fees once the quote is made.

**`TickArrayBitmap`.**  The walk starts with the check of the current array and
asks for the next array until there is none (`NextArray`, `NoneLeft`), then may
turn round (`TurnAround`) and search the other way from the index it was left
with.

**`Faulty_X`.**  Next to an operator `X` some modules define `Faulty_X`: `X` with
a mistake somebody could make in that code.  No specification uses them.  They
stand in for `X` to show that a property is able to fail, one for every property
of every passing run (`mutants` in PROJECT.json).

## 3. The runs

Each passing run is exhaustive within its bounds.

| Run | Question | Bounds | Distinct states |
|---|---|---|---|
| `range_pool` | does any pair of steps in a range favour the user, panic, or beat the single swap? | `Q` = 16, fee unit 10, 5 liquidities (0 up to values whose range amounts exceed `u64`), 3 starts, 5 targets, 4 amounts, 2 fee rates, 2 calls | 11 647 |
| `swap_full` | does the walk keep price, tick, liquidity and amounts together, and waste no iteration? | `Q` = 32, 7 ticks, 6 books, whole and pre-filtered slices, 6 prices, 4 amounts, 5 limits, `MAX_STEPS` = 3 | 25 453 |
| `pool_ledger` | can everybody withdraw whatever came before, and is every swap a trade along the curve? | `Q` = 32, 2 owners (symmetric), 4 overlapping ranges, 2 offers, 3 ways of sizing, 2 amounts, 3 limits, 4 operations | 256 960 |
| `swap_v2` | is exact-output sizing sufficient and least through both fees, also over an epoch change? | `Q` = 32, 10 basis points to the unit, 6 fees on each mint, 4 ranges, 5 requests | 472 099 |
| `tick_array_bitmap` | is any initialized array missed, repeated or out of order? | 6 bits, arrays of 2 ticks, 3 spacings, ticks -10 to 9, all bitmaps, words of 1, 2, 3 and 6 bits | 38 536 |
| `tick_math` | is the tick of a price the greatest one at or below it, everywhere? | 15-bit fractions, 101 ticks, every tick's price, one unit beside it and 31 prices in between | 23 487 |

Why the bounds are enough.  In `range_pool` two calls are the shortest sequence
in which a rounding of one step meets the next one (and the theorems remove the
bound); the liquidities straddle the point where a range amount stops fitting a
`u64`, so the `None` branch is taken on both sides.  In `swap_full` three steps
cross two ticks and stop beyond them, and with `MAX_STEPS` = 3 the cap is met;
the books have nested, adjacent and disjoint positions, a gap without liquidity,
a tick whose net change is 0, no position, and liquidity with no tick in reach;
prices lie on ticks, one unit beside them and between them.  In `swap_v2` the
fees are none, proportional, capped at once, capped late, nearly 100% and
100%; in the fourth range a quote back ends on the target and needs more than
was spent.  In `tick_array_bitmap` the three spacings make the bitmap narrower than
the tick domain, end at its border, and reach beyond it, which are the relations
that occur in the code (512 arrays of 60 ticks against a domain of 443636); the word
widths make shifts of less than a word, of whole words and of both.  In
`pool_ledger` four operations are two deposits, a swap across the edges of both
ranges and a withdrawal, or a deposit, two swaps there and back and a
withdrawal; one range lies inside another, one above the price, one below.

In `tick_math` the base of the ticks is larger (0.148 binary logarithms of a sqrt
price to the tick instead of 1/13863), the logarithm is cut after 5 bits instead
of 16, and numbers have 15 fractional bits instead of 64, so that TLC's integers
hold the square of a normalised price.  What decides between a right and a wrong
tick is kept as it is in the code: the error of the truncated logarithm, in
ticks, is 2^-5 / 0.148 = 0.2115, as 2^-16 is at the base 1.0001, and the margins
are the code's 0.01 and 0.8561.  (The comment on the upper margin derives it
from 14 bits, an error of 0.8461; the code computes 16, and the margin is wider
than needed.)  The run's prices lie where a margin could fail: at each tick's
price, on both sides of it, and at 31 steps between two ticks.

The constants of `swap_full` restrict limits to those the on-chain instruction
lets through (`CheckedLimits`); the library itself checks nothing.

**What the runs of the core show.**  Reserves never fall below the curve over
any sequence of steps (`ReservesCoverCurve`); a step uses exactly the amount or
reaches the target (`StepConsumesOrReaches`); a move that lands on its target is
charged in full although the range amount was `None` (`TargetIsPaidFor`); the
fee is at least the rate (`FeeAtLeastRate`); exact inputs never panic, exact
outputs do not up to a fee rate of one half (`NoPanic`), and above it they can,
because the fee on top may exceed a `u64`; quoting the output just bought costs
no more if the quote stops short of the target; if it ends there it may, because
the range's rounded-down output buys the whole range, but then the rest of the
way pays nothing out and the excess is at most what that rest costs
(`ExactOutQuoteBounded`); two parts
of an input never buy more than the whole (`SplitNeverPays`).

**What the walk shows.**  While it goes on, liquidity is the book's at the
current tick and the price is in its interval (`WalkMatchesBook`); the price and
liquidity it returns belong to one interval however it ended
(`ResultIsOnBook`); it never passes the limit (`LimitRespected`); it uses the
whole amount unless the limit stops it (`SpecifiedAmountIsMet`); the fee total
is at least the rate (`FeeTotalAtLeastRate`); the cap means as many initialized
ticks on the way (`CapOnlyAfterManyTicks`); it fails only for an amount that does
not fit a `u64` or for the cap, and a panic is left to exact outputs alone, where
the gross input is added with overflow checks or the fee rate exceeds one half
(`OnlyAmountErrors`); every iteration goes forward (`WalksForward`).

**What the ledger shows.**  After any sequence of deposits, withdrawals and swaps
no amount of a withdrawal exceeds a `u64` and the reserves pay all owners
together (`EveryoneCanWithdraw`), although each position was rounded on its own
and swaps are priced on the sum; liquidity sized from an offer costs no more than
the offer at every price a swap leaves (`DepositWithinOffer`); every swap is a
trade along the curve of the positions there are (`ImplementsCurveSwap`).

**What the conversions show.**  The factor table is strictly increasing over the
domain and across tick 0, and ends at the two literals
(`TableMeetsAssumption`); `tick_low` and `tick_high` are the tick or enclose it,
and the price of `tick_high` exists when it is unwrapped (`MarginsEncloseTick`);
the answer is the greatest tick at or below the price (`TickIsGreatest`).

**Disagreements.**  Six runs expect a violation: each checks one sentence of the
sources against what the code does (`findings` in PROJECT.json).

- `range_pool_target_pays_out`: an exact-output step that rounds onto its target
  while the range amount was `None` charges the input and pays nothing.
- `swap_full_final_liquidity`: `final_tick` and `final_liquidity` may belong to
  different intervals (the price alone identifies the right one, which is what
  `ResultIsOnBook` says and what a caller should rely on).
- `swap_full_final_tick`: a swap stopped by its limit returns the tick of before
  its last step.
- `swap_full_amount_in`: an unchecked addition makes `amount_in` smaller than
  the fee in a release build.
- `swap_full_domain_bound`: an explicit limit on the domain bound ends in
  `InvalidTickIndex`.
- `pool_ledger_liquidity_is_maximum`: the liquidity computed from two amounts is
  not the maximum they pay for, because the product of the prices is rounded
  down before it is used.  At low prices the loss is large: for ticks -440000 and
  -439000 the product is 1.51 times 2^64 and taken as 1, and an offer of 10^18 is
  sized to cost 6.6 * 10^17.

## 4. Fairness and deadlock

No module states liveness or assumes fairness.  The library is sequential code,
its walks are bounded, and the one open loop, that of `compute_swap_full`, counts
its iterations against `MAX_STEPS` (`swap_full.rs:122-126`): it ends whatever an
iteration does, so that it ends says nothing about the iterations.  What could go
wrong there is an iteration without progress, and that is safety: `WalksForward`
says each one moves, `CapOnlyAfterManyTicks` that the cap is never met by
wasted ones.  Deadlock is not checked: every
behaviour ends on purpose, in a returned call, a delivered or failed route, an
exhausted search, a returned tick, or the bound on calls and operations.

## 5. The proofs

All theorems hold for every `Q >= 2` and every fee denominator, and rest on no
assumption but the named `ASSUME`s of the modules, which the runs evaluate, and
the hypotheses named below.  No module declares a `RECURSIVE` operator.

### Arithmetic and one step

`ArithmeticProofs` holds what the provers do not know of products and quotients,
and what is proved by induction without an induction theorem: a set of naturals
that holds 0 and its successors is all of them (`NaturalsIn`, from the least
element of the others), so that recursive definitions have solutions and these
can be reasoned about - sums over a finite set (`FoldExists`, `SumAdd`,
`SumOrdered`) and powers of two (`Pow2Exists`, `Pow2Sum`).  `SwapMathProofs`
brackets the floor and ceiling operators and orders them, brackets the token deltas by the curve (`Range0`, `Range1`), shows
that the price reached by an amount costs, rounded up, no more than that amount
(`InputShortOfTarget`) and pays at least the amount asked for
(`OutputShortOfTarget`), that it does not pass a target whose range was not
affordable, and that it stays a positive `u128` whatever the `None` was;
`StepFacts` puts these together into `StepSound`, a predicate on the outcome of
`compute_swap_step` and its arguments.  `ProductFitsU256` shows on the way that
the alternate price formula for an overflowing product
(`sqrt_price_math.rs:53-59`) is never taken.

### One range: `RangePoolProofs`

For all sets of liquidities in `u128`, prices and targets in `u128` without 0, fee
rates below the denominator (what the code needs for its subtraction), amounts
in `u64` without 0, and any number of steps:

| Theorem | Statement |
|---|---|
| `Invariance` | `Spec => []IInv` |
| `TypeCorrectness` | `Spec => []TypeOK` |
| `Solvency` | `Spec => []ReservesCoverCurve` |
| `ConsumesOrReaches` | `Spec => []StepConsumesOrReaches` |
| `TargetAlwaysPaidFor` | `Spec => []TargetIsPaidFor` |
| `FeeCorrectness` | `Spec => []FeeAtLeastRate` |
| `PanicFreedom` | `Spec => []NoPanic` |
| `QuoteBackBound` | `Spec => []ExactOutQuoteBounded` |
| `SplittingNeverPays` | `Spec => []SplitNeverPays` |

None of the properties is inductive by itself: the record of the last call says
nothing of the next one, and `ReservesCoverCurve` needs the amounts of a step
tied to the price move.  The inductive invariant is

    IInv = StateTypes /\ ReservesCoverCurve /\ (last = NoCall \/ CallSound)

where `CallSound` says that the last outcome is `StepSound` for the arguments it
records.  The curve for token 1 is linear in the price, so covering every move
covers their sum (`Curve1Step`); for token 0 it is linear in the inverse of the
price and the sum is taken over a common denominator (`Curve0Step`).

The two comparisons of several steps follow from what an amount pays for
(`PaysFor`).  Two parts of an input, each less its own fee, pay for two moves;
the whole has no less to spend (`FloorOfParts`), so it pays for the way the two
make together (`PaysForBoth`), and an input takes the price at least as far as any
price it pays for (`InputGoesFurthest`): `SplitInput`.  A quote of the output just
bought asks for a move no longer than the one made, because that output was
rounded down (`OutputNoFurther`), and a shorter move costs no more.  If it reaches
the target all the same, the output of the whole range is no more than that of the
move made, so the rest pays nothing out (`OutputOfParts`); the amounts and fees
of the two parts, each rounded up, cover those of the whole (`InputOfParts`,
`FeeOfParts`): `QuoteBack`.

### The walk: `SwapFullProofs`

For every strictly increasing table of prices, every set of well-formed books,
any pool price strictly inside the domain, any `MAX_STEPS`, both overflow
behaviours of the build and any number of iterations.  The hypothesis
`CheckedLimits` says that limits are those the on-chain instruction lets through;
`swap_full_domain_bound` shows what another limit can do.

| Theorem | Statement |
|---|---|
| `Invariance` | `Spec => []IInv` |
| `TypeCorrect` | `Spec => []TypeOK` |
| `LiquidityFollowsBook` | `Spec => []WalkMatchesBook` |
| `AnswerOnBook` | `Spec => []ResultIsOnBook` |
| `PriceRespectsLimit` | `Spec => []LimitRespected` |
| `AmountIsUsedUp` | `Spec => []SpecifiedAmountIsMet` |
| `FeeKeepsRate` | `Spec => []FeeTotalAtLeastRate` |
| `CapAfterManyTicks` | `Spec => []CapOnlyAfterManyTicks` |
| `FailsForAmountsOnly` | `Spec => []OnlyAmountErrors` |
| `NeverTurnsBack` | `Spec => WalksForward` (an action property) |

`WalkMatchesBook` is not inductive: it says nothing once the amount is used up or
the limit is met, and an iteration needs to know that the price is inside the
domain, on the near side of the limit.  `IInv` adds to the types and to the
properties themselves

- `CallSane`: the arguments are those of the call, the limit is ahead;
- `LimitRespected`, from which the price stays inside the domain, so that a next
  tick exists and a fallback to the domain bound is never reached;
- `PriceOnBook`: *some* interval has price and liquidity, also after the last step,
  when the current tick need not;
- `Accounted`: what was taken off the amount carries its share of the fee (the
  floors and ceilings of single steps add up, `FeeShareGrows`);
- `EveryStepCrossed`: while the walk goes on, it has made no more iterations than
  it has passed initialized ticks, which gives the cap its meaning;
- `AnswerTellsState`: what a returned result says of the state it was made from.

A crossing is the difference of two intervals of the book (`WellFormedBook`), so
adding or subtracting it gives the other interval's liquidity and cannot leave
`u128` (`CrossFacts`); where no tick of the slice lies between, the liquidity is
the same (`SameLiquidity`, also for the pre-filtered slice).  That every price has
a tick (`TickExists`) is the least-number principle, proved for sets of naturals
(`LeastNatural`).

### The refinement, in `SwapFullProofs`

| Theorem | Statement |
|---|---|
| `Refinement` | `CheckedLimits /\ OverflowChecks => (Spec => ImplementsCurveSwap)` |

Initial states map to initial states, a call to a `Request`, `CrossTick`,
`StopAtLimit` and `StayInRange` to a `Trade` or a stutter, `Return` to an
`AnswerOk` and the two failing actions to an `AnswerFailure`.  `OverflowChecks` is
needed: see `swap_full_amount_in`.  This theorem is about `Spec` of `SwapFull`, where every
book is well formed by assumption; `LedgerTradesOnCurve` proves the same mapping
under `LedgerSpec`, where books are those the pool's positions make, as the run
checks it.

### A fee-bearing route: `SwapV2Proofs`

For all pairs of transfer fees with any rate up to 100% and any cap, changed at
any epoch between quote and transfer:

| Theorem | Statement |
|---|---|
| `Invariance` | `Spec => []IInv` |
| `TypeCorrectness` | `Spec => []TypeOK` |
| `NeverUnderSized` | `Spec => []TargetIsDelivered` |
| `InputAlwaysEnough` | `Spec => []InputIsEnough` |
| `SizedExactly` | `Spec => []SizedOutputIsLeast` |
| `RoundTripBound` | `Spec => []QuoteBackBounded` |

The properties compare the two ends of a route, so `IInv` records every leg as
the fee function of the leg before it, at the fee in force: `SizedFor`,
`QuotedFor`, `SpentFrom`, `SettledStep`.  The arithmetic is in `ReverseIsLeast`:
`reverse_apply_transfer_fee` answers the least amount that leaves the target,
through all its arms (no fee, capped, proportional, 100%), and overflows only when
no `u64` does.

### The bitmap: `TickArrayBitmapProofs`

For every array size, bitmap width, spacing, domain, set of initialized arrays and
division of the bitmap into words:

| Theorem | Statement |
|---|---|
| `Invariance` | `Spec => []IInv` |
| `AnswersTyped` | `Spec => []TypeOK` |
| `GathersEveryArray` | `Spec => []NoArraySkipped` |
| `TurnsWithoutLoss` | `Spec => []TurningLosesNothing` |
| `GathersInOrder` | `Spec => []GatheredInOrder` |
| `AssertionIsLocal` | `Spec => []AssertOnlyBeyondDomain` |
| `AnswersStayInBitmap` | `Spec => []AnswersInDefaultBitmap` |
| `WordsSeeEveryBit` | `Spec => []WordsHoldBitmap` |

The lemmas go from bits to ticks: truncating division with the extra decrement
is the floor (`FloorBracket`), leading or trailing zeros of the shifted bitmap
find the nearest set position (`SearchDownFinds`, `SearchUpFinds`), and a search
answers the nearest initialized start on its side, or that there is none
(`SearchAnswers`).  `ValidStart` says which starts pass the assertion: those whose
array holds a tick of the domain.  `IInv` then has `GatheredSoFar` (what was
answered is exactly the initialized arrays between origin and cursor),
`CursorPassedOn` (the next search starts from a valid index or from a sentinel of
a negative answer, which is what `TurningLosesNothing` needs) and the two
properties that are themselves inductive with them.

**Words.**  `WordsSeeEveryBit` goes from the digits of one word (`DigitSplit`: above
`k` bits those of the quotient, below those of the remainder) to what a shift
makes of a word and the neighbour that carries into it (`JoinedWords`; shifting
right is the same lemma with the two exchanged), and from there to whole numbers:
a shift moves every one by its distance, whatever words it crosses (`ShlMoves`,
`ShrMoves`), a sum of distinct powers has exactly their digits (`SumOfPowers`, for
the number made of a set and for the mask), and the counts of zeros, word by
word, end at the outermost one (`ZerosCounted`).

### The pool and its owners: `PoolLedgerProofs`

For every price table, ranges of its ticks, offers in `u64`, any number of owners
and any deposits, withdrawals and swaps:

| Theorem | Statement |
|---|---|
| `PoolStaysOnTable` | `LedgerSpec => []AtRest`: the pool's price is in the domain, its tick the tick of that price |
| `SizedWithinOffer` | `LedgerSpec => []DepositWithinOffer` |
| `PartsPayNoMore` | at rest, liquidity added and taken out in two parts pays, of neither token, more than it cost |
| `LedgerSound` | `CheckedLimits /\ OverflowChecks => (LedgerSpec => []PoolInv)` |
| `LedgerTypeCorrect` | `CheckedLimits /\ OverflowChecks => (LedgerSpec => []LedgerTypeOK)` |
| `Solvency` | `CheckedLimits /\ OverflowChecks => (LedgerSpec => []EveryoneCanWithdraw)` |
| `LedgerTradesOnCurve` | `CheckedLimits /\ OverflowChecks => (LedgerSpec => ImplementsCurveSwap)` |

The tick tells the side of a range and the price the amounts, so
`DepositWithinOffer` needs the two to belong together.  The price is taken from
the answer of a swap, which has to be a price: `LedgerInv` follows it back to the
walk and to the target of its steps.  `Liquidity0Affordable` is where the order of
the roundings counts: the product of the prices and the quotient are rounded
down before the cost is rounded up, and the cost of any smaller liquidity, the
lesser of the two sizings for instance, is within the amount as well.

**Solvency.**  `EveryoneCanWithdraw` is not inductive: the amounts it adds up are
rounded, and a swap moves the price away from the one they were rounded at.
What is preserved is that the reserves cover what the positions are owed *before*
rounding.  `PoolInv` says so between operations (`PoolSound`) and after every
iteration of a running swap, with the totals of the call added to the reserves
(`SwapSound`), together with the invariant of the walk and with what the answer
says of its totals (`AnswerExchanged`).

What a position is owed of token 1 is an integer in units of `1 / Q`.  What it is
owed of token 0 has the prices of the range and the current price as
denominators, and has no common unit until they are multiplied out: `Scale` is a
common multiple of the prices of the table, and token 0 is counted in units of
`1 / (Scale * price)`.  In these units the claims of a set of positions are sums
of integers (`Claims0`, `Claims1`), and the argument has five parts.

1. *Sums.*  `MapThenSumSet` is a recursive definition over subsets.
   `ArithmeticProofs` proves that the recursion has a solution (`FoldExists`) and
   that it adds, removes and compares term by term (`SumOrdered` and its
   neighbours), by the least element of a set of cardinalities
   (`SubsetInduction`).
2. *One operation.*  A deposit takes what is owed or more and a withdrawal pays it
   or less (`PricedAsOwed`); what remains of a position is owed the rest
   (`OwedInParts`).
3. *The book.*  `BookIsWellFormed`: the slice and the intervals `BookOf` makes of
   positions are a well-formed book.  That every sum of liquidity the walk meets
   fits a `u128` follows from the reserves: each position's range holds a tick
   interval, and the token 0 or token 1 that its liquidity is worth over one
   interval is covered by a `u64`.  This is what `TableSpacing` is for.
4. *One step.*  Between two initialized ticks every position is owed either the
   value of its liquidity between the prices or nothing (`ClaimsStretch`), so
   the claims move by the curve of the *sum* of the liquidity, which the step
   exchanges or better (`StepExchanges`); hence `StepKeepsCovered`.
5. *The settlement.*  The answer exchanges what the walk did, and the fees stay
   out of the reserves.

`Solvency` then rounds: each payment is at most what is owed, their sum at most the
sum of it, and a reserve that covers a sum of integers covers what a `u64` can
hold of it.  The book being well formed and limits being those of the on-chain
instruction, a swap of the pool starts in the invariant of the walk
(`StartKeepsIInv`), from which `LedgerTradesOnCurve` follows step by step.

The assumptions of the ledger are `PoolLedgerAssumption` (ranges of ticks in
order, offers in `u64`, pools that are created strictly inside the price domain)
and `TableSpacing`: the product of two neighbouring prices is at most `U128Max`
times their difference, so that a `u64` of token 0 is worth, over any range, no more
liquidity than a `u128` holds.  In the code's table neighbours are a factor 1.00005
apart and below 2^97: the product is below 2^112 times the difference.
`OverflowChecks` is needed because in a release build `amount_in` can wrap
(`swap_full_amount_in`), and a pool that settles such an answer is short.

### The tick of a price: `TickMathProofs`

For every width, precision, factor table, change of base and pair of margins:

| Theorem | Statement |
|---|---|
| `TypeCorrectness` | `Spec => []TypeOK` |
| `MarginsDecide` | prices fit a `u128` `=> (Spec /\ []MarginsEncloseTick => []TickIsGreatest)` |

That `r` stays normalised is what lets its square fit a `u128` in every iteration:
its leading bit is at the top before (`NormalizedRange`), the square is between 1
and 4, and the shift by one bit more brings it back.  The fraction is less than 1
because it never has more than the bits still to come leave room for
(`log2p_fraction + 2 * bit <= Q` in `IInv`).  `MarginsDecide` separates what the code
decides from what its numbers achieve: given that the margins enclose the tick,
comparing with the price of `tick_high` alone finds it, and the unwrap of that
price does not panic.  Its hypotheses, that the margins enclose and that the prices
of the table fit, are about the numbers; the run `tick_math` checks them for its own.

### Only model-checked

- `TableMeetsAssumption` and `MarginsEncloseTick`: whether a table of rounded factors
  increases, and whether two margins are wide enough, depends on the numbers in
  the table and the margins; there are constants for which each is false, so neither
  is a theorem of the module as it stands.
- The properties of the six runs that expect a violation, which do not hold.

## 6. What is not modelled

- The nineteen factors and the margins of `tick_math.rs` at their own widths:
  `TickMath` scales them (section 3), and the other modules take any strictly
  increasing table.
- `TickUpperOverflow`: every caller passes a tick of the domain.
- `or`, `xor`, `not`, `bit` and the conversions to and from `u128` of `U1024`, which
  nothing in the crate calls; `U128`, `U256` and `U512` are those of the `uint`
  crate and are integers here.
- `liquidity_net = i128::MIN` and `liquidity_delta = i128::MIN`, whose negation
  overflows: no book has the one and no position the other.
- Limits behind the price, basis points above 10000, fee rates at or above the
  denominator, and ticks outside the range a bitmap represents: preconditions
  the code leaves to its caller.
- Account decoding, fixtures, RPC scripts, wording of errors.

## 7. Plan

Done: 1. `FixedPoint`, `SwapMath`, `RangePool` and their proofs; 2. `TickTable`,
`SwapFull`; 3. `TransferFee`, `SwapV2`; 4. `TickArrayBitmap`; 5.
`PositionAmounts`, `PoolLedger`; 6. `CurveSwap` and its refinement; 7. `TickMath`;
8. `BigNum`.

Proved since: 9. `ExactOutQuoteBounded` and `SplitNeverPays`; 10. `SwapFull`, with
an inductive invariant for all of its safety properties, and `WalksForward`; 11.
the refinement of `CurveSwap`; 12. `TransferFee` in `SwapV2`; 13. the walk of
`TickArrayBitmap`; 14. the position helpers in `PoolLedger`; 15. sums over sets, and
with them the types and the solvency of the ledger; 16. the refinement for the
swaps of the ledger; 17. the types of `TickMath`, and `TickIsGreatest` from the
margins; 18. the words of `BigNum`.

What could follow: bounds on the errors of `TickMath` (each factor is rounded down
by less than one unit, the logarithm cut by less than its last bit) as lemmas on
its operators.  They would turn `MarginsEncloseTick` into an inequality between the
constants, which could then be checked at the code's own widths.
