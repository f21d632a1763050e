------------------------------- MODULE TickMath -------------------------------
(***************************************************************************)
(* The conversions of tick_math.rs, bit by bit: the product of tabulated   *)
(* factors that makes a sqrt price of a tick, and the binary logarithm,    *)
(* with its error margins, that finds the tick of a sqrt price.  The       *)
(* widths, the factors and the margins are constants: 64, 2^32 and 16 bits *)
(* of precision in the code.                                               *)
(*                                                                         *)
(* One action is one iteration of the logarithm's loop.  Faulty_X is X     *)
(* with a mistake, used by no specification.                               *)
(***************************************************************************)
EXTENDS FixedPoint, PowersOfTwo, Sequences

CONSTANTS
  MAX_TICK,
  MIN_PRICE_LITERAL,   \* the two literals; MAX_TICK's price is outside
  MAX_PRICE_LITERAL,
  FRACTION_BITS,       \* 64: of a sqrt price, half the bits of its type
  LOG_BITS,            \* 32: fractional bits of the logarithm
  BIT_PRECISION,       \* 16: bits of it that are computed
  Factors,             \* 2^64 / 1.0001^(2^(i - 1)) for the bits i of a tick
  INVERSE_LOG,         \* 59543866431248, 2^32 / log2 of the sqrt price of tick 1
  LOW_MARGIN,          \* 0.01, with twice LOG_BITS fractional bits
  HIGH_MARGIN,         \* 0.01 and the greatest error of the logarithm
  SqrtPrices           \* arguments

MIN_TICK == -MAX_TICK
Ticks    == MIN_TICK .. MAX_TICK

ASSUME TickMathAssumption ==
  /\ MAX_TICK \in Nat \ {0} /\ MAX_TICK < Pow2[Len(Factors)]
  /\ FRACTION_BITS \in Nat \ {0} /\ Q = Pow2[FRACTION_BITS]
  /\ LOG_BITS \in 0 .. FRACTION_BITS
  /\ BIT_PRECISION \in 0 .. LOG_BITS
  /\ \A i \in 1 .. Len(Factors) : Factors[i] \in 1 .. Q
  /\ INVERSE_LOG \in Nat /\ LOW_MARGIN \in Nat /\ HIGH_MARGIN \in Nat
  /\ SqrtPrices \subseteq U128

-----------------------------------------------------------------------------
(* get_sqrt_price_at_tick *)

Bit(i, n) == (n \div Pow2[i]) % 2

(* The product of the factors of the set bits, lowest first, each rounded down *)
RatioOf(absTick) ==
  LET after[i \in 0 .. Len(Factors)] ==
        IF i = 0 THEN Q
        ELSE IF Bit(i - 1, absTick) = 0 THEN after[i - 1]
        ELSE (after[i - 1] * Factors[i]) \div Q
  IN  after[Len(Factors)]

(* the inverse taken for negative ticks *)
Faulty_GetSqrtPriceAtTick(tick) ==
  IF tick < 0 THEN U128Max \div RatioOf(-tick) ELSE RatioOf(tick)

(* For |tick| <= MAX_TICK; TickUpperOverflow beyond *)
GetSqrtPriceAtTick(tick) ==
  IF tick > 0 THEN U128Max \div RatioOf(tick) ELSE RatioOf(-tick)

SqrtPriceAt == [tick \in Ticks |-> GetSqrtPriceAtTick(tick)]

(* What the other modules take for granted of the conversion *)
Table == INSTANCE TickTable

-----------------------------------------------------------------------------
(* get_tick_at_sqrt_price *)

VARIABLES
  pc,
  sqrt_price_x64,
  msb,
  r,
  bit,
  precision,
  log2p_fraction,
  result

locals == <<sqrt_price_x64, msb, r, bit, precision, log2p_fraction>>
vars == <<pc, locals, result>>

Init ==
  /\ pc = "idle"
  /\ sqrt_price_x64 = 0 /\ msb = 0 /\ r = 0
  /\ bit = 0 /\ precision = 0 /\ log2p_fraction = 0
  /\ result = [tag |-> "none"]

InDomain(price) == MIN_PRICE_LITERAL <= price /\ price < MAX_PRICE_LITERAL

(* shifted to one bit less *)
Faulty_Normalized(price, m) ==
  IF m >= FRACTION_BITS THEN price \div Pow2[m - FRACTION_BITS]
                        ELSE price * Pow2[FRACTION_BITS - 1 - m]

(* The leading bit moved to the top of a half-width number *)
Normalized(price, m) ==
  IF m >= FRACTION_BITS THEN price \div Pow2[m - (FRACTION_BITS - 1)]
                        ELSE price * Pow2[FRACTION_BITS - 1 - m]

Refuse(price) ==
  /\ pc = "idle" /\ ~InDomain(price)
  /\ pc' = "done" /\ result' = [tag |-> "err", code |-> "SqrtPriceX64"]
  /\ UNCHANGED locals

Accept(price) ==
  /\ pc = "idle" /\ InDomain(price)
  /\ pc' = "log"
  /\ sqrt_price_x64' = price
  /\ \E m \in 0 .. 2 * FRACTION_BITS - 1 :
       /\ Pow2[m] <= price /\ price \div Pow2[m] < 2
       /\ msb' = m
       /\ r' = Normalized(price, m)
  /\ bit' = Pow2[FRACTION_BITS - 1]
  /\ precision' = 0 /\ log2p_fraction' = 0
  /\ UNCHANGED result

Refining == bit > 0 /\ precision < BIT_PRECISION

(* r^2 is 2 or more, in twice its fractional bits *)
IsMoreThanTwo(square) == square \div Pow2[2 * FRACTION_BITS - 1]

Square ==
  /\ pc = "log" /\ Refining
  /\ \E more \in {IsMoreThanTwo(r * r)} :
       /\ r' = (r * r) \div Pow2[FRACTION_BITS - 1 + more]
       /\ log2p_fraction' = log2p_fraction + bit * more
  /\ bit' = bit \div 2
  /\ precision' = precision + 1
  /\ UNCHANGED <<pc, sqrt_price_x64, msb, result>>

Log2P == (msb - FRACTION_BITS) * Pow2[LOG_BITS]
           + log2p_fraction \div Pow2[FRACTION_BITS - LOG_BITS]

LogSqrtBase == Log2P * INVERSE_LOG

(* without the margin *)
Faulty_TickLow == LogSqrtBase \div Pow2[2 * LOG_BITS]

(* An arithmetic shift rounds towards minus infinity *)
TickLow  == (LogSqrtBase - LOW_MARGIN) \div Pow2[2 * LOG_BITS]

(* without the error of the logarithm *)
Faulty_TickHigh == (LogSqrtBase + LOW_MARGIN) \div Pow2[2 * LOG_BITS]

TickHigh == (LogSqrtBase + HIGH_MARGIN) \div Pow2[2 * LOG_BITS]

(* the strict comparison *)
Faulty_HighIsReached == SqrtPriceAt[TickHigh] < sqrt_price_x64

HighIsReached == SqrtPriceAt[TickHigh] <= sqrt_price_x64

TickOk(tick) == [tag |-> "ok", tick |-> tick]

(* The price of tick_high is unwrapped *)
Decide ==
  /\ pc = "log" /\ ~Refining
  /\ result' = IF TickLow = TickHigh THEN TickOk(TickLow)
               ELSE IF TickHigh \notin Ticks THEN [tag |-> "panic"]
               ELSE IF HighIsReached THEN TickOk(TickHigh)
               ELSE TickOk(TickLow)
  /\ pc' = "done"
  /\ UNCHANGED locals

Next ==
  \/ \E price \in SqrtPrices : Refuse(price) \/ Accept(price)
  \/ Square
  \/ Decide

Spec == Init /\ [][Next]_vars

-----------------------------------------------------------------------------
(* Properties *)

(* Types: r stays normalised, so that its square fits the type of a price. *)
TypeOK ==
  /\ pc \in {"idle", "log", "done"}
  /\ sqrt_price_x64 \in U128
  /\ msb \in 0 .. 2 * FRACTION_BITS - 1
  /\ pc = "log" => r \in Q \div 2 .. Q - 1
  /\ bit \in 0 .. Q \div 2
  /\ precision \in 0 .. BIT_PRECISION
  /\ log2p_fraction \in 0 .. Q - 1
  /\ result.tag \in {"none", "ok", "err", "panic"}

(***************************************************************************)
(* The factor table makes a strictly increasing price of the tick, over    *)
(* the whole domain and across tick 0 where the inverse is taken, and its  *)
(* ends are the two literals: what every module that extends TickTable     *)
(* assumes.                                                                *)
(***************************************************************************)
TableMeetsAssumption ==
  pc = "idle" =>
    /\ Table!TickTableAssumption
    /\ SqrtPriceAt[MIN_TICK] = MIN_PRICE_LITERAL
    /\ SqrtPriceAt[MAX_TICK] = MAX_PRICE_LITERAL

(***************************************************************************)
(* The two margins enclose the tick and leave one alternative: the error   *)
(* of the truncated logarithm, of the change of base and of the factor     *)
(* table together never reach past either, and tick_high is in the domain  *)
(* when its price is unwrapped.                                            *)
(***************************************************************************)
MarginsEncloseTick ==
  pc = "log" /\ ~Refining =>
    /\ TickHigh <= TickLow + 1
    /\ TickLow = TickHigh \/ TickHigh \in Ticks
    /\ \E tick \in {TickLow, TickHigh} : Table!IsTickAtSqrtPrice(sqrt_price_x64, tick)

(***************************************************************************)
(* The answer is the greatest tick whose price is at most the argument, at *)
(* each tick's price, one unit before and after it, and in between.        *)
(***************************************************************************)
TickIsGreatest ==
  pc = "done" /\ result.tag # "err" =>
    result.tag = "ok" /\ Table!IsTickAtSqrtPrice(sqrt_price_x64, result.tick)
=============================================================================
