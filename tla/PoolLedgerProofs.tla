--------------------------- MODULE PoolLedgerProofs ---------------------------
(***************************************************************************)
(* What a pool kept with the position helpers of liquidity_math.rs and     *)
(* compute_swap_full can promise its owners, for every price table, range, *)
(* offer and number of positions: liquidity sized from an offer costs no   *)
(* more than the offer, no amount of a withdrawal exceeds a u64, and the   *)
(* reserves pay all owners together after any deposits, withdrawals and    *)
(* swaps.                                                                  *)
(*                                                                         *)
(* A position is owed the curve's value of its liquidity between the price *)
(* and the ends of its range, before any rounding.  Deposits take that or  *)
(* more, withdrawals pay that or less, and a step of a swap exchanges that *)
(* or better for the sum of the active positions, so the reserves cover    *)
(* what is owed.  Token 1 is owed in units of 1/Q; token 0 in units of     *)
(* 1/(Scale * price), Scale a common multiple of the prices of the table,  *)
(* so that both sums are sums of integers.                                 *)
(***************************************************************************)
EXTENDS PoolLedger, SwapFullProofs

-----------------------------------------------------------------------------
(* The liquidity an amount buys *)

(* Sizing panics or answers a liquidity. *)
LEMMA SizedOrPanic ==
  ASSUME NEW l \in Nat
  PROVE  /\ Unwrapped(l) = Panic \/ Unwrapped(l) = LiquidityOk(l)
         /\ LiquidityOk(l).tag = "ok" /\ LiquidityOk(l).liquidity = l
         /\ Panic.tag # "ok" /\ Panic # LiquidityOk(l)
BY DEF Unwrapped, LiquidityOk, Panic

(* An amount of token 0 buys no more liquidity than it pays for: both        *)
(* quotients are rounded down before the cost is rounded up, and less        *)
(* liquidity costs no more.                                                  *)
LEMMA Liquidity0Affordable ==
  ASSUME NEW lo \in Nat \ {0}, NEW hi \in Nat \ {0}, lo < hi, NEW amount \in Nat
  PROVE  LET sized == GetLiquidityFromAmount0(lo, hi, amount)
         IN  \/ sized = Panic
             \/ \E L \in Nat : /\ sized = LiquidityOk(L)
                               /\ \A l \in 0 .. L : DeltaAmount0(lo, hi, l, TRUE) <= amount
<1> DEFINE w == hi - lo
           i == MulDivFloor(lo, hi, Q)
           L == MulDivFloor(amount, i, w)
<1>1. LowerOf(lo, hi) = lo /\ UpperOf(lo, hi) = hi /\ w \in Nat \ {0}
  BY SortedPair, SMT
<1>2. Q \in Nat \ {0}
  BY QAssumption, SMT
<1>3. i \in Nat /\ i * Q <= lo * hi
  BY <1>2, MulDivFloorBracket
<1>4. L \in Nat /\ L * w <= amount * i
  BY <1>1, <1>3, MulDivFloorBracket
<1>5. ASSUME NEW l \in 0 .. L PROVE DeltaAmount0(lo, hi, l, TRUE) <= amount
  <2> HIDE DEF L, i
  <2>1. l \in Nat /\ l <= L
    BY <1>4, SMT
  <2>2. l * w <= L * w
    <3> HIDE DEF w
    <3> QED BY <1>1, <1>4, <2>1, ProductMonotone
  <2>3. l * w <= amount * i /\ l * w \in Nat /\ amount * i \in Nat
    <3> HIDE DEF w
    <3>1. l * w \in Nat /\ L * w \in Nat /\ amount * i \in Nat
      BY <1>1, <1>3, <1>4, <2>1, ProductNat
    <3> QED BY <1>4, <2>2, <3>1, SMT
  <2>4. (l * w) * Q <= (amount * i) * Q
    BY <1>2, <2>3, ProductMonotone
  <2>5. amount * (i * Q) <= amount * (lo * hi)
    <3>1. i * Q \in Nat /\ lo * hi \in Nat
      BY <1>2, <1>3, ProductNat
    <3> QED BY <1>3, <3>1, ProductMonotone
  <2>6. (l * Q) * w = (l * w) * Q /\ (amount * i) * Q = amount * (i * Q)
    <3> HIDE DEF w
    <3> QED BY <1>1, <1>2, <1>3, <2>1, SMT
  <2>7. (l * Q) * w <= amount * (lo * hi)
    <3> DEFINE x == (l * w) * Q
               y == (amount * i) * Q
               z == amount * (lo * hi)
    <3>1. x \in Nat /\ y \in Nat /\ z \in Nat
      <4>1. lo * hi \in Nat
        BY ProductNat
      <4> QED BY <1>2, <2>3, <4>1, ProductNat
    <3>2. x <= y /\ y <= z
      BY <2>4, <2>5, <2>6
    <3> HIDE DEF x, y, z
    <3>3. x <= z
      BY <3>1, <3>2, SMT
    <3> QED BY <2>6, <3>3 DEF x, z
  <2>8. lo <= hi
    BY SMT
  <2> QED BY <2>1, <2>7, <2>8, Range0
<1> HIDE DEF L, i
<1>6. CASE i \in U128
  <2>1. w > 0
    BY <1>1, SMT
  <2>2. GetLiquidityFromAmount0(lo, hi, amount) = Unwrapped(L)
    BY <1>1, <1>6, <2>1 DEF GetLiquidityFromAmount0, L, i
  <2> QED BY <1>4, <1>5, <2>2, SizedOrPanic
<1>7. CASE i \notin U128
  BY <1>7 DEF GetLiquidityFromAmount0, i
<1> QED BY <1>6, <1>7

(* The same of an amount of token 1. *)
LEMMA Liquidity1Affordable ==
  ASSUME NEW lo \in Nat \ {0}, NEW hi \in Nat \ {0}, lo < hi, NEW amount \in Nat
  PROVE  LET sized == GetLiquidityFromAmount1(lo, hi, amount)
         IN  \/ sized = Panic
             \/ \E L \in Nat : /\ sized = LiquidityOk(L)
                               /\ \A l \in 0 .. L : DeltaAmount1(lo, hi, l, TRUE) <= amount
<1> DEFINE w == hi - lo
           L == MulDivFloor(amount, Q, w)
<1>1. /\ LowerOf(lo, hi) = lo /\ UpperOf(lo, hi) = hi
      /\ w \in Nat \ {0} /\ w > 0 /\ Q \in Nat \ {0}
  <2>1. LowerOf(lo, hi) = lo /\ UpperOf(lo, hi) = hi
    BY SortedPair, SMT
  <2>2. w \in Nat \ {0} /\ w > 0
    BY SMT
  <2>3. Q \in Nat \ {0}
    BY QAssumption, SMT
  <2> QED BY <2>1, <2>2, <2>3
<1>2. L \in Nat /\ L * w <= amount * Q
  BY <1>1, MulDivFloorBracket
<1>3. ASSUME NEW l \in 0 .. L PROVE DeltaAmount1(lo, hi, l, TRUE) <= amount
  <2> HIDE DEF L
  <2>1. l \in Nat /\ l <= L /\ lo <= hi
    BY <1>2, SMT
  <2>2. l * w <= amount * Q
    <3> HIDE DEF w
    <3>1. l * w <= L * w
      BY <1>1, <1>2, <2>1, ProductMonotone
    <3>2. l * w \in Nat /\ L * w \in Nat /\ amount * Q \in Nat
      BY <1>1, <1>2, <2>1, ProductNat
    <3> QED BY <1>2, <3>1, <3>2, SMT
  <2> QED BY <2>1, <2>2, Range1
<1> HIDE DEF L
<1>4. GetLiquidityFromAmount1(lo, hi, amount) = Unwrapped(L)
  BY <1>1 DEF GetLiquidityFromAmount1, L
<1> QED BY <1>2, <1>3, <1>4, SizedOrPanic

(* In particular the liquidity answered itself is paid for by the amount.    *)
LEMMA SizedAffordable ==
  ASSUME NEW lo \in Nat \ {0}, NEW hi \in Nat \ {0}, lo < hi, NEW amount \in Nat
  PROVE  /\ LET x == GetLiquidityFromAmount0(lo, hi, amount)
            IN  x.tag = "ok" => /\ x.liquidity \in Nat
                                /\ DeltaAmount0(lo, hi, x.liquidity, TRUE) <= amount
         /\ LET x == GetLiquidityFromAmount1(lo, hi, amount)
            IN  x.tag = "ok" => /\ x.liquidity \in Nat
                                /\ DeltaAmount1(lo, hi, x.liquidity, TRUE) <= amount
<1> DEFINE x0 == GetLiquidityFromAmount0(lo, hi, amount)
           x1 == GetLiquidityFromAmount1(lo, hi, amount)
<1>1. \A L \in Nat : L \in 0 .. L
  BY SMT
<1>2. \/ x0 = Panic
      \/ \E L \in Nat : /\ x0 = LiquidityOk(L)
                        /\ \A l \in 0 .. L : DeltaAmount0(lo, hi, l, TRUE) <= amount
  BY Liquidity0Affordable
<1>3. \/ x1 = Panic
      \/ \E L \in Nat : /\ x1 = LiquidityOk(L)
                        /\ \A l \in 0 .. L : DeltaAmount1(lo, hi, l, TRUE) <= amount
  BY Liquidity1Affordable
<1>4. Panic.tag # "ok" /\ \A L \in Nat : LiquidityOk(L).liquidity = L
  BY SizedOrPanic
<1> HIDE DEF x0, x1
<1>5. x0.tag = "ok" => /\ x0.liquidity \in Nat
                       /\ DeltaAmount0(lo, hi, x0.liquidity, TRUE) <= amount
  BY <1>1, <1>2, <1>4, Zenon
<1>6. x1.tag = "ok" => /\ x1.liquidity \in Nat
                       /\ DeltaAmount1(lo, hi, x1.liquidity, TRUE) <= amount
  BY <1>1, <1>3, <1>4, Zenon
<1> QED BY <1>5, <1>6 DEF x0, x1

-----------------------------------------------------------------------------
(* The price of the pool and its tick *)

(* The looked-up tick tells on which side of every other tick a price lies.  *)
LEMMA TickSide ==
  ASSUME NEW p \in Nat, NEW t \in Ticks, IsTickAtSqrtPrice(p, t), NEW s \in Ticks
  PROVE  /\ s <= t => SqrtPriceAt[s] <= p
         /\ t < s => p < SqrtPriceAt[s]
<1>1. /\ t \in Int /\ s \in Int /\ t + 1 \in Ticks
      /\ SqrtPriceAt[t] <= p /\ p < SqrtPriceAt[t + 1]
  BY TickDomain, SMT DEF IsTickAtSqrtPrice, Ticks
<1>2. CASE s <= t
  <2>1. /\ SqrtPriceAt[s] \in Nat /\ SqrtPriceAt[t] \in Nat
        /\ SqrtPriceAt[s] <= SqrtPriceAt[t]
    BY <1>2, TableMonotone
  <2> QED BY <1>1, <1>2, <2>1, SMT
<1>3. CASE t < s
  <2>1. t + 1 <= s
    BY <1>1, <1>3, SMT
  <2>2. /\ SqrtPriceAt[t + 1] \in Nat /\ SqrtPriceAt[s] \in Nat
        /\ SqrtPriceAt[t + 1] <= SqrtPriceAt[s]
    BY <1>1, <2>1, TableMonotone
  <2> QED BY <1>1, <1>3, <2>2, SMT
<1> QED BY <1>1, <1>2, <1>3, SMT

(* Nothing is due for liquidity over no range, or for none. *)
LEMMA NothingDue ==
  ASSUME NEW a \in Nat \ {0}, NEW b \in Nat \ {0}, a <= b, NEW l \in Nat,
         NEW zero \in Nat, zero = 0
  PROVE  /\ DeltaAmount1(a, a, l, TRUE) = 0
         /\ DeltaAmount0(a, b, zero, TRUE) = 0 /\ DeltaAmount1(a, b, zero, TRUE) = 0
<1>1. a \in Nat /\ b \in Nat /\ Q \in Nat /\ a <= a
  BY QAssumption, SMT
<1>2. DeltaAmount1(a, a, l, TRUE) \in Nat /\ DeltaAmount1(a, a, l, TRUE) <= zero
  <2>1. l * (a - a) <= zero * Q
    BY <1>1, SMT
  <2> QED BY <1>1, <2>1, Range1
<1>3. DeltaAmount1(a, b, zero, TRUE) \in Nat /\ DeltaAmount1(a, b, zero, TRUE) <= zero
  <2>1. zero * (b - a) <= zero * Q
    BY <1>1, SMT
  <2> QED BY <1>1, <2>1, Range1
<1>4. DeltaAmount0(a, b, zero, TRUE) \in Nat /\ DeltaAmount0(a, b, zero, TRUE) <= zero
  <2>1. a * b \in Nat
    BY ProductNat
  <2>2. (zero * Q) * (b - a) = 0 /\ zero * (a * b) = 0
    BY <1>1, <2>1, SMT
  <2>3. (zero * Q) * (b - a) <= zero * (a * b)
    BY <2>2, SMT
  <2> QED BY <2>3, Range0
<1>5. \A n \in Nat : n <= zero => n = 0
  BY SMT
<1> QED BY <1>2, <1>3, <1>4, <1>5, Zenon

(* Liquidity added is priced rounding up. *)
LEMMA AddedRoundsUp ==
  ASSUME NEW a, NEW b, NEW l \in Nat
  PROVE  /\ DeltaAmount0Signed(a, b, l) = DeltaAmount0(a, b, l, TRUE)
         /\ DeltaAmount1Signed(a, b, l) = DeltaAmount1(a, b, l, TRUE)
<1>1. ~(l < 0)
  BY SMT
<1> QED BY <1>1 DEF DeltaAmount0Signed, DeltaAmount1Signed

(* The price between swaps is one of the domain, and the tick is its tick.   *)
AtRest ==
  /\ sqrt_price \in Nat /\ tick \in Ticks
  /\ IsTickAtSqrtPrice(sqrt_price, tick)

(* Whatever the side of the range the price is on, the three sizings fit the *)
(* tokens they are sized from.                                               *)
LEMMA OfferCovers ==
  ASSUME AtRest, NEW sizing \in Sizings, NEW range \in Ranges, NEW offer \in Offers,
         Minted(sizing, range, offer).tag = "ok"
  PROVE  LET cost == Amounts0And1(tick, sqrt_price, range[1], range[2],
                                  Minted(sizing, range, offer).liquidity)
         IN  /\ sizing # "amount1" => cost[1] <= offer[1]
             /\ sizing # "amount0" => cost[2] <= offer[2]
<1> DEFINE p == sqrt_price
           lower == range[1]
           upper == range[2]
           a == SqrtPriceAt[lower]
           b == SqrtPriceAt[upper]
           minted == Minted(sizing, range, offer)
           l == minted.liquidity
           cost == Amounts0And1(tick, p, lower, upper, l)
           offer0 == offer[1]
           offer1 == offer[2]
<1>1. lower \in Ticks /\ upper \in Ticks /\ lower < upper
  BY PoolLedgerAssumption
<1>2. offer0 \in Nat /\ offer1 \in Nat
  <2>1. offer \in U64 \X U64
    BY PoolLedgerAssumption
  <2>2. offer0 \in U64 /\ offer1 \in U64
    BY <2>1
  <2> QED BY <2>2, SMT DEF U64
<1>3. a \in Nat \ {0} /\ b \in Nat \ {0} /\ a < b
  <2>1. lower \in Int /\ upper \in Int
    BY <1>1, TickDomain
  <2>2. lower <= upper /\ lower # upper
    BY <1>1, <2>1, SMT
  <2> HIDE DEF lower, upper
  <2> QED BY <1>1, <2>2, TablePrices, TableMonotone
<1>4. p \in Nat /\ tick \in Ticks /\ IsTickAtSqrtPrice(p, tick)
  BY DEF AtRest
<1>5. tick \in Int /\ lower \in Int /\ upper \in Int
  BY <1>1, <1>4, TickDomain
<1>6. /\ lower <= tick => a <= p
      /\ tick < lower => p < a
      /\ upper <= tick => b <= p
      /\ tick < upper => p < b
  BY <1>1, <1>4, TickSide
<1>7. LowerOf(a, b) = a /\ UpperOf(a, b) = b
  <2> HIDE DEF a, b
  <2>1. a \in Nat /\ b \in Nat /\ a <= b
    BY <1>3, SMT
  <2> QED BY <2>1, SortedPair
<1>8. minted = CASE sizing = "amounts" -> GetLiquidityFromAmounts(p, a, b, offer0, offer1)
                 [] sizing = "amount0" -> GetLiquidityFromSingleAmount0(p, a, b, offer0)
                 [] sizing = "amount1" -> GetLiquidityFromSingleAmount1(p, a, b, offer1)
  BY DEF Minted
<1>9. minted.tag = "ok"
  OBVIOUS
<1>10. /\ LiquidityOk(0).liquidity = 0 /\ Panic.tag # "ok"
       /\ \A L \in Nat : LiquidityOk(L).liquidity = L
  BY SizedOrPanic
<1> DEFINE x0 == GetLiquidityFromAmount0(a, b, offer0)
           x1 == GetLiquidityFromAmount1(a, b, offer1)
<1>11. x0.tag = "ok" => /\ x0.liquidity \in Nat
                        /\ DeltaAmount0(a, b, x0.liquidity, TRUE) <= offer0
  <2> HIDE DEF a, b, offer0
  <2> QED BY <1>2, <1>3, SizedAffordable
<1>12. x1.tag = "ok" => /\ x1.liquidity \in Nat
                        /\ DeltaAmount1(a, b, x1.liquidity, TRUE) <= offer1
  <2> HIDE DEF a, b, offer1
  <2> QED BY <1>2, <1>3, SizedAffordable
<1>13. sizing \in {"amounts", "amount0", "amount1"}
  BY DEF Sizings
<1>14. cost = CASE tick < lower -> <<DeltaAmount0Signed(a, b, l), 0>>
                [] lower <= tick /\ tick < upper ->
                     <<DeltaAmount0Signed(p, b, l), DeltaAmount1Signed(a, p, l)>>
                [] lower <= tick /\ upper <= tick -> <<0, DeltaAmount1Signed(a, b, l)>>
  BY DEF Amounts0And1
<1>15. /\ a <= b /\ a \in Nat /\ b \in Nat
       /\ a <= p => p \in Nat \ {0}
  BY <1>3, <1>4, SMT
<1>16. SUFFICES /\ sizing # "amount1" => cost[1] <= offer0
                /\ sizing # "amount0" => cost[2] <= offer1
  OBVIOUS
<1> HIDE DEF p, lower, upper, a, b, minted, l, cost, offer0, offer1, x0, x1
<1>17. ASSUME p <= a
       PROVE  /\ l \in Nat
              /\ sizing # "amount1" => DeltaAmount0(a, b, l, TRUE) <= offer0
              /\ sizing = "amount1" => l = 0
  <2>1. ~(a < p) /\ ~(p >= b) /\ p <= LowerOf(a, b) /\ ~(LowerOf(a, b) < p)
        /\ ~(p >= UpperOf(a, b))
    BY <1>3, <1>4, <1>7, <1>15, <1>17, SMT
  <2>2. CASE sizing = "amounts"
    <3>1. minted = x0
      BY <1>8, <2>1, <2>2, Zenon DEF GetLiquidityFromAmounts, x0
    <3> QED BY <1>9, <1>11, <2>2, <3>1 DEF l
  <2>3. CASE sizing = "amount0"
    <3>1. minted = x0
      BY <1>8, <2>1, <2>3, Zenon DEF GetLiquidityFromSingleAmount0, x0
    <3> QED BY <1>9, <1>11, <2>3, <3>1 DEF l
  <2>4. CASE sizing = "amount1"
    <3>1. minted = LiquidityOk(0)
      BY <1>8, <2>1, <2>4, Zenon DEF GetLiquidityFromSingleAmount1
    <3> QED BY <1>10, <2>4, <3>1 DEF l
  <2> QED BY <1>13, <2>2, <2>3, <2>4
<1>18. CASE tick < lower
  <2>1. p <= a
    BY <1>4, <1>6, <1>15, <1>18, SMT
  <2>2. ~(lower <= tick)
    BY <1>5, <1>18, SMT
  <2>3. l \in Nat
    BY <1>17, <2>1
  <2>4. cost = <<DeltaAmount0Signed(a, b, l), 0>>
    BY <1>14, <1>18, <2>2, Zenon
  <2>5. cost[1] = DeltaAmount0(a, b, l, TRUE) /\ cost[2] = 0
    BY <2>3, <2>4, AddedRoundsUp
  <2>6. 0 <= offer1
    BY <1>2, SMT
  <2> QED BY <1>17, <2>1, <2>5, <2>6
<1>19. CASE lower <= tick /\ tick < upper
  <2>1. a <= p /\ p < b /\ p \in Nat \ {0}
    BY <1>6, <1>15, <1>19
  <2>2. ~(tick < lower) /\ ~(upper <= tick)
    BY <1>5, <1>19, SMT
  <2>3. cost = <<DeltaAmount0Signed(p, b, l), DeltaAmount1Signed(a, p, l)>>
    BY <1>14, <1>19, <2>2, Zenon
  <2>4. l \in Nat => /\ cost[1] = DeltaAmount0(p, b, l, TRUE)
                     /\ cost[2] = DeltaAmount1(a, p, l, TRUE)
    BY <2>3, AddedRoundsUp
  <2>5. CASE p = a
    <3>1. p <= a
      BY <1>4, <2>5, SMT
    <3>2. l \in Nat
      BY <1>17, <3>1
    <3>3. DeltaAmount1(a, p, l, TRUE) = 0
      BY <1>3, <1>15, <2>5, <3>2, NothingDue
    <3>4. 0 <= offer1
      BY <1>2, SMT
    <3> QED BY <1>17, <2>4, <2>5, <3>1, <3>2, <3>3, <3>4
  <2>6. CASE a < p
    <3> DEFINE y0 == GetLiquidityFromAmount0(p, b, offer0)
               y1 == GetLiquidityFromAmount1(a, p, offer1)
    <3>1. \/ y0 = Panic
          \/ \E L \in Nat : /\ y0 = LiquidityOk(L)
                            /\ \A k \in 0 .. L : DeltaAmount0(p, b, k, TRUE) <= offer0
      BY <1>2, <1>3, <2>1, Liquidity0Affordable
    <3>2. \/ y1 = Panic
          \/ \E L \in Nat : /\ y1 = LiquidityOk(L)
                            /\ \A k \in 0 .. L : DeltaAmount1(a, p, k, TRUE) <= offer1
      BY <1>2, <1>3, <2>1, <2>6, Liquidity1Affordable
    <3>3. ~(p <= a) /\ ~(p >= b) /\ ~(p <= LowerOf(a, b)) /\ LowerOf(a, b) < p
          /\ p < UpperOf(a, b) /\ ~(p >= UpperOf(a, b))
      BY <1>3, <1>4, <1>7, <1>15, <2>1, <2>6, SMT
    <3>4. \A L \in Nat : L \in 0 .. L
      BY SMT
    <3> HIDE DEF y0, y1
    <3>5. CASE sizing = "amounts"
      <4>1. minted = LesserLiquidity(y0, y1)
        <5>1. minted = GetLiquidityFromAmounts(p, a, b, offer0, offer1)
          BY <1>8, <3>5, Zenon
        <5>2. GetLiquidityFromAmounts(p, a, b, offer0, offer1)
                = LesserLiquidity(GetLiquidityFromAmount0(p, UpperOf(a, b), offer0),
                                  GetLiquidityFromAmount1(LowerOf(a, b), p, offer1))
          BY <3>3, Zenon DEF GetLiquidityFromAmounts
        <5> QED BY <1>7, <5>1, <5>2 DEF y0, y1
      <4>2. y0 # Panic /\ y1 # Panic
        BY <1>9, <1>10, <4>1 DEF LesserLiquidity
      <4>3. PICK L0 \in Nat : /\ y0 = LiquidityOk(L0)
                              /\ \A k \in 0 .. L0 : DeltaAmount0(p, b, k, TRUE) <= offer0
        BY <3>1, <4>2
      <4>4. PICK L1 \in Nat : /\ y1 = LiquidityOk(L1)
                              /\ \A k \in 0 .. L1 : DeltaAmount1(a, p, k, TRUE) <= offer1
        BY <3>2, <4>2
      <4>5. minted = LiquidityOk(LowerOf(L0, L1))
        BY <1>10, <4>1, <4>2, <4>3, <4>4 DEF LesserLiquidity
      <4>6. /\ LowerOf(L0, L1) \in Nat
            /\ LowerOf(L0, L1) \in 0 .. L0 /\ LowerOf(L0, L1) \in 0 .. L1
        BY SMT DEF LowerOf
      <4>7. l = LowerOf(L0, L1)
        BY <1>10, <4>5, <4>6 DEF l
      <4> QED BY <2>4, <4>3, <4>4, <4>6, <4>7
    <3>6. CASE sizing = "amount0"
      <4>1. minted = y0
        <5>1. minted = GetLiquidityFromSingleAmount0(p, a, b, offer0)
          BY <1>8, <3>6, Zenon
        <5>2. GetLiquidityFromSingleAmount0(p, a, b, offer0)
                = GetLiquidityFromAmount0(p, UpperOf(a, b), offer0)
          BY <3>3, Zenon DEF GetLiquidityFromSingleAmount0
        <5> QED BY <1>7, <5>1, <5>2 DEF y0
      <4>2. PICK L \in Nat : /\ y0 = LiquidityOk(L)
                             /\ \A k \in 0 .. L : DeltaAmount0(p, b, k, TRUE) <= offer0
        BY <1>9, <1>10, <3>1, <4>1
      <4>3. l = L
        BY <1>10, <4>1, <4>2 DEF l
      <4> QED BY <2>4, <3>4, <3>6, <4>2, <4>3
    <3>7. CASE sizing = "amount1"
      <4>1. minted = y1
        <5>1. minted = GetLiquidityFromSingleAmount1(p, a, b, offer1)
          BY <1>8, <3>7, Zenon
        <5>2. GetLiquidityFromSingleAmount1(p, a, b, offer1)
                = GetLiquidityFromAmount1(LowerOf(a, b), p, offer1)
          BY <3>3, Zenon DEF GetLiquidityFromSingleAmount1
        <5> QED BY <1>7, <5>1, <5>2 DEF y1
      <4>2. PICK L \in Nat : /\ y1 = LiquidityOk(L)
                             /\ \A k \in 0 .. L : DeltaAmount1(a, p, k, TRUE) <= offer1
        BY <1>9, <1>10, <3>2, <4>1
      <4>3. l = L
        BY <1>10, <4>1, <4>2 DEF l
      <4> QED BY <2>4, <3>4, <3>7, <4>2, <4>3
    <3> QED BY <1>13, <3>5, <3>6, <3>7
  <2>7. p = a \/ a < p
    BY <1>4, <1>15, <2>1, SMT
  <2> QED BY <2>5, <2>6, <2>7
<1>20. CASE lower <= tick /\ upper <= tick
  <2>1. ~(tick < lower) /\ ~(tick < upper)
    BY <1>5, <1>20, SMT
  <2>2. ~(p <= LowerOf(a, b)) /\ ~(p < UpperOf(a, b)) /\ p >= UpperOf(a, b)
    BY <1>3, <1>4, <1>6, <1>7, <1>15, <1>20, SMT
  <2>3. cost = <<0, DeltaAmount1Signed(a, b, l)>>
    BY <1>14, <1>20, <2>1, Zenon
  <2>4. /\ l \in Nat
        /\ sizing # "amount0" => DeltaAmount1(a, b, l, TRUE) <= offer1
    <3>1. CASE sizing = "amounts"
      <4>1. minted = x1
        BY <1>8, <2>2, <3>1, Zenon DEF GetLiquidityFromAmounts, x1
      <4> QED BY <1>9, <1>12, <4>1 DEF l
    <3>2. CASE sizing = "amount0"
      <4>1. minted = LiquidityOk(0)
        BY <1>8, <2>2, <3>2, Zenon DEF GetLiquidityFromSingleAmount0
      <4> QED BY <1>10, <3>2, <4>1 DEF l
    <3>3. CASE sizing = "amount1"
      <4>1. minted = x1
        BY <1>8, <2>2, <3>3, Zenon DEF GetLiquidityFromSingleAmount1, x1
      <4> QED BY <1>9, <1>12, <4>1 DEF l
    <3> QED BY <1>13, <3>1, <3>2, <3>3
  <2>5. cost[1] = 0 /\ cost[2] = DeltaAmount1(a, b, l, TRUE)
    BY <2>3, <2>4, AddedRoundsUp
  <2>6. 0 <= offer0
    BY <1>2, SMT
  <2> QED BY <2>4, <2>5, <2>6
<1> QED
  <2>1. tick < lower \/ (lower <= tick /\ tick < upper) \/ (lower <= tick /\ upper <= tick)
    BY <1>5, SMT
  <2> QED BY <1>18, <1>19, <1>20, <2>1

-----------------------------------------------------------------------------
(* Every price a swap leaves *)

(***************************************************************************)
(* The price and tick of the pool belong together.  They come from the     *)
(* answer of a swap, so that has to be a price; and the answer from the    *)
(* price of the walk, which the limit of the call bounds.  Nothing else of *)
(* the walk matters: liquidity, limits and fees may be anything.           *)
(***************************************************************************)
LedgerInv ==
  /\ AtRest
  /\ pc \in {"loop", "return"} => sp_current \in Nat /\ SpLimit \in Nat
  /\ pc = "done" /\ result.tag = "ok" => result.price \in Nat

(* A step leaves a price: the target, or one it has checked.                 *)
LEMMA StepLeavesPrice ==
  ASSUME NEW p, NEW target \in Nat, NEW l, NEW amount, NEW rate, NEW base, NEW down,
         ComputeSwapStep(p, target, l, amount, rate, base, down).tag = "ok"
  PROVE  ComputeSwapStep(p, target, l, amount, rate, base, down).next \in Nat
<1> DEFINE step    == ComputeSwapStep(p, target, l, amount, rate, base, down)
           budget  == StepBudget(amount, rate, base)
           range   == CalculateAmountInRange(p, target, l, down, base)
           reached == ReachesTarget(p, target, l, budget, base, down)
           next    == NextSqrtPrice(p, target, l, budget, base, down)
           max     == target = next
           in      == IF max /\ base THEN Prefilled(range) ELSE AmountIn(p, next, l, down)
           raw     == IF max /\ ~base THEN Prefilled(range) ELSE AmountOut(p, next, l, down)
           out     == IF ~base /\ raw > amount THEN amount ELSE raw
           fee     == StepFee(max, amount, in, rate, base)
<1>1. step = IF ~reached /\ (l = 0 \/ next \notin 1 .. U128Max) THEN Panic
             ELSE Reported(next, in, raw, out, fee)
  BY Zenon DEF ComputeSwapStep
<1>2. reached => next = target
  BY DEF NextSqrtPrice
<1>3. 1 .. U128Max \subseteq Nat
  BY SMT
<1>4. Panic.tag # "ok"
  BY DEF Panic
<1>5. step.tag = "ok"
  OBVIOUS
<1> HIDE DEF step, reached, next, in, raw, out, fee
<1>6. step = Reported(next, in, raw, out, fee) /\ next \in Nat
  <2>1. ~(~reached /\ (l = 0 \/ next \notin 1 .. U128Max))
    BY <1>1, <1>4, <1>5
  <2> QED BY <1>1, <1>2, <1>3, <2>1
<1>7. step.next = next
  <2>1. Err("MaxTokenOverflow").tag # "ok"
    BY DEF Err
  <2>2. Reported(next, in, raw, out, fee) = StepOk(next, in, out, fee)
    BY <1>4, <1>5, <1>6, <2>1, Zenon DEF Reported
  <2>3. StepOk(next, in, out, fee).next = next
    BY DEF StepOk
  <2> QED BY <1>6, <2>2, <2>3
<1> QED BY <1>6, <1>7 DEF step

(* The prices between which every limit resolves.                            *)
LEMMA LimitIsPrice ==
  ASSUME NEW limit \in Limits, NEW down \in BOOLEAN
  PROVE  ResolvedLimit(limit, down) \in Nat
<1>1. limit \in Nat
  <2>1. limit \in U128
    BY SwapFullAssumption
  <2> QED BY <2>1, SMT DEF U128
<1>2. MIN_SQRT_PRICE_X64 \in Nat \ {0} /\ MAX_SQRT_PRICE_X64 \in Nat \ {0}
  BY TickDomain, TablePrices DEF MIN_SQRT_PRICE_X64, MAX_SQRT_PRICE_X64
<1> QED BY <1>1, <1>2, SMT DEF ResolvedLimit

(* An iteration that goes on leaves a price.                                 *)
LEMMA WalkLeavesPrice ==
  ASSUME LedgerInv, NEW t \in Ticks, Iterating(t), Failure(StepTo(t), t).tag = "ok",
         sp_current' = StepTo(t).next
  PROVE  sp_current' \in Nat
<1>1. SpLimit \in Nat
  BY DEF LedgerInv, Iterating
<1>2. SqrtPriceAt[t] \in Nat
  BY TablePrices
<1>3. TargetPrice(t) \in Nat
  BY <1>1, <1>2, SortedPair DEF TargetPrice
<1>4. StepTo(t).tag = "ok"
  BY FailureArms
<1> QED BY <1>3, <1>4, StepLeavesPrice DEF StepTo

(* The pool starts at a price and its tick.                                  *)
LEMMA LedgerStarts == LedgerInit => LedgerInv
<1> SUFFICES ASSUME LedgerInit PROVE LedgerInv
  OBVIOUS
<1>1. sqrt_price \in MIN_SQRT_PRICE_X64 + 1 .. MAX_SQRT_PRICE_X64 - 1
  BY PoolLedgerAssumption DEF LedgerInit
<1>2. sqrt_price \in Nat
  <2>1. MIN_SQRT_PRICE_X64 \in Nat /\ MAX_SQRT_PRICE_X64 \in Nat
    BY TickDomain, TablePrices DEF MIN_SQRT_PRICE_X64, MAX_SQRT_PRICE_X64
  <2> QED BY <1>1, <2>1, SMT
<1>3. tick \in Ticks /\ IsTickAtSqrtPrice(sqrt_price, tick)
  BY DEF LedgerInit
<1>4. pc = "idle"
  BY DEF LedgerInit, Init
<1> QED BY <1>2, <1>3, <1>4 DEF LedgerInv, AtRest

(* One step of the ledger after another. *)
LEMMA LedgerKeepsInv == LedgerInv /\ [LedgerNext]_ledger => LedgerInv'
<1> SUFFICES ASSUME LedgerInv, [LedgerNext]_ledger PROVE LedgerInv'
  OBVIOUS
<1> USE DEF LedgerInv
<1>1. ASSUME UNCHANGED <<sqrt_price, tick, swap>> PROVE LedgerInv'
  BY <1>1 DEF AtRest, swap, locals, SpLimit
<1>2. ASSUME NEW owner \in Owners, NEW sizing \in Sizings, NEW range \in Ranges,
             NEW offer \in Offers, OpenPosition(owner, sizing, range, offer)
      PROVE  LedgerInv'
  BY <1>1, <1>2 DEF OpenPosition
<1>3. ASSUME NEW position \in positions,
             NEW part \in {position.liquidity, position.liquidity \div 2} \ {0},
             RemoveLiquidity(position, part)
      PROVE  LedgerInv'
  BY <1>1, <1>3 DEF RemoveLiquidity
<1>4. ASSUME NEW feeRate \in FeeRates, NEW amount \in Amounts, NEW limit \in Limits,
             NEW isBaseInput \in BOOLEAN, NEW zeroForOne \in BOOLEAN,
             StartSwap(feeRate, amount, limit, isBaseInput, zeroForOne)
      PROVE  LedgerInv'
  <2>1. Start(BookOf(positions), sqrt_price, tick, feeRate, amount, limit,
              isBaseInput, zeroForOne) /\ UNCHANGED pool
    BY <1>4 DEF StartSwap
  <2>2. AtRest' /\ sqrt_price \in Nat
    BY <2>1 DEF AtRest, pool
  <2>3. pc' = "loop" /\ sp_current' = sqrt_price /\ call'.limit = limit
        /\ call'.zeroForOne = zeroForOne
    BY <2>1 DEF Start
  <2>4. SpLimit' \in Nat
    BY <2>3, LimitIsPrice DEF SpLimit
  <2> QED BY <2>2, <2>3, <2>4
<1>5. ASSUME Walk PROVE LedgerInv'
  <2>1. AtRest' /\ Iterate
    BY <1>5 DEF Walk, AtRest, pool
  <2>2. ASSUME call' = call, pc \in {"loop", "return"} PROVE SpLimit' \in Nat
    BY <2>2 DEF SpLimit
  <2>3. Err("SqrtPriceLimitOverflow").tag # "ok"
    BY DEF Err
  <2>4. CASE StepCapReached
    BY <2>1, <2>3, <2>4 DEF StepCapReached
  <2>5. ASSUME NEW t \in Ticks, IterationFails(t) PROVE LedgerInv'
    BY <2>1, <2>5 DEF IterationFails
  <2>6. ASSUME NEW t \in Ticks, CrossTick(t) PROVE LedgerInv'
    <3>1. /\ Iterating(t) /\ Failure(StepTo(t), t).tag = "ok"
          /\ sp_current' = StepTo(t).next /\ pc' = pc /\ call' = call
      BY <2>6 DEF CrossTick, Account
    <3> QED BY <2>1, <2>2, <3>1, WalkLeavesPrice DEF Iterating
  <2>7. ASSUME NEW t \in Ticks, StopAtLimit(t) PROVE LedgerInv'
    <3>1. /\ Iterating(t) /\ Failure(StepTo(t), t).tag = "ok"
          /\ sp_current' = StepTo(t).next /\ pc' = "return" /\ call' = call
      BY <2>7 DEF StopAtLimit, Account
    <3> QED BY <2>1, <2>2, <3>1, WalkLeavesPrice DEF Iterating
  <2>8. ASSUME NEW t \in Ticks, StayInRange(t) PROVE LedgerInv'
    <3>1. /\ Iterating(t) /\ Failure(StepTo(t), t).tag = "ok"
          /\ sp_current' = StepTo(t).next /\ pc' = pc /\ call' = call
      BY <2>8 DEF StayInRange, Account
    <3> QED BY <2>1, <2>2, <3>1, WalkLeavesPrice DEF Iterating
  <2>9. CASE Return
    <3>1. pc' = "done" /\ result'.price = sp_current /\ pc \in {"loop", "return"}
      BY <2>9 DEF Return
    <3> QED BY <2>1, <3>1
  <2> QED BY <2>1, <2>4, <2>5, <2>6, <2>7, <2>8, <2>9 DEF Iterate
<1>6. ASSUME SettleSwap PROVE LedgerInv'
  <2>1. result.price \in Nat
    BY <1>6 DEF SettleSwap, AccountsTakeResult
  <2>2. pc' = "idle" /\ sqrt_price' = result.price
    BY <1>6 DEF SettleSwap, NoSwap
  <2>3. tick' \in Ticks /\ IsTickAtSqrtPrice(sqrt_price', tick')
    BY <1>6 DEF SettleSwap
  <2> QED BY <2>1, <2>2, <2>3 DEF AtRest, IsTickAtSqrtPrice
<1>7. ASSUME DropSwap PROVE LedgerInv'
  BY <1>7 DEF DropSwap, NoSwap, AtRest
<1>8. ASSUME UNCHANGED ledger PROVE LedgerInv'
  BY <1>1, <1>8 DEF ledger, pool
<1> QED BY <1>2, <1>3, <1>4, <1>5, <1>6, <1>7, <1>8 DEF LedgerNext

(***************************************************************************)
(* Between any deposits, withdrawals and swaps the pool's price is one of  *)
(* the price domain and its tick that of the price, though the caller      *)
(* takes the price a swap returns as it is.                                *)
(***************************************************************************)
THEOREM PoolStaysOnTable == LedgerSpec => []AtRest
<1>1. LedgerInv => AtRest
  BY DEF LedgerInv
<1> QED BY <1>1, LedgerStarts, LedgerKeepsInv, PTL DEF LedgerSpec

(***************************************************************************)
(* After any deposits, withdrawals and swaps, for every price table, range *)
(* and offer: the liquidity the sizing helpers compute from an offer costs *)
(* no more of either token sized from than is offered.                     *)
(***************************************************************************)
THEOREM SizedWithinOffer == LedgerSpec => []DepositWithinOffer
<1>1. AtRest => DepositWithinOffer
  BY OfferCovers DEF DepositWithinOffer
<1> QED BY <1>1, PoolStaysOnTable, PTL

-----------------------------------------------------------------------------
(* Liquidity taken out in parts *)

(* Over one range of prices, two parts are together paid no more than their  *)
(* sum would be, and the sum no more than it costs.                          *)
LEMMA PartsOverRange ==
  ASSUME NEW lo \in Nat \ {0}, NEW hi \in Nat \ {0}, lo <= hi, NEW m \in Nat, NEW n \in Nat
  PROVE  /\ DeltaAmount0(lo, hi, m, FALSE) + DeltaAmount0(lo, hi, n, FALSE)
              <= DeltaAmount0(lo, hi, m + n, TRUE)
         /\ DeltaAmount1(lo, hi, m, FALSE) + DeltaAmount1(lo, hi, n, FALSE)
              <= DeltaAmount1(lo, hi, m + n, TRUE)
<1> DEFINE k  == m + n
           w  == hi - lo
           c  == lo * hi
           m0 == DeltaAmount0(lo, hi, m, FALSE)
           n0 == DeltaAmount0(lo, hi, n, FALSE)
           k0 == DeltaAmount0(lo, hi, k, TRUE)
           m1 == DeltaAmount1(lo, hi, m, FALSE)
           n1 == DeltaAmount1(lo, hi, n, FALSE)
           k1 == DeltaAmount1(lo, hi, k, TRUE)
<1>1. k \in Nat /\ w \in Nat /\ Q \in Nat \ {0} /\ lo \in Nat /\ hi \in Nat
  BY QAssumption, SMT
<1>2. c \in Nat \ {0}
  BY SMT
<1>3. m0 \in Nat /\ n0 \in Nat /\ m0 * c <= (m * Q) * w /\ n0 * c <= (n * Q) * w
  BY Range0
<1>4. m1 \in Nat /\ n1 \in Nat /\ m1 * Q <= m * w /\ n1 * Q <= n * w
  BY <1>1, Range1
<1>5. k0 \in Nat /\ (k * Q) * w <= k0 * c
  <2> HIDE DEF k
  <2> QED BY <1>1, Range0
<1>6. k1 \in Nat /\ k * w <= k1 * Q
  <2> HIDE DEF k
  <2> QED BY <1>1, Range1
<1>7. (m * Q) * w + (n * Q) * w = (k * Q) * w /\ m * w + n * w = k * w
  <2> HIDE DEF w
  <2> QED BY <1>1, SMT
<1> HIDE DEF w, c, m0, n0, k0, m1, n1, k1, k
<1>8. m0 + n0 <= k0
  <2>1. (m0 + n0) * c <= k0 * c
    <3>1. (m0 + n0) * c = m0 * c + n0 * c
      BY <1>2, <1>3, SMT
    <3>2. (m * Q) * w \in Nat /\ (n * Q) * w \in Nat /\ (k * Q) * w \in Nat
          /\ m0 * c \in Nat /\ n0 * c \in Nat /\ k0 * c \in Nat
      BY <1>1, <1>2, <1>3, <1>5, ProductNat
    <3> DEFINE x == (m * Q) * w
               y == (n * Q) * w
               z == (k * Q) * w
               u == m0 * c
               v == n0 * c
               r == k0 * c
    <3> HIDE DEF x, y, z, u, v, r
    <3>3. u + v <= r
      <4>1. u <= x /\ v <= y /\ z <= r /\ x + y = z
        BY <1>3, <1>5, <1>7 DEF x, y, z, u, v, r
      <4>2. x \in Nat /\ y \in Nat /\ z \in Nat /\ u \in Nat /\ v \in Nat /\ r \in Nat
        BY <3>2 DEF x, y, z, u, v, r
      <4> QED BY <4>1, <4>2, SMT
    <3> QED BY <3>1, <3>3 DEF u, v, r
  <2> QED BY <1>2, <1>3, <1>5, <2>1, ProductCancel
<1>9. m1 + n1 <= k1
  <2>1. (m1 + n1) * Q <= k1 * Q
    <3>1. (m1 + n1) * Q = m1 * Q + n1 * Q
      BY <1>1, <1>4, SMT
    <3>2. m * w \in Nat /\ n * w \in Nat /\ k * w \in Nat
          /\ m1 * Q \in Nat /\ n1 * Q \in Nat /\ k1 * Q \in Nat
      BY <1>1, <1>4, <1>6, ProductNat
    <3> DEFINE x == m * w
               y == n * w
               z == k * w
               u == m1 * Q
               v == n1 * Q
               r == k1 * Q
    <3> HIDE DEF x, y, z, u, v, r
    <3>3. u + v <= r
      <4>1. u <= x /\ v <= y /\ z <= r /\ x + y = z
        BY <1>4, <1>6, <1>7 DEF x, y, z, u, v, r
      <4>2. x \in Nat /\ y \in Nat /\ z \in Nat /\ u \in Nat /\ v \in Nat /\ r \in Nat
        BY <3>2 DEF x, y, z, u, v, r
      <4> QED BY <4>1, <4>2, SMT
    <3> QED BY <3>1, <3>3 DEF u, v, r
  <2> QED BY <1>1, <1>4, <1>6, <2>1, ProductCancel
<1> QED BY <1>8, <1>9 DEF m0, n0, k0, m1, n1, k1, k

(* A removal is priced rounding down. *)
LEMMA RemovedRoundsDown ==
  ASSUME NEW a, NEW b, NEW l \in Nat \ {0}
  PROVE  /\ DeltaAmount0Signed(a, b, -l) = DeltaAmount0(a, b, l, FALSE)
         /\ DeltaAmount1Signed(a, b, -l) = DeltaAmount1(a, b, l, FALSE)
<1>1. -l < 0 /\ -(-l) = l
  BY SMT
<1> QED BY <1>1 DEF DeltaAmount0Signed, DeltaAmount1Signed

(***************************************************************************)
(* Whatever the side of the range the pool's price is on: liquidity added  *)
(* at it and taken out in two parts pays, of neither token, more than it   *)
(* cost, for any position and any liquidity: rounding each part on its own *)
(* never favours the owner.                                                *)
(***************************************************************************)
THEOREM PartsPayNoMore ==
  ASSUME AtRest, NEW range \in Ranges, NEW m \in Nat \ {0}, NEW n \in Nat \ {0}
  PROVE  LET amounts(delta) == Amounts0And1(tick, sqrt_price, range[1], range[2], delta)
         IN  /\ amounts(-m)[1] + amounts(-n)[1] <= amounts(m + n)[1]
             /\ amounts(-m)[2] + amounts(-n)[2] <= amounts(m + n)[2]
<1> DEFINE p == sqrt_price
           lower == range[1]
           upper == range[2]
           a == SqrtPriceAt[lower]
           b == SqrtPriceAt[upper]
           amounts(delta) == Amounts0And1(tick, p, lower, upper, delta)
           k == m + n
<1>1. lower \in Ticks /\ upper \in Ticks /\ lower < upper
  BY PoolLedgerAssumption
<1>2. p \in Nat /\ tick \in Ticks /\ IsTickAtSqrtPrice(p, tick)
  BY DEF AtRest
<1>3. tick \in Int /\ lower \in Int /\ upper \in Int
  BY <1>1, <1>2, TickDomain
<1>4. a \in Nat \ {0} /\ b \in Nat \ {0} /\ a <= b
  <2>1. lower <= upper
    BY <1>1, <1>3, SMT
  <2> HIDE DEF lower, upper
  <2> QED BY <1>1, <2>1, TablePrices, TableMonotone
<1>5. /\ lower <= tick => a <= p
      /\ tick < upper => p < b
  BY <1>1, <1>2, TickSide
<1>6. ASSUME NEW delta
      PROVE  amounts(delta) =
               CASE tick < lower -> <<DeltaAmount0Signed(a, b, delta), 0>>
                 [] lower <= tick /\ tick < upper ->
                      <<DeltaAmount0Signed(p, b, delta), DeltaAmount1Signed(a, p, delta)>>
                 [] lower <= tick /\ upper <= tick ->
                      <<0, DeltaAmount1Signed(a, b, delta)>>
  BY DEF Amounts0And1
<1>7. m \in Nat /\ n \in Nat /\ k \in Nat
  BY SMT
<1>8. SUFFICES /\ amounts(-m)[1] + amounts(-n)[1] <= amounts(k)[1]
               /\ amounts(-m)[2] + amounts(-n)[2] <= amounts(k)[2]
  OBVIOUS
<1>9. 0 + 0 <= 0
  BY SMT
<1> HIDE DEF p, lower, upper, a, b, amounts
<1>10. CASE tick < lower
  <2>1. ~(lower <= tick)
    BY <1>3, <1>10, SMT
  <2>2. \A delta : amounts(delta) = <<DeltaAmount0Signed(a, b, delta), 0>>
    BY <1>6, <1>10, <2>1, Zenon
  <2>3. /\ amounts(-m)[1] = DeltaAmount0(a, b, m, FALSE) /\ amounts(-m)[2] = 0
        /\ amounts(-n)[1] = DeltaAmount0(a, b, n, FALSE) /\ amounts(-n)[2] = 0
        /\ amounts(k)[1] = DeltaAmount0(a, b, k, TRUE) /\ amounts(k)[2] = 0
    BY <1>7, <2>2, RemovedRoundsDown, AddedRoundsUp
  <2> QED BY <1>4, <1>7, <1>9, <2>3, PartsOverRange
<1>11. CASE lower <= tick /\ tick < upper
  <2>1. ~(tick < lower) /\ ~(upper <= tick)
    BY <1>3, <1>11, SMT
  <2>2. \A delta : amounts(delta) = <<DeltaAmount0Signed(p, b, delta),
                                       DeltaAmount1Signed(a, p, delta)>>
    BY <1>6, <1>11, <2>1, Zenon
  <2>3. /\ amounts(-m)[1] = DeltaAmount0(p, b, m, FALSE)
        /\ amounts(-m)[2] = DeltaAmount1(a, p, m, FALSE)
        /\ amounts(-n)[1] = DeltaAmount0(p, b, n, FALSE)
        /\ amounts(-n)[2] = DeltaAmount1(a, p, n, FALSE)
        /\ amounts(k)[1] = DeltaAmount0(p, b, k, TRUE)
        /\ amounts(k)[2] = DeltaAmount1(a, p, k, TRUE)
    BY <1>7, <2>2, RemovedRoundsDown, AddedRoundsUp
  <2>4. p \in Nat \ {0} /\ a <= p /\ p <= b
    <3>1. a <= p /\ p < b
      BY <1>5, <1>11
    <3> QED BY <1>2, <1>4, <3>1, SMT
  <2> QED BY <1>4, <1>7, <2>3, <2>4, PartsOverRange
<1>12. CASE lower <= tick /\ upper <= tick
  <2>1. ~(tick < lower) /\ ~(tick < upper)
    BY <1>3, <1>12, SMT
  <2>2. \A delta : amounts(delta) = <<0, DeltaAmount1Signed(a, b, delta)>>
    BY <1>6, <1>12, <2>1, Zenon
  <2>3. /\ amounts(-m)[1] = 0 /\ amounts(-m)[2] = DeltaAmount1(a, b, m, FALSE)
        /\ amounts(-n)[1] = 0 /\ amounts(-n)[2] = DeltaAmount1(a, b, n, FALSE)
        /\ amounts(k)[1] = 0 /\ amounts(k)[2] = DeltaAmount1(a, b, k, TRUE)
    BY <1>7, <2>2, RemovedRoundsDown, AddedRoundsUp
  <2> QED BY <1>4, <1>7, <1>9, <2>3, PartsOverRange
<1> QED
  <2>1. tick < lower \/ (lower <= tick /\ tick < upper) \/ (lower <= tick /\ upper <= tick)
    BY <1>3, SMT
  <2> QED BY <1>10, <1>11, <1>12, <2>1

-----------------------------------------------------------------------------
(* What a position is owed at a price *)

(***************************************************************************)
(* The two tokens of liquidity l over a range, at a price x, before any    *)
(* rounding: l * (c - a) / Q of token 1 and l * Q * (b - c) / (c * b) of   *)
(* token 0, for the price c of the range nearest to x.  Quotients cannot   *)
(* be summed over positions here, so token 0 is counted in units of        *)
(* 1 / (Scale * x), with Scale a common multiple of the table's prices:    *)
(* in that unit, and token 1 in units of 1 / Q, every claim is an integer. *)
(***************************************************************************)
IsReciprocal(T, r, m) ==
  /\ m \in Nat \ {0} /\ r \in [T -> Nat \ {0}]
  /\ \A t \in T : r[t] * SqrtPriceAt[t] = m

Reciprocal == CHOOSE r : \E m : IsReciprocal(Ticks, r, m)
Scale      == CHOOSE m : IsReciprocal(Ticks, Reciprocal, m)

Near(t, x) == LowerOf(x, SqrtPriceAt[t])
Far(t, x)  == IF x <= SqrtPriceAt[t] THEN x * Reciprocal[t] ELSE Scale

Owed0(s, t, l, x) == (l * Q) * (Far(s, x) - Far(t, x))
Owed1(s, t, l, x) == l * (Near(t, x) - Near(s, x))

(* The price of the range from a to b nearest to x. *)
Clamped(a, b, x) == IF x <= a THEN a ELSE IF x <= b THEN x ELSE b

(* A common multiple of some prices is extended to one more of them. *)
LEMMA ReciprocalStep ==
  ASSUME NEW T \in SUBSET Ticks, NEW x \in T, NEW r, NEW m, IsReciprocal(T \ {x}, r, m)
  PROVE  \E r1, m1 : IsReciprocal(T, r1, m1)
<1> DEFINE P  == SqrtPriceAt
           r1 == [t \in T |-> IF t = x THEN m ELSE r[t] * P[x]]
           m1 == m * P[x]
<1>1. m \in Nat \ {0} /\ P[x] \in Nat \ {0}
  BY TablePrices DEF IsReciprocal
<1>2. m1 \in Nat \ {0}
  BY <1>1, SMT
<1>3. ASSUME NEW t \in T
      PROVE  r1[t] \in Nat \ {0} /\ r1[t] * P[t] = m1
  <2>1. CASE t = x
    BY <1>1, <2>1
  <2>2. CASE t # x
    <3>1. r[t] \in Nat \ {0} /\ r[t] * P[t] = m /\ P[t] \in Nat \ {0}
      BY <2>2, TablePrices DEF IsReciprocal
    <3>2. r1[t] = r[t] * P[x]
      BY <2>2
    <3>3. r[t] * P[x] \in Nat \ {0}
      BY <1>1, <3>1, SMT
    <3>4. (r[t] * P[x]) * P[t] = (r[t] * P[t]) * P[x]
      BY <1>1, <3>1, SMT
    <3> QED BY <3>1, <3>2, <3>3, <3>4
  <2> QED BY <2>1, <2>2
<1>4. r1 \in [T -> Nat \ {0}]
  BY <1>3
<1> HIDE DEF r1, m1
<1>5. IsReciprocal(T, r1, m1)
  BY <1>2, <1>3, <1>4 DEF IsReciprocal
<1> QED BY <1>5

(* The prices of the table have a common multiple. *)
LEMMA ScaleFacts ==
  /\ Scale \in Nat \ {0}
  /\ \A t \in Ticks : Reciprocal[t] \in Nat \ {0} /\ Reciprocal[t] * SqrtPriceAt[t] = Scale
<1> DEFINE G == {T \in SUBSET Ticks : \E r, m : IsReciprocal(T, r, m)}
<1>1. IsFiniteSet(Ticks)
  BY TickDomain, FS_Interval DEF Ticks
<1>2. ASSUME NEW T \in SUBSET Ticks, \A x \in T : T \ {x} \in G
      PROVE  T \in G
  <2>1. CASE T = {}
    <3>1. IsReciprocal(T, [t \in T |-> 1], 1)
      BY <2>1 DEF IsReciprocal
    <3> QED BY <3>1
  <2>2. CASE T # {}
    <3>1. PICK x \in T : TRUE
      BY <2>2
    <3>2. PICK r, m : IsReciprocal(T \ {x}, r, m)
      BY <1>2
    <3> QED BY <3>2, ReciprocalStep
  <2> QED BY <2>1, <2>2
<1>3. \A T \in SUBSET Ticks : T \in G
  <2> HIDE DEF G
  <2> QED BY <1>1, <1>2, SubsetInduction
<1>4. \E r, m : IsReciprocal(Ticks, r, m)
  BY <1>3
<1>5. \E m : IsReciprocal(Ticks, Reciprocal, m)
  BY <1>4 DEF Reciprocal
<1>6. IsReciprocal(Ticks, Reciprocal, Scale)
  BY <1>5 DEF Scale
<1> QED BY <1>6 DEF IsReciprocal

(* What is owed for a range is what the curve is worth between its prices    *)
(* and the nearest price of it.                                              *)
LEMMA OwedAt ==
  ASSUME NEW s \in Ticks, NEW t \in Ticks, s < t, NEW l \in Nat, NEW x \in Nat \ {0}
  PROVE  LET a == SqrtPriceAt[s]
             b == SqrtPriceAt[t]
             c == Clamped(a, b, x)
         IN  /\ a \in Nat \ {0} /\ b \in Nat \ {0} /\ c \in Nat \ {0}
             /\ a <= c /\ c <= b
             /\ Owed1(s, t, l, x) = l * (c - a)
             /\ Owed0(s, t, l, x) * (c * b) = ((l * Q) * (b - c)) * (Scale * x)
             /\ Owed0(s, t, l, x) \in Nat /\ Owed1(s, t, l, x) \in Nat
<1> DEFINE a == SqrtPriceAt[s]
           b == SqrtPriceAt[t]
           c == Clamped(a, b, x)
           m == Scale
           i == Reciprocal[s]
           j == Reciprocal[t]
           d == Far(s, x) - Far(t, x)
<1>1. a \in Nat \ {0} /\ b \in Nat \ {0} /\ a < b
  <2>1. s \in Int /\ t \in Int
    BY TickDomain
  <2>2. s <= t /\ s # t
    BY <2>1, SMT
  <2> QED BY <2>2, TablePrices, TableMonotone
<1>2. /\ m \in Nat \ {0} /\ i \in Nat \ {0} /\ j \in Nat \ {0}
      /\ i * a = m /\ j * b = m /\ Q \in Nat \ {0}
  BY ScaleFacts, QAssumption
<1>3. /\ Far(s, x) = IF x <= a THEN x * i ELSE m
      /\ Far(t, x) = IF x <= b THEN x * j ELSE m
      /\ Near(s, x) = LowerOf(x, a)
      /\ Near(t, x) = LowerOf(x, b)
      /\ c = IF x <= a THEN a ELSE IF x <= b THEN x ELSE b
  BY DEF Far, Near, Clamped
<1>4. /\ Owed0(s, t, l, x) = (l * Q) * d
      /\ Owed1(s, t, l, x) = l * (Near(t, x) - Near(s, x))
  BY DEF Owed0, Owed1
<1> HIDE DEF a, b, c, m, i, j, d
<1>5. /\ c \in Nat \ {0} /\ a <= c /\ c <= b
      /\ Near(t, x) - Near(s, x) = c - a
  BY <1>1, <1>3, SMT DEF LowerOf
<1>6. d \in Int /\ d * (c * b) = (b - c) * (m * x)
  <2> DEFINE u == Far(s, x)
             v == Far(t, x)
  <2>1. d = u - v /\ u = (IF x <= a THEN x * i ELSE m) /\ v = (IF x <= b THEN x * j ELSE m)
    BY <1>3 DEF d
  <2> HIDE DEF u, v
  <2>2. CASE x <= a
    <3>1. c = a /\ u = x * i /\ v = x * j
      BY <1>1, <1>3, <2>1, <2>2, SMT
    <3>2. d \in Int
      BY <1>2, <2>1, <3>1, SMT
    <3>3. d * (c * b) = (x * b) * (i * a) - (x * a) * (j * b)
      BY <1>1, <1>2, <2>1, <3>1, SMT
    <3>4. (x * b) * m - (x * a) * m = (b - a) * (m * x)
      BY <1>1, <1>2, SMT
    <3> QED BY <1>2, <3>1, <3>2, <3>3, <3>4
  <2>3. CASE a < x /\ x <= b
    <3>1. c = x /\ u = m /\ v = x * j
      BY <1>1, <1>3, <2>1, <2>3, SMT
    <3>2. d \in Int
      BY <1>2, <2>1, <3>1, SMT
    <3>3. d * (c * b) = (x * b) * m - (x * x) * (j * b)
      BY <1>1, <1>2, <2>1, <3>1, SMT
    <3>4. (x * b) * m - (x * x) * m = (b - x) * (m * x)
      BY <1>1, <1>2, SMT
    <3> QED BY <1>2, <3>1, <3>2, <3>3, <3>4
  <2>4. CASE b < x
    <3>1. c = b /\ u = m /\ v = m
      BY <1>1, <1>3, <2>1, <2>4, SMT
    <3>2. d = 0 /\ b - c = 0
      BY <1>1, <1>2, <2>1, <3>1, SMT
    <3>3. c * b \in Nat /\ m * x \in Nat
      BY <1>1, <1>2, <1>5, ProductNat
    <3> QED BY <3>2, <3>3, SMT
  <2> QED BY <1>1, <2>2, <2>3, <2>4, SMT
<1>7. d \in Nat
  <2>1. c * b \in Nat \ {0} /\ m * x \in Nat /\ b - c \in Nat
    BY <1>1, <1>2, <1>5, ProductNat, SMT
  <2>2. (b - c) * (m * x) \in Nat
    BY <2>1, ProductNat
  <2> DEFINE k == c * b
  <2>3. k \in Nat \ {0} /\ k * 0 <= k * d
    <3>1. k * d = d * k /\ k * 0 = 0
      BY <1>6, <2>1, SMT
    <3> QED BY <1>6, <2>1, <2>2, <3>1, SMT
  <2> HIDE DEF k
  <2>4. 0 <= d
    BY <1>6, <2>3, ProductCancel
  <2> QED BY <1>6, <2>4, SMT
<1>8. Owed0(s, t, l, x) \in Nat /\ Owed1(s, t, l, x) \in Nat
      /\ Owed1(s, t, l, x) = l * (c - a)
  <2>1. l * Q \in Nat /\ c - a \in Nat
    BY <1>1, <1>2, <1>5, ProductNat, SMT
  <2> QED BY <1>4, <1>5, <1>7, <2>1, ProductNat
<1>9. Owed0(s, t, l, x) * (c * b) = ((l * Q) * (b - c)) * (m * x)
  <2> DEFINE k == c * b
             n == l * Q
             w == b - c
             h == m * x
  <2>1. k \in Nat /\ n \in Nat /\ w \in Nat /\ h \in Nat
    BY <1>1, <1>2, <1>5, ProductNat, SMT
  <2>2. d * k = w * h /\ Owed0(s, t, l, x) = n * d
    BY <1>4, <1>6
  <2> HIDE DEF k, n, w, h
  <2>3. (n * d) * k = n * (d * k) /\ n * (w * h) = (n * w) * h
    BY <1>7, <2>1, SMT
  <2>4. Owed0(s, t, l, x) * k = (n * w) * h
    BY <2>2, <2>3
  <2> QED BY <2>4 DEF k, n, w, h
<1> QED BY <1>1, <1>5, <1>8, <1>9 DEF a, b, c, m

(* Rounded up an amount is worth what is owed, rounded down no more.         *)
LEMMA PaymentsAt ==
  ASSUME NEW s \in Ticks, NEW t \in Ticks, s < t, NEW l \in Nat, NEW x \in Nat \ {0}
  PROVE  LET a == SqrtPriceAt[s]
             b == SqrtPriceAt[t]
             c == Clamped(a, b, x)
             h == Scale * x
         IN  /\ \A up \in BOOLEAN : /\ DeltaAmount0(c, b, l, up) \in Nat
                                    /\ DeltaAmount1(a, c, l, up) \in Nat
             /\ Owed0(s, t, l, x) <= DeltaAmount0(c, b, l, TRUE) * h
             /\ DeltaAmount0(c, b, l, FALSE) * h <= Owed0(s, t, l, x)
             /\ Owed1(s, t, l, x) <= DeltaAmount1(a, c, l, TRUE) * Q
             /\ DeltaAmount1(a, c, l, FALSE) * Q <= Owed1(s, t, l, x)
<1> DEFINE a == SqrtPriceAt[s]
           b == SqrtPriceAt[t]
           c == Clamped(a, b, x)
           h == Scale * x
           k == c * b
           n == (l * Q) * (b - c)
           o0 == Owed0(s, t, l, x)
           o1 == Owed1(s, t, l, x)
           up0 == DeltaAmount0(c, b, l, TRUE)
           down0 == DeltaAmount0(c, b, l, FALSE)
           up1 == DeltaAmount1(a, c, l, TRUE)
           down1 == DeltaAmount1(a, c, l, FALSE)
<1>1. /\ a \in Nat \ {0} /\ b \in Nat \ {0} /\ c \in Nat \ {0} /\ a <= c /\ c <= b
      /\ o1 = l * (c - a) /\ o0 * k = n * h /\ o0 \in Nat /\ o1 \in Nat
  BY OwedAt
<1> HIDE DEF a, b, c, o0, o1
<1>2. a \in Nat /\ c \in Nat /\ Q \in Nat \ {0} /\ Scale \in Nat \ {0} /\ b - c \in Nat
  BY <1>1, QAssumption, ScaleFacts, SMT
<1>3. /\ up0 \in Nat /\ down0 \in Nat
      /\ n <= up0 * k /\ down0 * k <= n
  BY <1>1, Range0
<1>4. /\ up1 \in Nat /\ down1 \in Nat
      /\ l * (c - a) <= up1 * Q /\ down1 * Q <= l * (c - a)
  BY <1>1, <1>2, Range1
<1>5. h \in Nat /\ k \in Nat \ {0} /\ n \in Nat
  <2>1. l * Q \in Nat
    BY <1>2, ProductNat
  <2>2. c * b \in Nat \ {0}
    BY <1>1, SMT
  <2> QED BY <1>2, <2>1, <2>2, ProductNat
<1> HIDE DEF up0, down0, up1, down1, h, k, n
<1>6. o0 <= up0 * h
  <2>1. up0 * k \in Nat /\ up0 * h \in Nat
    BY <1>3, <1>5, ProductNat
  <2>2. n * h <= (up0 * k) * h
    BY <1>3, <1>5, <2>1, ProductMonotone
  <2>3. (up0 * k) * h = k * (up0 * h) /\ o0 * k = k * o0
    BY <1>1, <1>3, <1>5, SMT
  <2>4. k * o0 <= k * (up0 * h)
    BY <1>1, <2>2, <2>3
  <2> QED BY <1>1, <1>5, <2>1, <2>4, ProductCancel
<1>7. down0 * h <= o0
  <2>1. down0 * k \in Nat /\ down0 * h \in Nat
    BY <1>3, <1>5, ProductNat
  <2>2. (down0 * k) * h <= n * h
    BY <1>3, <1>5, <2>1, ProductMonotone
  <2>3. (down0 * k) * h = k * (down0 * h) /\ o0 * k = k * o0
    BY <1>1, <1>3, <1>5, SMT
  <2>4. k * (down0 * h) <= k * o0
    BY <1>1, <2>2, <2>3
  <2> QED BY <1>1, <1>5, <2>1, <2>4, ProductCancel
<1>8. ASSUME NEW up \in BOOLEAN
      PROVE  DeltaAmount0(c, b, l, up) \in Nat /\ DeltaAmount1(a, c, l, up) \in Nat
  <2>1. CASE up
    <3>1. up = TRUE
      BY <2>1
    <3> QED BY <1>3, <1>4, <3>1 DEF up0, up1
  <2>2. CASE ~up
    <3>1. up = FALSE
      BY <2>2
    <3> QED BY <1>3, <1>4, <3>1 DEF down0, down1
  <2> QED BY <2>1, <2>2
<1> QED BY <1>1, <1>4, <1>6, <1>7, <1>8
        DEF a, b, c, h, o0, o1, up0, down0, up1, down1

(* The amounts of a change of liquidity are those between the nearest price  *)
(* of the range and its ends, whichever side the tick says the price is on.  *)
LEMMA AmountsAt ==
  ASSUME AtRest, NEW s \in Ticks, NEW t \in Ticks, s < t, NEW l \in Nat
  PROVE  LET a == SqrtPriceAt[s]
             b == SqrtPriceAt[t]
             c == Clamped(a, b, sqrt_price)
             amounts(delta) == Amounts0And1(tick, sqrt_price, s, t, delta)
         IN  /\ sqrt_price \in Nat \ {0}
             /\ amounts(l)[1] = DeltaAmount0(c, b, l, TRUE)
             /\ amounts(l)[2] = DeltaAmount1(a, c, l, TRUE)
             /\ l # 0 => /\ amounts(-l)[1] = DeltaAmount0(c, b, l, FALSE)
                         /\ amounts(-l)[2] = DeltaAmount1(a, c, l, FALSE)
<1> DEFINE p == sqrt_price
           a == SqrtPriceAt[s]
           b == SqrtPriceAt[t]
           c == Clamped(a, b, p)
           amounts(delta) == Amounts0And1(tick, p, s, t, delta)
<1>1. /\ p \in Nat /\ tick \in Ticks /\ IsTickAtSqrtPrice(p, tick)
      /\ tick \in Int /\ s \in Int /\ t \in Int
  BY TickDomain DEF AtRest
<1>2. a \in Nat \ {0} /\ b \in Nat \ {0} /\ a < b
  <2>1. s <= t /\ s # t
    BY <1>1, SMT
  <2> QED BY <2>1, TablePrices, TableMonotone
<1>3. /\ s <= tick => a <= p
      /\ tick < s => p < a
      /\ t <= tick => b <= p
      /\ tick < t => p < b
  BY <1>1, TickSide
<1>4. p \in Nat \ {0}
  <2>1. SqrtPriceAt[tick] \in Nat \ {0} /\ SqrtPriceAt[tick] <= p
    BY <1>1, TablePrices DEF IsTickAtSqrtPrice
  <2> QED BY <1>1, <2>1, SMT
<1>5. ASSUME NEW n \in Nat \ {0}, NEW up \in BOOLEAN
      PROVE  DeltaAmount0(n, n, l, up) = 0 /\ DeltaAmount1(n, n, l, up) = 0
  <2>1. n \in Nat /\ n <= n /\ Q \in Nat \ {0} /\ n * n \in Nat \ {0} /\ 0 \in Nat
    BY QAssumption, SMT
  <2>2. l * (n - n) = 0 /\ (l * Q) * (n - n) = 0 /\ 0 * Q = 0 /\ 0 * (n * n) = 0
    <3>1. n - n = 0 /\ l * Q \in Nat
      BY <2>1, ProductNat, SMT
    <3> QED BY <2>1, <3>1, SMT
  <2> DEFINE zero == 0
  <2>3. zero \in Nat /\ l * (n - n) <= zero * Q /\ (l * Q) * (n - n) <= zero * (n * n)
    BY <2>2, SMT
  <2> HIDE DEF zero
  <2>4. /\ DeltaAmount0(n, n, l, TRUE) \in Nat /\ DeltaAmount0(n, n, l, TRUE) <= zero
        /\ DeltaAmount1(n, n, l, TRUE) \in Nat /\ DeltaAmount1(n, n, l, TRUE) <= zero
    BY <2>1, <2>3, Range0, Range1
  <2>5. /\ DeltaAmount0(n, n, l, FALSE) \in Nat
        /\ DeltaAmount0(n, n, l, FALSE) * (n * n) <= 0
        /\ DeltaAmount1(n, n, l, FALSE) \in Nat
        /\ DeltaAmount1(n, n, l, FALSE) * Q <= 0
    <3>1. /\ DeltaAmount0(n, n, l, FALSE) \in Nat
          /\ DeltaAmount0(n, n, l, FALSE) * (n * n) <= (l * Q) * (n - n)
          /\ DeltaAmount1(n, n, l, FALSE) \in Nat
          /\ DeltaAmount1(n, n, l, FALSE) * Q <= l * (n - n)
      BY <2>1, Range0, Range1
    <3> QED BY <2>2, <3>1, Zenon
  <2>6. \A e \in Nat, f \in Nat \ {0} : e * f <= 0 => e = 0
    <3> SUFFICES ASSUME NEW e \in Nat, NEW f \in Nat \ {0}, e * f <= 0 PROVE e = 0
      OBVIOUS
    <3>1. f * e <= f * 0
      BY SMT
    <3>2. e <= 0
      BY <3>1, ProductCancel
    <3> QED BY <3>2, SMT
  <2>7. \A e \in Nat : e <= zero => e = 0
    BY SMT DEF zero
  <2>8. up = TRUE \/ up = FALSE
    OBVIOUS
  <2> QED BY <2>1, <2>4, <2>5, <2>6, <2>7, <2>8, Zenon
<1>6. c = IF p <= a THEN a ELSE IF p <= b THEN p ELSE b
  BY DEF Clamped
<1>7. ASSUME NEW delta
      PROVE  amounts(delta) =
               CASE tick < s -> <<DeltaAmount0Signed(a, b, delta), 0>>
                 [] s <= tick /\ tick < t ->
                      <<DeltaAmount0Signed(p, b, delta), DeltaAmount1Signed(a, p, delta)>>
                 [] s <= tick /\ t <= tick -> <<0, DeltaAmount1Signed(a, b, delta)>>
  BY DEF Amounts0And1
<1> HIDE DEF p, a, b, c, amounts
<1>8. ASSUME NEW delta, NEW up \in BOOLEAN,
             \A e, f : /\ DeltaAmount0Signed(e, f, delta) = DeltaAmount0(e, f, l, up)
                       /\ DeltaAmount1Signed(e, f, delta) = DeltaAmount1(e, f, l, up)
      PROVE  /\ amounts(delta)[1] = DeltaAmount0(c, b, l, up)
             /\ amounts(delta)[2] = DeltaAmount1(a, c, l, up)
  <2>1. CASE tick < s
    <3>1. ~(s <= tick) /\ c = a
      BY <1>1, <1>2, <1>3, <1>6, <2>1, SMT
    <3>2. amounts(delta) = <<DeltaAmount0Signed(a, b, delta), 0>>
      BY <1>7, <2>1, <3>1, Zenon
    <3>3. DeltaAmount1(a, a, l, up) = 0
      BY <1>2, <1>5
    <3> QED BY <1>8, <3>1, <3>2, <3>3
  <2>2. CASE s <= tick /\ tick < t
    <3>1. ~(tick < s) /\ ~(t <= tick) /\ c = p
      BY <1>1, <1>2, <1>3, <1>6, <2>2, SMT
    <3>2. amounts(delta) = <<DeltaAmount0Signed(p, b, delta), DeltaAmount1Signed(a, p, delta)>>
      BY <1>7, <2>2, <3>1, Zenon
    <3> QED BY <1>8, <3>1, <3>2
  <2>3. CASE s <= tick /\ t <= tick
    <3>1. ~(tick < s) /\ ~(tick < t) /\ c = b
      BY <1>1, <1>2, <1>3, <1>6, <2>3, SMT
    <3>2. amounts(delta) = <<0, DeltaAmount1Signed(a, b, delta)>>
      BY <1>7, <2>3, <3>1, Zenon
    <3>3. DeltaAmount0(b, b, l, up) = 0
      BY <1>2, <1>5
    <3> QED BY <1>8, <3>1, <3>2, <3>3
  <2>4. tick < s \/ (s <= tick /\ tick < t) \/ (s <= tick /\ t <= tick)
    BY <1>1, SMT
  <2> QED BY <2>1, <2>2, <2>3, <2>4
<1>9. /\ amounts(l)[1] = DeltaAmount0(c, b, l, TRUE)
      /\ amounts(l)[2] = DeltaAmount1(a, c, l, TRUE)
  <2>1. \A e, f : /\ DeltaAmount0Signed(e, f, l) = DeltaAmount0(e, f, l, TRUE)
                  /\ DeltaAmount1Signed(e, f, l) = DeltaAmount1(e, f, l, TRUE)
    BY AddedRoundsUp
  <2>2. TRUE \in BOOLEAN
    OBVIOUS
  <2> QED BY <1>8, <2>1, <2>2
<1>10. ASSUME l # 0
       PROVE  /\ amounts(-l)[1] = DeltaAmount0(c, b, l, FALSE)
              /\ amounts(-l)[2] = DeltaAmount1(a, c, l, FALSE)
  <2>1. \A e, f : /\ DeltaAmount0Signed(e, f, -l) = DeltaAmount0(e, f, l, FALSE)
                  /\ DeltaAmount1Signed(e, f, -l) = DeltaAmount1(e, f, l, FALSE)
    BY <1>10, RemovedRoundsDown
  <2>2. FALSE \in BOOLEAN
    OBVIOUS
  <2> QED BY <1>8, <2>1, <2>2
<1> QED BY <1>4, <1>9, <1>10 DEF p, a, b, c, amounts

-----------------------------------------------------------------------------
(* What all positions are owed *)

Placed(S) ==
  /\ IsFiniteSet(S)
  /\ \A p \in S : /\ p.lower \in Ticks /\ p.upper \in Ticks /\ p.lower < p.upper
                  /\ p.liquidity \in Nat

Owes0(S, x) == [p \in S |-> Owed0(p.lower, p.upper, p.liquidity, x)]
Owes1(S, x) == [p \in S |-> Owed1(p.lower, p.upper, p.liquidity, x)]

Claims0(S, x) == SumOver(Owes0(S, x), S)
Claims1(S, x) == SumOver(Owes1(S, x), S)

(* The liquidity each position has in a tick interval. *)
Shares(S, t) == [p \in S |-> IF Covers(p, t) THEN p.liquidity ELSE 0]

(* Reserves, rounded or not, that pay every claim at a price. *)
Covered(S, r0, r1, x) == Claims0(S, x) <= r0 * (Scale * x) /\ Claims1(S, x) <= r1 * Q

(* Every claim is an integer and no claim is more than all of them.          *)
LEMMA ClaimsNat ==
  ASSUME NEW S, Placed(S), NEW x \in Nat \ {0}
  PROVE  /\ NaturalOn(Owes0(S, x), S) /\ NaturalOn(Owes1(S, x), S)
         /\ IntegerOn(Owes0(S, x), S) /\ IntegerOn(Owes1(S, x), S)
         /\ Claims0(S, x) \in Nat /\ Claims1(S, x) \in Nat
         /\ \A p \in S : /\ Owed0(p.lower, p.upper, p.liquidity, x) <= Claims0(S, x)
                         /\ Owed1(p.lower, p.upper, p.liquidity, x) <= Claims1(S, x)
<1> DEFINE w == Owes0(S, x)
           v == Owes1(S, x)
<1>1. ASSUME NEW p \in S
      PROVE  /\ w[p] = Owed0(p.lower, p.upper, p.liquidity, x) /\ w[p] \in Nat
             /\ v[p] = Owed1(p.lower, p.upper, p.liquidity, x) /\ v[p] \in Nat
  <2>1. p.lower \in Ticks /\ p.upper \in Ticks /\ p.lower < p.upper /\ p.liquidity \in Nat
    BY DEF Placed
  <2>2. /\ Owed0(p.lower, p.upper, p.liquidity, x) \in Nat
        /\ Owed1(p.lower, p.upper, p.liquidity, x) \in Nat
    BY <2>1, OwedAt
  <2> QED BY <2>2 DEF Owes0, Owes1
<1> HIDE DEF w, v
<1>2. NaturalOn(w, S) /\ NaturalOn(v, S) /\ IntegerOn(w, S) /\ IntegerOn(v, S)
  <2>1. \A n \in Nat : n \in Int
    BY SMT
  <2> QED BY <1>1, <2>1 DEF NaturalOn, IntegerOn
<1>3. IsFiniteSet(S) /\ S \in SUBSET S
  BY DEF Placed
<1>4. /\ SumOver(w, S) \in Nat /\ \A p \in S : w[p] <= SumOver(w, S)
      /\ SumOver(v, S) \in Nat /\ \A p \in S : v[p] <= SumOver(v, S)
  BY <1>2, <1>3, SumNat
<1> QED BY <1>1, <1>2, <1>4 DEF w, v, Claims0, Claims1

(* The active liquidity is the sum of the shares.                            *)
LEMMA ActiveIsSum ==
  ASSUME NEW S, Placed(S), NEW t
  PROVE  /\ NaturalOn(Shares(S, t), S) /\ IntegerOn(Shares(S, t), S)
         /\ ActiveAt(S, t) = SumOver(Shares(S, t), S) /\ ActiveAt(S, t) \in Nat
<1> DEFINE T == {p \in S : p.lower <= t /\ t < p.upper}
           w == [p \in S |-> p.liquidity]
           v == [p \in S |-> IF p \in T THEN w[p] ELSE 0]
<1>1. IsFiniteSet(S) /\ \A p \in S : p.liquidity \in Nat
  BY DEF Placed
<1>2. \A n \in Nat : n \in Int
  BY SMT
<1>3. IntegerOn(w, S) /\ T \in SUBSET S
  BY <1>1, <1>2 DEF IntegerOn
<1>4. IsFiniteSet(T) /\ IntegerOn(w, T)
  BY <1>1, <1>3, FS_Subset DEF IntegerOn
<1>5. ActiveAt(S, t) = SumOver([p \in T |-> p.liquidity], T)
  BY DEF ActiveAt, MapThenSumSet, MapThenFoldSet, SumOver
<1>6. SumOver([p \in T |-> p.liquidity], T) = SumOver(w, T)
  <2>1. \A p \in T : [q \in T |-> q.liquidity][p] = w[p]
    OBVIOUS
  <2> HIDE DEF w, T
  <2> QED BY <1>4, <2>1, SumSame
<1>7. SumOver(w, T) = SumOver(v, S)
  <2> HIDE DEF w, T
  <2> QED BY <1>1, <1>3, SumPart
<1>8. v = Shares(S, t)
  BY DEF Shares, Covers
<1>9. NaturalOn(Shares(S, t), S) /\ IntegerOn(Shares(S, t), S)
  BY <1>1, <1>2 DEF NaturalOn, IntegerOn, Shares
<1>10. SumOver(Shares(S, t), S) \in Nat
  <2>1. S \in SUBSET S
    OBVIOUS
  <2> QED BY <1>1, <1>9, <2>1, SumNat
<1> QED BY <1>5, <1>6, <1>7, <1>8, <1>9, <1>10

(* One more summand, for functions that agree on the others.                 *)
LEMMA SumExtend ==
  ASSUME NEW S, IsFiniteSet(S), NEW p, p \notin S, NEW w, NEW v,
         IntegerOn(v, S), \A q \in S : w[q] = v[q], w[p] \in Int
  PROVE  SumOver(w, S \cup {p}) = w[p] + SumOver(v, S)
<1>1. IntegerOn(w, S)
  BY DEF IntegerOn
<1>2. SumOver(w, S \cup {p}) = w[p] + SumOver(w, S)
  BY <1>1, SumAdd
<1>3. SumOver(w, S) = SumOver(v, S)
  BY SumSame
<1> QED BY <1>2, <1>3

(* One more position adds what it is owed and the liquidity it has.          *)
LEMMA PositionAdded ==
  ASSUME NEW S, Placed(S), NEW p, p \notin S, Placed(S \cup {p}), NEW x \in Nat \ {0}
  PROVE  /\ Claims0(S \cup {p}, x) = Owed0(p.lower, p.upper, p.liquidity, x) + Claims0(S, x)
         /\ Claims1(S \cup {p}, x) = Owed1(p.lower, p.upper, p.liquidity, x) + Claims1(S, x)
         /\ \A t : ActiveAt(S \cup {p}, t)
                     = (IF Covers(p, t) THEN p.liquidity ELSE 0) + ActiveAt(S, t)
<1> DEFINE U == S \cup {p}
<1>1. IsFiniteSet(S) /\ p \in U /\ \A q \in S : q \in U
  BY DEF Placed
<1>2. /\ IntegerOn(Owes0(S, x), S) /\ IntegerOn(Owes1(S, x), S)
      /\ IntegerOn(Owes0(U, x), U) /\ IntegerOn(Owes1(U, x), U)
  BY ClaimsNat
<1>3. ASSUME NEW q \in U
      PROVE  /\ Owes0(U, x)[q] = Owed0(q.lower, q.upper, q.liquidity, x)
             /\ Owes1(U, x)[q] = Owed1(q.lower, q.upper, q.liquidity, x)
             /\ Owes0(U, x)[q] \in Int /\ Owes1(U, x)[q] \in Int
  BY <1>2 DEF Owes0, Owes1, IntegerOn
<1>4. \A q \in S : Owes0(U, x)[q] = Owes0(S, x)[q] /\ Owes1(U, x)[q] = Owes1(S, x)[q]
  BY DEF Owes0, Owes1
<1>5. ASSUME NEW t
      PROVE  ActiveAt(U, t) = (IF Covers(p, t) THEN p.liquidity ELSE 0) + ActiveAt(S, t)
  <2>1. /\ IntegerOn(Shares(S, t), S) /\ IntegerOn(Shares(U, t), U)
        /\ ActiveAt(S, t) = SumOver(Shares(S, t), S)
        /\ ActiveAt(U, t) = SumOver(Shares(U, t), U)
    BY ActiveIsSum
  <2>2. Shares(U, t)[p] = (IF Covers(p, t) THEN p.liquidity ELSE 0)
    BY <1>1 DEF Shares
  <2>3. Shares(U, t)[p] \in Int /\ \A q \in S : Shares(U, t)[q] = Shares(S, t)[q]
    BY <1>1, <2>1 DEF Shares, IntegerOn
  <2>4. SumOver(Shares(U, t), U) = Shares(U, t)[p] + SumOver(Shares(S, t), S)
    BY <1>1, <2>1, <2>3, SumExtend
  <2> QED BY <2>1, <2>2, <2>4
<1>6. SumOver(Owes0(U, x), U) = Owes0(U, x)[p] + SumOver(Owes0(S, x), S)
  <2>1. Owes0(U, x)[p] \in Int /\ \A q \in S : Owes0(U, x)[q] = Owes0(S, x)[q]
    BY <1>1, <1>3, <1>4
  <2> QED BY <1>1, <1>2, <2>1, SumExtend
<1>7. SumOver(Owes1(U, x), U) = Owes1(U, x)[p] + SumOver(Owes1(S, x), S)
  <2>1. Owes1(U, x)[p] \in Int /\ \A q \in S : Owes1(U, x)[q] = Owes1(S, x)[q]
    BY <1>1, <1>3, <1>4
  <2> QED BY <1>1, <1>2, <2>1, SumExtend
<1> QED BY <1>1, <1>3, <1>5, <1>6, <1>7 DEF Claims0, Claims1

-----------------------------------------------------------------------------
(* A move of the price that meets no edge of a position *)

(* How far one edge of a range moves with the price.                         *)
LEMMA EdgeStretch ==
  ASSUME NEW u \in Ticks, NEW lo \in Nat \ {0}, NEW hi \in Nat \ {0}, lo <= hi,
         ~(lo < SqrtPriceAt[u] /\ SqrtPriceAt[u] < hi)
  PROVE  /\ Near(u, lo) \in Nat /\ Near(u, hi) \in Nat
         /\ Far(u, lo) \in Nat /\ Far(u, hi) \in Nat
         /\ Near(u, hi) = Near(u, lo) + (IF hi <= SqrtPriceAt[u] THEN hi - lo ELSE 0)
         /\ hi * Far(u, lo)
              = lo * Far(u, hi) + Scale * (IF SqrtPriceAt[u] <= lo THEN hi - lo ELSE 0)
<1> DEFINE a == SqrtPriceAt[u]
           i == Reciprocal[u]
           m == Scale
<1>1. a \in Nat \ {0} /\ m \in Nat \ {0} /\ i \in Nat \ {0} /\ i * a = m
  BY TablePrices, ScaleFacts
<1>2. /\ Far(u, lo) = IF lo <= a THEN lo * i ELSE m
      /\ Far(u, hi) = IF hi <= a THEN hi * i ELSE m
      /\ Near(u, lo) = LowerOf(lo, a) /\ Near(u, hi) = LowerOf(hi, a)
  BY DEF Far, Near
<1>3. ~(lo < a /\ a < hi)
  OBVIOUS
<1> HIDE DEF a, i, m
<1>4. /\ Near(u, lo) \in Nat /\ Near(u, hi) \in Nat
      /\ Near(u, hi) = Near(u, lo) + (IF hi <= a THEN hi - lo ELSE 0)
  BY <1>1, <1>2, <1>3, SMT DEF LowerOf
<1>5. lo * i \in Nat /\ hi * i \in Nat
  BY <1>1, ProductNat
<1>6. /\ Far(u, lo) \in Nat /\ Far(u, hi) \in Nat
      /\ hi * Far(u, lo) = lo * Far(u, hi) + m * (IF a <= lo THEN hi - lo ELSE 0)
  <2>1. CASE a <= lo
    <3>1. Far(u, lo) = m /\ Far(u, hi) = m
      <4>1. lo = a => lo * i = m
        BY <1>1, SMT
      <4>2. hi = a => hi * i = m
        BY <1>1, SMT
      <4>3. (lo <= a => lo = a) /\ (hi <= a => hi = a)
        BY <1>1, <2>1, SMT
      <4> QED BY <1>2, <4>1, <4>2, <4>3
    <3>2. hi * m = lo * m + m * (hi - lo)
      BY <1>1, SMT
    <3> QED BY <1>1, <2>1, <3>1, <3>2
  <2>2. CASE ~(a <= lo)
    <3>1. lo <= a /\ hi <= a
      BY <1>1, <1>3, <2>2, SMT
    <3>2. Far(u, lo) = lo * i /\ Far(u, hi) = hi * i
      BY <1>2, <3>1
    <3>3. hi * (lo * i) = lo * (hi * i) + m * 0
      BY <1>1, SMT
    <3> QED BY <1>5, <2>2, <3>2, <3>3
  <2> QED BY <2>1, <2>2
<1> QED BY <1>4, <1>6 DEF a, m

(* The liquidity a position has all the way from lo to hi. *)
Through(s, t, l, lo, hi) == IF SqrtPriceAt[s] <= lo /\ hi <= SqrtPriceAt[t] THEN l ELSE 0

(* What a position is owed changes by what its liquidity is worth between    *)
(* the prices, if its range has both, and stays what it is otherwise.        *)
LEMMA OwedStretch ==
  ASSUME NEW s \in Ticks, NEW t \in Ticks, s < t, NEW l \in Nat,
         NEW lo \in Nat \ {0}, NEW hi \in Nat \ {0}, lo <= hi,
         ~(lo < SqrtPriceAt[s] /\ SqrtPriceAt[s] < hi),
         ~(lo < SqrtPriceAt[t] /\ SqrtPriceAt[t] < hi)
  PROVE  LET k == Through(s, t, l, lo, hi)
         IN  /\ Owed1(s, t, l, hi) = Owed1(s, t, l, lo) + (hi - lo) * k
             /\ hi * Owed0(s, t, l, lo)
                  = lo * Owed0(s, t, l, hi) + (Q * (Scale * (hi - lo))) * k
<1> DEFINE a == SqrtPriceAt[s]
           b == SqrtPriceAt[t]
           m == Scale
           e == hi - lo
           k == Through(s, t, l, lo, hi)
           nt == IF hi <= b THEN e ELSE 0
           ns == IF hi <= a THEN e ELSE 0
           fs == IF a <= lo THEN e ELSE 0
           ft == IF b <= lo THEN e ELSE 0
           n1 == Near(s, lo)
           n2 == Near(t, lo)
           n3 == Near(s, hi)
           n4 == Near(t, hi)
           f1 == Far(s, lo)
           f2 == Far(t, lo)
           f3 == Far(s, hi)
           f4 == Far(t, hi)
<1>1. a \in Nat \ {0} /\ b \in Nat \ {0} /\ a < b
  BY OwedAt, TickDomain, TablePrices, TableMonotone
<1>2. m \in Nat \ {0} /\ Q \in Nat
  BY ScaleFacts, QAssumption
<1>3. /\ n1 \in Nat /\ n3 \in Nat /\ f1 \in Nat /\ f3 \in Nat
      /\ n3 = n1 + ns /\ hi * f1 = lo * f3 + m * fs
  BY EdgeStretch
<1>4. /\ n2 \in Nat /\ n4 \in Nat /\ f2 \in Nat /\ f4 \in Nat
      /\ n4 = n2 + nt /\ hi * f2 = lo * f4 + m * ft
  BY EdgeStretch
<1>5. k = IF a <= lo /\ hi <= b THEN l ELSE 0
  BY DEF Through
<1>6. ~(lo < a /\ a < hi) /\ ~(lo < b /\ b < hi)
  OBVIOUS
<1>7. /\ Owed1(s, t, l, hi) = l * (n4 - n3) /\ Owed1(s, t, l, lo) = l * (n2 - n1)
      /\ Owed0(s, t, l, hi) = (l * Q) * (f3 - f4) /\ Owed0(s, t, l, lo) = (l * Q) * (f1 - f2)
  BY DEF Owed0, Owed1
<1> HIDE DEF a, b, m, k, n1, n2, n3, n4, f1, f2, f3, f4
<1>8. e \in Nat /\ k \in Nat /\ nt \in Nat /\ ns \in Nat /\ fs \in Nat /\ ft \in Nat
  BY <1>1, <1>5, SMT
<1>9. l * (nt - ns) = e * k /\ l * (fs - ft) = e * k
  <2>1. CASE lo = hi
    <3>1. e = 0 /\ nt = 0 /\ ns = 0 /\ fs = 0 /\ ft = 0
      BY <2>1, SMT
    <3> QED BY <1>8, <3>1, SMT
  <2>2. CASE lo # hi /\ hi <= a
    <3>1. nt = e /\ ns = e /\ fs = 0 /\ ft = 0 /\ k = 0
      BY <1>1, <1>5, <2>2, SMT
    <3> QED BY <1>8, <3>1, SMT
  <2>3. CASE lo # hi /\ a <= lo /\ hi <= b
    <3>1. nt = e /\ ns = 0 /\ fs = e /\ ft = 0 /\ k = l
      BY <1>1, <1>5, <2>3, SMT
    <3> QED BY <1>8, <3>1, SMT
  <2>4. CASE lo # hi /\ b <= lo
    <3>1. nt = 0 /\ ns = 0 /\ fs = e /\ ft = e /\ k = 0
      BY <1>1, <1>5, <2>4, SMT
    <3> QED BY <1>8, <3>1, SMT
  <2> QED BY <1>1, <1>6, <2>1, <2>2, <2>3, <2>4, SMT
<1> HIDE DEF e, nt, ns, fs, ft
<1>10. Owed1(s, t, l, hi) = Owed1(s, t, l, lo) + e * k
  <2>1. n4 - n3 = (n2 - n1) + (nt - ns)
    BY <1>3, <1>4, <1>8, SMT
  <2>2. l * ((n2 - n1) + (nt - ns)) = l * (n2 - n1) + l * (nt - ns)
    BY <1>3, <1>4, <1>8, SMT
  <2> QED BY <1>7, <1>9, <2>1, <2>2
<1>11. hi * Owed0(s, t, l, lo) = lo * Owed0(s, t, l, hi) + (Q * (m * e)) * k
  <2>1. hi * ((l * Q) * (f1 - f2)) = (l * Q) * (hi * f1 - hi * f2)
    BY <1>2, <1>3, <1>4, SMT
  <2>2. hi * f1 - hi * f2 = lo * (f3 - f4) + m * (fs - ft)
    <3>1. hi * f1 - hi * f2 = (lo * f3 + m * fs) - (lo * f4 + m * ft)
      BY <1>3, <1>4
    <3>2. (lo * f3 + m * fs) - (lo * f4 + m * ft) = lo * (f3 - f4) + m * (fs - ft)
      BY <1>2, <1>3, <1>4, <1>8, SMT
    <3> QED BY <3>1, <3>2
  <2>3. (l * Q) * (lo * (f3 - f4) + m * (fs - ft))
          = lo * ((l * Q) * (f3 - f4)) + (Q * m) * (l * (fs - ft))
    BY <1>2, <1>3, <1>4, <1>8, SMT
  <2>4. (Q * m) * (e * k) = (Q * (m * e)) * k
    BY <1>2, <1>8, SMT
  <2> QED BY <1>7, <1>9, <2>1, <2>2, <2>3, <2>4
<1> QED BY <1>10, <1>11 DEF m, e, k

(* Away from edges the liquidity all the way is that of the lower price's    *)
(* tick interval.                                                            *)
LEMMA ThroughIsShare ==
  ASSUME NEW s \in Ticks, NEW t \in Ticks, NEW l \in Nat,
         NEW lo \in Nat \ {0}, NEW hi \in Nat \ {0}, lo < hi,
         ~(lo < SqrtPriceAt[t] /\ SqrtPriceAt[t] < hi),
         NEW u \in Ticks, u + 1 \in Ticks, SqrtPriceAt[u] <= lo, lo < SqrtPriceAt[u + 1]
  PROVE  Through(s, t, l, lo, hi) = IF s <= u /\ u < t THEN l ELSE 0
<1>1. s \in Int /\ t \in Int /\ u \in Int
  BY TickDomain
<1>2. /\ SqrtPriceAt[s] \in Nat /\ SqrtPriceAt[t] \in Nat
      /\ SqrtPriceAt[u] \in Nat /\ SqrtPriceAt[u + 1] \in Nat
  BY TablePrices
<1>3. s <= u => SqrtPriceAt[s] <= SqrtPriceAt[u]
  BY TableMonotone
<1>4. ~(s <= u) => SqrtPriceAt[u + 1] <= SqrtPriceAt[s]
  <2>1. ~(s <= u) => u + 1 <= s
    BY <1>1, SMT
  <2> QED BY <2>1, TableMonotone
<1>5. u < t => SqrtPriceAt[u + 1] <= SqrtPriceAt[t]
  <2>1. u < t => u + 1 <= t
    BY <1>1, SMT
  <2> QED BY <2>1, TableMonotone
<1>6. ~(u < t) => SqrtPriceAt[t] <= SqrtPriceAt[u]
  <2>1. ~(u < t) => t <= u
    BY <1>1, SMT
  <2> QED BY <2>1, TableMonotone
<1>7. s <= u <=> SqrtPriceAt[s] <= lo
  BY <1>2, <1>3, <1>4, SMT
<1>8. u < t <=> hi <= SqrtPriceAt[t]
  BY <1>2, <1>5, <1>6, SMT
<1> QED BY <1>7, <1>8 DEF Through

NoEdgeBetween(S, lo, hi) ==
  \A p \in S : /\ ~(lo < SqrtPriceAt[p.lower] /\ SqrtPriceAt[p.lower] < hi)
               /\ ~(lo < SqrtPriceAt[p.upper] /\ SqrtPriceAt[p.upper] < hi)

(* What all positions are owed changes by what the active liquidity is worth *)
(* between the prices.                                                       *)
LEMMA ClaimsStretch ==
  ASSUME NEW S, Placed(S), NEW lo \in Nat \ {0}, NEW hi \in Nat \ {0}, lo <= hi,
         NoEdgeBetween(S, lo, hi),
         NEW u \in Ticks, u + 1 \in Ticks, SqrtPriceAt[u] <= lo, lo < SqrtPriceAt[u + 1]
  PROVE  LET L == ActiveAt(S, u)
         IN  /\ L \in Nat
             /\ Claims1(S, hi) = Claims1(S, lo) + (hi - lo) * L
             /\ hi * Claims0(S, lo) = lo * Claims0(S, hi) + (Q * (Scale * (hi - lo))) * L
<1> DEFINE L == ActiveAt(S, u)
           e == hi - lo
           g == Q * (Scale * e)
           v == Shares(S, u)
<1>1. /\ IsFiniteSet(S) /\ IntegerOn(v, S) /\ L = SumOver(v, S) /\ L \in Nat
  BY ActiveIsSum DEF Placed
<1>2. /\ IntegerOn(Owes0(S, lo), S) /\ IntegerOn(Owes1(S, lo), S)
      /\ IntegerOn(Owes0(S, hi), S) /\ IntegerOn(Owes1(S, hi), S)
      /\ Claims0(S, lo) \in Nat /\ Claims0(S, hi) \in Nat
      /\ Claims1(S, lo) \in Nat /\ Claims1(S, hi) \in Nat
  BY ClaimsNat
<1>3. e \in Nat /\ Q \in Nat /\ Scale \in Nat
  BY QAssumption, ScaleFacts, SMT
<1>4. g \in Nat
  BY <1>3, ProductNat
<1>5. ASSUME NEW p \in S
      PROVE  /\ Owes1(S, hi)[p] = Owes1(S, lo)[p] + e * v[p]
             /\ hi * Owes0(S, lo)[p] = lo * Owes0(S, hi)[p] + g * v[p]
  <2> DEFINE s == p.lower
             t == p.upper
             l == p.liquidity
             k == Through(s, t, l, lo, hi)
  <2>1. s \in Ticks /\ t \in Ticks /\ s < t /\ l \in Nat
    BY DEF Placed
  <2>2. /\ ~(lo < SqrtPriceAt[s] /\ SqrtPriceAt[s] < hi)
        /\ ~(lo < SqrtPriceAt[t] /\ SqrtPriceAt[t] < hi)
    BY DEF NoEdgeBetween
  <2>3. v[p] = IF s <= u /\ u < t THEN l ELSE 0
    BY DEF Shares, Covers
  <2>4. /\ Owes1(S, hi)[p] = Owed1(s, t, l, hi) /\ Owes1(S, lo)[p] = Owed1(s, t, l, lo)
        /\ Owes0(S, hi)[p] = Owed0(s, t, l, hi) /\ Owes0(S, lo)[p] = Owed0(s, t, l, lo)
    BY DEF Owes0, Owes1
  <2> HIDE DEF s, t, l
  <2>5. /\ Owed1(s, t, l, hi) = Owed1(s, t, l, lo) + e * k
        /\ hi * Owed0(s, t, l, lo) = lo * Owed0(s, t, l, hi) + g * k
    BY <2>1, <2>2, OwedStretch
  <2>6. e * k = e * v[p] /\ g * k = g * v[p]
    <3>1. CASE lo = hi
      <4>1. k \in Nat /\ v[p] \in Nat
        BY <2>1, <2>3, SMT DEF Through
      <4>2. e = 0
        BY <3>1, SMT
      <4>3. g = 0
        BY <1>3, <4>2, SMT
      <4> HIDE DEF e, g, k, v
      <4> QED BY <4>1, <4>2, <4>3, SMT
    <3>2. CASE lo # hi
      <4>1. lo < hi
        BY <3>2, SMT
      <4>2. k = v[p]
        BY <2>1, <2>2, <2>3, <4>1, ThroughIsShare
      <4> QED BY <4>2
    <3> QED BY <3>1, <3>2
  <2> QED BY <2>4, <2>5, <2>6
<1> HIDE DEF e, g, v, L
<1>6. \A n \in Nat : n \in Int
  BY SMT
<1>7. 1 * SumOver(Owes1(S, hi), S) = 1 * SumOver(Owes1(S, lo), S) + e * SumOver(v, S)
  <2> DEFINE one == 1
  <2>1. one \in Int /\ e \in Int
    BY <1>3, SMT
  <2>2. ASSUME NEW p \in S
        PROVE  one * Owes1(S, hi)[p] = one * Owes1(S, lo)[p] + e * v[p]
    <3>1. /\ Owes1(S, hi)[p] \in Int /\ Owes1(S, lo)[p] \in Int
      BY <1>2 DEF IntegerOn
    <3>2. one * Owes1(S, hi)[p] = Owes1(S, hi)[p] /\ one * Owes1(S, lo)[p] = Owes1(S, lo)[p]
      BY <3>1, SMT
    <3> QED BY <1>5, <3>2
  <2> HIDE DEF one
  <2>3. one * SumOver(Owes1(S, hi), S) = one * SumOver(Owes1(S, lo), S) + e * SumOver(v, S)
    <3>1. /\ IsFiniteSet(S) /\ IntegerOn(Owes1(S, hi), S) /\ IntegerOn(Owes1(S, lo), S)
          /\ IntegerOn(v, S)
      BY <1>1, <1>2
    <3>2. \A p \in S : one * Owes1(S, hi)[p] = one * Owes1(S, lo)[p] + e * v[p]
      BY <2>2
    <3> QED BY <2>1, <3>1, <3>2, SumLinear
  <2> QED BY <2>3 DEF one
<1>8. hi * SumOver(Owes0(S, lo), S) = lo * SumOver(Owes0(S, hi), S) + g * SumOver(v, S)
  <2>1. /\ IsFiniteSet(S) /\ IntegerOn(Owes0(S, lo), S) /\ IntegerOn(Owes0(S, hi), S)
        /\ IntegerOn(v, S)
    BY <1>1, <1>2
  <2>2. \A p \in S : hi * Owes0(S, lo)[p] = lo * Owes0(S, hi)[p] + g * v[p]
    BY <1>5
  <2>3. lo \in Int /\ hi \in Int /\ g \in Int
    BY <1>4, <1>6
  <2> QED BY <2>1, <2>2, <2>3, SumLinear
<1>9. Claims1(S, hi) = Claims1(S, lo) + e * L
  <2>1. 1 * Claims1(S, hi) = 1 * Claims1(S, lo) + e * L
    BY <1>1, <1>7 DEF Claims1
  <2>2. 1 * Claims1(S, hi) = Claims1(S, hi) /\ 1 * Claims1(S, lo) = Claims1(S, lo)
    BY <1>2, SMT
  <2> QED BY <2>1, <2>2
<1>10. hi * Claims0(S, lo) = lo * Claims0(S, hi) + g * L
  BY <1>1, <1>8 DEF Claims0
<1> QED BY <1>1, <1>9, <1>10 DEF L, e, g

(* What an exchange along the curve does to the reserves and to the claims   *)
(* cancels out: towards lower prices ...                                     *)
LEMMA CoveredDown ==
  ASSUME NEW S, Placed(S), NEW lo \in Nat \ {0}, NEW hi \in Nat \ {0}, lo <= hi,
         NoEdgeBetween(S, lo, hi),
         NEW u \in Ticks, u + 1 \in Ticks, SqrtPriceAt[u] <= lo, lo < SqrtPriceAt[u + 1],
         NEW L \in Nat, lo < hi => ActiveAt(S, u) = L,
         NEW r0 \in Int, NEW r1 \in Int, Covered(S, r0, r1, hi),
         NEW in \in Nat, NEW out \in Nat,
         (L * Q) * (hi - lo) <= in * (lo * hi), out * Q <= L * (hi - lo)
  PROVE  Covered(S, r0 + in, r1 - out, lo)
<1> DEFINE A == ActiveAt(S, u)
           e == hi - lo
           m == Scale
           c0 == Claims0(S, lo)
           d0 == Claims0(S, hi)
           c1 == Claims1(S, lo)
           d1 == Claims1(S, hi)
<1>1. /\ A \in Nat /\ d1 = c1 + e * A /\ hi * c0 = lo * d0 + (Q * (m * e)) * A
  BY ClaimsStretch
<1>2. /\ c0 \in Nat /\ d0 \in Nat /\ c1 \in Nat /\ d1 \in Nat
      /\ m \in Nat /\ Q \in Nat /\ e \in Nat /\ lo \in Nat /\ hi \in Nat
  BY ClaimsNat, ScaleFacts, QAssumption, SMT
<1>3. d0 <= r0 * (m * hi) /\ d1 <= r1 * Q
  BY DEF Covered
<1>4. e = 0 \/ A = L
  BY SMT
<1>5. (L * Q) * e <= in * (lo * hi) /\ out * Q <= L * e
  OBVIOUS
<1> HIDE DEF A, e, m, c0, d0, c1, d1
<1>6. e * A = L * e /\ (Q * (m * e)) * A = m * ((L * Q) * e)
  <2>1. CASE e = 0
    BY <1>1, <1>2, <2>1, SMT
  <2>2. CASE A = L
    BY <1>1, <1>2, <2>2, SMT
  <2> QED BY <1>4, <2>1, <2>2
<1>7. c1 <= (r1 - out) * Q
  <2> DEFINE w == L * e
             y == out * Q
             z == r1 * Q
  <2>1. w \in Nat /\ y \in Nat /\ z \in Int
    BY <1>2, ProductNat, SMT
  <2>2. (r1 - out) * Q = z - y
    BY <1>2, SMT
  <2>3. d1 = c1 + w /\ y <= w /\ d1 <= z
    BY <1>1, <1>3, <1>5, <1>6
  <2> HIDE DEF w, y, z
  <2>4. c1 <= z - y
    BY <1>2, <2>1, <2>3, SMT
  <2> QED BY <2>2, <2>4
<1>8. c0 <= (r0 + in) * (m * lo)
  <2> DEFINE w == m * ((L * Q) * e)
             y == m * (in * (lo * hi))
             z == lo * d0
             v == lo * (r0 * (m * hi))
             b == (r0 + in) * (m * lo)
  <2>1. (L * Q) * e \in Nat /\ in * (lo * hi) \in Nat /\ r0 * (m * hi) \in Int
        /\ m * lo \in Nat
    <3>1. L * Q \in Nat /\ lo * hi \in Nat /\ m * hi \in Nat /\ m * lo \in Nat
      BY <1>2, ProductNat
    <3>2. (L * Q) * e \in Nat /\ in * (lo * hi) \in Nat
      BY <1>2, <3>1, ProductNat
    <3> QED BY <3>1, <3>2, SMT
  <2>2. w <= y /\ z <= v
    BY <1>2, <1>3, <1>5, <2>1, ProductMonotone
  <2>3. w \in Int /\ y \in Int /\ z \in Int /\ v \in Int /\ b \in Int
    BY <1>2, <2>1, SMT
  <2>4. v + y = hi * b
    BY <1>2, SMT
  <2>5. hi * c0 = z + w
    BY <1>1, <1>6
  <2> HIDE DEF w, y, z, v, b
  <2>6. hi * c0 <= hi * b
    <3>1. z + w <= v + y
      BY <2>2, <2>3, SMT
    <3> QED BY <2>4, <2>5, <3>1
  <2>7. c0 <= b
    BY <1>2, <2>3, <2>6, ProductCancel
  <2> QED BY <2>7 DEF b
<1> QED BY <1>7, <1>8 DEF Covered, m, c0, c1

(* ... and towards higher ones.                                              *)
LEMMA CoveredUp ==
  ASSUME NEW S, Placed(S), NEW lo \in Nat \ {0}, NEW hi \in Nat \ {0}, lo <= hi,
         NoEdgeBetween(S, lo, hi),
         NEW u \in Ticks, u + 1 \in Ticks, SqrtPriceAt[u] <= lo, lo < SqrtPriceAt[u + 1],
         NEW L \in Nat, lo < hi => ActiveAt(S, u) = L,
         NEW r0 \in Int, NEW r1 \in Int, Covered(S, r0, r1, lo),
         NEW in \in Nat, NEW out \in Nat,
         L * (hi - lo) <= in * Q, out * (lo * hi) <= (L * Q) * (hi - lo)
  PROVE  Covered(S, r0 - out, r1 + in, hi)
<1> DEFINE A == ActiveAt(S, u)
           e == hi - lo
           m == Scale
           c0 == Claims0(S, lo)
           d0 == Claims0(S, hi)
           c1 == Claims1(S, lo)
           d1 == Claims1(S, hi)
<1>1. /\ A \in Nat /\ d1 = c1 + e * A /\ hi * c0 = lo * d0 + (Q * (m * e)) * A
  BY ClaimsStretch
<1>2. /\ c0 \in Nat /\ d0 \in Nat /\ c1 \in Nat /\ d1 \in Nat
      /\ m \in Nat /\ Q \in Nat /\ e \in Nat /\ lo \in Nat /\ hi \in Nat
  BY ClaimsNat, ScaleFacts, QAssumption, SMT
<1>3. c0 <= r0 * (m * lo) /\ c1 <= r1 * Q
  BY DEF Covered
<1>4. e = 0 \/ A = L
  BY SMT
<1>5. L * e <= in * Q /\ out * (lo * hi) <= (L * Q) * e
  OBVIOUS
<1> HIDE DEF A, e, m, c0, d0, c1, d1
<1>6. e * A = L * e /\ (Q * (m * e)) * A = m * ((L * Q) * e)
  <2>1. CASE e = 0
    BY <1>1, <1>2, <2>1, SMT
  <2>2. CASE A = L
    BY <1>1, <1>2, <2>2, SMT
  <2> QED BY <1>4, <2>1, <2>2
<1>7. d1 <= (r1 + in) * Q
  <2> DEFINE w == L * e
             y == in * Q
             z == r1 * Q
  <2>1. w \in Nat /\ y \in Nat /\ z \in Int
    BY <1>2, ProductNat, SMT
  <2>2. (r1 + in) * Q = z + y
    BY <1>2, SMT
  <2>3. d1 = c1 + w /\ w <= y /\ c1 <= z
    BY <1>1, <1>3, <1>5, <1>6
  <2> HIDE DEF w, y, z
  <2>4. d1 <= z + y
    BY <1>2, <2>1, <2>3, SMT
  <2> QED BY <2>2, <2>4
<1>8. d0 <= (r0 - out) * (m * hi)
  <2> DEFINE w == m * ((L * Q) * e)
             y == m * (out * (lo * hi))
             z == hi * c0
             v == hi * (r0 * (m * lo))
             b == (r0 - out) * (m * hi)
  <2>1. (L * Q) * e \in Nat /\ out * (lo * hi) \in Nat /\ r0 * (m * lo) \in Int
        /\ m * hi \in Nat
    <3>1. L * Q \in Nat /\ lo * hi \in Nat /\ m * hi \in Nat /\ m * lo \in Nat
      BY <1>2, ProductNat
    <3>2. (L * Q) * e \in Nat /\ out * (lo * hi) \in Nat
      BY <1>2, <3>1, ProductNat
    <3> QED BY <3>1, <3>2, SMT
  <2>2. y <= w /\ z <= v
    BY <1>2, <1>3, <1>5, <2>1, ProductMonotone
  <2>3. w \in Int /\ y \in Int /\ z \in Int /\ v \in Int /\ b \in Int
        /\ lo * d0 \in Int
    BY <1>2, <2>1, SMT
  <2>4. v - y = lo * b
    BY <1>2, SMT
  <2>5. z = lo * d0 + w
    BY <1>1, <1>6
  <2> HIDE DEF w, y, z, v, b
  <2>6. lo * d0 <= lo * b
    <3>1. lo * d0 <= v - y
      BY <2>2, <2>3, <2>5, SMT
    <3> QED BY <2>4, <3>1
  <2>7. d0 <= b
    BY <1>2, <2>3, <2>6, ProductCancel
  <2> QED BY <2>7 DEF b
<1> QED BY <1>7, <1>8 DEF Covered, m, d0, d1

-----------------------------------------------------------------------------
(* The walk of a swap *)

(* No iteration moves the price past an initialized tick of the book.        *)
LEMMA NoTickBetween ==
  ASSUME IInv, LoopGuard, pc = "loop", NEW t \in Ticks, IsNextTick(t),
         NEW q \in Int, AheadOf(sp_current, q, call.zeroForOne),
         AheadOf(q, TargetPrice(t), call.zeroForOne),
         NEW i \in DOMAIN call.book.net
  PROVE  ~(/\ LowerOf(sp_current, q) < SqrtPriceAt[i]
           /\ SqrtPriceAt[i] < UpperOf(sp_current, q))
<1> SUFFICES ASSUME LowerOf(sp_current, q) < SqrtPriceAt[i],
                    SqrtPriceAt[i] < UpperOf(sp_current, q)
             PROVE  FALSE
  OBVIOUS
<1> DEFINE tc == tick_current
<1>1. CallSane /\ LimitRespected /\ sp_current \in U128 /\ call.zeroForOne \in BOOLEAN
  BY DEF IInv, TypeOK, CallSane
<1>2. sp_current \in Int
  BY <1>1, QAssumption, SMT DEF U128, U128Max
<1>3. /\ SpLimit \in Int /\ call.price \in Int
      /\ IF call.zeroForOne THEN SpLimit <= call.price ELSE call.price <= SpLimit
      /\ IF call.zeroForOne THEN sp_current <= call.price ELSE call.price <= sp_current
  BY <1>1, LimitFacts DEF LimitRespected
<1>4. /\ i \in Ticks /\ SqrtPriceAt[i] \in Nat
  BY <1>1, TablePrices DEF CallSane, WellFormedBook
<1>5. /\ tc \in Ticks /\ tc + 1 \in Ticks /\ tc \in Int /\ t \in Int /\ i \in Int
      /\ SqrtPriceAt[tc] <= sp_current /\ sp_current <= SqrtPriceAt[tc + 1]
      /\ SqrtPriceAt[tc] \in Nat /\ SqrtPriceAt[tc + 1] \in Nat /\ SqrtPriceAt[t] \in Nat
  BY <1>4, NextTickAhead, TablePrices, TickDomain
<1>6. TargetPrice(t) \in Int
  BY TargetFacts, QAssumption, SMT DEF Prices128, U128Max
<1>7. IF call.zeroForOne THEN SpLimit <= q /\ SqrtPriceAt[t] <= q
                         ELSE q <= SpLimit /\ q <= SqrtPriceAt[t]
  <2>1. /\ AheadOf(TargetPrice(t), SpLimit, call.zeroForOne)
        /\ AheadOf(TargetPrice(t), SqrtPriceAt[t], call.zeroForOne)
    BY TargetFacts
  <2> QED BY <1>1, <1>3, <1>5, <1>6, <2>1, SMT DEF AheadOf
<1>8. IF call.zeroForOne THEN q < SqrtPriceAt[i] /\ SqrtPriceAt[i] < sp_current
                         ELSE sp_current < SqrtPriceAt[i] /\ SqrtPriceAt[i] < q
  BY <1>1, <1>2, SMT DEF AheadOf, LowerOf, UpperOf
<1>9. IF call.zeroForOne THEN t < i /\ i <= tc ELSE i < t /\ tc < i
  <2>1. CASE call.zeroForOne
    <3>1. ~(i <= t)
      <4>1. i <= t => SqrtPriceAt[i] <= SqrtPriceAt[t]
        BY <1>4, TableMonotone
      <4> QED BY <1>4, <1>5, <1>7, <1>8, <2>1, <4>1, SMT
    <3>2. ~(tc + 1 <= i)
      <4>1. tc + 1 <= i => SqrtPriceAt[tc + 1] <= SqrtPriceAt[i]
        BY <1>4, <1>5, TableMonotone
      <4> QED BY <1>2, <1>4, <1>5, <1>8, <2>1, <4>1, SMT
    <3> QED BY <1>5, <2>1, <3>1, <3>2, SMT
  <2>2. CASE ~call.zeroForOne
    <3>1. ~(t <= i)
      <4>1. t <= i => SqrtPriceAt[t] <= SqrtPriceAt[i]
        BY <1>4, TableMonotone
      <4> QED BY <1>4, <1>5, <1>7, <1>8, <2>2, <4>1, SMT
    <3>2. ~(i <= tc)
      <4>1. i <= tc => SqrtPriceAt[i] <= SqrtPriceAt[tc]
        BY <1>4, <1>5, TableMonotone
      <4> QED BY <1>2, <1>4, <1>5, <1>8, <2>2, <4>1, SMT
    <3> QED BY <1>5, <2>2, <3>1, <3>2, SMT
  <2> QED BY <1>1, <2>1, <2>2
<1>10. /\ LowerOf(call.price, SpLimit) <= SqrtPriceAt[i]
       /\ SqrtPriceAt[i] <= UpperOf(call.price, SpLimit)
  BY <1>1, <1>2, <1>3, <1>4, <1>7, <1>8, SMT DEF LowerOf, UpperOf
<1>11. i \in Initialized
  BY <1>1, <1>10, SliceFacts DEF InReach
<1>12. i \in Candidates
  BY <1>1, <1>9, <1>11 DEF Candidates
<1>13. IF call.zeroForOne THEN i <= t ELSE t <= i
  BY <1>12 DEF IsNextTick
<1> QED BY <1>1, <1>5, <1>9, <1>13, SMT

(* The reserves as they will be if the running swap ends where it is. *)
Tokens0 == reserve0 + (IF call.zeroForOne THEN Paid - fee_total ELSE -Got)
Tokens1 == reserve1 + (IF call.zeroForOne THEN -Got ELSE Paid - fee_total)

(* The swap runs on the book of the positions. *)
OnPositions == call.book = BookOf(positions)

(* The ticks of the book are the edges of the positions. *)
LEMMA EdgesInitialized ==
  ASSUME NEW S
  PROVE  \A p \in S : p.lower \in DOMAIN BookOf(S).net /\ p.upper \in DOMAIN BookOf(S).net
BY DEF BookOf

(* An iteration that goes on exchanges along the curve of the positions, so  *)
(* what the swap would leave in the reserves keeps covering every claim.     *)
LEMMA StepKeepsCovered ==
  ASSUME OverflowChecks, IInv, LoopGuard, pc = "loop", steps < MAX_STEPS,
         NEW t \in Ticks, IsNextTick(t),
         NEW s, s = StepTo(t), Failure(s, t).tag = "ok", Account(s),
         call' = call, pc' = "loop" \/ pc' = "return",
         reserve0' = reserve0, reserve1' = reserve1,
         reserve0 \in Int, reserve1 \in Int,
         Placed(positions), OnPositions,
         Covered(positions, Tokens0, Tokens1, sp_current)
  PROVE  Covered(positions, Tokens0', Tokens1', sp_current')
<1> DEFINE lo  == LowerOf(sp_current, s.next)
           hi  == UpperOf(sp_current, s.next)
           in  == s.amountIn
           out == s.amountOut
           L   == liquidity
<1>1. CallSane /\ LimitRespected /\ sp_current \in U128 /\ call.zeroForOne \in BOOLEAN
  BY DEF IInv, TypeOK, CallSane
<1>2. /\ sp_current' = s.next /\ sp_current' \in Int
      /\ AheadOf(sp_current, sp_current', call.zeroForOne)
      /\ AheadOf(sp_current', TargetPrice(t), call.zeroForOne)
  BY Progress
<1>3. /\ s.tag = "ok" /\ s.fee \in Nat
      /\ Paid \in Int /\ Paid' = Paid + (in + s.fee)
      /\ Got \in Int /\ Got' = Got + out
      /\ fee_total \in Int /\ fee_total' = fee_total + s.fee
  BY StepTotals
<1>4. /\ lo \in Nat \ {0} /\ hi \in Nat \ {0} /\ lo <= hi /\ L \in Nat
      /\ in \in Nat /\ out \in Nat
      /\ IF call.zeroForOne
           THEN /\ lo = s.next /\ hi = sp_current
                /\ (L * Q) * (hi - lo) <= in * (lo * hi) /\ out * Q <= L * (hi - lo)
           ELSE /\ lo = sp_current /\ hi = s.next
                /\ L * (hi - lo) <= in * Q /\ out * (lo * hi) <= (L * Q) * (hi - lo)
  BY <1>3, StepExchanges
<1>5. NoEdgeBetween(positions, lo, hi)
  <2>1. \A i \in DOMAIN call.book.net : ~(lo < SqrtPriceAt[i] /\ SqrtPriceAt[i] < hi)
    BY <1>2, NoTickBetween
  <2>2. \A p \in positions : p.lower \in DOMAIN call.book.net /\ p.upper \in DOMAIN call.book.net
    BY EdgesInitialized DEF OnPositions
  <2> QED BY <2>1, <2>2 DEF NoEdgeBetween
<1>6. MIN_SQRT_PRICE_X64 \in Nat /\ MAX_SQRT_PRICE_X64 \in Nat
  BY TickDomain, TablePrices DEF MIN_SQRT_PRICE_X64, MAX_SQRT_PRICE_X64
<1>7. InPriceDomain(lo)
  <2>1. /\ sp_current \in Int
        /\ MIN_SQRT_PRICE_X64 < sp_current /\ sp_current < MAX_SQRT_PRICE_X64
        /\ SpLimit \in Int /\ MIN_SQRT_PRICE_X64 < SpLimit /\ SpLimit < MAX_SQRT_PRICE_X64
    BY <1>1, PriceInside, LimitFacts, QAssumption, SMT DEF U128, U128Max
  <2>2. AheadOf(TargetPrice(t), SpLimit, call.zeroForOne) /\ TargetPrice(t) \in Int
    BY TargetFacts, QAssumption, SMT DEF Prices128, U128Max
  <2>3. s.next \in Int /\ MIN_SQRT_PRICE_X64 < s.next /\ s.next < MAX_SQRT_PRICE_X64
    BY <1>1, <1>2, <1>6, <2>1, <2>2, SMT DEF AheadOf
  <2>4. lo = s.next \/ lo = sp_current
    BY <1>1, <1>4
  <2> HIDE DEF lo
  <2> QED BY <1>6, <2>1, <2>3, <2>4, SMT DEF InPriceDomain
<1>8. PICK u \in Ticks : u + 1 \in Ticks /\ IsTickAtSqrtPrice(lo, u)
  <2>1. lo \in Int
    BY <1>4, SMT
  <2> HIDE DEF lo
  <2> QED BY <1>7, <2>1, TickExists
<1>9. SqrtPriceAt[u] <= lo /\ lo < SqrtPriceAt[u + 1]
  BY <1>8 DEF IsTickAtSqrtPrice
<1>10. lo < hi => ActiveAt(positions, u) = L
  <2> SUFFICES ASSUME lo < hi PROVE ActiveAt(positions, u) = L
    OBVIOUS
  <2>1. SqrtPriceAt[u] \in Nat /\ SqrtPriceAt[u + 1] \in Nat
    BY <1>8, TablePrices
  <2>2. SqrtPriceAt[u] < hi
    <3> HIDE DEF lo, hi
    <3> QED BY <1>4, <1>9, <2>1, SMT
  <2>3. IF call.zeroForOne
          THEN s.next < SqrtPriceAt[u + 1] /\ SqrtPriceAt[u] < sp_current
          ELSE sp_current < SqrtPriceAt[u + 1] /\ SqrtPriceAt[u] < s.next
    BY <1>1, <1>4, <1>9, <2>2
  <2>4. call.book.active[u] = L
    BY <1>2, <1>8, <2>3, SameLiquidity
  <2>5. u \in CurrentTicks
    BY TickDomain
  <2>6. call.book.active[u] = ActiveAt(positions, u)
    BY <2>5 DEF OnPositions, BookOf
  <2> QED BY <2>4, <2>6
<1> HIDE DEF lo, hi, in, out, L
<1>11. CASE call.zeroForOne
  <2>1. /\ Tokens0 = reserve0 + (Paid - fee_total) /\ Tokens1 = reserve1 - Got
        /\ Tokens0' = reserve0 + (Paid' - fee_total') /\ Tokens1' = reserve1 - Got'
    <3>1. /\ Tokens0 = reserve0 + (Paid - fee_total) /\ Tokens1 = reserve1 + (-Got)
          /\ Tokens0' = reserve0 + (Paid' - fee_total') /\ Tokens1' = reserve1 + (-Got')
      BY <1>11 DEF Tokens0, Tokens1
    <3>2. Got' \in Int
      BY <1>3, <1>4, SMT
    <3> QED BY <1>3, <3>1, <3>2, SMT
  <2>2. /\ Tokens0 \in Int /\ Tokens1 \in Int
        /\ Tokens0' = Tokens0 + in /\ Tokens1' = Tokens1 - out
    BY <1>3, <1>4, <2>1, SMT
  <2>3. Covered(positions, Tokens0, Tokens1, hi)
    BY <1>4, <1>11
  <2>4. Covered(positions, Tokens0 + in, Tokens1 - out, lo)
    BY <1>4, <1>5, <1>8, <1>9, <1>10, <1>11, <2>2, <2>3, CoveredDown
  <2> QED BY <1>2, <1>4, <1>11, <2>2, <2>4
<1>12. CASE ~call.zeroForOne
  <2>1. /\ Tokens1 = reserve1 + (Paid - fee_total) /\ Tokens0 = reserve0 - Got
        /\ Tokens1' = reserve1 + (Paid' - fee_total') /\ Tokens0' = reserve0 - Got'
    <3>1. /\ Tokens1 = reserve1 + (Paid - fee_total) /\ Tokens0 = reserve0 + (-Got)
          /\ Tokens1' = reserve1 + (Paid' - fee_total') /\ Tokens0' = reserve0 + (-Got')
      BY <1>12 DEF Tokens0, Tokens1
    <3>2. Got' \in Int
      BY <1>3, <1>4, SMT
    <3> QED BY <1>3, <3>1, <3>2, SMT
  <2>2. /\ Tokens0 \in Int /\ Tokens1 \in Int
        /\ Tokens1' = Tokens1 + in /\ Tokens0' = Tokens0 - out
    BY <1>3, <1>4, <2>1, SMT
  <2>3. Covered(positions, Tokens0, Tokens1, lo)
    BY <1>4, <1>12
  <2>4. Covered(positions, Tokens0 - out, Tokens1 + in, hi)
    BY <1>4, <1>5, <1>8, <1>9, <1>10, <1>12, <2>2, <2>3, CoveredUp
  <2> QED BY <1>2, <1>4, <1>12, <2>2, <2>4
<1> QED BY <1>1, <1>11, <1>12

-----------------------------------------------------------------------------
(* The book of positions that the reserves cover *)

(* Liquidity active below the price has been paid for in token 1, so its sum *)
(* is no more than a u128 holds.                                             *)
LEMMA LiquidityBelow ==
  ASSUME NEW S, Placed(S), NEW x \in Nat \ {0}, NEW r0, NEW r1 \in U64, Covered(S, r0, r1, x),
         NEW t \in Ticks, t + 1 \in Ticks, SqrtPriceAt[t + 1] <= x
  PROVE  ActiveAt(S, t) \in U128
<1> DEFINE v == Shares(S, t)
           w == Owes1(S, x)
           A == ActiveAt(S, t)
           C == Claims1(S, x)
           one == 1
<1>1. t \in Int /\ SqrtPriceAt[t] \in Nat /\ SqrtPriceAt[t + 1] \in Nat
      /\ SqrtPriceAt[t] < SqrtPriceAt[t + 1]
  <2>1. t \in Int
    BY TickDomain
  <2>2. t <= t + 1 /\ t # t + 1
    BY <2>1, SMT
  <2> QED BY <2>1, <2>2, TableMonotone
<1>2. ASSUME NEW p \in S
      PROVE  one * v[p] <= one * w[p]
  <2> DEFINE l == p.liquidity
             a == SqrtPriceAt[p.lower]
             b == SqrtPriceAt[p.upper]
  <2>1. /\ p.lower \in Ticks /\ p.upper \in Ticks /\ p.lower < p.upper /\ l \in Nat
        /\ p.lower \in Int /\ p.upper \in Int /\ a \in Nat /\ b \in Nat
    BY TickDomain, TablePrices DEF Placed
  <2>2. w[p] = Owed1(p.lower, p.upper, l, x) /\ w[p] \in Nat
    BY <2>1, OwedAt DEF Owes1
  <2>3. v[p] = IF Covers(p, t) THEN l ELSE 0
    BY DEF Shares
  <2>4. CASE ~Covers(p, t)
    BY <2>2, <2>3, <2>4, SMT
  <2>5. CASE Covers(p, t)
    <3>1. p.lower <= t /\ t + 1 <= p.upper
      BY <1>1, <2>1, <2>5, SMT DEF Covers
    <3>2. a <= SqrtPriceAt[t] /\ SqrtPriceAt[t + 1] <= b
      BY <2>1, <3>1, TableMonotone
    <3> DEFINE n == Near(p.upper, x) - Near(p.lower, x)
    <3>3. n = LowerOf(x, b) - LowerOf(x, a)
      BY DEF Near
    <3> HIDE DEF a, b, l, v, w, n
    <3>4. n \in Nat /\ 1 <= n
      BY <1>1, <2>1, <3>2, <3>3, SMT DEF LowerOf
    <3>5. w[p] = l * n
      BY <2>2 DEF Owed1, n
    <3>6. l * 1 <= l * n
      BY <2>1, <3>4, ProductMonotone
    <3>7. v[p] = l
      BY <2>3, <2>5
    <3> QED BY <2>1, <2>2, <3>5, <3>6, <3>7, SMT
  <2> QED BY <2>4, <2>5
<1>3. /\ IsFiniteSet(S) /\ IntegerOn(v, S) /\ IntegerOn(w, S)
      /\ A = SumOver(v, S) /\ C = SumOver(w, S) /\ A \in Nat /\ C \in Nat
  BY ActiveIsSum, ClaimsNat DEF Placed, Claims1
<1>4. one \in Int
  BY SMT
<1> HIDE DEF v, w, A, C, one
<1>5. one * A <= one * C
  BY <1>2, <1>3, <1>4, SumOrdered
<1>6. A <= C /\ C <= r1 * Q
  BY <1>3, <1>5, SMT DEF one, Covered, C
<1>7. r1 \in Nat /\ r1 <= Q - 1 /\ Q \in Nat \ {0}
  BY QAssumption, SMT DEF U64, U64Max
<1>8. r1 * Q <= (Q - 1) * Q
  <2>1. r1 \in Int /\ Q - 1 \in Int /\ Q \in Nat
    BY <1>7, SMT
  <2> QED BY <1>7, <2>1, ProductMonotone
<1>9. (Q - 1) * Q <= Q * Q - 1 /\ (Q - 1) * Q \in Int /\ Q * Q \in Int /\ r1 * Q \in Int
  BY <1>7, SMT
<1>10. A \in 0 .. Q * Q - 1
  BY <1>3, <1>6, <1>8, <1>9, SMT
<1> QED BY <1>10 DEF U128, U128Max, A

(* Liquidity active above the price has been paid for in token 0; over the   *)
(* narrowest range a u64 of it buys no more than a u128 (TableSpacing).      *)
LEMMA LiquidityAbove ==
  ASSUME NEW S, Placed(S), NEW x \in Nat \ {0}, NEW r0 \in U64, NEW r1, Covered(S, r0, r1, x),
         NEW t \in Ticks, t + 1 \in Ticks, x <= SqrtPriceAt[t]
  PROVE  ActiveAt(S, t) \in U128
<1> DEFINE v == Shares(S, t)
           w == Owes0(S, x)
           A == ActiveAt(S, t)
           C == Claims0(S, x)
           a == SqrtPriceAt[t]
           b == SqrtPriceAt[t + 1]
           i == Reciprocal[t]
           j == Reciprocal[t + 1]
           m == Scale
           d == b - a
           h == Q * (x * (i - j))
           one == 1
<1>1. /\ t \in Int /\ a \in Nat \ {0} /\ b \in Nat \ {0} /\ a < b
      /\ i \in Nat \ {0} /\ j \in Nat \ {0} /\ m \in Nat \ {0} /\ i * a = m /\ j * b = m
  <2>1. t \in Int
    BY TickDomain
  <2>2. t <= t + 1 /\ t # t + 1
    BY <2>1, SMT
  <2> QED BY <2>1, <2>2, TableMonotone, TablePrices, ScaleFacts
<1>2. ASSUME NEW s \in Ticks, NEW u \in Ticks, s <= u
      PROVE  Reciprocal[u] <= Reciprocal[s]
  <2> DEFINE f == Reciprocal[s]
             g == Reciprocal[u]
             k == SqrtPriceAt[s]
             n == SqrtPriceAt[u]
  <2>1. /\ f \in Nat /\ g \in Nat /\ k \in Nat \ {0} /\ n \in Nat
        /\ f * k = Scale /\ g * n = Scale /\ k <= n
    BY <1>2, ScaleFacts, TablePrices, TableMonotone
  <2> HIDE DEF f, g, k, n
  <2>2. g * k <= g * n
    BY <2>1, ProductMonotone
  <2>3. k * g <= k * f
    <3>1. k * g = g * k /\ k * f = f * k
      BY <2>1, SMT
    <3> QED BY <2>1, <2>2, <3>1
  <2>4. g <= f
    BY <2>1, <2>3, ProductCancel
  <2> QED BY <2>4 DEF f, g
<1>3. j <= i
  <2>1. t <= t + 1
    BY <1>1, SMT
  <2> QED BY <1>2, <2>1
<1>4. x <= a /\ Q \in Nat \ {0} /\ i - j \in Nat
  BY <1>1, <1>3, QAssumption, SMT
<1>5. h \in Nat
  BY <1>4, ProductNat
<1>6. ASSUME NEW p \in S
      PROVE  h * v[p] <= one * w[p]
  <2> DEFINE l == p.liquidity
             f == Far(p.lower, x)
             g == Far(p.upper, x)
  <2>1. /\ p.lower \in Ticks /\ p.upper \in Ticks /\ p.lower < p.upper /\ l \in Nat
        /\ p.lower \in Int /\ p.upper \in Int
    BY TickDomain DEF Placed
  <2>2. w[p] = Owed0(p.lower, p.upper, l, x) /\ w[p] \in Nat
    BY <2>1, OwedAt DEF Owes0
  <2>3. v[p] = IF Covers(p, t) THEN l ELSE 0
    BY DEF Shares
  <2>4. CASE ~Covers(p, t)
    <3> HIDE DEF h, v, w
    <3> QED BY <1>5, <2>2, <2>3, <2>4, SMT
  <2>5. CASE Covers(p, t)
    <3>1. p.lower <= t /\ t + 1 <= p.upper
      BY <1>1, <2>1, <2>5, SMT DEF Covers
    <3>2. x * i <= f /\ f \in Nat
      <4> DEFINE k == Reciprocal[p.lower]
      <4>1. i <= k /\ k \in Nat \ {0}
        BY <1>2, <2>1, <3>1, ScaleFacts
      <4>2. f = IF x <= SqrtPriceAt[p.lower] THEN x * k ELSE m
        BY DEF Far
      <4> HIDE DEF i, k, f, m, a
      <4>3. x * i <= x * k
        BY <1>1, <4>1, ProductMonotone
      <4>4. i * x <= i * a
        BY <1>1, <1>4, ProductMonotone
      <4>5. x * i <= m
        <5>1. x * i = i * x
          BY <1>1, SMT
        <5> QED BY <1>1, <4>4, <5>1
      <4>6. x * k \in Nat
        BY <4>1, ProductNat
      <4> QED BY <1>1, <4>2, <4>3, <4>5, <4>6
    <3>3. g <= x * j /\ g \in Nat
      <4> DEFINE k == Reciprocal[p.upper]
                 n == SqrtPriceAt[p.upper]
      <4>1. k <= j /\ k \in Nat \ {0} /\ b <= n /\ n \in Nat
        BY <1>2, <2>1, <3>1, ScaleFacts, TableMonotone
      <4>2. g = IF x <= n THEN x * k ELSE m
        BY DEF Far
      <4> HIDE DEF k, j, g, m, n, a, b
      <4>3. x <= n
        BY <1>1, <1>4, <4>1, SMT
      <4>4. x * k <= x * j
        BY <1>1, <4>1, ProductMonotone
      <4>5. x * k \in Nat
        BY <4>1, ProductNat
      <4> QED BY <4>2, <4>3, <4>4, <4>5
    <3>4. w[p] = (l * Q) * (f - g)
      BY <2>2 DEF Owed0
    <3>5. v[p] = l
      BY <2>3, <2>5
    <3> HIDE DEF l, f, g, v, w, i, j
    <3>6. x * (i - j) <= f - g
      <4>1. x * (i - j) = x * i - x * j /\ x * i \in Nat /\ x * j \in Nat
        BY <1>1, SMT
      <4> QED BY <3>2, <3>3, <4>1, SMT
    <3>7. (l * Q) * (x * (i - j)) <= (l * Q) * (f - g)
      <4>1. l * Q \in Nat /\ x * (i - j) \in Int /\ f - g \in Int
        BY <1>1, <1>4, <2>1, <3>2, <3>3, ProductNat, SMT
      <4> QED BY <3>6, <4>1, ProductMonotone
    <3>8. h * l = (l * Q) * (x * (i - j))
      BY <1>1, <1>4, <2>1, SMT
    <3>9. one * w[p] = w[p]
      BY <2>2, SMT
    <3> QED BY <3>4, <3>5, <3>7, <3>8, <3>9
  <2> QED BY <2>4, <2>5
<1>7. /\ IsFiniteSet(S) /\ IntegerOn(v, S) /\ IntegerOn(w, S)
      /\ A = SumOver(v, S) /\ C = SumOver(w, S) /\ A \in Nat /\ C \in Nat
  BY ActiveIsSum, ClaimsNat DEF Placed, Claims0
<1>8. h \in Int /\ one \in Int
  BY <1>5, SMT
<1>9. h * A <= one * C
  <2> HIDE DEF v, w, A, C, h, one
  <2> QED BY <1>6, <1>7, <1>8, SumOrdered
<1>10. C <= r0 * (m * x)
  BY DEF Covered
<1>11. a * b <= U128Max * d
  <2>1. t \in MIN_TICK .. MAX_TICK - 1
    <3>1. MIN_TICK \in Int /\ MAX_TICK \in Int
      BY TickDomain
    <3> QED BY <1>1, <3>1, SMT DEF Ticks
  <2> QED BY <2>1, TableSpacing
<1>12. r0 \in Nat /\ r0 <= Q - 1 /\ U128Max \in Nat
  BY QAssumption, SMT DEF U64, U64Max, U128Max
<1> HIDE DEF v, w, A, C, a, b, i, j, m, one
<1>13. (i - j) * (a * b) = m * d
  <2>1. (i - j) * (a * b) = b * (i * a) - a * (j * b)
    BY <1>1, SMT
  <2>2. b * m - a * m = m * d
    BY <1>1, SMT
  <2> QED BY <1>1, <2>1, <2>2
<1>14. d \in Nat \ {0}
  BY <1>1, SMT
<1> HIDE DEF d
<1> DEFINE k == m * x
           n == a * b
<1>15. k \in Nat \ {0} /\ n \in Nat \ {0}
  BY <1>1, SMT
<1>16. h * A <= r0 * k
  <2>1. one * C = C
    BY <1>7, SMT DEF one
  <2>2. h * A \in Int /\ r0 * k \in Int
    BY <1>5, <1>7, <1>12, <1>15, SMT
  <2> HIDE DEF h, k
  <2>3. h * A <= C /\ C <= r0 * k
    BY <1>9, <1>10, <2>1 DEF k
  <2> QED BY <1>7, <2>2, <2>3, SMT
<1>17. (h * A) * n = (k * d) * (Q * A)
  <2>1. (h * A) * n = ((Q * A) * x) * ((i - j) * n)
    <3> HIDE DEF n
    <3> QED BY <1>1, <1>4, <1>7, <1>15, SMT
  <2>2. ((Q * A) * x) * (m * d) = (k * d) * (Q * A)
    BY <1>1, <1>4, <1>7, <1>14, SMT
  <2> QED BY <1>13, <2>1, <2>2
<1> HIDE DEF h, k
<1>18. (h * A) * n <= (k * d) * ((Q - 1) * U128Max)
  <2>1. (h * A) * n <= (r0 * k) * n
    <3>1. h * A \in Int /\ r0 * k \in Int
      BY <1>5, <1>7, <1>12, <1>15, SMT
    <3> HIDE DEF n
    <3> QED BY <1>15, <1>16, <3>1, ProductMonotone
  <2>2. (r0 * k) * n <= (r0 * k) * (U128Max * d)
    <3>1. r0 * k \in Nat /\ n \in Int /\ U128Max * d \in Int
      BY <1>12, <1>14, <1>15, ProductNat, SMT
    <3>2. n <= U128Max * d
      BY <1>11
    <3> HIDE DEF n
    <3> QED BY <3>1, <3>2, ProductMonotone
  <2>3. (r0 * k) * (U128Max * d) = ((k * d) * U128Max) * r0
    BY <1>12, <1>14, <1>15, SMT
  <2>4. ((k * d) * U128Max) * r0 <= ((k * d) * U128Max) * (Q - 1)
    <3>1. (k * d) * U128Max \in Nat
      BY <1>12, <1>14, <1>15, ProductNat
    <3>2. r0 \in Int /\ Q - 1 \in Int
      BY <1>4, <1>12, SMT
    <3> QED BY <1>12, <3>1, <3>2, ProductMonotone
  <2>5. ((k * d) * U128Max) * (Q - 1) = (k * d) * ((Q - 1) * U128Max)
    BY <1>4, <1>12, <1>14, <1>15, SMT
  <2> DEFINE e1 == (h * A) * n
             e2 == (r0 * k) * n
             e3 == (r0 * k) * (U128Max * d)
             e4 == ((k * d) * U128Max) * (Q - 1)
  <2>6. e1 \in Int /\ e2 \in Int /\ e3 \in Int /\ e4 \in Int
    BY <1>4, <1>5, <1>7, <1>12, <1>14, <1>15, SMT
  <2>7. e1 <= e2 /\ e2 <= e3 /\ e3 <= e4
    BY <2>1, <2>2, <2>3, <2>4
  <2> HIDE DEF e1, e2, e3, e4
  <2>8. e1 <= e4
    BY <2>6, <2>7, SMT
  <2> QED BY <2>5, <2>8 DEF e1, e4
<1>19. Q * A <= (Q - 1) * U128Max
  <2>1. k * d \in Nat \ {0} /\ Q * A \in Int /\ (Q - 1) * U128Max \in Int
    BY <1>4, <1>7, <1>12, <1>14, <1>15, SMT
  <2> QED BY <1>17, <1>18, <2>1, ProductCancel
<1>20. Q * A <= Q * U128Max
  <2>1. (Q - 1) * U128Max = Q * U128Max - U128Max /\ Q * U128Max \in Int /\ Q * A \in Int
    BY <1>4, <1>7, <1>12, SMT
  <2> QED BY <1>12, <1>19, <2>1, SMT
<1>21. A <= U128Max
  BY <1>4, <1>7, <1>12, <1>20, ProductCancel
<1>22. A \in 0 .. U128Max
  BY <1>7, <1>12, <1>21, SMT
<1> QED BY <1>22 DEF U128, A

(* The book of covered positions is one that a swap may run on.              *)
LEMMA BookIsWellFormed ==
  ASSUME NEW S, Placed(S), NEW x \in Nat \ {0}, NEW c \in Ticks, IsTickAtSqrtPrice(x, c),
         NEW r0 \in U64, NEW r1 \in U64, Covered(S, r0, r1, x), ActiveAt(S, c) \in U128
  PROVE  WellFormedBook(BookOf(S))
<1> DEFINE book == BookOf(S)
<1>1. /\ book.net = [t \in {p.lower : p \in S} \cup {p.upper : p \in S}
                       |-> ActiveAt(S, t) - ActiveAt(S, t - 1)]
      /\ book.active = [t \in CurrentTicks |-> ActiveAt(S, t)]
  BY DEF BookOf
<1>2. DOMAIN book.net = {p.lower : p \in S} \cup {p.upper : p \in S}
  BY <1>1
<1>3. DOMAIN book.net \subseteq Ticks
  BY <1>2 DEF Placed
<1>4. \A p \in S : /\ p.lower \in Ticks /\ p.upper \in Ticks
                   /\ p.lower \in Int /\ p.upper \in Int
                   /\ MIN_TICK <= p.lower /\ p.upper <= MAX_TICK
  <2>1. MIN_TICK \in Int /\ MAX_TICK \in Int
    BY TickDomain
  <2>2. \A t \in Ticks : t \in Int /\ MIN_TICK <= t /\ t <= MAX_TICK
    BY <2>1, SMT DEF Ticks
  <2> QED BY <2>2 DEF Placed
<1>5. ASSUME NEW s, NEW t, \A p \in S : Covers(p, s) <=> Covers(p, t)
      PROVE  ActiveAt(S, s) = ActiveAt(S, t)
  <2>1. Shares(S, s) = Shares(S, t)
    BY <1>5 DEF Shares
  <2> QED BY <2>1, ActiveIsSum
<1>6. ASSUME NEW t \in CurrentTicks
      PROVE  ActiveAt(S, t) \in U128
  <2>1. /\ t \in Int /\ c \in Int /\ MIN_TICK \in Int /\ MAX_TICK \in Int
        /\ MIN_TICK - 1 <= t /\ t <= MAX_TICK
    <3>1. t \in Int /\ c \in Int /\ MIN_TICK \in Int /\ MAX_TICK \in Int
      BY TickDomain
    <3> QED BY <3>1, SMT DEF CurrentTicks
  <2>2. CASE t = MIN_TICK - 1 \/ t = MAX_TICK
    <3>1. \A p \in S : ~Covers(p, t)
      BY <1>4, <2>1, <2>2, SMT DEF Covers
    <3>2. Shares(S, t) = [p \in S |-> 0]
      BY <3>1 DEF Shares
    <3>3. IsFiniteSet(S)
      BY DEF Placed
    <3> DEFINE w == [p \in S |-> 0]
    <3>4. IntegerOn(w, S)
      <4>1. \A p \in S : w[p] = 0
        OBVIOUS
      <4>2. 0 \in Int
        BY SMT
      <4> HIDE DEF w
      <4> QED BY <4>1, <4>2 DEF IntegerOn
    <3>5. ActiveAt(S, t) = SumOver(w, S)
      BY <3>2, ActiveIsSum
    <3> DEFINE zero == 0
    <3>6. \A p \in S : w[p] = zero * w[p] + zero * w[p]
      BY SMT
    <3>7. 1 * SumOver(w, S) = zero * SumOver(w, S) + zero * SumOver(w, S)
      <4> DEFINE one == 1
      <4>1. one \in Int /\ zero \in Int /\ \A p \in S : one * w[p] = w[p]
        BY SMT
      <4>2. \A p \in S : one * w[p] = zero * w[p] + zero * w[p]
        BY <3>6, <4>1
      <4> HIDE DEF one, zero, w
      <4>3. one * SumOver(w, S) = zero * SumOver(w, S) + zero * SumOver(w, S)
        BY <3>3, <3>4, <4>1, <4>2, SumLinear
      <4> QED BY <4>3 DEF one
    <3>8. ActiveAt(S, t) \in Nat
      BY ActiveIsSum
    <3> HIDE DEF w
    <3>9. ActiveAt(S, t) = 0
      BY <3>5, <3>7, <3>8, SMT
    <3> QED BY <3>9, QAssumption, SMT DEF U128, U128Max
  <2>3. CASE ~(t = MIN_TICK - 1 \/ t = MAX_TICK)
    <3>1. t \in Ticks /\ t + 1 \in Ticks
      BY <2>1, <2>3, SMT DEF Ticks
    <3>2. CASE t = c
      BY <3>2
    <3>3. CASE t < c
      <4>1. t + 1 <= c
        BY <2>1, <3>3, SMT
      <4>2. SqrtPriceAt[t + 1] <= x
        BY <3>1, <4>1, TickSide
      <4> QED BY <3>1, <4>2, LiquidityBelow
    <3>4. CASE c < t
      <4>1. x < SqrtPriceAt[t]
        BY <3>1, <3>4, TickSide
      <4>2. x <= SqrtPriceAt[t]
        BY <3>1, <4>1, TablePrices, SMT
      <4> QED BY <3>1, <4>2, LiquidityAbove
    <3> QED BY <2>1, <3>2, <3>3, <3>4, SMT
  <2> QED BY <2>2, <2>3
<1>7. book.active \in [CurrentTicks -> U128]
  BY <1>1, <1>6
<1>8. ASSUME NEW t \in DOMAIN book.net
      PROVE  book.net[t] = book.active[t] - book.active[t - 1]
  <2>1. t \in Ticks /\ t \in CurrentTicks
    BY <1>3, TickDomain
  <2>2. t - 1 \in CurrentTicks
    <3>1. MIN_TICK \in Int /\ MAX_TICK \in Int
      BY TickDomain
    <3> QED BY <2>1, <3>1, SMT DEF Ticks, CurrentTicks
  <2> QED BY <1>1, <1>2, <2>1, <2>2
<1>9. ASSUME NEW s \in CurrentTicks, NEW t \in CurrentTicks, s <= t,
             \A i \in DOMAIN book.net : ~(s < i /\ i <= t)
      PROVE  book.active[s] = book.active[t]
  <2>1. s \in Int /\ t \in Int
    BY TickDomain
  <2>2. ASSUME NEW p \in S
        PROVE  Covers(p, s) <=> Covers(p, t)
    <3>1. ~(s < p.lower /\ p.lower <= t) /\ ~(s < p.upper /\ p.upper <= t)
      BY <1>2, <1>9
    <3>2. p.lower \in Int /\ p.upper \in Int
      BY <1>4
    <3> QED BY <1>9, <2>1, <3>1, <3>2, SMT DEF Covers
  <2>3. ActiveAt(S, s) = ActiveAt(S, t)
    BY <1>5, <2>2
  <2> QED BY <1>1, <2>3
<1> HIDE DEF book
<1>10. WellFormedBook(book)
  BY <1>3, <1>7, <1>8, <1>9 DEF WellFormedBook
<1> QED BY <1>10 DEF book

-----------------------------------------------------------------------------
(* The inductive invariant of the ledger *)

Holding == [owner : Owners, lower : Ticks, upper : Ticks, liquidity : U128 \ {0}]

(***************************************************************************)
(* The pool between operations.  That the reserves cover what everyone is  *)
(* owed before rounding, and not after it, is what an operation preserves. *)
(***************************************************************************)
PoolSound ==
  /\ AtRest /\ MIN_SQRT_PRICE_X64 < sqrt_price
  /\ IsFiniteSet(positions) /\ positions \subseteq Holding
  /\ \A p \in positions : <<p.lower, p.upper>> \in Ranges
  /\ \A p, q \in positions : p.owner = q.owner => p = q
  /\ active = ActiveAt(positions, tick) /\ active \in U128
  /\ reserve0 \in U64 /\ reserve1 \in U64
  /\ operations \in 0 .. MAX_OPERATIONS
  /\ Covered(positions, reserve0, reserve1, sqrt_price)

(* A running swap is on the book of the positions, and what it exchanged so  *)
(* far leaves their claims covered at the price it has reached.              *)
SwapSound ==
  pc # "idle" =>
    /\ operations < MAX_OPERATIONS
    /\ OnPositions
    /\ Covered(positions, Tokens0, Tokens1, sp_current)

AnswerExchanged == Succeeded => result.amountIn = Paid /\ result.amountOut = Got

PoolInv == IInv /\ PoolSound /\ SwapSound /\ AnswerExchanged

(* The positions of a sound pool are placed on the table. *)
LEMMA SoundPlaced ==
  ASSUME NEW S, IsFiniteSet(S), S \subseteq Holding, \A p \in S : <<p.lower, p.upper>> \in Ranges
  PROVE  /\ Placed(S)
         /\ \A p \in S : /\ p.lower \in Ticks /\ p.upper \in Ticks /\ p.lower < p.upper
                         /\ p.liquidity \in U128 /\ p.liquidity \in Nat \ {0}
<1>1. ASSUME NEW p \in S
      PROVE  /\ p.lower \in Ticks /\ p.upper \in Ticks /\ p.lower < p.upper
             /\ p.liquidity \in U128 /\ p.liquidity \in Nat \ {0}
  <2>1. p \in Holding /\ <<p.lower, p.upper>> \in Ranges
    OBVIOUS
  <2>2. p.lower \in Ticks /\ p.upper \in Ticks /\ p.liquidity \in U128 \ {0}
    BY <2>1 DEF Holding
  <2>3. p.lower < p.upper
    <3>1. <<p.lower, p.upper>>[1] < <<p.lower, p.upper>>[2]
      BY <2>1, PoolLedgerAssumption
    <3> QED BY <3>1
  <2>4. p.liquidity \in Nat \ {0}
    BY <2>2, QAssumption, SMT DEF U128, U128Max
  <2> QED BY <2>2, <2>3, <2>4
<1>2. \A n \in Nat \ {0} : n \in Nat
  OBVIOUS
<1> QED BY <1>1, <1>2 DEF Placed

(* Tokens of a u64 are counted in natural numbers. *)
LEMMA ReservesNat ==
  ASSUME NEW r \in U64
  PROVE  r \in Nat /\ r \in Int /\ r <= U64Max
BY QAssumption, SMT DEF U64, U64Max

(* What is owed for liquidity is owed for its parts.                         *)
LEMMA OwedInParts ==
  ASSUME NEW s \in Ticks, NEW t \in Ticks, NEW k \in Nat, NEW m \in Nat, NEW x \in Nat \ {0}
  PROVE  /\ Owed0(s, t, k + m, x) = Owed0(s, t, k, x) + Owed0(s, t, m, x)
         /\ Owed1(s, t, k + m, x) = Owed1(s, t, k, x) + Owed1(s, t, m, x)
         /\ k = 0 => Owed0(s, t, k, x) = 0 /\ Owed1(s, t, k, x) = 0
<1> DEFINE f == Far(s, x) - Far(t, x)
           n == Near(t, x) - Near(s, x)
<1>1. f \in Int /\ n \in Int /\ Q \in Int
  <2>1. /\ Near(s, x) \in Nat /\ Near(t, x) \in Nat
        /\ Far(s, x) \in Nat /\ Far(t, x) \in Nat
    <3>1. x <= x /\ ~(x < SqrtPriceAt[s] /\ SqrtPriceAt[s] < x)
          /\ ~(x < SqrtPriceAt[t] /\ SqrtPriceAt[t] < x)
      <4>1. SqrtPriceAt[s] \in Nat /\ SqrtPriceAt[t] \in Nat
        BY TablePrices
      <4> QED BY <4>1, SMT
    <3> QED BY <3>1, EdgeStretch
  <2> QED BY <2>1, QAssumption, SMT
<1>2. \A l : Owed0(s, t, l, x) = (l * Q) * f /\ Owed1(s, t, l, x) = l * n
  BY DEF Owed0, Owed1
<1> HIDE DEF f, n
<1>3. ((k + m) * Q) * f = (k * Q) * f + (m * Q) * f /\ (k + m) * n = k * n + m * n
  BY <1>1, SMT
<1>4. k = 0 => (k * Q) * f = 0 /\ k * n = 0
  <2>1. (0 * Q) * f = 0 /\ 0 * n = 0
    BY <1>1, SMT
  <2> QED BY <2>1
<1> QED BY <1>2, <1>3, <1>4

(* A deposit covers the claim it adds, and a payment stays within the claim  *)
(* it settles.                                                               *)
LEMMA PricedAsOwed ==
  ASSUME AtRest, NEW s \in Ticks, NEW t \in Ticks, s < t, NEW l \in Nat \ {0}
  PROVE  LET h       == Scale * sqrt_price
             cost    == Amounts0And1(tick, sqrt_price, s, t, l)
             payment == Amounts0And1(tick, sqrt_price, s, t, -l)
         IN  /\ sqrt_price \in Nat \ {0} /\ h \in Nat \ {0}
             /\ Owed0(s, t, l, sqrt_price) \in Nat /\ Owed1(s, t, l, sqrt_price) \in Nat
             /\ cost[1] \in Nat /\ cost[2] \in Nat
             /\ payment[1] \in Nat /\ payment[2] \in Nat
             /\ Owed0(s, t, l, sqrt_price) <= cost[1] * h
             /\ Owed1(s, t, l, sqrt_price) <= cost[2] * Q
             /\ payment[1] * h <= Owed0(s, t, l, sqrt_price)
             /\ payment[2] * Q <= Owed1(s, t, l, sqrt_price)
<1> DEFINE p == sqrt_price
           a == SqrtPriceAt[s]
           b == SqrtPriceAt[t]
           c == Clamped(a, b, p)
           h == Scale * p
           amounts(delta) == Amounts0And1(tick, p, s, t, delta)
<1>1. l \in Nat /\ l # 0
  OBVIOUS
<1>2. /\ p \in Nat \ {0}
      /\ amounts(l)[1] = DeltaAmount0(c, b, l, TRUE)
      /\ amounts(l)[2] = DeltaAmount1(a, c, l, TRUE)
      /\ amounts(-l)[1] = DeltaAmount0(c, b, l, FALSE)
      /\ amounts(-l)[2] = DeltaAmount1(a, c, l, FALSE)
  BY <1>1, AmountsAt
<1>3. h \in Nat \ {0}
  <2>1. Scale \in Nat \ {0}
    BY ScaleFacts
  <2> HIDE DEF p
  <2> QED BY <1>2, <2>1, SMT
<1>4. Owed0(s, t, l, p) \in Nat /\ Owed1(s, t, l, p) \in Nat
  BY <1>1, <1>2, OwedAt
<1>5. /\ \A up \in BOOLEAN : /\ DeltaAmount0(c, b, l, up) \in Nat
                             /\ DeltaAmount1(a, c, l, up) \in Nat
      /\ Owed0(s, t, l, p) <= DeltaAmount0(c, b, l, TRUE) * h
      /\ DeltaAmount0(c, b, l, FALSE) * h <= Owed0(s, t, l, p)
      /\ Owed1(s, t, l, p) <= DeltaAmount1(a, c, l, TRUE) * Q
      /\ DeltaAmount1(a, c, l, FALSE) * Q <= Owed1(s, t, l, p)
  BY <1>1, <1>2, PaymentsAt
<1>6. TRUE \in BOOLEAN /\ FALSE \in BOOLEAN
  OBVIOUS
<1> HIDE DEF c, h, amounts
<1> QED BY <1>2, <1>3, <1>4, <1>5, <1>6 DEF amounts, h

(* The amounts of a change that does not panic are u64s. *)
LEMMA WorthAmounts ==
  ASSUME NEW s, NEW t, NEW delta
  PROVE  LET amounts == Amounts0And1(tick, sqrt_price, s, t, delta)
             worth   == GetDeltaAmountsSigned(tick, sqrt_price, s, t, delta)
         IN  /\ worth.tag = "ok" => /\ amounts[1] \in U64 /\ amounts[2] \in U64
                                    /\ worth.amount0 = amounts[1] /\ worth.amount1 = amounts[2]
             /\ amounts[1] \in U64 /\ amounts[2] \in U64 =>
                  worth = [tag |-> "ok", amount0 |-> amounts[1], amount1 |-> amounts[2]]
<1>1. Panic.tag # "ok"
  BY DEF Panic
<1> DEFINE amounts == Amounts0And1(tick, sqrt_price, s, t, delta)
           worth   == GetDeltaAmountsSigned(tick, sqrt_price, s, t, delta)
<1>2. worth = IF amounts[1] \in U64 /\ amounts[2] \in U64
                THEN [tag |-> "ok", amount0 |-> amounts[1], amount1 |-> amounts[2]]
                ELSE Panic
  BY DEF GetDeltaAmountsSigned
<1> HIDE DEF amounts, worth
<1>3. CASE amounts[1] \in U64 /\ amounts[2] \in U64
  BY <1>2, <1>3 DEF amounts, worth
<1>4. CASE ~(amounts[1] \in U64 /\ amounts[2] \in U64)
  BY <1>1, <1>2, <1>4 DEF amounts, worth
<1> QED BY <1>3, <1>4

(* A sized liquidity is one a u128 holds. *)
LEMMA MintedFits ==
  ASSUME AtRest, NEW sizing \in Sizings, NEW range \in Ranges, NEW offer,
         Minted(sizing, range, offer).tag = "ok"
  PROVE  Minted(sizing, range, offer).liquidity \in U128
<1> DEFINE Fits(x) == x.tag = "ok" => x.liquidity \in U128
           p == sqrt_price
           a == SqrtPriceAt[range[1]]
           b == SqrtPriceAt[range[2]]
<1>1. Panic.tag # "ok"
  BY DEF Panic
<1>2. 0 \in U128
  BY QAssumption, SMT DEF U128, U128Max
<1>3. ASSUME NEW l PROVE Fits(Unwrapped(l))
  BY <1>1 DEF Unwrapped, LiquidityOk
<1>4. Fits(Panic) /\ Fits(LiquidityOk(0))
  BY <1>1, <1>2 DEF LiquidityOk
<1>5. ASSUME NEW u, NEW v, NEW n PROVE Fits(GetLiquidityFromAmount0(u, v, n))
  BY <1>3, <1>4 DEF GetLiquidityFromAmount0
<1>6. ASSUME NEW u, NEW v, NEW n PROVE Fits(GetLiquidityFromAmount1(u, v, n))
  BY <1>3, <1>4 DEF GetLiquidityFromAmount1
<1>7. ASSUME NEW x, NEW y, x.tag = "ok" \/ x = Panic, y.tag = "ok" \/ y = Panic,
             Fits(x), Fits(y)
      PROVE  Fits(LesserLiquidity(x, y))
  <2>1. CASE x = Panic \/ y = Panic
    BY <1>4, <2>1 DEF LesserLiquidity
  <2>2. CASE ~(x = Panic \/ y = Panic)
    <3>1. x.liquidity \in U128 /\ y.liquidity \in U128
      BY <1>7, <2>2
    <3>2. LowerOf(x.liquidity, y.liquidity) \in U128
      BY <3>1 DEF LowerOf
    <3>3. LesserLiquidity(x, y) = LiquidityOk(LowerOf(x.liquidity, y.liquidity))
      BY <2>2 DEF LesserLiquidity
    <3> QED BY <3>2, <3>3 DEF LiquidityOk
  <2> QED BY <2>1, <2>2
<1>8. ASSUME NEW l PROVE Unwrapped(l).tag = "ok" \/ Unwrapped(l) = Panic
  BY DEF Unwrapped, LiquidityOk
<1>9. ASSUME NEW u, NEW v, NEW n
      PROVE  /\ \/ GetLiquidityFromAmount0(u, v, n).tag = "ok"
                \/ GetLiquidityFromAmount0(u, v, n) = Panic
             /\ \/ GetLiquidityFromAmount1(u, v, n).tag = "ok"
                \/ GetLiquidityFromAmount1(u, v, n) = Panic
  BY <1>8 DEF GetLiquidityFromAmount0, GetLiquidityFromAmount1
<1> DEFINE offer0 == offer[1]
           offer1 == offer[2]
           x == GetLiquidityFromAmount0(p, UpperOf(a, b), offer0)
           y == GetLiquidityFromAmount1(LowerOf(a, b), p, offer1)
<1>10. Fits(LesserLiquidity(x, y))
  BY <1>5, <1>6, <1>7, <1>9
<1> HIDE DEF Fits
<1>11. (p <= LowerOf(a, b)) \/ (LowerOf(a, b) < p /\ p < UpperOf(a, b)) \/ (p >= UpperOf(a, b))
       => /\ Fits(GetLiquidityFromAmounts(p, a, b, offer0, offer1))
          /\ Fits(GetLiquidityFromSingleAmount0(p, a, b, offer0))
          /\ Fits(GetLiquidityFromSingleAmount1(p, a, b, offer1))
  BY <1>4, <1>5, <1>6, <1>10
     DEF GetLiquidityFromAmounts, GetLiquidityFromSingleAmount0, GetLiquidityFromSingleAmount1
<1>12. /\ p \in Nat /\ LowerOf(a, b) \in Nat /\ UpperOf(a, b) \in Nat
       /\ LowerOf(a, b) <= UpperOf(a, b)
  <2>1. p \in Nat
    BY DEF AtRest
  <2>2. a \in Nat /\ b \in Nat
    BY PoolLedgerAssumption, TablePrices
  <2> HIDE DEF a, b, p
  <2> QED BY <2>1, <2>2, SMT DEF LowerOf, UpperOf
<1> DEFINE m == Minted(sizing, range, offer)
<1>13. /\ Fits(GetLiquidityFromAmounts(p, a, b, offer0, offer1))
       /\ Fits(GetLiquidityFromSingleAmount0(p, a, b, offer0))
       /\ Fits(GetLiquidityFromSingleAmount1(p, a, b, offer1))
  <2>1. \/ p <= LowerOf(a, b)
        \/ LowerOf(a, b) < p /\ p < UpperOf(a, b)
        \/ p >= UpperOf(a, b)
    BY <1>12, SMT
  <2> QED BY <1>11, <2>1
<1>14. m \in {GetLiquidityFromAmounts(p, a, b, offer0, offer1),
              GetLiquidityFromSingleAmount0(p, a, b, offer0),
              GetLiquidityFromSingleAmount1(p, a, b, offer1)}
  BY Zenon DEF Minted, Sizings
<1>15. Fits(m)
  <2> HIDE DEF m
  <2> QED BY <1>13, <1>14
<1> QED BY <1>15 DEF Fits

(* An amount paid in covers as many more claims, in their own units. *)
LEMMA CoverMore ==
  ASSUME NEW c \in Nat, NEW o \in Nat, NEW r \in Nat, NEW d \in Nat, NEW h \in Nat \ {0},
         c <= r * h, o <= d * h
  PROVE  o + c <= (r + d) * h
<1>1. (r + d) * h = r * h + d * h
  BY SMT
<1> DEFINE x == r * h
           y == d * h
<1>2. x \in Nat /\ y \in Nat
  BY ProductNat
<1>3. c <= x /\ o <= y
  OBVIOUS
<1> HIDE DEF x, y
<1>4. o + c <= x + y
  BY <1>2, <1>3, SMT
<1> QED BY <1>1, <1>4 DEF x, y

(* A payment within the claim it settles leaves the other claims covered,    *)
(* and is paid from what there is.                                           *)
LEMMA CoverLess ==
  ASSUME NEW c \in Nat, NEW o \in Nat, NEW r \in Nat, NEW d \in Nat, NEW h \in Nat \ {0},
         o + c <= r * h, d * h <= o
  PROVE  c <= (r - d) * h /\ d <= r
<1>1. (r - d) * h = r * h - d * h
  BY SMT
<1> DEFINE x == r * h
           y == d * h
<1>2. x \in Nat /\ y \in Nat
  BY ProductNat
<1>3. o + c <= x /\ y <= o
  OBVIOUS
<1>4. d <= r
  <2>1. y <= x
    <3> HIDE DEF x, y
    <3> QED BY <1>2, <1>3, SMT
  <2> QED BY <2>1, ProductCancel
<1> HIDE DEF x, y
<1>5. c <= x - y
  BY <1>2, <1>3, SMT
<1> QED BY <1>1, <1>4, <1>5 DEF x, y

(* What add_delta returns is the sum. *)
LEMMA AddDeltaSums ==
  ASSUME NEW x \in Int, NEW y \in Int, AddDelta(x, y).tag = "ok"
  PROVE  x + y \in U128 /\ AddDelta(x, y).liquidity = x + y
<1>1. CASE x + y \in U128
  BY <1>1, AddDeltaFits DEF LiquidityOk
<1>2. CASE x + y \notin U128
  <2>1. x + y < 0 \/ x + y > U128Max
    <3>1. U128Max \in Int
      BY QAssumption, SMT DEF U128Max
    <3> QED BY <1>2, <3>1, SMT DEF U128
  <2>2. AddDelta(x, y) \in {Panic, Err("LiquiditySubValueErr"), Err("LiquidityAddValueErr")}
    BY <1>2, <2>1, Zenon DEF AddDelta
  <2>3. Panic.tag # "ok" /\ Err("LiquiditySubValueErr").tag # "ok"
        /\ Err("LiquidityAddValueErr").tag # "ok"
    BY DEF Panic, Err
  <2> QED BY <2>2, <2>3
<1> QED BY <1>1, <1>2

(* An owner's deposit covers the claims of the position it opens. *)
LEMMA OpenKeepsSound ==
  ASSUME PoolSound, NEW owner \in Owners, NEW sizing \in Sizings, NEW range \in Ranges,
         NEW offer \in Offers, OpenPosition(owner, sizing, range, offer)
  PROVE  PoolSound'
<1> DEFINE S == positions
           x == sqrt_price
           h == Scale * sqrt_price
           lower == range[1]
           upper == range[2]
           l == Minted(sizing, range, offer).liquidity
           p == [owner |-> owner, lower |-> lower, upper |-> upper, liquidity |-> l]
           U == S \cup {p}
           cost == Amounts0And1(tick, sqrt_price, lower, upper, l)
           deposit == Worth(p, l)
           added == ActiveAfter(p, l)
<1>1. /\ pc = "idle" /\ operations < MAX_OPERATIONS
      /\ \A q \in S : q.owner # owner
      /\ Minted(sizing, range, offer).tag = "ok" /\ l > 0
      /\ deposit.tag = "ok" /\ added.tag = "ok"
      /\ reserve0 + deposit.amount0 <= U64Max /\ reserve1 + deposit.amount1 <= U64Max
      /\ positions' = U /\ active' = added.liquidity
      /\ reserve0' = reserve0 + deposit.amount0 /\ reserve1' = reserve1 + deposit.amount1
      /\ operations' = operations + 1
      /\ sqrt_price' = sqrt_price /\ tick' = tick
  <2> HIDE DEF l
  <2>1. \E minted \in {Minted(sizing, range, offer)} : l = minted.liquidity
    BY DEF l
  <2> QED BY DEF OpenPosition, BetweenSwaps, l
<1>2. /\ lower \in Ticks /\ upper \in Ticks /\ lower < upper /\ <<lower, upper>> = range
  BY PoolLedgerAssumption
<1>3. /\ AtRest /\ active = ActiveAt(S, tick) /\ active \in U128
      /\ reserve0 \in U64 /\ reserve1 \in U64 /\ operations \in 0 .. MAX_OPERATIONS
      /\ Covered(S, reserve0, reserve1, x)
      /\ IsFiniteSet(S) /\ S \subseteq Holding
      /\ \A q \in S : <<q.lower, q.upper>> \in Ranges
      /\ \A q, r \in S : q.owner = r.owner => q = r
  BY DEF PoolSound
<1>4. l \in U128 /\ l \in U128 \ {0} /\ l \in Nat \ {0}
  <2>1. l \in U128
    BY <1>1, <1>3, MintedFits
  <2> HIDE DEF l
  <2> QED BY <1>1, <2>1, QAssumption, SMT DEF U128, U128Max
<1> HIDE DEF l
<1>5. /\ p.owner = owner /\ p.lower = lower /\ p.upper = upper /\ p.liquidity = l
      /\ p \in Holding
  BY <1>2, <1>4 DEF Holding
<1> HIDE DEF p
<1>6. /\ p \notin S /\ IsFiniteSet(U) /\ U \subseteq Holding
      /\ \A q \in U : <<q.lower, q.upper>> \in Ranges
      /\ \A q, r \in U : q.owner = r.owner => q = r
  <2>1. p \notin S
    BY <1>1, <1>5
  <2>2. IsFiniteSet(U)
    BY <1>3, FS_AddElement
  <2> QED BY <1>1, <1>2, <1>3, <1>5, <2>1, <2>2
<1>7. Placed(S) /\ Placed(U)
  <2> HIDE DEF U, S
  <2> QED BY <1>3, <1>6, SoundPlaced
<1>8. /\ x \in Nat \ {0} /\ h \in Nat \ {0}
      /\ Owed0(lower, upper, l, x) \in Nat /\ Owed1(lower, upper, l, x) \in Nat
      /\ cost[1] \in Nat /\ cost[2] \in Nat
      /\ Owed0(lower, upper, l, x) <= cost[1] * h
      /\ Owed1(lower, upper, l, x) <= cost[2] * Q
  <2> HIDE DEF lower, upper
  <2> QED BY <1>2, <1>3, <1>4, PricedAsOwed
<1>9. deposit.amount0 = cost[1] /\ deposit.amount1 = cost[2]
  <2>1. deposit = GetDeltaAmountsSigned(tick, sqrt_price, lower, upper, l)
    BY <1>5 DEF Worth
  <2> HIDE DEF lower, upper
  <2> QED BY <1>1, <2>1, WorthAmounts
<1>10. /\ Claims0(U, x) = Owed0(lower, upper, l, x) + Claims0(S, x)
       /\ Claims1(U, x) = Owed1(lower, upper, l, x) + Claims1(S, x)
       /\ \A t : ActiveAt(U, t) = (IF Covers(p, t) THEN l ELSE 0) + ActiveAt(S, t)
  <2> HIDE DEF lower, upper, x, S
  <2> QED BY <1>5, <1>6, <1>7, <1>8, PositionAdded
<1> DEFINE d0 == cost[1]
           d1 == cost[2]
<1>11. /\ Claims0(S, x) \in Nat /\ Claims1(S, x) \in Nat
       /\ Claims0(S, x) <= reserve0 * h /\ Claims1(S, x) <= reserve1 * Q
       /\ reserve0 \in Nat /\ reserve1 \in Nat /\ Q \in Nat \ {0}
  <2>1. Claims0(S, x) \in Nat /\ Claims1(S, x) \in Nat
    <3> HIDE DEF S, x
    <3> QED BY <1>7, <1>8, ClaimsNat
  <2>2. Q \in Nat \ {0}
    BY QAssumption, SMT
  <2> QED BY <1>3, <2>1, <2>2, ReservesNat DEF Covered
<1> HIDE DEF S, U, x, h, lower, upper, cost, deposit, added, d0, d1
<1>12. Covered(U, reserve0 + d0, reserve1 + d1, x)
  <2>1. d0 \in Nat /\ d1 \in Nat
    BY <1>8 DEF d0, d1
  <2>2. Owed0(lower, upper, l, x) + Claims0(S, x) <= (reserve0 + d0) * h
    BY <1>8, <1>11, <2>1, CoverMore DEF d0
  <2>3. Owed1(lower, upper, l, x) + Claims1(S, x) <= (reserve1 + d1) * Q
    BY <1>8, <1>11, <2>1, CoverMore DEF d1
  <2> QED BY <1>10, <2>2, <2>3 DEF Covered, h, x
<1>13. active' = ActiveAt(U, tick) /\ active' \in U128
  <2>1. active \in Int /\ l \in Int /\ 0 + active = active
    BY <1>3, <1>4, QAssumption, SMT DEF U128, U128Max
  <2>2. CASE Covers(p, tick)
    <3>1. added = AddDelta(active, l)
      BY <2>2 DEF added, ActiveAfter
    <3>2. active + l \in U128 /\ active' = active + l
      BY <1>1, <2>1, <3>1, AddDeltaSums
    <3>3. l + active = active + l
      BY <2>1, SMT
    <3> QED BY <1>3, <1>10, <2>2, <3>2, <3>3
  <2>3. CASE ~Covers(p, tick)
    <3>1. active' = active
      BY <1>1, <2>3 DEF added, ActiveAfter, LiquidityOk
    <3> QED BY <1>3, <1>10, <2>1, <2>3, <3>1
  <2> QED BY <2>2, <2>3
<1>14. reserve0' \in U64 /\ reserve1' \in U64
  <2>1. d0 \in Nat /\ d1 \in Nat /\ reserve0' = reserve0 + d0 /\ reserve1' = reserve1 + d1
        /\ reserve0' <= U64Max /\ reserve1' <= U64Max
    BY <1>1, <1>8, <1>9 DEF d0, d1
  <2> QED BY <1>11, <2>1, QAssumption, SMT DEF U64, U64Max
<1>15. operations' \in 0 .. MAX_OPERATIONS
  BY <1>1, <1>3, PoolLedgerAssumption, SMT
<1>16. Covered(positions, reserve0, reserve1, sqrt_price)'
  BY <1>1, <1>9, <1>12 DEF d0, d1, x
<1>17. AtRest' /\ (MIN_SQRT_PRICE_X64 < sqrt_price)'
  BY <1>1 DEF PoolSound, AtRest, IsTickAtSqrtPrice, InPriceDomain
<1> QED BY <1>1, <1>6, <1>13, <1>14, <1>15, <1>16, <1>17 DEF PoolSound, Holding

(* A payment stays within the claim given up, whole or in part. *)
LEMMA RemoveKeepsSound ==
  ASSUME PoolSound, NEW p \in positions,
         NEW part \in {p.liquidity, p.liquidity \div 2} \ {0},
         RemoveLiquidity(p, part)
  PROVE  PoolSound'
<1> DEFINE S == positions
           R == S \ {p}
           x == sqrt_price
           h == Scale * sqrt_price
           lower == p.lower
           upper == p.upper
           l == p.liquidity
           rest == l - part
           q == [p EXCEPT !.liquidity = rest]
           U == IF rest > 0 THEN R \cup {q} ELSE R
           paid == Amounts0And1(tick, sqrt_price, lower, upper, -part)
           payment == Worth(p, -part)
           left == ActiveAfter(p, -part)
<1>1. /\ AtRest /\ active = ActiveAt(S, tick) /\ active \in U128
      /\ reserve0 \in U64 /\ reserve1 \in U64 /\ operations \in 0 .. MAX_OPERATIONS
      /\ Covered(S, reserve0, reserve1, x)
      /\ IsFiniteSet(S) /\ S \subseteq Holding
      /\ \A r \in S : <<r.lower, r.upper>> \in Ranges
      /\ \A r, v \in S : r.owner = v.owner => r = v
  BY DEF PoolSound
<1>2. /\ operations < MAX_OPERATIONS
      /\ payment.tag = "ok" /\ left.tag = "ok"
      /\ active' = left.liquidity
      /\ reserve0' = reserve0 - payment.amount0 /\ reserve1' = reserve1 - payment.amount1
      /\ positions' = R \cup {r \in {q} : r.liquidity > 0}
      /\ operations' = operations + 1
      /\ sqrt_price' = sqrt_price /\ tick' = tick
  BY DEF RemoveLiquidity, BetweenSwaps
<1>3. /\ Placed(S)
      /\ lower \in Ticks /\ upper \in Ticks /\ lower < upper
      /\ l \in U128 /\ l \in Nat \ {0}
  BY <1>1, SoundPlaced
<1>4. part \in Nat \ {0} /\ rest \in Nat /\ l = rest + part /\ rest <= l
  <2> HIDE DEF l
  <2>1. part \in {l, l \div 2} \ {0}
    BY DEF l
  <2> QED BY <1>3, <2>1, SMT
<1>5. /\ q.owner = p.owner /\ q.lower = lower /\ q.upper = upper /\ q.liquidity = rest
      /\ rest > 0 => q \in Holding
  <2>1. p \in Holding
    BY <1>1
  <2>2. rest > 0 => rest \in U128 \ {0}
    <3> HIDE DEF l
    <3> QED BY <1>3, <1>4, QAssumption, SMT DEF U128, U128Max
  <2> HIDE DEF rest
  <2> QED BY <2>1, <2>2 DEF Holding
<1> HIDE DEF q, rest, l
<1>6. positions' = U
  <2>1. CASE rest > 0
    BY <1>2, <1>5, <2>1
  <2>2. CASE ~(rest > 0)
    BY <1>2, <1>5, <2>2
  <2> QED BY <2>1, <2>2
<1>7. /\ p \notin R /\ R \cup {p} = S /\ q \notin R
      /\ IsFiniteSet(R) /\ R \subseteq Holding
      /\ \A r \in R : <<r.lower, r.upper>> \in Ranges
  <2>1. q \notin R
    BY <1>1, <1>5
  <2>2. IsFiniteSet(R)
    BY <1>1, FS_RemoveElement
  <2> QED BY <1>1, <2>1, <2>2
<1>8. /\ IsFiniteSet(U) /\ U \subseteq Holding
      /\ \A r \in U : <<r.lower, r.upper>> \in Ranges
      /\ \A r, v \in U : r.owner = v.owner => r = v
  <2>1. CASE rest > 0
    <3>1. IsFiniteSet(R \cup {q})
      BY <1>7, FS_AddElement
    <3>2. <<q.lower, q.upper>> \in Ranges
      BY <1>1, <1>5
    <3>3. \A r \in R : r.owner # q.owner
      BY <1>1, <1>5
    <3> QED BY <1>1, <1>5, <1>7, <2>1, <3>1, <3>2, <3>3
  <2>2. CASE ~(rest > 0)
    BY <1>1, <1>7, <2>2
  <2> QED BY <2>1, <2>2
<1>9. Placed(R) /\ Placed(U)
  <2> HIDE DEF U, R
  <2> QED BY <1>7, <1>8, SoundPlaced
<1>10. /\ x \in Nat \ {0} /\ h \in Nat \ {0}
       /\ Owed0(lower, upper, part, x) \in Nat /\ Owed1(lower, upper, part, x) \in Nat
       /\ paid[1] \in Nat /\ paid[2] \in Nat
       /\ paid[1] * h <= Owed0(lower, upper, part, x)
       /\ paid[2] * Q <= Owed1(lower, upper, part, x)
  <2> HIDE DEF lower, upper
  <2> QED BY <1>1, <1>3, <1>4, PricedAsOwed
<1>11. payment.amount0 = paid[1] /\ payment.amount1 = paid[2]
  <2>1. payment = GetDeltaAmountsSigned(tick, sqrt_price, lower, upper, -part)
    BY DEF Worth
  <2> HIDE DEF lower, upper, payment
  <2> QED BY <1>2, <2>1, WorthAmounts
<1> DEFINE o0 == Owed0(lower, upper, part, x)
           o1 == Owed1(lower, upper, part, x)
<1>12. /\ Claims0(S, x) = o0 + Claims0(U, x) /\ Claims1(S, x) = o1 + Claims1(U, x)
       /\ \A t : ActiveAt(S, t) = (IF Covers(p, t) THEN part ELSE 0) + ActiveAt(U, t)
       /\ Claims0(U, x) \in Nat /\ Claims1(U, x) \in Nat /\ ActiveAt(U, tick) \in Nat
  <2> DEFINE l0 == Owed0(lower, upper, l, x)
             l1 == Owed1(lower, upper, l, x)
             r0 == Owed0(lower, upper, rest, x)
             r1 == Owed1(lower, upper, rest, x)
             shareR(t) == IF Covers(p, t) THEN rest ELSE 0
  <2>1. l0 = r0 + o0 /\ l1 = r1 + o1 /\ (rest = 0 => r0 = 0 /\ r1 = 0)
    <3>1. part \in Nat
      BY <1>4
    <3>2. l = rest + part
      BY <1>4
    <3> HIDE DEF lower, upper, x
    <3>3. lower \in Ticks /\ upper \in Ticks /\ rest \in Nat /\ x \in Nat \ {0}
      BY <1>3, <1>4, <1>10
    <3>4. /\ Owed0(lower, upper, rest + part, x) = r0 + o0
          /\ Owed1(lower, upper, rest + part, x) = r1 + o1
          /\ rest = 0 => r0 = 0 /\ r1 = 0
      BY <3>1, <3>3, OwedInParts
    <3> QED BY <3>2, <3>4
  <2>2. r0 \in Nat /\ r1 \in Nat /\ o0 \in Nat /\ o1 \in Nat /\ l0 \in Nat /\ l1 \in Nat
    <3>1. l \in Nat
      BY <1>3
    <3> HIDE DEF lower, upper, x
    <3> QED BY <1>3, <1>4, <1>10, <3>1, OwedAt DEF x
  <2>3. /\ Claims0(S, x) = l0 + Claims0(R, x) /\ Claims1(S, x) = l1 + Claims1(R, x)
        /\ \A t : ActiveAt(S, t) = (IF Covers(p, t) THEN l ELSE 0) + ActiveAt(R, t)
    <3>1. Placed(R \cup {p})
      BY <1>3, <1>7
    <3>2. /\ Claims0(R \cup {p}, x)
               = Owed0(p.lower, p.upper, p.liquidity, x) + Claims0(R, x)
          /\ Claims1(R \cup {p}, x)
               = Owed1(p.lower, p.upper, p.liquidity, x) + Claims1(R, x)
          /\ \A t : ActiveAt(R \cup {p}, t)
                      = (IF Covers(p, t) THEN p.liquidity ELSE 0) + ActiveAt(R, t)
      <4> HIDE DEF R, x
      <4> QED BY <1>7, <1>9, <1>10, <3>1, PositionAdded DEF x
    <3> HIDE DEF R
    <3> QED BY <1>7, <3>2 DEF l
  <2>4. \A v : Claims0(R, x) \in Nat /\ Claims1(R, x) \in Nat /\ ActiveAt(R, v) \in Nat
    <3> HIDE DEF R, x
    <3> QED BY <1>9, <1>10, ClaimsNat, ActiveIsSum DEF x
  <2>5. /\ Claims0(U, x) = r0 + Claims0(R, x) /\ Claims1(U, x) = r1 + Claims1(R, x)
        /\ \A t : ActiveAt(U, t) = shareR(t) + ActiveAt(R, t)
    <3>1. CASE rest > 0
      <4>1. U = R \cup {q} /\ Placed(R \cup {q})
        BY <1>9, <3>1
      <4>2. /\ Claims0(R \cup {q}, x)
                 = Owed0(q.lower, q.upper, q.liquidity, x) + Claims0(R, x)
            /\ Claims1(R \cup {q}, x)
                 = Owed1(q.lower, q.upper, q.liquidity, x) + Claims1(R, x)
            /\ \A t : ActiveAt(R \cup {q}, t)
                        = (IF Covers(q, t) THEN q.liquidity ELSE 0) + ActiveAt(R, t)
        <5> HIDE DEF R, x
        <5> QED BY <1>7, <1>9, <1>10, <4>1, PositionAdded DEF x
      <4>3. \A t : Covers(q, t) <=> Covers(p, t)
        BY <1>5 DEF Covers
      <4> HIDE DEF R, U, x
      <4> QED BY <1>5, <4>1, <4>2, <4>3
    <3>2. CASE ~(rest > 0)
      <4>1. rest = 0 /\ U = R
        <5>1. rest = 0
          BY <1>4, <3>2, SMT
        <5> QED BY <3>2, <5>1
      <4>2. r0 = 0 /\ r1 = 0 /\ \A t : shareR(t) = 0
        BY <2>1, <4>1
      <4> HIDE DEF r0, r1, shareR, R, U, x
      <4>3. Claims0(R, x) = 0 + Claims0(R, x) /\ Claims1(R, x) = 0 + Claims1(R, x)
            /\ \A t : ActiveAt(R, t) = 0 + ActiveAt(R, t)
        <5>1. \A n \in Nat : n = 0 + n
          BY SMT
        <5> QED BY <2>4, <5>1
      <4> QED BY <4>1, <4>2, <4>3
    <3> QED BY <3>1, <3>2
  <2> HIDE DEF R, U, x, S, o0, o1, l0, l1, r0, r1
  <2>6. /\ Claims0(S, x) = o0 + Claims0(U, x) /\ Claims1(S, x) = o1 + Claims1(U, x)
        /\ Claims0(U, x) \in Nat /\ Claims1(U, x) \in Nat
    <3> DEFINE c0 == Claims0(R, x)
               c1 == Claims1(R, x)
    <3>1. c0 \in Nat /\ c1 \in Nat
      BY <2>4
    <3> HIDE DEF c0, c1
    <3>2. (r0 + o0) + c0 = o0 + (r0 + c0) /\ (r1 + o1) + c1 = o1 + (r1 + c1)
          /\ r0 + c0 \in Nat /\ r1 + c1 \in Nat
      BY <2>2, <3>1, SMT
    <3> QED BY <2>1, <2>3, <2>5, <3>2 DEF c0, c1
  <2>7. ASSUME NEW t
        PROVE  /\ ActiveAt(S, t) = (IF Covers(p, t) THEN part ELSE 0) + ActiveAt(U, t)
               /\ ActiveAt(U, t) \in Nat
    <3> DEFINE a == ActiveAt(R, t)
    <3>1. /\ a \in Nat /\ ActiveAt(S, t) = (IF Covers(p, t) THEN l ELSE 0) + a
          /\ ActiveAt(U, t) = (IF Covers(p, t) THEN rest ELSE 0) + a
      BY <2>3, <2>4, <2>5
    <3> HIDE DEF a
    <3> QED BY <1>3, <1>4, <3>1, SMT
  <2> QED BY <2>6, <2>7
<1>13. reserve0 \in Nat /\ reserve1 \in Nat /\ Q \in Nat \ {0}
       /\ reserve0 <= U64Max /\ reserve1 <= U64Max
  <2>1. Q \in Nat \ {0}
    BY QAssumption, SMT
  <2> QED BY <1>1, <2>1, ReservesNat
<1> DEFINE d0 == paid[1]
           d1 == paid[2]
<1>14. o0 + Claims0(U, x) <= reserve0 * h /\ o1 + Claims1(U, x) <= reserve1 * Q
  <2> HIDE DEF o0, o1, U
  <2> QED BY <1>1, <1>12 DEF Covered, h
<1> HIDE DEF S, R, U, x, h, lower, upper, paid, payment, left, d0, d1, o0, o1
<1>15. /\ Claims0(U, x) <= (reserve0 - d0) * h /\ d0 <= reserve0 /\ d0 \in Nat
       /\ Claims1(U, x) <= (reserve1 - d1) * Q /\ d1 <= reserve1 /\ d1 \in Nat
  <2>1. d0 \in Nat /\ d1 \in Nat /\ o0 \in Nat /\ o1 \in Nat
        /\ d0 * h <= o0 /\ d1 * Q <= o1 /\ h \in Nat \ {0}
    BY <1>10 DEF d0, d1, o0, o1
  <2>2. Claims0(U, x) <= (reserve0 - d0) * h /\ d0 <= reserve0
    BY <1>12, <1>13, <1>14, <2>1, CoverLess
  <2>3. Claims1(U, x) <= (reserve1 - d1) * Q /\ d1 <= reserve1
    BY <1>12, <1>13, <1>14, <2>1, CoverLess
  <2> QED BY <2>1, <2>2, <2>3
<1>16. reserve0' = reserve0 - d0 /\ reserve1' = reserve1 - d1
  BY <1>2, <1>11 DEF d0, d1
<1>17. Covered(positions, reserve0, reserve1, sqrt_price)'
  BY <1>2, <1>6, <1>15, <1>16 DEF Covered, h, x
<1>18. reserve0' \in U64 /\ reserve1' \in U64
  BY <1>13, <1>15, <1>16, QAssumption, SMT DEF U64, U64Max
<1>19. active' = ActiveAt(U, tick) /\ active' \in U128
  <2> DEFINE n == ActiveAt(U, tick)
  <2>1. n \in Nat /\ active = (IF Covers(p, tick) THEN part ELSE 0) + n
        /\ active \in U128
    BY <1>1, <1>12 DEF S
  <2> HIDE DEF n
  <2>2. active \in Int /\ -part \in Int /\ n <= active /\ n \in U128
    BY <1>4, <2>1, QAssumption, SMT DEF U128, U128Max
  <2>3. CASE Covers(p, tick)
    <3>1. left = AddDelta(active, -part)
      BY <2>3 DEF left, ActiveAfter
    <3>2. active' = active + (-part)
      BY <1>2, <2>2, <3>1, AddDeltaSums
    <3>3. active + (-part) = n
      BY <1>4, <2>1, <2>3, SMT
    <3> QED BY <2>2, <3>2, <3>3 DEF n
  <2>4. CASE ~Covers(p, tick)
    <3>1. active' = active
      BY <1>2, <2>4 DEF left, ActiveAfter, LiquidityOk
    <3>2. active = n
      BY <2>1, <2>4, SMT
    <3> QED BY <2>2, <3>1, <3>2 DEF n
  <2> QED BY <2>3, <2>4
<1>20. operations' \in 0 .. MAX_OPERATIONS
  BY <1>1, <1>2, PoolLedgerAssumption, SMT
<1>21. AtRest' /\ (MIN_SQRT_PRICE_X64 < sqrt_price)'
  BY <1>2 DEF PoolSound, AtRest, IsTickAtSqrtPrice, InPriceDomain
<1> QED BY <1>2, <1>6, <1>8, <1>17, <1>18, <1>19, <1>20, <1>21 DEF PoolSound, Holding

(* Nothing of the pool changes while a swap runs. *)
LEMMA PoolStays ==
  ASSUME PoolSound, UNCHANGED pool
  PROVE  PoolSound'
<1>1. /\ sqrt_price' = sqrt_price /\ tick' = tick /\ active' = active
      /\ positions' = positions /\ reserve0' = reserve0 /\ reserve1' = reserve1
      /\ operations' = operations
  BY DEF pool
<1> QED BY <1>1 DEF PoolSound, AtRest, IsTickAtSqrtPrice, InPriceDomain, Holding

(* Nor does an operation on the positions change what no swap has. *)
LEMMA IdleStays ==
  ASSUME PoolInv, pc = "idle", UNCHANGED swap
  PROVE  IInv' /\ SwapSound' /\ AnswerExchanged'
<1>1. UNCHANGED vars /\ pc' = "idle"
  BY DEF swap, vars
<1>2. IInv'
  BY <1>1, IterateKeepsIInv DEF PoolInv
<1> QED BY <1>1, <1>2 DEF SwapSound, AnswerExchanged, Succeeded

(* The price between swaps is one a call may be made at, on a book that is   *)
(* well-formed because the reserves cover the positions.                     *)
LEMMA SoundCall ==
  ASSUME PoolSound
  PROVE  /\ WellFormedBook(BookOf(positions)) /\ Placed(positions)
         /\ sqrt_price \in Nat \ {0}
         /\ sqrt_price \in MIN_SQRT_PRICE_X64 + 1 .. MAX_SQRT_PRICE_X64 - 1
         /\ tick \in CurrentTicks
         /\ reserve0 \in Nat /\ reserve1 \in Nat
<1>1. /\ sqrt_price \in Nat /\ tick \in Ticks /\ IsTickAtSqrtPrice(sqrt_price, tick)
      /\ MIN_SQRT_PRICE_X64 < sqrt_price
      /\ active = ActiveAt(positions, tick) /\ active \in U128
      /\ reserve0 \in U64 /\ reserve1 \in U64
      /\ Covered(positions, reserve0, reserve1, sqrt_price)
  BY DEF PoolSound, AtRest
<1>2. Placed(positions)
  BY SoundPlaced DEF PoolSound
<1>3. /\ sqrt_price \in Nat \ {0}
      /\ sqrt_price \in MIN_SQRT_PRICE_X64 + 1 .. MAX_SQRT_PRICE_X64 - 1
  <2>1. MIN_SQRT_PRICE_X64 \in Nat /\ MAX_SQRT_PRICE_X64 \in Nat
    BY TickDomain, TablePrices DEF MIN_SQRT_PRICE_X64, MAX_SQRT_PRICE_X64
  <2>2. sqrt_price < MAX_SQRT_PRICE_X64
    BY <1>1 DEF IsTickAtSqrtPrice, InPriceDomain
  <2> QED BY <1>1, <2>1, <2>2, SMT
<1>4. WellFormedBook(BookOf(positions))
  BY <1>1, <1>2, <1>3, BookIsWellFormed
<1> QED BY <1>1, <1>2, <1>3, <1>4, TickDomain, ReservesNat

(* A swap that starts has exchanged nothing yet. *)
LEMMA SwapStarts ==
  ASSUME CheckedLimits, PoolInv,
         NEW feeRate \in FeeRates, NEW amount \in Amounts, NEW limit \in Limits,
         NEW isBaseInput \in BOOLEAN, NEW zeroForOne \in BOOLEAN,
         StartSwap(feeRate, amount, limit, isBaseInput, zeroForOne)
  PROVE  PoolInv'
<1> DEFINE book == BookOf(positions)
<1>1. /\ operations < MAX_OPERATIONS
      /\ Start(book, sqrt_price, tick, feeRate, amount, limit, isBaseInput, zeroForOne)
      /\ UNCHANGED pool
  BY DEF StartSwap, BetweenSwaps
<1>2. IInv /\ PoolSound
  BY DEF PoolInv
<1>3. /\ WellFormedBook(book)
      /\ sqrt_price \in MIN_SQRT_PRICE_X64 + 1 .. MAX_SQRT_PRICE_X64 - 1
      /\ tick \in CurrentTicks
      /\ reserve0 \in Nat /\ reserve1 \in Nat
  BY <1>2, SoundCall
<1> HIDE DEF book
<1>4. IInv'
  BY <1>1, <1>2, <1>3, StartKeepsIInv
<1>5. PoolSound'
  BY <1>1, <1>2, PoolStays
<1>6. /\ pc' = "loop" /\ call'.book = book /\ call'.amount = amount
      /\ sp_current' = sqrt_price /\ amount_remaining' = amount
      /\ amount_calculated' = 0 /\ fee_total' = 0
  BY <1>1 DEF Start
<1>7. /\ positions' = positions /\ reserve0' = reserve0 /\ reserve1' = reserve1
      /\ operations' = operations
  BY <1>1 DEF pool
<1>8. Paid' = 0 /\ Got' = 0
  <2>1. amount \in Int
    <3>1. amount \in U64
      BY SwapFullAssumption
    <3> QED BY <3>1, QAssumption, SMT DEF U64, U64Max
  <2>2. Consumed' = amount - amount /\ amount - amount = 0
    BY <1>6, <2>1, SMT DEF Consumed
  <2> QED BY <1>6, <2>2 DEF Paid, Got
<1>9. Tokens0' = reserve0 /\ Tokens1' = reserve1
  <2>1. reserve0 + (0 - 0) = reserve0 /\ reserve0 + (-0) = reserve0
        /\ reserve1 + (0 - 0) = reserve1 /\ reserve1 + (-0) = reserve1
    BY <1>3, SMT
  <2> QED BY <1>6, <1>7, <1>8, <2>1 DEF Tokens0, Tokens1
<1>10. SwapSound'
  <2>1. Covered(positions, reserve0, reserve1, sqrt_price)
    BY <1>2 DEF PoolSound
  <2>2. Covered(positions, Tokens0, Tokens1, sp_current)'
    BY <1>6, <1>7, <1>9, <2>1
  <2>3. OnPositions'
    BY <1>6, <1>7 DEF OnPositions, book
  <2> QED BY <1>1, <1>7, <2>2, <2>3 DEF SwapSound
<1>11. AnswerExchanged'
  BY <1>6 DEF AnswerExchanged, Succeeded
<1> QED BY <1>4, <1>5, <1>10, <1>11 DEF PoolInv

(* A swap that ends has exchanged what it had, and answers it. *)
LEMMA EndKeepsSound ==
  ASSUME PoolInv, pc # "idle", pc' = "done", call' = call, UNCHANGED locals, UNCHANGED pool
  PROVE  SwapSound' /\ Paid' = Paid /\ Got' = Got
<1>1. Paid' = Paid /\ Got' = Got
  BY EndKeeps DEF PoolInv
<1>2. /\ sp_current' = sp_current /\ fee_total' = fee_total
      /\ positions' = positions /\ reserve0' = reserve0 /\ reserve1' = reserve1
      /\ operations' = operations
  BY DEF locals, pool
<1>3. Tokens0' = Tokens0 /\ Tokens1' = Tokens1
  BY <1>1, <1>2 DEF Tokens0, Tokens1
<1>4. /\ operations < MAX_OPERATIONS /\ OnPositions
      /\ Covered(positions, Tokens0, Tokens1, sp_current)
  BY DEF PoolInv, SwapSound
<1>5. OnPositions' /\ Covered(positions, Tokens0, Tokens1, sp_current)'
  BY <1>2, <1>3, <1>4 DEF OnPositions
<1> QED BY <1>1, <1>2, <1>4, <1>5 DEF SwapSound

(* Each iteration of the walk. *)
LEMMA WalkKeepsSound ==
  ASSUME OverflowChecks, PoolInv, Walk
  PROVE  PoolInv'
<1>1. Iterate /\ UNCHANGED pool /\ IInv /\ PoolSound
  BY DEF Walk, PoolInv
<1>2. IInv' /\ PoolSound'
  BY <1>1, IterateKeepsIInv, PoolStays
<1>3. /\ positions' = positions /\ reserve0' = reserve0 /\ reserve1' = reserve1
      /\ operations' = operations
  BY <1>1 DEF pool
<1>4. ASSUME StepCapReached \/ \E t \in Ticks : IterationFails(t)
      PROVE  SwapSound' /\ AnswerExchanged'
  <2>1. /\ pc = "loop" /\ pc' = "done" /\ call' = call /\ UNCHANGED locals
        /\ result'.tag # "ok"
    BY <1>4 DEF StepCapReached, IterationFails, Iterating, Err
  <2>2. SwapSound'
    BY <1>1, <2>1, EndKeepsSound
  <2> QED BY <2>1, <2>2 DEF AnswerExchanged, Succeeded
<1>5. ASSUME Return
      PROVE  SwapSound' /\ AnswerExchanged'
  <2>1. /\ pc = "return" \/ pc = "loop"
        /\ pc' = "done" /\ call' = call /\ UNCHANGED locals
    BY <1>5 DEF Return
  <2>2. SwapSound' /\ Paid' = Paid /\ Got' = Got
    BY <1>1, <2>1, EndKeepsSound
  <2>3. result'.amountIn = Paid /\ result'.amountOut = Got
    BY <1>5, <2>1 DEF Return, Paid, Got
  <2> QED BY <2>2, <2>3 DEF AnswerExchanged
<1>6. ASSUME NEW t \in Ticks, CrossTick(t) \/ StopAtLimit(t) \/ StayInRange(t)
      PROVE  SwapSound' /\ AnswerExchanged'
  <2>1. /\ Iterating(t) /\ call' = call
        /\ pc' = pc \/ pc' = "return"
        /\ \E s \in {StepTo(t)} : Failure(s, t).tag = "ok" /\ Account(s)
    BY <1>6 DEF CrossTick, StopAtLimit, StayInRange
  <2>2. pc = "loop" /\ LoopGuard /\ steps < MAX_STEPS /\ IsNextTick(t)
    BY <2>1 DEF Iterating
  <2>3. PICK s \in {StepTo(t)} : Failure(s, t).tag = "ok" /\ Account(s)
    BY <2>1
  <2>4. s = StepTo(t) /\ (pc' = "loop" \/ pc' = "return")
    BY <2>1, <2>2
  <2>5. /\ operations < MAX_OPERATIONS /\ OnPositions
        /\ Covered(positions, Tokens0, Tokens1, sp_current)
    BY <2>2 DEF PoolInv, SwapSound
  <2>6. Placed(positions) /\ reserve0 \in Int /\ reserve1 \in Int
    <3>1. \A n \in Nat : n \in Int
      BY SMT
    <3> QED BY <1>1, <3>1, SoundCall
  <2>7. Covered(positions, Tokens0', Tokens1', sp_current')
    BY <1>1, <1>3, <2>1, <2>2, <2>3, <2>4, <2>5, <2>6, StepKeepsCovered
  <2>8. Covered(positions, Tokens0, Tokens1, sp_current)'
    BY <1>3, <2>7
  <2>9. OnPositions'
    BY <1>3, <2>1, <2>5 DEF OnPositions
  <2>10. SwapSound'
    BY <1>3, <2>5, <2>8, <2>9 DEF SwapSound
  <2> QED BY <2>4, <2>10 DEF AnswerExchanged, Succeeded
<1>7. SwapSound' /\ AnswerExchanged'
  BY <1>1, <1>4, <1>5, <1>6 DEF Iterate
<1> QED BY <1>2, <1>7 DEF PoolInv

(* A swap settled or dropped leaves no call behind. *)
LEMMA NoSwapSound ==
  ASSUME NoSwap
  PROVE  IInv' /\ SwapSound' /\ AnswerExchanged'
<1>1. Init'
  BY DEF NoSwap, Init, NoCall, NoResult
<1>2. IInv'
  BY <1>1, InitIInv, PTL
<1>3. pc' = "idle"
  BY DEF NoSwap
<1> QED BY <1>2, <1>3 DEF SwapSound, AnswerExchanged, Succeeded

(* The accounts are settled with what was exchanged: the reserves are those  *)
(* that covered the claims at the price the swap has reached.                *)
LEMMA SettleKeepsSound ==
  ASSUME PoolInv, SettleSwap
  PROVE  PoolInv'
<1>1. /\ pc = "done" /\ result.tag = "ok"
      /\ reserve0 + In0 <= U64Max /\ reserve1 + In1 <= U64Max
      /\ sqrt_price' = result.price
      /\ reserve0' = reserve0 + In0 /\ reserve1' = reserve1 + In1
      /\ operations' = operations + 1 /\ positions' = positions
      /\ NoSwap
  BY DEF SettleSwap, AccountsTakeResult
<1>2. PICK t \in Ticks : /\ IsTickAtSqrtPrice(result.price, t)
                         /\ tick' = t /\ active' = ActiveAt(positions, t)
  BY DEF SettleSwap
<1>3. IInv /\ PoolSound /\ Succeeded
  BY <1>1 DEF PoolInv, Succeeded
<1>4. /\ result.price = sp_current /\ result.fee = fee_total
      /\ result.amountIn = Paid /\ result.amountOut = Got
      /\ operations < MAX_OPERATIONS /\ OnPositions
      /\ Covered(positions, Tokens0, Tokens1, sp_current)
  BY <1>1, <1>3 DEF IInv, AnswerTellsState, PoolInv, SwapSound, AnswerExchanged
<1>5. reserve0' = Tokens0 /\ reserve1' = Tokens1
  BY <1>1, <1>4 DEF Tokens0, Tokens1, In0, In1
<1>6. /\ sp_current \in Nat \ {0} /\ MIN_SQRT_PRICE_X64 < sp_current
  <2>1. CallSane /\ LimitRespected /\ pc # "idle" /\ sp_current \in U128
    BY <1>1, <1>3 DEF IInv, TypeOK
  <2>2. sp_current \in Prices128 /\ MIN_SQRT_PRICE_X64 < sp_current
    BY <2>1, PriceInside
  <2> QED BY <2>2, QAssumption, SMT DEF Prices128, U128Max
<1>7. reserve0' \in U64 /\ reserve1' \in U64
  <2> DEFINE r0 == reserve0'
             r1 == reserve1'
             c0 == Claims0(positions, sp_current)
             c1 == Claims1(positions, sp_current)
             h  == Scale * sp_current
  <2>1. c0 \in Nat /\ c1 \in Nat
    BY <1>3, <1>6, SoundCall, ClaimsNat
  <2>2. c0 <= r0 * h /\ c1 <= r1 * Q
    BY <1>4, <1>5 DEF Covered
  <2>3. h \in Nat \ {0} /\ Q \in Nat \ {0}
    <3>1. Scale \in Nat \ {0} /\ Q \in Nat \ {0}
      BY ScaleFacts, QAssumption, SMT
    <3> QED BY <1>6, <3>1, SMT
  <2>4. r0 \in Int /\ r1 \in Int /\ r0 <= U64Max /\ r1 <= U64Max
    <3>1. reserve0 \in Int /\ reserve1 \in Int /\ fee_total \in Int /\ Paid \in Int /\ Got \in Int
      <4>1. reserve0 \in Int /\ reserve1 \in Int
        BY <1>3, ReservesNat DEF PoolSound
      <4>2. /\ amount_remaining \in U64 /\ amount_calculated \in U64 /\ fee_total \in U64
            /\ call.amount \in U64
        BY <1>1, <1>3, SwapFullAssumption DEF IInv, TypeOK, CallSane
      <4>3. /\ amount_remaining \in Int /\ amount_calculated \in Int /\ fee_total \in Int
            /\ call.amount \in Int
        BY <4>2, ReservesNat
      <4>4. Consumed \in Int
        BY <4>3, SMT DEF Consumed
      <4> QED BY <1>1, <4>1, <4>3, <4>4 DEF Paid, Got
    <3>2. Tokens0 \in Int /\ Tokens1 \in Int
      BY <3>1, SMT DEF Tokens0, Tokens1
    <3> QED BY <1>1, <1>5, <3>2
  <2> HIDE DEF r0, r1, c0, c1, h
  <2>5. r0 >= 0 /\ r1 >= 0
    <3>1. ASSUME NEW r \in Int, NEW c \in Nat, NEW k \in Nat \ {0}, c <= r * k
          PROVE  r >= 0
      <4> SUFFICES ASSUME r < 0 PROVE FALSE
        BY SMT
      <4>1. r * k < 0
        BY SMT
      <4>2. r * k \in Int
        BY SMT
      <4> DEFINE y == r * k
      <4> HIDE DEF y
      <4>3. c <= y /\ y < 0 /\ y \in Int
        BY <3>1, <4>1, <4>2 DEF y
      <4> QED BY <4>3, SMT
    <3> QED BY <2>1, <2>2, <2>3, <2>4, <3>1
  <2>6. r0 \in U64 /\ r1 \in U64
    BY <2>4, <2>5, QAssumption, SMT DEF U64, U64Max
  <2> QED BY <2>6 DEF r0, r1
<1>8. active' \in U128
  <2>1. WellFormedBook(call.book) /\ call.book = BookOf(positions) /\ t \in CurrentTicks
    BY <1>1, <1>3, <1>4, TickDomain DEF IInv, CallSane, OnPositions
  <2>2. call.book.active[t] \in U128
    BY <2>1 DEF WellFormedBook
  <2>3. call.book.active[t] = ActiveAt(positions, t)
    BY <2>1 DEF BookOf
  <2> QED BY <1>2, <2>2, <2>3
<1>9. active' = ActiveAt(positions, tick)'
  BY <1>1, <1>2
<1>10. Covered(positions, reserve0, reserve1, sqrt_price)'
  BY <1>1, <1>4, <1>5
<1>11. AtRest' /\ (MIN_SQRT_PRICE_X64 < sqrt_price)'
  <2>1. sqrt_price' = sp_current /\ sqrt_price' \in Nat
    BY <1>1, <1>4, <1>6
  <2> QED BY <1>1, <1>2, <1>6, <2>1 DEF AtRest, IsTickAtSqrtPrice, InPriceDomain
<1>12. operations' \in 0 .. MAX_OPERATIONS
  <2>1. operations \in 0 .. MAX_OPERATIONS
    BY <1>3 DEF PoolSound
  <2> QED BY <1>1, <1>4, <2>1, PoolLedgerAssumption, SMT
<1>13. PoolSound'
  BY <1>1, <1>3, <1>7, <1>8, <1>9, <1>10, <1>11, <1>12 DEF PoolSound, Holding
<1> QED BY <1>1, <1>13, NoSwapSound DEF PoolInv

(* A swap the accounts cannot take leaves them as they were. *)
LEMMA DropKeepsSound ==
  ASSUME PoolInv, DropSwap
  PROVE  PoolInv'
<1>1. /\ pc = "done" /\ operations' = operations + 1 /\ NoSwap
      /\ sqrt_price' = sqrt_price /\ tick' = tick /\ active' = active
      /\ positions' = positions /\ reserve0' = reserve0 /\ reserve1' = reserve1
  BY DEF DropSwap
<1>2. PoolSound /\ operations < MAX_OPERATIONS
  BY <1>1 DEF PoolInv, SwapSound
<1>3. operations' \in 0 .. MAX_OPERATIONS
  <2>1. operations \in 0 .. MAX_OPERATIONS
    BY <1>2 DEF PoolSound
  <2> QED BY <1>1, <1>2, <2>1, PoolLedgerAssumption, SMT
<1>4. PoolSound'
  BY <1>1, <1>2, <1>3 DEF PoolSound, AtRest, IsTickAtSqrtPrice, InPriceDomain, Holding
<1> QED BY <1>1, <1>4, NoSwapSound DEF PoolInv

(* An empty pool owes nothing. *)
LEMMA LedgerSoundAtFirst == LedgerInit => PoolInv
<1> SUFFICES ASSUME LedgerInit PROVE PoolInv
  OBVIOUS
<1>1. /\ Init /\ pc = "idle" /\ sqrt_price \in InitialPrices /\ tick \in Ticks
      /\ IsTickAtSqrtPrice(sqrt_price, tick)
      /\ active = 0 /\ positions = {} /\ reserve0 = 0 /\ reserve1 = 0 /\ operations = 0
  BY DEF LedgerInit, Init
<1>2. sqrt_price \in Nat \ {0} /\ MIN_SQRT_PRICE_X64 < sqrt_price
  <2>1. MIN_SQRT_PRICE_X64 \in Nat /\ MAX_SQRT_PRICE_X64 \in Nat
    BY TickDomain, TablePrices DEF MIN_SQRT_PRICE_X64, MAX_SQRT_PRICE_X64
  <2>2. sqrt_price \in MIN_SQRT_PRICE_X64 + 1 .. MAX_SQRT_PRICE_X64 - 1
    BY <1>1, PoolLedgerAssumption
  <2> QED BY <2>1, <2>2, SMT
<1>3. IsFiniteSet({}) /\ \A w : SumOver(w, {}) = 0
  BY FS_EmptySet, SumStep
<1>4. Claims0({}, sqrt_price) = 0 /\ Claims1({}, sqrt_price) = 0
  BY <1>3 DEF Claims0, Claims1
<1>5. ActiveAt({}, tick) = 0
  <2>1. Placed({})
    BY <1>3 DEF Placed
  <2> QED BY <1>3, <2>1, ActiveIsSum
<1>6. Covered({}, 0, 0, sqrt_price)
  <2>1. Scale * sqrt_price \in Int
    <3>1. Scale \in Nat \ {0}
      BY ScaleFacts
    <3> QED BY <1>2, <3>1, SMT
  <2>2. \A n \in Int : 0 <= 0 * n
    BY SMT
  <2>3. Q \in Int
    BY QAssumption, SMT
  <2> QED BY <1>4, <2>1, <2>2, <2>3 DEF Covered
<1>7. 0 \in U128 /\ 0 \in U64 /\ 0 \in 0 .. MAX_OPERATIONS
  BY QAssumption, PoolLedgerAssumption, SMT DEF U128, U128Max, U64, U64Max
<1>8. PoolSound
  BY <1>1, <1>2, <1>3, <1>5, <1>6, <1>7 DEF PoolSound, AtRest
<1> QED BY <1>1, <1>8, InitIInv DEF PoolInv, SwapSound, AnswerExchanged, Succeeded

(* Every operation preserves the invariant. *)
LEMMA LedgerKeepsSound ==
  ASSUME CheckedLimits, OverflowChecks, PoolInv, [LedgerNext]_ledger
  PROVE  PoolInv'
<1>1. ASSUME NEW owner \in Owners, NEW sizing \in Sizings, NEW range \in Ranges,
             NEW offer \in Offers, OpenPosition(owner, sizing, range, offer)
      PROVE  PoolInv'
  <2>1. pc = "idle" /\ UNCHANGED swap
    BY <1>1 DEF OpenPosition, BetweenSwaps
  <2>2. PoolSound'
    BY <1>1, OpenKeepsSound DEF PoolInv
  <2> QED BY <2>1, <2>2, IdleStays DEF PoolInv
<1>2. ASSUME NEW p \in positions, NEW part \in {p.liquidity, p.liquidity \div 2} \ {0},
             RemoveLiquidity(p, part)
      PROVE  PoolInv'
  <2>1. pc = "idle" /\ UNCHANGED swap
    BY <1>2 DEF RemoveLiquidity, BetweenSwaps
  <2>2. PoolSound'
    BY <1>2, RemoveKeepsSound DEF PoolInv
  <2> QED BY <2>1, <2>2, IdleStays DEF PoolInv
<1>3. ASSUME NEW feeRate \in FeeRates, NEW amount \in Amounts, NEW limit \in Limits,
             NEW isBaseInput \in BOOLEAN, NEW zeroForOne \in BOOLEAN,
             StartSwap(feeRate, amount, limit, isBaseInput, zeroForOne)
      PROVE  PoolInv'
  BY <1>3, SwapStarts
<1>4. CASE Walk
  BY <1>4, WalkKeepsSound
<1>5. CASE SettleSwap
  BY <1>5, SettleKeepsSound
<1>6. CASE DropSwap
  BY <1>6, DropKeepsSound
<1>7. CASE UNCHANGED ledger
  <2>1. UNCHANGED swap /\ UNCHANGED pool
    BY <1>7 DEF ledger
  <2>2. UNCHANGED vars
    BY <2>1 DEF swap, vars
  <2>3. IInv' /\ PoolSound'
    BY <2>1, <2>2, IterateKeepsIInv, PoolStays DEF PoolInv
  <2>4. /\ pc' = pc /\ call' = call /\ result' = result
        /\ sp_current' = sp_current /\ fee_total' = fee_total
        /\ amount_remaining' = amount_remaining /\ amount_calculated' = amount_calculated
        /\ positions' = positions /\ reserve0' = reserve0 /\ reserve1' = reserve1
        /\ operations' = operations
    BY <2>1 DEF swap, locals, pool
  <2>5. Paid' = Paid /\ Got' = Got
    BY <2>4 DEF Paid, Got, Consumed
  <2>6. Tokens0' = Tokens0 /\ Tokens1' = Tokens1
    BY <2>4, <2>5 DEF Tokens0, Tokens1
  <2>7. SwapSound'
    <3>1. CASE pc = "idle"
      BY <2>4, <3>1 DEF SwapSound
    <3>2. CASE pc # "idle"
      <4>1. /\ operations < MAX_OPERATIONS /\ OnPositions
            /\ Covered(positions, Tokens0, Tokens1, sp_current)
        BY <3>2 DEF PoolInv, SwapSound
      <4>2. OnPositions' /\ Covered(positions, Tokens0, Tokens1, sp_current)'
        BY <2>4, <2>6, <4>1 DEF OnPositions
      <4> QED BY <2>4, <4>1, <4>2 DEF SwapSound
    <3> QED BY <3>1, <3>2
  <2>8. AnswerExchanged'
    BY <2>4, <2>5 DEF PoolInv, AnswerExchanged, Succeeded
  <2> QED BY <2>3, <2>7, <2>8 DEF PoolInv
<1> QED BY <1>1, <1>2, <1>3, <1>4, <1>5, <1>6, <1>7 DEF LedgerNext

-----------------------------------------------------------------------------
(* What a pool kept on these helpers can rely on *)

(* The invariant is one of the ledger: limits as the on-chain instruction    *)
(* lets through, and additions that do not wrap.                             *)
THEOREM LedgerSound ==
  ASSUME CheckedLimits, OverflowChecks
  PROVE  LedgerSpec => []PoolInv
<1>1. PoolInv /\ [LedgerNext]_ledger => PoolInv'
  BY LedgerKeepsSound
<1> QED BY <1>1, LedgerSoundAtFirst, PTL DEF LedgerSpec

(* Types of the pool and of the running swap: no reserve is overdrawn and    *)
(* the liquidity the pool keeps is that of the positions at its tick.        *)
THEOREM LedgerTypeCorrect ==
  ASSUME CheckedLimits, OverflowChecks
  PROVE  LedgerSpec => []LedgerTypeOK
<1>1. PoolInv => LedgerTypeOK
  <2> SUFFICES ASSUME PoolInv PROVE LedgerTypeOK
    OBVIOUS
  <2>1. TypeOK /\ PoolSound
    BY DEF PoolInv, IInv
  <2>2. /\ sqrt_price \in Nat /\ tick \in Ticks /\ IsTickAtSqrtPrice(sqrt_price, tick)
    BY <2>1 DEF PoolSound, AtRest
  <2>3. InPriceDomain(sqrt_price)
    BY <2>2 DEF IsTickAtSqrtPrice
  <2>4. PriceInTick(sqrt_price, tick)
    <3>1. tick \in CurrentTicks /\ tick + 1 \in Ticks
      BY <2>2, TickDomain, SMT DEF IsTickAtSqrtPrice, Ticks
    <3>2. SqrtPriceAt[tick + 1] \in Nat
      BY <3>1, TablePrices
    <3>3. sqrt_price <= SqrtPriceAt[tick + 1] /\ SqrtPriceAt[tick] <= sqrt_price
      BY <2>2, <3>2, SMT DEF IsTickAtSqrtPrice
    <3> QED BY <3>1, <3>3 DEF PriceInTick
  <2>5. \A p \in positions :
          p.owner \in Owners /\ <<p.lower, p.upper>> \in Ranges /\ p.liquidity \in U128 \ {0}
    BY <2>1 DEF PoolSound, Holding
  <2> QED BY <2>1, <2>2, <2>3, <2>4, <2>5 DEF LedgerTypeOK, PoolSound
<1> QED BY <1>1, LedgerSound, PTL

(***************************************************************************)
(* After any deposits, withdrawals and swaps, for every price table, set   *)
(* of ranges, fee rates and amounts: no position is worth more than a u64  *)
(* of either token, and the reserves, which hold no fees, pay all owners   *)
(* at once.                                                                *)
(***************************************************************************)
THEOREM Solvency ==
  ASSUME CheckedLimits, OverflowChecks
  PROVE  LedgerSpec => []EveryoneCanWithdraw
<1>1. PoolInv => EveryoneCanWithdraw
  <2> SUFFICES ASSUME PoolInv PROVE EveryoneCanWithdraw
    OBVIOUS
  <2> DEFINE S  == positions
             x  == sqrt_price
             h  == Scale * x
             payment(p) == Worth(p, -p.liquidity)
             w0 == [p \in S |-> payment(p).amount0]
             w1 == [p \in S |-> payment(p).amount1]
  <2>1. /\ PoolSound /\ AtRest /\ reserve0 \in U64 /\ reserve1 \in U64
        /\ Covered(S, reserve0, reserve1, x)
        /\ IsFiniteSet(S) /\ S \subseteq Holding /\ \A p \in S : <<p.lower, p.upper>> \in Ranges
    BY DEF PoolInv, PoolSound
  <2>2. Placed(S) /\ x \in Nat \ {0} /\ reserve0 \in Nat /\ reserve1 \in Nat
    BY <2>1, SoundCall
  <2>3. h \in Nat \ {0} /\ Q \in Nat \ {0}
    <3>1. Scale \in Nat \ {0} /\ Q \in Nat \ {0}
      BY ScaleFacts, QAssumption, SMT
    <3> HIDE DEF x
    <3> QED BY <2>2, <3>1, SMT
  <2>4. /\ IntegerOn(Owes0(S, x), S) /\ IntegerOn(Owes1(S, x), S)
        /\ Claims0(S, x) \in Nat /\ Claims1(S, x) \in Nat
        /\ \A p \in S : /\ Owed0(p.lower, p.upper, p.liquidity, x) <= Claims0(S, x)
                        /\ Owed1(p.lower, p.upper, p.liquidity, x) <= Claims1(S, x)
    <3> HIDE DEF S, x
    <3> QED BY <2>2, ClaimsNat
  <2>5. Claims0(S, x) <= reserve0 * h /\ Claims1(S, x) <= reserve1 * Q
    BY <2>1 DEF Covered
  <2>6. reserve0 <= U64Max /\ reserve1 <= U64Max
    BY <2>1, ReservesNat
  <2> HIDE DEF h
  <2>7. ASSUME NEW p \in S
        PROVE  /\ payment(p).tag = "ok"
               /\ payment(p).amount0 \in Int /\ payment(p).amount1 \in Int
               /\ h * payment(p).amount0 <= 1 * Owes0(S, x)[p]
               /\ Q * payment(p).amount1 <= 1 * Owes1(S, x)[p]
    <3> DEFINE l  == p.liquidity
               o0 == Owed0(p.lower, p.upper, l, x)
               o1 == Owed1(p.lower, p.upper, l, x)
               paid == Amounts0And1(tick, sqrt_price, p.lower, p.upper, -l)
               d0 == paid[1]
               d1 == paid[2]
               c0 == Claims0(S, x)
               c1 == Claims1(S, x)
    <3>1. /\ p.lower \in Ticks /\ p.upper \in Ticks /\ p.lower < p.upper /\ l \in Nat \ {0}
      BY <2>1, SoundPlaced
    <3>2. /\ o0 \in Nat /\ o1 \in Nat /\ d0 \in Nat /\ d1 \in Nat
          /\ d0 * h <= o0 /\ d1 * Q <= o1
      <4> HIDE DEF l
      <4> QED BY <2>1, <3>1, PricedAsOwed DEF h
    <3>3. o0 <= c0 /\ o1 <= c1 /\ c0 \in Nat /\ c1 \in Nat
          /\ c0 <= reserve0 * h /\ c1 <= reserve1 * Q
      BY <2>4, <2>5
    <3>4. payment(p) = GetDeltaAmountsSigned(tick, sqrt_price, p.lower, p.upper, -l)
      BY DEF Worth
    <3>5. o0 = Owes0(S, x)[p] /\ o1 = Owes1(S, x)[p]
      BY DEF Owes0, Owes1
    <3> HIDE DEF l, o0, o1, d0, d1, c0, c1, S, x, payment
    <3>6. d0 <= reserve0 /\ d1 <= reserve1
      <4>1. \A d, r \in Nat : \A k \in Nat \ {0} : d * k <= r * k => d <= r
        BY ProductCancel
      <4>2. /\ d0 * h \in Nat /\ d1 * Q \in Nat /\ reserve0 * h \in Nat /\ reserve1 * Q \in Nat
        <5>1. h \in Nat /\ Q \in Nat
          BY <2>3
        <5> QED BY <2>2, <3>2, <5>1, ProductNat
      <4> DEFINE u == d0 * h
                 v == d1 * Q
                 y == reserve0 * h
                 z == reserve1 * Q
      <4>3. u <= y /\ v <= z
        <5>1. /\ u \in Nat /\ v \in Nat /\ y \in Nat /\ z \in Nat
              /\ u <= o0 /\ o0 <= c0 /\ c0 <= y /\ v <= o1 /\ o1 <= c1 /\ c1 <= z
          BY <3>2, <3>3, <4>2
        <5> HIDE DEF u, v, y, z
        <5> QED BY <3>2, <3>3, <5>1, SMT
      <4> QED BY <2>2, <2>3, <3>2, <4>1, <4>3
    <3>7. d0 \in U64 /\ d1 \in U64
      BY <2>2, <2>6, <3>2, <3>6, QAssumption, SMT DEF U64, U64Max
    <3>8. payment(p).tag = "ok" /\ payment(p).amount0 = d0 /\ payment(p).amount1 = d1
      <4>1. paid[1] \in U64 /\ paid[2] \in U64
        BY <3>7 DEF d0, d1
      <4>2. payment(p) = [tag |-> "ok", amount0 |-> paid[1], amount1 |-> paid[2]]
        <5> HIDE DEF paid
        <5> QED BY <3>4, <4>1, WorthAmounts DEF paid
      <4> HIDE DEF paid
      <4> QED BY <4>2 DEF d0, d1
    <3>9. h * d0 = d0 * h /\ Q * d1 = d1 * Q /\ 1 * o0 = o0 /\ 1 * o1 = o1
          /\ d0 \in Int /\ d1 \in Int
      BY <2>3, <3>2, SMT
    <3> QED BY <3>2, <3>5, <3>8, <3>9
  <2>8. /\ MapThenSumSet(LAMBDA p : payment(p).amount0, S) = SumOver(w0, S)
        /\ MapThenSumSet(LAMBDA p : payment(p).amount1, S) = SumOver(w1, S)
    <3> HIDE DEF S
    <3> QED BY DEF MapThenSumSet, MapThenFoldSet, SumOver
  <2>9. /\ IntegerOn(w0, S) /\ IntegerOn(w1, S)
        /\ \A p \in S : /\ h * w0[p] <= 1 * Owes0(S, x)[p]
                        /\ Q * w1[p] <= 1 * Owes1(S, x)[p]
    BY <2>7 DEF IntegerOn
  <2> HIDE DEF w0, w1, x, S
  <2> DEFINE one == 1
             v0 == Owes0(S, x)
             v1 == Owes1(S, x)
             s0 == SumOver(w0, S)
             s1 == SumOver(w1, S)
             c0 == Claims0(S, x)
             c1 == Claims1(S, x)
  <2>10. s0 \in Int /\ s1 \in Int
    <3>1. S \in SUBSET S
      OBVIOUS
    <3>2. IsFiniteSet(S)
      BY <2>1
    <3> QED BY <2>9, <3>1, <3>2, SumInt
  <2>11. h * s0 <= one * c0 /\ Q * s1 <= one * c1
    <3>1. one \in Int /\ h \in Int /\ Q \in Int /\ IsFiniteSet(S)
          /\ IntegerOn(v0, S) /\ IntegerOn(v1, S)
          /\ \A p \in S : h * w0[p] <= one * v0[p] /\ Q * w1[p] <= one * v1[p]
      <4>1. \A n \in Nat : n \in Int
        BY SMT
      <4> QED BY <2>1, <2>3, <2>4, <2>9, <4>1
    <3>2. c0 = SumOver(v0, S) /\ c1 = SumOver(v1, S)
      BY DEF Claims0, Claims1
    <3> HIDE DEF one, v0, v1, c0, c1, s0, s1
    <3>3. h * SumOver(w0, S) <= one * SumOver(v0, S)
      BY <2>9, <3>1, SumOrdered
    <3>4. Q * SumOver(w1, S) <= one * SumOver(v1, S)
      BY <2>9, <3>1, SumOrdered
    <3> QED BY <3>2, <3>3, <3>4 DEF s0, s1
  <2>12. s0 <= reserve0 /\ s1 <= reserve1
    <3>1. ASSUME NEW k \in Nat \ {0}, NEW s \in Int, NEW r \in Nat, NEW c \in Nat,
                 k * s <= 1 * c, c <= r * k
          PROVE  s <= r
      <4> DEFINE u == k * s
                 v == r * k
      <4>1. u \in Int /\ v \in Int /\ u <= c /\ c <= v
        BY <3>1, SMT
      <4>2. u <= v
        <5> HIDE DEF u, v
        <5> QED BY <4>1, SMT
      <4>3. CASE s < 0
        BY <4>3, SMT
      <4>4. CASE s >= 0
        <5>1. s \in Nat /\ s * k <= r * k
          BY <4>2, <4>4, SMT
        <5> QED BY <5>1, ProductCancel
      <4> QED BY <4>3, <4>4, SMT
    <3>2. c0 \in Nat /\ c1 \in Nat /\ c0 <= reserve0 * h /\ c1 <= reserve1 * Q
      BY <2>4, <2>5
    <3> HIDE DEF s0, s1, c0, c1
    <3> QED BY <2>2, <2>3, <2>10, <2>11, <3>1, <3>2
  <2> HIDE DEF s0, s1, payment
  <2> QED BY <2>7, <2>8, <2>12 DEF EveryoneCanWithdraw, s0, s1, S, payment
<1> QED BY <1>1, LedgerSound, PTL

(***************************************************************************)
(* Every swap of a pool kept this way is the trade along the curve that    *)
(* CurveSwap promises, on whatever book the deposits and withdrawals       *)
(* before it have made.                                                    *)
(***************************************************************************)
THEOREM LedgerTradesOnCurve ==
  ASSUME CheckedLimits, OverflowChecks
  PROVE  LedgerSpec => ImplementsCurveSwap
<1>1. LedgerInit => Curve!Init
  BY PhaseOf DEF LedgerInit, Init, Curve!Init, Phase
<1>2. PoolInv /\ [LedgerNext]_ledger => [Curve!Next]_(Curve!promise)
  <2> SUFFICES ASSUME PoolInv, [LedgerNext]_ledger PROVE [Curve!Next]_(Curve!promise)
    OBVIOUS
  <2>1. IInv /\ PoolSound
    BY DEF PoolInv
  <2>2. ASSUME UNCHANGED swap PROVE [Curve!Next]_(Curve!promise)
    <3>1. UNCHANGED vars
      BY <2>2 DEF swap, vars
    <3> QED BY <2>1, <3>1, IterateKeepsPromise
  <2>3. ASSUME NEW owner \in Owners, NEW sizing \in Sizings, NEW range \in Ranges,
               NEW offer \in Offers, OpenPosition(owner, sizing, range, offer)
        PROVE  UNCHANGED swap
    BY <2>3 DEF OpenPosition
  <2>4. ASSUME NEW p \in positions, NEW part \in {p.liquidity, p.liquidity \div 2} \ {0},
               RemoveLiquidity(p, part)
        PROVE  UNCHANGED swap
    BY <2>4 DEF RemoveLiquidity
  <2>5. ASSUME NEW feeRate \in FeeRates, NEW amount \in Amounts, NEW limit \in Limits,
               NEW isBaseInput \in BOOLEAN, NEW zeroForOne \in BOOLEAN,
               StartSwap(feeRate, amount, limit, isBaseInput, zeroForOne)
        PROVE  Curve!Request
    <3>1. /\ pc = "idle" /\ WellFormedBook(BookOf(positions))
          /\ Start(BookOf(positions), sqrt_price, tick, feeRate, amount, limit,
                   isBaseInput, zeroForOne)
      BY <2>1, <2>5, SoundCall DEF StartSwap, BetweenSwaps
    <3> QED BY <3>1, StartRequests
  <2>6. ASSUME Walk PROVE [Curve!Next]_(Curve!promise)
    BY <2>1, <2>6, IterateKeepsPromise DEF Walk
  <2>7. ASSUME SettleSwap \/ DropSwap PROVE Curve!Acknowledge
    <3>1. pc = "done" /\ pc' = "idle"
      BY <2>7 DEF SettleSwap, DropSwap, NoSwap
    <3>2. (pc = "idle" => Phase = "idle")'
      BY PhaseOf, PTL
    <3>3. Phase = "answered" /\ Phase' = "idle"
      BY <3>1, <3>2, PhaseOf
    <3> QED BY <3>3 DEF Curve!Acknowledge, Phase
  <2>8. ASSUME UNCHANGED ledger PROVE UNCHANGED swap
    BY <2>8 DEF ledger
  <2>9. Curve!Request \/ Curve!Acknowledge => Curve!Next
    BY DEF Curve!Next
  <2> QED BY <2>2, <2>3, <2>4, <2>5, <2>6, <2>7, <2>8, <2>9 DEF LedgerNext
<1> QED BY <1>1, <1>2, LedgerSound, PTL
        DEF LedgerSpec, ImplementsCurveSwap, Curve!Spec
================================================================================
