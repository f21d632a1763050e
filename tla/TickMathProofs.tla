---------------------------- MODULE TickMathProofs ----------------------------
(***************************************************************************)
(* What get_tick_at_sqrt_price does at every width, precision, factor      *)
(* table and margin: the logarithm stays in its types, and two margins     *)
(* that enclose the tick are enough for the answer to be the greatest.     *)
(***************************************************************************)
EXTENDS TickMath, ArithmeticProofs

(* The least value of a normalised r: 2^63 in the code. *)
Half == Pow2[FRACTION_BITS - 1]

(* The powers the logarithm shifts by. *)
LEMMA HalfFacts ==
  /\ Half \in Nat \ {0} /\ Q = 2 * Half /\ Q \div 2 = Half
  /\ Pow2[2 * FRACTION_BITS - 1] = 2 * (Half * Half)
  /\ Pow2[FRACTION_BITS - 1 + 0] = Half
  /\ Pow2[FRACTION_BITS - 1 + 1] = 2 * Half
<1> DEFINE n == FRACTION_BITS - 1
<1>1. /\ n \in Nat /\ n + 1 = FRACTION_BITS /\ (n + n) + 1 = 2 * FRACTION_BITS - 1
      /\ n + n \in Nat /\ n + 0 = n
  BY TickMathAssumption, SMT
<1>2. Half = Pow2[n] /\ Half \in Nat \ {0} /\ Q = Pow2[n + 1]
  BY <1>1, TickMathAssumption, Pow2Nat DEF Half
<1> HIDE DEF n
<1>3. Pow2[n + 1] = 2 * Pow2[n] /\ Pow2[(n + n) + 1] = 2 * Pow2[n + n]
      /\ Pow2[n + n] = Pow2[n] * Pow2[n]
  BY <1>1, Pow2Def, Pow2Sum
<1>4. Q \div 2 = Half
  BY <1>2, <1>3, SMT
<1> QED BY <1>1, <1>2, <1>3, <1>4 DEF n

(* Moving the leading bit of a price to the top normalises it. *)
LEMMA NormalizedRange ==
  ASSUME NEW price \in Nat, NEW m \in 0 .. 2 * FRACTION_BITS - 1,
         Pow2[m] <= price, price \div Pow2[m] < 2
  PROVE  Normalized(price, m) \in Half .. 2 * Half - 1
<1>1. m \in Nat /\ FRACTION_BITS \in Nat \ {0}
  BY TickMathAssumption, SMT
<1>2. Pow2[m] \in Nat \ {0} /\ Half \in Nat \ {0}
  BY <1>1, Pow2Nat, HalfFacts
<1>3. price < 2 * Pow2[m]
  <2> DEFINE p == Pow2[m]
             q == price \div p
  <2>1. q \in Nat /\ price < p * q + p /\ q < 2 /\ p \in Nat
    BY <1>2, DivBracket
  <2>2. p * q <= p * 1
    <3> HIDE DEF p, q
    <3>1. q <= 1
      BY <2>1, SMT
    <3> QED BY <2>1, <3>1, ProductMonotone, SMT
  <2> HIDE DEF p, q
  <2>3. p * q \in Nat
    BY <2>1, ProductNat
  <2>4. price < 2 * p
    BY <2>1, <2>2, <2>3, SMT
  <2> QED BY <2>4 DEF p
<1>4. CASE m >= FRACTION_BITS
  <2> DEFINE k == m - (FRACTION_BITS - 1)
             b == Pow2[k]
             n == FRACTION_BITS - 1
  <2>1. k \in Nat /\ n \in Nat /\ n + k = m
    BY <1>1, <1>4, SMT
  <2>2. b \in Nat \ {0} /\ Pow2[m] = Half * b
    BY <2>1, Pow2Nat, Pow2Sum DEF Half
  <2> HIDE DEF b
  <2>3. Half * b <= price /\ price < (2 * Half) * b
    BY <1>2, <1>3, <2>2, SMT
  <2>4. 2 * Half \in Nat
    BY <1>2, SMT
  <2>5. price \div b \in Nat /\ Half <= price \div b /\ price \div b < 2 * Half
    BY <1>2, <2>2, <2>3, <2>4, QuotientWithin
  <2>6. Normalized(price, m) = price \div b
    BY <1>4 DEF Normalized, b
  <2> QED BY <1>2, <2>5, <2>6, SMT
<1>5. CASE ~(m >= FRACTION_BITS)
  <2> DEFINE k == FRACTION_BITS - 1 - m
             b == Pow2[k]
             p == Pow2[m]
  <2>1. k \in Nat /\ m + k = FRACTION_BITS - 1
    BY <1>1, <1>5, SMT
  <2>2. b \in Nat \ {0} /\ Half = p * b
    BY <1>1, <2>1, Pow2Nat, Pow2Sum DEF Half
  <2>3. Normalized(price, m) = price * b
    BY <1>5 DEF Normalized
  <2>4. p <= price /\ price <= 2 * p - 1 /\ p \in Nat \ {0}
    <3> HIDE DEF b
    <3> QED BY <1>2, <1>3, SMT
  <2> HIDE DEF b, p, k
  <2>5. p * b <= price * b /\ price * b <= (2 * p - 1) * b
    BY <2>2, <2>4, ProductMonotone, SMT
  <2>6. (2 * p - 1) * b = 2 * (p * b) - b /\ price * b \in Nat
    BY <2>2, <2>4, SMT
  <2> QED BY <1>2, <2>2, <2>3, <2>5, <2>6, SMT
<1> QED BY <1>4, <1>5

(* Squared and renormalised, r is normalised. *)
LEMMA SquareRange ==
  ASSUME NEW n \in Half .. 2 * Half - 1
  PROVE  LET more == IsMoreThanTwo(n * n)
         IN  /\ more \in {0, 1}
             /\ (n * n) \div Pow2[FRACTION_BITS - 1 + more] \in Half .. 2 * Half - 1
<1> DEFINE H == Half
           s == n * n
           b == 2 * (H * H)
<1>1. H \in Nat \ {0} /\ n \in Nat /\ H <= n /\ n <= 2 * H - 1
  BY HalfFacts, SMT
<1> HIDE DEF H
<1>2. s \in Nat /\ H * H <= s /\ s < 4 * (H * H) /\ H * H \in Nat \ {0}
  <2>1. H * H <= n * H /\ n * H <= n * n
    BY <1>1, ProductMonotone, SMT
  <2>2. n * n <= n * (2 * H - 1) /\ n * (2 * H - 1) <= (2 * H - 1) * (2 * H - 1)
    BY <1>1, ProductMonotone, SMT
  <2>3. (2 * H - 1) * (2 * H - 1) < 4 * (H * H)
    BY <1>1, SMT
  <2>4. n * n \in Nat /\ H * H \in Nat /\ H * H > 0 /\ n * H \in Nat
        /\ n * (2 * H - 1) \in Int /\ (2 * H - 1) * (2 * H - 1) \in Int
    BY <1>1, SMT
  <2> DEFINE u == n * n
             v == n * (2 * H - 1)
             w == (2 * H - 1) * (2 * H - 1)
             h == H * H
             k == n * H
  <2> HIDE DEF u, v, w, h, k
  <2>5. u \in Nat /\ h \in Nat /\ h > 0 /\ k \in Nat /\ v \in Int /\ w \in Int
        /\ h <= k /\ k <= u /\ u <= v /\ v <= w /\ w < 4 * h
    BY <2>1, <2>2, <2>3, <2>4 DEF u, v, w, h, k
  <2>6. h <= u /\ u < 4 * h /\ h \in Nat \ {0}
    BY <2>5, SMT
  <2> QED BY <2>5, <2>6 DEF u, h
<1> HIDE DEF s
<1>3. b \in Nat \ {0} /\ IsMoreThanTwo(s) = s \div b
  <2>1. b \in Nat \ {0}
    BY <1>2, SMT
  <2> QED BY <2>1, HalfFacts DEF IsMoreThanTwo, H
<1>4. CASE s < b
  <2>1. 0 * b <= s /\ s < 1 * b
    BY <1>2, <1>3, <1>4, SMT
  <2>2. s \div b = 0
    <3>1. s \div b \in Nat /\ s \div b < 1
      BY <1>2, <1>3, <2>1, QuotientWithin, SMT
    <3> QED BY <3>1, SMT
  <2>3. H * H <= s /\ s < (2 * H) * H /\ 2 * H \in Nat
    BY <1>1, <1>2, <1>4, SMT
  <2>4. s \div H \in Nat /\ H <= s \div H /\ s \div H < 2 * H
    BY <1>1, <1>2, <2>3, QuotientWithin
  <2>5. Pow2[FRACTION_BITS - 1 + 0] = H
    BY HalfFacts DEF H
  <2>6. s \div H \in H .. 2 * H - 1
    BY <1>1, <2>4, SMT
  <2> QED BY <1>3, <2>2, <2>5, <2>6 DEF s, H
<1>5. CASE ~(s < b)
  <2>1. 1 * b <= s /\ s < 2 * b
    BY <1>2, <1>3, <1>5, SMT
  <2>2. s \div b = 1
    <3>1. s \div b \in Nat /\ 1 <= s \div b /\ s \div b < 2
      BY <1>2, <1>3, <2>1, QuotientWithin, SMT
    <3> QED BY <3>1, SMT
  <2>3. /\ 2 * H \in Nat \ {0}
        /\ H * (2 * H) <= s /\ s < (2 * H) * (2 * H)
    BY <1>1, <1>2, <1>5, SMT
  <2>4. s \div (2 * H) \in Nat /\ H <= s \div (2 * H) /\ s \div (2 * H) < 2 * H
    BY <1>1, <1>2, <2>3, QuotientWithin
  <2>5. Pow2[FRACTION_BITS - 1 + 1] = 2 * H
    BY HalfFacts DEF H
  <2>6. s \div (2 * H) \in H .. 2 * H - 1
    BY <1>1, <2>4, SMT
  <2> QED BY <1>3, <2>2, <2>5, <2>6 DEF s, H
<1> QED BY <1>4, <1>5

-----------------------------------------------------------------------------
(* The inductive invariant *)

(***************************************************************************)
(* The bits found so far and those to come sum to less than a whole, so    *)
(* that the fraction never reaches its width; `bit' is what the next       *)
(* iteration may add.                                                      *)
(***************************************************************************)
IInv ==
  /\ TypeOK
  /\ pc = "log" => log2p_fraction + 2 * bit <= Q

(* Before the call every local is 0. *)
LEMMA StartsTyped == Init => IInv
<1> SUFFICES ASSUME Init PROVE IInv
  OBVIOUS
<1>1. 0 \in U128 /\ 0 \in 0 .. Q - 1 /\ 0 \in 0 .. Q \div 2
      /\ 0 \in 0 .. 2 * FRACTION_BITS - 1 /\ 0 \in 0 .. BIT_PRECISION
  BY HalfFacts, TickMathAssumption, SMT DEF U128, U128Max
<1> QED BY <1>1 DEF Init, IInv, TypeOK

(* A price that is accepted is normalised. *)
LEMMA AcceptTyped ==
  ASSUME IInv, NEW price \in SqrtPrices, Accept(price)
  PROVE  IInv'
<1>1. price \in U128 /\ price \in Nat
  BY TickMathAssumption, QAssumption, SMT DEF U128, U128Max
<1>2. PICK m \in 0 .. 2 * FRACTION_BITS - 1 :
        Pow2[m] <= price /\ price \div Pow2[m] < 2 /\ msb' = m /\ r' = Normalized(price, m)
  BY DEF Accept
<1>3. r' \in Half .. 2 * Half - 1
  BY <1>1, <1>2, NormalizedRange
<1>4. /\ pc' = "log" /\ sqrt_price_x64' = price /\ bit' = Half
      /\ precision' = 0 /\ log2p_fraction' = 0 /\ result' = result
  BY DEF Accept, Half
<1>5. /\ r' \in Q \div 2 .. Q - 1 /\ Half \in 0 .. Q \div 2
      /\ 0 \in 0 .. Q - 1 /\ 0 \in 0 .. BIT_PRECISION /\ 0 + 2 * Half <= Q
  BY <1>3, HalfFacts, TickMathAssumption, SMT
<1> QED BY <1>1, <1>2, <1>4, <1>5 DEF IInv, TypeOK

(* An iteration adds at most the bit it stands at. *)
LEMMA SquareTyped ==
  ASSUME IInv, Square
  PROVE  IInv'
<1> DEFINE more == IsMoreThanTwo(r * r)
<1>1. /\ TypeOK /\ pc = "log" /\ bit > 0 /\ precision < BIT_PRECISION
      /\ log2p_fraction + 2 * bit <= Q
      /\ r' = (r * r) \div Pow2[FRACTION_BITS - 1 + more]
      /\ log2p_fraction' = log2p_fraction + bit * more
      /\ bit' = bit \div 2 /\ precision' = precision + 1
      /\ pc' = pc /\ sqrt_price_x64' = sqrt_price_x64 /\ msb' = msb /\ result' = result
  BY DEF IInv, Square, Refining
<1>2. r \in Half .. 2 * Half - 1
  BY <1>1, HalfFacts DEF TypeOK
<1>3. more \in {0, 1} /\ r' \in Half .. 2 * Half - 1
  BY <1>1, <1>2, SquareRange
<1> HIDE DEF more
<1>4. r' \in Q \div 2 .. Q - 1
  BY <1>3, HalfFacts, SMT
<1>5. /\ bit \in Nat /\ bit <= Half /\ log2p_fraction \in Nat
      /\ precision \in Nat
  BY <1>1, HalfFacts, SMT DEF TypeOK
<1>6. bit' \in Nat /\ 2 * bit' <= bit
  BY <1>1, <1>5, SMT
<1>7. log2p_fraction' \in Nat /\ log2p_fraction' <= log2p_fraction + bit
  <2>1. CASE more = 0
    BY <1>1, <1>5, <2>1, SMT
  <2>2. CASE more = 1
    BY <1>1, <1>5, <2>2, SMT
  <2> QED BY <1>3, <2>1, <2>2
<1>8. /\ bit' \in 0 .. Q \div 2
      /\ log2p_fraction' \in 0 .. Q - 1
      /\ log2p_fraction' + 2 * bit' <= Q
  BY <1>1, <1>5, <1>6, <1>7, HalfFacts, SMT
<1>9. precision' \in 0 .. BIT_PRECISION
  BY <1>1, <1>5, TickMathAssumption, SMT
<1> QED BY <1>1, <1>4, <1>8, <1>9 DEF IInv, TypeOK

(* Refusing and answering leave the locals alone. *)
LEMMA EndTyped ==
  ASSUME IInv, Decide \/ \E price \in SqrtPrices : Refuse(price)
  PROVE  IInv'
<1>1. TypeOK
  BY DEF IInv
<1>2. /\ pc' = "done" /\ UNCHANGED locals
      /\ result'.tag \in {"none", "ok", "err", "panic"}
  <2>1. CASE Decide
    BY <2>1 DEF Decide, TickOk
  <2>2. CASE \E price \in SqrtPrices : Refuse(price)
    BY <2>2 DEF Refuse
  <2> QED BY <2>1, <2>2
<1> QED BY <1>1, <1>2 DEF IInv, TypeOK, locals

(* Every step keeps the invariant. *)
LEMMA StepTyped == IInv /\ [Next]_vars => IInv'
<1> SUFFICES ASSUME IInv, [Next]_vars PROVE IInv'
  OBVIOUS
<1>1. ASSUME NEW price \in SqrtPrices, Refuse(price) PROVE IInv'
  BY <1>1, EndTyped
<1>2. ASSUME NEW price \in SqrtPrices, Accept(price) PROVE IInv'
  BY <1>2, AcceptTyped
<1>3. ASSUME Square PROVE IInv'
  BY <1>3, SquareTyped
<1>4. ASSUME Decide PROVE IInv'
  BY <1>4, EndTyped
<1>5. ASSUME UNCHANGED vars PROVE IInv'
  BY <1>5 DEF vars, locals, IInv, TypeOK
<1> QED BY <1>1, <1>2, <1>3, <1>4, <1>5 DEF Next

-----------------------------------------------------------------------------
(* The answer *)

(* Both margins are rounded towards minus infinity from one logarithm. *)
LEMMA LowIsBelowHigh ==
  ASSUME IInv
  PROVE  TickLow \in Int /\ TickHigh \in Int /\ TickLow <= TickHigh
<1> DEFINE d == Pow2[2 * LOG_BITS]
           a == LogSqrtBase
<1>1. /\ LOG_BITS \in Nat /\ 2 * LOG_BITS \in Nat /\ FRACTION_BITS - LOG_BITS \in Nat
      /\ INVERSE_LOG \in Nat /\ LOW_MARGIN \in Nat /\ HIGH_MARGIN \in Nat
  BY TickMathAssumption, SMT
<1>2. d \in Nat \ {0} /\ Pow2[LOG_BITS] \in Nat /\ Pow2[FRACTION_BITS - LOG_BITS] \in Nat \ {0}
  BY <1>1, Pow2Nat
<1>3. a \in Int
  <2>1. log2p_fraction \in Nat /\ msb \in Nat /\ FRACTION_BITS \in Nat
    BY TickMathAssumption, QAssumption, SMT DEF IInv, TypeOK
  <2>2. log2p_fraction \div Pow2[FRACTION_BITS - LOG_BITS] \in Nat
    BY <1>2, <2>1, DivBracket
  <2>3. Log2P \in Int
    BY <1>2, <2>1, <2>2, SMT DEF Log2P
  <2> QED BY <1>1, <2>3, SMT DEF LogSqrtBase
<1> HIDE DEF d, a
<1>4. /\ a - LOW_MARGIN \in Int /\ a + HIGH_MARGIN \in Int
      /\ a - LOW_MARGIN <= a + HIGH_MARGIN
  BY <1>1, <1>3, SMT
<1>5. \A x, y \in Int : x <= y => x \div d \in Int /\ y \div d \in Int /\ x \div d <= y \div d
  <2> SUFFICES ASSUME NEW x \in Int, NEW y \in Int, x <= y
               PROVE  x \div d \in Int /\ y \div d \in Int /\ x \div d <= y \div d
    OBVIOUS
  <2> DEFINE p == x \div d
             q == y \div d
  <2>1. /\ p \in Int /\ q \in Int /\ x = d * p + (x % d) /\ y = d * q + (y % d)
        /\ x % d \in 0 .. d - 1 /\ y % d \in 0 .. d - 1
    BY <1>2, SMT
  <2> DEFINE u == d * p
             v == d * q
  <2>2. u \in Int /\ v \in Int /\ u <= x /\ y < v + d
    <3> HIDE DEF p, q
    <3>1. u \in Int /\ v \in Int
      BY <1>2, <2>1, SMT
    <3> HIDE DEF u, v
    <3>2. x = u + (x % d) /\ y = v + (y % d)
      BY <2>1 DEF u, v
    <3> QED BY <1>2, <2>1, <3>1, <3>2, SMT
  <2>3. p < q + 1
    <3>1. d * p < d * (q + 1)
      <4> HIDE DEF p, q
      <4>1. d * (q + 1) = v + d
        BY <1>2, <2>1, SMT
      <4> HIDE DEF u, v
      <4>2. u < v + d
        BY <1>2, <2>2, SMT
      <4> QED BY <4>1, <4>2 DEF u
    <3>2. q + 1 \in Int
      BY <2>1, SMT
    <3> HIDE DEF p, q
    <3> QED BY <1>2, <2>1, <3>1, <3>2, ProductCancelStrict
  <2> QED BY <2>1, <2>3, SMT
<1>6. TickLow = (a - LOW_MARGIN) \div d /\ TickHigh = (a + HIGH_MARGIN) \div d
  BY DEF TickLow, TickHigh, a, d
<1> QED BY <1>4, <1>5, <1>6

(* If one of the two is the tick, the comparison with the price of the       *)
(* greater picks it.                                                         *)
LEMMA ChoiceIsGreatest ==
  ASSUME SqrtPriceAt \in [Ticks -> U128], IInv, Decide, MarginsEncloseTick
  PROVE  result'.tag = "ok" /\ Table!IsTickAtSqrtPrice(sqrt_price_x64, result'.tick)
<1> DEFINE isTick(t) == Table!IsTickAtSqrtPrice(sqrt_price_x64, t)
<1>1. /\ pc = "log" /\ ~Refining
      /\ TickHigh <= TickLow + 1
      /\ TickLow = TickHigh \/ TickHigh \in Ticks
      /\ isTick(TickLow) \/ isTick(TickHigh)
  BY DEF Decide, MarginsEncloseTick
<1>2. TickLow \in Int /\ TickHigh \in Int /\ TickLow <= TickHigh
  BY LowIsBelowHigh
<1>3. CASE TickLow = TickHigh
  <2>1. result' = TickOk(TickLow)
    BY <1>3 DEF Decide
  <2> QED BY <1>1, <1>3, <2>1 DEF TickOk
<1>4. CASE TickLow # TickHigh
  <2>1. TickHigh \in Ticks /\ TickHigh = TickLow + 1
    BY <1>1, <1>2, <1>4, SMT
  <2>2. CASE HighIsReached
    <3>1. result' = TickOk(TickHigh)
      BY <1>4, <2>1, <2>2 DEF Decide
    <3>2. ~isTick(TickLow)
      <4>1. SUFFICES ASSUME isTick(TickLow) PROVE FALSE
        OBVIOUS
      <4>2. sqrt_price_x64 < SqrtPriceAt[TickHigh] /\ SqrtPriceAt[TickLow] <= sqrt_price_x64
        BY <2>1, <4>1 DEF Table!IsTickAtSqrtPrice
      <4>3. SqrtPriceAt[TickHigh] <= sqrt_price_x64
        BY <2>2 DEF HighIsReached
      <4>4. SqrtPriceAt[TickHigh] \in Nat /\ sqrt_price_x64 \in Nat
        <5> HIDE DEF SqrtPriceAt
        <5>1. SqrtPriceAt[TickHigh] \in U128 /\ sqrt_price_x64 \in U128
          BY <2>1 DEF IInv, TypeOK
        <5> QED BY <5>1, QAssumption, SMT DEF U128, U128Max
      <4> HIDE DEF SqrtPriceAt
      <4> QED BY <4>2, <4>3, <4>4, SMT
    <3> QED BY <1>1, <3>1, <3>2 DEF TickOk
  <2>3. CASE ~HighIsReached
    <3>1. result' = TickOk(TickLow)
      BY <1>4, <2>1, <2>3 DEF Decide
    <3>2. ~isTick(TickHigh)
      BY <2>3 DEF HighIsReached, Table!IsTickAtSqrtPrice
    <3> QED BY <1>1, <3>1, <3>2 DEF TickOk
  <2> QED BY <2>2, <2>3
<1> QED BY <1>3, <1>4

-----------------------------------------------------------------------------
(* Theorems *)

(***************************************************************************)
(* At every width and precision r stays normalised, so that its square     *)
(* fits the type of a price, and the fraction of the logarithm stays a     *)
(* fraction.                                                               *)
(***************************************************************************)
THEOREM TypeCorrectness == Spec => []TypeOK
<1>1. IInv => TypeOK
  BY DEF IInv
<1> QED BY <1>1, StartsTyped, StepTyped, PTL DEF Spec

(***************************************************************************)
(* For every table whose prices fit their type, precision, change of base: *)
(* margins that enclose the tick whenever the logarithm ends are enough    *)
(* for the answer of get_tick_at_sqrt_price to be the greatest tick at or  *)
(* below the price, and for the unwrap of tick_high's price not to panic.  *)
(***************************************************************************)
THEOREM MarginsDecide ==
  ASSUME SqrtPriceAt \in [Ticks -> U128]
  PROVE  Spec /\ []MarginsEncloseTick => []TickIsGreatest
<1>1. Init => TickIsGreatest
  BY DEF Init, TickIsGreatest
<1>2. IInv /\ MarginsEncloseTick /\ TickIsGreatest /\ [Next]_vars => TickIsGreatest'
  <2> SUFFICES ASSUME IInv, MarginsEncloseTick, TickIsGreatest, [Next]_vars
               PROVE  TickIsGreatest'
    OBVIOUS
  <2>1. ASSUME NEW price \in SqrtPrices, Refuse(price) PROVE TickIsGreatest'
    BY <2>1 DEF Refuse, TickIsGreatest
  <2>2. ASSUME NEW price \in SqrtPrices, Accept(price) PROVE TickIsGreatest'
    BY <2>2 DEF Accept, TickIsGreatest
  <2>3. ASSUME Square PROVE TickIsGreatest'
    BY <2>3 DEF Square, TickIsGreatest
  <2>4. ASSUME Decide PROVE TickIsGreatest'
    <3>1. sqrt_price_x64' = sqrt_price_x64
      BY <2>4 DEF Decide, locals
    <3>2. result'.tag = "ok" /\ Table!IsTickAtSqrtPrice(sqrt_price_x64, result'.tick)
      BY <2>4, ChoiceIsGreatest
    <3> QED BY <3>1, <3>2 DEF TickIsGreatest
  <2>5. ASSUME UNCHANGED vars PROVE TickIsGreatest'
    BY <2>5 DEF vars, locals, TickIsGreatest
  <2> QED BY <2>1, <2>2, <2>3, <2>4, <2>5 DEF Next
<1> QED BY <1>1, <1>2, StartsTyped, StepTyped, PTL DEF Spec
=============================================================================
