--------------------------- MODULE RangePoolProofs ---------------------------
(***************************************************************************)
(* The safety properties of RangePool, proved for every width, liquidity,  *)
(* price, fee rate and sequence of steps.                                  *)
(***************************************************************************)
EXTENDS RangePool, SwapMathProofs

-----------------------------------------------------------------------------
(* The curve *)

(* The amounts of a settled step move the reserves at least as far as the  *)
(* curve: the payment is rounded up and the proceeds down.                 *)
LEMMA StepCoversMove ==
  ASSUME NEW p \in Prices128, NEW q \in Prices128, NEW L \in U128, NEW z \in BOOLEAN,
         NEW in \in Nat, NEW out \in Nat, AheadOf(p, q, z),
         in = AmountIn(p, q, L, z), out <= AmountOut(p, q, L, z)
  PROVE  LET d0 == IF z THEN in ELSE -out
             d1 == IF z THEN -out ELSE in
         IN  /\ d1 * Q >= L * (q - p)
             /\ d0 * (q * p) >= (L * Q) * (p - q)
<1>1. p \in Nat \ {0} /\ q \in Nat \ {0} /\ L \in Nat /\ Q \in Nat \ {0}
  <2>1. 0 \in U64
    BY QAssumption, SMT DEF U64, U64Max
  <2> QED BY <2>1, Operands
<1>2. q * p \in Nat /\ q * p = p * q
  BY <1>1, ProductNat, SMT
<1>3. CASE z
  <2> DEFINE m == DeltaAmount1(q, p, L, FALSE)
  <2>1. q <= p /\ in = DeltaAmount0(q, p, L, TRUE) /\ out <= m
    BY <1>3 DEF AheadOf, AmountIn, AmountOut
  <2>2. (L * Q) * (p - q) <= in * (q * p)
    BY <1>1, <2>1, Range0
  <2>3. m \in Nat /\ m * Q <= L * (p - q)
    BY <1>1, <2>1, Range1
  <2> HIDE DEF m
  <2>4. out * Q <= L * (p - q)
    <3>1. out * Q <= m * Q
      BY <1>1, <2>1, <2>3, ProductMonotone
    <3>2. out * Q \in Int /\ m * Q \in Int /\ L * (p - q) \in Int
      BY <1>1, <2>3, SMT
    <3> QED BY <2>3, <3>1, <3>2, SMT
  <2>5. (-out) * Q >= L * (q - p)
    <3>1. (-out) * Q = -(out * Q) /\ L * (q - p) = -(L * (p - q))
      BY <1>1, SMT
    <3>2. out * Q \in Int /\ L * (p - q) \in Int
      BY <1>1, SMT
    <3> QED BY <2>4, <3>1, <3>2, SMT
  <2>6. in * (q * p) >= (L * Q) * (p - q)
    <3>1. in * (q * p) \in Int /\ (L * Q) * (p - q) \in Int
      BY <1>1, SMT
    <3> QED BY <2>2, <3>1, SMT
  <2> QED BY <1>3, <2>5, <2>6
<1>4. CASE ~z
  <2> DEFINE m == DeltaAmount0(p, q, L, FALSE)
  <2>1. p <= q /\ in = DeltaAmount1(p, q, L, TRUE) /\ out <= m
    BY <1>4 DEF AheadOf, AmountIn, AmountOut
  <2>2. L * (q - p) <= in * Q
    BY <1>1, <2>1, Range1
  <2>3. m \in Nat /\ m * (p * q) <= (L * Q) * (q - p)
    BY <1>1, <2>1, Range0
  <2> HIDE DEF m
  <2>4. out * (p * q) <= (L * Q) * (q - p)
    <3>1. p * q \in Nat
      BY <1>2
    <3>2. out * (p * q) <= m * (p * q)
      BY <2>1, <2>3, <3>1, ProductMonotone
    <3>3. out * (p * q) \in Int /\ m * (p * q) \in Int /\ (L * Q) * (q - p) \in Int
      BY <1>1, <2>3, SMT
    <3> QED BY <2>3, <3>2, <3>3, SMT
  <2>5. (-out) * (q * p) >= (L * Q) * (p - q)
    <3>1. (-out) * (q * p) = -(out * (p * q)) /\ (L * Q) * (p - q) = -((L * Q) * (q - p))
      BY <1>1, SMT
    <3>2. out * (p * q) \in Int /\ (L * Q) * (q - p) \in Int
      BY <1>1, SMT
    <3> QED BY <2>4, <3>1, <3>2, SMT
  <2>6. in * Q >= L * (q - p)
    <3>1. in * Q \in Int /\ L * (q - p) \in Int
      BY <1>1, SMT
    <3> QED BY <2>2, <3>1, SMT
  <2> QED BY <1>4, <2>5, <2>6
<1> QED BY <1>3, <1>4
-----------------------------------------------------------------------------
(* An exact input given in two parts *)

(* Rounding two parts down never gives more than rounding the whole down. *)
LEMMA FloorOfParts ==
  ASSUME NEW a \in Nat, NEW b \in Nat, NEW c \in Nat, NEW D \in Nat \ {0}
  PROVE  MulDivFloor(a, c, D) + MulDivFloor(b, c, D) <= MulDivFloor(a + b, c, D)
<1> DEFINE x == MulDivFloor(a, c, D)
           y == MulDivFloor(b, c, D)
           r == MulDivFloor(a + b, c, D)
<1>1. /\ x \in Nat /\ x * D <= a * c
      /\ y \in Nat /\ y * D <= b * c
  BY MulDivFloorBracket
<1>2. r \in Nat /\ (a + b) * c < r * D + D
  <2>1. a + b \in Nat
    BY SMT
  <2> QED BY <2>1, MulDivFloorBracket
<1> HIDE DEF x, y, r
<1>3. D * (x + y) < D * (r + 1)
  <2>1. (a + b) * c = a * c + b * c /\ D * (x + y) = x * D + y * D /\ D * (r + 1) = r * D + D
    BY <1>1, <1>2, SMT
  <2>2. a * c \in Int /\ b * c \in Int /\ x * D \in Int /\ y * D \in Int /\ r * D \in Int
    BY <1>1, <1>2, SMT
  <2> QED BY <1>1, <1>2, <2>1, <2>2, SMT
<1>4. x + y < r + 1
  <2>1. x + y \in Int /\ r + 1 \in Int
    BY <1>1, <1>2, SMT
  <2> QED BY <1>3, <2>1, ProductCancelStrict
<1>5. x + y <= r
  BY <1>1, <1>2, <1>4, SMT
<1> QED BY <1>5 DEF x, y, r

(* An exact input takes the price at least as far as any price it pays for. *)
LEMMA InputGoesFurthest ==
  ASSUME NEW p \in Prices128, NEW y \in Prices128, NEW L \in U128, L # 0,
         NEW amount \in U64, NEW z \in BOOLEAN,
         AheadOf(p, y, z), PaysFor(amount, p, y, L, z)
  PROVE  AheadOf(y, NextSqrtPriceFromInput(p, L, amount, z), z)
<1>1. /\ p \in Nat \ {0} /\ p \in U128 /\ y \in Nat \ {0}
      /\ L \in Nat \ {0} /\ amount \in Nat /\ Q \in Nat \ {0}
  BY Operands, SMT DEF Prices128, U128
<1>2. CASE z
  <2> DEFINE q == NextSqrtPriceFromAmount0RoundingUp(p, L, amount, TRUE)
             n == L * Q
  <2>1. NextSqrtPriceFromInput(p, L, amount, z) = q
    BY <1>2 DEF NextSqrtPriceFromInput
  <2>2. amount * (y * p) >= n * (p - y) /\ y <= p /\ n \in Nat \ {0}
    BY <1>1, <1>2, SMT DEF PaysFor, AheadOf
  <2>3. CASE amount = 0
    <3>1. q = p
      BY <2>3 DEF NextSqrtPriceFromAmount0RoundingUp
    <3> HIDE DEF n
    <3>2. 0 >= n * (p - y)
      <4>1. amount * (y * p) = 0
        BY <1>1, <2>3, SMT
      <4> QED BY <2>2, <4>1
    <3>3. p <= y
      <4>1. CASE y < p
        <5>1. n * (p - y) > 0
          BY <1>1, <2>2, <4>1, SMT
        <5>2. n * (p - y) \in Int
          BY <1>1, <2>2, SMT
        <5> QED BY <3>2, <5>1, <5>2, SMT
      <4> QED BY <1>1, <4>1, SMT
    <3> QED BY <1>2, <2>1, <3>1, <3>3 DEF AheadOf
  <2>4. CASE amount # 0
    <3> DEFINE x == amount * p
    <3>1. x <= U256Max
      BY <1>1, ProductFitsU256
    <3>2. q = MulDivCeil(n, p, n + x)
      BY <2>4, <3>1 DEF NextSqrtPriceFromAmount0RoundingUp
    <3> HIDE DEF q, n
    <3>3. x \in Nat /\ n + x \in Nat \ {0} /\ y * x = amount * (y * p)
      BY <1>1, <2>2, SMT
    <3> HIDE DEF x
    <3>4. n * p <= y * (n + x)
      <4>1. y * (n + x) = n * y + y * x /\ n * (p - y) = n * p - n * y
        BY <1>1, <2>2, <3>3, SMT
      <4>2. n * p \in Int /\ n * y \in Int /\ y * x \in Int
        BY <1>1, <2>2, <3>3, SMT
      <4> QED BY <2>2, <3>3, <4>1, <4>2, SMT
    <3>5. q <= y
      BY <1>1, <2>2, <3>2, <3>3, <3>4, MulDivCeilLeast
    <3> QED BY <1>2, <2>1, <3>5 DEF AheadOf
  <2> QED BY <2>3, <2>4
<1>3. CASE ~z
  <2> DEFINE x == amount * Q
             d == x \div L
  <2>1. NextSqrtPriceFromInput(p, L, amount, z) = p + d
    BY <1>3 DEF NextSqrtPriceFromInput, NextSqrtPriceFromAmount1RoundingDown
  <2>2. x >= L * (y - p) /\ x \in Nat
    BY <1>1, <1>3, ProductNat DEF PaysFor
  <2> HIDE DEF x
  <2>3. d \in Nat /\ x < L * d + L
    BY <1>1, <2>2, DivBracket
  <2> HIDE DEF d
  <2>4. y <= p + d
    <3>1. L * (y - p) < L * (d + 1)
      <4>1. L * (d + 1) = L * d + L /\ L * d \in Int /\ L * (y - p) \in Int
        BY <1>1, <2>3, SMT
      <4> QED BY <1>1, <2>2, <2>3, <4>1, SMT
    <3>2. y - p \in Int /\ d + 1 \in Int
      BY <1>1, <2>3, SMT
    <3>3. y - p < d + 1
      BY <1>1, <3>1, <3>2, ProductCancelStrict
    <3> QED BY <1>1, <2>3, <3>3, SMT
  <2> QED BY <1>3, <2>1, <2>4 DEF AheadOf
<1> QED BY <1>2, <1>3

(* An exact input step goes as far as its budget pays for, and pays the     *)
(* whole output of the move.                                                *)
LEMMA InputStepMove ==
  ASSUME NEW p \in Prices128, NEW t \in Prices128, NEW L \in U128,
         NEW rem \in U64, NEW f \in FeeRatesBelowOne, NEW z \in BOOLEAN,
         NEW base \in BOOLEAN,
         AheadOf(p, t, z), ComputeSwapStep(p, t, L, rem, f, base, z).tag = "ok"
  PROVE  LET s      == ComputeSwapStep(p, t, L, rem, f, base, z)
             budget == AmountRemainingLessFee(rem, f)
         IN  /\ s.next \in Prices128
             /\ AheadOf(p, s.next, z) /\ AheadOf(s.next, t, z)
             /\ base =>
               /\ budget \in U64
               /\ PaysFor(budget, p, s.next, L, z)
               /\ s.amountOut = AmountOut(p, s.next, L, z)
               /\ s.next # t => L # 0 /\ s.next = NextSqrtPriceFromInput(p, L, budget, z)
<1> DEFINE s      == ComputeSwapStep(p, t, L, rem, f, base, z)
           budget == StepBudget(rem, f, base)
           next   == NextSqrtPrice(p, t, L, budget, base, z)
           reached == ReachesTarget(p, t, L, budget, base, z)
<1>1. budget \in U64
  BY BudgetU64
<1>2. s.tag = "ok"
  OBVIOUS
<1>3. s.next = next /\ (base => s.amountOut = AmountOut(p, next, L, z))
  BY <1>2, StepValues
<1>4. /\ next \in Prices128 /\ AheadOf(p, next, z) /\ AheadOf(next, t, z)
      /\ reached => next = t
      /\ ~reached => L # 0
      /\ reached /\ base => AmountIn(p, t, L, z) <= budget
      /\ ~reached /\ base => AmountIn(p, next, L, z) <= budget
  BY <1>1, NextPriceFacts
<1>5. base /\ ~reached => next = NextSqrtPriceFromInput(p, L, budget, z)
  BY DEF NextSqrtPrice
<1>6. base => budget = AmountRemainingLessFee(rem, f)
  BY DEF StepBudget
<1> HIDE DEF s, next, budget, reached
<1>7. base => PaysFor(budget, p, next, L, z)
  <2>1. SUFFICES ASSUME base PROVE PaysFor(budget, p, next, L, z)
    OBVIOUS
  <2>2. AmountIn(p, next, L, z) <= budget
    BY <1>4, <2>1
  <2>3. budget \in Nat
    BY <1>1, QAssumption, SMT DEF U64, U64Max
  <2> QED BY <1>4, <2>2, <2>3, AmountInPays
<1>8. base /\ next # t => L # 0 /\ next = NextSqrtPriceFromInput(p, L, budget, z)
  BY <1>4, <1>5
<1> QED BY <1>1, <1>3, <1>4, <1>6, <1>7, <1>8 DEF s

(* Splitting an exact input over two steps never buys more: the second step *)
(* ends no further than the undivided one, and the two outputs fit in its.  *)
LEMMA SplitInput ==
  ASSUME NEW p \in Prices128, NEW t \in Prices128, NEW L \in U128,
         NEW f \in FeeRatesBelowOne, NEW z \in BOOLEAN, AheadOf(p, t, z),
         NEW base \in BOOLEAN,
         NEW a \in U64, NEW b \in U64, NEW whole \in U64, a + b = whole,
         ComputeSwapStep(p, t, L, whole, f, base, z).tag = "ok",
         ComputeSwapStep(p, t, L, a, f, base, z).tag = "ok",
         ComputeSwapStep(ComputeSwapStep(p, t, L, a, f, base, z).next, t, L, b,
                         f, base, z).tag = "ok"
  PROVE  LET s      == ComputeSwapStep(p, t, L, whole, f, base, z)
             first  == ComputeSwapStep(p, t, L, a, f, base, z)
             second == ComputeSwapStep(first.next, t, L, b, f, base, z)
         IN  base => first.amountOut + second.amountOut <= s.amountOut
<1> DEFINE s      == ComputeSwapStep(p, t, L, whole, f, base, z)
           first  == ComputeSwapStep(p, t, L, a, f, base, z)
           y      == first.next
           second == ComputeSwapStep(y, t, L, b, f, base, z)
           q      == second.next
           x      == s.next
           ba     == AmountRemainingLessFee(a, f)
           bb     == AmountRemainingLessFee(b, f)
           bw     == AmountRemainingLessFee(whole, f)
<1>1. s.tag = "ok" /\ first.tag = "ok" /\ second.tag = "ok"
  OBVIOUS
<1>2. /\ x \in Prices128 /\ AheadOf(p, x, z) /\ AheadOf(x, t, z)
      /\ base => /\ bw \in U64 /\ s.amountOut = AmountOut(p, x, L, z)
                 /\ x # t => L # 0 /\ x = NextSqrtPriceFromInput(p, L, bw, z)
  BY <1>1, InputStepMove
<1>3. /\ y \in Prices128 /\ AheadOf(p, y, z) /\ AheadOf(y, t, z)
      /\ base => /\ ba \in U64 /\ PaysFor(ba, p, y, L, z)
                 /\ first.amountOut = AmountOut(p, y, L, z)
  BY <1>1, InputStepMove
<1> HIDE DEF y, s, first, x
<1>4. /\ q \in Prices128 /\ AheadOf(y, q, z) /\ AheadOf(q, t, z)
      /\ base => /\ bb \in U64 /\ PaysFor(bb, y, q, L, z)
                 /\ second.amountOut = AmountOut(y, q, L, z)
  BY <1>1, <1>3, InputStepMove
<1> HIDE DEF second, q
<1>10. SUFFICES ASSUME base PROVE first.amountOut + second.amountOut <= s.amountOut
  BY DEF s, first, second, y
<1>5. ba + bb <= bw
  <2>1. /\ a \in Nat /\ b \in Nat
        /\ FEE_RATE_DENOMINATOR_VALUE - f \in Nat /\ FEE_RATE_DENOMINATOR_VALUE \in Nat \ {0}
    BY QAssumption, FeeDenominatorAssumption, SMT DEF U64, U64Max, FeeRatesBelowOne
  <2> QED BY <2>1, FloorOfParts DEF AmountRemainingLessFee
<1>6. ba \in Nat /\ bb \in Nat /\ bw \in Nat
  <2>1. U64 \subseteq Nat
    BY QAssumption, SMT DEF U64, U64Max
  <2> QED BY <1>2, <1>3, <1>4, <1>10, <2>1
<1> HIDE DEF ba, bb, bw
<1>7. AheadOf(q, x, z)
  <2>1. CASE x = t
    BY <1>4, <2>1
  <2>2. CASE x # t
    <3>1. PaysFor(bw, p, q, L, z)
      BY <1>3, <1>4, <1>5, <1>6, <1>10, PaysForBoth
    <3>2. AheadOf(p, q, z)
      <4>1. p \in Nat /\ y \in Nat /\ q \in Nat
        BY <1>3, <1>4, QAssumption, SMT DEF Prices128, U128Max
      <4> QED BY <1>3, <1>4, <4>1, SMT DEF AheadOf
    <3> QED BY <1>2, <1>4, <1>10, <2>2, <3>1, <3>2, InputGoesFurthest
  <2> QED BY <2>1, <2>2
<1>8. AmountOut(p, y, L, z) + AmountOut(y, q, L, z) <= AmountOut(p, x, L, z)
  BY <1>2, <1>3, <1>4, <1>7, OutputOfParts
<1>9. first.amountOut + second.amountOut <= s.amountOut
  BY <1>2, <1>3, <1>4, <1>8, <1>10
<1> QED BY <1>9

-----------------------------------------------------------------------------
(* The inductive invariant *)

StateTypes ==
  /\ liquidity \in Liquidities
  /\ startPrice \in StartPrices
  /\ sqrtPrice \in Prices128
  /\ net0 \in Int
  /\ net1 \in Int
  /\ calls \in 0 .. MaxCalls

(* What the record of a call remembers of the step it made.  If the step    *)
(* settled, the pool stands where the step put it.                          *)
CallSound ==
  /\ last.tag = "call"
  /\ last.from \in Prices128 /\ last.target \in Prices128
  /\ last.amount \in Amounts /\ last.feeRate \in FeeRates
  /\ last.isBaseInput \in BOOLEAN /\ last.zeroForOne \in BOOLEAN
  /\ AheadOf(last.from, last.target, last.zeroForOne)
  /\ last.outcome = ComputeSwapStep(last.from, last.target, liquidity, last.amount,
                                    last.feeRate, last.isBaseInput, last.zeroForOne)
  /\ last.isBaseInput \/ 2 * last.feeRate <= FEE_RATE_DENOMINATOR_VALUE
       => last.outcome.tag # "panic"
  /\ last.outcome.tag = "ok" =>
       /\ last.outcome.next = sqrtPrice
       /\ StepSound(last.outcome, last.from, last.target, liquidity, last.amount,
                    last.feeRate, last.isBaseInput, last.zeroForOne)

IInv ==
  /\ StateTypes
  /\ ReservesCoverCurve
  /\ last = NoCall \/ CallSound

(* The operands of the model are those the lemmas on a step quantify over. *)
LEMMA OperandSets ==
  /\ Liquidities \subseteq U128
  /\ StartPrices \subseteq Prices128
  /\ Targets \subseteq Prices128
  /\ FeeRates \subseteq FeeRatesBelowOne
  /\ Amounts \subseteq U64
  /\ U128 \subseteq Nat
  /\ Prices128 \subseteq Nat \ {0}
  /\ Q \in Nat
<1>1. U128 \subseteq Nat /\ Prices128 \subseteq Nat \ {0} /\ U128 \ {0} \subseteq Prices128
  BY QAssumption, SMT DEF U128, U128Max, Prices128
<1> QED BY <1>1, QAssumption, RangePoolAssumption DEF FeeRatesBelowOne

(* The pool starts on the curve. *)
LEMMA InitIInv == Init => IInv
<1> SUFFICES ASSUME Init PROVE IInv
  OBVIOUS
<1>1. /\ liquidity \in Nat /\ startPrice \in Nat /\ sqrtPrice = startPrice
      /\ net0 = 0 /\ net1 = 0 /\ Q \in Nat
  BY OperandSets DEF Init
<1>2. StateTypes
  <2>1. 0 \in 0 .. MaxCalls
    BY RangePoolAssumption, SMT
  <2> QED BY <2>1, OperandSets DEF Init, StateTypes
<1>3. net1 * Q >= liquidity * (sqrtPrice - startPrice)
  BY <1>1, SMT
<1>4. net0 * (sqrtPrice * startPrice) >= liquidity * Q * (startPrice - sqrtPrice)
  <2>1. net0 * (sqrtPrice * startPrice) = 0 /\ startPrice - sqrtPrice = 0
    BY <1>1, SMT
  <2>2. liquidity * Q * 0 = 0
    BY <1>1, SMT
  <2> QED BY <2>1, <2>2, SMT
<1>5. last = NoCall
  BY DEF Init
<1> QED BY <1>2, <1>3, <1>4, <1>5 DEF IInv, ReservesCoverCurve

(* What a step asked of a sound pool returns, and what it leaves in last.  *)
LEMMA CallStepSound ==
  ASSUME StateTypes,
         NEW target \in Targets, NEW amount \in Amounts, NEW feeRate \in FeeRates,
         NEW isBaseInput \in BOOLEAN, NEW zeroForOne \in BOOLEAN,
         Ahead(target, zeroForOne)
  PROVE  LET s == ComputeSwapStep(sqrtPrice, target, liquidity, amount, feeRate,
                                  isBaseInput, zeroForOne)
         IN  /\ AheadOf(sqrtPrice, target, zeroForOne)
             /\ isBaseInput \/ 2 * feeRate <= FEE_RATE_DENOMINATOR_VALUE => s.tag # "panic"
             /\ s.tag = "ok" => StepSound(s, sqrtPrice, target, liquidity, amount,
                                         feeRate, isBaseInput, zeroForOne)
<1>1. /\ sqrtPrice \in Prices128 /\ target \in Prices128 /\ liquidity \in U128
      /\ amount \in U64 /\ feeRate \in FeeRatesBelowOne
      /\ sqrtPrice \in Nat /\ target \in Nat
  BY OperandSets DEF StateTypes
<1>2. AheadOf(sqrtPrice, target, zeroForOne)
  <2>1. CASE zeroForOne
    BY <2>1 DEF Ahead, AheadOf
  <2>2. CASE ~zeroForOne
    <3>1. target >= sqrtPrice
      BY <2>2 DEF Ahead
    <3>2. sqrtPrice <= target
      BY <1>1, <3>1, SMT
    <3> QED BY <2>2, <3>2 DEF AheadOf
  <2> QED BY <2>1, <2>2
<1> QED BY <1>1, <1>2, StepFacts

(* A settled step keeps the invariant. *)
LEMMA SettlesIInv ==
  ASSUME IInv,
         NEW target \in Targets, NEW amount \in Amounts, NEW feeRate \in FeeRates,
         NEW isBaseInput \in BOOLEAN, NEW zeroForOne \in BOOLEAN,
         StepSettles(target, amount, feeRate, isBaseInput, zeroForOne)
  PROVE  IInv'
<1> DEFINE s  == ComputeSwapStep(sqrtPrice, target, liquidity, amount, feeRate,
                                 isBaseInput, zeroForOne)
           d0 == IF zeroForOne THEN s.amountIn ELSE -s.amountOut
           d1 == IF zeroForOne THEN -s.amountOut ELSE s.amountIn
<1>1. /\ calls < MaxCalls /\ Ahead(target, zeroForOne) /\ s.tag = "ok"
      /\ sqrtPrice' = s.next
      /\ net0' = net0 + d0 /\ net1' = net1 + d1
      /\ calls' = calls + 1
      /\ last' = CallRecord(target, amount, feeRate, isBaseInput, zeroForOne, s)
      /\ liquidity' = liquidity /\ startPrice' = startPrice
  BY DEF StepSettles
<1>2. /\ AheadOf(sqrtPrice, target, zeroForOne)
      /\ isBaseInput \/ 2 * feeRate <= FEE_RATE_DENOMINATOR_VALUE => s.tag # "panic"
      /\ StepSound(s, sqrtPrice, target, liquidity, amount, feeRate, isBaseInput, zeroForOne)
  BY <1>1, CallStepSound DEF IInv
<1> HIDE DEF s
<1>3. /\ s.next \in Prices128 /\ AheadOf(sqrtPrice, s.next, zeroForOne)
      /\ s.amountIn \in Nat /\ s.amountOut \in Nat
      /\ s.amountIn = AmountIn(sqrtPrice, s.next, liquidity, zeroForOne)
      /\ s.amountOut <= AmountOut(sqrtPrice, s.next, liquidity, zeroForOne)
  <2>1. U64 \subseteq Nat
    BY QAssumption, SMT DEF U64, U64Max
  <2> QED BY <1>2, <2>1 DEF StepSound
<1>4. /\ sqrtPrice \in Prices128 /\ liquidity \in U128
      /\ sqrtPrice \in Nat \ {0} /\ s.next \in Nat \ {0} /\ startPrice \in Nat \ {0}
      /\ liquidity \in Nat /\ Q \in Nat /\ net0 \in Int /\ net1 \in Int
  BY <1>3, OperandSets DEF IInv, StateTypes
<1>5. d0 \in Int /\ d1 \in Int
  BY <1>3, SMT
<1>6. /\ d1 * Q >= liquidity * (s.next - sqrtPrice)
      /\ d0 * (s.next * sqrtPrice) >= (liquidity * Q) * (sqrtPrice - s.next)
  BY <1>3, <1>4, StepCoversMove
<1> HIDE DEF d0, d1
<1>7. StateTypes'
  <2>1. calls + 1 \in 0 .. MaxCalls
    BY <1>1, RangePoolAssumption, SMT DEF IInv, StateTypes
  <2>2. net0 + d0 \in Int /\ net1 + d1 \in Int
    BY <1>4, <1>5, SMT
  <2> QED BY <1>1, <1>3, <2>1, <2>2 DEF IInv, StateTypes
<1>8. ReservesCoverCurve'
  <2>1. (net1 + d1) * Q >= liquidity * (s.next - startPrice)
    <3>1. net1 * Q >= liquidity * (sqrtPrice - startPrice)
      BY DEF IInv, ReservesCoverCurve
    <3> QED BY <1>4, <1>5, <1>6, <3>1, Curve1Step
  <2>2. (net0 + d0) * (s.next * startPrice) >= (liquidity * Q) * (startPrice - s.next)
    <3>1. net0 * (sqrtPrice * startPrice) >= (liquidity * Q) * (startPrice - sqrtPrice)
      BY DEF IInv, ReservesCoverCurve
    <3>2. liquidity * Q \in Nat
      BY <1>4, ProductNat
    <3> QED BY <1>4, <1>5, <1>6, <3>1, <3>2, Curve0Step
  <2> QED BY <1>1, <2>1, <2>2 DEF ReservesCoverCurve
<1>9. CallSound'
  <2>1. /\ last'.tag = "call" /\ last'.from = sqrtPrice /\ last'.target = target
        /\ last'.amount = amount /\ last'.feeRate = feeRate
        /\ last'.isBaseInput = isBaseInput /\ last'.zeroForOne = zeroForOne
        /\ last'.outcome = s
    BY <1>1 DEF CallRecord
  <2>2. target \in Prices128
    BY OperandSets
  <2> QED BY <1>1, <1>2, <1>4, <2>1, <2>2 DEF CallSound, s
<1> QED BY <1>7, <1>8, <1>9 DEF IInv

(* A refused step keeps it too: only the record of the call changes. *)
LEMMA RefusedIInv ==
  ASSUME IInv,
         NEW target \in Targets, NEW amount \in Amounts, NEW feeRate \in FeeRates,
         NEW isBaseInput \in BOOLEAN, NEW zeroForOne \in BOOLEAN,
         StepRefused(target, amount, feeRate, isBaseInput, zeroForOne)
  PROVE  IInv'
<1> DEFINE s == ComputeSwapStep(sqrtPrice, target, liquidity, amount, feeRate,
                                isBaseInput, zeroForOne)
<1>1. /\ calls < MaxCalls /\ Ahead(target, zeroForOne) /\ s.tag # "ok"
      /\ calls' = calls + 1
      /\ last' = CallRecord(target, amount, feeRate, isBaseInput, zeroForOne, s)
      /\ liquidity' = liquidity /\ startPrice' = startPrice /\ sqrtPrice' = sqrtPrice
      /\ net0' = net0 /\ net1' = net1
  BY DEF StepRefused
<1>2. /\ AheadOf(sqrtPrice, target, zeroForOne)
      /\ isBaseInput \/ 2 * feeRate <= FEE_RATE_DENOMINATOR_VALUE => s.tag # "panic"
  BY <1>1, CallStepSound DEF IInv
<1> HIDE DEF s
<1>3. StateTypes'
  <2>1. calls + 1 \in 0 .. MaxCalls
    BY <1>1, RangePoolAssumption, SMT DEF IInv, StateTypes
  <2> QED BY <1>1, <2>1 DEF IInv, StateTypes
<1>4. ReservesCoverCurve'
  BY <1>1 DEF IInv, ReservesCoverCurve
<1>5. CallSound'
  <2>1. /\ last'.tag = "call" /\ last'.from = sqrtPrice /\ last'.target = target
        /\ last'.amount = amount /\ last'.feeRate = feeRate
        /\ last'.isBaseInput = isBaseInput /\ last'.zeroForOne = zeroForOne
        /\ last'.outcome = s
    BY <1>1 DEF CallRecord
  <2>2. target \in Prices128 /\ sqrtPrice \in Prices128
    BY OperandSets DEF IInv, StateTypes
  <2> QED BY <1>1, <1>2, <2>1, <2>2 DEF CallSound, s
<1> QED BY <1>3, <1>4, <1>5 DEF IInv

(* Every step of the specification keeps the invariant. *)
LEMMA NextIInv == IInv /\ [Next]_vars => IInv'
<1> SUFFICES ASSUME IInv, [Next]_vars PROVE IInv'
  OBVIOUS
<1>1. CASE Next
  <2>1. PICK target \in Targets, amount \in Amounts, feeRate \in FeeRates,
             isBaseInput \in BOOLEAN, zeroForOne \in BOOLEAN :
          \/ StepSettles(target, amount, feeRate, isBaseInput, zeroForOne)
          \/ StepRefused(target, amount, feeRate, isBaseInput, zeroForOne)
    BY <1>1 DEF Next
  <2>2. CASE StepSettles(target, amount, feeRate, isBaseInput, zeroForOne)
    BY <2>2, SettlesIInv
  <2>3. CASE StepRefused(target, amount, feeRate, isBaseInput, zeroForOne)
    BY <2>3, RefusedIInv
  <2> QED BY <2>1, <2>2, <2>3
<1>2. CASE UNCHANGED vars
  BY <1>2 DEF vars, IInv, StateTypes, ReservesCoverCurve, CallSound
<1> QED BY <1>1, <1>2

(* Whatever the width, the liquidities, prices, fee rates and amounts: the  *)
(* invariant holds in every state of every sequence of compute_swap_step    *)
(* calls.                                                                   *)
THEOREM Invariance == Spec => []IInv
BY InitIInv, NextIInv, PTL DEF Spec

-----------------------------------------------------------------------------
(* The properties *)

(* A settled step is sound (the shape the properties below unfold). *)
LEMMA SettledSound ==
  ASSUME IInv, Settled
  PROVE  /\ CallSound
         /\ last.outcome.next = sqrtPrice
         /\ StepSound(last.outcome, last.from, last.target, liquidity, last.amount,
                      last.feeRate, last.isBaseInput, last.zeroForOne)
BY DEF IInv, Settled, CallSound, NoCall

(* Every variable keeps its type and a settled step's amounts fit a u64:    *)
(* the u64 conversions of swap_math.rs never lose a digit.                  *)
THEOREM TypeCorrectness == Spec => []TypeOK
<1>1. IInv => TypeOK
  BY SettledSound DEF IInv, StateTypes, TypeOK, StepSound, Prices128
<1> QED BY <1>1, Invariance, PTL

(* The pool always holds what its curve requires: no sequence of steps      *)
(* takes out more than the roundings of compute_swap_step left in.          *)
THEOREM Solvency == Spec => []ReservesCoverCurve
<1>1. IInv => ReservesCoverCurve
  BY DEF IInv
<1> QED BY <1>1, Invariance, PTL

(* A step that stops short of its target has used its amount up, and none   *)
(* uses more or overshoots (tests/properties.rs, for every input).          *)
THEOREM ConsumesOrReaches == Spec => []StepConsumesOrReaches
<1>1. IInv => StepConsumesOrReaches
  <2> SUFFICES ASSUME IInv, Settled PROVE StepConsumesOrReaches
    BY DEF StepConsumesOrReaches
  <2> DEFINE s == last.outcome
  <2>1. /\ CallSound
        /\ StepSound(s, last.from, last.target, liquidity, last.amount,
                     last.feeRate, last.isBaseInput, last.zeroForOne)
    BY SettledSound
  <2>2. /\ s.next \in Nat /\ last.from \in Nat /\ last.target \in Nat
    BY <2>1, OperandSets DEF CallSound, StepSound
  <2>3. LowerOf(last.from, last.target) <= s.next /\ s.next <= UpperOf(last.from, last.target)
    BY <2>1, <2>2, SMT DEF CallSound, StepSound, AheadOf, LowerOf, UpperOf
  <2>4. CASE last.isBaseInput
    BY <2>1, <2>3, <2>4 DEF StepConsumesOrReaches, StepSound
  <2>5. CASE ~last.isBaseInput
    BY <2>1, <2>3, <2>5 DEF StepConsumesOrReaches, StepSound
  <2> QED BY <2>4, <2>5
<1> QED BY <1>1, Invariance, PTL

(* A move to the target is paid for in full: the 0 that a range amount      *)
(* above u64::MAX leaves behind never becomes the input of a step.          *)
THEOREM TargetAlwaysPaidFor == Spec => []TargetIsPaidFor
<1>1. IInv => TargetIsPaidFor
  BY SettledSound DEF TargetIsPaidFor, StepSound
<1> QED BY <1>1, Invariance, PTL

(* The fee is never below fee_rate of the gross input. *)
THEOREM FeeCorrectness == Spec => []FeeAtLeastRate
<1>1. IInv => FeeAtLeastRate
  BY SettledSound DEF FeeAtLeastRate, StepSound
<1> QED BY <1>1, Invariance, PTL

(* No unwrap, checked subtraction or cast of a step panics on an exact      *)
(* input, nor on an exact output at a fee rate of at most one half.         *)
THEOREM PanicFreedom == Spec => []NoPanic
<1>1. IInv => NoPanic
  BY DEF IInv, CallSound, NoPanic, NoCall
<1> QED BY <1>1, Invariance, PTL

(* Quoting back what an exact input bought, at every price and liquidity:   *)
(* no dearer when the quote stops short of the target, and at most the cost *)
(* of a rest of the way that pays nothing out when it ends on the target.   *)
THEOREM QuoteBackBound == Spec => []ExactOutQuoteBounded
<1>1. IInv => ExactOutQuoteBounded
  <2> DEFINE s    == last.outcome
             out  == s.amountOut
             back == ComputeSwapStep(last.from, last.target, liquidity, out,
                                     last.feeRate, FALSE, last.zeroForOne)
             rest == CostOfWay(s.next, last.target, liquidity, last.feeRate,
                               last.zeroForOne)
             bounded == /\ back.next # last.target =>
                             back.amountIn + back.fee <= s.amountIn + s.fee
                        /\ back.next = last.target =>
                             /\ AmountOut(s.next, last.target, liquidity,
                                          last.zeroForOne) = 0
                             /\ back.amountIn + back.fee
                                  <= (s.amountIn + s.fee) + rest
  <2> SUFFICES ASSUME IInv, Settled, last.isBaseInput, out > 0, back.tag = "ok"
               PROVE  bounded
    BY DEF ExactOutQuoteBounded
  <2>1. /\ CallSound
        /\ StepSound(s, last.from, last.target, liquidity, last.amount,
                     last.feeRate, last.isBaseInput, last.zeroForOne)
    BY SettledSound
  <2>2. out \in U64 /\ out # 0 /\ out <= out
    <3>1. out \in U64
      BY <2>1 DEF StepSound
    <3>2. out \in Int /\ out # 0
      BY <3>1, QAssumption, SMT DEF U64, U64Max
    <3> HIDE DEF out
    <3> QED BY <3>1, <3>2, SMT
  <2>3. /\ last.from \in Prices128 /\ last.target \in Prices128 /\ liquidity \in U128
        /\ last.amount \in U64 /\ last.feeRate \in FeeRatesBelowOne
        /\ last.isBaseInput \in BOOLEAN /\ last.zeroForOne \in BOOLEAN
        /\ AheadOf(last.from, last.target, last.zeroForOne)
    BY <2>1, OperandSets DEF CallSound, IInv, StateTypes
  <2>4. s = ComputeSwapStep(last.from, last.target, liquidity, last.amount,
                            last.feeRate, last.isBaseInput, last.zeroForOne)
        /\ s.tag = "ok"
    BY <2>1 DEF CallSound, Settled
  <2>5. back.tag = "ok" /\ last.isBaseInput
    OBVIOUS
  <2>6. /\ s = InputStep(last.from, last.target, liquidity, last.amount,
                        last.feeRate, last.zeroForOne)
        /\ back = OutputStep(last.from, last.target, liquidity, out,
                             last.feeRate, last.zeroForOne)
    BY <2>3, <2>4, <2>5 DEF InputStep, OutputStep
  <2>7. out <= s.amountOut /\ s.tag = "ok" /\ back.tag = "ok"
    BY <2>2, <2>4, <2>5 DEF out
  <2> HIDE DEF s, out, back
  <2>8. /\ out <= InputStep(last.from, last.target, liquidity, last.amount,
                            last.feeRate, last.zeroForOne).amountOut
        /\ InputStep(last.from, last.target, liquidity, last.amount,
                     last.feeRate, last.zeroForOne).tag = "ok"
        /\ OutputStep(last.from, last.target, liquidity, out,
                      last.feeRate, last.zeroForOne).tag = "ok"
    BY <2>6, <2>7
  <2>9. out \in U64 /\ out # 0
    BY <2>2
  <2>10. QuoteBound(InputStep(last.from, last.target, liquidity, last.amount,
                              last.feeRate, last.zeroForOne),
                    OutputStep(last.from, last.target, liquidity, out,
                               last.feeRate, last.zeroForOne),
                    last.target, liquidity, last.feeRate, last.zeroForOne)
    BY <2>3, <2>8, <2>9, QuoteBack
  <2>11. QuoteBound(s, back, last.target, liquidity, last.feeRate, last.zeroForOne)
    BY <2>6, <2>10
  <2> QED BY <2>11 DEF QuoteBound
<1> QED BY <1>1, Invariance, PTL

(* Splitting an exact input never pays: the price and the outputs of the    *)
(* two parts are rounded on top of one another, always for the pool.        *)
THEOREM SplittingNeverPays == Spec => []SplitNeverPays
<1>1. IInv => SplitNeverPays
  <2> DEFINE s == last.outcome
             first(part) == ComputeSwapStep(last.from, last.target, liquidity, part,
                                            last.feeRate, TRUE, last.zeroForOne)
             second(part) == ComputeSwapStep(first(part).next, last.target, liquidity,
                                             last.amount - part, last.feeRate, TRUE,
                                             last.zeroForOne)
  <2> SUFFICES ASSUME IInv, Settled, last.isBaseInput,
                      NEW part \in Amounts, part < last.amount,
                      first(part).tag = "ok", second(part).tag = "ok"
               PROVE  first(part).amountOut + second(part).amountOut <= s.amountOut
    BY DEF SplitNeverPays
  <2>1. CallSound
    BY SettledSound
  <2>2. /\ last.from \in Prices128 /\ last.target \in Prices128 /\ liquidity \in U128
        /\ last.amount \in U64 /\ part \in U64 /\ last.feeRate \in FeeRatesBelowOne
        /\ last.isBaseInput \in BOOLEAN /\ last.zeroForOne \in BOOLEAN
        /\ AheadOf(last.from, last.target, last.zeroForOne)
    BY <2>1, OperandSets DEF CallSound, IInv, StateTypes
  <2> DEFINE rest == last.amount - part
  <2>3. rest \in U64 /\ part + rest = last.amount
    BY <2>2, QAssumption, SMT DEF U64, U64Max
  <2>4. /\ s = ComputeSwapStep(last.from, last.target, liquidity, last.amount,
                               last.feeRate, last.isBaseInput, last.zeroForOne)
        /\ s.tag = "ok" /\ last.isBaseInput
        /\ first(part).tag = "ok" /\ second(part).tag = "ok"
    BY <2>1 DEF CallSound, Settled
  <2> DEFINE base == last.isBaseInput
             f == ComputeSwapStep(last.from, last.target, liquidity, part,
                                  last.feeRate, base, last.zeroForOne)
             g == ComputeSwapStep(f.next, last.target, liquidity, rest,
                                  last.feeRate, base, last.zeroForOne)
             w == ComputeSwapStep(last.from, last.target, liquidity, last.amount,
                                  last.feeRate, base, last.zeroForOne)
  <2>5. base \in BOOLEAN
    BY <2>2
  <2>6. base /\ f = first(part) /\ w = s
    <3>1. base = TRUE
      BY <2>4, <2>5
    <3> HIDE DEF base
    <3>2. f = first(part)
      BY <3>1
    <3> QED BY <2>4, <3>1, <3>2 DEF base
  <2>7. g = second(part)
    <3>1. base = TRUE
      BY <2>4, <2>5
    <3> HIDE DEF base, f, first
    <3> QED BY <2>6, <3>1
  <2> HIDE DEF s, first, second, base, rest
  <2>8. f.tag = "ok" /\ g.tag = "ok" /\ w.tag = "ok"
    BY <2>4, <2>6, <2>7
  <2>9. base => f.amountOut + g.amountOut <= w.amountOut
    BY <2>2, <2>3, <2>5, <2>8, SplitInput, ZenonT(60)
  <2> HIDE DEF f, g, w
  <2> QED BY <2>6, <2>7, <2>9
<1> QED BY <1>1, Invariance, PTL
=============================================================================
