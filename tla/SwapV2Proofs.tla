---------------------------- MODULE SwapV2Proofs ----------------------------
(***************************************************************************)
(* Transfer fees, for every rate and cap: the amount to send is the least  *)
(* that leaves a given arrival.  Then the routed swap, for every epoch     *)
(* turn: what it is sized for arrives, what it is quoted for is enough,    *)
(* and what quoting back asks for is bounded.                              *)
(***************************************************************************)
EXTENDS SwapV2, SwapMathProofs

-----------------------------------------------------------------------------
(* Transfer fees *)

(* The fields of a transfer fee as naturals. *)
LEMMA FeeFields ==
  ASSUME NEW fee \in TransferFeeType
  PROVE  /\ fee.bps \in Nat /\ fee.max \in Nat
         /\ fee.bps <= MAX_FEE_BASIS_POINTS
         /\ MAX_FEE_BASIS_POINTS \in Nat \ {0}
<1>1. fee.bps \in 0 .. MAX_FEE_BASIS_POINTS /\ fee.max \in U64
  BY DEF TransferFeeType
<1>2. MAX_FEE_BASIS_POINTS \in Nat \ {0} /\ U64 \subseteq Nat
  BY BasisPointsAssumption, QAssumption, SMT DEF U64, U64Max
<1> DEFINE bps == fee.bps
<1>3. bps \in 0 .. MAX_FEE_BASIS_POINTS
  BY <1>1
<1> HIDE DEF bps
<1>4. bps \in Nat /\ bps <= MAX_FEE_BASIS_POINTS
  BY <1>2, <1>3, SMT
<1> QED BY <1>1, <1>2, <1>4 DEF bps

(* ceil_div of a product is the rounding up of MulDiv. *)
LEMMA CeilDivIsMulDivCeil ==
  ASSUME NEW a \in Nat, NEW b \in Nat, NEW d \in Nat \ {0}
  PROVE  CeilDiv(a * b, d) = MulDivCeil(a, b, d)
<1> DEFINE x == a * b
<1>1. x \in Nat
  BY ProductNat
<1> HIDE DEF x
<1>2. x + d - 1 = x + (d - 1)
  BY <1>1, SMT
<1> QED BY <1>2 DEF CeilDiv, MulDivCeil, x

(* The fee withheld is the least amount that is the cap or covers the rate. *)
LEMMA CalculateFeeFacts ==
  ASSUME NEW fee \in TransferFeeType, NEW pre \in Nat
  PROVE  LET c == CalculateFee(fee, pre)
         IN  /\ c \in Nat /\ c <= pre
             /\ \A k \in Nat :
                  c <= k <=> \/ fee.max <= k
                             \/ pre * fee.bps <= k * MAX_FEE_BASIS_POINTS
<1> DEFINE B   == MAX_FEE_BASIS_POINTS
           bps == fee.bps
           max == fee.max
           raw == MulDivCeil(pre, bps, B)
           c   == CalculateFee(fee, pre)
<1>1. bps \in Nat /\ max \in Nat /\ bps <= B /\ B \in Nat \ {0}
  BY FeeFields
<1>2. c = LowerOf(raw, max)
  BY <1>1, CeilDivIsMulDivCeil DEF CalculateFee
<1> HIDE DEF B, bps, max, c
<1>3. raw \in Nat /\ pre * bps <= raw * B
  BY <1>1, MulDivCeilBracket
<1>4. ASSUME NEW k \in Nat, pre * bps <= k * B
      PROVE  raw <= k
  BY <1>1, <1>4, MulDivCeilLeast
<1> HIDE DEF raw
<1>5. c \in Nat /\ c <= raw /\ c <= max /\ (c = raw \/ c = max)
  BY <1>1, <1>2, <1>3, SMT DEF LowerOf
<1>6. c <= pre
  <2>1. pre * bps <= pre * B
    BY <1>1, ProductMonotone
  <2>2. raw <= pre
    BY <1>4, <2>1
  <2> QED BY <1>3, <1>5, <2>2, SMT
<1>7. ASSUME NEW k \in Nat
      PROVE  c <= k <=> max <= k \/ pre * bps <= k * B
  <2>1. ASSUME c <= k, ~(max <= k)
        PROVE  pre * bps <= k * B
    <3>1. raw <= k
      BY <1>1, <1>3, <1>5, <2>1, SMT
    <3>2. raw * B <= k * B
      BY <1>1, <1>3, <3>1, ProductMonotone
    <3>3. raw * B \in Int /\ k * B \in Int /\ pre * bps \in Int
      BY <1>1, <1>3, SMT
    <3> QED BY <1>3, <3>2, <3>3, SMT
  <2>2. ASSUME max <= k
        PROVE  c <= k
    BY <1>1, <1>5, <2>2, SMT
  <2>3. ASSUME pre * bps <= k * B
        PROVE  c <= k
    <3>1. raw <= k
      BY <1>4, <2>3
    <3> QED BY <1>3, <1>5, <3>1, SMT
  <2> QED BY <2>1, <2>2, <2>3
<1> QED BY <1>5, <1>6, <1>7 DEF c, max, bps, B

(* A transfer leaves post exactly when the difference covers the fee. *)
LEMMA TransferLeaves ==
  ASSUME NEW fee \in TransferFeeType, NEW pre \in Nat, NEW post \in Nat
  PROVE  /\ ApplyTransferFee(fee, pre) \in Nat
         /\ ApplyTransferFee(fee, pre) <= pre
         /\ ApplyTransferFee(fee, pre) >= post <=>
              /\ post <= pre
              /\ \/ post + fee.max <= pre
                 \/ pre * fee.bps <= (pre - post) * MAX_FEE_BASIS_POINTS
<1> DEFINE B   == MAX_FEE_BASIS_POINTS
           max == fee.max
           c   == CalculateFee(fee, pre)
           k   == pre - post
           x   == pre * fee.bps
<1>1. c \in Nat /\ c <= pre /\ max \in Nat
  BY CalculateFeeFacts, FeeFields
<1>2. k \in Nat => (c <= k <=> max <= k \/ x <= k * B)
  BY CalculateFeeFacts
<1>3. ApplyTransferFee(fee, pre) = pre - c
  BY DEF ApplyTransferFee
<1> HIDE DEF B, max, c, x
<1>4. CASE post <= pre
  <2>1. k \in Nat /\ (c <= k <=> pre - c >= post) /\ (max <= k <=> post + max <= pre)
    BY <1>1, <1>4, SMT
  <2>2. pre - c \in Nat /\ pre - c <= pre
    BY <1>1, SMT
  <2>3. pre - c >= post <=> (post + max <= pre \/ x <= k * B)
    BY <1>2, <2>1
  <2> QED BY <1>3, <1>4, <2>2, <2>3 DEF max, x, B
<1>5. CASE ~(post <= pre)
  <2>1. pre - c \in Nat /\ pre - c <= pre /\ ~(pre - c >= post)
    BY <1>1, <1>5, SMT
  <2> QED BY <1>3, <1>5, <2>1
<1> QED BY <1>4, <1>5

(* A fee that did not rise leaves at least as much. *)
LEMMA LowerFeeLeaves ==
  ASSUME NEW fee \in TransferFeeType, NEW before \in TransferFeeType,
         NoHigher(fee, before), NEW pre \in Nat, NEW post \in Nat,
         ApplyTransferFee(before, pre) >= post
  PROVE  ApplyTransferFee(fee, pre) >= post
<1> DEFINE B == MAX_FEE_BASIS_POINTS
           w == (pre - post) * B
<1>1. /\ fee.bps \in Nat /\ fee.max \in Nat
      /\ before.bps \in Nat /\ before.max \in Nat /\ B \in Nat
      /\ fee.bps <= before.bps /\ fee.max <= before.max
  BY FeeFields DEF NoHigher
<1>2. post <= pre /\ (post + before.max <= pre \/ pre * before.bps <= w)
  BY TransferLeaves
<1>3. w \in Int
  BY <1>1, SMT
<1>4. post + before.max <= pre => post + fee.max <= pre
  BY <1>1, SMT
<1> HIDE DEF w
<1>5. pre * before.bps <= w => pre * fee.bps <= w
  <2>1. pre * fee.bps <= pre * before.bps
    BY <1>1, ProductMonotone
  <2>2. pre * fee.bps \in Int /\ pre * before.bps \in Int
    BY <1>1, SMT
  <2> QED BY <1>3, <2>1, <2>2, SMT
<1>6. post <= pre /\ (post + fee.max <= pre \/ pre * fee.bps <= w)
  BY <1>2, <1>4, <1>5
<1> QED BY <1>6, TransferLeaves DEF w

(* reverse_apply_transfer_fee is exact: the amount it returns leaves post,  *)
(* and no smaller amount does, below the cap, at the cap and at 100%.       *)
LEMMA ReverseIsLeast ==
  ASSUME NEW fee \in TransferFeeType, NEW post \in Nat
  PROVE  LET r == ReverseApplyTransferFee(fee, post)
         IN  /\ r \in Nat /\ post <= r
             /\ ApplyTransferFee(fee, r) >= post
             /\ \A p \in Nat : ApplyTransferFee(fee, p) >= post => r <= p
<1> DEFINE B   == MAX_FEE_BASIS_POINTS
           bps == fee.bps
           max == fee.max
           net == B - bps
           raw == MulDivCeil(post, B, net)
           r   == ReverseApplyTransferFee(fee, post)
           Leaves(p) == post <= p /\ (post + max <= p \/ p * bps <= (p - post) * B)
<1>1. bps \in Nat /\ max \in Nat /\ bps <= B /\ B \in Nat \ {0}
  BY FeeFields
<1>2. ASSUME NEW p \in Nat
      PROVE  ApplyTransferFee(fee, p) >= post <=> Leaves(p)
  BY TransferLeaves
<1>3. SUFFICES /\ r \in Nat /\ Leaves(r)
               /\ \A p \in Nat : Leaves(p) => r <= p
  BY <1>2
<1>4. post + max \in Nat /\ post <= post + max
  BY <1>1, SMT
<1>5. CASE bps = 0 \/ post = 0
  <2>1. r = post
    BY <1>5 DEF ReverseApplyTransferFee
  <2> HIDE DEF r
  <2>2. post <= post
    BY SMT
  <2>3. post + max <= post \/ post * bps <= (post - post) * B
    <3>1. post * bps = 0 /\ (post - post) * B = 0
      BY <1>1, <1>5, SMT
    <3> QED BY <3>1, SMT
  <2> QED BY <2>1, <2>2, <2>3
<1>6. CASE bps # 0 /\ post # 0 /\ bps = B
  <2>1. r = post + max
    BY <1>6 DEF ReverseApplyTransferFee
  <2> HIDE DEF r
  <2>2. Leaves(r)
    BY <1>1, <1>4, <2>1, SMT
  <2>3. ASSUME NEW p \in Nat, Leaves(p)
        PROVE  r <= p
    <3>1. ASSUME p * bps <= (p - post) * B
          PROVE  FALSE
      <4>1. (p - post) * B = p * B - post * B /\ post * B > 0
        BY <1>1, <1>6, SMT
      <4>2. p * B \in Int /\ post * B \in Int
        BY <1>1, SMT
      <4> QED BY <1>6, <3>1, <4>1, <4>2, SMT
    <3> QED BY <2>1, <2>3, <3>1
  <2> QED BY <1>4, <2>1, <2>2, <2>3
<1>7. CASE bps # 0 /\ post # 0 /\ bps # B
  <2>1. net \in Nat \ {0} /\ B = net + bps
    BY <1>1, <1>7, SMT
  <2>2. r = IF raw - post >= max THEN post + max ELSE raw
    <3>1. CeilDiv(post * B, net) = raw
      BY <1>1, <2>1, CeilDivIsMulDivCeil
    <3> QED BY <1>7, <3>1 DEF ReverseApplyTransferFee
  <2> HIDE DEF r, net
  <2>3. raw \in Nat /\ post * B <= raw * net
    BY <1>1, <2>1, MulDivCeilBracket
  <2>4. ASSUME NEW p \in Nat, post * B <= p * net
        PROVE  raw <= p
    BY <1>1, <2>1, <2>4, MulDivCeilLeast
  <2> HIDE DEF raw
  <2>5. ASSUME NEW p \in Nat
        PROVE  p * bps <= (p - post) * B <=> post * B <= p * net
    <3>1. (p - post) * B = p * B - post * B /\ p * B = p * net + p * bps
      BY <1>1, <2>1, SMT
    <3>2. p * B \in Int /\ post * B \in Int /\ p * net \in Int /\ p * bps \in Int
      BY <1>1, <2>1, SMT
    <3> QED BY <3>1, <3>2, SMT
  <2>6. post <= raw
    <3>1. post * net <= post * B
      <4>1. net <= B
        BY <1>1, <2>1, SMT
      <4> QED BY <1>1, <2>1, <4>1, ProductMonotone
    <3>2. post * net <= raw * net
      <4>1. post * net \in Int /\ post * B \in Int /\ raw * net \in Int
        BY <1>1, <2>1, <2>3, SMT
      <4> QED BY <2>3, <3>1, <4>1, SMT
    <3>3. net * post <= net * raw
      <4>1. net * post = post * net /\ net * raw = raw * net
        BY <2>1, <2>3, SMT
      <4> QED BY <3>2, <4>1
    <3> QED BY <2>1, <2>3, <3>3, ProductCancel
  <2>7. CASE raw - post >= max
    <3>1. r = post + max /\ post + max <= raw
      BY <1>1, <2>2, <2>3, <2>7, SMT
    <3>2. Leaves(r)
      BY <1>4, <3>1, SMT
    <3>3. ASSUME NEW p \in Nat, Leaves(p)
          PROVE  r <= p
      <4>1. CASE post + max <= p
        BY <3>1, <4>1
      <4>2. CASE p * bps <= (p - post) * B
        <5>1. raw <= p
          BY <2>4, <2>5, <4>2
        <5> QED BY <1>4, <2>3, <3>1, <5>1, SMT
      <4> QED BY <3>3, <4>1, <4>2
    <3> QED BY <1>4, <3>1, <3>2, <3>3
  <2>8. CASE ~(raw - post >= max)
    <3>1. r = raw /\ raw <= post + max
      BY <1>1, <2>2, <2>3, <2>8, SMT
    <3>2. Leaves(r)
      BY <2>3, <2>5, <2>6, <3>1
    <3>3. ASSUME NEW p \in Nat, Leaves(p)
          PROVE  r <= p
      <4>1. CASE post + max <= p
        BY <1>4, <2>3, <3>1, <4>1, SMT
      <4>2. CASE p * bps <= (p - post) * B
        BY <2>4, <2>5, <3>1, <4>2
      <4> QED BY <3>3, <4>1, <4>2
    <3> QED BY <2>3, <3>1, <3>2, <3>3
  <2> QED BY <2>7, <2>8
<1> QED BY <1>5, <1>6, <1>7

-----------------------------------------------------------------------------
(* The inductive invariant *)

RequestType == [range : Ranges, feeRate : FeeRates, amount : Requests,
                isBaseInput : BOOLEAN]

StateTypes ==
  /\ phase \in {"idle", "sized", "quoted", "sent", "swapped", "done", "failed"}
  /\ request \in RequestType
  /\ feeIn \in TransferFees /\ feeOut \in TransferFees
  /\ resolved \in [in : TransferFees, out : TransferFees]
  /\ poolOut \in U64 /\ spent \in U64 /\ received \in U64 /\ delivered \in U64
  /\ step.tag \in {"none", "ok"}

(* What an exact-output route is sized for, from its first step on. *)
SizedFor ==
  LET sized == ReverseApplyTransferFee(resolved.out, request.amount)
  IN  /\ phase = "idle" => poolOut = 0
      /\ phase \in {"sized", "quoted", "sent", "swapped", "done"} => poolOut = sized
      /\ phase = "failed" /\ poolOut = 0 => sized > U64Max

(* What it is quoted, and what arrives unless the input mint's fee rose.    *)
(* The epoch may turn after the input is sent: what arrived then counts.    *)
QuotedFor ==
  /\ phase \in {"quoted", "sent"} =>
       /\ step = StepOf(request, poolOut) /\ step.tag = "ok"
       /\ spent = ReverseApplyTransferFee(resolved.in, GrossOf(step))
  /\ phase = "sent" /\ NoHigher(feeIn, resolved.in) => received >= GrossOf(step)

(* What an exact-input route has spent, and what of it arrives. *)
SpentFrom ==
  phase \in {"sent", "swapped", "done"} /\ feeIn = resolved.in
    => received = ApplyTransferFee(resolved.in, spent)

(* The step the pool has settled, and what of its output arrives. *)
SettledStep ==
  /\ phase \in {"swapped", "done"} =>
       step = StepOf(request, IF request.isBaseInput THEN received ELSE poolOut)
         /\ step.tag = "ok"
  /\ phase = "done" => delivered = ApplyTransferFee(feeOut, step.amountOut)

(* What each leg has settled is the fee function of what the leg before it *)
(* left, at the fee in force: the properties compare the ends of the route. *)
IInv ==
  /\ StateTypes
  /\ ~request.isBaseInput => SizedFor /\ QuotedFor
  /\ phase = "sized" => ~request.isBaseInput
  /\ request.isBaseInput => SpentFrom
  /\ SettledStep

(* A request is for a range a step may be asked for. *)
LEMMA RequestOperands ==
  ASSUME NEW req \in RequestType
  PROVE  /\ req.range.price \in Prices128 /\ req.range.target \in Prices128
         /\ req.range.liquidity \in U128 /\ req.range.zeroForOne \in BOOLEAN
         /\ AheadOf(req.range.price, req.range.target, req.range.zeroForOne)
         /\ req.feeRate \in FeeRatesBelowOne /\ req.isBaseInput \in BOOLEAN
         /\ req.amount \in U64 /\ req.amount \in Nat \ {0}
<1>1. /\ req.range \in Ranges /\ req.feeRate \in FeeRates
      /\ req.amount \in Requests /\ req.isBaseInput \in BOOLEAN
  BY DEF RequestType
<1>2. U64 \subseteq Nat
  BY QAssumption, SMT DEF U64, U64Max
<1> QED BY <1>1, <1>2, SwapV2Assumption DEF Prices128, AheadOf, FeeRatesBelowOne

(* A step that returns Ok reports a price and u64 amounts, and on an exact  *)
(* input takes no more than it was given.                                   *)
LEMMA StepOfFacts ==
  ASSUME NEW req \in RequestType, NEW amount \in U64
  PROVE  LET s == StepOf(req, amount)
         IN  s.tag = "ok" =>
               /\ s.amountIn \in Nat /\ s.fee \in Nat /\ GrossOf(s) \in Nat
               /\ s.amountOut \in U64 /\ s.next \in Prices128
               /\ AheadOf(s.next, req.range.target, req.range.zeroForOne)
               /\ req.isBaseInput => GrossOf(s) <= amount
<1> DEFINE s == StepOf(req, amount)
<1>1. s.tag = "ok" =>
        StepSound(s, req.range.price, req.range.target, req.range.liquidity, amount,
                  req.feeRate, req.isBaseInput, req.range.zeroForOne)
  BY RequestOperands, StepFacts DEF StepOf
<1> HIDE DEF s
<1>2. SUFFICES ASSUME s.tag = "ok"
               PROVE  /\ s.amountIn \in Nat /\ s.fee \in Nat /\ GrossOf(s) \in Nat
                      /\ s.amountOut \in U64 /\ s.next \in Prices128
                      /\ AheadOf(s.next, req.range.target, req.range.zeroForOne)
                      /\ req.isBaseInput => GrossOf(s) <= amount
  BY DEF s
<1>3. /\ s.amountIn \in U64 /\ s.amountOut \in U64 /\ s.fee \in U64
      /\ s.next \in Prices128
      /\ AheadOf(s.next, req.range.target, req.range.zeroForOne)
      /\ req.isBaseInput => s.amountIn + s.fee <= amount
  BY <1>1, <1>2 DEF StepSound
<1>4. s.amountIn \in Nat /\ s.fee \in Nat
  BY <1>3, QAssumption, SMT DEF U64, U64Max
<1>5. s.amountIn + s.fee \in Nat
  BY <1>4, SMT
<1> QED BY <1>3, <1>4, <1>5 DEF GrossOf

(* The sets of the state are those the lemmas quantify over. *)
LEMMA OperandSets ==
  /\ TransferFees \subseteq TransferFeeType
  /\ U64 \subseteq Nat /\ U64Max \in Nat /\ 0 \in U64
  /\ \A n \in Nat : n <= U64Max => n \in U64
  /\ \A n \in U64 : n <= U64Max
<1>1. /\ U64 \subseteq Nat /\ U64Max \in Nat /\ 0 \in U64
      /\ \A n \in Nat : n <= U64Max => n \in U64
      /\ \A n \in U64 : n <= U64Max
  BY QAssumption, SMT DEF U64, U64Max
<1> QED BY <1>1, SwapV2Assumption

(* What arrives of a u64 transfer is a u64. *)
LEMMA ArrivalU64 ==
  ASSUME NEW fee \in TransferFees, NEW pre \in U64
  PROVE  ApplyTransferFee(fee, pre) \in U64
<1>1. fee \in TransferFeeType /\ pre \in Nat /\ 0 \in Nat
  BY OperandSets, SMT
<1>2. ApplyTransferFee(fee, pre) \in Nat /\ ApplyTransferFee(fee, pre) <= pre
  BY <1>1, TransferLeaves
<1> DEFINE a == ApplyTransferFee(fee, pre)
<1> HIDE DEF a
<1>3. a \in Nat /\ a <= pre /\ pre <= U64Max /\ U64Max \in Nat /\ pre \in Nat
  BY <1>1, <1>2, OperandSets DEF a
<1>4. a <= U64Max
  BY <1>3, SMT
<1> QED BY <1>3, <1>4, OperandSets DEF a

(* A swap starts with nothing sized, sent or delivered. *)
LEMMA InitIInv == Init => IInv
<1> SUFFICES ASSUME Init PROVE IInv
  OBVIOUS
<1>1. phase = "idle" /\ poolOut = 0 /\ step.tag = "none"
  BY DEF Init, NoStep
<1>2. StateTypes
  BY <1>1, OperandSets DEF Init, StateTypes, RequestType
<1> QED BY <1>1, <1>2 DEF IInv, SizedFor, QuotedFor, SpentFrom, SettledStep

(* A failure keeps the invariant if what it leaves behind shows why. *)
LEMMA FailIInv ==
  ASSUME IInv, Fail, phase \notin {"failed"},
         ~request.isBaseInput /\ poolOut = 0 =>
            ReverseApplyTransferFee(resolved.out, request.amount) > U64Max
  PROVE  IInv'
<1>1. /\ phase' = "failed" /\ request' = request /\ feeIn' = feeIn /\ feeOut' = feeOut
      /\ resolved' = resolved /\ poolOut' = poolOut /\ spent' = spent
      /\ received' = received /\ step' = step /\ delivered' = delivered
  BY DEF Fail
<1>2. StateTypes'
  BY <1>1 DEF IInv, StateTypes
<1> QED BY <1>1, <1>2 DEF IInv, SizedFor, QuotedFor, SpentFrom, SettledStep

(* A sized output is not zero: it leaves an amount that is not. *)
LEMMA SizedNotZero ==
  ASSUME IInv, ~request.isBaseInput, phase \in {"sized", "quoted", "sent"}
  PROVE  poolOut # 0
<1>1. /\ request.amount \in Nat \ {0} /\ resolved.out \in TransferFeeType
      /\ poolOut = ReverseApplyTransferFee(resolved.out, request.amount)
  BY RequestOperands, OperandSets DEF IInv, StateTypes, SizedFor
<1> DEFINE post == request.amount
           r    == ReverseApplyTransferFee(resolved.out, post)
<1>2. r \in Nat /\ post <= r
  BY <1>1, ReverseIsLeast
<1> HIDE DEF r, post
<1>3. post \in Nat \ {0}
  BY <1>1 DEF post
<1>4. r # 0
  BY <1>2, <1>3, SMT
<1> QED BY <1>1, <1>4 DEF r, post

(* The sized output is the inverse of the output fee at the requested amount. *)
LEMMA SizeOutputIInv == ASSUME IInv, SizeOutput PROVE IInv'
<1> DEFINE sized == ReverseApplyTransferFee(resolved.out, request.amount)
<1>1. phase = "idle" /\ ~request.isBaseInput
  BY DEF SizeOutput
<1>2. sized \in Nat
  <2>1. request.amount \in Nat /\ resolved.out \in TransferFeeType
    BY RequestOperands, OperandSets DEF IInv, StateTypes
  <2> QED BY <2>1, ReverseIsLeast
<1>3. CASE sized > U64Max /\ Fail
  BY <1>1, <1>3, FailIInv
<1>4. CASE /\ sized <= U64Max
           /\ poolOut' = sized
           /\ phase' = "sized"
           /\ UNCHANGED <<request, feeIn, feeOut, resolved, spent, received,
                          step, delivered>>
  <2>1. sized \in U64
    BY <1>2, <1>4, OperandSets
  <2>2. StateTypes'
    BY <1>4, <2>1 DEF IInv, StateTypes
  <2> QED BY <1>1, <1>4, <2>2 DEF IInv, SizedFor, QuotedFor, SpentFrom, SettledStep
<1> QED BY <1>3, <1>4 DEF SizeOutput

(* The quote is the inverse of the input fee at the input of the step it is made for. *)
LEMMA QuoteInputIInv == ASSUME IInv, QuoteInput PROVE IInv'
<1> DEFINE quote == StepOf(request, poolOut)
           sized == ReverseApplyTransferFee(resolved.in, GrossOf(quote))
<1>1. phase = "sized" /\ ~request.isBaseInput
  BY DEF QuoteInput, IInv
<1>2. poolOut # 0
  BY <1>1, SizedNotZero
<1>3. Fail => IInv'
  BY <1>1, <1>2, FailIInv
<1>4. CASE /\ quote.tag = "ok"
           /\ sized <= U64Max
           /\ spent' = sized
           /\ step' = quote
           /\ phase' = "quoted"
           /\ UNCHANGED <<request, feeIn, feeOut, resolved, poolOut,
                          received, delivered>>
  <2>1. GrossOf(quote) \in Nat
    BY <1>4, StepOfFacts DEF IInv, StateTypes
  <2>2. sized \in Nat
    <3>1. resolved.in \in TransferFeeType
      BY OperandSets DEF IInv, StateTypes
    <3> QED BY <2>1, <3>1, ReverseIsLeast
  <2>3. sized \in U64
    BY <1>4, <2>2, OperandSets
  <2>4. StateTypes'
    BY <1>4, <2>3 DEF IInv, StateTypes
  <2>5. QuotedFor'
    BY <1>4 DEF QuotedFor, StepOf
  <2> QED BY <1>1, <1>4, <2>4, <2>5 DEF IInv, SizedFor, SpentFrom, SettledStep
<1> QED BY <1>3, <1>4 DEF QuoteInput

(* An exact input is signed for as it was requested. *)
LEMMA SignInputIInv == ASSUME IInv, SignInput PROVE IInv'
<1>1. /\ phase = "idle" /\ request.isBaseInput
      /\ spent' = request.amount /\ phase' = "quoted"
      /\ request' = request /\ feeIn' = feeIn /\ feeOut' = feeOut
      /\ resolved' = resolved /\ poolOut' = poolOut /\ received' = received
      /\ step' = step /\ delivered' = delivered
  BY DEF SignInput
<1>2. request.amount \in U64
  BY RequestOperands DEF IInv, StateTypes
<1>3. StateTypes'
  BY <1>1, <1>2 DEF IInv, StateTypes
<1> QED BY <1>1, <1>3 DEF IInv, SpentFrom, SettledStep

(* What is sent by an exact-output route covers the quote after the fee, as *)
(* long as the fee of the input mint has not risen since it was resolved.   *)
LEMMA SendInputIInv == ASSUME IInv, SendInput PROVE IInv'
<1>1. /\ phase = "quoted" /\ phase' = "sent"
      /\ received' = ApplyTransferFee(feeIn, spent)
      /\ request' = request /\ feeIn' = feeIn /\ feeOut' = feeOut
      /\ resolved' = resolved /\ poolOut' = poolOut /\ spent' = spent
      /\ step' = step /\ delivered' = delivered
  BY DEF SendInput
<1>2. StateTypes'
  <2>1. ApplyTransferFee(feeIn, spent) \in U64
    BY ArrivalU64 DEF IInv, StateTypes
  <2> QED BY <1>1, <2>1 DEF IInv, StateTypes
<1>3. ASSUME ~request.isBaseInput
      PROVE  SizedFor' /\ QuotedFor'
  <2>1. SizedFor'
    BY <1>1, <1>3 DEF IInv, SizedFor
  <2>2. ASSUME NoHigher(feeIn, resolved.in)
        PROVE  ApplyTransferFee(feeIn, spent) >= GrossOf(step)
    <3>1. /\ step.tag = "ok" /\ step = StepOf(request, poolOut)
          /\ spent = ReverseApplyTransferFee(resolved.in, GrossOf(step))
      BY <1>1, <1>3 DEF IInv, QuotedFor
    <3>2. GrossOf(step) \in Nat
      BY <3>1, StepOfFacts DEF IInv, StateTypes
    <3>3. feeIn \in TransferFeeType /\ resolved.in \in TransferFeeType
      BY OperandSets DEF IInv, StateTypes
    <3>4. spent \in Nat /\ ApplyTransferFee(resolved.in, spent) >= GrossOf(step)
      BY <3>1, <3>2, <3>3, ReverseIsLeast
    <3> QED BY <2>2, <3>2, <3>3, <3>4, LowerFeeLeaves
  <2>3. QuotedFor'
    BY <1>1, <1>3, <2>2 DEF IInv, QuotedFor, StepOf, GrossOf, NoHigher
  <2> QED BY <2>1, <2>3
<1>4. request.isBaseInput => SpentFrom'
  BY <1>1 DEF SpentFrom
<1>5. SettledStep'
  BY <1>1 DEF SettledStep
<1> QED BY <1>1, <1>2, <1>3, <1>4, <1>5 DEF IInv

(* The pool settles the step on what arrived or on what was sized. *)
LEMMA SwapIInv == ASSUME IInv, Swap PROVE IInv'
<1> DEFINE amount == IF request.isBaseInput THEN received ELSE poolOut
           s      == StepOf(request, amount)
<1>1. phase = "sent"
  BY DEF Swap
<1>2. Fail => IInv'
  <2>1. ~request.isBaseInput => poolOut # 0
    BY <1>1, SizedNotZero
  <2> QED BY <1>1, <2>1, FailIInv
<1>3. CASE /\ s.tag = "ok"
           /\ step' = s
           /\ phase' = "swapped"
           /\ UNCHANGED <<request, feeIn, feeOut, resolved, poolOut, spent,
                          received, delivered>>
  <2>1. StateTypes'
    BY <1>3 DEF IInv, StateTypes
  <2>2. SettledStep'
    BY <1>3 DEF SettledStep, StepOf
  <2>3. ~request.isBaseInput => SizedFor' /\ QuotedFor'
    BY <1>1, <1>3 DEF IInv, SizedFor, QuotedFor
  <2>4. request.isBaseInput => SpentFrom'
    BY <1>1, <1>3 DEF IInv, SpentFrom
  <2> QED BY <1>3, <2>1, <2>2, <2>3, <2>4 DEF IInv
<1> QED BY <1>2, <1>3 DEF Swap

(* The output of the settled step is a u64, and so is what arrives of it. *)
LEMMA DeliverOutputIInv == ASSUME IInv, DeliverOutput PROVE IInv'
<1>1. /\ phase = "swapped" /\ phase' = "done"
      /\ delivered' = ApplyTransferFee(feeOut, step.amountOut)
      /\ request' = request /\ feeIn' = feeIn /\ feeOut' = feeOut
      /\ resolved' = resolved /\ poolOut' = poolOut /\ spent' = spent
      /\ received' = received /\ step' = step
  BY DEF DeliverOutput
<1> DEFINE amount == IF request.isBaseInput THEN received ELSE poolOut
<1>2. step = StepOf(request, amount) /\ step.tag = "ok"
  BY <1>1 DEF IInv, SettledStep
<1>3. amount \in U64
  BY DEF IInv, StateTypes
<1>4. step.amountOut \in U64
  <2> HIDE DEF amount
  <2> QED BY <1>2, <1>3, StepOfFacts DEF IInv, StateTypes
<1>5. StateTypes'
  <2>1. ApplyTransferFee(feeOut, step.amountOut) \in U64
    BY <1>4, ArrivalU64 DEF IInv, StateTypes
  <2> QED BY <1>1, <2>1 DEF IInv, StateTypes
<1>6. SettledStep'
  BY <1>1, <1>2 DEF SettledStep, StepOf
<1>7. ~request.isBaseInput => SizedFor' /\ QuotedFor'
  BY <1>1 DEF IInv, SizedFor, QuotedFor
<1>8. request.isBaseInput => SpentFrom'
  BY <1>1 DEF IInv, SpentFrom
<1> QED BY <1>1, <1>5, <1>6, <1>7, <1>8 DEF IInv

(* The epoch turns at most once, and the fees until then are the resolved   *)
(* ones: what has arrived at the pool arrived under those.                  *)
LEMMA EpochTurnsIInv == ASSUME IInv, EpochTurns PROVE IInv'
<1>1. /\ phase \in {"quoted", "sent"}
      /\ feeIn = resolved.in /\ feeOut = resolved.out
      /\ feeIn' \in TransferFees /\ feeOut' \in TransferFees
      /\ phase' = phase /\ request' = request /\ resolved' = resolved
      /\ poolOut' = poolOut /\ spent' = spent /\ received' = received
      /\ step' = step /\ delivered' = delivered
  BY DEF EpochTurns
<1>2. StateTypes'
  BY <1>1 DEF IInv, StateTypes
<1>3. ASSUME ~request.isBaseInput
      PROVE  SizedFor' /\ QuotedFor'
  <2>1. SizedFor'
    BY <1>1, <1>3 DEF IInv, SizedFor
  <2>2. phase = "sent" => received >= GrossOf(step)
    <3>1. NoHigher(feeIn, resolved.in)
      <4>1. feeIn \in TransferFeeType
        BY OperandSets DEF IInv, StateTypes
      <4>2. feeIn.bps \in Nat /\ feeIn.max \in Nat
        BY <4>1, FeeFields
      <4>3. feeIn.bps <= feeIn.bps /\ feeIn.max <= feeIn.max
        BY <4>2, SMT
      <4> QED BY <1>1, <4>3 DEF NoHigher
    <3> QED BY <1>3, <3>1 DEF IInv, QuotedFor
  <2>3. QuotedFor'
    BY <1>1, <1>3, <2>2 DEF IInv, QuotedFor, StepOf, GrossOf
  <2> QED BY <2>1, <2>3
<1>4. request.isBaseInput => SpentFrom'
  BY <1>1 DEF IInv, SpentFrom
<1>5. SettledStep'
  BY <1>1 DEF SettledStep
<1> QED BY <1>1, <1>2, <1>3, <1>4, <1>5 DEF IInv

(* Every step of the specification keeps the invariant. *)
LEMMA NextIInv == IInv /\ [Next]_vars => IInv'
<1> SUFFICES ASSUME IInv, [Next]_vars PROVE IInv'
  OBVIOUS
<1>1. CASE SizeOutput
  BY <1>1, SizeOutputIInv
<1>2. CASE QuoteInput
  BY <1>2, QuoteInputIInv
<1>3. CASE SignInput
  BY <1>3, SignInputIInv
<1>4. CASE SendInput
  BY <1>4, SendInputIInv
<1>5. CASE Swap
  BY <1>5, SwapIInv
<1>6. CASE DeliverOutput
  BY <1>6, DeliverOutputIInv
<1>7. CASE EpochTurns
  BY <1>7, EpochTurnsIInv
<1>8. CASE UNCHANGED vars
  BY <1>8 DEF vars, IInv, StateTypes, SizedFor, QuotedFor, SpentFrom, SettledStep,
              NoHigher, StepOf, GrossOf
<1> QED BY <1>1, <1>2, <1>3, <1>4, <1>5, <1>6, <1>7, <1>8 DEF Next

(* The invariant of the routed swap, whatever the fees, epochs and ranges. *)
THEOREM Invariance == Spec => []IInv
BY InitIInv, NextIInv, PTL DEF Spec

-----------------------------------------------------------------------------
(* The properties *)

(* Every amount of the route fits a u64 at every point of it. *)
THEOREM TypeCorrectness == Spec => []TypeOK
<1>1. IInv => TypeOK
  BY DEF IInv, StateTypes, TypeOK
<1> QED BY <1>1, Invariance, PTL

(* An exact-output route never under-sizes: the user gets what was asked    *)
(* for, unless the output mint's fee rose since the quote.                  *)
THEOREM NeverUnderSized == Spec => []TargetIsDelivered
<1>1. IInv => TargetIsDelivered
  <2> SUFFICES ASSUME IInv, phase = "done", ~request.isBaseInput,
                      step.amountOut = poolOut, NoHigher(feeOut, resolved.out)
               PROVE  delivered >= request.amount
    BY DEF TargetIsDelivered
  <2>1. /\ delivered = ApplyTransferFee(feeOut, poolOut)
        /\ poolOut = ReverseApplyTransferFee(resolved.out, request.amount)
    BY DEF IInv, SettledStep, SizedFor
  <2>2. /\ feeOut \in TransferFeeType /\ resolved.out \in TransferFeeType
        /\ request.amount \in Nat
    BY RequestOperands, OperandSets DEF IInv, StateTypes
  <2>3. poolOut \in Nat /\ ApplyTransferFee(resolved.out, poolOut) >= request.amount
    BY <2>1, <2>2, ReverseIsLeast
  <2>4. ApplyTransferFee(feeOut, poolOut) >= request.amount
    BY <2>2, <2>3, LowerFeeLeaves
  <2> QED BY <2>1, <2>4
<1> QED BY <1>1, Invariance, PTL

(* What the user was told to sign for covers the gross input of the step.   *)
THEOREM InputAlwaysEnough == Spec => []InputIsEnough
<1>1. IInv => InputIsEnough
  BY DEF IInv, QuotedFor, InputIsEnough
<1> QED BY <1>1, Invariance, PTL

(* The sized output is the least u64 that leaves what was asked for, and    *)
(* the route fails to size it only when no u64 does.                        *)
THEOREM SizedExactly == Spec => []SizedOutputIsLeast
<1>1. IInv => SizedOutputIsLeast
  <2> DEFINE post   == request.amount
             sized  == ReverseApplyTransferFee(resolved.out, post)
             leaves == {pre \in U64 : ApplyTransferFee(resolved.out, pre) >= post}
  <2> SUFFICES ASSUME IInv, ~request.isBaseInput
               PROVE  /\ phase \in {"sized", "quoted", "sent", "swapped", "done"} =>
                           /\ poolOut \in leaves
                           /\ \A pre \in leaves : poolOut <= pre
                      /\ phase = "failed" /\ poolOut = 0 => leaves = {}
    BY DEF SizedOutputIsLeast
  <2>1. resolved.out \in TransferFeeType /\ post \in Nat
    BY RequestOperands, OperandSets DEF IInv, StateTypes
  <2>2. /\ sized \in Nat /\ ApplyTransferFee(resolved.out, sized) >= post
        /\ \A p \in Nat : ApplyTransferFee(resolved.out, p) >= post => sized <= p
    BY <2>1, ReverseIsLeast
  <2>3. \A pre \in leaves : pre \in Nat /\ pre <= U64Max /\ sized <= pre
    BY <2>2, OperandSets
  <2>4. ASSUME phase \in {"sized", "quoted", "sent", "swapped", "done"}
        PROVE  poolOut \in leaves /\ \A pre \in leaves : poolOut <= pre
    <3>1. poolOut = sized /\ poolOut \in U64
      BY <2>4 DEF IInv, StateTypes, SizedFor
    <3> QED BY <2>2, <2>3, <3>1
  <2>5. ASSUME phase = "failed", poolOut = 0
        PROVE  leaves = {}
    <3>1. sized > U64Max
      BY <2>5 DEF IInv, SizedFor
    <3> HIDE DEF sized, leaves
    <3>2. ASSUME NEW pre \in leaves
          PROVE  FALSE
      <4>1. pre \in Nat /\ pre <= U64Max /\ sized <= pre /\ U64Max \in Nat /\ sized \in Nat
        BY <2>2, <2>3, <3>2, OperandSets
      <4> QED BY <3>1, <4>1, SMT
    <3> QED BY <3>2
  <2> QED BY <2>4, <2>5
<1> QED BY <1>1, Invariance, PTL

(* Quoting back what a route delivered, for every pair of transfer fees:    *)
(* the pool is asked for no more output than it sent, and the user for no   *)
(* more input than was given unless the quote ends on the target; then for  *)
(* no more than any amount that leaves the cost of the rest of the way too. *)
THEOREM RoundTripBound == Spec => []QuoteBackBounded
<1>1. IInv => QuoteBackBounded
  <2> DEFINE needed  == ReverseApplyTransferFee(feeOut, delivered)
             backReq == [request EXCEPT !.isBaseInput = FALSE]
             back    == StepOf(backReq, needed)
             r       == request.range
             asked   == ReverseApplyTransferFee(feeIn, GrossOf(back))
             rest    == CostOfWay(step.next, r.target, r.liquidity, request.feeRate,
                                  r.zeroForOne)
  <2> SUFFICES ASSUME IInv, phase = "done", request.isBaseInput, delivered > 0,
                      feeIn = resolved.in, feeOut = resolved.out
               PROVE  /\ needed <= step.amountOut
                      /\ back.tag = "ok" /\ back.next # r.target => asked <= spent
                      /\ back.tag = "ok" /\ back.next = r.target =>
                           \A pre \in U64 :
                             ApplyTransferFee(feeIn, pre) >= GrossOf(step) + rest
                               => asked <= pre
    BY DEF QuoteBackBounded
  <2>1. /\ step = StepOf(request, received) /\ step.tag = "ok"
        /\ delivered = ApplyTransferFee(feeOut, step.amountOut)
        /\ received = ApplyTransferFee(feeIn, spent)
    BY DEF IInv, SettledStep, SpentFrom
  <2>2. /\ feeIn \in TransferFeeType /\ feeOut \in TransferFeeType
        /\ received \in U64 /\ spent \in Nat /\ delivered \in Nat
        /\ request \in RequestType
    BY OperandSets DEF IInv, StateTypes
  <2>3. /\ step.amountOut \in U64 /\ step.amountOut \in Nat
        /\ GrossOf(step) \in Nat /\ GrossOf(step) <= received /\ received \in Nat
    <3>1. step.amountOut \in U64 /\ GrossOf(step) \in Nat /\ GrossOf(step) <= received
      BY <2>1, <2>2, StepOfFacts
    <3> QED BY <2>2, <3>1, OperandSets
  <2>4. needed \in Nat /\ delivered <= needed /\ needed <= step.amountOut
    <3>1. ApplyTransferFee(feeOut, step.amountOut) >= delivered
      BY <2>1, <2>2, SMT
    <3> QED BY <2>2, <2>3, <3>1, ReverseIsLeast
  <2>5. needed \in U64 /\ needed # 0
    <3> HIDE DEF needed
    <3>1. step.amountOut <= U64Max /\ U64Max \in Nat
      BY <2>3, OperandSets
    <3>2. needed # 0 /\ needed <= U64Max
      BY <2>2, <2>3, <2>4, <3>1, SMT
    <3> QED BY <2>4, <3>2, OperandSets
  <2>6. ASSUME back.tag = "ok"
        PROVE  /\ GrossOf(back) \in Nat
               /\ back.next # r.target => GrossOf(back) <= GrossOf(step)
               /\ back.next = r.target => GrossOf(back) <= GrossOf(step) + rest
    <3> DEFINE s == InputStep(r.price, r.target, r.liquidity, received,
                              request.feeRate, r.zeroForOne)
               b == OutputStep(r.price, r.target, r.liquidity, needed,
                               request.feeRate, r.zeroForOne)
    <3>1. step = s
      <4>1. request.isBaseInput = TRUE
        BY <2>2, RequestOperands
      <4> QED BY <2>1, <4>1 DEF StepOf, InputStep
    <3>2. back = b
      <4>1. /\ backReq.range = r /\ backReq.feeRate = request.feeRate
            /\ backReq.isBaseInput = FALSE
        BY <2>2 DEF RequestType
      <4> HIDE DEF backReq, needed
      <4> QED BY <4>1 DEF StepOf, OutputStep
    <3>3. b.tag = "ok" /\ s.tag = "ok" /\ needed <= s.amountOut
      BY <2>1, <2>4, <2>6, <3>1, <3>2
    <3>4. backReq \in RequestType
      BY <2>2 DEF RequestType
    <3>5. GrossOf(back) \in Nat
      <4>1. back.tag = "ok"
        BY <2>6
      <4> HIDE DEF backReq, needed
      <4> QED BY <2>5, <3>4, <4>1, StepOfFacts
    <3>6. /\ r.price \in Prices128 /\ r.target \in Prices128 /\ r.liquidity \in U128
          /\ r.zeroForOne \in BOOLEAN /\ AheadOf(r.price, r.target, r.zeroForOne)
          /\ request.feeRate \in FeeRatesBelowOne
      BY <2>2, RequestOperands
    <3> HIDE DEF needed, back, r
    <3>7. QuoteBound(s, b, r.target, r.liquidity, request.feeRate, r.zeroForOne)
      BY <2>2, <2>5, <3>3, <3>6, QuoteBack
    <3> HIDE DEF s, b
    <3> QED BY <3>1, <3>2, <3>5, <3>7 DEF GrossOf, QuoteBound
  <2>7. ASSUME back.tag = "ok", back.next # r.target
        PROVE  asked <= spent
    <3> DEFINE g == GrossOf(back)
    <3>1. g \in Nat /\ g <= GrossOf(step)
      BY <2>6, <2>7
    <3> HIDE DEF g
    <3>2. received >= g
      BY <2>3, <3>1, SMT
    <3>3. ReverseApplyTransferFee(feeIn, g) <= spent
      BY <2>1, <2>2, <3>1, <3>2, ReverseIsLeast
    <3> QED BY <3>3 DEF g
  <2>8. ASSUME back.tag = "ok", back.next = r.target,
               NEW pre \in U64, ApplyTransferFee(feeIn, pre) >= GrossOf(step) + rest
        PROVE  asked <= pre
    <3> DEFINE g       == GrossOf(back)
               arrival == ApplyTransferFee(feeIn, pre)
    <3>1. g \in Nat /\ g <= GrossOf(step) + rest
      BY <2>6, <2>8
    <3>2. /\ pre \in Nat /\ arrival \in Int /\ rest \in Int
      <4>1. pre \in Nat
        BY OperandSets
      <4>2. arrival \in Int
        BY <2>2, <4>1, TransferLeaves
      <4>3. rest \in Int
        <5>1. step.next \in Prices128 /\ AheadOf(step.next, r.target, r.zeroForOne)
          BY <2>1, <2>2, StepOfFacts
        <5>2. /\ r.target \in Prices128 /\ r.liquidity \in U128
              /\ r.zeroForOne \in BOOLEAN /\ request.feeRate \in FeeRatesBelowOne
          BY <2>2, RequestOperands
        <5> HIDE DEF r
        <5> DEFINE in == AmountIn(step.next, r.target, r.liquidity, r.zeroForOne)
        <5>3. in \in Nat
          BY <5>1, <5>2, RangeNat
        <5>4. rest = in + FeeOnTop(in, request.feeRate)
          BY DEF CostOfWay
        <5> HIDE DEF in, rest
        <5>5. FeeOnTop(in, request.feeRate) \in Nat
          BY <5>2, <5>3, FeeOnTopBracket
        <5> QED BY <5>3, <5>4, <5>5, SMT
      <4> QED BY <4>1, <4>2, <4>3
    <3>3. arrival >= GrossOf(step) + rest
      BY <2>8
    <3> HIDE DEF g, arrival, rest
    <3>4. arrival >= g
      BY <2>3, <3>1, <3>2, <3>3, SMT
    <3>5. ReverseApplyTransferFee(feeIn, g) <= pre
      BY <2>2, <3>1, <3>2, <3>4, ReverseIsLeast DEF arrival
    <3> QED BY <3>5 DEF g
  <2> QED BY <2>4, <2>7, <2>8
<1> QED BY <1>1, Invariance, PTL
=============================================================================
