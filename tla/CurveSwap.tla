------------------------------ MODULE CurveSwap ------------------------------
(***************************************************************************)
(* What a swap promises, with no loop, no current tick and no running      *)
(* liquidity: the price moves along the curve of the book towards the      *)
(* limit, the trader pays at least what the curve asks and receives at     *)
(* most what it gives, and an answer means the amount is used up or the    *)
(* limit met.  The amounts are compared by cross-multiplication, so that   *)
(* no rounding is part of the promise.                                     *)
(***************************************************************************)
EXTENDS TickTable

CONSTANT FEE_RATE_DENOMINATOR_VALUE

VARIABLES
  phase,    \* "idle", "running" or "answered"
  request,  \* book, price, fee rate, amount, limit and the two directions
  limit,    \* the limit in force
  price,
  paid,     \* by the trader so far, the fee included
  got,      \* by the trader so far
  answer

promise == <<phase, request, limit, price, paid, got, answer>>

Init == phase = "idle"

(* The part of paid or got that the request fixes *)
Specified(in, out) == IF request.isBaseInput THEN in ELSE out

Request ==
  /\ phase = "idle" /\ phase' = "running"
  /\ WellFormedBook(request'.book)
  /\ request'.limit # 0 => limit' = request'.limit
  /\ price' = request'.price
  /\ paid' = 0 /\ got' = 0

(* The tick intervals with a price strictly between lo and hi *)
Between(lo, hi) ==
  {t \in CurrentTicks : /\ t < MAX_TICK  => lo < SqrtPriceAt[t + 1]
                        /\ t >= MIN_TICK => SqrtPriceAt[t] < hi}

(* liquidity is worth in of the one token and out of the other from lo to hi *)
PaysForCurve(lo, hi, liquidity, in, out) ==
  LET net == in * (FEE_RATE_DENOMINATOR_VALUE - request.feeRate)
  IN  IF request.zeroForOne
        THEN /\ net * lo * hi >= FEE_RATE_DENOMINATOR_VALUE * liquidity * Q * (hi - lo)
             /\ out * Q <= liquidity * (hi - lo)
        ELSE /\ net * Q >= FEE_RATE_DENOMINATOR_VALUE * liquidity * (hi - lo)
             /\ out * lo * hi <= liquidity * Q * (hi - lo)

(* A stretch of the curve on which the liquidity does not change *)
Trade ==
  /\ phase = "running" /\ phase' = "running"
  /\ IF request.zeroForOne THEN limit <= price' /\ price' <= price
                           ELSE price <= price' /\ price' <= limit
  /\ paid' >= paid /\ got' >= got
  /\ Specified(paid', got') <= request.amount
  /\ \E liquidity \in {request.book.active[t] : t \in CurrentTicks} :
       /\ \A t \in Between(LowerOf(price, price'), UpperOf(price, price')) :
            request.book.active[t] = liquidity
       /\ PaysForCurve(LowerOf(price, price'), UpperOf(price, price'), liquidity,
                       paid' - paid, got' - got)
  /\ UNCHANGED <<request, limit, answer>>

AnswerOk ==
  /\ phase = "running" /\ phase' = "answered"
  /\ price = limit \/ Specified(paid, got) = request.amount
  /\ answer'.tag = "ok"
  /\ answer'.price = price /\ answer'.amountIn = paid /\ answer'.amountOut = got
  /\ UNCHANGED <<request, limit, price, paid, got>>

AnswerFailure ==
  /\ phase = "running" /\ phase' = "answered"
  /\ answer'.tag # "ok"
  /\ UNCHANGED <<request, limit, price, paid, got>>

(* The caller takes the answer and may ask again *)
Acknowledge == phase = "answered" /\ phase' = "idle"

Next == Request \/ Trade \/ AnswerOk \/ AnswerFailure \/ Acknowledge

(* Nothing is promised about the arguments while no swap is asked for *)
Spec == Init /\ [][Next]_promise
=============================================================================
