------------------------------- MODULE SwapV2 -------------------------------
(***************************************************************************)
(* A swap between fee-bearing mints, routed as README.md:114-135 and       *)
(* transfer_fee.rs:21-35 describe.  The user's transfer to the pool loses  *)
(* the fee of the input mint, compute_swap_step runs on what arrives, and  *)
(* the pool's transfer to the user loses the fee of the output mint.  An   *)
(* exact-output request is sized backwards first.                          *)
(*                                                                         *)
(* The fee of a mint is the one of the epoch the caller resolved it in     *)
(* (transfer_fee.rs:11-16); the epoch may turn between the quote and the   *)
(* transfers.                                                              *)
(***************************************************************************)
EXTENDS SwapMath, TransferFee

CONSTANTS
  TransferFees,   \* fees a mint may charge
  Ranges,         \* [price, target, liquidity, zeroForOne] a step may be asked for
  FeeRates,       \* fee_rate of the pool
  Requests        \* amounts a user may ask to spend or to receive

ASSUME SwapV2Assumption ==
  /\ TransferFees \subseteq TransferFeeType
  /\ \A r \in Ranges :
       /\ r.price \in 1 .. U128Max /\ r.target \in 1 .. U128Max
       /\ r.liquidity \in U128 /\ r.zeroForOne \in BOOLEAN
       /\ IF r.zeroForOne THEN r.target <= r.price ELSE r.price <= r.target
  /\ FeeRates \subseteq 0 .. FEE_RATE_DENOMINATOR_VALUE - 1
  /\ Requests \subseteq U64 \ {0}

VARIABLES
  phase,      \* "idle", "sized", "quoted", "sent", "swapped", "done", "failed"
  request,    \* what the user asked for and in which pool
  feeIn,      \* transfer fee of the input mint, this epoch
  feeOut,     \* transfer fee of the output mint, this epoch
  resolved,   \* the two fees as the caller resolved them for its quote
  poolOut,    \* output the swap is sized for (exact output)
  spent,      \* what the user signs for
  received,   \* what arrives at the pool
  step,       \* outcome of compute_swap_step
  delivered   \* what arrives at the user

vars == <<phase, request, feeIn, feeOut, resolved, poolOut, spent, received,
          step, delivered>>

NoStep == [tag |-> "none"]

Init ==
  /\ phase = "idle"
  /\ request \in [range : Ranges, feeRate : FeeRates, amount : Requests,
                  isBaseInput : BOOLEAN]
  /\ feeIn \in TransferFees
  /\ feeOut \in TransferFees
  /\ resolved = [in |-> feeIn, out |-> feeOut]
  /\ poolOut = 0
  /\ spent = 0
  /\ received = 0
  /\ step = NoStep
  /\ delivered = 0

StepOf(req, amount) ==
  ComputeSwapStep(req.range.price, req.range.target, req.range.liquidity, amount,
                  req.feeRate, req.isBaseInput, req.range.zeroForOne)

GrossOf(s) == s.amountIn + s.fee

Fail ==
  /\ phase' = "failed"
  /\ UNCHANGED <<request, feeIn, feeOut, resolved, poolOut, spent, received,
                 step, delivered>>

(* Exact output: the pool must send what leaves the requested amount *)
SizeOutput ==
  /\ phase = "idle" /\ ~request.isBaseInput
  /\ \E sized \in {ReverseApplyTransferFee(resolved.out, request.amount)} :
       \/ sized > U64Max /\ Fail
       \/ /\ sized <= U64Max
          /\ poolOut' = sized
          /\ phase' = "sized"
          /\ UNCHANGED <<request, feeIn, feeOut, resolved, spent, received,
                         step, delivered>>

(* ... and the user must send what leaves the input that output costs *)
QuoteInput ==
  /\ phase = "sized"
  /\ \E quote \in {StepOf(request, poolOut)} :
       \/ quote.tag # "ok" /\ Fail
       \/ /\ quote.tag = "ok"
          /\ \E sized \in {ReverseApplyTransferFee(resolved.in, GrossOf(quote))} :
               \/ sized > U64Max /\ Fail
               \/ /\ sized <= U64Max
                  /\ spent' = sized
                  /\ step' = quote
                  /\ phase' = "quoted"
                  /\ UNCHANGED <<request, feeIn, feeOut, resolved, poolOut,
                                 received, delivered>>

(* Exact input: the user signs for the requested amount *)
SignInput ==
  /\ phase = "idle" /\ request.isBaseInput
  /\ spent' = request.amount
  /\ phase' = "quoted"
  /\ UNCHANGED <<request, feeIn, feeOut, resolved, poolOut, received, step,
                 delivered>>

(* Token-2022 withholds the fee of the epoch the transfer happens in *)
SendInput ==
  /\ phase = "quoted"
  /\ received' = ApplyTransferFee(feeIn, spent)
  /\ phase' = "sent"
  /\ UNCHANGED <<request, feeIn, feeOut, resolved, poolOut, spent, step, delivered>>

(* Exact input: the step runs on what arrived.  Exact output: it runs on    *)
(* the sized output, and needs the input it was quoted at.                  *)
Swap ==
  /\ phase = "sent"
  /\ \E s \in {StepOf(request, IF request.isBaseInput THEN received ELSE poolOut)} :
       \/ s.tag # "ok" /\ Fail
       \/ s.tag = "ok" /\ ~request.isBaseInput /\ received < GrossOf(s) /\ Fail
       \/ /\ s.tag = "ok"
          /\ request.isBaseInput \/ received >= GrossOf(s)
          /\ step' = s
          /\ phase' = "swapped"
          /\ UNCHANGED <<request, feeIn, feeOut, resolved, poolOut, spent,
                         received, delivered>>

DeliverOutput ==
  /\ phase = "swapped"
  /\ delivered' = ApplyTransferFee(feeOut, step.amountOut)
  /\ phase' = "done"
  /\ UNCHANGED <<request, feeIn, feeOut, resolved, poolOut, spent, received, step>>

(* A new epoch brings other fees; the caller's quote keeps the old ones *)
EpochTurns ==
  /\ phase \in {"quoted", "sent"}
  /\ feeIn = resolved.in /\ feeOut = resolved.out
  /\ \E newIn \in TransferFees, newOut \in TransferFees :
       /\ <<newIn, newOut>> # <<feeIn, feeOut>>
       /\ feeIn' = newIn /\ feeOut' = newOut
  /\ UNCHANGED <<phase, request, resolved, poolOut, spent, received, step, delivered>>

Next ==
  \/ SizeOutput \/ QuoteInput \/ SignInput \/ SendInput
  \/ Swap \/ DeliverOutput \/ EpochTurns

Spec == Init /\ [][Next]_vars

-----------------------------------------------------------------------------
(* Properties *)

NoHigher(fee, than) == fee.bps <= than.bps /\ fee.max <= than.max

(* Types of every variable. *)
TypeOK ==
  /\ phase \in {"idle", "sized", "quoted", "sent", "swapped", "done", "failed"}
  /\ feeIn \in TransferFees /\ feeOut \in TransferFees
  /\ resolved \in [in : TransferFees, out : TransferFees]
  /\ poolOut \in U64 /\ spent \in U64 /\ received \in U64 /\ delivered \in U64
  /\ step.tag \in {"none", "ok"}

(***************************************************************************)
(* tests/properties.rs:227-243: exact-output routing never under-sizes.    *)
(* The user gets at least the amount asked for whenever the step could     *)
(* pay the sized output, as long as no fee rose since the quote.           *)
(***************************************************************************)
TargetIsDelivered ==
  phase = "done" /\ ~request.isBaseInput /\ step.amountOut = poolOut
    /\ NoHigher(feeOut, resolved.out)
      => delivered >= request.amount

(***************************************************************************)
(* ... and the input side: what the user was told to sign for still covers *)
(* the gross input of the step after the transfer fee, as long as that fee *)
(* did not rise.  The route then cannot fail for want of input.            *)
(***************************************************************************)
InputIsEnough ==
  phase = "sent" /\ ~request.isBaseInput /\ NoHigher(feeIn, resolved.in)
    => received >= GrossOf(step)

(***************************************************************************)
(* transfer_fee.rs:87-93: the sized output is the smallest u64 that leaves *)
(* the requested amount, and the error is returned only when none does.    *)
(***************************************************************************)
SizedOutputIsLeast ==
  ~request.isBaseInput =>
    LET leaves == {pre \in U64 : ApplyTransferFee(resolved.out, pre) >= request.amount}
    IN  /\ phase \in {"sized", "quoted", "sent", "swapped", "done"} =>
             /\ poolOut \in leaves
             /\ \A pre \in leaves : poolOut <= pre
        /\ phase = "failed" /\ poolOut = 0 => leaves = {}

(***************************************************************************)
(* Quoting back, under the same fees, for exactly what an exact-input      *)
(* route delivered: both transfer fees and both directions of the step     *)
(* must round consistently.  The pool is never asked for more output than  *)
(* it sent.  A quote whose step stops short of the target needs no more    *)
(* input than the route was given.  One that ends on the target may need   *)
(* more, since the range's output is floored (swap_math.rs:75-82): it then *)
(* needs no more than any amount which leaves, after the transfer fee, the *)
(* gross input of the step and the cost of the rest of the way.            *)
(***************************************************************************)
QuoteBackBounded ==
  phase = "done" /\ request.isBaseInput /\ delivered > 0
    /\ feeIn = resolved.in /\ feeOut = resolved.out =>
      LET r      == request.range
          needed == ReverseApplyTransferFee(feeOut, delivered)
          back   == StepOf([request EXCEPT !.isBaseInput = FALSE], needed)
          asked  == ReverseApplyTransferFee(feeIn, GrossOf(back))
          rest   == CostOfWay(step.next, r.target, r.liquidity, request.feeRate,
                              r.zeroForOne)
      IN  /\ needed <= step.amountOut
          /\ back.tag = "ok" /\ back.next # r.target => asked <= spent
          /\ back.tag = "ok" /\ back.next = r.target =>
               \A pre \in U64 :
                 ApplyTransferFee(feeIn, pre) >= GrossOf(step) + rest => asked <= pre
=============================================================================
