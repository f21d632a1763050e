---------------------------- MODULE TransferFee -----------------------------
(***************************************************************************)
(* Token-2022 transfer fees (transfer_fee.rs): what is withheld from a     *)
(* transfer, what arrives, and the amount to send for a given arrival.     *)
(* Faulty_X is X with a mistake, used by no specification.                 *)
(***************************************************************************)
EXTENDS FixedPoint

CONSTANT MAX_FEE_BASIS_POINTS   \* also ONE_IN_BASIS_POINTS: a fee of 100%

(* The products of an amount and a basis-point number fit a u128 *)
ASSUME BasisPointsAssumption ==
  MAX_FEE_BASIS_POINTS \in 1 .. Q - 1

(* struct TransferFee, with the cap the on-chain program puts on the rate *)
TransferFeeType == [bps : 0 .. MAX_FEE_BASIS_POINTS, max : U64]

CeilDiv(numerator, denominator) ==
  (numerator + denominator - 1) \div denominator

(* the greater of the two in place of the lesser *)
Faulty_CalculateFee(fee, preFeeAmount) ==
  UpperOf(CeilDiv(preFeeAmount * fee.bps, MAX_FEE_BASIS_POINTS), fee.max)

CalculateFee(fee, preFeeAmount) ==
  LowerOf(CeilDiv(preFeeAmount * fee.bps, MAX_FEE_BASIS_POINTS), fee.max)

ApplyTransferFee(fee, preFeeAmount) ==
  preFeeAmount - CalculateFee(fee, preFeeAmount)

(* the fee of the amount that arrives, not of the amount that is sent *)
Faulty_Reverse_Forward(fee, postFeeAmount) ==
  postFeeAmount + CalculateFee(fee, postFeeAmount)

(* the cap forgotten *)
Faulty_Reverse_NoCap(fee, postFeeAmount) ==
  IF fee.bps = MAX_FEE_BASIS_POINTS
    THEN postFeeAmount + fee.max
    ELSE CeilDiv(postFeeAmount * MAX_FEE_BASIS_POINTS, MAX_FEE_BASIS_POINTS - fee.bps)

(* A value above U64Max is the MaxTokenOverflow error *)
ReverseApplyTransferFee(fee, postFeeAmount) ==
  LET rawPreFee  == CeilDiv(postFeeAmount * MAX_FEE_BASIS_POINTS,
                            MAX_FEE_BASIS_POINTS - fee.bps)
      impliedFee == rawPreFee - postFeeAmount
  IN  IF fee.bps = 0 \/ postFeeAmount = 0 THEN postFeeAmount
      ELSE IF fee.bps = MAX_FEE_BASIS_POINTS THEN postFeeAmount + fee.max
      ELSE IF impliedFee >= fee.max THEN postFeeAmount + fee.max
      ELSE rawPreFee
=============================================================================
