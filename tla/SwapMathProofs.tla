--------------------------- MODULE SwapMathProofs ---------------------------
(***************************************************************************)
(* What one swap step returns, for every width, liquidity, price and       *)
(* amount: first what the rounding operators of FixedPoint return and the  *)
(* token amounts of a price move, then the price an amount reaches, then   *)
(* compute_swap_step.                                                      *)
(***************************************************************************)
EXTENDS SwapMath, ArithmeticProofs

-----------------------------------------------------------------------------
(* Rounding *)

(* MulDivFloor is the greatest r with r * denom <= val * num. *)
LEMMA MulDivFloorBracket ==
  ASSUME NEW val \in Nat, NEW num \in Nat, NEW denom \in Nat \ {0}
  PROVE  LET r == MulDivFloor(val, num, denom)
         IN  /\ r \in Nat
             /\ r * denom <= val * num
             /\ val * num < r * denom + denom
<1> DEFINE p == val * num
<1>1. p \in Nat
  BY ProductNat
<1> HIDE DEF p
<1>2. /\ p \div denom \in Nat
      /\ denom * (p \div denom) <= p
      /\ p < denom * (p \div denom) + denom
  BY <1>1, DivBracket
<1>3. (p \div denom) * denom = denom * (p \div denom)
  BY <1>2, SMT
<1> QED BY <1>2, <1>3 DEF MulDivFloor, p

(* MulDivCeil is the least r with val * num <= r * denom. *)
LEMMA MulDivCeilBracket ==
  ASSUME NEW val \in Nat, NEW num \in Nat, NEW denom \in Nat \ {0}
  PROVE  LET r == MulDivCeil(val, num, denom)
         IN  /\ r \in Nat
             /\ val * num <= r * denom
             /\ r * denom < val * num + denom
<1> DEFINE p == val * num
<1>1. p \in Nat
  BY ProductNat
<1> HIDE DEF p
<1> DEFINE s == p + (denom - 1)
<1>2. s \in Nat
  BY <1>1, SMT
<1> DEFINE r == s \div denom
<1>3. r \in Nat /\ denom * r <= s /\ s < denom * r + denom
  BY <1>2, DivBracket
<1>4. r * denom = denom * r
  <2> HIDE DEF r
  <2> QED BY <1>3, SMT
<1>5. p <= r * denom /\ r * denom < p + denom
  <2> HIDE DEF r
  <2> QED BY <1>1, <1>3, <1>4, SMT DEF s
<1> QED BY <1>3, <1>5 DEF MulDivCeil, p

(* DivRoundingUp is the least r with x <= r * y. *)
LEMMA DivRoundingUpBracket ==
  ASSUME NEW x \in Nat, NEW y \in Nat \ {0}
  PROVE  LET r == DivRoundingUp(x, y)
         IN  /\ r \in Nat
             /\ x <= r * y
             /\ r * y < x + y
<1> DEFINE q == x \div y
           m == x % y
<1>1. q \in Nat /\ m \in 0 .. y - 1 /\ x = y * q + m
  BY DivBracket, SMT
<1>2. DivRoundingUp(x, y) = q + (IF m > 0 THEN 1 ELSE 0)
  BY DEF DivRoundingUp
<1> HIDE DEF q, m
<1>3. CASE m > 0
  <2>1. DivRoundingUp(x, y) = q + 1
    BY <1>2, <1>3
  <2>2. (q + 1) * y = y * q + y
    BY <1>1, SMT
  <2> QED BY <1>1, <1>3, <2>1, <2>2, SMT
<1>4. CASE ~(m > 0)
  <2>1. DivRoundingUp(x, y) = q
    BY <1>1, <1>2, <1>4, SMT
  <2>2. q * y = y * q /\ m = 0
    BY <1>1, <1>4, SMT
  <2> QED BY <1>1, <2>1, <2>2, SMT
<1> QED BY <1>3, <1>4

(* A rounded-up quotient is at most any bound that covers the dividend. *)
LEMMA MulDivCeilLeast ==
  ASSUME NEW val \in Nat, NEW num \in Nat, NEW denom \in Nat \ {0},
         NEW bound \in Nat, val * num <= bound * denom
  PROVE  MulDivCeil(val, num, denom) <= bound
<1> DEFINE r == MulDivCeil(val, num, denom)
<1>1. r \in Nat /\ r * denom < val * num + denom
  BY MulDivCeilBracket
<1>2. val * num \in Nat
  BY ProductNat
<1> HIDE DEF r
<1>3. denom * r < denom * (bound + 1)
  BY <1>1, <1>2, SMT
<1>4. r < bound + 1
  BY <1>1, <1>3, ProductCancelStrict, SMT
<1> QED BY <1>1, <1>4, SMT DEF r

(* The width of a price pair does not depend on the order it arrives in. *)
LEMMA SortedPair ==
  ASSUME NEW a \in Nat, NEW b \in Nat
  PROVE  /\ LowerOf(a, b) \in Nat
         /\ UpperOf(a, b) \in Nat
         /\ LowerOf(a, b) <= UpperOf(a, b)
         /\ LowerOf(a, b) = LowerOf(b, a)
         /\ UpperOf(a, b) = UpperOf(b, a)
         /\ a <= b => LowerOf(a, b) = a /\ UpperOf(a, b) = b
         /\ LowerOf(a, b) * UpperOf(a, b) = a * b
BY SMT DEF LowerOf, UpperOf

-----------------------------------------------------------------------------
(* Token amounts *)

Width(a, b) == UpperOf(a, b) - LowerOf(a, b)

(* The width of a price range is the same from either end. *)
LEMMA WidthNat ==
  ASSUME NEW a \in Nat, NEW b \in Nat
  PROVE  /\ Width(a, b) \in Nat
         /\ Width(a, b) = Width(b, a)
         /\ a <= b => Width(a, b) = b - a
BY SMT DEF Width, UpperOf, LowerOf

(* The token-1 amount rounded up is the least r with L * width <= r * Q. *)
LEMMA Delta1Up ==
  ASSUME NEW a \in Nat, NEW b \in Nat, NEW L \in Nat
  PROVE  LET r == DeltaAmount1(a, b, L, TRUE)
         IN  /\ r \in Nat
             /\ L * Width(a, b) <= r * Q
             /\ r * Q < L * Width(a, b) + Q
<1>1. DeltaAmount1(a, b, L, TRUE) = MulDivCeil(L, Width(a, b), Q)
  BY DEF DeltaAmount1, Width
<1>2. Width(a, b) \in Nat /\ Q \in Nat \ {0}
  BY WidthNat, QAssumption, SMT
<1> QED BY <1>1, <1>2, MulDivCeilBracket

(* The token-1 amount rounded down is the greatest r with r * Q <= L * width. *)
LEMMA Delta1Down ==
  ASSUME NEW a \in Nat, NEW b \in Nat, NEW L \in Nat
  PROVE  LET r == DeltaAmount1(a, b, L, FALSE)
         IN  /\ r \in Nat
             /\ r * Q <= L * Width(a, b)
             /\ L * Width(a, b) < r * Q + Q
<1>1. DeltaAmount1(a, b, L, FALSE) = MulDivFloor(L, Width(a, b), Q)
  BY DEF DeltaAmount1, Width
<1>2. Width(a, b) \in Nat /\ Q \in Nat \ {0}
  BY WidthNat, QAssumption, SMT
<1> QED BY <1>1, <1>2, MulDivFloorBracket

(* The token-0 amount rounded up covers the curve, and no smaller amount does. *)
LEMMA Delta0Up ==
  ASSUME NEW a \in Nat \ {0}, NEW b \in Nat \ {0}, NEW L \in Nat
  PROVE  LET r == DeltaAmount0(a, b, L, TRUE)
         IN  /\ r \in Nat
             /\ (L * Q) * Width(a, b) <= r * (a * b)
             /\ \A c \in Nat : (L * Q) * Width(a, b) <= c * (a * b) => r <= c
<1> DEFINE lo == LowerOf(a, b)
           hi == UpperOf(a, b)
           w  == Width(a, b)
           n  == L * Q
           x  == MulDivCeil(n, w, hi)
           r  == DivRoundingUp(x, lo)
<1>1. DeltaAmount0(a, b, L, TRUE) = r
  BY DEF DeltaAmount0, Width
<1>2. /\ lo \in Nat \ {0} /\ hi \in Nat \ {0}
      /\ w \in Nat /\ n \in Nat
      /\ lo * hi = a * b
  BY WidthNat, SortedPair, ProductNat, QAssumption, SMT DEF LowerOf, UpperOf
<1> HIDE DEF lo, hi, w, n
<1>3. x \in Nat /\ n * w <= x * hi /\ x * hi < n * w + hi
  BY <1>2, MulDivCeilBracket
<1>4. ASSUME NEW y \in Nat, n * w <= y * hi
      PROVE  x <= y
  BY <1>2, <1>4, MulDivCeilLeast
<1> HIDE DEF x
<1>5. r \in Nat /\ x <= r * lo /\ r * lo < x + lo
  BY <1>2, <1>3, DivRoundingUpBracket
<1> HIDE DEF r
<1>6. n * w <= r * (a * b)
  <2>1. r * lo \in Nat
    BY <1>2, <1>5, ProductNat
  <2>2. x * hi <= (r * lo) * hi
    BY <1>2, <1>3, <1>5, <2>1, ProductMonotone
  <2>3. (r * lo) * hi = r * (lo * hi)
    BY <1>2, <1>5, SMT
  <2>4. n * w \in Nat /\ x * hi \in Nat /\ r * (lo * hi) \in Nat
    BY <1>2, <1>3, <1>5, ProductNat
  <2> QED BY <1>2, <1>3, <2>2, <2>3, <2>4, SMT
<1>7. ASSUME NEW c \in Nat, n * w <= c * (a * b)
      PROVE  r <= c
  <2>1. c * lo \in Nat
    BY <1>2, ProductNat
  <2>2. c * (a * b) = (c * lo) * hi
    BY <1>2, SMT
  <2>3. x <= c * lo
    BY <1>4, <1>7, <2>1, <2>2
  <2>4. lo * r < lo * (c + 1)
    BY <1>2, <1>3, <1>5, <2>3, SMT
  <2>5. r < c + 1
    BY <1>2, <1>5, <2>4, ProductCancelStrict, SMT
  <2> QED BY <1>5, <2>5, SMT
<1> QED BY <1>1, <1>5, <1>6, <1>7 DEF w, n

(* The token-0 amount rounded down is covered by the curve, and no greater *)
(* amount is.                                                              *)
LEMMA Delta0Down ==
  ASSUME NEW a \in Nat \ {0}, NEW b \in Nat \ {0}, NEW L \in Nat
  PROVE  LET r == DeltaAmount0(a, b, L, FALSE)
         IN  /\ r \in Nat
             /\ r * (a * b) <= (L * Q) * Width(a, b)
             /\ \A c \in Nat : c * (a * b) <= (L * Q) * Width(a, b) => c <= r
<1> DEFINE lo == LowerOf(a, b)
           hi == UpperOf(a, b)
           w  == Width(a, b)
           n  == L * Q
           x  == MulDivFloor(n, w, hi)
           r  == x \div lo
<1>1. DeltaAmount0(a, b, L, FALSE) = r
  BY DEF DeltaAmount0, Width
<1>2. /\ lo \in Nat \ {0} /\ hi \in Nat \ {0}
      /\ w \in Nat /\ n \in Nat
      /\ lo * hi = a * b
  BY WidthNat, SortedPair, ProductNat, QAssumption, SMT DEF LowerOf, UpperOf
<1> HIDE DEF lo, hi, w, n
<1>3. x \in Nat /\ x * hi <= n * w /\ n * w < x * hi + hi
  BY <1>2, MulDivFloorBracket
<1> HIDE DEF x
<1>5. r \in Nat /\ lo * r <= x /\ x < lo * r + lo
  BY <1>2, <1>3, DivBracket
<1> HIDE DEF r
<1>6. r * (a * b) <= n * w
  <2>1. lo * r \in Nat
    BY <1>2, <1>5, ProductNat
  <2>2. (lo * r) * hi <= x * hi
    BY <1>2, <1>3, <1>5, <2>1, ProductMonotone
  <2>3. (lo * r) * hi = r * (lo * hi)
    BY <1>2, <1>5, SMT
  <2>4. n * w \in Nat /\ x * hi \in Nat /\ r * (lo * hi) \in Nat
    BY <1>2, <1>3, <1>5, ProductNat
  <2> QED BY <1>2, <1>3, <2>2, <2>3, <2>4, SMT
<1>7. ASSUME NEW c \in Nat, c * (a * b) <= n * w
      PROVE  c <= r
  <2>1. c * lo \in Nat
    BY <1>2, ProductNat
  <2>2. c * (a * b) = hi * (c * lo)
    BY <1>2, SMT
  <2>3. hi * (c * lo) < hi * (x + 1)
    BY <1>2, <1>3, <1>7, <2>2, SMT
  <2>4. c * lo < x + 1
    BY <1>2, <1>3, <2>1, <2>3, ProductCancelStrict, SMT
  <2>5. lo * c < lo * (r + 1)
    BY <1>2, <1>3, <1>5, <2>1, <2>4, SMT
  <2>6. c < r + 1
    BY <1>2, <1>5, <2>5, ProductCancelStrict, SMT
  <2> QED BY <1>5, <2>6, SMT
<1> QED BY <1>1, <1>5, <1>6, <1>7 DEF w, n

(* Both token-1 amounts of a range, with its prices in order. *)
LEMMA Range1 ==
  ASSUME NEW lo \in Nat, NEW hi \in Nat, NEW L \in Nat, lo <= hi
  PROVE  /\ DeltaAmount1(lo, hi, L, TRUE) \in Nat
         /\ DeltaAmount1(lo, hi, L, FALSE) \in Nat
         /\ L * (hi - lo) <= DeltaAmount1(lo, hi, L, TRUE) * Q
         /\ DeltaAmount1(lo, hi, L, FALSE) * Q <= L * (hi - lo)
         /\ \A c \in Nat : L * (hi - lo) <= c * Q => DeltaAmount1(lo, hi, L, TRUE) <= c
         /\ \A c \in Nat : c * Q <= L * (hi - lo) => c <= DeltaAmount1(lo, hi, L, FALSE)
         /\ \A c \in Nat : c < DeltaAmount1(lo, hi, L, TRUE) => c * Q < L * (hi - lo)
         /\ \A c \in Nat : c < DeltaAmount1(lo, hi, L, FALSE) => c * Q < L * (hi - lo)
<1> DEFINE w  == L * (hi - lo)
           up == DeltaAmount1(lo, hi, L, TRUE)
           dn == DeltaAmount1(lo, hi, L, FALSE)
<1>1. Width(lo, hi) = hi - lo /\ Q \in Nat \ {0} /\ w \in Nat
  BY WidthNat, QAssumption, ProductNat, SMT
<1>2. up \in Nat /\ w <= up * Q /\ up * Q < w + Q
  BY <1>1, Delta1Up
<1>3. dn \in Nat /\ dn * Q <= w /\ w < dn * Q + Q
  BY <1>1, Delta1Down
<1> HIDE DEF w, up, dn
<1>4. ASSUME NEW c \in Nat, w <= c * Q
      PROVE  up <= c
  <2>1. Q * up < Q * (c + 1)
    BY <1>1, <1>2, <1>4, SMT
  <2>2. up < c + 1
    BY <1>1, <1>2, <2>1, ProductCancelStrict, SMT
  <2> QED BY <1>2, <2>2, SMT
<1>5. ASSUME NEW c \in Nat, c * Q <= w
      PROVE  c <= dn
  <2>1. Q * c < Q * (dn + 1)
    BY <1>1, <1>3, <1>5, SMT
  <2>2. c < dn + 1
    BY <1>1, <1>3, <2>1, ProductCancelStrict, SMT
  <2> QED BY <1>3, <2>2, SMT
<1>6. ASSUME NEW c \in Nat, c < up
      PROVE  c * Q < w
  <2>1. c * Q \in Int
    BY <1>1, SMT
  <2> QED BY <1>1, <1>2, <1>4, <1>6, <2>1, SMT
<1>7. ASSUME NEW c \in Nat, c < dn
      PROVE  c * Q < w
  <2>1. (c + 1) * Q <= dn * Q
    BY <1>1, <1>3, <1>7, ProductMonotone, SMT
  <2>2. (c + 1) * Q = c * Q + Q /\ c * Q \in Int /\ dn * Q \in Int
    BY <1>1, <1>3, SMT
  <2> QED BY <1>1, <1>3, <2>1, <2>2, SMT
<1> QED BY <1>2, <1>3, <1>4, <1>5, <1>6, <1>7 DEF w, up, dn

(* Both token-0 amounts of a range, with its prices in order. *)
LEMMA Range0 ==
  ASSUME NEW lo \in Nat \ {0}, NEW hi \in Nat \ {0}, NEW L \in Nat, lo <= hi
  PROVE  /\ DeltaAmount0(lo, hi, L, TRUE) \in Nat
         /\ DeltaAmount0(lo, hi, L, FALSE) \in Nat
         /\ (L * Q) * (hi - lo) <= DeltaAmount0(lo, hi, L, TRUE) * (lo * hi)
         /\ DeltaAmount0(lo, hi, L, FALSE) * (lo * hi) <= (L * Q) * (hi - lo)
         /\ \A c \in Nat : (L * Q) * (hi - lo) <= c * (lo * hi)
                => DeltaAmount0(lo, hi, L, TRUE) <= c
         /\ \A c \in Nat : c * (lo * hi) <= (L * Q) * (hi - lo)
                => c <= DeltaAmount0(lo, hi, L, FALSE)
         /\ \A c \in Nat : c < DeltaAmount0(lo, hi, L, TRUE)
                => c * (lo * hi) < (L * Q) * (hi - lo)
         /\ \A c \in Nat : c < DeltaAmount0(lo, hi, L, FALSE)
                => c * (lo * hi) < (L * Q) * (hi - lo)
<1> DEFINE m  == lo * hi
           w  == (L * Q) * (hi - lo)
           up == DeltaAmount0(lo, hi, L, TRUE)
           dn == DeltaAmount0(lo, hi, L, FALSE)
<1>1. Width(lo, hi) = hi - lo /\ m \in Nat \ {0} /\ w \in Nat
  <2>1. L * Q \in Nat /\ Width(lo, hi) = hi - lo /\ hi - lo \in Nat
    BY WidthNat, QAssumption, ProductNat, SMT
  <2>2. m \in Nat \ {0}
    BY SMT
  <2> QED BY <2>1, <2>2, ProductNat
<1>2. up \in Nat /\ w <= up * m /\ \A c \in Nat : w <= c * m => up <= c
  BY <1>1, Delta0Up
<1>3. dn \in Nat /\ dn * m <= w /\ \A c \in Nat : c * m <= w => c <= dn
  BY <1>1, Delta0Down
<1> HIDE DEF m, w, up, dn
<1>4. ASSUME NEW c \in Nat, c < up
      PROVE  c * m < w
  <2>1. c * m \in Int
    BY <1>1, SMT
  <2> QED BY <1>1, <1>2, <1>4, <2>1, SMT
<1>5. ASSUME NEW c \in Nat, c < dn
      PROVE  c * m < w
  <2>1. (c + 1) * m <= dn * m
    BY <1>1, <1>3, <1>5, ProductMonotone, SMT
  <2>2. (c + 1) * m = c * m + m /\ c * m \in Int /\ dn * m \in Int
    BY <1>1, <1>3, SMT
  <2> QED BY <1>1, <1>3, <2>1, <2>2, SMT
<1> QED BY <1>2, <1>3, <1>4, <1>5 DEF m, w, up, dn

-----------------------------------------------------------------------------
(* Next prices *)

Prices128 == 1 .. U128Max

(* amount * sqrt_price fits a U256: the checked_mul of                     *)
(* get_next_sqrt_price_from_amount_0_rounding_up never takes its fallback. *)
LEMMA ProductFitsU256 ==
  ASSUME NEW amount \in U64, NEW p \in U128
  PROVE  amount * p <= U256Max
<1>1. Q \in Nat /\ Q >= 2 /\ amount \in Nat /\ p \in Nat
  BY QAssumption, SMT DEF U64, U128, U64Max, U128Max
<1>2. amount * p <= amount * (Q * Q)
  <2>1. Q * Q \in Nat /\ p <= Q * Q
    BY <1>1, ProductNat, SMT DEF U128, U128Max
  <2> QED BY <1>1, <2>1, ProductMonotone
<1>3. amount * (Q * Q) <= (Q - 1) * (Q * Q)
  <2>1. Q * Q \in Nat /\ amount <= Q - 1 /\ Q - 1 \in Int
    BY <1>1, ProductNat, SMT DEF U64, U64Max
  <2> QED BY <1>1, <2>1, ProductMonotone
<1>4. (Q - 1) * (Q * Q) <= Q * Q * Q * Q - 1
  <2> DEFINE c == Q * Q
  <2>1. c \in Nat /\ c >= 1 /\ c >= Q
    BY <1>1, SMT
  <2>2. Q * Q * Q * Q = c * c
    BY <1>1, SMT
  <2> HIDE DEF c
  <2>3. (Q - 1) * c <= c * c - c
    <3>1. (Q - 1) * c <= (c - 1) * c
      BY <1>1, <2>1, ProductMonotone, SMT
    <3>2. (c - 1) * c = c * c - c
      BY <2>1, SMT
    <3> QED BY <3>1, <3>2
  <2>4. c * c - c <= c * c - 1
    BY <2>1, SMT
  <2>5. (Q - 1) * c \in Int /\ c * c \in Int
    BY <1>1, <2>1, SMT
  <2>6. (Q - 1) * c <= c * c - 1
    BY <2>1, <2>3, <2>4, <2>5, SMT
  <2> QED BY <2>2, <2>6 DEF c
<1>5. amount * p \in Int /\ amount * (Q * Q) \in Int /\ (Q - 1) * (Q * Q) \in Int
      /\ Q * Q * Q * Q - 1 \in Int
  BY <1>1, SMT
<1> QED BY <1>2, <1>3, <1>4, <1>5, SMT DEF U256Max

(* Token 0 in: the price falls, is rounded up, and the amount still covers  *)
(* the move; an amount short of the target's leaves the price above it.     *)
LEMMA NextPrice0Add ==
  ASSUME NEW p \in Prices128, NEW L \in Nat \ {0}, NEW amount \in U64 \ {0}
  PROVE  LET n == L * Q
             q == NextSqrtPriceFromAmount0RoundingUp(p, L, amount, TRUE)
         IN  /\ q \in Nat \ {0}
             /\ q <= p
             /\ n * (p - q) <= amount * (q * p)
             /\ \A t \in Nat : amount * (t * p) < n * (p - t) => t < q
<1> DEFINE n == L * Q
           x == amount * p
           q == MulDivCeil(n, p, n + x)
<1>1. p \in Nat \ {0} /\ p \in U128 /\ Q \in Nat \ {0} /\ amount \in Nat \ {0}
  BY QAssumption, SMT DEF Prices128, U128, U128Max, U64, U64Max
<1>2. x <= U256Max
  BY <1>1, ProductFitsU256
<1>3. NextSqrtPriceFromAmount0RoundingUp(p, L, amount, TRUE) = q
  <2>1. amount # 0
    BY <1>1
  <2> QED BY <1>2, <2>1 DEF NextSqrtPriceFromAmount0RoundingUp
<1>4. n \in Nat \ {0} /\ x \in Nat \ {0}
  BY <1>1, SMT
<1> HIDE DEF n, x
<1>5. q \in Nat /\ n * p <= q * (n + x)
  <2>1. n + x \in Nat \ {0}
    BY <1>4, SMT
  <2> QED BY <1>1, <1>4, <2>1, MulDivCeilBracket
<1>6. q <= p
  <2>1. n * p <= p * (n + x)
    BY <1>1, <1>4, SMT
  <2> QED BY <1>1, <1>4, <2>1, MulDivCeilLeast, SMT
<1> HIDE DEF q
<1>7. q # 0
  <2>1. n * p > 0
    BY <1>1, <1>4, SMT
  <2>2. 0 * (n + x) = 0 /\ n * p \in Int
    BY <1>1, <1>4, SMT
  <2>3. CASE q = 0
    <3>1. n * p <= 0
      BY <1>5, <2>2, <2>3
    <3> QED BY <2>1, <2>2, <3>1, SMT
  <2> QED BY <2>3
<1>8. n * (p - q) <= amount * (q * p)
  <2>1. q * (n + x) = n * q + q * x /\ n * (p - q) = n * p - n * q
    BY <1>1, <1>4, <1>5, SMT
  <2>2. q * x = amount * (q * p)
    BY <1>1, <1>5, SMT DEF x
  <2>3. n * p \in Int /\ n * q \in Int /\ q * x \in Int
    BY <1>1, <1>4, <1>5, SMT
  <2> QED BY <1>5, <2>1, <2>2, <2>3, SMT
<1>9. ASSUME NEW t \in Nat, amount * (t * p) < n * (p - t)
      PROVE  t < q
  <2>1. CASE q <= t
    <3>1. q * (n + x) <= t * (n + x)
      BY <1>4, <1>5, <2>1, ProductMonotone, SMT
    <3>2. t * (n + x) = n * t + t * x /\ n * (p - t) = n * p - n * t
      BY <1>1, <1>4, SMT
    <3>3. t * x = amount * (t * p)
      BY <1>1, SMT DEF x
    <3>4. n * p \in Int /\ n * t \in Int /\ t * x \in Int /\ q * (n + x) \in Int
      BY <1>1, <1>4, <1>5, SMT
    <3> QED BY <1>5, <1>9, <3>1, <3>2, <3>3, <3>4, SMT
  <2> QED BY <1>5, <2>1, SMT
<1>10. q \in Nat \ {0}
  BY <1>5, <1>7
<1> QED BY <1>3, <1>6, <1>8, <1>9, <1>10 DEF n

(* Token 1 in: the price rises, is rounded down, and the amount still      *)
(* covers the move; an amount short of the target's leaves the price below. *)
LEMMA NextPrice1Add ==
  ASSUME NEW p \in Prices128, NEW L \in Nat \ {0}, NEW amount \in U64
  PROVE  LET q == NextSqrtPriceFromAmount1RoundingDown(p, L, amount, TRUE)
         IN  /\ q \in Nat \ {0}
             /\ p <= q
             /\ L * (q - p) <= amount * Q
             /\ \A t \in Nat : amount * Q < L * (t - p) => q < t
<1> DEFINE x == amount * Q
           d == x \div L
<1>1. p \in Nat \ {0} /\ Q \in Nat /\ amount \in Nat
  BY QAssumption, SMT DEF Prices128, U128Max, U64, U64Max
<1>2. x \in Nat
  BY <1>1, ProductNat
<1> HIDE DEF x
<1>3. d \in Nat /\ L * d <= x
  BY <1>2, DivBracket
<1>4. NextSqrtPriceFromAmount1RoundingDown(p, L, amount, TRUE) = p + d
  BY DEF NextSqrtPriceFromAmount1RoundingDown, x
<1> HIDE DEF d
<1>5. ASSUME NEW t \in Nat, x < L * (t - p)
      PROVE  p + d < t
  <2>1. L * d < L * (t - p)
    BY <1>1, <1>2, <1>3, <1>5, SMT
  <2>2. d < t - p
    BY <1>1, <1>3, <2>1, ProductCancelStrict, SMT
  <2> QED BY <1>1, <1>3, <2>2, SMT
<1>6. (p + d) - p = d /\ p + d \in Nat \ {0} /\ p <= p + d
  BY <1>1, <1>3, SMT
<1> QED BY <1>3, <1>4, <1>5, <1>6 DEF x

(* Token 1 out: the price falls, is rounded down, and yields the amount; it *)
(* stops at or above any target whose range yields the amount.              *)
LEMMA NextPrice1Sub ==
  ASSUME NEW p \in Prices128, NEW L \in Nat \ {0}, NEW amount \in U64
  PROVE  LET q == NextSqrtPriceFromAmount1RoundingDown(p, L, amount, FALSE)
         IN  /\ q \in Int
             /\ q <= p
             /\ amount * Q <= L * (p - q)
             /\ \A t \in Nat : amount * Q <= L * (p - t) => t <= q
<1> DEFINE x == amount * Q
           d == DivRoundingUp(x, L)
<1>1. p \in Nat \ {0} /\ Q \in Nat /\ amount \in Nat
  BY QAssumption, SMT DEF Prices128, U128Max, U64, U64Max
<1>2. x \in Nat
  BY <1>1, ProductNat
<1> HIDE DEF x
<1>3. d \in Nat /\ x <= d * L /\ d * L < x + L
  BY <1>2, DivRoundingUpBracket
<1>4. NextSqrtPriceFromAmount1RoundingDown(p, L, amount, FALSE) = p - d
  BY DEF NextSqrtPriceFromAmount1RoundingDown, x
<1> HIDE DEF d
<1>5. ASSUME NEW t \in Nat, x <= L * (p - t)
      PROVE  t <= p - d
  <2>1. L * d < L * (p - t) + L
    BY <1>1, <1>2, <1>3, <1>5, SMT
  <2>2. L * (p - t) + L = L * ((p - t) + 1)
    BY <1>1, SMT
  <2>3. d < (p - t) + 1
    BY <1>1, <1>3, <2>1, <2>2, ProductCancelStrict, SMT
  <2> QED BY <1>1, <1>3, <2>3, SMT
<1>6. p - (p - d) = d /\ p - d \in Int /\ p - d <= p /\ d * L = L * d
  BY <1>1, <1>3, SMT
<1> QED BY <1>3, <1>4, <1>5, <1>6 DEF x

(* Token 0 out: if some target's range yields the amount, the price rises,  *)
(* is rounded up, yields the amount, and stops at or below that target.     *)
LEMMA NextPrice0Sub ==
  ASSUME NEW p \in Prices128, NEW L \in Nat \ {0}, NEW amount \in U64 \ {0},
         NEW t \in Nat \ {0}, amount * (t * p) <= (L * Q) * (t - p)
  PROVE  LET n == L * Q
             q == NextSqrtPriceFromAmount0RoundingUp(p, L, amount, FALSE)
         IN  /\ q \in Nat \ {0}
             /\ p <= q
             /\ q <= t
             /\ amount * (q * p) <= n * (q - p)
<1> DEFINE n == L * Q
           x == amount * p
           q == MulDivCeil(n, p, n - x)
<1>1. p \in Nat \ {0} /\ Q \in Nat \ {0} /\ amount \in Nat \ {0}
  BY QAssumption, SMT DEF Prices128, U128Max, U64, U64Max
<1>2. n \in Nat \ {0} /\ x \in Nat \ {0}
  BY <1>1, SMT
<1>3. amount * (t * p) = t * x
  BY <1>1, SMT
<1> HIDE DEF x
<1>4. t * x <= n * t - n * p
  BY <1>1, <1>2, <1>3, SMT
<1> HIDE DEF n
<1>5. x < n
  <2>1. n * p > 0
    BY <1>1, <1>2, SMT
  <2>2. t * x < t * n
    BY <1>1, <1>2, <1>4, <2>1, SMT
  <2> QED BY <1>2, <2>2, ProductCancelStrict, SMT
<1>6. NextSqrtPriceFromAmount0RoundingUp(p, L, amount, FALSE) = q
  BY <1>1, <1>5, SMT DEF NextSqrtPriceFromAmount0RoundingUp, n, x
<1>7. n - x \in Nat \ {0}
  BY <1>2, <1>5, SMT
<1>8. q \in Nat /\ n * p <= q * (n - x)
  BY <1>1, <1>2, <1>7, MulDivCeilBracket
<1>9. q <= t
  <2>1. n * p <= t * (n - x)
    <3>1. t * (n - x) = n * t - t * x
      BY <1>2, SMT
    <3> QED BY <1>1, <1>2, <1>4, <3>1, SMT
  <2> QED BY <1>1, <1>2, <1>7, <2>1, MulDivCeilLeast, SMT
<1> HIDE DEF q
<1>10. n * q - n * p >= q * x
  <2>1. q * (n - x) = n * q - q * x
    BY <1>2, <1>8, SMT
  <2>2. n * q \in Int /\ q * x \in Int /\ n * p \in Int
    BY <1>1, <1>2, <1>8, SMT
  <2> QED BY <1>8, <2>1, <2>2, SMT
<1>11. q * x = amount * (q * p) /\ q * x \in Nat /\ n * (q - p) = n * q - n * p
  BY <1>1, <1>2, <1>8, ProductNat, SMT DEF x
<1>12. p <= q
  <2>1. n * p <= n * q
    BY <1>1, <1>2, <1>8, <1>10, <1>11, SMT
  <2> QED BY <1>1, <1>2, <1>8, <2>1, ProductCancel, SMT
<1>13. q \in Nat \ {0}
  BY <1>1, <1>8, <1>12, SMT
<1>14. amount * (q * p) <= n * (q - p)
  BY <1>10, <1>11
<1> QED BY <1>6, <1>9, <1>12, <1>13, <1>14 DEF n

-----------------------------------------------------------------------------
(* The price an amount reaches when it is short of the target *)

AheadOf(p, t, zeroForOne) == IF zeroForOne THEN t <= p ELSE p <= t

(* Facts about the operands that every lemma below starts from. *)
LEMMA Operands ==
  ASSUME NEW p \in Prices128, NEW t \in Prices128, NEW L \in U128,
         NEW amount \in U64
  PROVE  /\ p \in Nat \ {0} /\ p <= U128Max
         /\ t \in Nat \ {0} /\ t <= U128Max
         /\ L \in Nat /\ amount \in Nat
         /\ Q \in Nat \ {0} /\ U128Max \in Nat /\ U64Max \in Nat
BY QAssumption, SMT DEF Prices128, U128, U128Max, U64, U64Max

(* A budget short of a range's amount implies that the range is not empty. *)
LEMMA ShortRangeNotEmpty ==
  ASSUME NEW budget \in Nat, NEW m \in Nat, NEW n \in Int, NEW w \in Int,
         budget * m < n * w
  PROVE  n # 0 /\ w # 0
<1>1. budget * m \in Nat
  BY ProductNat
<1>2. (n = 0 \/ w = 0) => n * w = 0
  BY SMT
<1> QED BY <1>1, <1>2, SMT

(* An exact token-0 input short of the range to the target. *)
LEMMA Input0ShortOfTarget ==
  ASSUME NEW p \in Prices128, NEW t \in Prices128, NEW L \in U128,
         NEW budget \in U64, t <= p, budget < DeltaAmount0(t, p, L, TRUE)
  PROVE  LET q == NextSqrtPriceFromAmount0RoundingUp(p, L, budget, TRUE)
         IN  /\ L # 0
             /\ q \in Prices128 /\ q <= p /\ t < q
             /\ DeltaAmount0(q, p, L, TRUE) <= budget
<1> DEFINE q == NextSqrtPriceFromAmount0RoundingUp(p, L, budget, TRUE)
<1>1. /\ p \in Nat \ {0} /\ t \in Nat \ {0} /\ L \in Nat /\ budget \in Nat
      /\ Q \in Nat \ {0} /\ U128Max \in Nat /\ p <= U128Max
  BY Operands
<1>2. budget * (t * p) < (L * Q) * (p - t)
  BY <1>1, Range0
<1>3. L # 0 /\ t # p
  <2>1. t * p \in Nat /\ L * Q \in Int /\ p - t \in Int
    BY <1>1, ProductNat, SMT
  <2>2. L * Q # 0 /\ p - t # 0
    BY <1>1, <1>2, <2>1, ShortRangeNotEmpty
  <2> QED BY <1>1, <2>2, SMT
<1>4. /\ q \in Nat \ {0} /\ q <= p /\ t < q
      /\ (L * Q) * (p - q) <= budget * (q * p)
  <2>1. CASE budget = 0
    <3>1. q = p
      BY <2>1 DEF NextSqrtPriceFromAmount0RoundingUp
    <3> HIDE DEF q
    <3>2. (L * Q) * (p - q) = 0 /\ budget * (q * p) = 0
      BY <1>1, <2>1, <3>1, SMT
    <3> QED BY <1>1, <1>3, <3>1, <3>2, SMT
  <2>2. CASE budget # 0
    BY <1>1, <1>2, <1>3, <2>2, NextPrice0Add
  <2> QED BY <2>1, <2>2
<1> HIDE DEF q
<1>5. DeltaAmount0(q, p, L, TRUE) <= budget
  BY <1>1, <1>4, Range0
<1>6. q \in Prices128
  BY <1>1, <1>4, SMT DEF Prices128
<1> QED BY <1>3, <1>4, <1>5, <1>6 DEF q

(* An exact token-1 input short of the range to the target. *)
LEMMA Input1ShortOfTarget ==
  ASSUME NEW p \in Prices128, NEW t \in Prices128, NEW L \in U128,
         NEW budget \in U64, p <= t, budget < DeltaAmount1(p, t, L, TRUE)
  PROVE  LET q == NextSqrtPriceFromAmount1RoundingDown(p, L, budget, TRUE)
         IN  /\ L # 0
             /\ q \in Prices128 /\ p <= q /\ q < t
             /\ DeltaAmount1(p, q, L, TRUE) <= budget
<1> DEFINE q == NextSqrtPriceFromAmount1RoundingDown(p, L, budget, TRUE)
<1>1. /\ p \in Nat \ {0} /\ t \in Nat \ {0} /\ L \in Nat /\ budget \in Nat
      /\ Q \in Nat \ {0} /\ U128Max \in Nat /\ t <= U128Max
  BY Operands
<1>2. budget * Q < L * (t - p)
  BY <1>1, Range1
<1>3. L # 0
  <2>1. t - p \in Int
    BY <1>1, SMT
  <2> QED BY <1>1, <1>2, <2>1, ShortRangeNotEmpty
<1>4. /\ q \in Nat \ {0} /\ p <= q /\ q < t
      /\ L * (q - p) <= budget * Q
  BY <1>1, <1>2, <1>3, NextPrice1Add
<1> HIDE DEF q
<1>5. DeltaAmount1(p, q, L, TRUE) <= budget
  BY <1>1, <1>4, Range1
<1>6. q \in Prices128
  BY <1>1, <1>4, SMT DEF Prices128
<1> QED BY <1>3, <1>4, <1>5, <1>6 DEF q

(* An exact token-1 output short of the range to the target. *)
LEMMA Output1ShortOfTarget ==
  ASSUME NEW p \in Prices128, NEW t \in Prices128, NEW L \in U128,
         NEW budget \in U64, t <= p, budget < DeltaAmount1(t, p, L, FALSE)
  PROVE  LET q == NextSqrtPriceFromAmount1RoundingDown(p, L, budget, FALSE)
         IN  /\ L # 0
             /\ q \in Prices128 /\ q <= p /\ t <= q
             /\ budget <= DeltaAmount1(q, p, L, FALSE)
<1> DEFINE q == NextSqrtPriceFromAmount1RoundingDown(p, L, budget, FALSE)
<1>1. /\ p \in Nat \ {0} /\ t \in Nat \ {0} /\ L \in Nat /\ budget \in Nat
      /\ Q \in Nat \ {0} /\ U128Max \in Nat /\ p <= U128Max
  BY Operands
<1>2. budget * Q < L * (p - t)
  BY <1>1, Range1
<1>3. p - t \in Int /\ budget * Q \in Int /\ L * (p - t) \in Int
  BY <1>1, SMT
<1>4. L # 0
  BY <1>1, <1>2, <1>3, ShortRangeNotEmpty
<1>5. budget * Q <= L * (p - t)
  BY <1>2, <1>3, SMT
<1>6. q \in Int /\ q <= p /\ budget * Q <= L * (p - q) /\ t <= q
  BY <1>1, <1>4, <1>5, NextPrice1Sub
<1> HIDE DEF q
<1>7. q \in Prices128 /\ q \in Nat
  BY <1>1, <1>6, SMT DEF Prices128
<1>8. budget <= DeltaAmount1(q, p, L, FALSE)
  BY <1>1, <1>6, <1>7, Range1
<1> QED BY <1>4, <1>6, <1>7, <1>8 DEF q

(* An exact token-0 output short of the range to the target. *)
LEMMA Output0ShortOfTarget ==
  ASSUME NEW p \in Prices128, NEW t \in Prices128, NEW L \in U128,
         NEW budget \in U64, p <= t, budget < DeltaAmount0(p, t, L, FALSE)
  PROVE  LET q == NextSqrtPriceFromAmount0RoundingUp(p, L, budget, FALSE)
         IN  /\ L # 0
             /\ q \in Prices128 /\ p <= q /\ q <= t
             /\ budget <= DeltaAmount0(p, q, L, FALSE)
<1> DEFINE q == NextSqrtPriceFromAmount0RoundingUp(p, L, budget, FALSE)
<1>1. /\ p \in Nat \ {0} /\ t \in Nat \ {0} /\ L \in Nat /\ budget \in Nat
      /\ Q \in Nat \ {0} /\ U128Max \in Nat /\ t <= U128Max
  BY Operands
<1>2. budget * (p * t) < (L * Q) * (t - p)
  BY <1>1, Range0
<1>3. /\ p * t \in Nat /\ p * t = t * p /\ L * Q \in Int /\ t - p \in Int
      /\ budget * (p * t) \in Int /\ (L * Q) * (t - p) \in Int
  BY <1>1, ProductNat, SMT
<1>4. L # 0
  <2>1. L * Q # 0
    BY <1>1, <1>2, <1>3, ShortRangeNotEmpty
  <2> QED BY <1>1, <2>1, SMT
<1>5. budget * (t * p) <= (L * Q) * (t - p)
  BY <1>2, <1>3, SMT
<1>6. /\ q \in Nat \ {0} /\ p <= q /\ q <= t
      /\ budget * (p * q) <= (L * Q) * (q - p)
  <2>1. CASE budget = 0
    <3>1. q = p
      BY <2>1 DEF NextSqrtPriceFromAmount0RoundingUp
    <3> HIDE DEF q
    <3>2. (L * Q) * (q - p) = 0 /\ budget * (p * q) = 0
      BY <1>1, <2>1, <3>1, SMT
    <3> QED BY <1>1, <3>1, <3>2, SMT
  <2>2. CASE budget # 0
    <3>1. /\ q \in Nat \ {0} /\ p <= q /\ q <= t
          /\ budget * (q * p) <= (L * Q) * (q - p)
      BY <1>1, <1>4, <1>5, <2>2, NextPrice0Sub
    <3> HIDE DEF q
    <3>2. q * p = p * q
      BY <1>1, <3>1, SMT
    <3> QED BY <3>1, <3>2
  <2> QED BY <2>1, <2>2
<1> HIDE DEF q
<1>7. budget <= DeltaAmount0(p, q, L, FALSE)
  BY <1>1, <1>6, Range0
<1>8. q \in Prices128
  BY <1>1, <1>6, SMT DEF Prices128
<1> QED BY <1>4, <1>6, <1>7, <1>8 DEF q

(* An exact input short of the range to the target stops strictly before   *)
(* the target, and the move it makes costs no more than the input.         *)
LEMMA InputShortOfTarget ==
  ASSUME NEW p \in Prices128, NEW t \in Prices128, NEW L \in U128,
         NEW budget \in U64, NEW z \in BOOLEAN, AheadOf(p, t, z),
         budget < AmountIn(p, t, L, z)
  PROVE  LET q == NextSqrtPriceFromInput(p, L, budget, z)
         IN  /\ L # 0
             /\ q \in Prices128
             /\ AheadOf(p, q, z) /\ AheadOf(q, t, z) /\ q # t
             /\ AmountIn(p, q, L, z) <= budget
<1> DEFINE q == NextSqrtPriceFromInput(p, L, budget, z)
<1>1. p \in Nat /\ t \in Nat
  BY Operands
<1>2. CASE z
  <2>1. q = NextSqrtPriceFromAmount0RoundingUp(p, L, budget, TRUE)
    BY <1>2 DEF NextSqrtPriceFromInput
  <2>2. t <= p /\ budget < DeltaAmount0(t, p, L, TRUE)
    BY <1>2 DEF AheadOf, AmountIn
  <2>3. /\ L # 0 /\ q \in Prices128 /\ q <= p /\ t < q
        /\ DeltaAmount0(q, p, L, TRUE) <= budget
    BY <2>1, <2>2, Input0ShortOfTarget
  <2> HIDE DEF q
  <2>4. t <= q /\ q # t
    BY <1>1, <2>3, Operands, SMT
  <2> QED BY <1>2, <2>3, <2>4 DEF AheadOf, AmountIn, q
<1>3. CASE ~z
  <2>1. q = NextSqrtPriceFromAmount1RoundingDown(p, L, budget, TRUE)
    BY <1>3 DEF NextSqrtPriceFromInput
  <2>2. p <= t /\ budget < DeltaAmount1(p, t, L, TRUE)
    BY <1>3 DEF AheadOf, AmountIn
  <2>3. /\ L # 0 /\ q \in Prices128 /\ p <= q /\ q < t
        /\ DeltaAmount1(p, q, L, TRUE) <= budget
    BY <2>1, <2>2, Input1ShortOfTarget
  <2> HIDE DEF q
  <2>4. q <= t /\ q # t
    BY <1>1, <2>3, Operands, SMT
  <2> QED BY <1>3, <2>3, <2>4 DEF AheadOf, AmountIn, q
<1> QED BY <1>2, <1>3

(* An exact output short of the range to the target does not pass the      *)
(* target, and the move it makes yields at least the output.               *)
LEMMA OutputShortOfTarget ==
  ASSUME NEW p \in Prices128, NEW t \in Prices128, NEW L \in U128,
         NEW budget \in U64, NEW z \in BOOLEAN, AheadOf(p, t, z),
         budget < AmountOut(p, t, L, z)
  PROVE  LET q == NextSqrtPriceFromOutput(p, L, budget, z)
         IN  /\ L # 0
             /\ q \in Prices128
             /\ AheadOf(p, q, z) /\ AheadOf(q, t, z)
             /\ budget <= AmountOut(p, q, L, z)
<1> DEFINE q == NextSqrtPriceFromOutput(p, L, budget, z)
<1>1. CASE z
  <2>1. q = NextSqrtPriceFromAmount1RoundingDown(p, L, budget, FALSE)
    BY <1>1 DEF NextSqrtPriceFromOutput
  <2>2. t <= p /\ budget < DeltaAmount1(t, p, L, FALSE)
    BY <1>1 DEF AheadOf, AmountOut
  <2>3. /\ L # 0 /\ q \in Prices128 /\ q <= p /\ t <= q
        /\ budget <= DeltaAmount1(q, p, L, FALSE)
    BY <2>1, <2>2, Output1ShortOfTarget
  <2> HIDE DEF q
  <2> QED BY <1>1, <2>3 DEF AheadOf, AmountOut, q
<1>2. CASE ~z
  <2>1. q = NextSqrtPriceFromAmount0RoundingUp(p, L, budget, FALSE)
    BY <1>2 DEF NextSqrtPriceFromOutput
  <2>2. p <= t /\ budget < DeltaAmount0(p, t, L, FALSE)
    BY <1>2 DEF AheadOf, AmountOut
  <2>3. /\ L # 0 /\ q \in Prices128 /\ p <= q /\ q <= t
        /\ budget <= DeltaAmount0(p, q, L, FALSE)
    BY <2>1, <2>2, Output0ShortOfTarget
  <2> HIDE DEF q
  <2> QED BY <1>2, <2>3 DEF AheadOf, AmountOut, q
<1> QED BY <1>1, <1>2
-----------------------------------------------------------------------------
(* The fee *)

FeeRatesBelowOne == 0 .. FEE_RATE_DENOMINATOR_VALUE - 1

(* The fee on top of an input is at least its rate, and no more than the    *)
(* input when the rate is at most one half.                                 *)
LEMMA FeeOnTopBracket ==
  ASSUME NEW in \in Nat, NEW f \in FeeRatesBelowOne
  PROVE  /\ FeeOnTop(in, f) \in Nat
         /\ FeeOnTop(in, f) * (FEE_RATE_DENOMINATOR_VALUE - f) >= in * f
         /\ 2 * f <= FEE_RATE_DENOMINATOR_VALUE => FeeOnTop(in, f) <= in
<1> DEFINE D == FEE_RATE_DENOMINATOR_VALUE
           c == D - f
           r == MulDivCeil(in, f, c)
<1>1. D \in Nat /\ f \in Nat /\ c \in Nat \ {0} /\ FeeOnTop(in, f) = r
  BY FeeDenominatorAssumption, SMT DEF FeeRatesBelowOne, FeeOnTop
<1>2. in * f \in Nat
  BY <1>1, ProductNat
<1>3. ASSUME 2 * f <= D
      PROVE  r <= in
  <2>1. f <= c
    BY <1>1, <1>3, SMT
  <2> HIDE DEF c
  <2>2. in * f <= in * c
    BY <1>1, <2>1, ProductMonotone
  <2> QED BY <1>1, <2>2, MulDivCeilLeast
<1> HIDE DEF c
<1>4. r \in Nat /\ in * f <= r * c
  BY <1>1, MulDivCeilBracket
<1> HIDE DEF r
<1>5. r * c \in Nat
  BY <1>1, <1>4, ProductNat
<1>6. r * c >= in * f
  BY <1>2, <1>4, <1>5, SMT
<1> QED BY <1>1, <1>3, <1>4, <1>6 DEF c

(* An input within the budget leaves room for its fee in the amount given, *)
(* whether the fee is charged on top or is all that is left.               *)
LEMMA InputFee ==
  ASSUME NEW rem \in U64, NEW f \in FeeRatesBelowOne, NEW in \in Nat,
         in <= AmountRemainingLessFee(rem, f)
  PROVE  /\ AmountRemainingLessFee(rem, f) \in U64
         /\ in <= rem
         /\ FeeOnTop(in, f) <= rem - in
         /\ (rem - in) * (FEE_RATE_DENOMINATOR_VALUE - f) >= in * f
<1> DEFINE D == FEE_RATE_DENOMINATOR_VALUE
           c == D - f
           b == MulDivFloor(rem, c, D)
<1>1. /\ D \in Nat \ {0} /\ f \in Nat /\ c \in Nat \ {0} /\ c <= D
      /\ rem \in Nat /\ rem <= U64Max /\ U64Max \in Nat
  BY FeeDenominatorAssumption, QAssumption, SMT DEF FeeRatesBelowOne, U64, U64Max
<1>2. AmountRemainingLessFee(rem, f) = b /\ FeeOnTop(in, f) = MulDivCeil(in, f, c)
  BY DEF AmountRemainingLessFee, FeeOnTop
<1>3. D = c + f
  BY <1>1, SMT
<1> HIDE DEF D, c
<1>4. b \in Nat /\ b * D <= rem * c
  BY <1>1, MulDivFloorBracket
<1> HIDE DEF b
<1>5. b <= rem
  <2>1. rem * c <= rem * D
    BY <1>1, ProductMonotone
  <2>2. D * b <= D * rem
    <3>1. b * D = D * b /\ rem * D = D * rem /\ D * b \in Int /\ D * rem \in Int
          /\ rem * c \in Int
      BY <1>1, <1>4, SMT
    <3> QED BY <1>4, <2>1, <3>1, SMT
  <2> QED BY <1>1, <1>4, <2>2, ProductCancel, SMT
<1>6. in <= rem
  BY <1>1, <1>2, <1>4, <1>5, SMT
<1>7. in * D <= rem * c
  <2>1. in * D <= b * D
    BY <1>1, <1>2, <1>4, ProductMonotone, SMT
  <2>2. in * D \in Int /\ b * D \in Int /\ rem * c \in Int
    BY <1>1, <1>4, SMT
  <2> QED BY <1>4, <2>1, <2>2, SMT
<1>8. in * f <= (rem - in) * c
  <2>1. in * D = in * c + in * f /\ (rem - in) * c = rem * c - in * c
    BY <1>1, <1>3, SMT
  <2>2. in * c \in Int /\ in * f \in Int /\ rem * c \in Int
    BY <1>1, SMT
  <2> QED BY <1>7, <2>1, <2>2, SMT
<1>9. FeeOnTop(in, f) <= rem - in
  <2>1. rem - in \in Nat
    BY <1>1, <1>6, SMT
  <2> QED BY <1>1, <1>2, <1>8, <2>1, MulDivCeilLeast
<1>10. (rem - in) * c >= in * f
  <2>1. in * f \in Int /\ (rem - in) * c \in Int
    BY <1>1, SMT
  <2> QED BY <1>8, <2>1, SMT
<1>11. b \in U64
  BY <1>1, <1>4, <1>5, SMT DEF U64
<1> QED BY <1>2, <1>6, <1>9, <1>10, <1>11 DEF c, D
-----------------------------------------------------------------------------
(* compute_swap_step *)

(* The amounts of a range are naturals, whichever side the target is on. *)
LEMMA RangeNat ==
  ASSUME NEW p \in Prices128, NEW t \in Prices128, NEW L \in U128,
         NEW z \in BOOLEAN, AheadOf(p, t, z)
  PROVE  AmountIn(p, t, L, z) \in Nat /\ AmountOut(p, t, L, z) \in Nat
<1>1. p \in Nat \ {0} /\ t \in Nat \ {0} /\ L \in Nat
  <2>1. 0 \in U64
    BY QAssumption, SMT DEF U64, U64Max
  <2> QED BY <2>1, Operands
<1>2. CASE z
  <2>1. t <= p
    BY <1>2 DEF AheadOf
  <2>2. DeltaAmount0(t, p, L, TRUE) \in Nat /\ DeltaAmount1(t, p, L, FALSE) \in Nat
    BY <1>1, <2>1, Range0, Range1
  <2> QED BY <1>2, <2>2 DEF AmountIn, AmountOut
<1>3. CASE ~z
  <2>1. p <= t
    BY <1>3 DEF AheadOf
  <2>2. DeltaAmount1(p, t, L, TRUE) \in Nat /\ DeltaAmount0(p, t, L, FALSE) \in Nat
    BY <1>1, <2>1, Range0, Range1
  <2> QED BY <1>3, <2>2 DEF AmountIn, AmountOut
<1> QED BY <1>2, <1>3

(* The budget of a step is a u64. *)
LEMMA BudgetU64 ==
  ASSUME NEW rem \in U64, NEW f \in FeeRatesBelowOne, NEW base \in BOOLEAN
  PROVE  StepBudget(rem, f, base) \in U64
<1>1. AmountRemainingLessFee(rem, f) \in U64
  <2> DEFINE D == FEE_RATE_DENOMINATOR_VALUE
             c == D - f
             b == MulDivFloor(rem, c, D)
  <2>1. /\ D \in Nat \ {0} /\ f \in Nat /\ c \in Nat /\ c <= D
        /\ rem \in Nat /\ rem <= U64Max /\ U64Max \in Nat
    BY FeeDenominatorAssumption, QAssumption, SMT DEF FeeRatesBelowOne, U64, U64Max
  <2> HIDE DEF D, c
  <2>2. b \in Nat /\ b * D <= rem * c
    BY <2>1, MulDivFloorBracket
  <2> HIDE DEF b
  <2>3. rem * c <= rem * D
    BY <2>1, ProductMonotone
  <2>4. b * D = D * b /\ rem * D = D * rem /\ D * b \in Int /\ D * rem \in Int
        /\ rem * c \in Int
    BY <2>1, <2>2, SMT
  <2>5. D * b <= D * rem
    BY <2>2, <2>3, <2>4, SMT
  <2>6. b <= rem
    BY <2>1, <2>2, <2>5, ProductCancel, SMT
  <2>7. b \in U64
    BY <2>1, <2>2, <2>6, SMT DEF U64
  <2> QED BY <2>7 DEF AmountRemainingLessFee, b, c, D
<1> QED BY <1>1 DEF StepBudget

(* Where a step takes the price: onto the target, or strictly short of it   *)
(* on an exact input and not past it on an exact output, at the price of a  *)
(* move the budget pays for.                                                *)
LEMMA NextPriceFacts ==
  ASSUME NEW p \in Prices128, NEW t \in Prices128, NEW L \in U128,
         NEW budget \in U64, NEW base \in BOOLEAN, NEW z \in BOOLEAN,
         AheadOf(p, t, z)
  PROVE  LET reached == ReachesTarget(p, t, L, budget, base, z)
             next    == NextSqrtPrice(p, t, L, budget, base, z)
         IN  /\ next \in Prices128
             /\ AheadOf(p, next, z) /\ AheadOf(next, t, z)
             /\ reached => next = t
             /\ ~reached => L # 0
             /\ reached /\ base => /\ AmountIn(p, t, L, z) <= budget
                                  /\ AmountIn(p, t, L, z) <= U64Max
             /\ reached /\ ~base => /\ AmountOut(p, t, L, z) <= budget
                                   /\ AmountOut(p, t, L, z) <= U64Max
             /\ ~reached /\ base => next # t /\ AmountIn(p, next, L, z) <= budget
             /\ ~reached /\ ~base => budget <= AmountOut(p, next, L, z)
<1> DEFINE reached == ReachesTarget(p, t, L, budget, base, z)
           next    == NextSqrtPrice(p, t, L, budget, base, z)
           in      == AmountIn(p, t, L, z)
           out     == AmountOut(p, t, L, z)
<1>1. in \in Nat /\ out \in Nat /\ budget \in Nat /\ budget <= U64Max /\ U64Max \in Nat
  BY RangeNat, QAssumption, SMT DEF U64, U64Max
<1>2. AheadOf(t, t, z)
  BY SMT DEF AheadOf, Prices128
<1>3. CASE reached
  <2>1. next = t
    BY <1>3 DEF NextSqrtPrice
  <2>2. base => in <= U64Max /\ budget >= in
    BY <1>3 DEF ReachesTarget, CalculateAmountInRange
  <2>3. ~base => out <= U64Max /\ budget >= out
    BY <1>3 DEF ReachesTarget, CalculateAmountInRange
  <2> HIDE DEF reached, next, in, out
  <2>4. base => in <= U64Max /\ in <= budget
    BY <1>1, <2>2, SMT
  <2>5. ~base => out <= U64Max /\ out <= budget
    BY <1>1, <2>3, SMT
  <2> QED BY <1>2, <1>3, <2>1, <2>4, <2>5 DEF reached, next, in, out
<1>4. CASE ~reached /\ base
  <2>1. ~(in <= U64Max /\ budget >= in)
    BY <1>4 DEF ReachesTarget, CalculateAmountInRange
  <2>2. next = NextSqrtPriceFromInput(p, L, budget, z)
    BY <1>4 DEF NextSqrtPrice
  <2> HIDE DEF reached, next, in, out
  <2>3. budget < in
    BY <1>1, <2>1, SMT
  <2>4. /\ L # 0 /\ next \in Prices128
        /\ AheadOf(p, next, z) /\ AheadOf(next, t, z) /\ next # t
        /\ AmountIn(p, next, L, z) <= budget
    BY <2>2, <2>3, InputShortOfTarget DEF in
  <2> QED BY <1>4, <2>4 DEF reached, next
<1>5. CASE ~reached /\ ~base
  <2>1. ~(out <= U64Max /\ budget >= out)
    BY <1>5 DEF ReachesTarget, CalculateAmountInRange
  <2>2. next = NextSqrtPriceFromOutput(p, L, budget, z)
    BY <1>5 DEF NextSqrtPrice
  <2> HIDE DEF reached, next, in, out
  <2>3. budget < out
    BY <1>1, <2>1, SMT
  <2>4. /\ L # 0 /\ next \in Prices128
        /\ AheadOf(p, next, z) /\ AheadOf(next, t, z)
        /\ budget <= AmountOut(p, next, L, z)
    BY <2>2, <2>3, OutputShortOfTarget DEF out
  <2> QED BY <1>5, <2>4 DEF reached, next
<1> QED BY <1>3, <1>4, <1>5
(* What a caller may rely on when a step returns Ok. *)
StepSound(s, p, t, L, rem, f, base, z) ==
  /\ s.next \in Prices128
  /\ AheadOf(p, s.next, z) /\ AheadOf(s.next, t, z)
  /\ s.amountIn \in U64 /\ s.amountOut \in U64 /\ s.fee \in U64
  /\ s.amountIn = AmountIn(p, s.next, L, z)
  /\ s.amountOut <= AmountOut(p, s.next, L, z)
  /\ s.fee * (FEE_RATE_DENOMINATOR_VALUE - f) >= s.amountIn * f
  /\ base => s.amountIn + s.fee <= rem /\ (s.next # t => s.amountIn + s.fee = rem)
  /\ ~base => s.amountOut <= rem /\ (s.next # t => s.amountOut = rem)

(* A step either fails, or moves the price towards its target and reports   *)
(* amounts that bound the move; it cannot panic on an exact input, nor on   *)
(* an exact output at a fee rate of at most one half.                       *)
LEMMA StepFacts ==
  ASSUME NEW p \in Prices128, NEW t \in Prices128, NEW L \in U128,
         NEW rem \in U64, NEW f \in FeeRatesBelowOne,
         NEW base \in BOOLEAN, NEW z \in BOOLEAN, AheadOf(p, t, z)
  PROVE  LET s == ComputeSwapStep(p, t, L, rem, f, base, z)
         IN  /\ s.tag \in {"ok", "err", "panic"}
             /\ base \/ 2 * f <= FEE_RATE_DENOMINATOR_VALUE => s.tag # "panic"
             /\ s.tag = "ok" => StepSound(s, p, t, L, rem, f, base, z)
<1> DEFINE D       == FEE_RATE_DENOMINATOR_VALUE
           budget  == StepBudget(rem, f, base)
           range   == CalculateAmountInRange(p, t, L, z, base)
           reached == ReachesTarget(p, t, L, budget, base, z)
           next    == NextSqrtPrice(p, t, L, budget, base, z)
           max     == t = next
           in      == IF max /\ base THEN Prefilled(range) ELSE AmountIn(p, next, L, z)
           rawOut  == IF max /\ ~base THEN Prefilled(range) ELSE AmountOut(p, next, L, z)
           out     == IF ~base /\ rawOut > rem THEN rem ELSE rawOut
           fee     == StepFee(max, rem, in, f, base)
           s       == ComputeSwapStep(p, t, L, rem, f, base, z)
<1>1. s = IF ~reached /\ (L = 0 \/ next \notin 1 .. U128Max) THEN Panic
          ELSE IF in > U64Max \/ rawOut > U64Max THEN Err("MaxTokenOverflow")
          ELSE IF fee \notin U64 THEN Panic
          ELSE StepOk(next, in, out, fee)
  BY DEF ComputeSwapStep, Reported
<1>2. /\ budget \in U64 /\ budget \in Nat /\ rem \in Nat /\ rem <= U64Max /\ U64Max \in Nat
      /\ f \in Nat /\ D - f \in Nat \ {0}
  BY BudgetU64, QAssumption, FeeDenominatorAssumption, SMT DEF U64, U64Max, FeeRatesBelowOne
<1>3. /\ next \in Prices128
      /\ AheadOf(p, next, z) /\ AheadOf(next, t, z)
      /\ reached => next = t
      /\ ~reached => L # 0
      /\ reached /\ base => AmountIn(p, t, L, z) <= budget /\ AmountIn(p, t, L, z) <= U64Max
      /\ reached /\ ~base => AmountOut(p, t, L, z) <= budget /\ AmountOut(p, t, L, z) <= U64Max
      /\ ~reached /\ base => next # t /\ AmountIn(p, next, L, z) <= budget
      /\ ~reached /\ ~base => budget <= AmountOut(p, next, L, z)
  BY <1>2, NextPriceFacts
<1>4. /\ AmountIn(p, next, L, z) \in Nat /\ AmountOut(p, next, L, z) \in Nat
      /\ AmountIn(p, t, L, z) \in Nat /\ AmountOut(p, t, L, z) \in Nat
  BY <1>3, RangeNat
<1>5. base => budget = AmountRemainingLessFee(rem, f)
  BY DEF StepBudget
<1>6. ~base => budget = rem
  BY DEF StepBudget
<1>7. range = IF base THEN AmountIn(p, t, L, z) ELSE AmountOut(p, t, L, z)
  BY DEF CalculateAmountInRange
<1> HIDE DEF budget, range, reached, next, s
<1>8. in = AmountIn(p, next, L, z)
  <2>1. CASE max /\ base
    BY <1>2, <1>3, <1>4, <1>7, <2>1, SMT DEF Prefilled
  <2>2. CASE ~(max /\ base)
    BY <2>2
  <2> QED BY <2>1, <2>2
<1>9. rawOut \in Nat /\ rawOut <= AmountOut(p, next, L, z)
  <2>1. CASE max /\ ~base
    BY <1>2, <1>3, <1>4, <1>7, <2>1, SMT DEF Prefilled
  <2>2. CASE ~(max /\ ~base)
    BY <1>4, <2>2, SMT
  <2> QED BY <2>1, <2>2
<1>10. ~base /\ ~max => rawOut >= rem
  BY <1>2, <1>3, <1>4, <1>6, SMT
<1>11. in \in Nat
  BY <1>4, <1>8
<1>12. base => in <= AmountRemainingLessFee(rem, f)
  BY <1>3, <1>5, <1>8
<1> HIDE DEF in, rawOut
<1>13. /\ out \in Nat /\ out <= AmountOut(p, next, L, z)
       /\ rawOut <= U64Max => out <= U64Max
       /\ ~base => out <= rem
       /\ ~base /\ ~max => out = rem
  BY <1>2, <1>4, <1>9, <1>10, SMT
<1>14. base => /\ fee \in Nat /\ in + fee <= rem /\ fee <= U64Max
               /\ ~max => in + fee = rem
  <2>1. SUFFICES ASSUME base
                 PROVE  /\ fee \in Nat /\ in + fee <= rem /\ fee <= U64Max
                        /\ ~max => in + fee = rem
    OBVIOUS
  <2>2. in <= rem /\ FeeOnTop(in, f) <= rem - in /\ FeeOnTop(in, f) \in Nat
    BY <1>11, <1>12, <2>1, InputFee, FeeOnTopBracket
  <2>3. CASE max
    <3>1. fee = FeeOnTop(in, f)
      BY <2>3 DEF StepFee
    <3> HIDE DEF fee, max
    <3> QED BY <1>2, <1>11, <2>2, <2>3, <3>1, SMT
  <2>4. CASE ~max
    <3>1. fee = rem - in
      BY <2>1, <2>4 DEF StepFee
    <3> HIDE DEF fee, max
    <3> QED BY <1>2, <1>11, <2>2, <2>4, <3>1, SMT
  <2> QED BY <2>3, <2>4
<1>15. ~base => /\ fee \in Nat
                /\ 2 * f <= D => fee <= in
  <2>1. SUFFICES ASSUME ~base PROVE fee \in Nat /\ (2 * f <= D => fee <= in)
    OBVIOUS
  <2>2. fee = FeeOnTop(in, f)
    BY <2>1 DEF StepFee
  <2> QED BY <1>11, <2>2, FeeOnTopBracket
<1>16. fee * (D - f) >= in * f
  <2>1. CASE base /\ ~max
    <3>1. fee = rem - in
      BY <2>1 DEF StepFee
    <3> QED BY <1>11, <1>12, <2>1, <3>1, InputFee
  <2>2. CASE ~(base /\ ~max)
    <3>1. fee = FeeOnTop(in, f)
      BY <2>2 DEF StepFee
    <3> QED BY <1>11, <3>1, FeeOnTopBracket
  <2> QED BY <2>1, <2>2
<1> HIDE DEF fee, out, max
<1>17. ~(~reached /\ (L = 0 \/ next \notin 1 .. U128Max))
  BY <1>3 DEF Prices128
<1>18. CASE in > U64Max \/ rawOut > U64Max
  <2>1. s = Err("MaxTokenOverflow")
    BY <1>1, <1>17, <1>18
  <2>2. s.tag = "err"
    BY <2>1 DEF Err
  <2> QED BY <2>2 DEF s
<1>19. CASE ~(in > U64Max \/ rawOut > U64Max) /\ fee \notin U64
  <2>1. s = Panic
    BY <1>1, <1>17, <1>19
  <2>2. s.tag = "panic"
    BY <2>1 DEF Panic
  <2>3. in <= U64Max
    BY <1>2, <1>11, <1>19, SMT
  <2>4. ~(base \/ 2 * f <= D)
    <3>1. ~base
      BY <1>2, <1>14, <1>19, SMT DEF U64
    <3>2. ~(fee <= in)
      BY <1>2, <1>11, <1>15, <1>19, <2>3, <3>1, SMT DEF U64
    <3> QED BY <1>15, <3>1, <3>2
  <2> QED BY <2>2, <2>4 DEF s, D
<1>20. CASE ~(in > U64Max \/ rawOut > U64Max) /\ fee \in U64
  <2>1. s = StepOk(next, in, out, fee)
    BY <1>1, <1>17, <1>20
  <2>2. /\ s.tag = "ok" /\ s.next = next /\ s.amountIn = in
        /\ s.amountOut = out /\ s.fee = fee
    BY <2>1 DEF StepOk
  <2>3. in \in U64 /\ out \in U64
    BY <1>2, <1>9, <1>11, <1>13, <1>20, SMT DEF U64
  <2>4. /\ base => in + fee <= rem /\ (next # t => in + fee = rem)
        /\ ~base => out <= rem /\ (next # t => out = rem)
    BY <1>13, <1>14 DEF max
  <2>5. StepSound(s, p, t, L, rem, f, base, z)
    BY <1>3, <1>8, <1>13, <1>16, <1>20, <2>2, <2>3, <2>4 DEF StepSound, D
  <2> QED BY <2>2, <2>5 DEF s
<1> QED BY <1>18, <1>19, <1>20

-----------------------------------------------------------------------------
(* Two moves in a row *)

(* Token 1 is linear in the price: covering each move covers their sum.    *)
LEMMA Curve1Step ==
  ASSUME NEW net \in Int, NEW d \in Int, NEW L \in Nat,
         NEW start \in Nat, NEW p \in Nat, NEW q \in Nat,
         net * Q >= L * (p - start), d * Q >= L * (q - p)
  PROVE  (net + d) * Q >= L * (q - start)
<1>1. Q \in Nat
  BY QAssumption
<1>2. (net + d) * Q = net * Q + d * Q
  BY <1>1, SMT
<1>3. L * (q - start) = L * (p - start) + L * (q - p)
  BY SMT
<1>4. net * Q \in Int /\ d * Q \in Int /\ L * (p - start) \in Int /\ L * (q - p) \in Int
  BY <1>1, SMT
<1> QED BY <1>2, <1>3, <1>4, SMT

(* Token 0 is linear in the inverse of the price: brought to the common    *)
(* denominator, covering each move covers their sum.                       *)
LEMMA Curve0Step ==
  ASSUME NEW net \in Int, NEW d \in Int, NEW K \in Nat,
         NEW start \in Nat \ {0}, NEW p \in Nat \ {0}, NEW q \in Nat \ {0},
         net * (p * start) >= K * (start - p), d * (q * p) >= K * (p - q)
  PROVE  (net + d) * (q * start) >= K * (start - q)
<1> DEFINE a == net * (p * start)
           b == K * (start - p)
           x == d * (q * p)
           y == K * (p - q)
           u == (net + d) * (q * start)
           v == K * (start - q)
<1>1. a \in Int /\ b \in Int /\ x \in Int /\ y \in Int /\ u \in Int /\ v \in Int
  BY SMT
<1>2. p * u = q * a + start * x
  BY SMT
<1>3. p * v = q * b + start * y
  BY SMT
<1>4. b <= a /\ y <= x
  BY <1>1, SMT
<1> HIDE DEF a, b, x, y, u, v
<1>5. q * b <= q * a /\ start * y <= start * x
  BY <1>1, <1>4, ProductMonotone
<1>6. p * v <= p * u
  <2>1. q * a \in Int /\ q * b \in Int /\ start * x \in Int /\ start * y \in Int
    BY <1>1, SMT
  <2> QED BY <1>2, <1>3, <1>5, <2>1, SMT
<1>7. v <= u
  BY <1>1, <1>6, ProductCancel
<1>8. u >= v
  BY <1>1, <1>7, SMT
<1> QED BY <1>8 DEF u, v

(* An amount pays for the move p -> q on the curve of liquidity L. *)
PaysFor(amount, p, q, L, z) ==
  IF z THEN amount * (q * p) >= (L * Q) * (p - q)
       ELSE amount * Q >= L * (q - p)

(* An amount no less than AmountIn pays for the move. *)
LEMMA AmountInPays ==
  ASSUME NEW p \in Prices128, NEW q \in Prices128, NEW L \in U128, NEW z \in BOOLEAN,
         AheadOf(p, q, z), NEW b \in Nat, AmountIn(p, q, L, z) <= b
  PROVE  PaysFor(b, p, q, L, z)
<1>1. p \in Nat \ {0} /\ q \in Nat \ {0} /\ L \in Nat /\ Q \in Nat \ {0}
  <2>1. 0 \in U64
    BY QAssumption, SMT DEF U64, U64Max
  <2> QED BY <2>1, Operands
<1>2. CASE z
  <2> DEFINE m == DeltaAmount0(q, p, L, TRUE)
             n == (L * Q) * (p - q)
  <2>1. q <= p /\ m <= b
    BY <1>2 DEF AheadOf, AmountIn
  <2>2. m \in Nat /\ n <= m * (q * p)
    BY <1>1, <2>1, Range0
  <2>3. n \in Int /\ q * p \in Nat
    BY <1>1, SMT
  <2> HIDE DEF m, n
  <2>4. m * (q * p) <= b * (q * p)
    BY <2>1, <2>2, <2>3, ProductMonotone
  <2>5. m * (q * p) \in Int /\ b * (q * p) \in Int
    BY <2>2, <2>3, SMT
  <2>6. b * (q * p) >= n
    BY <2>2, <2>3, <2>4, <2>5, SMT
  <2> QED BY <1>2, <2>6 DEF PaysFor, n
<1>3. CASE ~z
  <2> DEFINE m == DeltaAmount1(p, q, L, TRUE)
             n == L * (q - p)
  <2>1. p <= q /\ m <= b
    BY <1>3 DEF AheadOf, AmountIn
  <2>2. m \in Nat /\ n <= m * Q
    BY <1>1, <2>1, Range1
  <2>3. n \in Int
    BY <1>1, SMT
  <2> HIDE DEF m, n
  <2>4. m * Q <= b * Q
    BY <1>1, <2>1, <2>2, ProductMonotone
  <2>5. m * Q \in Int /\ b * Q \in Int
    BY <1>1, <2>2, SMT
  <2>6. b * Q >= n
    BY <2>2, <2>3, <2>4, <2>5, SMT
  <2> QED BY <1>3, <2>6 DEF PaysFor, n
<1> QED BY <1>2, <1>3

(* What pays for each of two moves pays together for the way they make. *)
LEMMA PaysForBoth ==
  ASSUME NEW p \in Prices128, NEW y \in Prices128, NEW q \in Prices128,
         NEW L \in U128, NEW z \in BOOLEAN,
         NEW b \in Nat, NEW c \in Nat, NEW whole \in Nat, b + c <= whole,
         PaysFor(b, p, y, L, z), PaysFor(c, y, q, L, z)
  PROVE  PaysFor(whole, p, q, L, z)
<1>1. /\ p \in Nat \ {0} /\ q \in Nat \ {0} /\ y \in Nat \ {0}
      /\ L \in Nat /\ Q \in Nat \ {0}
  <2>1. 0 \in U64
    BY QAssumption, SMT DEF U64, U64Max
  <2> QED BY <2>1, Operands
<1>2. CASE z
  <2> DEFINE K == L * Q
  <2>1. b * (y * p) >= K * (p - y) /\ c * (q * y) >= K * (y - q)
    BY <1>2 DEF PaysFor
  <2>2. K \in Nat
    BY <1>1, ProductNat
  <2> HIDE DEF K
  <2>3. (b + c) * (q * p) >= K * (p - q)
    BY <1>1, <2>1, <2>2, Curve0Step
  <2>4. (b + c) * (q * p) <= whole * (q * p)
    <3>1. q * p \in Nat /\ b + c \in Int
      BY <1>1, SMT
    <3> QED BY <3>1, ProductMonotone
  <2>5. whole * (q * p) >= K * (p - q)
    <3>1. (b + c) * (q * p) \in Int /\ whole * (q * p) \in Int /\ K * (p - q) \in Int
      BY <1>1, <2>2, SMT
    <3> QED BY <2>3, <2>4, <3>1, SMT
  <2> QED BY <1>2, <2>5 DEF PaysFor, K
<1>3. CASE ~z
  <2>1. b * Q >= L * (y - p) /\ c * Q >= L * (q - y)
    BY <1>3 DEF PaysFor
  <2>2. (b + c) * Q >= L * (q - p)
    BY <1>1, <2>1, Curve1Step
  <2>3. (b + c) * Q <= whole * Q
    <3>1. b + c \in Int
      BY SMT
    <3> QED BY <1>1, <3>1, ProductMonotone
  <2>4. whole * Q >= L * (q - p)
    <3>1. (b + c) * Q \in Int /\ whole * Q \in Int /\ L * (q - p) \in Int
      BY <1>1, SMT
    <3> QED BY <2>2, <2>3, <3>1, SMT
  <2> QED BY <1>3, <2>4 DEF PaysFor
<1> QED BY <1>2, <1>3

(* The outputs of two moves, each rounded down, are together at most the    *)
(* output of a move at least as long as both.                               *)
LEMMA OutputOfParts ==
  ASSUME NEW p \in Prices128, NEW y \in Prices128, NEW q \in Prices128,
         NEW x \in Prices128, NEW L \in U128, NEW z \in BOOLEAN,
         AheadOf(p, y, z), AheadOf(y, q, z), AheadOf(q, x, z)
  PROVE  AmountOut(p, y, L, z) + AmountOut(y, q, L, z) <= AmountOut(p, x, L, z)
<1> DEFINE a == AmountOut(p, y, L, z)
           b == AmountOut(y, q, L, z)
           r == AmountOut(p, x, L, z)
<1>1. /\ p \in Nat \ {0} /\ q \in Nat \ {0} /\ y \in Nat \ {0} /\ x \in Nat \ {0}
      /\ L \in Nat /\ Q \in Nat \ {0}
  <2>1. 0 \in U64
    BY QAssumption, SMT DEF U64, U64Max
  <2> QED BY <2>1, Operands
<1>2. CASE z
  <2>1. y <= p /\ q <= y /\ x <= q /\ x <= p
    BY <1>1, <1>2, SMT DEF AheadOf
  <2>2. /\ a = DeltaAmount1(y, p, L, FALSE)
        /\ b = DeltaAmount1(q, y, L, FALSE)
        /\ r = DeltaAmount1(x, p, L, FALSE)
    BY <1>2 DEF AmountOut
  <2> HIDE DEF a, b, r
  <2>3. a \in Nat /\ a * Q <= L * (p - y)
    BY <1>1, <2>1, <2>2, Range1
  <2>4. b \in Nat /\ b * Q <= L * (y - q)
    BY <1>1, <2>1, <2>2, Range1
  <2>5. (a + b) * Q <= L * (p - x)
    <3>1. L * (p - q) <= L * (p - x)
      BY <1>1, <2>1, ProductMonotone, SMT
    <3>2. (a + b) * Q = a * Q + b * Q /\ L * (p - q) = L * (p - y) + L * (y - q)
      BY <1>1, <2>3, <2>4, SMT
    <3>3. /\ a * Q \in Int /\ b * Q \in Int /\ L * (p - y) \in Int
          /\ L * (y - q) \in Int /\ L * (p - x) \in Int
      BY <1>1, <2>3, <2>4, SMT
    <3> QED BY <2>3, <2>4, <3>1, <3>2, <3>3, SMT
  <2>6. a + b \in Nat
    BY <2>3, <2>4, SMT
  <2>7. a + b <= r
    BY <1>1, <2>1, <2>2, <2>5, <2>6, Range1
  <2> QED BY <2>7 DEF a, b, r
<1>3. CASE ~z
  <2> DEFINE K == L * Q
  <2>1. p <= y /\ y <= q /\ q <= x /\ p <= x
    BY <1>1, <1>3, SMT DEF AheadOf
  <2>2. /\ a = DeltaAmount0(p, y, L, FALSE)
        /\ b = DeltaAmount0(y, q, L, FALSE)
        /\ r = DeltaAmount0(p, x, L, FALSE)
    BY <1>3 DEF AmountOut
  <2> HIDE DEF a, b, r
  <2>3. a \in Nat /\ a * (p * y) <= K * (y - p)
    BY <1>1, <2>1, <2>2, Range0
  <2>4. b \in Nat /\ b * (y * q) <= K * (q - y)
    BY <1>1, <2>1, <2>2, Range0
  <2>5. K \in Nat
    BY <1>1, ProductNat
  <2> DEFINE u == -a
             v == -b
  <2>6. u \in Int /\ v \in Int /\ u + v \in Int
    BY <2>3, <2>4, SMT
  <2>7. u * (y * p) >= K * (p - y)
    <3>1. u * (y * p) = -(a * (p * y)) /\ K * (p - y) = -(K * (y - p))
      BY <1>1, <2>3, <2>5, SMT
    <3>2. a * (p * y) \in Int /\ K * (y - p) \in Int
      BY <1>1, <2>3, <2>5, SMT
    <3> HIDE DEF K, u
    <3> QED BY <2>3, <3>1, <3>2, SMT
  <2>8. v * (q * y) >= K * (y - q)
    <3>1. v * (q * y) = -(b * (y * q)) /\ K * (y - q) = -(K * (q - y))
      BY <1>1, <2>4, <2>5, SMT
    <3>2. b * (y * q) \in Int /\ K * (q - y) \in Int
      BY <1>1, <2>4, <2>5, SMT
    <3> HIDE DEF K, v
    <3> QED BY <2>4, <3>1, <3>2, SMT
  <2> HIDE DEF K, u, v
  <2>9. (u + v) * (q * p) >= K * (p - q)
    BY <1>1, <2>5, <2>6, <2>7, <2>8, Curve0Step
  <2> DEFINE w == u + v
  <2>10. w \in Int /\ w * (q * p) >= K * (p - q)
    BY <2>6, <2>9
  <2>11. w = -(a + b)
    BY <2>3, <2>4, SMT DEF u, v
  <2> HIDE DEF w
  <2>12. 0 * (x * q) >= K * (q - x)
    <3>1. K * (q - x) <= K * 0
      BY <1>1, <2>1, <2>5, ProductMonotone, SMT
    <3>2. K * 0 = 0 /\ 0 * (x * q) = 0 /\ K * (q - x) \in Int
      BY <1>1, <2>5, SMT
    <3> QED BY <3>1, <3>2, SMT
  <2>13. (w + 0) * (x * p) >= K * (p - x)
    BY <1>1, <2>5, <2>10, <2>12, Curve0Step
  <2>14. (a + b) * (p * x) <= K * (x - p)
    <3>1. (w + 0) * (x * p) = -((a + b) * (p * x)) /\ K * (p - x) = -(K * (x - p))
      BY <1>1, <2>3, <2>4, <2>5, <2>11, SMT
    <3>2. (a + b) * (p * x) \in Int /\ K * (x - p) \in Int
      BY <1>1, <2>3, <2>4, <2>5, SMT
    <3> QED BY <2>13, <3>1, <3>2, SMT
  <2>15. a + b \in Nat
    BY <2>3, <2>4, SMT
  <2>16. a + b <= r
    BY <1>1, <2>1, <2>2, <2>14, <2>15, Range0 DEF K
  <2> QED BY <2>16 DEF a, b, r
<1> QED BY <1>2, <1>3

(* A way costs no more than the moves it is made of, each rounded up. *)
LEMMA InputOfParts ==
  ASSUME NEW p \in Prices128, NEW y \in Prices128, NEW q \in Prices128,
         NEW L \in U128, NEW z \in BOOLEAN, AheadOf(p, y, z), AheadOf(y, q, z)
  PROVE  AmountIn(p, q, L, z) <= AmountIn(p, y, L, z) + AmountIn(y, q, L, z)
<1> DEFINE a == AmountIn(p, y, L, z)
           b == AmountIn(y, q, L, z)
           c == a + b
<1>1. /\ p \in Nat \ {0} /\ q \in Nat \ {0} /\ y \in Nat \ {0}
      /\ L \in Nat /\ Q \in Nat
  <2>1. 0 \in U64
    BY QAssumption, SMT DEF U64, U64Max
  <2> QED BY <2>1, Operands
<1>2. a \in Nat /\ b \in Nat
  BY RangeNat
<1>3. PaysFor(a, p, y, L, z)
  <2>1. a <= a
    BY <1>2, SMT
  <2> QED BY <1>2, <2>1, AmountInPays
<1>4. PaysFor(b, y, q, L, z)
  <2>1. b <= b
    BY <1>2, SMT
  <2> QED BY <1>2, <2>1, AmountInPays
<1> HIDE DEF a, b
<1>5. c \in Nat /\ a + b <= c
  BY <1>2, SMT
<1> HIDE DEF c
<1>6. PaysFor(c, p, q, L, z)
  BY <1>2, <1>3, <1>4, <1>5, PaysForBoth
<1>7. AmountIn(p, q, L, z) <= c
  <2>1. CASE z
    <3>1. q <= p
      BY <1>1, <2>1, SMT DEF AheadOf
    <3>2. (L * Q) * (p - q) <= c * (q * p)
      <4>1. c * (q * p) >= (L * Q) * (p - q)
        BY <1>6, <2>1 DEF PaysFor
      <4>2. c * (q * p) \in Int /\ (L * Q) * (p - q) \in Int
        BY <1>1, <1>5, SMT
      <4> QED BY <4>1, <4>2, SMT
    <3>3. DeltaAmount0(q, p, L, TRUE) <= c
      BY <1>1, <1>5, <3>1, <3>2, Range0
    <3> QED BY <2>1, <3>3 DEF AmountIn
  <2>2. CASE ~z
    <3>1. p <= q
      BY <1>1, <2>2, SMT DEF AheadOf
    <3>2. L * (q - p) <= c * Q
      <4>1. c * Q >= L * (q - p)
        BY <1>6, <2>2 DEF PaysFor
      <4>2. c * Q \in Int /\ L * (q - p) \in Int
        BY <1>1, <1>5, SMT
      <4> QED BY <4>1, <4>2, SMT
    <3>3. DeltaAmount1(p, q, L, TRUE) <= c
      BY <1>1, <1>5, <3>1, <3>2, Range1
    <3> QED BY <2>2, <3>3 DEF AmountIn
  <2> QED BY <2>1, <2>2
<1> QED BY <1>7 DEF a, b, c

(* The fee on top of two inputs is no more than a fee that is at least its  *)
(* rate of the first and the fee on top of the second.                      *)
LEMMA FeeOfParts ==
  ASSUME NEW in \in Nat, NEW a \in Nat, NEW b \in Nat, NEW fee \in Nat,
         NEW f \in FeeRatesBelowOne, in <= a + b,
         fee * (FEE_RATE_DENOMINATOR_VALUE - f) >= a * f
  PROVE  FeeOnTop(in, f) <= fee + FeeOnTop(b, f)
<1> DEFINE c == FEE_RATE_DENOMINATOR_VALUE - f
           g == FeeOnTop(b, f)
           h == fee + g
<1>1. f \in Nat /\ c \in Nat \ {0}
  BY FeeDenominatorAssumption, SMT DEF FeeRatesBelowOne
<1>2. g \in Nat /\ g * c >= b * f
  BY FeeOnTopBracket
<1>3. fee * c >= a * f
  OBVIOUS
<1> HIDE DEF c, g
<1>4. in * f <= (a + b) * f
  <2>1. a + b \in Nat
    BY SMT
  <2> QED BY <1>1, <2>1, ProductMonotone
<1>5. in * f <= h * c
  <2>1. (a + b) * f = a * f + b * f /\ h * c = fee * c + g * c
    BY <1>1, <1>2, SMT
  <2>2. /\ in * f \in Int /\ a * f \in Int /\ b * f \in Int
        /\ fee * c \in Int /\ g * c \in Int
    BY <1>1, <1>2, SMT
  <2> HIDE DEF h
  <2> QED BY <1>2, <1>3, <1>4, <2>1, <2>2, SMT
<1>6. h \in Nat
  BY <1>2, SMT
<1>7. MulDivCeil(in, f, c) <= h
  <2> HIDE DEF h
  <2> QED BY <1>1, <1>5, <1>6, MulDivCeilLeast
<1> QED BY <1>7 DEF FeeOnTop, c, g

-----------------------------------------------------------------------------
(* Two steps of one range *)

(* The fields of a settled step, value by value. *)
LEMMA StepValues ==
  ASSUME NEW p, NEW t, NEW L, NEW rem, NEW f, NEW base \in BOOLEAN, NEW z,
         ComputeSwapStep(p, t, L, rem, f, base, z).tag = "ok"
  PROVE  LET s    == ComputeSwapStep(p, t, L, rem, f, base, z)
             next == NextSqrtPrice(p, t, L, StepBudget(rem, f, base), base, z)
         IN  /\ s.next = next
             /\ base => s.amountOut = AmountOut(p, next, L, z)
             /\ ~base => s.fee = FeeOnTop(s.amountIn, f)
<1> DEFINE budget  == StepBudget(rem, f, base)
           range   == CalculateAmountInRange(p, t, L, z, base)
           reached == ReachesTarget(p, t, L, budget, base, z)
           next    == NextSqrtPrice(p, t, L, budget, base, z)
           max     == t = next
           in      == IF max /\ base THEN Prefilled(range) ELSE AmountIn(p, next, L, z)
           rawOut  == IF max /\ ~base THEN Prefilled(range) ELSE AmountOut(p, next, L, z)
           out     == IF ~base /\ rawOut > rem THEN rem ELSE rawOut
           fee     == StepFee(max, rem, in, f, base)
           s       == ComputeSwapStep(p, t, L, rem, f, base, z)
<1>1. s = IF ~reached /\ (L = 0 \/ next \notin 1 .. U128Max) THEN Panic
          ELSE IF in > U64Max \/ rawOut > U64Max THEN Err("MaxTokenOverflow")
          ELSE IF fee \notin U64 THEN Panic
          ELSE StepOk(next, in, out, fee)
  BY DEF ComputeSwapStep, Reported
<1>2. base => out = AmountOut(p, next, L, z)
  OBVIOUS
<1>3. ~base => fee = FeeOnTop(in, f)
  BY DEF StepFee
<1> HIDE DEF budget, range, reached, next, max, in, rawOut, out, fee, s
<1>4. s = Panic \/ s = Err("MaxTokenOverflow") \/ s = StepOk(next, in, out, fee)
  BY <1>1
<1>5. s.tag = "ok"
  BY DEF s
<1>6. s = StepOk(next, in, out, fee)
  BY <1>4, <1>5 DEF Panic, Err
<1>7. s.next = next /\ s.amountIn = in /\ s.amountOut = out /\ s.fee = fee
  BY <1>6 DEF StepOk
<1> QED BY <1>2, <1>3, <1>7 DEF s, next, budget

(* A longer move costs at least as much. *)
LEMMA AmountInMonotone ==
  ASSUME NEW p \in Prices128, NEW q \in Prices128, NEW x \in Prices128,
         NEW L \in U128, NEW z \in BOOLEAN, AheadOf(p, q, z), AheadOf(q, x, z)
  PROVE  AmountIn(p, q, L, z) <= AmountIn(p, x, L, z)
<1>1. /\ p \in Nat \ {0} /\ q \in Nat \ {0} /\ x \in Nat \ {0}
      /\ L \in Nat /\ Q \in Nat
  <2>1. 0 \in U64
    BY QAssumption, SMT DEF U64, U64Max
  <2> QED BY <2>1, Operands
<1>2. CASE z
  <2> DEFINE c == DeltaAmount0(x, p, L, TRUE)
             n == L * Q
  <2>1. x <= q /\ q <= p /\ x <= p
    BY <1>1, <1>2, SMT DEF AheadOf
  <2>2. n \in Nat
    BY <1>1, ProductNat
  <2>3. c \in Nat /\ n * (p - x) <= c * (x * p)
    BY <1>1, <2>1, Range0
  <2> HIDE DEF c, n
  <2>4. n * (p - q) <= c * (q * p)
    <3>1. n * (p - q) <= n * (p - x)
      BY <1>1, <2>1, <2>2, ProductMonotone, SMT
    <3>2. c * (x * p) <= c * (q * p)
      <4>1. x * p <= q * p /\ x * p \in Int /\ q * p \in Int
        BY <1>1, <2>1, ProductMonotone, SMT
      <4> QED BY <2>3, <4>1, ProductMonotone
    <3>3. /\ n * (p - q) \in Int /\ n * (p - x) \in Int
          /\ c * (x * p) \in Int /\ c * (q * p) \in Int
      BY <1>1, <2>2, <2>3, SMT
    <3> QED BY <2>3, <3>1, <3>2, <3>3, SMT
  <2>5. DeltaAmount0(q, p, L, TRUE) <= c
    BY <1>1, <2>1, <2>3, <2>4, Range0 DEF n
  <2> QED BY <1>2, <2>5 DEF AmountIn, c
<1>3. CASE ~z
  <2> DEFINE c == DeltaAmount1(p, x, L, TRUE)
  <2>1. p <= q /\ q <= x /\ p <= x
    BY <1>1, <1>3, SMT DEF AheadOf
  <2>2. c \in Nat /\ L * (x - p) <= c * Q
    BY <1>1, <2>1, Range1
  <2> HIDE DEF c
  <2>3. L * (q - p) <= c * Q
    <3>1. L * (q - p) <= L * (x - p)
      BY <1>1, <2>1, ProductMonotone, SMT
    <3>2. L * (q - p) \in Int /\ L * (x - p) \in Int /\ c * Q \in Int
      BY <1>1, <2>2, SMT
    <3> QED BY <2>2, <3>1, <3>2, SMT
  <2>4. DeltaAmount1(p, q, L, TRUE) <= c
    BY <1>1, <2>1, <2>2, <2>3, Range1
  <2> QED BY <1>3, <2>4 DEF AmountIn, c
<1> QED BY <1>2, <1>3

(* The price an exact output reaches is no further than any price whose     *)
(* range yields that output.                                                *)
LEMMA OutputNoFurther ==
  ASSUME NEW p \in Prices128, NEW x \in Prices128, NEW L \in U128,
         NEW amount \in U64 \ {0}, NEW z \in BOOLEAN,
         AheadOf(p, x, z), amount <= AmountOut(p, x, L, z)
  PROVE  LET q == NextSqrtPriceFromOutput(p, L, amount, z)
         IN  q \in Nat /\ AheadOf(q, x, z)
<1> DEFINE q == NextSqrtPriceFromOutput(p, L, amount, z)
<1>1. /\ p \in Nat \ {0} /\ x \in Nat \ {0} /\ L \in Nat
      /\ amount \in Nat \ {0} /\ amount \in U64 /\ Q \in Nat \ {0}
  <2>1. amount \in U64
    OBVIOUS
  <2> QED BY <2>1, Operands
<1>2. CASE z
  <2> DEFINE m == DeltaAmount1(x, p, L, FALSE)
  <2>1. x <= p /\ amount <= m
    BY <1>2 DEF AheadOf, AmountOut
  <2>2. m \in Nat /\ m * Q <= L * (p - x)
    BY <1>1, <2>1, Range1
  <2> HIDE DEF m
  <2>3. amount * Q <= L * (p - x)
    <3>1. amount * Q <= m * Q
      BY <1>1, <2>1, <2>2, ProductMonotone
    <3>2. amount * Q \in Int /\ m * Q \in Int /\ L * (p - x) \in Int
      BY <1>1, <2>2, SMT
    <3> QED BY <2>2, <3>1, <3>2, SMT
  <2>4. L # 0
    <3>1. amount * Q > 0
      BY <1>1, SMT
    <3>2. L = 0 => L * (p - x) = 0
      BY <1>1, SMT
    <3>3. amount * Q \in Int /\ L * (p - x) \in Int
      BY <1>1, SMT
    <3> QED BY <2>3, <3>1, <3>2, <3>3, SMT
  <2>5. q = NextSqrtPriceFromAmount1RoundingDown(p, L, amount, FALSE)
    BY <1>2 DEF NextSqrtPriceFromOutput
  <2>6. q \in Int /\ x <= q
    BY <1>1, <2>3, <2>4, <2>5, NextPrice1Sub
  <2> HIDE DEF q
  <2>7. q \in Nat
    BY <1>1, <2>6, SMT
  <2> QED BY <1>2, <2>6, <2>7 DEF AheadOf, q
<1>3. CASE ~z
  <2> DEFINE m == DeltaAmount0(p, x, L, FALSE)
             n == L * Q
  <2>1. p <= x /\ amount <= m
    BY <1>3 DEF AheadOf, AmountOut
  <2>2. m \in Nat /\ m * (p * x) <= n * (x - p)
    BY <1>1, <2>1, Range0
  <2> HIDE DEF m
  <2>3. p * x = x * p /\ x * p \in Nat /\ n \in Nat
    BY <1>1, ProductNat, SMT
  <2> HIDE DEF n
  <2>4. amount * (x * p) <= n * (x - p)
    <3>1. amount * (x * p) <= m * (x * p)
      BY <1>1, <2>1, <2>2, <2>3, ProductMonotone
    <3>2. amount * (x * p) \in Int /\ m * (x * p) \in Int /\ n * (x - p) \in Int
      BY <1>1, <2>2, <2>3, SMT
    <3> QED BY <2>2, <2>3, <3>1, <3>2, SMT
  <2>5. L # 0
    <3>1. x * p > 0
      BY <1>1, SMT
    <3>2. amount * (x * p) > 0
      BY <1>1, <2>3, <3>1, SMT
    <3>3. L = 0 => n = 0
      BY <1>1, SMT DEF n
    <3>4. n = 0 => n * (x - p) = 0
      BY <1>1, SMT
    <3>5. amount * (x * p) \in Int /\ n * (x - p) \in Int
      BY <1>1, <2>3, SMT
    <3> QED BY <2>4, <3>2, <3>3, <3>4, <3>5, SMT
  <2>6. q = NextSqrtPriceFromAmount0RoundingUp(p, L, amount, FALSE)
    BY <1>3 DEF NextSqrtPriceFromOutput
  <2>7. q \in Nat \ {0} /\ q <= x
    BY <1>1, <2>4, <2>5, <2>6, NextPrice0Sub DEF n
  <2> QED BY <1>3, <2>7 DEF AheadOf
<1> QED BY <1>2, <1>3

(* The cost of a step b, asked for what the step s bought: none in excess   *)
(* if b stops short of the target; at most a rest of the way that pays      *)
(* nothing out if b ends there.                                             *)
QuoteBound(s, b, t, L, f, z) ==
  /\ b.next # t => b.amountIn + b.fee <= s.amountIn + s.fee
  /\ b.next = t =>
       /\ AmountOut(s.next, t, L, z) = 0
       /\ b.amountIn + b.fee <= (s.amountIn + s.fee) + CostOfWay(s.next, t, L, f, z)

(* A step for an exact input, and one for an exact output. *)
InputStep(p, t, L, rem, f, z)  == ComputeSwapStep(p, t, L, rem, f, TRUE, z)
OutputStep(p, t, L, rem, f, z) == ComputeSwapStep(p, t, L, rem, f, FALSE, z)

(* Asking back for no more than an exact input bought: the price is rounded *)
(* towards the start, and cost and fee are the least that cover it; only    *)
(* the whole range, whose output is floored, may be charged beyond it.      *)
LEMMA QuoteBack ==
  ASSUME NEW p \in Prices128, NEW t \in Prices128, NEW L \in U128,
         NEW rem \in U64, NEW wanted \in U64, NEW f \in FeeRatesBelowOne,
         NEW z \in BOOLEAN, AheadOf(p, t, z),
         InputStep(p, t, L, rem, f, z).tag = "ok",
         OutputStep(p, t, L, wanted, f, z).tag = "ok",
         wanted # 0, wanted <= InputStep(p, t, L, rem, f, z).amountOut
  PROVE  QuoteBound(InputStep(p, t, L, rem, f, z),
                    OutputStep(p, t, L, wanted, f, z), t, L, f, z)
<1> DEFINE base == TRUE
           back == FALSE
           s == ComputeSwapStep(p, t, L, rem, f, base, z)
           b == ComputeSwapStep(p, t, L, wanted, f, back, z)
           D == FEE_RATE_DENOMINATOR_VALUE
           c == D - f
           reached == ReachesTarget(p, t, L, wanted, back, z)
<1>1. wanted \in U64 /\ base \in BOOLEAN /\ back \in BOOLEAN
  OBVIOUS
<1>2. base /\ ~back
  OBVIOUS
<1>3. InputStep(p, t, L, rem, f, z) = s /\ OutputStep(p, t, L, wanted, f, z) = b
  BY DEF InputStep, OutputStep
<1> HIDE DEF base, back
<1>4. s.tag = "ok" /\ b.tag = "ok" /\ wanted <= s.amountOut
  BY <1>3
<1>5. StepSound(s, p, t, L, rem, f, base, z)
  BY <1>1, <1>4, StepFacts
<1>6. StepSound(b, p, t, L, wanted, f, back, z)
  BY <1>1, <1>4, StepFacts
<1>7. /\ b.next = NextSqrtPrice(p, t, L, StepBudget(wanted, f, back), back, z)
      /\ ~back => b.fee = FeeOnTop(b.amountIn, f)
  BY <1>1, <1>4, StepValues
<1> HIDE DEF s, b
<1>8. /\ reached => b.next = t /\ wanted >= AmountOut(p, t, L, z)
      /\ ~reached => b.next = NextSqrtPriceFromOutput(p, L, wanted, z)
  <2>1. StepBudget(wanted, f, back) = wanted
    BY <1>2 DEF StepBudget
  <2>2. reached => wanted >= AmountOut(p, t, L, z)
    BY <1>2 DEF ReachesTarget, CalculateAmountInRange
  <2> QED BY <1>7, <1>2, <2>1, <2>2 DEF NextSqrtPrice
<1> HIDE DEF reached
<1>9. /\ s.next \in Prices128 /\ AheadOf(p, s.next, z) /\ AheadOf(s.next, t, z)
      /\ b.next \in Prices128 /\ AheadOf(p, b.next, z)
      /\ s.amountIn = AmountIn(p, s.next, L, z)
      /\ b.amountIn = AmountIn(p, b.next, L, z)
      /\ s.amountIn \in U64 /\ b.amountIn \in U64
      /\ s.fee \in U64 /\ b.fee \in U64 /\ s.amountOut \in U64
      /\ s.amountOut <= AmountOut(p, s.next, L, z)
      /\ s.fee * (D - f) >= s.amountIn * f
  BY <1>5, <1>6 DEF StepSound
<1>10. U64 \subseteq Nat
  BY QAssumption, SMT DEF U64, U64Max
<1>11. /\ wanted \in Nat
       /\ s.amountIn \in Nat /\ b.amountIn \in Nat /\ s.fee \in Nat /\ b.fee \in Nat
  BY <1>1, <1>9, <1>10
<1>12. wanted <= AmountOut(p, s.next, L, z)
  <2>1. AmountOut(p, s.next, L, z) \in Nat
    BY <1>9, RangeNat
  <2>2. s.amountOut \in Nat
    BY <1>9, <1>10
  <2> QED BY <1>4, <1>9, <1>11, <2>1, <2>2, SMT
<1>13. ASSUME ~reached
       PROVE  AheadOf(b.next, s.next, z)
  <2>1. wanted \in U64 \ {0}
    OBVIOUS
  <2> QED BY <1>8, <1>9, <1>12, <1>13, <2>1, OutputNoFurther
<1>14. ASSUME b.next # t
       PROVE  b.amountIn + b.fee <= s.amountIn + s.fee
  <2>1. b.amountIn <= s.amountIn
    BY <1>8, <1>9, <1>13, <1>14, AmountInMonotone
  <2>2. f \in Nat /\ c \in Nat \ {0}
    BY FeeDenominatorAssumption, SMT DEF FeeRatesBelowOne
  <2>3. b.amountIn * f <= s.amountIn * f
    BY <1>11, <2>1, <2>2, ProductMonotone
  <2>4. s.fee * c >= s.amountIn * f
    BY <1>9
  <2> HIDE DEF c
  <2>5. b.amountIn * f <= s.fee * c
    <3>1. b.amountIn * f \in Int /\ s.amountIn * f \in Int /\ s.fee * c \in Int
      BY <1>11, <2>2, SMT
    <3> QED BY <2>3, <2>4, <3>1, SMT
  <2>6. MulDivCeil(b.amountIn, f, c) <= s.fee
    BY <1>11, <2>2, <2>5, MulDivCeilLeast
  <2>7. b.fee <= s.fee
    BY <1>7, <1>2, <2>6 DEF FeeOnTop, c, D
  <2> QED BY <1>11, <2>1, <2>7, SMT
<1>15. ASSUME b.next = t
       PROVE  AmountOut(s.next, t, L, z) = 0
  <2> DEFINE near  == AmountOut(p, s.next, L, z)
             rest  == AmountOut(s.next, t, L, z)
             whole == AmountOut(p, t, L, z)
  <2>1. near \in Nat /\ rest \in Nat /\ whole \in Nat
    BY <1>9, RangeNat
  <2>2. whole <= near
    <3>1. CASE reached
      <4>1. wanted >= whole /\ wanted <= near
        BY <1>8, <1>12, <3>1
      <4> HIDE DEF near, whole
      <4> QED BY <1>11, <2>1, <4>1, SMT
    <3>2. CASE ~reached
      <4>1. AheadOf(t, s.next, z)
        BY <1>13, <1>15, <3>2
      <4>2. s.next = t
        BY <1>9, <4>1, SMT DEF AheadOf, Prices128
      <4>3. whole = near
        BY <4>2
      <4> HIDE DEF near, whole
      <4> QED BY <2>1, <4>3, SMT
    <3> QED BY <3>1, <3>2
  <2>3. near + rest <= whole
    <3>1. AheadOf(t, t, z)
      BY SMT DEF AheadOf, Prices128
    <3> QED BY <1>9, <3>1, OutputOfParts
  <2> HIDE DEF near, rest, whole
  <2>4. rest = 0
    BY <2>1, <2>2, <2>3, SMT
  <2> QED BY <2>4 DEF rest
<1>16. ASSUME b.next = t
       PROVE  b.amountIn + b.fee <= (s.amountIn + s.fee) + CostOfWay(s.next, t, L, f, z)
  <2> DEFINE rest == AmountIn(s.next, t, L, z)
             fee  == FeeOnTop(rest, f)
  <2>1. CostOfWay(s.next, t, L, f, z) = rest + fee
    BY DEF CostOfWay
  <2>2. rest \in Nat /\ fee \in Nat
    BY <1>9, RangeNat, FeeOnTopBracket
  <2>3. b.amountIn <= s.amountIn + rest
    BY <1>9, <1>16, InputOfParts
  <2> HIDE DEF rest
  <2>4. b.fee <= s.fee + fee
    BY <1>7, <1>2, <1>9, <1>11, <2>2, <2>3, FeeOfParts
  <2> HIDE DEF fee
  <2>5. b.amountIn + b.fee <= (s.amountIn + s.fee) + (rest + fee)
    BY <1>11, <2>2, <2>3, <2>4, SMT
  <2> QED BY <2>1, <2>5
<1>17. QuoteBound(s, b, t, L, f, z)
  BY <1>14, <1>15, <1>16 DEF QuoteBound
<1> QED BY <1>3, <1>17
=============================================================================
