------------------------ MODULE TickArrayBitmapProofs ------------------------
(***************************************************************************)
(* The search over the bitmap of tick arrays, for every size of array and  *)
(* bitmap, tick domain, spacing and set of initialized arrays: what one    *)
(* search answers, what a walk there and back gathers, and that the words  *)
(* the bitmap is stored in show the searches the bits it holds, for every  *)
(* number of words and width of a word.                                    *)
(***************************************************************************)
EXTENDS TickArrayBitmap, ArithmeticProofs

-----------------------------------------------------------------------------
(* Products and quotients *)

(* Multiplication by a positive number keeps and reflects the order. *)
LEMMA ScaledOrder ==
  ASSUME NEW a \in Int, NEW b \in Int, NEW c \in Nat \ {0}
  PROVE  /\ a * c \in Int
         /\ a < b <=> a * c < b * c
         /\ a <= b <=> a * c <= b * c
<1>1. a <= b => a * c <= b * c
  BY SMT
<1>2. b + 1 <= a => b * c + c <= a * c
  <2> SUFFICES ASSUME b + 1 <= a PROVE b * c + c <= a * c
    OBVIOUS
  <2>1. (b + 1) * c <= a * c
    BY SMT
  <2> QED BY <2>1, SMT
<1>3. b <= a => b * c <= a * c
  BY SMT
<1>4. a + 1 <= b => a * c + c <= b * c
  <2> SUFFICES ASSUME a + 1 <= b PROVE a * c + c <= b * c
    OBVIOUS
  <2>1. (a + 1) * c <= b * c
    BY SMT
  <2> QED BY <2>1, SMT
<1>5. a * c \in Int /\ b * c \in Int
  OBVIOUS
<1> DEFINE p == a * c
           q == b * c
<1> HIDE DEF p, q
<1>6. /\ p \in Int /\ q \in Int
      /\ a <= b => p <= q
      /\ b + 1 <= a => q + c <= p
      /\ b <= a => q <= p
      /\ a + 1 <= b => p + c <= q
  BY <1>1, <1>2, <1>3, <1>4, <1>5 DEF p, q
<1>7. (a < b <=> p < q) /\ (a <= b <=> p <= q)
  BY <1>6, SMT
<1> QED BY <1>6, <1>7 DEF p, q

(* What is divided lies between two multiples of the divisor. *)
LEMMA Quotient ==
  ASSUME NEW a \in Nat, NEW b \in Nat \ {0}
  PROVE  /\ a \div b \in Nat
         /\ (a \div b) * b <= a
         /\ a < (a \div b) * b + b
<1>1. a = b * (a \div b) + (a % b) /\ a % b \in 0 .. b - 1 /\ a \div b \in Int
  BY SMT
<1>2. b * (a \div b) = (a \div b) * b
  BY <1>1, SMT
<1> QED BY <1>1, <1>2, SMT

(* RoundedDown rounds towards minus infinity, on both sides of 0. *)
LEMMA FloorBracket ==
  ASSUME NEW t \in Int, NEW w \in Nat \ {0}
  PROVE  /\ RoundedDown(t, w) \in Int
         /\ RoundedDown(t, w) * w <= t
         /\ t < RoundedDown(t, w) * w + w
<1>1. CASE t >= 0
  <2>1. t \in Nat /\ ~(t < 0)
    BY <1>1, SMT
  <2>2. RoundedDown(t, w) = t \div w
    <3>1. TruncDiv(t, w) = t \div w
      BY <2>1 DEF TruncDiv
    <3>2. t \div w \in Int
      BY <2>1, Quotient
    <3> QED BY <2>1, <3>1, <3>2 DEF RoundedDown
  <2> QED BY <2>1, <2>2, Quotient
<1>2. CASE t < 0
  <2> DEFINE q == (-t) \div w
             p == q * w
  <2>1. -t \in Nat
    BY <1>2, SMT
  <2>2. q \in Nat /\ p <= -t /\ -t < p + w
    BY <2>1, Quotient
  <2>3. TruncDiv(t, w) = -q
    BY <1>2 DEF TruncDiv
  <2>4. p \in Nat /\ (-q) * w = -p /\ w * (-q) = -p /\ (-q - 1) * w = -p - w
    BY <2>2, SMT
  <2>5. TruncRem(t, w) = t + p
    BY <2>3, <2>4, SMT DEF TruncRem
  <2> HIDE DEF q, p
  <2>6. CASE t + p = 0
    <3>1. RoundedDown(t, w) = -q
      BY <2>2, <2>3, <2>5, <2>6 DEF RoundedDown
    <3>2. RoundedDown(t, w) \in Int /\ RoundedDown(t, w) * w = -p
      BY <2>2, <2>4, <3>1
    <3> QED BY <2>2, <2>4, <2>6, <3>2, SMT
  <2>7. CASE t + p # 0
    <3>1. RoundedDown(t, w) = -q - 1
      BY <1>2, <2>2, <2>3, <2>5, <2>7 DEF RoundedDown
    <3>2. RoundedDown(t, w) \in Int /\ RoundedDown(t, w) * w = -p - w
      BY <2>2, <2>4, <3>1
    <3> QED BY <2>2, <2>4, <2>7, <3>2, SMT
  <2> QED BY <2>6, <2>7
<1> QED BY <1>1, <1>2, SMT

(* ... and nothing else lies there: it is the one multiple at most w below. *)
LEMMA FloorUnique ==
  ASSUME NEW t \in Int, NEW w \in Nat \ {0}, NEW k \in Int,
         k * w <= t, t < k * w + w
  PROVE  RoundedDown(t, w) = k
<1> DEFINE r == RoundedDown(t, w)
<1>1. r \in Int /\ r * w <= t /\ t < r * w + w
  BY FloorBracket
<1> HIDE DEF r
<1>2. k * w + w = (k + 1) * w /\ r * w + w = (r + 1) * w
  BY <1>1, SMT
<1>3. k * w \in Int /\ r * w \in Int /\ (k + 1) * w \in Int /\ (r + 1) * w \in Int
  BY <1>1, SMT
<1>4. k * w < (r + 1) * w /\ r * w < (k + 1) * w
  BY <1>1, <1>2, <1>3, SMT
<1>5. k < r + 1 /\ r < k + 1
  BY <1>1, <1>4, ScaledOrder
<1>6. r = k
  BY <1>1, <1>5, SMT
<1> QED BY <1>6 DEF r

(* A multiple rounds to itself. *)
LEMMA FloorOfMultiple ==
  ASSUME NEW k \in Int, NEW w \in Nat \ {0}
  PROVE  RoundedDown(k * w, w) = k /\ k * w \in Int
<1>1. k * w \in Int
  OBVIOUS
<1>2. k * w <= k * w /\ k * w < k * w + w
  BY <1>1, SMT
<1> QED BY <1>1, <1>2, FloorUnique

(* Nothing is cut off the quotient of a multiple, on either side of 0. *)
LEMMA ExactDivision ==
  ASSUME NEW k \in Int, NEW w \in Nat \ {0}
  PROVE  TruncDiv(k * w, w) = k /\ TruncRem(k * w, w) = 0
<1>1. ASSUME NEW n \in Int, n * w >= 0
      PROVE  (n * w) \div w = n
  <2> DEFINE a == n * w
  <2>1. a \in Nat /\ RoundedDown(a, w) = n
    BY <1>1, FloorOfMultiple, SMT
  <2> HIDE DEF a
  <2>2. a \div w \in Nat /\ ~(a < 0)
    BY <2>1, Quotient, SMT
  <2>3. RoundedDown(a, w) = a \div w
    BY <2>2 DEF RoundedDown, TruncDiv
  <2> QED BY <2>1, <2>3 DEF a
<1>2. k * w \in Int /\ (-k) * w = -(k * w) /\ w * k = k * w /\ -k \in Int
  BY SMT
<1>3. TruncDiv(k * w, w) = k
  <2>1. CASE k * w >= 0
    <3>1. (k * w) \div w = k
      BY <1>1, <2>1
    <3>2. ~(k * w < 0)
      BY <1>2, <2>1, SMT
    <3> QED BY <3>1, <3>2 DEF TruncDiv
  <2>2. CASE k * w < 0
    <3>1. (-k) * w >= 0
      BY <1>2, <2>2, SMT
    <3>2. ((-k) * w) \div w = -k
      BY <1>1, <1>2, <3>1
    <3>3. TruncDiv(k * w, w) = -(-k)
      BY <1>2, <2>2, <3>2 DEF TruncDiv
    <3> QED BY <3>3, SMT
  <2> QED BY <1>2, <2>1, <2>2, SMT
<1>4. TruncRem(k * w, w) = k * w - w * k
  BY <1>3 DEF TruncRem
<1> QED BY <1>2, <1>3, <1>4, SMT

-----------------------------------------------------------------------------
(* Where tick arrays start *)

(* The starts a bitmap of this spacing has a bit for. *)
Aligned(sp) ==
  {k * TickCountInArray(sp) :
     k \in -TICK_ARRAY_BITMAP_SIZE .. TICK_ARRAY_BITMAP_SIZE - 1}

(* Every array holds a tick and the bitmap as many arrays on each side of 0. *)
LEMMA Sizes ==
  ASSUME NEW sp \in Spacings
  PROVE  /\ TickCountInArray(sp) \in Nat \ {0}
         /\ TICK_ARRAY_BITMAP_SIZE \in Nat \ {0}
         /\ MAX_TICK \in Nat \ {0} /\ MIN_TICK = -MAX_TICK
         /\ MaxTickInTickArrayBitmap(sp) = TICK_ARRAY_BITMAP_SIZE * TickCountInArray(sp)
         /\ MaxTickInTickArrayBitmap(sp) \in Nat \ {0}
<1>1. /\ TICK_ARRAY_SIZE \in Nat \ {0} /\ TICK_ARRAY_BITMAP_SIZE \in Nat \ {0}
      /\ MAX_TICK \in Nat \ {0} /\ sp \in Nat \ {0}
  BY BitmapAssumption
<1>2. ASSUME NEW a \in Nat \ {0}, NEW b \in Nat \ {0}
      PROVE  a * b \in Nat \ {0} /\ a * b = b * a
  <2>1. a * b \in Int /\ b <= a * b /\ a * b = b * a
    BY SMT
  <2> QED BY <2>1, SMT
<1>3. TickCountInArray(sp) \in Nat \ {0}
  BY <1>1, <1>2 DEF TickCountInArray
<1> QED BY <1>1, <1>2, <1>3 DEF MaxTickInTickArrayBitmap, MIN_TICK

(* Aligned starts keep to the bitmap. *)
LEMMA StartsInBitmap ==
  ASSUME NEW sp \in Spacings, NEW s \in Aligned(sp)
  PROVE  /\ s \in Int
         /\ -MaxTickInTickArrayBitmap(sp) <= s
         /\ s + TickCountInArray(sp) <= MaxTickInTickArrayBitmap(sp)
<1> DEFINE c == TickCountInArray(sp)
           n == TICK_ARRAY_BITMAP_SIZE
<1>1. /\ c \in Nat \ {0} /\ n \in Nat \ {0} /\ MaxTickInTickArrayBitmap(sp) = n * c
  BY Sizes
<1>2. PICK k \in -n .. n - 1 : s = k * c
  BY DEF Aligned
<1> HIDE DEF c, n
<1>3. k \in Int /\ -n \in Int /\ -n <= k /\ k + 1 \in Int /\ k + 1 <= n /\ n \in Int
  BY <1>1, <1>2, SMT
<1>4. (-n) * c <= k * c /\ (k + 1) * c <= n * c
  BY <1>1, <1>3, ScaledOrder
<1>5. (-n) * c = -(n * c) /\ (k + 1) * c = k * c + c /\ k * c \in Int
  BY <1>1, <1>3, SMT
<1> QED BY <1>1, <1>2, <1>4, <1>5 DEF c

(* Two of them are apart by an array: the next one up or down is a neighbour. *)
LEMMA StartsApart ==
  ASSUME NEW sp \in Spacings, NEW s \in Aligned(sp), NEW u \in Aligned(sp), s < u
  PROVE  s + TickCountInArray(sp) <= u
<1> DEFINE c == TickCountInArray(sp)
           n == TICK_ARRAY_BITMAP_SIZE
<1>1. c \in Nat \ {0} /\ n \in Nat
  BY Sizes
<1>2. PICK k \in -n .. n - 1, j \in -n .. n - 1 : s = k * c /\ u = j * c
  BY DEF Aligned
<1> HIDE DEF c, n
<1>3. k \in Int /\ j \in Int /\ k + 1 \in Int
  BY <1>1, <1>2, SMT
<1>4. k < j
  BY <1>1, <1>2, <1>3, ScaledOrder
<1>5. (k + 1) * c <= j * c
  <2>1. k + 1 <= j
    BY <1>3, <1>4, SMT
  <2> QED BY <1>1, <1>3, <2>1, ScaledOrder
<1>6. (k + 1) * c = k * c + c
  BY <1>1, <1>3, SMT
<1> QED BY <1>2, <1>5, <1>6 DEF c

(* A start is valid iff its array holds a tick of the domain: the array that *)
(* holds MIN_TICK counts, none below it does.                                *)
LEMMA ValidStart ==
  ASSUME NEW sp \in Spacings, NEW s \in Aligned(sp)
  PROVE  IsValidTickArrayStartIndex(s, sp)
           <=> s <= MAX_TICK /\ s + TickCountInArray(sp) > MIN_TICK
<1> DEFINE c == TickCountInArray(sp)
           first == ArrayStartIndexForTick(MIN_TICK, sp)
<1>1. c \in Nat \ {0} /\ MAX_TICK \in Nat \ {0} /\ MIN_TICK = -MAX_TICK /\ s \in Int
  BY Sizes, StartsInBitmap
<1>2. PICK k \in Int : s = k * c
  BY BitmapAssumption DEF Aligned
<1>3. MIN_TICK \in Int
  BY <1>1, SMT
<1>4. TruncRem(s, c) = 0
  BY <1>1, <1>2, ExactDivision
<1>5. first = RoundedDown(MIN_TICK, c) * c
  BY DEF ArrayStartIndexForTick
<1>6. first \in Int /\ MIN_TICK < first + c
  BY <1>1, <1>3, <1>5, FloorBracket, ScaledOrder
<1>7. ASSUME s < MIN_TICK, s + c > MIN_TICK PROVE s = first
  <2>1. s <= MIN_TICK /\ MIN_TICK < s + c
    BY <1>1, <1>3, <1>7, SMT
  <2>2. RoundedDown(MIN_TICK, c) = k
    BY <1>1, <1>2, <1>3, <2>1, FloorUnique
  <2> QED BY <1>2, <1>5, <2>2
<1>8. CASE s < MIN_TICK
  <2>1. s <= MAX_TICK
    BY <1>1, <1>8, SMT
  <2>2. s = first <=> s + c > MIN_TICK
    BY <1>6, <1>7, <1>8, SMT
  <2>3. IsValidTickArrayStartIndex(s, sp) <=> s = first
    BY <1>8, <2>1 DEF IsValidTickArrayStartIndex, IsTickOutOfBoundary
  <2> QED BY <2>1, <2>2, <2>3 DEF c
<1>9. CASE s > MAX_TICK
  <2>1. ~(s <= MAX_TICK)
    BY <1>1, <1>9, SMT
  <2> QED BY <1>9, <2>1 DEF IsValidTickArrayStartIndex, IsTickOutOfBoundary
<1>10. CASE ~(s < MIN_TICK) /\ ~(s > MAX_TICK)
  <2>1. s <= MAX_TICK /\ s + c > MIN_TICK
    BY <1>1, <1>3, <1>10, SMT
  <2> QED BY <1>4, <1>10, <2>1 DEF IsValidTickArrayStartIndex, IsTickOutOfBoundary
<1> QED BY <1>8, <1>9, <1>10

-----------------------------------------------------------------------------
(* One search *)

(* Min is the least element of a nonempty set of naturals. *)
LEMMA MinNatural ==
  ASSUME NEW S \in SUBSET Nat, S # {}
  PROVE  /\ Min(S) \in S
         /\ \A m \in S : Min(S) <= m
<1>1. \E n \in S : \A m \in S : n <= m
  BY LeastNatural
<1> QED BY <1>1 DEF Min

(* ... and Max the greatest of one that is bounded. *)
LEMMA GreatestNatural ==
  ASSUME NEW n \in Nat, NEW S \in SUBSET (0 .. n), S # {}
  PROVE  /\ Max(S) \in S
         /\ \A m \in S : m <= Max(S)
<1> DEFINE R == {n - m : m \in S}
<1>1. R \in SUBSET Nat /\ R # {}
  <2>1. \A m \in S : n - m \in Nat
    BY SMT
  <2> QED BY <2>1
<1>2. PICK g \in S : Min(R) = n - g
  BY <1>1, MinNatural
<1>3. ASSUME NEW m \in S PROVE g >= m
  <2>1. n - g <= n - m
    BY <1>1, <1>2, MinNatural
  <2> QED BY <2>1, SMT
<1>4. Max(S) \in S /\ \A m \in S : Max(S) >= m
  BY <1>3 DEF Max
<1> QED BY <1>4, SMT

(* The two answers of a search. *)
FoundAt(s)  == Answer(TRUE, s)
NoneFrom(s) == Answer(FALSE, s)

(* Downwards the search finds the greatest bit set at or below the one it    *)
(* starts from, and nothing only if there is none.                           *)
LEMMA SearchDownFinds ==
  ASSUME NEW B \in SUBSET (0 .. BITS - 1), NEW bit \in 0 .. BITS - 1, NEW sp
  PROVE  \/ /\ \A b \in B : b > bit
            /\ SearchDown(B, bit, sp) = NoneFrom(-MaxTickInTickArrayBitmap(sp))
         \/ \E g \in B : /\ g <= bit
                         /\ \A b \in B : b <= bit => b <= g
                         /\ SearchDown(B, bit, sp) = FoundAt(StartOfBit(g, sp))
<1> DEFINE d == BITS - bit - 1
           offset == ShiftLeft(B, d)
<1>1. BITS \in Nat /\ bit \in Nat /\ d \in Nat /\ BITS - 1 \in Nat
  BY BitmapAssumption, SMT DEF BITS
<1>2. \A b \in B : b \in Nat /\ (b + d < BITS <=> b <= bit)
  BY <1>1, SMT
<1>3. offset = {b + d : b \in {c \in B : c <= bit}}
  BY <1>2 DEF ShiftLeft
<1>4. CASE offset = {}
  <2>1. \A b \in B : ~(b <= bit)
    BY <1>3, <1>4
  <2>2. \A b \in B : b > bit
    BY <1>1, <1>2, <2>1, SMT
  <2>3. SearchDown(B, bit, sp) = NoneFrom(-MaxTickInTickArrayBitmap(sp))
    BY <1>4 DEF SearchDown, NoneFrom
  <2> QED BY <2>2, <2>3
<1>5. CASE offset # {}
  <2>1. offset \in SUBSET (0 .. BITS - 1)
    BY <1>1, <1>2, <1>3, SMT
  <2>2. Max(offset) \in offset /\ \A m \in offset : m <= Max(offset)
    BY <1>1, <1>5, <2>1, GreatestNatural
  <2>3. PICK g \in B : g <= bit /\ Max(offset) = g + d
    BY <1>3, <2>2
  <2>4. ASSUME NEW b \in B, b <= bit PROVE b <= g
    <3>1. b + d <= g + d
      BY <1>3, <2>2, <2>3, <2>4
    <3> QED BY <1>1, <1>2, <3>1, SMT
  <2>5. bit - MostSignificantBit(offset) = g
    <3>1. MostSignificantBit(offset) = (BITS - 1) - (g + d)
      BY <2>3 DEF MostSignificantBit
    <3> QED BY <1>1, <1>2, <3>1, SMT
  <2>6. SearchDown(B, bit, sp) = FoundAt(StartOfBit(g, sp))
    BY <1>5, <2>5 DEF SearchDown, FoundAt
  <2> QED BY <2>3, <2>4, <2>6
<1> QED BY <1>4, <1>5

(* The start of the last array the bitmap has a bit for. *)
HighestStart(sp) == MaxTickInTickArrayBitmap(sp) - TickCountInArray(sp)

(* ... and upwards the least one at or above it. *)
LEMMA SearchUpFinds ==
  ASSUME NEW B \in SUBSET (0 .. BITS - 1), NEW bit \in 0 .. BITS - 1, NEW sp
  PROVE  \/ /\ \A b \in B : b < bit
            /\ SearchUp(B, bit, sp) = NoneFrom(HighestStart(sp))
         \/ \E g \in B : /\ bit <= g
                         /\ \A b \in B : bit <= b => g <= b
                         /\ SearchUp(B, bit, sp) = FoundAt(StartOfBit(g, sp))
<1> DEFINE offset == ShiftRight(B, bit)
<1>1. BITS \in Nat /\ bit \in Nat
  BY BitmapAssumption, SMT DEF BITS
<1>2. \A b \in B : b \in Nat /\ (b >= bit <=> bit <= b)
  BY <1>1, SMT
<1>3. offset = {b - bit : b \in {c \in B : bit <= c}}
  BY <1>2 DEF ShiftRight
<1>4. CASE offset = {}
  <2>1. \A b \in B : ~(bit <= b)
    BY <1>3, <1>4
  <2>2. \A b \in B : b < bit
    BY <1>1, <1>2, <2>1, SMT
  <2>3. SearchUp(B, bit, sp) = NoneFrom(HighestStart(sp))
    BY <1>4 DEF SearchUp, HighestStart, NoneFrom
  <2> QED BY <2>2, <2>3
<1>5. CASE offset # {}
  <2>1. offset \in SUBSET Nat
    BY <1>1, <1>2, <1>3, SMT
  <2>2. Min(offset) \in offset /\ \A m \in offset : Min(offset) <= m
    BY <1>5, <2>1, MinNatural
  <2>3. PICK g \in B : bit <= g /\ Min(offset) = g - bit
    BY <1>3, <2>2
  <2>4. ASSUME NEW b \in B, bit <= b PROVE g <= b
    <3>1. g - bit <= b - bit
      BY <1>3, <2>2, <2>3, <2>4
    <3> QED BY <1>1, <1>2, <3>1, SMT
  <2>5. bit + LeastSignificantBit(offset) = g
    <3>1. LeastSignificantBit(offset) = g - bit
      BY <2>3 DEF LeastSignificantBit
    <3> QED BY <1>1, <1>2, <3>1, SMT
  <2>6. SearchUp(B, bit, sp) = FoundAt(StartOfBit(g, sp))
    BY <1>5, <2>5 DEF SearchUp, FoundAt
  <2> QED BY <2>3, <2>4, <2>6
<1> QED BY <1>4, <1>5

(* The starts of the arrays whose bit is set in B. *)
Starts(B, sp) == {StartOfBit(b, sp) : b \in B}

(* A swap in the direction meets the tick a before the tick b. *)
Before(a, b, down) == IF down THEN a > b ELSE a < b

(* Bits and starts are in the same order. *)
LEMMA StartsOrdered ==
  ASSUME NEW sp \in Spacings, NEW b \in Int, NEW g \in Int
  PROVE  /\ StartOfBit(b, sp) \in Int
         /\ b < g <=> StartOfBit(b, sp) < StartOfBit(g, sp)
         /\ b <= g <=> StartOfBit(b, sp) <= StartOfBit(g, sp)
         /\ StartOfBit(b, sp) = StartOfBit(g, sp) => b = g
<1> DEFINE n == TICK_ARRAY_BITMAP_SIZE
           c == TickCountInArray(sp)
<1>1. n \in Int /\ c \in Nat \ {0}
  BY Sizes
<1>2. StartOfBit(b, sp) = (b - n) * c /\ StartOfBit(g, sp) = (g - n) * c
  BY DEF StartOfBit
<1> HIDE DEF n, c
<1>3. b - n \in Int /\ g - n \in Int
  BY <1>1, SMT
<1> DEFINE x == b - n
           y == g - n
<1>4. /\ x * c \in Int /\ y * c \in Int
      /\ x < y <=> x * c < y * c
      /\ x <= y <=> x * c <= y * c
  BY <1>1, <1>3, ScaledOrder
<1>5. (x < y <=> b < g) /\ (x <= y <=> b <= g)
  BY <1>1, SMT
<1> HIDE DEF x, y
<1>6. StartOfBit(b, sp) = x * c /\ StartOfBit(g, sp) = y * c
  BY <1>2 DEF x, y
<1>7. x * c = y * c => b = g
  BY <1>4, <1>5, SMT
<1> QED BY <1>4, <1>5, <1>6, <1>7

(* A bit and the start of its array tell each other. *)
LEMMA BitOfStart ==
  ASSUME NEW sp \in Spacings
  PROVE  /\ \A b \in 0 .. BITS - 1 : StartOfBit(b, sp) \in Aligned(sp)
         /\ \A s \in Aligned(sp) : /\ BitPosition(s, sp) \in 0 .. BITS - 1
                                   /\ StartOfBit(BitPosition(s, sp), sp) = s
<1> DEFINE n == TICK_ARRAY_BITMAP_SIZE
           c == TickCountInArray(sp)
<1>1. n \in Nat \ {0} /\ c \in Nat \ {0} /\ BITS = 2 * n
  BY Sizes DEF BITS
<1>2. ASSUME NEW b \in 0 .. BITS - 1 PROVE StartOfBit(b, sp) \in Aligned(sp)
  <2>1. b - n \in -n .. n - 1
    BY <1>1, SMT
  <2> QED BY <2>1 DEF StartOfBit, Aligned
<1>3. ASSUME NEW s \in Aligned(sp)
      PROVE  /\ BitPosition(s, sp) \in 0 .. BITS - 1
             /\ StartOfBit(BitPosition(s, sp), sp) = s
  <2>1. PICK k \in -n .. n - 1 : s = k * c
    BY DEF Aligned
  <2>2. k \in Int /\ k + n \in 0 .. BITS - 1 /\ ~(k + n < 0) /\ (k + n) - n = k
    BY <1>1, <2>1, SMT
  <2>3. RoundedDown(s, c) = k
    BY <1>1, <2>1, <2>2, FloorOfMultiple
  <2>4. BitPosition(s, sp) = k + n
    BY <2>2, <2>3 DEF BitPosition, Abs
  <2> QED BY <2>1, <2>2, <2>4 DEF StartOfBit
<1> QED BY <1>2, <1>3

(* The starts of a bitmap are aligned. *)
LEMMA StartsAligned ==
  ASSUME NEW sp \in Spacings, NEW B \in SUBSET (0 .. BITS - 1)
  PROVE  Starts(B, sp) \subseteq Aligned(sp)
BY BitOfStart DEF Starts

(* The array below one that is not the lowest. *)
LEMMA LowerNeighbour ==
  ASSUME NEW sp \in Spacings, NEW last \in Aligned(sp),
         ~(last - TickCountInArray(sp) < -MaxTickInTickArrayBitmap(sp))
  PROVE  last - TickCountInArray(sp) \in Aligned(sp)
<1> DEFINE c == TickCountInArray(sp)
           n == TICK_ARRAY_BITMAP_SIZE
<1>1. /\ c \in Nat \ {0} /\ n \in Nat \ {0}
      /\ MaxTickInTickArrayBitmap(sp) = n * c
  BY Sizes
<1>2. PICK k \in -n .. n - 1 : last = k * c
  BY DEF Aligned
<1>a. ~(last - c < -(n * c))
  BY <1>1
<1>b. k - 1 \in -n .. n - 1 => (k - 1) * c \in Aligned(sp)
  BY DEF Aligned
<1> HIDE DEF c, n
<1>3. k \in Int /\ k - 1 \in Int /\ -n \in Int
  BY <1>1, <1>2, SMT
<1>4. (k - 1) * c = last - c /\ (-n) * c = -(n * c) /\ n * c \in Int /\ k * c \in Int
  BY <1>1, <1>2, <1>3, SMT
<1>5. (-n) * c <= (k - 1) * c
  BY <1>1, <1>2, <1>4, <1>a, SMT
<1>6. -n <= k - 1
  BY <1>1, <1>3, <1>5, ScaledOrder
<1>7. k - 1 \in -n .. n - 1
  BY <1>1, <1>2, <1>3, <1>6, SMT
<1> QED BY <1>4, <1>7, <1>b DEF c

(* The array above one that is not the highest. *)
LEMMA UpperNeighbour ==
  ASSUME NEW sp \in Spacings, NEW last \in Aligned(sp),
         ~(last + TickCountInArray(sp) >= MaxTickInTickArrayBitmap(sp))
  PROVE  last + TickCountInArray(sp) \in Aligned(sp)
<1> DEFINE c == TickCountInArray(sp)
           n == TICK_ARRAY_BITMAP_SIZE
<1>1. /\ c \in Nat \ {0} /\ n \in Nat \ {0}
      /\ MaxTickInTickArrayBitmap(sp) = n * c
  BY Sizes
<1>2. PICK k \in -n .. n - 1 : last = k * c
  BY DEF Aligned
<1>a. ~(last + c >= n * c)
  BY <1>1
<1>b. k + 1 \in -n .. n - 1 => (k + 1) * c \in Aligned(sp)
  BY DEF Aligned
<1> HIDE DEF c, n
<1>3. k \in Int /\ k + 1 \in Int /\ n \in Int
  BY <1>1, <1>2, SMT
<1>4. (k + 1) * c = last + c /\ n * c \in Int /\ k * c \in Int
  BY <1>1, <1>2, <1>3, SMT
<1>5. (k + 1) * c < n * c
  BY <1>1, <1>2, <1>4, <1>a, SMT
<1>6. k + 1 < n
  BY <1>1, <1>3, <1>5, ScaledOrder
<1>7. k + 1 \in -n .. n - 1
  BY <1>1, <1>2, <1>3, <1>6, SMT
<1> QED BY <1>4, <1>7, <1>b DEF c

(* A search from a valid start answers the set start the swap meets next, or *)
(* that there is none, pointing at one of three starts.                      *)
LEMMA SearchAnswers ==
  ASSUME NEW sp \in Spacings, NEW B \in SUBSET (0 .. BITS - 1),
         NEW last \in Aligned(sp), NEW down \in BOOLEAN,
         IsValidTickArrayStartIndex(last, sp)
  PROVE  LET r == NextInitializedTickArrayStartIndex(B, last, sp, down)
         IN  \/ \E g \in Starts(B, sp) :
                  /\ Before(last, g, down)
                  /\ \A s \in Starts(B, sp) : Before(last, s, down) => ~Before(s, g, down)
                  /\ r = FoundAt(g)
             \/ /\ \A s \in Starts(B, sp) : ~Before(last, s, down)
                /\ \E x \in {last, -MaxTickInTickArrayBitmap(sp), HighestStart(sp)} :
                     r = NoneFrom(x)
<1> DEFINE c     == TickCountInArray(sp)
           bound == MaxTickInTickArrayBitmap(sp)
           r     == NextInitializedTickArrayStartIndex(B, last, sp, down)
<1>1. /\ c \in Nat \ {0} /\ bound \in Nat \ {0} /\ last \in Int
      /\ -bound <= last /\ last + c <= bound
  BY Sizes, StartsInBitmap
<1>2. \A s \in Starts(B, sp) : s \in Aligned(sp) /\ s \in Int /\ -bound <= s /\ s + c <= bound
  BY StartsAligned, StartsInBitmap
<1>3. CASE down
  <2> DEFINE next == last - c
  <2>1. NextCandidate(last, sp, down) = next
    BY <1>3 DEF NextCandidate
  <2>2. \A s \in Starts(B, sp) : s < last => s <= next
    <3> SUFFICES ASSUME NEW s \in Starts(B, sp), s < last PROVE s <= next
      OBVIOUS
    <3>1. s + c <= last
      BY <1>2, StartsApart
    <3> QED BY <1>1, <1>2, <3>1, SMT
  <2>3. CASE next < -bound
    <3>1. r = NoneFrom(last)
      BY <2>1, <2>3 DEF NextInitializedTickArrayStartIndex, NoneFrom
    <3>2. ASSUME NEW s \in Starts(B, sp) PROVE ~Before(last, s, down)
      <4>1. ~(s < last)
        BY <1>1, <1>2, <2>2, <2>3, SMT
      <4>2. ~(last > s)
        BY <1>1, <1>2, <4>1, SMT
      <4> QED BY <1>3, <4>2 DEF Before
    <3> QED BY <3>1, <3>2
  <2>4. CASE ~(next < -bound)
    <3>1. next \in Aligned(sp)
      BY <2>4, LowerNeighbour
    <3> DEFINE bit == BitPosition(next, sp)
    <3>2. bit \in 0 .. BITS - 1 /\ StartOfBit(bit, sp) = next
      BY <3>1, BitOfStart
    <3>3. ~(next >= bound)
      BY <1>1, SMT
    <3>4. r = SearchDown(B, bit, sp)
      BY <1>3, <2>1, <2>4, <3>3 DEF NextInitializedTickArrayStartIndex
    <3> HIDE DEF bit, r
    <3>5. \A b \in B : b \in Int /\ (b <= bit <=> StartOfBit(b, sp) <= next)
      <4>1. bit \in Int /\ \A b \in B : b \in Int
        BY <3>2, SMT
      <4> QED BY <3>2, <4>1, StartsOrdered
    <3>6. CASE /\ \A b \in B : b > bit
               /\ SearchDown(B, bit, sp) = NoneFrom(-bound)
      <4>1. ASSUME NEW b \in B PROVE ~Before(last, StartOfBit(b, sp), down)
        <5>1. ~(b <= bit)
          <6>1. b > bit /\ b \in Int /\ bit \in Int
            BY <3>2, <3>5, <3>6, SMT
          <6> QED BY <6>1, SMT
        <5>2. ~(StartOfBit(b, sp) < last)
          BY <2>2, <3>5, <5>1 DEF Starts
        <5>3. StartOfBit(b, sp) \in Int
          BY <1>2 DEF Starts
        <5>4. ~(last > StartOfBit(b, sp))
          BY <1>1, <5>2, <5>3, SMT
        <5> QED BY <1>3, <5>4 DEF Before
      <4> QED BY <3>4, <3>6, <4>1 DEF Starts, r
    <3>7. CASE \E g \in B : /\ g <= bit
                            /\ \A b \in B : b <= bit => b <= g
                            /\ SearchDown(B, bit, sp) = FoundAt(StartOfBit(g, sp))
      <4>1. PICK g \in B : /\ g <= bit
                           /\ \A b \in B : b <= bit => b <= g
                           /\ SearchDown(B, bit, sp) = FoundAt(StartOfBit(g, sp))
        BY <3>7
      <4> DEFINE start == StartOfBit(g, sp)
      <4>2. start \in Starts(B, sp) /\ start <= next /\ start \in Int
        BY <1>2, <3>5, <4>1 DEF Starts
      <4> HIDE DEF start
      <4>3. Before(last, start, down)
        <5>1. last > start
          BY <1>1, <4>2, SMT
        <5> QED BY <1>3, <5>1 DEF Before
      <4>4. ASSUME NEW b \in B, Before(last, StartOfBit(b, sp), down)
            PROVE  ~Before(StartOfBit(b, sp), start, down)
        <5>1. StartOfBit(b, sp) \in Int /\ last > StartOfBit(b, sp)
          BY <1>2, <1>3, <4>4 DEF Starts, Before
        <5>2. StartOfBit(b, sp) <= next
          <6>1. StartOfBit(b, sp) < last
            BY <1>1, <5>1, SMT
          <6> QED BY <2>2, <6>1 DEF Starts
        <5>3. b <= g
          BY <3>5, <4>1, <5>2
        <5>4. StartOfBit(b, sp) <= start
          BY <3>5, <5>3, StartsOrdered DEF start
        <5>5. ~(StartOfBit(b, sp) > start)
          BY <4>2, <5>1, <5>4, SMT
        <5> QED BY <1>3, <5>5 DEF Before
      <4> QED BY <3>4, <4>1, <4>2, <4>3, <4>4 DEF Starts, r, start
    <3> QED BY <3>2, <3>6, <3>7, SearchDownFinds
  <2> QED BY <2>3, <2>4
<1>4. CASE ~down
  <2> DEFINE next == last + c
  <2>1. NextCandidate(last, sp, down) = next
    BY <1>4 DEF NextCandidate
  <2>2. \A s \in Starts(B, sp) : last < s => next <= s
    BY <1>2, StartsApart
  <2>3. ~(next < -bound)
    BY <1>1, SMT
  <2>4. CASE next >= bound
    <3>1. r = NoneFrom(last)
      BY <2>1, <2>4 DEF NextInitializedTickArrayStartIndex, NoneFrom
    <3>2. ASSUME NEW s \in Starts(B, sp) PROVE ~Before(last, s, down)
      <4>1. ~(last < s)
        BY <1>1, <1>2, <2>2, <2>4, SMT
      <4> QED BY <1>4, <4>1 DEF Before
    <3> QED BY <3>1, <3>2
  <2>5. CASE ~(next >= bound)
    <3>1. next \in Aligned(sp)
      BY <2>5, UpperNeighbour
    <3> DEFINE bit == BitPosition(next, sp)
    <3>2. bit \in 0 .. BITS - 1 /\ StartOfBit(bit, sp) = next
      BY <3>1, BitOfStart
    <3>3. r = SearchUp(B, bit, sp)
      BY <1>4, <2>1, <2>3, <2>5 DEF NextInitializedTickArrayStartIndex
    <3> HIDE DEF bit, r
    <3>4. \A b \in B : b \in Int /\ (bit <= b <=> next <= StartOfBit(b, sp))
      <4>1. bit \in Int /\ \A b \in B : b \in Int
        BY <3>2, SMT
      <4> QED BY <3>2, <4>1, StartsOrdered
    <3>5. CASE /\ \A b \in B : b < bit
               /\ SearchUp(B, bit, sp) = NoneFrom(HighestStart(sp))
      <4>1. ASSUME NEW b \in B PROVE ~Before(last, StartOfBit(b, sp), down)
        <5>1. ~(bit <= b)
          <6>1. b < bit /\ b \in Int /\ bit \in Int
            BY <3>2, <3>4, <3>5, SMT
          <6> QED BY <6>1, SMT
        <5>2. ~(last < StartOfBit(b, sp))
          BY <2>2, <3>4, <5>1 DEF Starts
        <5> QED BY <1>4, <5>2 DEF Before
      <4> QED BY <3>3, <3>5, <4>1 DEF Starts, r
    <3>6. CASE \E g \in B : /\ bit <= g
                            /\ \A b \in B : bit <= b => g <= b
                            /\ SearchUp(B, bit, sp) = FoundAt(StartOfBit(g, sp))
      <4>1. PICK g \in B : /\ bit <= g
                           /\ \A b \in B : bit <= b => g <= b
                           /\ SearchUp(B, bit, sp) = FoundAt(StartOfBit(g, sp))
        BY <3>6
      <4> DEFINE start == StartOfBit(g, sp)
      <4>2. start \in Starts(B, sp) /\ next <= start /\ start \in Int
        BY <1>2, <3>4, <4>1 DEF Starts
      <4> HIDE DEF start
      <4>3. Before(last, start, down)
        <5>1. last < start
          BY <1>1, <4>2, SMT
        <5> QED BY <1>4, <5>1 DEF Before
      <4>4. ASSUME NEW b \in B, Before(last, StartOfBit(b, sp), down)
            PROVE  ~Before(StartOfBit(b, sp), start, down)
        <5>1. StartOfBit(b, sp) \in Int /\ last < StartOfBit(b, sp)
          BY <1>2, <1>4, <4>4 DEF Starts, Before
        <5>2. next <= StartOfBit(b, sp)
          BY <2>2, <5>1 DEF Starts
        <5>3. g <= b
          BY <3>4, <4>1, <5>2
        <5>4. start <= StartOfBit(b, sp)
          BY <3>4, <5>3, StartsOrdered DEF start
        <5>5. ~(StartOfBit(b, sp) < start)
          BY <4>2, <5>1, <5>4, SMT
        <5> QED BY <1>4, <5>5 DEF Before
      <4> QED BY <3>3, <4>1, <4>2, <4>3, <4>4 DEF Starts, r, start
    <3>7. \/ /\ \A b \in B : b < bit
             /\ SearchUp(B, bit, sp) = NoneFrom(HighestStart(sp))
          \/ \E g \in B : /\ bit <= g
                          /\ \A b \in B : bit <= b => g <= b
                          /\ SearchUp(B, bit, sp) = FoundAt(StartOfBit(g, sp))
      BY <3>2, SearchUpFinds
    <3> QED BY <3>5, <3>6, <3>7
  <2> QED BY <2>4, <2>5
<1> QED BY <1>3, <1>4

-----------------------------------------------------------------------------
(* The inductive invariant *)

(* A pool whose tick the bitmap represents, and whose bits are arrays that   *)
(* hold a tick of the domain.                                                *)
PoolTypes ==
  /\ spacing \in Spacings
  /\ bits \in SUBSET (0 .. BITS - 1)
  /\ \A s \in SetStarts : s <= MAX_TICK /\ s + Count > MIN_TICK
  /\ tick \in MIN_TICK - 1 .. MAX_TICK
  /\ -Boundary <= tick /\ tick < Boundary

WalkTypes ==
  /\ zeroForOne \in BOOLEAN /\ turned \in BOOLEAN
  /\ phase \in {"start", "walk", "exhausted", "failed"}
  /\ origin \in Aligned(spacing) /\ cursor \in Aligned(spacing)
  /\ gathered \in Seq(SetStarts)

(* The set starts on the side of the search.  The array a walk begins in     *)
(* belongs to it; the start a caller turns round at was answered before.     *)
Ahead ==
  {s \in SetStarts : (s = origin => ~turned) /\ ~Before(s, origin, zeroForOne)}

(* The first direction is searched from the array of the current tick.       *)
Begun ==
  phase \in {"walk", "exhausted"} =>
    MIN_TICK <= tick /\ (~turned => origin = ArrayStartIndexForTick(tick, spacing))

(* What has been gathered is what the search has met on its side, so far and *)
(* in the end.                                                               *)
GatheredSoFar ==
  /\ phase = "start" => gathered = <<>> /\ ~turned
  /\ phase = "walk" => /\ ~Before(cursor, origin, zeroForOne)
                       /\ Gathered = {s \in Ahead : ~Before(cursor, s, zeroForOne)}
  /\ phase = "exhausted" => Gathered = Ahead

(* A start that is passed on is valid, unless a negative answer gave it.     *)
Sentinels == {-Boundary, Boundary - Count}

CursorPassedOn ==
  /\ phase = "walk" =>
       \/ IsValidTickArrayStartIndex(cursor, spacing)
       \/ turned /\ gathered = <<>> /\ cursor \in Sentinels
  /\ phase = "exhausted" /\ ~turned =>
       IsValidTickArrayStartIndex(cursor, spacing) \/ cursor \in Sentinels

(* What a walk has done, against the set of initialized starts alone: the    *)
(* invariant says nothing of shifts and bits, which the lemmas on a search   *)
(* have put behind them.                                                     *)
IInv ==
  /\ PoolTypes
  /\ WalkTypes
  /\ Begun
  /\ GatheredSoFar
  /\ GatheredInOrder
  /\ CursorPassedOn
  /\ AssertOnlyBeyondDomain

(* The starts of the pool are the starts of its bits.                        *)
LEMMA PoolStarts ==
  ASSUME PoolTypes
  PROVE  /\ SetStarts = Starts(bits, spacing)
         /\ SetStarts \subseteq Aligned(spacing)
         /\ \A s \in Aligned(spacing) : s \in Int
BY StartsAligned, StartsInBitmap DEF PoolTypes, SetStarts, Starts

(* The order in which a swap meets ticks is strict and total.                *)
LEMMA BeforeOrder ==
  ASSUME NEW a \in Int, NEW b \in Int, NEW c \in Int, NEW down \in BOOLEAN
  PROVE  /\ ~Before(a, a, down)
         /\ Before(a, b, down) /\ Before(b, c, down) => Before(a, c, down)
         /\ ~Before(a, b, down) /\ ~Before(b, a, down) => a = b
         /\ Before(a, b, down) => ~Before(b, a, down) /\ a # b
         /\ Before(a, b, down) /\ ~Before(c, b, down) => Before(a, c, down)
         /\ ~Before(b, a, down) /\ Before(b, c, down) => Before(a, c, down)
<1>1. CASE down
  BY <1>1, SMT DEF Before
<1>2. CASE ~down
  BY <1>2, SMT DEF Before
<1> QED BY <1>1, <1>2

(* The starts a negative answer may point at are starts.                     *)
LEMMA SentinelsAligned ==
  ASSUME NEW sp \in Spacings
  PROVE  /\ 0 \in Aligned(sp)
         /\ -MaxTickInTickArrayBitmap(sp) \in Aligned(sp)
         /\ HighestStart(sp) \in Aligned(sp)
<1> DEFINE c == TickCountInArray(sp)
           n == TICK_ARRAY_BITMAP_SIZE
<1>1. /\ c \in Nat \ {0} /\ n \in Nat \ {0}
      /\ MaxTickInTickArrayBitmap(sp) = n * c
  BY Sizes
<1>2. \A k \in -n .. n - 1 : k * c \in Aligned(sp)
  BY DEF Aligned
<1>3. HighestStart(sp) = n * c - c
  BY <1>1 DEF HighestStart
<1> HIDE DEF c, n
<1>4. 0 \in -n .. n - 1 /\ -n \in -n .. n - 1 /\ n - 1 \in -n .. n - 1
  BY <1>1, SMT
<1>5. 0 * c = 0 /\ (-n) * c = -(n * c) /\ (n - 1) * c = n * c - c
  BY <1>1, SMT
<1>6. 0 * c \in Aligned(sp) /\ (-n) * c \in Aligned(sp) /\ (n - 1) * c \in Aligned(sp)
  BY <1>2, <1>4
<1> QED BY <1>1, <1>3, <1>5, <1>6

(* The array of a tick the bitmap represents: its start, and its bit.        *)
LEMMA StartOfTick ==
  ASSUME NEW sp \in Spacings, NEW t \in Int,
         -MaxTickInTickArrayBitmap(sp) <= t, t < MaxTickInTickArrayBitmap(sp)
  PROVE  LET s == ArrayStartIndexForTick(t, sp)
         IN  /\ s \in Aligned(sp)
             /\ s <= t /\ t < s + TickCountInArray(sp)
             /\ \A B \in SUBSET (0 .. BITS - 1) :
                  BitPosition(t, sp) \in B <=> s \in Starts(B, sp)
<1> DEFINE c == TickCountInArray(sp)
           n == TICK_ARRAY_BITMAP_SIZE
           k == RoundedDown(t, c)
           s == ArrayStartIndexForTick(t, sp)
<1>1. /\ c \in Nat \ {0} /\ n \in Nat \ {0}
      /\ MaxTickInTickArrayBitmap(sp) = n * c
  BY Sizes
<1>2. k \in Int /\ k * c <= t /\ t < k * c + c
  BY <1>1, FloorBracket
<1>3. s = k * c
  BY DEF ArrayStartIndexForTick
<1>4. k \in -n .. n - 1
  <2> HIDE DEF k, c, n
  <2>1. k * c \in Int /\ n * c \in Int /\ -n \in Int /\ n \in Int
    BY <1>1, <1>2, SMT
  <2>2. (-n) * c = -(n * c) /\ (k + 1) * c = k * c + c /\ k + 1 \in Int
    BY <1>1, <1>2, SMT
  <2>3. (-n) * c < (k + 1) * c /\ k * c < n * c
    BY <1>1, <1>2, <2>1, <2>2, SMT
  <2>4. -n < k + 1 /\ k < n
    BY <1>1, <1>2, <2>1, <2>2, <2>3, ScaledOrder
  <2> QED BY <1>1, <1>2, <2>4, SMT
<1>5. s \in Aligned(sp)
  BY <1>3, <1>4 DEF Aligned
<1>6. BitPosition(t, sp) = BitPosition(s, sp)
  BY <1>1, <1>2, <1>3, FloorOfMultiple DEF BitPosition
<1> HIDE DEF k, s, c, n
<1>7. ASSUME NEW B \in SUBSET (0 .. BITS - 1)
      PROVE  BitPosition(t, sp) \in B <=> s \in Starts(B, sp)
  <2> DEFINE bit == BitPosition(s, sp)
  <2>1. bit \in 0 .. BITS - 1 /\ StartOfBit(bit, sp) = s
    BY <1>5, BitOfStart
  <2> HIDE DEF bit
  <2>2. bit \in B => s \in Starts(B, sp)
    BY <2>1 DEF Starts
  <2>3. ASSUME s \in Starts(B, sp) PROVE bit \in B
    <3>1. PICK b \in B : s = StartOfBit(b, sp)
      BY <2>3 DEF Starts
    <3>2. b \in Int /\ bit \in Int
      BY <2>1, <3>1, SMT
    <3>3. b = bit
      BY <2>1, <3>1, <3>2, StartsOrdered
    <3> QED BY <3>1, <3>3
  <2> QED BY <1>6, <2>2, <2>3 DEF bit
<1> QED BY <1>2, <1>3, <1>5, <1>7 DEF s, c

-----------------------------------------------------------------------------
(* The steps of the walk *)

(* A sequence with one more element: what it holds, and in which order.      *)
LEMMA OneMore ==
  ASSUME NEW S, NEW q \in Seq(S), NEW x
  PROVE  /\ DOMAIN Append(q, x) = DOMAIN q \cup {Len(q) + 1}
         /\ \A i \in DOMAIN q : i \in Nat /\ i <= Len(q) /\ Append(q, x)[i] = q[i]
         /\ Len(q) \in Nat /\ Append(q, x)[Len(q) + 1] = x
<1>1. Len(q) \in Nat /\ DOMAIN q = 1 .. Len(q)
  BY SMT
<1>2. Len(Append(q, x)) = Len(q) + 1 /\ DOMAIN Append(q, x) = 1 .. Len(q) + 1
  BY SMT
<1>3. \A i \in 1 .. Len(q) : Append(q, x)[i] = q[i]
  BY SMT
<1>4. Append(q, x)[Len(q) + 1] = x
  BY SMT
<1>5. 1 .. Len(q) + 1 = (1 .. Len(q)) \cup {Len(q) + 1}
  BY <1>1, SMT
<1> QED BY <1>1, <1>2, <1>3, <1>4, <1>5, SMT

(* Nothing is gathered before the walk starts. *)
LEMMA InitIInv == Init => IInv
<1> SUFFICES ASSUME Init PROVE IInv
  OBVIOUS
<1>1. /\ spacing \in Spacings /\ phase = "start" /\ turned = FALSE
      /\ origin = 0 /\ cursor = 0 /\ gathered = <<>>
  BY DEF Init
<1>2. bits \in SUBSET (0 .. BITS - 1)
  <2>1. PICK s \in ArraySets : bits = {a + TICK_ARRAY_BITMAP_SIZE : a \in s}
    BY DEF Init
  <2>2. /\ s \subseteq -TICK_ARRAY_BITMAP_SIZE .. TICK_ARRAY_BITMAP_SIZE - 1
        /\ TICK_ARRAY_BITMAP_SIZE \in Nat \ {0}
    BY <2>1, BitmapAssumption
  <2>3. \A a \in s : a + TICK_ARRAY_BITMAP_SIZE \in 0 .. BITS - 1
    BY <2>2, SMT DEF BITS
  <2> QED BY <2>1, <2>3
<1>3. PoolTypes
  BY <1>1, <1>2 DEF Init, PoolTypes
<1>4. WalkTypes
  <2>1. <<>> \in Seq(SetStarts)
    BY SMT
  <2> QED BY <1>1, <2>1, SentinelsAligned DEF Init, WalkTypes
<1>5. GatheredInOrder
  <2>1. DOMAIN gathered = {}
    BY <1>1
  <2> QED BY <2>1 DEF GatheredInOrder
<1> QED BY <1>1, <1>3, <1>4, <1>5
        DEF IInv, Begun, GatheredSoFar, CursorPassedOn, AssertOnlyBeyondDomain

(* The pool stays as it is. *)
LEMMA PoolKept ==
  ASSUME IInv, UNCHANGED pool
  PROVE  /\ PoolTypes' /\ Aligned(spacing)' = Aligned(spacing)
         /\ SetStarts' = SetStarts /\ Sentinels' = Sentinels
<1>1. bits' = bits /\ spacing' = spacing /\ tick' = tick
  BY DEF pool
<1> QED BY <1>1 DEF IInv, PoolTypes, Aligned, SetStarts, Sentinels, Boundary, Count

(* A tick outside the domain is refused: it can only be the one below it. *)
LEMMA CheckCurrentFailsIInv ==
  ASSUME IInv, CheckCurrentFails
  PROVE  IInv'
<1>1. /\ phase = "start" /\ phase' = "failed" /\ UNCHANGED pool
      /\ zeroForOne' = zeroForOne /\ turned' = turned /\ origin' = origin
      /\ cursor' = cursor /\ gathered' = gathered
  BY DEF CheckCurrentFails
<1>2. IsTickOutOfBoundary(tick)
  BY DEF CheckCurrentFails, Current, CheckCurrentTickArrayIsInitialized
<1>3. tick \in Int /\ tick <= MAX_TICK /\ MAX_TICK \in Int
  BY BitmapAssumption, SMT DEF IInv, PoolTypes, MIN_TICK
<1>4. tick' < MIN_TICK
  BY <1>1, <1>2, <1>3, SMT DEF IsTickOutOfBoundary, pool
<1>5. PoolTypes' /\ WalkTypes'
  BY <1>1, PoolKept DEF IInv, WalkTypes
<1> QED BY <1>1, <1>4, <1>5
        DEF IInv, Begun, GatheredSoFar, GatheredInOrder, CursorPassedOn,
            AssertOnlyBeyondDomain

(* The walk begins in the array of the current tick, gathered if its bit is  *)
(* set.                                                                      *)
LEMMA CheckCurrentIInv ==
  ASSUME IInv, CheckCurrent
  PROVE  IInv'
<1> DEFINE s == ArrayStartIndexForTick(tick, spacing)
<1>1. /\ phase = "start" /\ phase' = "walk" /\ UNCHANGED pool
      /\ zeroForOne' = zeroForOne /\ turned' = turned /\ Current.tag = "ok"
  BY DEF CheckCurrent
<1>2. /\ ~IsTickOutOfBoundary(tick)
      /\ Current.start = s
      /\ Current.initialized = (BitPosition(tick, spacing) \in bits)
  BY <1>1 DEF Current, CheckCurrentTickArrayIsInitialized, CheckError
<1>3. /\ origin' = s /\ cursor' = s
      /\ gathered' = IF BitPosition(tick, spacing) \in bits THEN <<s>> ELSE <<>>
  BY <1>2 DEF CheckCurrent
<1>4. /\ PoolTypes /\ PoolTypes' /\ spacing \in Spacings /\ tick \in Int
      /\ bits \in SUBSET (0 .. BITS - 1) /\ Aligned(spacing)' = Aligned(spacing)
      /\ SetStarts' = SetStarts /\ ~turned /\ zeroForOne \in BOOLEAN
      /\ zeroForOne' \in BOOLEAN /\ turned' \in BOOLEAN
  <2>1. PoolTypes /\ tick \in Int
    BY BitmapAssumption, SMT DEF IInv, PoolTypes, MIN_TICK
  <2> QED BY <1>1, <2>1, PoolKept DEF IInv, PoolTypes, GatheredSoFar, WalkTypes
<1>5. s \in Aligned(spacing) /\ s \in Int /\ s <= tick /\ tick < s + Count
  BY <1>4, StartOfTick, PoolStarts DEF PoolTypes, Boundary, Count
<1>6. BitPosition(tick, spacing) \in bits <=> s \in SetStarts
  BY <1>4, StartOfTick, PoolStarts DEF PoolTypes, Boundary
<1>7. spacing' = spacing /\ tick' = tick
  BY <1>1 DEF pool
<1>8. MIN_TICK <= tick /\ tick <= MAX_TICK
  BY <1>2, <1>4, BitmapAssumption, SMT DEF IsTickOutOfBoundary, MIN_TICK
<1>9. IsValidTickArrayStartIndex(s, spacing)
  <2>1. Count \in Nat /\ MIN_TICK \in Int /\ MAX_TICK \in Int
    BY <1>4, Sizes, SMT DEF Count
  <2>2. s <= MAX_TICK /\ s + Count > MIN_TICK
    BY <1>4, <1>5, <1>8, <2>1, SMT
  <2> QED BY <1>4, <1>5, <2>2, ValidStart DEF Count
<1> HIDE DEF s
<1>10. gathered' = IF s \in SetStarts THEN <<s>> ELSE <<>>
  BY <1>3, <1>6
<1>11. gathered' \in Seq(SetStarts)
  BY <1>10, SMT
<1>12. Gathered' = {u \in SetStarts : u = s}
  <2>1. CASE s \in SetStarts
    <3>1. DOMAIN gathered' = {1} /\ gathered'[1] = s
      BY <1>10, <2>1, SMT
    <3> QED BY <2>1, <3>1 DEF Gathered
  <2>2. CASE s \notin SetStarts
    <3>1. DOMAIN gathered' = {}
      BY <1>10, <2>2
    <3> QED BY <2>2, <3>1 DEF Gathered
  <2> QED BY <2>1, <2>2
<1>13. GatheredInOrder'
  <2>1. \A i, j \in DOMAIN gathered' : ~(i < j)
    <3>1. DOMAIN gathered' \subseteq {1}
      BY <1>10, SMT
    <3> QED BY <3>1, SMT
  <2> QED BY <2>1 DEF GatheredInOrder
<1>14. ASSUME NEW u \in SetStarts
       PROVE  u = s <=> ~Before(u, s, zeroForOne) /\ ~Before(s, u, zeroForOne)
  <2>1. u \in Int
    BY <1>4, PoolStarts
  <2> QED BY <1>4, <1>5, <2>1, BeforeOrder
<1>15. ~Before(s, s, zeroForOne)
  BY <1>4, <1>5, BeforeOrder
<1>16. GatheredSoFar'
  <2>1. {u \in Ahead' : ~Before(s, u, zeroForOne)} = {u \in SetStarts : u = s}
    BY <1>1, <1>3, <1>4, <1>14 DEF Ahead
  <2> QED BY <1>1, <1>3, <1>12, <1>15, <2>1 DEF GatheredSoFar
<1>17. WalkTypes'
  BY <1>1, <1>3, <1>4, <1>5, <1>11 DEF WalkTypes
<1>18. Begun' /\ CursorPassedOn' /\ AssertOnlyBeyondDomain'
  BY <1>1, <1>3, <1>7, <1>8, <1>9 DEF Begun, CursorPassedOn, AssertOnlyBeyondDomain, s
<1> QED BY <1>4, <1>13, <1>16, <1>17, <1>18 DEF IInv

(* What a search from the cursor finds, in terms of the starts of the pool.  *)
LEMMA FoundAnswers ==
  ASSUME IInv, IsValidTickArrayStartIndex(cursor, spacing)
  PROVE  \/ \E g \in SetStarts :
              /\ Before(cursor, g, zeroForOne)
              /\ \A s \in SetStarts : Before(cursor, s, zeroForOne) => ~Before(s, g, zeroForOne)
              /\ Found.tag = "ok" /\ Found.found /\ Found.start = g
         \/ /\ \A s \in SetStarts : ~Before(cursor, s, zeroForOne)
            /\ Found.tag = "ok" /\ ~Found.found
            /\ Found.start \in {cursor} \cup Sentinels
<1>1. /\ spacing \in Spacings /\ bits \in SUBSET (0 .. BITS - 1)
      /\ cursor \in Aligned(spacing) /\ zeroForOne \in BOOLEAN
      /\ SetStarts = Starts(bits, spacing)
  BY PoolStarts DEF IInv, PoolTypes, WalkTypes
<1>2. \/ \E g \in Starts(bits, spacing) :
           /\ Before(cursor, g, zeroForOne)
           /\ \A s \in Starts(bits, spacing) :
                Before(cursor, s, zeroForOne) => ~Before(s, g, zeroForOne)
           /\ Found = FoundAt(g)
      \/ /\ \A s \in Starts(bits, spacing) : ~Before(cursor, s, zeroForOne)
         /\ \E x \in {cursor, -MaxTickInTickArrayBitmap(spacing), HighestStart(spacing)} :
              Found = NoneFrom(x)
  BY <1>1, SearchAnswers DEF Found
<1>3. Sentinels = {-MaxTickInTickArrayBitmap(spacing), HighestStart(spacing)}
  BY DEF Sentinels, Boundary, Count, HighestStart
<1> QED BY <1>1, <1>2, <1>3 DEF Answer, FoundAt, NoneFrom

(* The assertion is the only way a search can fail. *)
LEMMA OnlyAssertion ==
  ASSUME IInv
  PROVE  Found.tag = "panic" <=> ~IsValidTickArrayStartIndex(cursor, spacing)
<1>1. CASE IsValidTickArrayStartIndex(cursor, spacing)
  <2>1. Found.tag = "ok"
    BY <1>1, FoundAnswers
  <2> QED BY <1>1, <2>1
<1>2. CASE ~IsValidTickArrayStartIndex(cursor, spacing)
  BY <1>2 DEF Found, NextInitializedTickArrayStartIndex, AssertFails
<1> QED BY <1>1, <1>2

(* The array found is the next one of the side, and nothing lies between.    *)
LEMMA NextArrayIInv ==
  ASSUME IInv, NextArray
  PROVE  IInv'
<1>1. /\ phase = "walk" /\ phase' = phase /\ UNCHANGED pool
      /\ zeroForOne' = zeroForOne /\ turned' = turned /\ origin' = origin
      /\ Found.tag = "ok" /\ Found.found
      /\ cursor' = Found.start /\ gathered' = Append(gathered, Found.start)
  BY DEF NextArray
<1>2. IsValidTickArrayStartIndex(cursor, spacing)
  BY <1>1, OnlyAssertion
<1>3. PICK g \in SetStarts :
        /\ Before(cursor, g, zeroForOne)
        /\ \A s \in SetStarts : Before(cursor, s, zeroForOne) => ~Before(s, g, zeroForOne)
        /\ Found.start = g
  BY <1>1, <1>2, FoundAnswers
<1>4. /\ PoolTypes /\ WalkTypes /\ GatheredInOrder
      /\ ~Before(cursor, origin, zeroForOne)
      /\ Gathered = {s \in Ahead : ~Before(cursor, s, zeroForOne)}
  BY <1>1 DEF IInv, GatheredSoFar
<1>5. /\ SetStarts \subseteq Aligned(spacing) /\ g \in Int /\ cursor \in Int /\ origin \in Int
      /\ zeroForOne \in BOOLEAN /\ \A s \in SetStarts : s \in Int
      /\ gathered \in Seq(SetStarts) /\ g \in Aligned(spacing)
  BY <1>4, PoolStarts DEF WalkTypes
<1>6. PoolTypes' /\ Aligned(spacing)' = Aligned(spacing) /\ SetStarts' = SetStarts
  BY <1>1, PoolKept
<1>7. gathered' = Append(gathered, g) /\ cursor' = g
  BY <1>1, <1>3
<1>8. gathered' \in Seq(SetStarts)
  BY <1>5, <1>7, SMT
<1>9. /\ DOMAIN gathered' = DOMAIN gathered \cup {Len(gathered) + 1}
      /\ \A i \in DOMAIN gathered :
           i \in Nat /\ i <= Len(gathered) /\ gathered'[i] = gathered[i]
      /\ Len(gathered) \in Nat /\ gathered'[Len(gathered) + 1] = g
  BY <1>5, <1>7, OneMore
<1>10. Gathered' = Gathered \cup {g}
  BY <1>9 DEF Gathered
<1>11. /\ ~Before(g, origin, zeroForOne) /\ g # origin
  <2>1. Before(origin, g, zeroForOne)
    BY <1>3, <1>4, <1>5, BeforeOrder
  <2> QED BY <1>5, <2>1, BeforeOrder
<1>12. Ahead' = Ahead /\ g \in Ahead
  BY <1>1, <1>6, <1>11 DEF Ahead
<1>13. ASSUME NEW s \in Ahead
       PROVE  ~Before(g, s, zeroForOne) <=> ~Before(cursor, s, zeroForOne) \/ s = g
  <2>1. s \in SetStarts /\ s \in Int
    BY <1>5 DEF Ahead
  <2>2. Before(cursor, s, zeroForOne) /\ ~Before(g, s, zeroForOne) => s = g
    BY <1>3, <1>5, <2>1, BeforeOrder
  <2>3. ~Before(cursor, s, zeroForOne) => ~Before(g, s, zeroForOne)
    BY <1>3, <1>5, <2>1, BeforeOrder
  <2>4. ~Before(g, g, zeroForOne)
    BY <1>5, BeforeOrder
  <2> QED BY <2>2, <2>3, <2>4
<1>14. GatheredSoFar'
  <2>1. Gathered' = {s \in Ahead : ~Before(g, s, zeroForOne)}
    BY <1>4, <1>10, <1>12, <1>13
  <2> QED BY <1>1, <1>7, <1>11, <1>12, <2>1 DEF GatheredSoFar
<1>15. GatheredInOrder'
  <2> SUFFICES ASSUME NEW i \in DOMAIN gathered', NEW j \in DOMAIN gathered', i < j
               PROVE  Before(gathered'[i], gathered'[j], zeroForOne)
    BY <1>1 DEF GatheredInOrder, Before
  <2>1. i \in DOMAIN gathered
    BY <1>9, SMT
  <2>2. CASE j \in DOMAIN gathered
    <3>1. Before(gathered[i], gathered[j], zeroForOne)
      BY <1>4, <2>1, <2>2 DEF GatheredInOrder, Before
    <3> QED BY <1>9, <2>1, <2>2, <3>1
  <2>3. CASE j = Len(gathered) + 1
    <3>1. gathered[i] \in Gathered
      BY <2>1 DEF Gathered
    <3>2. gathered[i] \in Int /\ ~Before(cursor, gathered[i], zeroForOne)
      BY <1>4, <1>5, <3>1 DEF Ahead
    <3>3. Before(gathered[i], g, zeroForOne)
      BY <1>3, <1>5, <3>2, BeforeOrder
    <3> QED BY <1>9, <2>1, <2>3, <3>3
  <2> QED BY <1>9, <2>2, <2>3
<1>16. IsValidTickArrayStartIndex(g, spacing)
  <2>1. g <= MAX_TICK /\ g + Count > MIN_TICK /\ spacing \in Spacings
    BY <1>3, <1>4 DEF PoolTypes
  <2> QED BY <1>5, <2>1, ValidStart DEF Count
<1>17. spacing' = spacing /\ tick' = tick
  BY <1>1 DEF pool
<1>18. WalkTypes'
  BY <1>1, <1>4, <1>5, <1>6, <1>7, <1>8 DEF WalkTypes
<1>19. Begun'
  BY <1>1, <1>17 DEF IInv, Begun
<1>20. CursorPassedOn' /\ AssertOnlyBeyondDomain'
  BY <1>1, <1>7, <1>16, <1>17 DEF CursorPassedOn, AssertOnlyBeyondDomain
<1> QED BY <1>6, <1>14, <1>15, <1>18, <1>19, <1>20 DEF IInv

(* When there is none, everything on the side has been gathered.             *)
LEMMA NoneLeftIInv ==
  ASSUME IInv, NoneLeft
  PROVE  IInv'
<1>1. /\ phase = "walk" /\ phase' = "exhausted" /\ UNCHANGED pool
      /\ zeroForOne' = zeroForOne /\ turned' = turned /\ origin' = origin
      /\ Found.tag = "ok" /\ ~Found.found
      /\ cursor' = Found.start /\ gathered' = gathered
  BY DEF NoneLeft
<1>2. IsValidTickArrayStartIndex(cursor, spacing)
  BY <1>1, OnlyAssertion
<1>3. /\ \A s \in SetStarts : ~Before(cursor, s, zeroForOne)
      /\ cursor' \in {cursor} \cup Sentinels
  BY <1>1, <1>2, FoundAnswers
<1>4. /\ PoolTypes' /\ Aligned(spacing)' = Aligned(spacing) /\ SetStarts' = SetStarts
      /\ Sentinels' = Sentinels
  BY <1>1, PoolKept
<1>5. spacing' = spacing /\ tick' = tick
  BY <1>1 DEF pool
<1>6. Sentinels \subseteq Aligned(spacing)
  BY SentinelsAligned DEF IInv, PoolTypes, Sentinels, Boundary, Count, HighestStart
<1>7. WalkTypes'
  BY <1>1, <1>3, <1>4, <1>6 DEF IInv, WalkTypes
<1>8. Ahead' = Ahead
  BY <1>1, <1>4 DEF Ahead
<1>9. Gathered' = Ahead
  <2>1. Gathered' = Gathered
    BY <1>1 DEF Gathered
  <2>2. Gathered = {s \in Ahead : ~Before(cursor, s, zeroForOne)}
    BY <1>1 DEF IInv, GatheredSoFar
  <2> QED BY <1>3, <2>1, <2>2 DEF Ahead
<1>10. GatheredSoFar'
  BY <1>1, <1>8, <1>9 DEF GatheredSoFar
<1>11. GatheredInOrder'
  BY <1>1 DEF IInv, GatheredInOrder
<1>12. Begun' /\ AssertOnlyBeyondDomain'
  BY <1>1, <1>5 DEF IInv, Begun, AssertOnlyBeyondDomain
<1>13. CursorPassedOn'
  BY <1>1, <1>2, <1>3, <1>4, <1>5 DEF CursorPassedOn
<1> QED BY <1>4, <1>7, <1>10, <1>11, <1>12, <1>13 DEF IInv

(* The assertion fails on a sentinel beyond the domain.                      *)
LEMMA AssertionFailsIInv ==
  ASSUME IInv, AssertionFails
  PROVE  IInv'
<1>1. /\ phase = "walk" /\ phase' = "failed" /\ UNCHANGED pool
      /\ zeroForOne' = zeroForOne /\ turned' = turned /\ origin' = origin
      /\ Found.tag = "panic" /\ cursor' = cursor /\ gathered' = gathered
  BY DEF AssertionFails
<1>2. ~IsValidTickArrayStartIndex(cursor, spacing)
  BY <1>1, OnlyAssertion
<1>3. turned /\ gathered = <<>> /\ cursor \in Sentinels
  BY <1>1, <1>2 DEF IInv, CursorPassedOn
<1>4. spacing \in Spacings /\ cursor \in Aligned(spacing)
  BY DEF IInv, PoolTypes, WalkTypes
<1>5. cursor > MAX_TICK \/ cursor + Count <= MIN_TICK
  <2>1. ~(cursor <= MAX_TICK /\ cursor + Count > MIN_TICK)
    BY <1>2, <1>4, ValidStart DEF Count
  <2>2. cursor \in Int /\ Count \in Int /\ MAX_TICK \in Int /\ MIN_TICK \in Int
    BY <1>4, StartsInBitmap, Sizes, SMT DEF Count
  <2> QED BY <2>1, <2>2, SMT
<1>6. /\ PoolTypes' /\ Aligned(spacing)' = Aligned(spacing) /\ SetStarts' = SetStarts
      /\ Sentinels' = Sentinels
  BY <1>1, PoolKept
<1>7. spacing' = spacing /\ tick' = tick
  BY <1>1 DEF pool
<1>8. WalkTypes' /\ GatheredInOrder'
  BY <1>1, <1>6 DEF IInv, WalkTypes, GatheredInOrder
<1>9. AssertOnlyBeyondDomain'
  BY <1>1, <1>3, <1>5, <1>7 DEF AssertOnlyBeyondDomain, Sentinels, Boundary, Count
<1> QED BY <1>1, <1>6, <1>8, <1>9 DEF IInv, Begun, GatheredSoFar, CursorPassedOn

(* The other direction starts where the first one stopped, with nothing met. *)
LEMMA TurnAroundIInv ==
  ASSUME IInv, TurnAround
  PROVE  IInv'
<1>1. /\ phase = "exhausted" /\ phase' = "walk" /\ UNCHANGED pool /\ ~turned
      /\ turned' = TRUE /\ zeroForOne' = ~zeroForOne /\ origin' = cursor
      /\ cursor' = cursor /\ gathered' = <<>>
  BY DEF TurnAround
<1>2. /\ PoolTypes' /\ Aligned(spacing)' = Aligned(spacing) /\ SetStarts' = SetStarts
      /\ Sentinels' = Sentinels
  BY <1>1, PoolKept
<1>3. spacing' = spacing /\ tick' = tick
  BY <1>1 DEF pool
<1>4. WalkTypes'
  <2>1. <<>> \in Seq(SetStarts)
    BY SMT
  <2>2. zeroForOne' \in BOOLEAN
    BY <1>1 DEF IInv, WalkTypes
  <2> QED BY <1>1, <1>2, <2>1, <2>2 DEF IInv, WalkTypes
<1>5. cursor \in Int /\ zeroForOne' \in BOOLEAN /\ \A s \in SetStarts : s \in Int
  BY <1>1, PoolStarts DEF IInv, WalkTypes
<1>6. DOMAIN gathered' = {}
  BY <1>1
<1>7. Gathered' = {}
  BY <1>6 DEF Gathered
<1>8. {s \in Ahead' : ~Before(cursor, s, zeroForOne')} = {}
  <2> SUFFICES ASSUME NEW s \in Ahead', ~Before(cursor, s, zeroForOne')
               PROVE  FALSE
    OBVIOUS
  <2>1. s \in Int /\ s # cursor /\ ~Before(s, cursor, zeroForOne')
    BY <1>1, <1>2, <1>5 DEF Ahead
  <2> QED BY <1>5, <2>1, BeforeOrder
<1>9. ~Before(cursor, cursor, zeroForOne')
  BY <1>5, BeforeOrder
<1>10. GatheredSoFar'
  BY <1>1, <1>7, <1>8, <1>9 DEF GatheredSoFar
<1>11. GatheredInOrder'
  BY <1>6 DEF GatheredInOrder
<1>12. Begun' /\ AssertOnlyBeyondDomain'
  BY <1>1, <1>3 DEF IInv, Begun, AssertOnlyBeyondDomain
<1>13. CursorPassedOn'
  BY <1>1, <1>2, <1>3 DEF IInv, CursorPassedOn
<1> QED BY <1>2, <1>4, <1>10, <1>11, <1>12, <1>13 DEF IInv

(* The invariant is inductive. *)
LEMMA NextIInv == IInv /\ [Next]_vars => IInv'
<1> SUFFICES ASSUME IInv, [Next]_vars PROVE IInv'
  OBVIOUS
<1>1. CASE UNCHANGED vars
  <2>1. /\ UNCHANGED pool /\ zeroForOne' = zeroForOne /\ turned' = turned
        /\ phase' = phase /\ origin' = origin /\ cursor' = cursor /\ gathered' = gathered
        /\ spacing' = spacing /\ tick' = tick
    BY <1>1 DEF vars, pool
  <2>2. /\ PoolTypes' /\ Aligned(spacing)' = Aligned(spacing) /\ SetStarts' = SetStarts
        /\ Sentinels' = Sentinels
    BY <2>1, PoolKept
  <2>3. WalkTypes' /\ Begun' /\ GatheredInOrder' /\ CursorPassedOn'
    BY <2>1, <2>2 DEF IInv, WalkTypes, Begun, GatheredInOrder, CursorPassedOn
  <2>4. GatheredSoFar'
    BY <2>1, <2>2 DEF IInv, GatheredSoFar, Gathered, Ahead
  <2>5. AssertOnlyBeyondDomain'
    BY <2>1 DEF IInv, AssertOnlyBeyondDomain, Boundary, Count
  <2> QED BY <2>2, <2>3, <2>4, <2>5 DEF IInv
<1> QED BY <1>1, CheckCurrentFailsIInv, CheckCurrentIInv, NextArrayIInv, NoneLeftIInv,
           AssertionFailsIInv, TurnAroundIInv DEF Next

-----------------------------------------------------------------------------
(* What every walk keeps to *)

(* The invariant holds throughout a walk there and back, for every pool.     *)
THEOREM Invariance == Spec => []IInv
BY InitIInv, NextIInv, PTL DEF Spec

(* Every index a search answers is in the half-open range of the bitmap, and *)
(* every array gathered has its bit set.                                     *)
THEOREM AnswersTyped == Spec => []TypeOK
<1>1. IInv => TypeOK
  <2> SUFFICES ASSUME IInv PROVE TypeOK
    OBVIOUS
  <2>1. spacing \in Spacings /\ origin \in Aligned(spacing) /\ cursor \in Aligned(spacing)
    BY DEF IInv, PoolTypes, WalkTypes
  <2>2. Boundary \in Nat /\ Count \in Nat \ {0}
    BY <2>1, Sizes DEF Boundary, Count
  <2>3. /\ origin \in Int /\ -Boundary <= origin /\ origin + Count <= Boundary
        /\ cursor \in Int /\ -Boundary <= cursor /\ cursor + Count <= Boundary
    BY <2>1, StartsInBitmap DEF Boundary, Count
  <2>4. origin \in -Boundary .. Boundary - 1 /\ cursor \in -Boundary .. Boundary - 1
    BY <2>2, <2>3, SMT
  <2> QED BY <2>4 DEF IInv, PoolTypes, WalkTypes, TypeOK
<1> QED BY <1>1, Invariance, PTL

(* No initialized array that holds a tick on the side of the swap is missed. *)
THEOREM GathersEveryArray == Spec => []NoArraySkipped
<1>1. IInv => NoArraySkipped
  <2> SUFFICES ASSUME IInv, phase = "exhausted", ~turned, NEW s \in SetStarts,
                      NEW t \in s .. s + Count - 1,
                      IF zeroForOne THEN t <= tick ELSE t >= tick
               PROVE  s \in Gathered
    BY DEF NoArraySkipped
  <2>1. /\ spacing \in Spacings /\ SetStarts \subseteq Aligned(spacing)
        /\ origin \in Aligned(spacing) /\ Gathered = Ahead /\ zeroForOne \in BOOLEAN
        /\ origin = ArrayStartIndexForTick(tick, spacing)
    BY PoolStarts DEF IInv, PoolTypes, WalkTypes, GatheredSoFar, Begun
  <2>2. tick \in Int
    BY BitmapAssumption, SMT DEF IInv, PoolTypes, MIN_TICK
  <2>3. origin <= tick /\ tick < origin + Count
    BY <2>1, <2>2, StartOfTick DEF IInv, PoolTypes, Boundary, Count
  <2>4. s \in Int /\ origin \in Int /\ Count \in Nat
    BY <2>1, StartsInBitmap, Sizes DEF Count
  <2>5. t \in Int /\ s <= t /\ t < s + Count
    BY <2>4, SMT
  <2>6. ~Before(s, origin, zeroForOne)
    <3>1. CASE zeroForOne
      <4>1. origin < s => origin + Count <= s
        BY <2>1, StartsApart DEF Count
      <4>2. t <= tick
        BY <3>1
      <4>3. ~(s > origin)
        BY <2>2, <2>3, <2>4, <2>5, <4>1, <4>2, SMT
      <4> QED BY <3>1, <4>3 DEF Before
    <3>2. CASE ~zeroForOne
      <4>1. s < origin => s + Count <= origin
        BY <2>1, StartsApart DEF Count
      <4>2. t >= tick
        BY <3>2
      <4>3. ~(s < origin)
        BY <2>2, <2>3, <2>4, <2>5, <4>1, <4>2, SMT
      <4> QED BY <3>2, <4>3 DEF Before
    <3> QED BY <3>1, <3>2
  <2> QED BY <2>1, <2>6 DEF Ahead
<1> QED BY <1>1, Invariance, PTL

(* The search back sees every array beyond the start it turned round at.     *)
THEOREM TurnsWithoutLoss == Spec => []TurningLosesNothing
<1>1. IInv => TurningLosesNothing
  <2> SUFFICES ASSUME IInv, phase = "exhausted", turned
               PROVE  Gathered = {s \in SetStarts : IF zeroForOne THEN s < origin ELSE s > origin}
    BY DEF TurningLosesNothing
  <2>1. Gathered = Ahead /\ origin \in Int /\ \A s \in SetStarts : s \in Int
    BY PoolStarts DEF IInv, GatheredSoFar, WalkTypes
  <2>2. ASSUME NEW s \in SetStarts
        PROVE  s \in Ahead <=> IF zeroForOne THEN s < origin ELSE s > origin
    <3>1. s \in Ahead <=> s # origin /\ ~Before(s, origin, zeroForOne)
      BY DEF Ahead
    <3>2. CASE zeroForOne
      <4>1. s # origin /\ ~(s > origin) <=> s < origin
        BY <2>1, SMT
      <4> QED BY <3>1, <3>2, <4>1 DEF Before
    <3>3. CASE ~zeroForOne
      <4>1. s # origin /\ ~(s < origin) <=> s > origin
        BY <2>1, SMT
      <4> QED BY <3>1, <3>3, <4>1 DEF Before
    <3> QED BY <3>2, <3>3
  <2> QED BY <2>1, <2>2 DEF Ahead
<1> QED BY <1>1, Invariance, PTL

(* Arrays are gathered in the order the swap meets them, each once.          *)
THEOREM GathersInOrder == Spec => []GatheredInOrder
<1>1. IInv => GatheredInOrder
  BY DEF IInv
<1> QED BY <1>1, Invariance, PTL

(* The assertion fails only on a sentinel outside the arrays of the domain.  *)
THEOREM AssertionIsLocal == Spec => []AssertOnlyBeyondDomain
<1>1. IInv => AssertOnlyBeyondDomain
  BY DEF IInv
<1> QED BY <1>1, Invariance, PTL

(* Every answer belongs to the half of the default bitmap on its side of 0.  *)
THEOREM AnswersStayInBitmap == Spec => []AnswersInDefaultBitmap
<1>1. IInv => AnswersInDefaultBitmap
  <2> SUFFICES ASSUME IInv PROVE AnswersInDefaultBitmap
    OBVIOUS
  <2>1. spacing \in Spacings /\ cursor \in Aligned(spacing)
    BY DEF IInv, PoolTypes, WalkTypes
  <2>2. /\ Boundary \in Nat \ {0} /\ Count \in Nat \ {0} /\ cursor \in Int
        /\ -Boundary <= cursor /\ cursor + Count <= Boundary
    BY <2>1, Sizes, StartsInBitmap DEF Boundary, Count
  <2> DEFINE half == RoundedDown(cursor, Boundary)
  <2>3. BitmapTickBoundary(cursor, spacing) = <<half * Boundary, half * Boundary + Boundary>>
    BY DEF BitmapTickBoundary, Boundary
  <2>4. CASE cursor < 0
    <3>1. (-1) * Boundary <= cursor /\ cursor < (-1) * Boundary + Boundary
      BY <2>2, <2>4, SMT
    <3>2. half = -1
      BY <2>2, <3>1, FloorUnique
    <3>3. half * Boundary = -Boundary /\ half * Boundary + Boundary = 0
      BY <2>2, <3>2, SMT
    <3> QED BY <2>3, <2>4, <3>3 DEF AnswersInDefaultBitmap
  <2>5. CASE ~(cursor < 0)
    <3>1. 0 * Boundary <= cursor /\ cursor < 0 * Boundary + Boundary
      BY <2>2, <2>5, SMT
    <3>2. half = 0
      BY <2>2, <3>1, FloorUnique
    <3>3. half * Boundary = 0 /\ half * Boundary + Boundary = Boundary
      BY <2>2, <3>2, SMT
    <3> QED BY <2>3, <2>5, <3>3 DEF AnswersInDefaultBitmap
  <2> QED BY <2>4, <2>5
<1> QED BY <1>1, Invariance, PTL

-----------------------------------------------------------------------------
(* The bits of one word *)

Digit(w, i) == (w \div Pow2[i]) % 2

(* A digit is 0 or 1, and 0 from the width of the word on. *)
LEMMA DigitRange ==
  ASSUME NEW w \in Nat, NEW i \in Nat
  PROVE  Digit(w, i) \in {0, 1} /\ (w < Pow2[i] => Digit(w, i) = 0)
<1> DEFINE d == w \div Pow2[i]
<1>1. Pow2[i] \in Nat \ {0}
  BY Pow2Nat
<1>2. d \in Nat /\ Pow2[i] * d <= w
  BY <1>1, DivBracket
<1>3. w < Pow2[i] => d = 0
  <2> HIDE DEF d
  <2> SUFFICES ASSUME w < Pow2[i], d >= 1 PROVE FALSE
    BY <1>2, SMT
  <2>1. Pow2[i] * 1 <= Pow2[i] * d
    BY <1>1, <1>2, ProductMonotone, SMT
  <2> QED BY <1>1, <1>2, <2>1, SMT
<1>4. Digit(w, i) = d % 2
  BY DEF Digit
<1> HIDE DEF d
<1>5. d % 2 \in {0, 1} /\ 0 % 2 = 0
  BY <1>2, SMT
<1> QED BY <1>3, <1>4, <1>5

(* Above k bits a word is the quotient, below the remainder. *)
LEMMA DigitSplit ==
  ASSUME NEW a \in Nat, NEW c \in Nat, NEW k \in Nat, c < Pow2[k], NEW j \in Nat
  PROVE  Digit(a * Pow2[k] + c, j) = IF j < k THEN Digit(c, j) ELSE Digit(a, j - k)
<1> DEFINE b == Pow2[k]
           s == a * b + c
<1>1. b \in Nat \ {0} /\ s \in Nat
  BY Pow2Nat, SMT
<1>2. CASE j < k
  <2> DEFINE e == k - j
             p == Pow2[j]
             r == Pow2[e - 1]
             q == c \div p
             x == c - p * q
  <2>1. e \in Nat /\ j + e = k /\ e - 1 \in Nat /\ (e - 1) + 1 = e
    BY <1>2, SMT
  <2>2. p \in Nat \ {0} /\ r \in Nat \ {0} /\ b = p * Pow2[e] /\ Pow2[e] = 2 * r
    <3>1. Pow2[(e - 1) + 1] = 2 * Pow2[e - 1]
      BY <2>1, Pow2Def
    <3>2. Pow2[j + e] = Pow2[j] * Pow2[e]
      BY <2>1, Pow2Sum
    <3> QED BY <2>1, <3>1, <3>2, Pow2Nat
  <2> HIDE DEF b, p, r, e
  <2>3. q \in Nat /\ x \in Nat /\ x < p
    <3>1. q \in Nat /\ p * q <= c /\ c < p * q + p
      BY <2>2, DivBracket
    <3> HIDE DEF q
    <3> QED BY <2>2, <3>1, SMT
  <2> HIDE DEF q
  <2>4. s = (2 * (a * r) + q) * p + x
    BY <1>1, <2>2, <2>3, SMT
  <2>5. a * r \in Nat /\ 2 * (a * r) + q \in Nat
    BY <2>2, <2>3, SMT
  <2> HIDE DEF s, x
  <2>6. s \div p = 2 * (a * r) + q
    BY <2>2, <2>3, <2>4, <2>5, QuotientOfSum
  <2>7. (2 * (a * r) + q) % 2 = q % 2
    <3> DEFINE t == a * r
    <3>1. t \in Nat
      BY <2>5
    <3> HIDE DEF t
    <3>2. (2 * t + q) % 2 = q % 2
      BY <2>3, <3>1, SMT
    <3> QED BY <3>2 DEF t
  <2> QED BY <1>2, <2>6, <2>7 DEF Digit, p, q, s, b
<1>3. CASE ~(j < k)
  <2> DEFINE e == j - k
  <2>1. e \in Nat /\ k + e = j
    BY <1>3, SMT
  <2>2. Pow2[j] = b * Pow2[e] /\ Pow2[e] \in Nat \ {0}
    <3> HIDE DEF e
    <3>1. Pow2[k + e] = Pow2[k] * Pow2[e]
      BY <2>1, Pow2Sum
    <3> QED BY <2>1, <3>1, Pow2Nat
  <2> HIDE DEF b, e
  <2>3. s \div b = a
    BY <1>1, QuotientOfSum DEF b
  <2>4. (s \div b) \div Pow2[e] = s \div (b * Pow2[e])
    <3> HIDE DEF s
    <3> QED BY <1>1, <2>2, QuotientTwice
  <2> QED BY <1>3, <2>2, <2>3, <2>4 DEF Digit, s, b, e
<1> QED BY <1>2, <1>3

(***************************************************************************)
(* What a shift makes of a word w and the neighbour v that carries into    *)
(* it: the k lowest bits are the highest of v, the others the lowest of w. *)
(* Shifting right is the same with the parts of w and v exchanged.         *)
(***************************************************************************)
LEMMA JoinedWords ==
  ASSUME NEW W \in Nat, NEW k \in 0 .. W,
         NEW w \in 0 .. Pow2[W] - 1, NEW v \in 0 .. Pow2[W] - 1
  PROVE  LET s == ((w * Pow2[k]) % Pow2[W]) + v \div Pow2[W - k]
         IN  /\ s \in 0 .. Pow2[W] - 1
             /\ \A j \in 0 .. W - 1 :
                  Digit(s, j) = IF j < k THEN Digit(v, W - k + j) ELSE Digit(w, j - k)
<1> DEFINE n == W - k
           A == Pow2[n]
           B == Pow2[k]
           M == Pow2[W]
           h == w \div A
           a == w - A * h
           c == v \div A
           s == ((w * B) % M) + c
<1>1. n \in Nat /\ k \in Nat /\ n + k = W
  BY SMT
<1> HIDE DEF n
<1>2. A \in Nat \ {0} /\ B \in Nat \ {0} /\ M \in Nat \ {0} /\ M = A * B
  <2>1. Pow2[n + k] = Pow2[n] * Pow2[k]
    BY <1>1, Pow2Sum
  <2> QED BY <1>1, <2>1, Pow2Nat
<1>3. w \in Nat /\ v \in Nat /\ v < M
  BY <1>2, SMT
<1> HIDE DEF A, B, M
<1>4. h \in Nat /\ a \in Nat /\ a < A /\ w = h * A + a
  <2>1. h \in Nat /\ A * h <= w /\ w < A * h + A
    BY <1>2, <1>3, DivBracket
  <2> HIDE DEF h
  <2> QED BY <1>2, <1>3, <2>1, SMT
<1> HIDE DEF h, a
<1>5. c \in Nat /\ c < B
  <2>1. 0 * A <= v /\ v < B * A
    BY <1>2, <1>3, SMT
  <2> QED BY <1>2, <1>3, <2>1, QuotientWithin
<1>6. a * B \in Nat /\ a * B + B <= M
  <2>1. (a + 1) * B <= A * B
    <3>1. a + 1 <= A /\ a + 1 \in Int /\ A \in Int
      BY <1>2, <1>4, SMT
    <3> QED BY <1>2, <3>1, ProductMonotone
  <2> QED BY <1>2, <1>4, <2>1, SMT
<1>7. (w * B) % M = a * B
  <2> DEFINE d == a * B
  <2>1. w * B = h * M + d
    BY <1>2, <1>4, SMT
  <2>2. d \in Nat /\ d < M
    BY <1>2, <1>6, SMT
  <2> HIDE DEF d
  <2>3. (h * M + d) % M = d
    BY <1>2, <1>4, <2>2, QuotientOfSum
  <2> QED BY <2>1, <2>3 DEF d
<1> HIDE DEF c
<1>8. s = a * B + c /\ s \in 0 .. M - 1
  BY <1>2, <1>5, <1>6, <1>7, SMT
<1> HIDE DEF s
<1>9. ASSUME NEW j \in 0 .. W - 1
      PROVE  Digit(s, j) = IF j < k THEN Digit(v, n + j) ELSE Digit(w, j - k)
  <2>1. j \in Nat /\ n + j \in Nat
    BY <1>1, SMT
  <2>2. Digit(s, j) = IF j < k THEN Digit(c, j) ELSE Digit(a, j - k)
    BY <1>1, <1>4, <1>5, <1>8, <2>1, DigitSplit DEF B
  <2>3. CASE j < k
    <3>1. Pow2[n + j] = A * Pow2[j] /\ Pow2[j] \in Nat \ {0}
      BY <1>1, <2>1, Pow2Sum, Pow2Nat DEF A
    <3>2. c \div Pow2[j] = v \div (A * Pow2[j])
      BY <1>2, <1>3, <3>1, QuotientTwice DEF c
    <3> QED BY <2>2, <2>3, <3>1, <3>2 DEF Digit
  <2>4. CASE ~(j < k)
    <3>1. j - k \in Nat /\ j - k < n
      BY <1>1, <2>1, <2>4, SMT
    <3>2. Digit(h * A + a, j - k) = Digit(a, j - k)
      BY <1>1, <1>4, <3>1, DigitSplit DEF A
    <3> QED BY <1>4, <2>2, <2>4, <3>2
  <2> QED BY <2>3, <2>4
<1> QED BY <1>8, <1>9 DEF s, c, n, A, B, M

(* A sum of distinct powers of two has exactly their bits. *)
LEMMA SumOfPowers ==
  ASSUME NEW W \in Nat, NEW w, \A b \in 0 .. W - 1 : w[b] = 0 \/ w[b] = Pow2[b]
  PROVE  LET s == SumOver(w, 0 .. W - 1)
         IN  /\ s \in 0 .. Pow2[W] - 1
             /\ \A j \in 0 .. W - 1 : Digit(s, j) = IF w[j] = 0 THEN 0 ELSE 1
<1> DEFINE sum(m) == SumOver(w, 0 .. m - 1)
           Good(m) == /\ sum(m) \in Nat /\ sum(m) < Pow2[m]
                      /\ \A j \in 0 .. m - 1 : Digit(sum(m), j) = IF w[j] = 0 THEN 0 ELSE 1
           G == {m \in Nat : m <= W => Good(m)}
<1>1. 0 \in G
  <2>1. 0 .. 0 - 1 = {} /\ IsFiniteSet({})
    BY FS_EmptySet, SMT
  <2>2. sum(0) = 0 /\ Pow2[0] = 1
    BY <2>1, SumStep, Pow2Def
  <2> HIDE DEF sum
  <2> QED BY <2>1, <2>2, SMT
<1>2. ASSUME NEW m \in Nat, m \in G PROVE m + 1 \in G
  <2>1. SUFFICES ASSUME m + 1 <= W PROVE Good(m + 1)
    BY SMT
  <2> DEFINE S == 0 .. m - 1
             p == Pow2[m]
             t == sum(m)
  <2>2. /\ m <= W /\ m \notin S /\ 0 .. (m + 1) - 1 = S \cup {m} /\ IsFiniteSet(S)
        /\ m \in 0 .. W - 1 /\ \A b \in S : b \in 0 .. W - 1 /\ b \in Nat
    <3>1. IsFiniteSet(S)
      BY FS_Interval, SMT
    <3> QED BY <2>1, <3>1, SMT
  <2>3. Good(m)
    BY <1>2, <2>2
  <2>4. p \in Nat \ {0} /\ Pow2[m + 1] = 2 * p
    BY Pow2Nat, Pow2Def
  <2>5. sum(m + 1) = w[m] + t
    <3>1. IntegerOn(w, S)
      <4>1. \A b \in Nat : Pow2[b] \in Int
        BY Pow2Nat, SMT
      <4> QED BY <2>2, <4>1 DEF IntegerOn
    <3>2. w[m] \in Int
      BY <2>2, <2>4, SMT
    <3> HIDE DEF S
    <3> QED BY <2>2, <3>1, <3>2, SumAdd DEF S
  <2>6. t \in Nat /\ t < p /\ \A j \in 0 .. m - 1 : Digit(t, j) = IF w[j] = 0 THEN 0 ELSE 1
    BY <2>3
  <2> HIDE DEF sum, t, S, p
  <2>7. CASE w[m] = 0
    <3>1. sum(m + 1) = t /\ t < Pow2[m + 1]
      BY <2>4, <2>5, <2>6, <2>7, SMT
    <3>2. Digit(t, m) = 0
      BY <2>6, DigitRange DEF p
    <3>3. \A j \in 0 .. (m + 1) - 1 : j \in 0 .. m - 1 \/ j = m
      BY SMT
    <3> QED BY <2>6, <2>7, <3>1, <3>2, <3>3
  <2>8. CASE w[m] = p
    <3>1. sum(m + 1) = 1 * p + t /\ 1 * p + t < Pow2[m + 1] /\ 1 * p + t \in Nat
      BY <2>4, <2>5, <2>6, <2>8, SMT
    <3>2. \A j \in 0 .. (m + 1) - 1 :
            Digit(1 * p + t, j) = IF j < m THEN Digit(t, j) ELSE Digit(1, j - m)
      <4>1. \A j \in 0 .. (m + 1) - 1 : j \in Nat
        BY SMT
      <4>2. 1 \in Nat
        BY SMT
      <4> QED BY <2>6, <4>1, <4>2, DigitSplit DEF p
    <3>3. \A j \in 0 .. (m + 1) - 1 : (j < m /\ j \in 0 .. m - 1) \/ (j = m /\ ~(j < m) /\ j - m = 0)
      BY SMT
    <3>4. Digit(1, 0) = 1
      <4>1. 1 \div 1 = 1 /\ 1 % 2 = 1
        BY SMT
      <4> QED BY <4>1, Pow2Def DEF Digit
    <3>5. w[m] # 0
      BY <2>4, <2>8, SMT
    <3> QED BY <2>6, <3>1, <3>2, <3>3, <3>4, <3>5
  <2> QED BY <2>2, <2>7, <2>8 DEF p
<1> HIDE DEF G
<1>3. W \in G
  BY <1>1, <1>2, NaturalsIn
<1>4. Good(W)
  BY <1>3, SMT DEF G
<1> HIDE DEF sum
<1>5. sum(W) \in 0 .. Pow2[W] - 1
  BY <1>4, Pow2Nat, SMT
<1> QED BY <1>4, <1>5 DEF sum

(* A word without bits is 0. *)
LEMMA DigitsDecide ==
  ASSUME NEW W \in Nat, NEW w \in 0 .. Pow2[W] - 1, \A j \in 0 .. W - 1 : Digit(w, j) # 1
  PROVE  w = 0
<1> DEFINE G == {m \in Nat : m <= W => w < Pow2[W - m]}
<1>1. w \in Nat /\ w < Pow2[W] /\ W - 0 = W
  BY Pow2Nat, SMT
<1>2. 0 \in G
  BY <1>1
<1>3. ASSUME NEW m \in Nat, m \in G PROVE m + 1 \in G
  <2>1. SUFFICES ASSUME m + 1 <= W PROVE w < Pow2[W - (m + 1)]
    BY SMT
  <2> DEFINE n == W - (m + 1)
             p == Pow2[n]
             d == w \div p
  <2>2. n \in Nat /\ n + 1 = W - m /\ m <= W /\ n \in 0 .. W - 1
    BY <2>1, SMT
  <2>3. p \in Nat \ {0} /\ w < 2 * p
    <3> HIDE DEF n
    <3>1. Pow2[n + 1] = 2 * Pow2[n] /\ w < Pow2[n + 1]
      BY <1>3, <2>2, Pow2Def
    <3> QED BY <2>2, <3>1, Pow2Nat
  <2>4. d \in Nat /\ p * d <= w /\ w < p * d + p /\ d < 2
    <3> HIDE DEF p
    <3>1. 0 * p <= w /\ w < 2 * p
      BY <1>1, <2>3, SMT
    <3> QED BY <1>1, <2>3, <3>1, DivBracket, QuotientWithin
  <2>5. d % 2 # 1
    BY <2>2 DEF Digit
  <2> HIDE DEF d, p
  <2>6. d = 0
    BY <2>4, <2>5, SMT
  <2> QED BY <1>1, <2>3, <2>4, <2>6, SMT DEF p
<1> HIDE DEF G
<1>4. W \in G
  BY <1>2, <1>3, NaturalsIn
<1>5. w < Pow2[0]
  <2>1. W <= W /\ W - W = 0
    BY SMT
  <2> QED BY <1>4, <2>1 DEF G
<1> QED BY <1>1, <1>5, Pow2Def, SMT

-----------------------------------------------------------------------------
(* The bits of a number in words *)

WordAt(N, x, i) == IF i \in 0 .. N - 1 THEN x[i] ELSE 0

(* The words' own powers are the powers. *)
LEMMA WordPow2 == ASSUME NEW N, NEW W PROVE Word(N, W)!Pow2 = Pow2
BY DEF Word!Pow2, Pow2

(* The bit at i * W + j is bit j of word i, for any two of them. *)
LEMMA OnesOf ==
  ASSUME NEW N \in Nat \ {0}, NEW W \in Nat \ {0}, NEW x \in Word(N, W)!Numbers
  PROVE  /\ Word(N, W)!Ones(x) \subseteq 0 .. N * W - 1
         /\ \A i \in Int : WordAt(N, x, i) \in 0 .. Pow2[W] - 1
         /\ \A i \in Int : \A j \in 0 .. W - 1 :
              i * W + j \in Word(N, W)!Ones(x) <=> Digit(WordAt(N, x, i), j) = 1
<1> DEFINE ones == Word(N, W)!Ones(x)
<1>1. ones = {b \in 0 .. N * W - 1 : Digit(x[b \div W], b % W) = 1}
  BY WordPow2 DEF Word!Ones, Word!WordBit, Digit
<1>2. x \in [0 .. N - 1 -> 0 .. Pow2[W] - 1]
  BY WordPow2 DEF Word!Numbers, Word!WordIndex, Word!WordValues
<1> HIDE DEF ones
<1>3. Pow2[W] \in Nat \ {0} /\ 0 \in 0 .. Pow2[W] - 1
  BY Pow2Nat, SMT
<1>4. ASSUME NEW i \in Int, NEW j \in 0 .. W - 1
      PROVE  i * W + j \in ones <=> Digit(WordAt(N, x, i), j) = 1
  <2> DEFINE b == i * W + j
  <2>1. CASE i \in 0 .. N - 1
    <3>1. i \in Nat /\ j \in Nat /\ j < W /\ i + 1 <= N
      BY <2>1, SMT
    <3>2. b \div W = i /\ b % W = j
      BY <3>1, QuotientOfSum
    <3>3. b \in 0 .. N * W - 1
      <4>1. (i + 1) * W <= N * W
        <5>1. i + 1 \in Int /\ N \in Int /\ W \in Nat
          BY <3>1, SMT
        <5> QED BY <3>1, <5>1, ProductMonotone
      <4> QED BY <3>1, <4>1, SMT
    <3> HIDE DEF b
    <3> QED BY <1>1, <2>1, <3>2, <3>3 DEF WordAt, b
  <2>2. CASE i \notin 0 .. N - 1
    <3>1. b \notin 0 .. N * W - 1
      <4>1. CASE i + 1 <= 0
        <5>1. (i + 1) * W <= 0 * W
          <6>1. i + 1 \in Int /\ 0 \in Int /\ W \in Nat
            BY SMT
          <6> QED BY <4>1, <6>1, ProductMonotone
        <5> QED BY <5>1, SMT
      <4>2. CASE N <= i
        <5>1. N * W <= i * W
          <6>1. N \in Int /\ W \in Nat
            BY SMT
          <6> QED BY <4>2, <6>1, ProductMonotone
        <5> QED BY <5>1, SMT
      <4> QED BY <2>2, <4>1, <4>2, SMT
    <3>2. Digit(WordAt(N, x, i), j) = 0
      <4>1. 0 < Pow2[j] /\ j \in Nat /\ 0 \in Nat
        BY Pow2Nat, SMT
      <4> QED BY <2>2, <4>1, DigitRange DEF WordAt
    <3> QED BY <1>1, <3>1, <3>2
  <2> QED BY <2>1, <2>2
<1> QED BY <1>1, <1>2, <1>3, <1>4 DEF ones, WordAt

(* A bit is at the place its word and its rank in it say. *)
LEMMA PlaceOf ==
  ASSUME NEW N \in Nat \ {0}, NEW W \in Nat \ {0}, NEW b \in 0 .. N * W - 1
  PROVE  \E i \in 0 .. N - 1, j \in 0 .. W - 1 : b = i * W + j
<1> DEFINE i == b \div W
           j == b - W * i
<1>1. b \in Nat /\ b < N * W
  BY SMT
<1>2. i \in Nat /\ j \in 0 .. W - 1 /\ b = i * W + j
  <2>1. i \in Nat /\ W * i <= b /\ b < W * i + W
    BY <1>1, DivBracket
  <2> HIDE DEF i
  <2> QED BY <1>1, <2>1, SMT
<1>3. i < N
  <2>1. 0 * W <= b
    BY <1>1, SMT
  <2> QED BY <1>1, <2>1, QuotientWithin
<1> HIDE DEF i, j
<1>4. i \in 0 .. N - 1
  BY <1>2, <1>3, SMT
<1> QED BY <1>2, <1>4

(* A left shift moves every bit up, whatever words it crosses. *)
LEMMA ShlMoves ==
  ASSUME NEW N \in Nat \ {0}, NEW W \in Nat \ {0}, NEW x \in Word(N, W)!Numbers,
         NEW n \in 0 .. N * W - 1
  PROVE  LET y == Word(N, W)!Shl(x, n)
         IN  /\ y \in Word(N, W)!Numbers
             /\ \A b \in 0 .. N * W - 1 :
                  b \in Word(N, W)!Ones(y) <=> b - n \in Word(N, W)!Ones(x)
<1> DEFINE y == Word(N, W)!Shl(x, n)
           q == n \div W
           k == n % W
           w(i) == WordAt(N, x, i - q)
           v(i) == WordAt(N, x, i - q - 1)
<1>1. n \in Nat /\ q \in Nat /\ k \in 0 .. W - 1 /\ n = q * W + k
  BY SMT
<1>2. x \in [0 .. N - 1 -> 0 .. Pow2[W] - 1]
  BY WordPow2 DEF Word!Numbers, Word!WordIndex, Word!WordValues
<1>3. y = [i \in 0 .. N - 1 |->
             (IF i < q THEN 0 ELSE (x[i - q] * Pow2[k]) % Pow2[W])
               + (IF k = 0 \/ i < q + 1 THEN 0 ELSE x[i - 1 - q] \div Pow2[W - k])]
  BY WordPow2 DEF Word!Shl, Word!WordIndex, Word!WordShl, Word!WordShr
<1> HIDE DEF q, k, y
<1>4. ASSUME NEW i \in 0 .. N - 1
      PROVE  /\ i - q \in Int /\ i - q - 1 \in Int
             /\ w(i) \in 0 .. Pow2[W] - 1 /\ v(i) \in 0 .. Pow2[W] - 1
             /\ y[i] = ((w(i) * Pow2[k]) % Pow2[W]) + v(i) \div Pow2[W - k]
  <2>1. i - q \in Int /\ i - q - 1 \in Int /\ i - 1 - q = i - q - 1
    BY <1>1, SMT
  <2>2. w(i) \in 0 .. Pow2[W] - 1 /\ v(i) \in 0 .. Pow2[W] - 1
    BY <2>1, OnesOf
  <2>3. Pow2[W] \in Nat \ {0} /\ Pow2[k] \in Nat \ {0} /\ Pow2[W - k] \in Nat \ {0}
    <3>1. W - k \in Nat /\ k \in Nat
      BY <1>1, SMT
    <3> QED BY <3>1, Pow2Nat
  <2>4. (IF i < q THEN 0 ELSE (x[i - q] * Pow2[k]) % Pow2[W]) = (w(i) * Pow2[k]) % Pow2[W]
    <3>1. CASE i < q
      <4>1. i - q \notin 0 .. N - 1
        BY <1>1, <3>1, SMT
      <4>2. (0 * Pow2[k]) % Pow2[W] = 0
        BY <2>3, SMT
      <4> QED BY <3>1, <4>1, <4>2 DEF WordAt
    <3>2. CASE ~(i < q)
      <4>1. i - q \in 0 .. N - 1
        BY <1>1, <3>2, SMT
      <4> QED BY <3>2, <4>1 DEF WordAt
    <3> QED BY <3>1, <3>2
  <2>5. (IF k = 0 \/ i < q + 1 THEN 0 ELSE x[i - 1 - q] \div Pow2[W - k])
          = v(i) \div Pow2[W - k]
    <3>1. CASE i < q + 1
      <4>1. i - q - 1 \notin 0 .. N - 1
        BY <1>1, <3>1, SMT
      <4>2. 0 \div Pow2[W - k] = 0
        BY <2>3, SMT
      <4> QED BY <3>1, <4>1, <4>2 DEF WordAt
    <3>2. CASE ~(i < q + 1) /\ k = 0
      <4>1. W - k = W /\ 0 * Pow2[W] <= v(i) /\ v(i) < 1 * Pow2[W] /\ v(i) \in Nat
        <5> HIDE DEF v
        <5> QED BY <2>2, <2>3, <3>2, SMT
      <4>2. v(i) \div Pow2[W] \in Nat /\ v(i) \div Pow2[W] < 1
        <5> HIDE DEF v
        <5> QED BY <2>3, <4>1, QuotientWithin, SMT
      <4>3. v(i) \div Pow2[W] = 0
        BY <4>2, SMT
      <4> QED BY <3>2, <4>1, <4>3
    <3>3. CASE ~(i < q + 1) /\ k # 0
      <4>1. i - q - 1 \in 0 .. N - 1
        BY <1>1, <3>3, SMT
      <4> QED BY <2>1, <3>3, <4>1 DEF WordAt
    <3> QED BY <3>1, <3>2, <3>3
  <2> HIDE DEF w, v
  <2> QED BY <1>3, <2>1, <2>2, <2>4, <2>5
<1>5. ASSUME NEW i \in 0 .. N - 1
      PROVE  /\ y[i] \in 0 .. Pow2[W] - 1
             /\ \A j \in 0 .. W - 1 :
                  Digit(y[i], j) = IF j < k THEN Digit(v(i), W - k + j) ELSE Digit(w(i), j - k)
  <2>1. k \in 0 .. W /\ W \in Nat
    BY <1>1, SMT
  <2> DEFINE a == w(i)
             c == v(i)
  <2>2. /\ a \in 0 .. Pow2[W] - 1 /\ c \in 0 .. Pow2[W] - 1
        /\ y[i] = ((a * Pow2[k]) % Pow2[W]) + c \div Pow2[W - k]
    BY <1>4
  <2> HIDE DEF a, c
  <2>3. LET s == ((a * Pow2[k]) % Pow2[W]) + c \div Pow2[W - k]
        IN  /\ s \in 0 .. Pow2[W] - 1
            /\ \A j \in 0 .. W - 1 :
                 Digit(s, j) = IF j < k THEN Digit(c, W - k + j) ELSE Digit(a, j - k)
    BY <2>1, <2>2, JoinedWords
  <2> QED BY <2>2, <2>3 DEF a, c
<1>6. y \in Word(N, W)!Numbers
  BY <1>3, <1>5, WordPow2 DEF Word!Numbers, Word!WordIndex, Word!WordValues
<1>7. ASSUME NEW b \in 0 .. N * W - 1
      PROVE  b \in Word(N, W)!Ones(y) <=> b - n \in Word(N, W)!Ones(x)
  <2>1. PICK i \in 0 .. N - 1, j \in 0 .. W - 1 : b = i * W + j
    BY PlaceOf
  <2>2. b \in Word(N, W)!Ones(y) <=> Digit(y[i], j) = 1
    <3>1. i \in Int /\ y[i] = WordAt(N, y, i)
      BY SMT DEF WordAt
    <3> HIDE DEF w, v
    <3> QED BY <1>6, <2>1, <3>1, OnesOf
  <2>3. CASE j < k
    <3>1. /\ W - k + j \in 0 .. W - 1 /\ i - q - 1 \in Int
          /\ b - n = (i - q - 1) * W + (W - k + j)
      BY <1>1, <2>1, <2>3, SMT
    <3>2. b - n \in Word(N, W)!Ones(x) <=> Digit(v(i), W - k + j) = 1
      BY <3>1, OnesOf
    <3> HIDE DEF v, w
    <3> QED BY <1>5, <2>2, <2>3, <3>2
  <2>4. CASE ~(j < k)
    <3>1. /\ j - k \in 0 .. W - 1 /\ i - q \in Int
          /\ b - n = (i - q) * W + (j - k)
      BY <1>1, <2>1, <2>4, SMT
    <3>2. b - n \in Word(N, W)!Ones(x) <=> Digit(w(i), j - k) = 1
      BY <3>1, OnesOf
    <3> HIDE DEF v, w
    <3> QED BY <1>5, <2>2, <2>4, <3>2
  <2> QED BY <2>3, <2>4
<1> QED BY <1>6, <1>7 DEF y

(* A right shift moves every bit down. *)
LEMMA ShrMoves ==
  ASSUME NEW N \in Nat \ {0}, NEW W \in Nat \ {0}, NEW x \in Word(N, W)!Numbers,
         NEW n \in 0 .. N * W - 1
  PROVE  LET y == Word(N, W)!Shr(x, n)
         IN  /\ y \in Word(N, W)!Numbers
             /\ \A b \in 0 .. N * W - 1 :
                  b \in Word(N, W)!Ones(y) <=> b + n \in Word(N, W)!Ones(x)
<1> DEFINE y == Word(N, W)!Shr(x, n)
           q == n \div W
           k == n % W
           w(i) == WordAt(N, x, i + q)
           v(i) == WordAt(N, x, i + q + 1)
<1>1. n \in Nat /\ q \in Nat /\ k \in 0 .. W - 1 /\ n = q * W + k
  BY SMT
<1>2. x \in [0 .. N - 1 -> 0 .. Pow2[W] - 1]
  BY WordPow2 DEF Word!Numbers, Word!WordIndex, Word!WordValues
<1>3. y = [i \in 0 .. N - 1 |->
             (IF i + q >= N THEN 0 ELSE x[i + q] \div Pow2[k])
               + (IF k = 0 \/ i + q + 1 >= N THEN 0
                  ELSE (x[i + q + 1] * Pow2[W - k]) % Pow2[W])]
  BY WordPow2 DEF Word!Shr, Word!WordIndex, Word!WordShl, Word!WordShr
<1> HIDE DEF q, k, y
<1>4. ASSUME NEW i \in 0 .. N - 1
      PROVE  /\ i + q \in Int /\ i + q + 1 \in Int
             /\ w(i) \in 0 .. Pow2[W] - 1 /\ v(i) \in 0 .. Pow2[W] - 1
             /\ y[i] = ((v(i) * Pow2[W - k]) % Pow2[W]) + w(i) \div Pow2[k]
  <2>1. i + q \in Nat /\ i + q + 1 \in Nat /\ i + q \in Int /\ i + q + 1 \in Int
    BY <1>1, SMT
  <2>2. w(i) \in 0 .. Pow2[W] - 1 /\ v(i) \in 0 .. Pow2[W] - 1
    BY <2>1, OnesOf
  <2>3. Pow2[W] \in Nat \ {0} /\ Pow2[k] \in Nat \ {0} /\ Pow2[W - k] \in Nat \ {0}
    <3>1. W - k \in Nat /\ k \in Nat
      BY <1>1, SMT
    <3> QED BY <3>1, Pow2Nat
  <2>4. (IF i + q >= N THEN 0 ELSE x[i + q] \div Pow2[k]) = w(i) \div Pow2[k]
    <3>1. CASE i + q >= N
      <4>1. i + q \notin 0 .. N - 1
        BY <2>1, <3>1, SMT
      <4>2. 0 \div Pow2[k] = 0
        BY <2>3, SMT
      <4> QED BY <3>1, <4>1, <4>2 DEF WordAt
    <3>2. CASE ~(i + q >= N)
      <4>1. i + q \in 0 .. N - 1
        BY <2>1, <3>2, SMT
      <4> QED BY <3>2, <4>1 DEF WordAt
    <3> QED BY <3>1, <3>2
  <2>5. (IF k = 0 \/ i + q + 1 >= N THEN 0 ELSE (x[i + q + 1] * Pow2[W - k]) % Pow2[W])
          = (v(i) * Pow2[W - k]) % Pow2[W]
    <3>1. CASE i + q + 1 >= N
      <4>1. i + q + 1 \notin 0 .. N - 1
        BY <2>1, <3>1, SMT
      <4>2. (0 * Pow2[W - k]) % Pow2[W] = 0
        BY <2>3, SMT
      <4> QED BY <3>1, <4>1, <4>2 DEF WordAt
    <3>2. CASE ~(i + q + 1 >= N) /\ k = 0
      <4>1. W - k = W
        BY <3>2, SMT
      <4>2. v(i) \in Nat
        <5> HIDE DEF v
        <5> QED BY <2>2, <2>3, SMT
      <4>3. (v(i) * Pow2[W] + 0) % Pow2[W] = 0
        <5>1. 0 \in Nat /\ 0 < Pow2[W]
          BY <2>3, SMT
        <5> HIDE DEF v
        <5> QED BY <2>3, <4>2, <5>1, QuotientOfSum
      <4>4. v(i) * Pow2[W] + 0 = v(i) * Pow2[W]
        <5> HIDE DEF v
        <5> QED BY <2>3, <4>2, SMT
      <4> QED BY <3>2, <4>1, <4>3, <4>4
    <3>3. CASE ~(i + q + 1 >= N) /\ k # 0
      <4>1. i + q + 1 \in 0 .. N - 1
        BY <2>1, <3>3, SMT
      <4> QED BY <3>3, <4>1 DEF WordAt
    <3> QED BY <3>1, <3>2, <3>3
  <2>6. w(i) \div Pow2[k] \in Int /\ (v(i) * Pow2[W - k]) % Pow2[W] \in Int
    <3> HIDE DEF w, v
    <3> QED BY <2>2, <2>3, SMT
  <2> HIDE DEF w, v
  <2>7. y[i] = (w(i) \div Pow2[k]) + ((v(i) * Pow2[W - k]) % Pow2[W])
    BY <1>3, <2>4, <2>5
  <2> DEFINE s == (v(i) * Pow2[W - k]) % Pow2[W]
             t == w(i) \div Pow2[k]
  <2>8. s \in Int /\ t \in Int /\ y[i] = t + s
    BY <2>6, <2>7
  <2> HIDE DEF s, t
  <2>9. y[i] = s + t
    BY <2>8, SMT
  <2> QED BY <2>1, <2>2, <2>9 DEF s, t
<1>5. ASSUME NEW i \in 0 .. N - 1
      PROVE  /\ y[i] \in 0 .. Pow2[W] - 1
             /\ \A j \in 0 .. W - 1 :
                  Digit(y[i], j) = IF j < W - k THEN Digit(w(i), k + j)
                                                ELSE Digit(v(i), j - (W - k))
  <2> DEFINE a == w(i)
             c == v(i)
             m == W - k
  <2>1. m \in 0 .. W /\ W \in Nat /\ W - m = k
    BY <1>1, SMT
  <2>2. /\ a \in 0 .. Pow2[W] - 1 /\ c \in 0 .. Pow2[W] - 1
        /\ y[i] = ((c * Pow2[m]) % Pow2[W]) + a \div Pow2[k]
    BY <1>4
  <2> HIDE DEF a, c, m
  <2>3. LET s == ((c * Pow2[m]) % Pow2[W]) + a \div Pow2[W - m]
        IN  /\ s \in 0 .. Pow2[W] - 1
            /\ \A j \in 0 .. W - 1 :
                 Digit(s, j) = IF j < m THEN Digit(a, W - m + j) ELSE Digit(c, j - m)
    BY <2>1, <2>2, JoinedWords
  <2> QED BY <2>1, <2>2, <2>3 DEF a, c, m
<1>6. y \in Word(N, W)!Numbers
  BY <1>3, <1>5, WordPow2 DEF Word!Numbers, Word!WordIndex, Word!WordValues
<1>7. ASSUME NEW b \in 0 .. N * W - 1
      PROVE  b \in Word(N, W)!Ones(y) <=> b + n \in Word(N, W)!Ones(x)
  <2>1. PICK i \in 0 .. N - 1, j \in 0 .. W - 1 : b = i * W + j
    BY PlaceOf
  <2>2. b \in Word(N, W)!Ones(y) <=> Digit(y[i], j) = 1
    <3>1. i \in Int /\ y[i] = WordAt(N, y, i)
      BY SMT DEF WordAt
    <3> HIDE DEF w, v
    <3> QED BY <1>6, <2>1, <3>1, OnesOf
  <2>3. CASE j < W - k
    <3>1. /\ k + j \in 0 .. W - 1 /\ i + q \in Int
          /\ b + n = (i + q) * W + (k + j)
      BY <1>1, <2>1, <2>3, SMT
    <3>2. b + n \in Word(N, W)!Ones(x) <=> Digit(w(i), k + j) = 1
      BY <3>1, OnesOf
    <3> HIDE DEF v, w
    <3> QED BY <1>5, <2>2, <2>3, <3>2
  <2>4. CASE ~(j < W - k)
    <3>1. /\ j - (W - k) \in 0 .. W - 1 /\ i + q + 1 \in Int
          /\ b + n = (i + q + 1) * W + (j - (W - k))
      BY <1>1, <2>1, <2>4, SMT
    <3>2. b + n \in Word(N, W)!Ones(x) <=> Digit(v(i), j - (W - k)) = 1
      BY <3>1, OnesOf
    <3> HIDE DEF v, w
    <3> QED BY <1>5, <2>2, <2>4, <3>2
  <2> QED BY <2>3, <2>4
<1> QED BY <1>6, <1>7 DEF y

(* What each position of word i adds to it. *)
Weights(W, S, i) == [b \in 0 .. W - 1 |-> IF i * W + b \in S THEN Pow2[b] ELSE 0]

(* The sum by which a word is made of its ones. *)
LEMMA WordSum ==
  ASSUME NEW N, NEW W, NEW S, NEW i \in 0 .. N - 1
  PROVE  Word(N, W)!FromOnes(S)[i] = SumOver(Weights(W, S, i), 0 .. W - 1)
<1> DEFINE D == 0 .. W - 1
           f == [b \in D |-> IF i * W + b \in S THEN Word(N, W)!Pow2[b] ELSE 0]
<1>1. Word(N, W)!FromOnes(S)[i]
        = Word(N, W)!MapThenSumSet(LAMBDA b : IF i * W + b \in S THEN Word(N, W)!Pow2[b] ELSE 0, D)
  BY DEF Word!FromOnes, Word!WordIndex
<1> HIDE DEF D
<1>2. Word(N, W)!MapThenSumSet(LAMBDA b : IF i * W + b \in S THEN Word(N, W)!Pow2[b] ELSE 0, D)
        = SumOver(f, D)
  BY DEF Word!MapThenSumSet, Word!MapThenFoldSet, SumOver
<1>3. f = Weights(W, S, i)
  BY WordPow2 DEF Weights, D
<1> HIDE DEF f
<1> QED BY <1>1, <1>2, <1>3 DEF D

(* A number made of a set of positions has exactly these ones. *)
LEMMA MadeOfOnes ==
  ASSUME NEW N \in Nat \ {0}, NEW W \in Nat \ {0}, NEW S \in SUBSET (0 .. N * W - 1)
  PROVE  LET y == Word(N, W)!FromOnes(S)
         IN  y \in Word(N, W)!Numbers /\ Word(N, W)!Ones(y) = S
<1> DEFINE y == Word(N, W)!FromOnes(S)
           w(i) == Weights(W, S, i)
<1>1. /\ \A i \in 0 .. N - 1 : y[i] = SumOver(w(i), 0 .. W - 1)
      /\ y = [i \in 0 .. N - 1 |-> y[i]]
  <2>1. \A i \in 0 .. N - 1 : y[i] = SumOver(w(i), 0 .. W - 1)
    BY WordSum
  <2> QED BY <2>1 DEF Word!FromOnes, Word!WordIndex
<1> HIDE DEF y
<1>2. ASSUME NEW i \in 0 .. N - 1
      PROVE  /\ y[i] \in 0 .. Pow2[W] - 1
             /\ \A j \in 0 .. W - 1 : Digit(y[i], j) = 1 <=> i * W + j \in S
  <2> DEFINE f == w(i)
  <2>1. \A b \in 0 .. W - 1 : /\ f[b] = 0 \/ f[b] = Pow2[b]
                              /\ f[b] = 0 <=> i * W + b \notin S
    <3> USE DEF Weights
    <3>1. ASSUME NEW b \in 0 .. W - 1
          PROVE  /\ f[b] = 0 \/ f[b] = Pow2[b]
                 /\ f[b] = 0 <=> i * W + b \notin S
      <4>1. Pow2[b] # 0
        BY Pow2Nat, SMT
      <4> QED BY <4>1
    <3> QED BY <3>1
  <2>2. y[i] = SumOver(f, 0 .. W - 1)
    BY <1>1
  <2>5. \A b \in 0 .. W - 1 : f[b] = 0 \/ f[b] = Pow2[b]
    BY <2>1
  <2> HIDE DEF f
  <2>3. W \in Nat
    BY SMT
  <2>4. LET s == SumOver(f, 0 .. W - 1)
        IN  /\ s \in 0 .. Pow2[W] - 1
            /\ \A j \in 0 .. W - 1 : Digit(s, j) = IF f[j] = 0 THEN 0 ELSE 1
    BY <2>3, <2>5, SumOfPowers
  <2> QED BY <2>1, <2>2, <2>4, SMT
<1>3. y \in Word(N, W)!Numbers
  BY <1>1, <1>2, WordPow2 DEF Word!Numbers, Word!WordIndex, Word!WordValues
<1>4. ASSUME NEW b \in 0 .. N * W - 1
      PROVE  b \in Word(N, W)!Ones(y) <=> b \in S
  <2>1. PICK i \in 0 .. N - 1, j \in 0 .. W - 1 : b = i * W + j
    BY PlaceOf
  <2>2. b \in Word(N, W)!Ones(y) <=> Digit(y[i], j) = 1
    <3>1. i \in Int /\ y[i] = WordAt(N, y, i)
      BY SMT DEF WordAt
    <3> QED BY <1>3, <2>1, <3>1, OnesOf
  <2> QED BY <1>2, <2>1, <2>2
<1>5. Word(N, W)!Ones(y) \subseteq 0 .. N * W - 1
  BY <1>3, OnesOf
<1> QED BY <1>3, <1>4, <1>5 DEF y

(* The bit at i * W + j, for a word of the number. *)
LEMMA OneInWord ==
  ASSUME NEW N \in Nat \ {0}, NEW W \in Nat \ {0}, NEW x \in Word(N, W)!Numbers,
         NEW i \in 0 .. N - 1, NEW j \in 0 .. W - 1
  PROVE  /\ x[i] \in 0 .. Pow2[W] - 1
         /\ i * W + j \in Word(N, W)!Ones(x) <=> Digit(x[i], j) = 1
<1>1. i \in Int /\ x[i] = WordAt(N, x, i)
  BY SMT DEF WordAt
<1> QED BY <1>1, OnesOf

(* A word is 0 exactly if it has no bit. *)
LEMMA ZeroWord ==
  ASSUME NEW W \in Nat \ {0}, NEW w \in 0 .. Pow2[W] - 1
  PROVE  w = 0 <=> \A j \in 0 .. W - 1 : Digit(w, j) # 1
<1>1. W \in Nat
  BY SMT
<1>2. ASSUME NEW j \in 0 .. W - 1 PROVE Digit(0, j) # 1
  <2>1. j \in Nat /\ 0 \in Nat /\ 0 < Pow2[j]
    BY Pow2Nat, SMT
  <2>2. Digit(0, j) = 0
    BY <2>1, DigitRange
  <2> QED BY <2>2
<1> QED BY <1>1, <1>2, DigitsDecide

(* A number is 0 exactly if it has no ones. *)
LEMMA ZeroHasNoOnes ==
  ASSUME NEW N \in Nat \ {0}, NEW W \in Nat \ {0}, NEW x \in Word(N, W)!Numbers
  PROVE  Word(N, W)!IsZero(x) <=> Word(N, W)!Ones(x) = {}
<1>1. Word(N, W)!IsZero(x) <=> \A i \in 0 .. N - 1 : x[i] = 0
  BY DEF Word!IsZero, Word!WordIndex
<1>2. \A i \in 0 .. N - 1 : x[i] = 0 <=> \A j \in 0 .. W - 1 : i * W + j \notin Word(N, W)!Ones(x)
  <2> SUFFICES ASSUME NEW i \in 0 .. N - 1
               PROVE  x[i] = 0 <=> \A j \in 0 .. W - 1 : i * W + j \notin Word(N, W)!Ones(x)
    OBVIOUS
  <2>1. 0 \in 0 .. W - 1
    BY SMT
  <2>2. x[i] \in 0 .. Pow2[W] - 1
    BY <2>1, OneInWord
  <2>3. x[i] = 0 <=> \A j \in 0 .. W - 1 : Digit(x[i], j) # 1
    BY <2>2, ZeroWord
  <2>4. \A j \in 0 .. W - 1 : i * W + j \in Word(N, W)!Ones(x) <=> Digit(x[i], j) = 1
    BY OneInWord
  <2> QED BY <2>3, <2>4
<1>3. \A b \in Word(N, W)!Ones(x) : \E i \in 0 .. N - 1, j \in 0 .. W - 1 : b = i * W + j
  <2> SUFFICES ASSUME NEW b \in Word(N, W)!Ones(x)
               PROVE  \E i \in 0 .. N - 1, j \in 0 .. W - 1 : b = i * W + j
    OBVIOUS
  <2>1. Word(N, W)!Ones(x) \subseteq 0 .. N * W - 1
    BY OnesOf
  <2>2. b \in 0 .. N * W - 1
    BY <2>1
  <2> QED BY <2>2, PlaceOf
<1>4. ASSUME \A i \in 0 .. N - 1 : x[i] = 0 PROVE Word(N, W)!Ones(x) = {}
  <2> SUFFICES ASSUME NEW b \in Word(N, W)!Ones(x) PROVE FALSE
    OBVIOUS
  <2>1. PICK i \in 0 .. N - 1, j \in 0 .. W - 1 : b = i * W + j
    BY <1>3
  <2>2. i * W + j \notin Word(N, W)!Ones(x)
    BY <1>2, <1>4
  <2> QED BY <2>1, <2>2
<1>5. ASSUME Word(N, W)!Ones(x) = {} PROVE \A i \in 0 .. N - 1 : x[i] = 0
  <2>1. \A i \in 0 .. N - 1 : \A j \in 0 .. W - 1 : i * W + j \notin Word(N, W)!Ones(x)
    BY <1>5
  <2> QED BY <1>2, <2>1
<1> QED BY <1>1, <1>4, <1>5

(* The number 1 has one bit, the lowest. *)
LEMMA UnitOnes ==
  ASSUME NEW N \in Nat \ {0}, NEW W \in Nat \ {0}
  PROVE  /\ Word(N, W)!Unit \in Word(N, W)!Numbers
         /\ Word(N, W)!Ones(Word(N, W)!Unit) = {0}
<1> DEFINE u == Word(N, W)!Unit
<1>1. u = [i \in 0 .. N - 1 |-> IF i = 0 THEN 1 ELSE 0]
  BY DEF Word!Unit, Word!WordIndex
<1> HIDE DEF u
<1>2. 0 \in 0 .. Pow2[W] - 1 /\ 1 \in 0 .. Pow2[W] - 1
  <2>1. W - 1 \in Nat /\ (W - 1) + 1 = W
    BY SMT
  <2>2. Pow2[(W - 1) + 1] = 2 * Pow2[W - 1] /\ Pow2[W - 1] \in Nat \ {0}
    BY <2>1, Pow2Def, Pow2Nat
  <2> QED BY <2>1, <2>2, SMT
<1>3. u \in Word(N, W)!Numbers
  BY <1>1, <1>2, WordPow2 DEF Word!Numbers, Word!WordIndex, Word!WordValues
<1>4. ASSUME NEW i \in 0 .. N - 1, NEW j \in 0 .. W - 1
      PROVE  Digit(u[i], j) = 1 <=> i = 0 /\ j = 0
  <2>1. j \in Nat /\ 0 \in Nat /\ 1 \in Nat /\ 0 < Pow2[j]
    BY Pow2Nat, SMT
  <2>2. Digit(0, j) = 0
    BY <2>1, DigitRange
  <2>3. j = 0 => Digit(1, j) = 1
    <3>1. 1 \div 1 = 1 /\ 1 % 2 = 1
      BY SMT
    <3> QED BY <3>1, Pow2Def DEF Digit
  <2>4. j # 0 => Digit(1, j) = 0
    <3> SUFFICES ASSUME j # 0 PROVE 1 < Pow2[j]
      BY <2>1, DigitRange
    <3>1. j - 1 \in Nat /\ (j - 1) + 1 = j
      BY <2>1, SMT
    <3>2. Pow2[(j - 1) + 1] = 2 * Pow2[j - 1] /\ Pow2[j - 1] \in Nat \ {0}
      BY <3>1, Pow2Def, Pow2Nat
    <3> QED BY <3>1, <3>2, SMT
  <2> QED BY <1>1, <2>2, <2>3, <2>4, SMT
<1>5. ASSUME NEW b \in 0 .. N * W - 1 PROVE b \in Word(N, W)!Ones(u) <=> b = 0
  <2>1. PICK i \in 0 .. N - 1, j \in 0 .. W - 1 : b = i * W + j
    BY PlaceOf
  <2>2. b \in Word(N, W)!Ones(u) <=> i = 0 /\ j = 0
    <3>1. i * W + j \in Word(N, W)!Ones(u) <=> Digit(u[i], j) = 1
      BY <1>3, OneInWord
    <3>2. Digit(u[i], j) = 1 <=> i = 0 /\ j = 0
      BY <1>4
    <3> QED BY <2>1, <3>1, <3>2
  <2>3. i = 0 /\ j = 0 <=> b = 0
    <3>1. i \in Nat /\ j \in Nat /\ i * W \in Nat
      BY ProductNat, SMT
    <3>2. i # 0 => i * W >= W
      <4> SUFFICES ASSUME i # 0 PROVE 1 * W <= i * W
        BY SMT
      <4>1. 1 <= i /\ 1 \in Int /\ i \in Int /\ W \in Nat
        BY SMT
      <4> QED BY <4>1, ProductMonotone
    <3> QED BY <2>1, <3>1, <3>2, SMT
  <2> QED BY <2>2, <2>3
<1>6. 0 \in 0 .. N * W - 1
  <2>1. 1 * W <= N * W
    <3>1. 1 <= N /\ 1 \in Int /\ N \in Int /\ W \in Nat
      BY SMT
    <3> QED BY <3>1, ProductMonotone
  <2> QED BY <2>1, SMT
<1>7. Word(N, W)!Ones(u) \subseteq 0 .. N * W - 1
  BY <1>3, OnesOf
<1> QED BY <1>3, <1>5, <1>6, <1>7 DEF u

(* What each position of two words adds to their mask. *)
Common(W, v, w) == [j \in 0 .. W - 1 |-> Digit(v, j) * Digit(w, j) * Pow2[j]]

(* The sum by which the mask is made. *)
LEMMA AndSum ==
  ASSUME NEW N, NEW W, NEW v, NEW w
  PROVE  Word(N, W)!WordAnd(v, w) = SumOver(Common(W, v, w), 0 .. W - 1)
<1> DEFINE D == 0 .. W - 1
           f == [j \in D |-> Word(N, W)!WordBit(v, j) * Word(N, W)!WordBit(w, j) * Word(N, W)!Pow2[j]]
<1>1. Word(N, W)!WordAnd(v, w) = Word(N, W)!MapThenSumSet(
        LAMBDA j : Word(N, W)!WordBit(v, j) * Word(N, W)!WordBit(w, j) * Word(N, W)!Pow2[j], D)
  BY DEF Word!WordAnd
<1> HIDE DEF D
<1>2. Word(N, W)!MapThenSumSet(
        LAMBDA j : Word(N, W)!WordBit(v, j) * Word(N, W)!WordBit(w, j) * Word(N, W)!Pow2[j], D)
        = SumOver(f, D)
  BY DEF Word!MapThenSumSet, Word!MapThenFoldSet, SumOver
<1>3. f = Common(W, v, w)
  BY WordPow2 DEF Common, D, Word!WordBit, Digit
<1> HIDE DEF f
<1> QED BY <1>1, <1>2, <1>3 DEF D

(* The mask of two numbers has the ones of both. *)
LEMMA AndMeets ==
  ASSUME NEW N \in Nat \ {0}, NEW W \in Nat \ {0},
         NEW x \in Word(N, W)!Numbers, NEW y \in Word(N, W)!Numbers
  PROVE  LET z == Word(N, W)!BitAnd(x, y)
         IN  /\ z \in Word(N, W)!Numbers
             /\ Word(N, W)!Ones(z) = Word(N, W)!Ones(x) \cap Word(N, W)!Ones(y)
<1> DEFINE z == Word(N, W)!BitAnd(x, y)
<1>1. /\ \A i \in 0 .. N - 1 : z[i] = SumOver(Common(W, x[i], y[i]), 0 .. W - 1)
      /\ z = [i \in 0 .. N - 1 |-> z[i]]
  <2>1. z = [i \in 0 .. N - 1 |-> Word(N, W)!WordAnd(x[i], y[i])]
    BY DEF Word!BitAnd, Word!WordIndex
  <2> HIDE DEF z
  <2>2. \A i \in 0 .. N - 1 : z[i] = Word(N, W)!WordAnd(x[i], y[i])
    BY <2>1
  <2> QED BY <2>1, <2>2, AndSum
<1> HIDE DEF z
<1>2. ASSUME NEW i \in 0 .. N - 1
      PROVE  /\ z[i] \in 0 .. Pow2[W] - 1
             /\ \A j \in 0 .. W - 1 :
                  Digit(z[i], j) = 1 <=> Digit(x[i], j) = 1 /\ Digit(y[i], j) = 1
  <2> DEFINE f == Common(W, x[i], y[i])
  <2>1. ASSUME NEW j \in 0 .. W - 1
        PROVE  /\ f[j] = 0 \/ f[j] = Pow2[j]
               /\ f[j] # 0 <=> Digit(x[i], j) = 1 /\ Digit(y[i], j) = 1
    <3> DEFINE a == Digit(x[i], j)
               b == Digit(y[i], j)
               p == Pow2[j]
    <3>1. j \in Nat /\ p \in Nat \ {0}
      BY Pow2Nat, SMT
    <3>2. x[i] \in Nat /\ y[i] \in Nat
      <4>1. x[i] \in 0 .. Pow2[W] - 1 /\ y[i] \in 0 .. Pow2[W] - 1
        BY OneInWord
      <4> QED BY <4>1, SMT
    <3>3. a \in {0, 1} /\ b \in {0, 1}
      BY <3>1, <3>2, DigitRange
    <3>4. f[j] = a * b * p
      BY DEF Common
    <3> HIDE DEF f, a, b, p
    <3>5. (f[j] = 0 \/ f[j] = p) /\ (f[j] # 0 <=> a = 1 /\ b = 1)
      <4>1. CASE a = 0
        BY <3>1, <3>3, <3>4, <4>1, SMT
      <4>2. CASE a = 1 /\ b = 0
        BY <3>1, <3>3, <3>4, <4>2, SMT
      <4>3. CASE a = 1 /\ b = 1
        BY <3>1, <3>3, <3>4, <4>3, SMT
      <4> QED BY <3>3, <4>1, <4>2, <4>3
    <3> QED BY <3>5 DEF a, b, p
  <2>2. z[i] = SumOver(f, 0 .. W - 1)
    BY <1>1
  <2> HIDE DEF f
  <2>3. W \in Nat
    BY SMT
  <2>4. \A b \in 0 .. W - 1 : f[b] = 0 \/ f[b] = Pow2[b]
    BY <2>1
  <2>5. LET s == SumOver(f, 0 .. W - 1)
        IN  /\ s \in 0 .. Pow2[W] - 1
            /\ \A j \in 0 .. W - 1 : Digit(s, j) = IF f[j] = 0 THEN 0 ELSE 1
    BY <2>3, <2>4, SumOfPowers
  <2> QED BY <2>1, <2>2, <2>5, SMT
<1>3. z \in Word(N, W)!Numbers
  BY <1>1, <1>2, WordPow2 DEF Word!Numbers, Word!WordIndex, Word!WordValues
<1>4. ASSUME NEW b \in 0 .. N * W - 1
      PROVE  b \in Word(N, W)!Ones(z) <=> b \in Word(N, W)!Ones(x) /\ b \in Word(N, W)!Ones(y)
  <2>1. PICK i \in 0 .. N - 1, j \in 0 .. W - 1 : b = i * W + j
    BY PlaceOf
  <2> QED BY <1>2, <1>3, <2>1, OneInWord
<1>5. /\ Word(N, W)!Ones(z) \subseteq 0 .. N * W - 1
      /\ Word(N, W)!Ones(x) \subseteq 0 .. N * W - 1
  BY <1>3, OnesOf
<1> QED BY <1>3, <1>4, <1>5 DEF z

(* Max and Min are the element that bounds the others. *)
LEMMA MaxMinAre ==
  ASSUME NEW S \in SUBSET Int, NEW g \in S
  PROVE  /\ (\A m \in S : m <= g) => Max(S) = g
         /\ (\A m \in S : g <= m) => Min(S) = g
<1>1. ASSUME \A m \in S : m <= g PROVE Max(S) = g
  <2>1. \A m \in S : g >= m
    BY <1>1, SMT
  <2>2. Max(S) \in S /\ \A m \in S : Max(S) >= m
    BY <2>1 DEF Max
  <2>3. Max(S) >= g /\ Max(S) <= g /\ Max(S) \in Int /\ g \in Int
    BY <1>1, <2>2
  <2> QED BY <2>3, SMT
<1>2. ASSUME \A m \in S : g <= m PROVE Min(S) = g
  <2>1. Min(S) \in S /\ \A m \in S : Min(S) <= m
    BY <1>2 DEF Min
  <2>2. Min(S) <= g /\ g <= Min(S) /\ Min(S) \in Int /\ g \in Int
    BY <1>2, <2>1
  <2> QED BY <2>2, SMT
<1> QED BY <1>1, <1>2

(* The words' own Max and Min are Max and Min. *)
LEMMA WordMaxMin ==
  ASSUME NEW N, NEW W, NEW S
  PROVE  Word(N, W)!Max(S) = Max(S) /\ Word(N, W)!Min(S) = Min(S)
BY DEF Word!Max, Word!Min, Max, Min

(* Positions compare by their words first, then within the word. *)
LEMMA PlaceOrder ==
  ASSUME NEW W \in Nat \ {0}, NEW i \in Nat, NEW h \in Nat,
         NEW j \in 0 .. W - 1, NEW l \in 0 .. W - 1, i * W + j <= h * W + l
  PROVE  i <= h /\ (i = h => j <= l)
<1>1. i <= h
  <2> SUFFICES ASSUME h + 1 <= i PROVE FALSE
    BY SMT
  <2>1. h + 1 \in Int /\ i \in Int /\ W \in Nat
    BY SMT
  <2>2. (h + 1) * W <= i * W
    BY <2>1, ProductMonotone
  <2>3. i * W \in Nat /\ h * W \in Nat
    BY ProductNat, SMT
  <2> QED BY <2>2, <2>3, SMT
<1>2. ASSUME i = h PROVE j <= l
  <2>1. h * W \in Nat
    BY ProductNat, SMT
  <2> QED BY <1>2, <2>1, SMT
<1> QED BY <1>1, <1>2

(* The counts of zeros find the outermost ones. *)
LEMMA ZerosCounted ==
  ASSUME NEW N \in Nat \ {0}, NEW W \in Nat \ {0}, NEW x \in Word(N, W)!Numbers,
         Word(N, W)!Ones(x) # {}
  PROVE  /\ Word(N, W)!LeadingZeros(x) = (N * W - 1) - Max(Word(N, W)!Ones(x))
         /\ Word(N, W)!TrailingZeros(x) = Min(Word(N, W)!Ones(x))
<1> DEFINE ones == Word(N, W)!Ones(x)
           full == Word(N, W)!NonZeroWords(x)
           digits(i) == {j \in 0 .. W - 1 : Digit(x[i], j) = 1}
<1>1. ones \subseteq 0 .. N * W - 1 /\ ones # {}
  BY OnesOf
<1>2. full = {i \in 0 .. N - 1 : x[i] # 0}
  BY DEF Word!NonZeroWords, Word!WordIndex
<1>3. ~Word(N, W)!IsZero(x)
  BY ZeroHasNoOnes
<1> HIDE DEF ones, full
<1>4. \A i \in 0 .. N - 1, j \in 0 .. W - 1 : i * W + j \in ones <=> j \in digits(i)
  BY OneInWord DEF ones
<1>5. \A i \in 0 .. N - 1 : digits(i) # {} <=> i \in full
  <2> SUFFICES ASSUME NEW i \in 0 .. N - 1 PROVE digits(i) # {} <=> i \in full
    OBVIOUS
  <2>1. 0 \in 0 .. W - 1
    BY SMT
  <2>2. x[i] \in 0 .. Pow2[W] - 1
    BY <2>1, OneInWord
  <2>3. x[i] = 0 <=> \A j \in 0 .. W - 1 : Digit(x[i], j) # 1
    BY <2>2, ZeroWord
  <2> QED BY <1>2, <2>3
<1>6. \A m \in ones : \E i \in full : \E j \in digits(i) : m = i * W + j
  <2> SUFFICES ASSUME NEW m \in ones PROVE \E i \in full : \E j \in digits(i) : m = i * W + j
    OBVIOUS
  <2>1. m \in 0 .. N * W - 1
    BY <1>1
  <2>2. PICK i \in 0 .. N - 1, j \in 0 .. W - 1 : m = i * W + j
    BY <2>1, PlaceOf
  <2>3. j \in digits(i)
    BY <1>4, <2>2
  <2>4. i \in full
    BY <1>5, <2>3
  <2> QED BY <2>2, <2>3, <2>4
<1>7. /\ full \subseteq Nat /\ full \subseteq Int
      /\ \A i : digits(i) \subseteq 0 .. W - 1 /\ digits(i) \subseteq Int
  <2>1. 0 .. N - 1 \subseteq Nat /\ 0 .. N - 1 \subseteq Int /\ 0 .. W - 1 \subseteq Int
    BY SMT
  <2> QED BY <1>2, <2>1
<1> HIDE DEF digits
<1>8. Word(N, W)!LeadingZeros(x) = (N * W - 1) - Max(ones)
  <2> DEFINE g == Max(ones)
  <2>1. g \in ones /\ \A m \in ones : m <= g
    <3>1. N * W - 1 \in Nat
      BY <1>1, SMT
    <3> QED BY <1>1, <3>1, GreatestNatural
  <2> HIDE DEF g
  <2>2. PICK i \in full : \E j \in digits(i) : g = i * W + j
    BY <1>6, <2>1
  <2>3. PICK j \in digits(i) : g = i * W + j
    BY <2>2
  <2>4. i \in 0 .. N - 1 /\ i \in Nat /\ j \in 0 .. W - 1
    BY <1>2, <1>7
  <2>5. ASSUME NEW h \in full PROVE h <= i
    <3>1. PICK l \in digits(h) : l \in 0 .. W - 1
      BY <1>2, <1>5, <1>7
    <3>2. h \in 0 .. N - 1 /\ h \in Nat
      BY <1>2, <1>7
    <3>3. h * W + l <= i * W + j
      BY <1>4, <2>1, <2>3, <3>1, <3>2
    <3> QED BY <2>4, <3>1, <3>2, <3>3, PlaceOrder
  <2>6. ASSUME NEW l \in digits(i) PROVE l <= j
    <3>1. l \in 0 .. W - 1
      BY <1>7
    <3>2. i * W + l <= i * W + j
      BY <1>4, <2>1, <2>3, <2>4, <3>1
    <3> QED BY <2>4, <3>1, <3>2, PlaceOrder
  <2>7. Max(full) = i /\ Max(digits(i)) = j
    BY <1>7, <2>5, <2>6, MaxMinAre
  <2>8. Word(N, W)!LeadingZeros(x)
          = (N - 1 - Max(full)) * W + (W - 1) - Max(digits(Max(full)))
    BY <1>3, WordMaxMin, WordPow2
       DEF Word!LeadingZeros, full, digits, Word!WordBit, Digit
  <2>9. (N - 1 - i) * W + (W - 1) - j = (N * W - 1) - (i * W + j)
    BY <2>4, SMT
  <2> QED BY <2>3, <2>7, <2>8, <2>9 DEF g
<1>9. Word(N, W)!TrailingZeros(x) = Min(ones)
  <2> DEFINE g == Min(ones)
  <2>1. g \in ones /\ \A m \in ones : g <= m
    <3>1. ones \in SUBSET Nat
      BY <1>1, SMT
    <3> QED BY <1>1, <3>1, MinNatural
  <2> HIDE DEF g
  <2>2. PICK i \in full : \E j \in digits(i) : g = i * W + j
    BY <1>6, <2>1
  <2>3. PICK j \in digits(i) : g = i * W + j
    BY <2>2
  <2>4. i \in 0 .. N - 1 /\ i \in Nat /\ j \in 0 .. W - 1
    BY <1>2, <1>7
  <2>5. ASSUME NEW h \in full PROVE i <= h
    <3>1. PICK l \in digits(h) : l \in 0 .. W - 1
      BY <1>2, <1>5, <1>7
    <3>2. h \in 0 .. N - 1 /\ h \in Nat
      BY <1>2, <1>7
    <3>3. i * W + j <= h * W + l
      BY <1>4, <2>1, <2>3, <3>1, <3>2
    <3> QED BY <2>4, <3>1, <3>2, <3>3, PlaceOrder
  <2>6. ASSUME NEW l \in digits(i) PROVE j <= l
    <3>1. l \in 0 .. W - 1
      BY <1>7
    <3>2. i * W + j <= i * W + l
      BY <1>4, <2>1, <2>3, <2>4, <3>1
    <3> QED BY <2>4, <3>1, <3>2, PlaceOrder
  <2>7. Min(full) = i /\ Min(digits(i)) = j
    BY <1>7, <2>5, <2>6, MaxMinAre
  <2>8. Word(N, W)!TrailingZeros(x) = Min(full) * W + Min(digits(Min(full)))
    BY <1>3, WordMaxMin, WordPow2
       DEF Word!TrailingZeros, full, digits, Word!WordBit, Digit
  <2> QED BY <2>3, <2>7, <2>8 DEF g
<1> QED BY <1>8, <1>9 DEF ones

(* One word size: all a search looks at is what it looks for. *)
LEMMA WordsAgree ==
  ASSUME NEW N \in Nat \ {0}, NEW W \in Nat \ {0}, N * W = BITS,
         NEW B \in SUBSET (0 .. BITS - 1), NEW n \in 0 .. BITS - 1
  PROVE  LET words == Word(N, W)!FromOnes(B)
             left  == Word(N, W)!Shl(words, n)
             right == Word(N, W)!Shr(words, n)
             one   == Word(N, W)!Shl(Word(N, W)!Unit, n)
         IN  /\ left \in Word(N, W)!Numbers
             /\ Word(N, W)!Ones(left) = ShiftLeft(B, n)
             /\ Word(N, W)!Ones(right) = ShiftRight(B, n)
             /\ ShiftLeft(B, n) # {} =>
                  Word(N, W)!LeadingZeros(left) = MostSignificantBit(ShiftLeft(B, n))
             /\ ShiftRight(B, n) # {} =>
                  Word(N, W)!TrailingZeros(right) = LeastSignificantBit(ShiftRight(B, n))
             /\ n \in B <=> ~Word(N, W)!IsZero(Word(N, W)!BitAnd(words, one))
<1> DEFINE words == Word(N, W)!FromOnes(B)
           left  == Word(N, W)!Shl(words, n)
           right == Word(N, W)!Shr(words, n)
           one   == Word(N, W)!Shl(Word(N, W)!Unit, n)
           both  == Word(N, W)!BitAnd(words, one)
<1>1. words \in Word(N, W)!Numbers /\ Word(N, W)!Ones(words) = B
  BY MadeOfOnes
<1>2. Word(N, W)!Unit \in Word(N, W)!Numbers /\ Word(N, W)!Ones(Word(N, W)!Unit) = {0}
  BY UnitOnes
<1>3. n \in 0 .. N * W - 1 /\ n \in Int /\ B \subseteq 0 .. BITS - 1 /\ B \subseteq Int
  <2>1. 0 .. BITS - 1 \subseteq Int
    BY SMT
  <2> QED BY <2>1
<1> HIDE DEF words
<1>4. /\ left \in Word(N, W)!Numbers
      /\ \A b \in 0 .. BITS - 1 : b \in Word(N, W)!Ones(left) <=> b - n \in B
  BY <1>1, <1>3, ShlMoves
<1>5. /\ right \in Word(N, W)!Numbers
      /\ \A b \in 0 .. BITS - 1 : b \in Word(N, W)!Ones(right) <=> b + n \in B
  BY <1>1, <1>3, ShrMoves
<1>6. /\ one \in Word(N, W)!Numbers
      /\ \A b \in 0 .. BITS - 1 : b \in Word(N, W)!Ones(one) <=> b - n \in {0}
  BY <1>2, <1>3, ShlMoves
<1> HIDE DEF left, right, one, both
<1>7. /\ Word(N, W)!Ones(left) \subseteq 0 .. BITS - 1
      /\ Word(N, W)!Ones(right) \subseteq 0 .. BITS - 1
      /\ Word(N, W)!Ones(one) \subseteq 0 .. BITS - 1
  BY <1>4, <1>5, <1>6, OnesOf
<1>8. Word(N, W)!Ones(left) = ShiftLeft(B, n)
  <2>1. \A b \in Word(N, W)!Ones(left) : b \in ShiftLeft(B, n)
    <3> SUFFICES ASSUME NEW b \in Word(N, W)!Ones(left) PROVE b \in ShiftLeft(B, n)
      OBVIOUS
    <3>1. b - n \in B /\ b \in 0 .. BITS - 1
      BY <1>4, <1>7
    <3>2. b = (b - n) + n /\ (b - n) + n < BITS
      BY <1>3, <3>1, SMT
    <3> QED BY <3>1, <3>2 DEF ShiftLeft
  <2>2. \A c \in B : c + n < BITS => c + n \in Word(N, W)!Ones(left)
    <3> SUFFICES ASSUME NEW c \in B, c + n < BITS PROVE c + n \in Word(N, W)!Ones(left)
      OBVIOUS
    <3>1. c \in 0 .. BITS - 1
      BY <1>3
    <3>2. c + n \in 0 .. BITS - 1 /\ (c + n) - n = c
      BY <1>3, <3>1, SMT
    <3> QED BY <1>4, <3>2
  <2> QED BY <2>1, <2>2 DEF ShiftLeft
<1>9. Word(N, W)!Ones(right) = ShiftRight(B, n)
  <2>1. \A b \in Word(N, W)!Ones(right) : b \in ShiftRight(B, n)
    <3> SUFFICES ASSUME NEW b \in Word(N, W)!Ones(right) PROVE b \in ShiftRight(B, n)
      OBVIOUS
    <3>1. b + n \in B /\ b \in 0 .. BITS - 1
      BY <1>5, <1>7
    <3>2. b = (b + n) - n /\ b + n >= n
      BY <1>3, <3>1, SMT
    <3> QED BY <3>1, <3>2 DEF ShiftRight
  <2>2. \A c \in B : c >= n => c - n \in Word(N, W)!Ones(right)
    <3> SUFFICES ASSUME NEW c \in B, c >= n PROVE c - n \in Word(N, W)!Ones(right)
      OBVIOUS
    <3>1. c \in 0 .. BITS - 1
      BY <1>3
    <3>2. c - n \in 0 .. BITS - 1 /\ (c - n) + n = c
      BY <1>3, <3>1, SMT
    <3> QED BY <1>5, <3>2
  <2> QED BY <2>1, <2>2 DEF ShiftRight
<1>10. ShiftLeft(B, n) # {} =>
         Word(N, W)!LeadingZeros(left) = MostSignificantBit(ShiftLeft(B, n))
  BY <1>4, <1>8, ZerosCounted DEF MostSignificantBit
<1>11. ShiftRight(B, n) # {} =>
         Word(N, W)!TrailingZeros(right) = LeastSignificantBit(ShiftRight(B, n))
  BY <1>5, <1>9, ZerosCounted DEF LeastSignificantBit
<1>12. n \in B <=> ~Word(N, W)!IsZero(both)
  <2>1. both \in Word(N, W)!Numbers /\ Word(N, W)!Ones(both) = B \cap Word(N, W)!Ones(one)
    BY <1>1, <1>6, AndMeets DEF both
  <2>2. \A b \in B : b \in Word(N, W)!Ones(one) <=> b = n
    <3> SUFFICES ASSUME NEW b \in B PROVE b \in Word(N, W)!Ones(one) <=> b = n
      OBVIOUS
    <3>1. b \in 0 .. BITS - 1
      BY <1>3
    <3>2. b - n = 0 <=> b = n
      BY <1>3, <3>1, SMT
    <3> QED BY <1>6, <3>1, <3>2
  <2>3. n \in B <=> Word(N, W)!Ones(both) # {}
    BY <2>1, <2>2
  <2> QED BY <2>1, <2>3, ZeroHasNoOnes
<1> QED BY <1>4, <1>8, <1>9, <1>10, <1>11, <1>12 DEF words, left, right, one, both

(* The searches see in the words what they would see in one number: the      *)
(* shifts, the counts of zeros and the mask of big_num.rs lose no bit and    *)
(* invent none, whatever the words the bitmap is divided into.               *)
THEOREM WordsSeeEveryBit == Spec => []WordsHoldBitmap
<1>1. IInv => WordsHoldBitmap
  <2> SUFFICES ASSUME IInv, NEW w \in WordSizes, NEW n \in 0 .. BITS - 1
               PROVE  LET words == Word(w[1], w[2])!FromOnes(bits)
                          left  == Word(w[1], w[2])!Shl(words, n)
                          right == Word(w[1], w[2])!Shr(words, n)
                          one   == Word(w[1], w[2])!Shl(Word(w[1], w[2])!Unit, n)
                      IN  /\ left \in Word(w[1], w[2])!Numbers
                          /\ Word(w[1], w[2])!Ones(left) = ShiftLeft(bits, n)
                          /\ Word(w[1], w[2])!Ones(right) = ShiftRight(bits, n)
                          /\ ShiftLeft(bits, n) # {} =>
                               Word(w[1], w[2])!LeadingZeros(left)
                                 = MostSignificantBit(ShiftLeft(bits, n))
                          /\ ShiftRight(bits, n) # {} =>
                               Word(w[1], w[2])!TrailingZeros(right)
                                 = LeastSignificantBit(ShiftRight(bits, n))
                          /\ n \in bits <=>
                               ~Word(w[1], w[2])!IsZero(Word(w[1], w[2])!BitAnd(words, one))
    BY DEF WordsHoldBitmap
  <2>1. w[1] \in Nat \ {0} /\ w[2] \in Nat \ {0} /\ w[1] * w[2] = BITS
    BY WordSizesAssumption
  <2>2. bits \in SUBSET (0 .. BITS - 1)
    BY DEF IInv, PoolTypes
  <2> QED BY <2>1, <2>2, WordsAgree
<1> QED BY <1>1, Invariance, PTL
=============================================================================
