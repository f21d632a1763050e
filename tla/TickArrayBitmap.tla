--------------------------- MODULE TickArrayBitmap ---------------------------
(***************************************************************************)
(* The bitmap of initialized tick arrays (tick_array_bit_map.rs) and the   *)
(* walk a caller makes over it to gather the arrays a swap may touch:      *)
(* check_current_tick_array_is_initialized for the array it starts in,     *)
(* then next_initialized_tick_array_start_index until it says there is     *)
(* none left.                                                              *)
(*                                                                         *)
(* The 1024 bits are the set of the positions that are 1.  Faulty_X is X   *)
(* with a mistake, used by no specification.                               *)
(***************************************************************************)
EXTENDS Integers, Sequences, FiniteSetsExt

CONSTANTS
  TICK_ARRAY_SIZE,
  TICK_ARRAY_BITMAP_SIZE,   \* half the bits: one side of tick 0
  MAX_TICK,
  WordSizes,                \* <<words, bits>> the bitmap may be stored in
  Spacings,                 \* tick_spacing of the pools
  ArraySets                 \* bit positions, relative to bit 0 of tick 0, a
                            \* pool may have set

MIN_TICK == -MAX_TICK

ASSUME BitmapAssumption ==
  /\ TICK_ARRAY_SIZE \in Nat \ {0}
  /\ TICK_ARRAY_BITMAP_SIZE \in Nat \ {0}
  /\ MAX_TICK \in Nat \ {0}
  /\ Spacings \subseteq Nat \ {0}
  /\ \A a \in ArraySets : a \subseteq -TICK_ARRAY_BITMAP_SIZE .. TICK_ARRAY_BITMAP_SIZE - 1

BITS == 2 * TICK_ARRAY_BITMAP_SIZE

ASSUME WordSizesAssumption ==
  /\ WordSizes \subseteq (Nat \ {0}) \X (Nat \ {0})
  /\ \A w \in WordSizes : w[1] * w[2] = BITS

(* U1024 for each of the word sizes *)
Word(words, wordBits) == INSTANCE BigNum WITH N_WORDS <- words, WORD_BITS <- wordBits

(* Rust's / and % on i32 truncate towards zero *)
Abs(a)         == IF a < 0 THEN -a ELSE a
TruncDiv(a, b) == IF a < 0 THEN -((-a) \div b) ELSE a \div b
TruncRem(a, b) == a - b * TruncDiv(a, b)

-----------------------------------------------------------------------------
(* state_helpers.rs *)

TickCountInArray(spacing) == TICK_ARRAY_SIZE * spacing

(* no rounding down for negative ticks *)
Faulty_RoundedDown(tick, width) == TruncDiv(tick, width)

(* `start -= 1' for a negative tick that is not a multiple *)
RoundedDown(tick, width) ==
  TruncDiv(tick, width) - (IF tick < 0 /\ TruncRem(tick, width) # 0 THEN 1 ELSE 0)

ArrayStartIndexForTick(tick, spacing) ==
  RoundedDown(tick, TickCountInArray(spacing)) * TickCountInArray(spacing)

IsTickOutOfBoundary(tick) == tick < MIN_TICK \/ tick > MAX_TICK

(* the array of MIN_TICK forgotten *)
Faulty_IsValidTickArrayStartIndex(start, spacing) ==
  ~IsTickOutOfBoundary(start) /\ TruncRem(start, TickCountInArray(spacing)) = 0

(* The array that holds MIN_TICK starts below it and is valid all the same *)
IsValidTickArrayStartIndex(start, spacing) ==
  IF IsTickOutOfBoundary(start)
    THEN start <= MAX_TICK /\ start = ArrayStartIndexForTick(MIN_TICK, spacing)
    ELSE TruncRem(start, TickCountInArray(spacing)) = 0

-----------------------------------------------------------------------------
(* tick_array_bit_map.rs *)

MaxTickInTickArrayBitmap(spacing) == TickCountInArray(spacing) * TICK_ARRAY_BITMAP_SIZE

(* The bounds of the bitmap (the default one or an extension) of a start *)
BitmapTickBoundary(start, spacing) ==
  LET ticks == MaxTickInTickArrayBitmap(spacing)
      low   == RoundedDown(start, ticks) * ticks
  IN  <<low, low + ticks>>

(* The bit of an array: `abs' maps a bit below the bitmap back into it *)
BitPosition(tick, spacing) ==
  Abs(RoundedDown(tick, TickCountInArray(spacing)) + TICK_ARRAY_BITMAP_SIZE)

StartOfBit(bit, spacing) == (bit - TICK_ARRAY_BITMAP_SIZE) * TickCountInArray(spacing)

(* Shifts of the 1024-bit number drop the bits that leave it *)
ShiftLeft(bits, n)  == {b + n : b \in {c \in bits : c + n < BITS}}
ShiftRight(bits, n) == {b - n : b \in {c \in bits : c >= n}}

(* leading_zeros and trailing_zeros of a number that is not 0 *)
MostSignificantBit(bits)  == (BITS - 1) - Max(bits)
LeastSignificantBit(bits) == Min(bits)

CheckError == [tag |-> "err", code |-> "InvalidTickIndex"]

CheckCurrentTickArrayIsInitialized(bits, tick, spacing) ==
  IF IsTickOutOfBoundary(tick)
    THEN CheckError
    ELSE [tag |-> "ok",
          initialized |-> BitPosition(tick, spacing) \in bits,
          start |-> ArrayStartIndexForTick(tick, spacing)]

(* the array searched from is not left behind *)
Faulty_NextCandidate(last, spacing, zeroForOne) == last

NextCandidate(last, spacing, zeroForOne) ==
  IF zeroForOne THEN last - TickCountInArray(spacing)
                ELSE last + TickCountInArray(spacing)

Answer(found, start) == [tag |-> "ok", found |-> found, start |-> start]
AssertFails          == [tag |-> "panic"]

(* shifted by one bit too many *)
Faulty_SearchDown(bits, bit, spacing) ==
  LET offset == ShiftLeft(bits, BITS - bit)
  IN  IF offset = {}
        THEN Answer(FALSE, -MaxTickInTickArrayBitmap(spacing))
        ELSE Answer(TRUE, StartOfBit(bit - 1 - MostSignificantBit(offset), spacing))

(* From the upper to the lower bits, the bit itself included *)
SearchDown(bits, bit, spacing) ==
  LET offset == ShiftLeft(bits, BITS - bit - 1)
  IN  IF offset = {}
        THEN Answer(FALSE, -MaxTickInTickArrayBitmap(spacing))
        ELSE Answer(TRUE, StartOfBit(bit - MostSignificantBit(offset), spacing))

(* the distance from the bit taken for the bit *)
Faulty_SearchUp(bits, bit, spacing) ==
  LET offset == ShiftRight(bits, bit)
  IN  IF offset = {}
        THEN Answer(FALSE, MaxTickInTickArrayBitmap(spacing) - TickCountInArray(spacing))
        ELSE Answer(TRUE, StartOfBit(LeastSignificantBit(offset), spacing))

(* From the lower to the upper bits *)
SearchUp(bits, bit, spacing) ==
  LET offset == ShiftRight(bits, bit)
  IN  IF offset = {}
        THEN Answer(FALSE, MaxTickInTickArrayBitmap(spacing) - TickCountInArray(spacing))
        ELSE Answer(TRUE, StartOfBit(bit + LeastSignificantBit(offset), spacing))

NextInitializedTickArrayStartIndex(bits, last, spacing, zeroForOne) ==
  LET boundary == MaxTickInTickArrayBitmap(spacing)
      next     == NextCandidate(last, spacing, zeroForOne)
      bit      == BitPosition(next, spacing)
  IN  IF ~IsValidTickArrayStartIndex(last, spacing) THEN AssertFails
      ELSE IF next < -boundary \/ next >= boundary THEN Answer(FALSE, last)
      ELSE IF zeroForOne THEN SearchDown(bits, bit, spacing)
      ELSE SearchUp(bits, bit, spacing)

-----------------------------------------------------------------------------
(* The walk *)

VARIABLES
  bits,        \* the pool's bitmap
  spacing,
  tick,        \* tick_current
  zeroForOne,
  turned,      \* the caller has reversed its direction
  phase,       \* "start", "walk", "exhausted", "failed"
  origin,      \* the start index this direction was searched from
  cursor,      \* the last start index an answer gave
  gathered     \* starts of the initialized arrays found, in order

vars == <<bits, spacing, tick, zeroForOne, turned, phase, origin, cursor, gathered>>
pool == <<bits, spacing, tick>>

Boundary == MaxTickInTickArrayBitmap(spacing)
Count    == TickCountInArray(spacing)

(* The arrays whose bit is set *)
SetStarts == {StartOfBit(b, spacing) : b \in bits}

(***************************************************************************)
(* A pool sets the bit of an array only if the array holds a tick of the   *)
(* domain.  The tick is within the range the bitmap represents: the        *)
(* precondition tick_array_bit_map.rs:83 leaves to the caller.             *)
(***************************************************************************)
Init ==
  /\ spacing \in Spacings
  /\ bits \in {{a + TICK_ARRAY_BITMAP_SIZE : a \in s} : s \in ArraySets}
  /\ \A s \in SetStarts : s <= MAX_TICK /\ s + Count > MIN_TICK
  /\ tick \in MIN_TICK - 1 .. MAX_TICK
  /\ -Boundary <= tick /\ tick < Boundary
  /\ zeroForOne \in BOOLEAN
  /\ turned = FALSE
  /\ phase = "start"
  /\ origin = 0
  /\ cursor = 0
  /\ gathered = <<>>

Current == CheckCurrentTickArrayIsInitialized(bits, tick, spacing)

CheckCurrentFails ==
  /\ phase = "start"
  /\ Current.tag = "err"
  /\ phase' = "failed"
  /\ UNCHANGED <<pool, zeroForOne, turned, origin, cursor, gathered>>

CheckCurrent ==
  /\ phase = "start"
  /\ Current.tag = "ok"
  /\ origin' = Current.start
  /\ cursor' = Current.start
  /\ gathered' = IF Current.initialized THEN <<Current.start>> ELSE <<>>
  /\ phase' = "walk"
  /\ UNCHANGED <<pool, zeroForOne, turned>>

Found == NextInitializedTickArrayStartIndex(bits, cursor, spacing, zeroForOne)

NextArray ==
  /\ phase = "walk"
  /\ Found.tag = "ok" /\ Found.found
  /\ cursor' = Found.start
  /\ gathered' = Append(gathered, Found.start)
  /\ UNCHANGED <<pool, zeroForOne, turned, phase, origin>>

(* The start index of a negative answer is where the search stopped *)
NoneLeft ==
  /\ phase = "walk"
  /\ Found.tag = "ok" /\ ~Found.found
  /\ cursor' = Found.start
  /\ phase' = "exhausted"
  /\ UNCHANGED <<pool, zeroForOne, turned, origin, gathered>>

AssertionFails ==
  /\ phase = "walk"
  /\ Found.tag = "panic"
  /\ phase' = "failed"
  /\ UNCHANGED <<pool, zeroForOne, turned, origin, cursor, gathered>>

(* The caller searches the other way from where the first search stopped *)
TurnAround ==
  /\ phase = "exhausted" /\ ~turned
  /\ turned' = TRUE
  /\ zeroForOne' = ~zeroForOne
  /\ origin' = cursor
  /\ gathered' = <<>>
  /\ phase' = "walk"
  /\ UNCHANGED <<pool, cursor>>

Next ==
  \/ CheckCurrentFails \/ CheckCurrent
  \/ NextArray \/ NoneLeft \/ AssertionFails
  \/ TurnAround

Spec == Init /\ [][Next]_vars

-----------------------------------------------------------------------------
(* Properties *)

(* Types of every variable. *)
TypeOK ==
  /\ bits \subseteq 0 .. BITS - 1
  /\ tick \in MIN_TICK - 1 .. MAX_TICK
  /\ zeroForOne \in BOOLEAN /\ turned \in BOOLEAN
  /\ phase \in {"start", "walk", "exhausted", "failed"}
  /\ origin \in -Boundary .. Boundary - 1
  /\ cursor \in -Boundary .. Boundary - 1
  /\ gathered \in Seq(SetStarts)

Gathered == {gathered[i] : i \in DOMAIN gathered}

(***************************************************************************)
(* What the walk is for: every initialized array that holds a tick on the  *)
(* side of the swap, the current tick's own array included, is gathered    *)
(* before the caller is told that none is left, on both sides of tick 0,   *)
(* whether the bitmap is wider or narrower than the tick domain.           *)
(***************************************************************************)
NoArraySkipped ==
  phase = "exhausted" /\ ~turned =>
    \A s \in SetStarts :
      (\E t \in s .. s + Count - 1 : IF zeroForOne THEN t <= tick ELSE t >= tick)
        => s \in Gathered

(***************************************************************************)
(* The search the other way from the index a negative answer carries sees  *)
(* every array beyond that index too: the negative answer points at an     *)
(* array that is itself not initialized, or was the last one answered.     *)
(***************************************************************************)
TurningLosesNothing ==
  phase = "exhausted" /\ turned =>
    Gathered = {s \in SetStarts : IF zeroForOne THEN s < origin ELSE s > origin}

(***************************************************************************)
(* The bitmap is stored in words: the shifts, the counts of zeros and the  *)
(* mask by which the searches look at it see the same bits as if it were   *)
(* one number, for every distance of a shift, whether bits cross from word *)
(* to word, whole words move or nothing does.                              *)
(***************************************************************************)
WordsHoldBitmap ==
  phase = "start" =>
    \A w \in WordSizes :
      LET words    == Word(w[1], w[2])!FromOnes(bits)
          left(n)  == Word(w[1], w[2])!Shl(words, n)
          right(n) == Word(w[1], w[2])!Shr(words, n)
          one(n)   == Word(w[1], w[2])!Shl(Word(w[1], w[2])!Unit, n)
      IN  \A n \in 0 .. BITS - 1 :
            /\ left(n) \in Word(w[1], w[2])!Numbers
            /\ Word(w[1], w[2])!Ones(left(n)) = ShiftLeft(bits, n)
            /\ Word(w[1], w[2])!Ones(right(n)) = ShiftRight(bits, n)
            /\ ShiftLeft(bits, n) # {} =>
                 Word(w[1], w[2])!LeadingZeros(left(n)) = MostSignificantBit(ShiftLeft(bits, n))
            /\ ShiftRight(bits, n) # {} =>
                 Word(w[1], w[2])!TrailingZeros(right(n))
                   = LeastSignificantBit(ShiftRight(bits, n))
            /\ n \in bits <=> ~Word(w[1], w[2])!IsZero(Word(w[1], w[2])!BitAnd(words, one(n)))

(***************************************************************************)
(* Arrays come in the order the swap meets them, each once: the slice the  *)
(* caller flattens from them is sorted, as swap_full.rs:88 demands, and    *)
(* the walk ends after at most as many answers as the bitmap has bits.     *)
(***************************************************************************)
GatheredInOrder ==
  \A i, j \in DOMAIN gathered :
    i < j => IF zeroForOne THEN gathered[i] > gathered[j]
                           ELSE gathered[i] < gathered[j]

(***************************************************************************)
(* The assertion on the start index fires only on an index handed back by  *)
(* a negative answer, and only where the bitmap reaches beyond the arrays  *)
(* of the tick domain; every other answer may be passed on.                *)
(***************************************************************************)
AssertOnlyBeyondDomain ==
  phase = "failed" =>
    \/ tick < MIN_TICK
    \/ /\ turned /\ gathered = <<>>
       /\ cursor \in {-Boundary, Boundary - Count}
       /\ cursor > MAX_TICK \/ cursor + Count <= MIN_TICK

(***************************************************************************)
(* An answer never leaves the bitmap of its side of tick 0 unnoticed:      *)
(* get_bitmap_tick_boundary of every index answered is the half of the     *)
(* default bitmap that holds it.                                           *)
(***************************************************************************)
AnswersInDefaultBitmap ==
  BitmapTickBoundary(cursor, spacing)
    = (IF cursor < 0 THEN <<-Boundary, 0>> ELSE <<0, Boundary>>)

=============================================================================
