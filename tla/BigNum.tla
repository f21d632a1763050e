-------------------------------- MODULE BigNum --------------------------------
(***************************************************************************)
(* The multi-word integer of big_num.rs, word by word: U1024 is 16 words   *)
(* of 64 bits, the lowest first.  Faulty_X is X with a mistake, used by no *)
(* specification.                                                          *)
(***************************************************************************)
EXTENDS PowersOfTwo, FiniteSetsExt

CONSTANTS N_WORDS, WORD_BITS

WordIndex  == 0 .. N_WORDS - 1
WordValues == 0 .. Pow2[WORD_BITS] - 1
Numbers    == [WordIndex -> WordValues]

Zero == [i \in WordIndex |-> 0]
Unit == [i \in WordIndex |-> IF i = 0 THEN 1 ELSE 0]

(* u64: a shift drops the bits that leave the word *)
WordShl(w, n) == (w * Pow2[n]) % Pow2[WORD_BITS]
WordShr(w, n) == w \div Pow2[n]
WordBit(w, i) == (w \div Pow2[i]) % 2

WordAnd(v, w) ==
  MapThenSumSet(LAMBDA i : WordBit(v, i) * WordBit(w, i) * Pow2[i], 0 .. WORD_BITS - 1)

BitAnd(x, y) == [i \in WordIndex |-> WordAnd(x[i], y[i])]

IsZero(x) == \A i \in WordIndex : x[i] = 0

NonZeroWords(x) == {i \in WordIndex : x[i] # 0}

(* Words that are zero count whole; the first that is not ends the count *)
LeadingZeros(x) ==
  IF IsZero(x) THEN N_WORDS * WORD_BITS
  ELSE LET top == Max(NonZeroWords(x))
       IN  (N_WORDS - 1 - top) * WORD_BITS
             + (WORD_BITS - 1) - Max({i \in 0 .. WORD_BITS - 1 : WordBit(x[top], i) = 1})

TrailingZeros(x) ==
  IF IsZero(x) THEN N_WORDS * WORD_BITS
  ELSE LET low == Min(NonZeroWords(x))
       IN  low * WORD_BITS + Min({i \in 0 .. WORD_BITS - 1 : WordBit(x[low], i) = 1})

(* nothing carried from the word below *)
Faulty_Shl(x, shift) ==
  LET words == shift \div WORD_BITS
  IN  [i \in WordIndex |-> IF i < words THEN 0 ELSE WordShl(x[i - words], shift % WORD_BITS)]

(* Whole words, then bits, then the carry unless no bit crosses a word *)
Shl(x, shift) ==
  LET words == shift \div WORD_BITS
      bits  == shift % WORD_BITS
  IN  [i \in WordIndex |->
         (IF i < words THEN 0 ELSE WordShl(x[i - words], bits))
           + (IF bits = 0 \/ i < words + 1 THEN 0
              ELSE WordShr(x[i - 1 - words], WORD_BITS - bits))]

Shr(x, shift) ==
  LET words == shift \div WORD_BITS
      bits  == shift % WORD_BITS
  IN  [i \in WordIndex |->
         (IF i + words >= N_WORDS THEN 0 ELSE WordShr(x[i + words], bits))
           + (IF bits = 0 \/ i + words + 1 >= N_WORDS THEN 0
              ELSE WordShl(x[i + words + 1], WORD_BITS - bits))]

(* The set of the positions that are 1, and the number with these ones *)
Ones(x) ==
  {b \in 0 .. N_WORDS * WORD_BITS - 1 : WordBit(x[b \div WORD_BITS], b % WORD_BITS) = 1}

FromOnes(ones) ==
  [i \in WordIndex |->
     MapThenSumSet(LAMBDA b : IF i * WORD_BITS + b \in ones THEN Pow2[b] ELSE 0,
                   0 .. WORD_BITS - 1)]
=============================================================================
