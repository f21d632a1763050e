------------------------- MODULE MCTickArrayBitmap --------------------------
EXTENDS TickArrayBitmap

(* Spacing 1: the bitmap (-6 .. 5) ends inside the tick domain.  2: its    *)
(* first array (-12 .. -9) holds MIN_TICK.  3: it reaches beyond.          *)
MCSpacings  == {1, 2, 3}
MCArraySets == SUBSET (-3 .. 2)

(* as three words of two bits, two words of three, six bits each a word, one word *)
MCWordSizes == {<<3, 2>>, <<2, 3>>, <<6, 1>>, <<1, 6>>}
=============================================================================
