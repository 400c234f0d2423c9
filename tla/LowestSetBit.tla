---------------------------- MODULE LowestSetBit ----------------------------
(***************************************************************************)
(* maxrtos_scheduler_lowest_set_bit: the best ready priority is found with *)
(* one multiplication and a table instead of a loop.  A 32-bit word is the *)
(* set of its set bits, so that the arithmetic modulo 2^32 is exact: the   *)
(* product with a power of two is a shift that loses the bits above 31.    *)
(***************************************************************************)
EXTENDS Integers

Bit == 0 .. 31

\* 0x077CB531
DeBruijn == {0, 4, 5, 8, 10, 12, 13, 15, 18, 19, 20, 21, 22, 24, 25, 26}

BitIndex ==
  <<0, 1, 28, 2, 29, 14, 24, 3, 30, 22, 20,
    15, 25, 17, 4, 8, 31, 27, 13, 23, 21, 19,
    16, 7, 26, 12, 18, 6, 11, 5, 10, 9>>

Complement(w) == Bit \ w

\* w + 1: the run of ones at the bottom is cleared and the next bit set.
Increment(w) ==
  LET low == {b \in Bit : \A c \in 0 .. b : c \in w}
  IN  (w \ low) \cup {b \in Bit : b \notin low /\ \A c \in 0 .. b - 1 : c \in low}

Isolated(w) == w \cap Increment(Complement(w))

ShiftLeft(w, n) == {b + n : b \in w} \cap Bit

\* The number that the top five bits of w stand for.
TopFive(w) ==
  LET digit(n) == IF 27 + n \in w THEN 1 ELSE 0
  IN  digit(0) + 2 * digit(1) + 4 * digit(2) + 8 * digit(3) + 16 * digit(4)

\* Multiplying by the isolated bit 2^n shifts the constant left by n.
LowestSetBit(w) ==
  BitIndex[TopFive(UNION {ShiftLeft(DeBruijn, n) : n \in Isolated(w)}) + 1]
=============================================================================
