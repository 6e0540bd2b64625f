----------------------------- MODULE ClaxCrc32 ------------------------------
(***************************************************************************)
(* The checksum of clax_crc32.c.  A word is the set of the places of its   *)
(* bits, the lowest being 0; a byte is a word below 8.                     *)
(***************************************************************************)
EXTENDS Integers, Sequences, SequencesExt

Word == 0..31

Xor(a, b) == (a \ b) \cup (b \ a)
Right(w, n) == {i - n : i \in {k \in w : k >= n}}

\* 0xEDB88320
poly == {5, 8, 9, 15, 19, 20, 21, 23, 24, 26, 27, 29, 30, 31}

\* Variant: the polynomial is added to every bit.
gen_always_adds(crc) == Xor(Right(crc, 1), poly)

GenStep(crc) == IF 0 \in crc THEN Xor(Right(crc, 1), poly) ELSE Right(crc, 1)

clax_crc32_gen == [b \in SUBSET (0..7) |-> FoldLeft(LAMBDA c, j : GenStep(c), b, <<8, 7, 6, 5, 4, 3, 2, 1>>)]

clax_crc32_init == Word

clax_crc32_finalize(crc) == Xor(crc, Word)

\* A table of 256 entries takes a byte at a time.
clax_crc32_calc(crc, buf) ==
  FoldLeft(LAMBDA c, byte : Xor(Right(c, 8) \ (24..31), clax_crc32_gen[Xor(c \cap (0..7), byte)]),
           crc, buf)
=============================================================================
