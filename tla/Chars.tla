-------------------------------- MODULE Chars -------------------------------
(***************************************************************************)
(* The characters of src/src/char.c: how UTF-8 is read and written.        *)
(*                                                                         *)
(* A uint32_t, and a char converted to one, is the set of the positions at *)
(* which it has a one bit, so that shifts, masks and the sign of a char are*)
(* what the code makes of them.  src is a sequence of such words, counted  *)
(* from one, with the NUL, which is {}, at the end of the text.            *)
(***************************************************************************)
EXTENDS Integers, Sequences, SequencesExt, FiniteSets

Bits(n) == {i \in 0..7 : (n \div 2^i) % 2 = 1}

(* word << k * UTF8_SHIFT, and (uint8_t)(word >> k * UTF8_SHIFT).          *)
Left(word, k) == {i + 6 * k : i \in word} \intersect 0..31

Right(word, k) == {i - 6 * k : i \in word} \intersect 0..7

(* Whether a word is greater than the largest one of so many bits.         *)
Above(word, bits) == \E i \in word : i >= bits

-----------------------------------------------------------------------------
(* Its maxima are the largest numbers of so many bits.                     *)

WEFT_CHAR_MAX == 21

UTF8_1MAX == 7

(* Slip: a bit too few.                                                    *)
UTF8_2MAX_low == 10

UTF8_2MAX == 11

UTF8_3MAX == 16

UTF8_XBYTE == Bits(128)

UTF8_XMASK == Bits(192)

(* The bits that tell the first byte of a character of so many bytes, and  *)
(* what they are.                                                          *)
Mask == <<Bits(128), Bits(224), Bits(240), Bits(248)>>

Lead == <<{}, Bits(192), Bits(224), Bits(240)>>

is_xbyte(word) == word \intersect UTF8_XMASK = UTF8_XBYTE

char_read_n(src, width) ==
  IF width = 1 THEN src[1]
  ELSE Left(src[1] \ Mask[width], width - 1) \union
       UNION {Left(src[i] \ UTF8_XMASK, width - i) : i \in 2..width}

(* The bytes at which a character of so many bytes is found malformed: one *)
(* that continues nothing, or one that has the end of the text behind it   *)
(* although more must follow.                                              *)
Malformed(src, width) ==
  {i \in 1..width :
     \/ i > 1 /\ ~is_xbyte(src[i])
     \/ i < width /\ src[i + 1] = {}}

(* The first malformed byte is where the width of an error ends.           *)
char_get_utf8_width(src) ==
  LET wide == {width \in 2..4 : src[1] \intersect Mask[width] = Lead[width]}
      width == Max(wide)
  IN  CASE wide = {} -> IF 7 \in src[1] THEN -1 ELSE 1
        [] wide # {} /\ Malformed(src, width) # {} -> -Min(Malformed(src, width))
        [] OTHER -> IF width = 4 /\ Above(char_read_n(src, 4), WEFT_CHAR_MAX)
                    THEN -4 ELSE width

xbyte(cnum, k) == (Right(cnum, k) \ UTF8_XMASK) \union UTF8_XBYTE

char_write(cnum) ==
  LET width == CASE Above(cnum, UTF8_3MAX) -> 4
                 [] ~Above(cnum, UTF8_3MAX) /\ Above(cnum, UTF8_2MAX) -> 3
                 [] ~Above(cnum, UTF8_2MAX) /\ Above(cnum, UTF8_1MAX) -> 2
                 [] OTHER -> 1
  IN  <<Right(cnum, width - 1) \union Lead[width]>> \o
        [i \in 1..width - 1 |-> xbyte(cnum, width - 1 - i)]

=============================================================================
