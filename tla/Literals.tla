------------------------------ MODULE Literals ------------------------------
(***************************************************************************)
(* The scanners of src/src/parse.c for number and character literals: pure *)
(* functions from a place in the text to the token that begins there.      *)
(*                                                                         *)
(* A text is a sequence of characters and a place in it is an index, the   *)
(* pointer src of the code; the NUL is at Len(text) + 1.  A byte above 127 *)
(* is written as its two hexadecimal digits, other ones as themselves.     *)
(***************************************************************************)
EXTENDS Chars

CONSTANT LongBits   \* the width of a long

ASSUME LongBitsAssumption == LongBits \in Nat \ {0}

VARIABLES
  text,   \* the source text
  signed  \* whether char is a signed type where the program was built

-----------------------------------------------------------------------------
(* Bytes.                                                                  *)

(* From 32 on, the back quote by its number.                               *)
Ascii ==
  << " ", "!", "\"", "#", "$", "%", "&", "'", "(", ")", "*", "+", ",", "-",
     ".", "/", "0", "1", "2", "3", "4", "5", "6", "7", "8", "9", ":", ";", "<",
     "=", ">", "?", "@", "A", "B", "C", "D", "E", "F", "G", "H", "I", "J", "K",
     "L", "M", "N", "O", "P", "Q", "R", "S", "T", "U", "V", "W", "X", "Y", "Z",
     "[", "\\", "]", "^", "_", "60", "a", "b", "c", "d", "e", "f", "g", "h", "i",
     "j", "k", "l", "m", "n", "o", "p", "q", "r", "s", "t", "u", "v", "w", "x",
     "y", "z", "{", "|", "}", "~" >>

(* Those at the limits of what UTF-8 tells apart.                          *)
High ==
  [c \in {"80", "90", "a0", "bf", "c0", "c2", "c3", "df", "e0", "ef", "f0", "f7", "ff"} |->
     CASE c = "80" -> 128 [] c = "90" -> 144 [] c = "a0" -> 160 [] c = "bf" -> 191
       [] c = "c0" -> 192 [] c = "c2" -> 194 [] c = "c3" -> 195 [] c = "df" -> 223
       [] c = "e0" -> 224 [] c = "ef" -> 239 [] c = "f0" -> 240 [] c = "f7" -> 247
       [] c = "ff" -> 255]

Byte ==
  [c \in {"\t", "\n", "\r"} \union ToSet(Ascii) \union DOMAIN High |->
     CASE c = "\t" -> 9
       [] c = "\n" -> 10
       [] c = "\r" -> 13
       [] c \in DOMAIN High -> High[c]
       [] OTHER -> 31 + SelectInSeq(Ascii, LAMBDA d : d = c)]

NUL == ""

Nul == Len(text) + 1

at(i) == IF i \in DOMAIN text THEN text[i] ELSE NUL

(* A char as a uint32_t: its sign, if it has one, fills the word.          *)
Word32 ==
  [c \in DOMAIN Byte |->
     [s \in BOOLEAN |->
        IF s /\ 7 \in Bits(Byte[c]) THEN Bits(Byte[c]) \union 8..31 ELSE Bits(Byte[c])]]

(* (uint32_t)src[i].                                                       *)
word(i) == IF at(i) = NUL THEN {} ELSE Word32[at(i)][signed]

-----------------------------------------------------------------------------
(* Places.                                                                 *)

isspace(c) == c \in {" ", "\t", "\n", "\r"}

delim_list == {"(", ")", "{", "}", "[", "]", "#", ":", ";"}

is_delim(c) == c = NUL \/ isspace(c) \/ c \in delim_list

(* The first place from i on at which the test holds.                      *)
First(i, Test(_)) == Min({j \in i..Nul : Test(j)})

get_word_len(i) == First(i + 1, LAMBDA j : is_delim(at(j))) - i

(* skip_sign, skip_dot and parse_sign.                                     *)
skip(i, c) == IF at(i) = c THEN i + 1 ELSE i

-----------------------------------------------------------------------------
(* Tokens.                                                                 *)

tag_token(type, i, end) == [type |-> type, src |-> i, end |-> end]

tag_int(i, end, inum) == [type |-> "int", src |-> i, end |-> end, inum |-> inum]

(* A double is num / 10^place here: its rounding and the sign of zero are  *)
(* left out.                                                               *)
tag_float(i, end, num, place) ==
  [type |-> "float", src |-> i, end |-> end, fnum |-> [num |-> num, place |-> place]]

tag_char(i, end, cnum) == [type |-> "char", src |-> i, end |-> end, cnum |-> cnum]

-----------------------------------------------------------------------------
(* Numbers.                                                                *)

(* base, taken n times: parse_decimal divides so often by ten.             *)
power(base, n) ==
  LET p[m \in 0..n] == IF m = 0 THEN 1 ELSE base * p[m - 1] IN p[n]

(* A long is less.                                                         *)
Limit == power(2, LongBits - 1)

(* Arithmetic in a long, as the build has it: overflow wraps.              *)
Long(n) == ((n + Limit) % (2 * Limit)) - Limit

(* get_bit, get_digit and get_nibble.                                      *)
Digit ==
  [c \in DOMAIN Byte |->
     LET digit(first, last) == Byte[c] \in Byte[first]..Byte[last]
     IN  CASE digit("0", "9") -> Byte[c] - Byte["0"]
           [] digit("a", "f") -> Byte[c] - Byte["a"] + 10
           [] digit("A", "F") -> Byte[c] - Byte["A"] + 10
           [] OTHER -> 16]

(* is_bit, isdigit and is_nibble.                                          *)
is_digit(c, base) == c # NUL /\ Digit[c] < base

(* push_bit, push_nibble and push_digit, for the digits up to end.         *)
number(i, end, base) ==
  LET num[k \in 0..end - i] ==
        IF k = 0 THEN 0 ELSE Long(base * num[k - 1] + Digit[at(i + k - 1)])
  IN  num[end - i]

is_binary(i) ==
  LET j == skip(i, "-") IN at(j) = "0" /\ at(j + 1) \in {"b", "B"}

(* The capital X is looked for one place too far.                          *)
is_hex(i) ==
  LET j == skip(i, "-") IN at(j) = "0" /\ (at(j + 1) = "x" \/ at(j + 2) = "X")

is_decimal(i) == is_digit(at(skip(skip(i, "-"), ".")), 10)

(* Slip: the place of the sign is not counted.                             *)
parse_radix_signless(i, base) ==
  LET start == i + 2
      end == First(start, LAMBDA j : ~is_digit(at(j), base))
      inum == number(start, end, base)
  IN  CASE at(start) = NUL -> tag_token("error", i, start)
        [] at(start) # NUL /\ ~is_delim(at(end)) ->
             tag_token("error", i, end + get_word_len(end))
        [] OTHER -> tag_int(i, end, inum)

(* parse_binary and parse_hex.  An error takes the rest of the word.       *)
parse_radix(i, base) ==
  LET start == skip(i, "-") + 2
      end == First(start, LAMBDA j : ~is_digit(at(j), base))
      inum == number(start, end, base)
  IN  CASE at(start) = NUL -> tag_token("error", i, start)
        [] at(start) # NUL /\ ~is_delim(at(end)) ->
             tag_token("error", i, end + get_word_len(end))
        [] OTHER -> tag_int(i, end, IF at(i) = "-" THEN Long(-inum) ELSE inum)

parse_decimal(i) ==
  LET start == skip(i, "-")
      end == First(start, LAMBDA j : at(j) # "." /\ ~is_digit(at(j), 10))
      dots == {j \in start..end - 1 : at(j) = "."}
      dot == IF dots = {} THEN end ELSE Min(dots)
      bad == IF Cardinality(dots) > 1 THEN Min(dots \ {dot}) ELSE end
      inum == number(start, dot, 10)
      place == end - dot - 1
      fnum == inum * power(10, place) + number(dot + 1, end, 10)
      sign == IF at(i) = "-" THEN -1 ELSE 1
  IN  CASE bad # end \/ ~is_delim(at(end)) ->
             tag_token("error", i, bad + get_word_len(bad))
        [] bad = end /\ is_delim(at(end)) /\ dots = {} ->
             tag_int(i, end, Long(sign * inum))
        [] OTHER -> tag_float(i, end, sign * fnum, place)

-----------------------------------------------------------------------------
(* Characters.                                                             *)

is_hex_esc(i) == at(i + 1) \in {"x", "X", "u", "U"}

(* It looks for the first digit where the x is, which is none: what it     *)
(* would do with a digit is never reached.                                 *)
parse_hex_esc(i) == tag_token("error", i, i + 1)

is_dec_esc(i) == is_digit(at(i + 1), 10)

(* The first digit counts twice, and no more than two are taken.           *)
parse_dec_esc(i) ==
  LET end == IF is_digit(at(i + 2), 10) THEN i + 3 ELSE i + 2
      inum == FoldLeft(LAMBDA n, c : 10 * n + Digit[c], Digit[at(i + 1)],
                       SubSeq(text, i + 1, end - 1))
  IN  IF inum > 255 THEN tag_token("error", i, end) ELSE tag_char(i, end, Bits(inum))

Named == [a |-> 7, b |-> 8, e |-> 27, f |-> 12, n |-> 10, r |-> 13, t |-> 9, v |-> 11]

(* It takes two characters, also where the second is the NUL.              *)
parse_char_esc(i) ==
  tag_char(i, i + 2, IF at(i + 1) \in DOMAIN Named THEN Bits(Named[at(i + 1)])
                                                   ELSE word(i + 1))

(* utf8_error makes a token of what is malformed.                          *)
parse_utf8(i) ==
  LET src == <<word(i), word(i + 1), word(i + 2), word(i + 3)>>
      width == char_get_utf8_width(src)
  IN  IF width < 0 THEN tag_token("error", i, i - width)
                   ELSE tag_char(i, i + width, char_read_n(src, width))

parse_char_bare(i) ==
  CASE at(i) = "\\" /\ is_hex_esc(i) -> parse_hex_esc(i)
    [] at(i) = "\\" /\ is_dec_esc(i) -> parse_dec_esc(i)
    [] at(i) = "\\" /\ ~is_hex_esc(i) /\ ~is_dec_esc(i) -> parse_char_esc(i)
    [] OTHER -> parse_utf8(i)

(* Slip: a quote ends the literal also if it is escaped.                   *)
char_end_unescaped(i) ==
  LET quote == First(i, LAMBDA j : at(j) \in {NUL, "'"}) IN skip(quote, "'")

(* get_char_len, as the place behind the quote.                            *)
char_end(i) ==
  LET end[j \in i..Nul] ==
        CASE at(j) = "\\" -> IF at(j + 1) = NUL THEN Nul ELSE end[j + 2]
          [] at(j) = "'"  -> j + 1
          [] at(j) = NUL  -> j
          [] OTHER        -> end[j + 1]
  IN  end[i]

parse_char(i) ==
  LET bare == parse_char_bare(i + 1)
  IN  CASE at(i + 1) = NUL -> tag_token("error", i, i + 1)
        [] at(i + 1) # NUL /\ at(bare.end) = NUL -> tag_token("error", i, bare.end)
        [] at(i + 1) # NUL /\ at(bare.end) \notin {NUL, "'"} ->
             tag_token("error", i, char_end(bare.end))
        [] OTHER -> [bare EXCEPT !.src = i, !.end = @ + 1]

=============================================================================
