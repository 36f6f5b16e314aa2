------------------------------- MODULE Lexer -------------------------------
(***************************************************************************)
(* The lexer of src/src/parse.c as parse() drives it: empty space and      *)
(* comments are skipped, one token is taken, and so on until the NUL.      *)
(* Texts and places are those of Literals, which has the scanners that     *)
(* parse_token calls for numbers and characters; strings and shuffle       *)
(* diagrams are read here, one character or one member at a time.          *)
(***************************************************************************)
EXTENDS Literals

CONSTANTS
  Texts,   \* the source texts
  Signs    \* whether char is a signed type: what the platforms say

ASSUME TextsAssumption == Texts \subseteq Seq(DOMAIN Byte \ {NUL})
ASSUME SignsAssumption == Signs \subseteq BOOLEAN

VARIABLES
  src,      \* P->src: the place the lexer has come to
  pc,       \* "start", "token", "str", "in" or "out" of a diagram, "done", or
            \* "overrun" when a place behind the NUL has been read
  tokens,   \* history: the tokens so far, empty ones left out
  shuffle,  \* the shuffle diagram that is read, or the last one
  str       \* the string that is read, or the last one, and, as history,
            \* the places of the characters that were kept

vars == <<text, signed, src, pc, tokens, shuffle, str>>

-----------------------------------------------------------------------------
(* Places.                                                                 *)

(* strchr finds the NUL, too.                                              *)
op_list == {"[", "]", ":", ";", NUL}

shuffle_error_list == {"{", ")", "]", ":", ";"}

is_shuffle_pivot(i) == at(i) = "-" /\ at(i + 1) = "-"

-----------------------------------------------------------------------------
(* Comments.                                                               *)

(* get_line_len, as the place where the line ends.                         *)
line_end(i) == First(i, LAMBDA j : at(j) \in {NUL, "\n"})

(* A line comment takes the end of its line with it.                       *)
parse_line_comment(i) == Min({line_end(i) + 1, Nul})

(* Slip: a bracket in a line comment counts.                               *)
parse_comment_no_line(i) ==
  LET end[at_nest \in (1..Nul) \X Nat] ==
        LET j == at_nest[1]
            nest == at_nest[2]
        IN  CASE nest = 0 \/ at(j) = NUL -> j
              [] nest > 0 /\ at(j) = "(" -> end[<<j + 1, nest + 1>>]
              [] nest > 0 /\ at(j) = ")" -> end[<<j + 1, nest - 1>>]
              [] OTHER -> end[<<j + 1, nest>>]
  IN  end[<<i + 1, 1>>]

(* The place after a comment, or the NUL if it is not closed.              *)
parse_comment(i) ==
  LET end[at_nest \in (1..Nul) \X Nat] ==
        LET j == at_nest[1]
            nest == at_nest[2]
        IN  CASE nest = 0 \/ at(j) = NUL -> j
              [] nest > 0 /\ at(j) = "(" -> end[<<j + 1, nest + 1>>]
              [] nest > 0 /\ at(j) = ")" -> end[<<j + 1, nest - 1>>]
              [] nest > 0 /\ at(j) = "#" -> end[<<parse_line_comment(j), nest>>]
              [] OTHER -> end[<<j + 1, nest>>]
  IN  end[<<i + 1, 1>>]

(* How many more "(" than ")" from i up to j.  The size_t of the code      *)
(* wraps below zero; it is only compared with zero.                        *)
depth(i, j) ==
  Cardinality({k \in i..j - 1 : at(k) = "("}) -
  Cardinality({k \in i..j - 1 : at(k) = ")"})

(* Slip: what is in a comment counts as code.                              *)
is_line_empty_flat(i) ==
  \A j \in i..line_end(i) - 1 :
    \/ isspace(at(j)) \/ at(j) \in {"(", ")"}
    \/ \E k \in i..j : at(k) = "#"

is_line_empty(i) ==
  \A j \in i..line_end(i) - 1 :
    \/ isspace(at(j)) \/ at(j) \in {"(", ")"} \/ depth(i, j) # 0
    \/ \E k \in i..j : at(k) = "#"

is_indent(i) == at(i) = "\n" /\ ~is_line_empty(i + 1)

(* Slip: a new line is blank whatever follows.                             *)
parse_empty_blind(i) ==
  LET end[j \in 1..Nul] ==
        CASE at(j) = "#" -> end[parse_line_comment(j)]
          [] at(j) = "(" -> end[parse_comment(j)]
          [] isspace(at(j)) -> end[j + 1]
          [] OTHER -> j
  IN  end[i]

(* The place after blanks, comments and empty lines.                       *)
parse_empty(i) ==
  LET end[j \in 1..Nul] ==
        CASE at(j) = "#" -> end[parse_line_comment(j)]
          [] at(j) = "(" -> end[parse_comment(j)]
          [] isspace(at(j)) /\ ~is_indent(j) -> end[j + 1]
          [] OTHER -> j
  IN  end[i]

-----------------------------------------------------------------------------
(* Tokens.                                                                 *)

tag_indent(i, end) ==
  [type |-> "indent", src |-> i, end |-> end,
   indent |-> IF at(i) = "\n" THEN end - i - 1 ELSE end - i]

tag_str(i, end, buf) == [type |-> "str", src |-> i, end |-> end, str |-> buf]

(* Where an indentation ends: at none of these, parse_indent runs on       *)
(* behind the NUL.                                                         *)
IndentEnds(i) ==
  {j \in i..Nul : ~isspace(at(j)) /\ at(j) \notin {"(", ")"} /\ depth(i, j) = 0}

get_shuffle_member_len(i) ==
  First(i + 1, LAMBDA j : is_delim(at(j)) \/ is_shuffle_pivot(j)) - i

parse_shuffle_member(i) ==
  IF at(i) \in shuffle_error_list THEN tag_token("error", i, i + 1)
  ELSE tag_token("shuffle", i, i + get_shuffle_member_len(i))

Spelling(token) == SubSeq(text, token.src, token.end - 1)

(* Slip: a member that only starts like the other.                         *)
is_same_member_prefix(in, out) == IsPrefix(Spelling(out), Spelling(in))

is_same_member(in, out) == Spelling(in) = Spelling(out)

(* Slip: indexes from one.                                                 *)
get_shuffle_member_index_one(in, member) ==
  {i \in DOMAIN in : /\ is_same_member(in[i], member)
                     /\ \A j \in 1..i - 1 : ~is_same_member(in[j], member)}

(* The index, from zero, of the first input of the same name, if any.      *)
get_shuffle_member_index(in, member) ==
  {i - 1 : i \in {k \in DOMAIN in :
                    /\ is_same_member(in[k], member)
                    /\ \A j \in 1..k - 1 : ~is_same_member(in[j], member)}}

(* The tests of parse_token, in their order.                               *)
kind(i) ==
  IF isspace(at(i)) THEN "indent"
  ELSE IF at(i) \in op_list THEN "op"
  ELSE IF is_binary(i) THEN "binary"
  ELSE IF is_hex(i) THEN "hex"
  ELSE IF is_decimal(i) THEN "decimal"
  ELSE IF at(i) = "'" THEN "char"
  ELSE IF at(i) = "\"" THEN "str"
  ELSE IF at(i) = "{" THEN "shuffle"
  ELSE "word"

(* What they lead to, for the tokens that are read in one step.            *)
scan(i) ==
  CASE kind(i) = "op"      -> tag_token("op", i, i + 1)
    [] kind(i) = "binary"  -> parse_radix(i, 2)
    [] kind(i) = "hex"     -> parse_radix(i, 16)
    [] kind(i) = "decimal" -> parse_decimal(i)
    [] kind(i) = "char"    -> parse_char(i)
    [] kind(i) = "word"    -> tag_token("word", i, i + get_word_len(i))

-----------------------------------------------------------------------------
(* parse.                                                                  *)

(* The sign of a char matters for the bytes above 127 only.                *)
Init ==
  /\ text \in Texts
  /\ signed \in IF ToSet(text) \intersect DOMAIN High = {} THEN {FALSE} ELSE Signs
  /\ src = 1
  /\ pc = "start"
  /\ tokens = <<>>
  /\ shuffle = [end |-> 0, in |-> <<>>, out |-> <<>>]
  /\ str = [end |-> 0, buf |-> <<>>, kept |-> <<>>]

(* handle_token and skip_token: the token is taken, and what is empty      *)
(* behind it is skipped.                                                   *)
Take(token) ==
  /\ tokens' = Append(tokens, token)
  /\ src' = parse_empty(token.end)
  /\ pc' = "token"

Overrun ==
  /\ pc' = "overrun"
  /\ UNCHANGED <<text, signed, src, tokens, shuffle, str>>

(* parse_indent, which stops at the first place it may.                    *)
TakeIndent(i) ==
  \/ /\ IndentEnds(i) # {}
     /\ Take(tag_indent(i, Min(IndentEnds(i))))
     /\ UNCHANGED <<text, signed, shuffle, str>>
  \/ /\ IndentEnds(i) = {}
     /\ Overrun

(* Every text begins with an indentation, if only one of nothing.          *)
Start ==
  /\ pc = "start"
  /\ TakeIndent(IF is_line_empty(1) THEN parse_empty(1) ELSE 1)

Indent ==
  /\ pc = "token"
  /\ kind(src) = "indent"
  /\ TakeIndent(src)

(* Operators, numbers, characters, and words, which all the rest is.       *)
Scan ==
  /\ pc = "token"
  /\ at(src) # NUL
  /\ kind(src) \notin {"indent", "str", "shuffle"}
  /\ \E token \in {scan(src)} :
       \/ /\ token.end <= Nul
          /\ Take(token)
          /\ UNCHANGED <<text, signed, shuffle, str>>
       \/ /\ token.end > Nul
          /\ Overrun

(* Behind a 0 at the end of the text, is_hex looks at what is behind the   *)
(* NUL.  If that happens to be an X, the lexer goes on there.              *)
ReadBehind ==
  /\ pc = "token"
  /\ at(skip(src, "-")) = "0"
  /\ at(skip(src, "-") + 1) = NUL
  /\ Overrun

-----------------------------------------------------------------------------
(* parse_str: one character after the other is pushed on a buffer, encoded *)
(* again.                                                                  *)

OpenStr ==
  /\ pc = "token"
  /\ kind(src) = "str"
  /\ str' = [end |-> src + 1, buf |-> <<>>, kept |-> <<>>]
  /\ pc' = "str"
  /\ UNCHANGED <<text, signed, src, tokens, shuffle>>

(* How many bytes come before the first NUL.                               *)
strlen(bytes) == Min({i \in DOMAIN bytes : bytes[i] = {}} \union {Len(bytes) + 1}) - 1

push_char(buf, cnum) ==
  LET utf8 == char_write(cnum) IN buf \o SubSeq(utf8, 1, strlen(utf8))

(* What is malformed is reported and left out.  An escape may take the NUL *)
(* for its character.                                                      *)
InStr ==
  /\ pc = "str"
  /\ at(str.end) \notin {"\"", NUL}
  /\ \E bare \in {parse_char_bare(str.end)} :
       \/ /\ bare.end <= Nul
          /\ str' = IF bare.type # "char" THEN [str EXCEPT !.end = bare.end]
                    ELSE [end  |-> bare.end,
                          buf  |-> push_char(str.buf, bare.cnum),
                          kept |-> str.kept \o [k \in 1..bare.end - bare.src |-> bare.src + k - 1]]
          /\ UNCHANGED <<text, signed, src, pc, tokens, shuffle>>
       \/ /\ bare.end > Nul
          /\ Overrun

CloseStr ==
  /\ pc = "str"
  /\ at(str.end) = "\""
  /\ Take(tag_str(src, str.end + 1, str.buf))
  /\ UNCHANGED <<text, signed, shuffle, str>>

EofInStr ==
  /\ pc = "str"
  /\ at(str.end) = NUL
  /\ Take(tag_token("error", src, str.end))
  /\ UNCHANGED <<text, signed, shuffle, str>>

-----------------------------------------------------------------------------
(* parse_shuffle.                                                          *)

OpenShuffle ==
  /\ pc = "token"
  /\ kind(src) = "shuffle"
  /\ shuffle' = [end |-> parse_empty(src + 1), in |-> <<>>, out |-> <<>>]
  /\ pc' = "in"
  /\ UNCHANGED <<text, signed, src, tokens, str>>

(* A member before the pivot.  An invalid one is reported and left out.    *)
In ==
  /\ pc = "in"
  /\ ~is_shuffle_pivot(shuffle.end)
  /\ at(shuffle.end) # NUL
  /\ \E member \in {parse_shuffle_member(shuffle.end)} :
       shuffle' = [shuffle EXCEPT
         !.in = IF member.type = "shuffle" THEN Append(@, member) ELSE @,
         !.end = parse_empty(member.end)]
  /\ UNCHANGED <<text, signed, src, pc, tokens, str>>

Pivot ==
  /\ pc = "in"
  /\ is_shuffle_pivot(shuffle.end)
  /\ shuffle' = [shuffle EXCEPT !.end = parse_empty(@ + 2)]
  /\ pc' = "out"
  /\ UNCHANGED <<text, signed, src, tokens, str>>

(* A member after the pivot.  One that is no input is left out silently.   *)
Out ==
  /\ pc = "out"
  /\ at(shuffle.end) \notin {"}", NUL}
  /\ \E member \in {parse_shuffle_member(shuffle.end)} :
       shuffle' = [shuffle EXCEPT
         !.out = IF member.type = "shuffle"
                 THEN @ \o SetToSeq(get_shuffle_member_index(shuffle.in, member))
                 ELSE @,
         !.end = parse_empty(member.end)]
  /\ UNCHANGED <<text, signed, src, pc, tokens, str>>

CloseShuffle ==
  /\ pc = "out"
  /\ at(shuffle.end) = "}"
  /\ Take(tag_token("shuffle", src, shuffle.end + 1))
  /\ UNCHANGED <<text, signed, shuffle, str>>

(* Slip: at the end of the text, the loop looks for another member.        *)
EofInShuffle_again ==
  /\ pc \in {"in", "out"}
  /\ at(shuffle.end) = NUL
  /\ shuffle' = [shuffle EXCEPT !.end = parse_empty(@)]
  /\ UNCHANGED <<text, signed, src, pc, tokens, str>>

EofInShuffle ==
  /\ pc \in {"in", "out"}
  /\ at(shuffle.end) = NUL
  /\ Take(tag_token("error", src, shuffle.end))
  /\ UNCHANGED <<text, signed, shuffle, str>>

Eof ==
  /\ pc = "token"
  /\ at(src) = NUL
  /\ pc' = "done"
  /\ UNCHANGED <<text, signed, src, tokens, shuffle, str>>

Stopped ==
  /\ pc \in {"done", "overrun"}
  /\ UNCHANGED vars

Next ==
  \/ Start \/ Indent \/ Scan \/ ReadBehind \/ Eof \/ Stopped
  \/ OpenStr \/ InStr \/ CloseStr \/ EofInStr
  \/ OpenShuffle \/ In \/ Pivot \/ Out \/ CloseShuffle \/ EofInShuffle

(* One thread, which goes on until the text ends.                          *)
Spec == Init /\ [][Next]_vars /\ WF_vars(Next)

-----------------------------------------------------------------------------
(* What a text means, read from left to right.                             *)

(* After a place: whether it is in a line comment, and how many others are *)
(* open.                                                                   *)
InLine(i) == \E j \in 1..i : at(j) = "#" /\ \A k \in j..i : at(k) # "\n"

Nest(i) ==
  Cardinality({j \in 1..i : at(j) = "(" /\ ~InLine(j)}) -
  Cardinality({j \in 1..i : at(j) = ")" /\ ~InLine(j)})

(* Every ")" has its "(" before it.                                        *)
Balanced == \A i \in DOMAIN text : Nest(i) >= 0

Plain(i) == Nest(i) = 0 /\ ~InLine(i)

(* What is in quotes is not told apart from code, and neither is what      *)
(* stands between a 0 and the X that is_hex looks for one place too far.   *)
Layout ==
  /\ Balanced
  /\ ToSet(text) \intersect {"'", "\""} = {}
  /\ \A i \in DOMAIN text : at(i) = "0" => at(i + 2) # "X"

(* The code: what is in no comment and no blank.                           *)
Code ==
  {i \in DOMAIN text : /\ Plain(i) /\ Plain(i - 1)
                       /\ ~isspace(at(i)) /\ at(i) # ")"}

(* The new lines that no comment has taken.                                *)
NewLines ==
  {i \in DOMAIN text : at(i) = "\n" /\ Plain(i) /\ Plain(i - 1)}

(* Only comments and blanks stand between a new line and what starts its   *)
(* line.                                                                   *)
StartsLine(n, i) ==
  n \in NewLines /\ n < i /\ \A j \in n + 1..i - 1 : at(j) # "\n" /\ j \notin Code

(* The words between two places that are made of letters, in order.        *)
Names(i, j) ==
  LET letters == {k \in Code : i <= k /\ k < j /\ at(k) \in {"x", "y"}}
      starts  == SetToSortSeq({k \in letters : k - 1 \notin letters}, <)
      end(k)  == Min({l \in k..j : l \notin letters})
  IN  [k \in DOMAIN starts |-> SubSeq(text, starts[k], end(starts[k]) - 1)]

(* A diagram of such words only, on a single line.                         *)
Simple(token, pivot) ==
  \A k \in token.src + 1..token.end - 2 :
    /\ k \notin NewLines
    /\ k \in Code /\ k \notin {pivot, pivot + 1} => at(k) \in {"x", "y"}

(* Where the word ends that begins at a place, and its characters without  *)
(* the sign.                                                               *)
WordEnd(i) == First(i, LAMBDA j : is_delim(at(j)))

Unsigned(i) == SubSeq(text, skip(i, "-"), WordEnd(i) - 1)

Base(w) ==
  CASE Len(w) > 1 /\ w[1] = "0" /\ w[2] \in {"b", "B"} -> 2
    [] Len(w) > 1 /\ w[1] = "0" /\ w[2] = "x" -> 16
    [] OTHER -> 10

(* The place of the first dot, or zero.                                    *)
Dot(w) == SelectInSeq(w, LAMBDA c : c = ".")

(* The digits of both parts, if there are two.                             *)
Digits(w) ==
  CASE Base(w) # 10 -> SubSeq(w, 3, Len(w))
    [] Base(w) = 10 /\ Dot(w) = 0 -> w
    [] OTHER -> SubSeq(w, 1, Dot(w) - 1) \o SubSeq(w, Dot(w) + 1, Len(w))

(* A number: digits of its base, with one dot at most if they are decimal. *)
IsNumeral(w) ==
  /\ Digits(w) # <<>>
  /\ \A k \in DOMAIN Digits(w) : is_digit(Digits(w)[k], Base(w))

(* The sum of what each digit is worth.                                    *)
Sum(digits, base) ==
  LET sum[k \in 0..Len(digits)] ==
        IF k = 0 THEN 0
        ELSE sum[k - 1] + Digit[digits[k]] * power(base, Len(digits) - k)
  IN  sum[Len(digits)]

Value(i) ==
  (IF at(i) = "-" THEN -1 ELSE 1) * Sum(Digits(Unsigned(i)), Base(Unsigned(i)))

(* How many digits are behind the dot.                                     *)
Places(w) == Len(w) - Dot(w)

(* Every part of a number, before and behind the dot, fits in a long.      *)
Fits(w) ==
  LET parts == IF Dot(w) = 0 THEN {Digits(w)}
               ELSE {SubSeq(w, 1, Dot(w) - 1), SubSeq(w, Dot(w) + 1, Len(w))}
  IN  \A part \in parts : Sum(part, Base(w)) < Limit

(* The first quote behind a place that no backslash escapes.               *)
Quotes(i, quote) ==
  {j \in i..Len(text) :
     /\ at(j) = quote
     /\ Cardinality({k \in i..j - 1 : \A l \in k..j - 1 : at(l) = "\\"}) % 2 = 0}

(* The forms of a character that are longer than they need to be.          *)
Overlong ==
  \E i \in 1..Len(text) - 1 :
    \/ text[i] \in {"c0", "c1"}
    \/ text[i] = "e0" /\ text[i + 1] \in {"80", "90"}
    \/ text[i] = "f0" /\ text[i + 1] = "80"

-----------------------------------------------------------------------------
(* Properties.                                                             *)

(* The tokens follow one another in the text up to the place where the     *)
(* lexer is, and what it reads of the next one lies behind that place and  *)
(* before the NUL.                                                         *)
TypeOK ==
  /\ text \in Texts
  /\ signed \in BOOLEAN
  /\ pc \in {"start", "token", "str", "in", "out", "done", "overrun"}
  /\ src \in 1..Nul
  /\ tokens \in Seq(ToSet(tokens))
  /\ \A k \in DOMAIN tokens :
       /\ tokens[k].src \in 1..src
       /\ tokens[k].end \in tokens[k].src..src
       /\ \A l \in DOMAIN tokens : k < l => tokens[k].end <= tokens[l].src
  /\ pc = "str" => str.end \in src + 1..Nul
  /\ pc \in {"in", "out"} => shuffle.end \in src + 1..Nul

(* The end of the text is never read over, whatever is cut off there: not  *)
(* by parse_indent, which has no test for the NUL but is called only where *)
(* is_line_empty has counted the same brackets and found code, and not     *)
(* behind half a character.  The exceptions are a text with a ")" too many *)
(* and one that ends in a 0 (is_hex) or a backslash (parse_char_esc).      *)
NeverPastEnd ==
  /\ Balanced
  /\ text # <<>> => Last(text) \notin {"0", "\\"}
  => pc # "overrun"

(* The functions that skip comments (parse_comment, is_line_empty,         *)
(* parse_empty, parse_indent) agree on what is a comment: all the code is  *)
(* in one token each, and words and operators are made of code.            *)
CodeInTokens ==
  Layout =>
    /\ pc = "done" =>
         \A i \in Code : \E k \in DOMAIN tokens :
           /\ tokens[k].src <= i /\ i < tokens[k].end
           /\ \A l \in DOMAIN tokens \ {k} :
                ~(tokens[l].src <= i /\ i < tokens[l].end)
    /\ \A k \in DOMAIN tokens :
         tokens[k].type \in {"word", "op"} =>
           tokens[k].src..tokens[k].end - 1 \subseteq Code

(* Where the first code of a text is: after the last new line before it,   *)
(* or, if the first line has only comments up to there, at no indentation. *)
FirstColumn(i) == IF \E j \in 1..i - 1 : at(j) = "\n" THEN 0 ELSE i - 1

(* A token has an indentation before it exactly when it starts a line, and *)
(* it is the column it is in.  A new line that ends a line comment is part *)
(* of the comment and one in a comment starts none: code after them goes   *)
(* on with the line before.                                                *)
LayoutFollowsLines ==
  Layout =>
    \A k \in 2..Len(tokens) :
      LET token == tokens[k]
          before == tokens[k - 1]
          lines == {n \in 1..token.src : StartsLine(n, token.src)}
      IN  token.type # "indent" =>
            /\ k > 2 => (before.type = "indent" <=> lines # {})
            /\ before.type = "indent" =>
                 IF lines = {} THEN before.indent = FirstColumn(token.src)
                 ELSE \A n \in lines : before.indent = token.src - n - 1

(* An indentation is never followed by another one or by the end, as the   *)
(* parser relies on: a line with nothing on it closes no definition.       *)
IndentBeforeCode ==
  Layout =>
    \A k \in 2..Len(tokens) :
      tokens[k].type = "indent" =>
        /\ tokens[k - 1].type # "indent"
        /\ k = Len(tokens) => pc # "done"

(* No output of a diagram is beyond its inputs, in whatever text.          *)
OutputsAreInputs ==
  \A i \in DOMAIN shuffle.out : shuffle.out[i] < Len(shuffle.in)

(* A diagram has the inputs that are written before its pivot, and for     *)
(* each output the first input of that name; an output of another name is  *)
(* left out.                                                               *)
DiagramAsWritten ==
  \A k \in DOMAIN tokens :
    LET token == tokens[k]
        pivot == First(token.src, is_shuffle_pivot)
        in == Names(token.src, pivot)
        out == SelectSeq(Names(pivot, token.end), LAMBDA name : name \in ToSet(in))
    IN  (k = Len(tokens) /\ pc = "token" /\ token.type = "shuffle" /\ Layout) =>
          (Simple(token, pivot) =>
             /\ [i \in DOMAIN shuffle.in |-> Spelling(shuffle.in[i])] = in
             /\ shuffle.out = [i \in DOMAIN out |-> SelectInSeq(in, LAMBDA name : name = out[i]) - 1])

(* A word that is a number, of whatever base and sign, is one token with   *)
(* its value, as long as that fits in a long, and any other that begins    *)
(* with a digit is one error: nothing of it is taken for a token of its    *)
(* own.  An X two places behind a 0 is the exception (is_hex).             *)
NumberAsWritten(token) ==
  LET w == Unsigned(token.src)
  IN  token.type # "indent" /\ w # <<>> /\ at(skip(token.src, "-") + 2) # "X" =>
        /\ token.type \in {"int", "float"} /\ Digits(w) # <<>> => IsNumeral(w)
        /\ is_digit(w[1], 10) => token.end = WordEnd(token.src)
        /\ IsNumeral(w) /\ "." \notin ToSet(w) =>
             /\ token.type = "int"
             /\ Fits(w) => token.inum = Value(token.src)
        /\ IsNumeral(w) /\ "." \in ToSet(w) =>
             /\ token.type = "float"
             /\ Fits(w) => token.fnum = [num |-> Value(token.src), place |-> Places(w)]

(* All numbers of a text are read as they are written.                     *)
NumbersAsWritten == \A k \in DOMAIN tokens : NumberAsWritten(tokens[k])

(* A string or a character, malformed or not, ends at the first quote of   *)
(* its kind that is not escaped, or else at the end of the text.           *)
QuotesClose ==
  ToSet(text) \intersect DOMAIN High = {} =>
    \A k \in DOMAIN tokens :
      LET token == tokens[k]
          quote == at(token.src)
          from == IF quote = "'" THEN token.src + 2 ELSE token.src + 1
          quotes == Quotes(token.src + 1, quote) \intersect from..Len(text)
      IN  token.type # "indent" /\ quote \in {"'", "\""} =>
            token.end = IF quotes = {} THEN Nul ELSE Min(quotes) + 1

(* A string or character has the bytes of the characters that were read    *)
(* for it: reading and writing are inverse, at all widths and their        *)
(* limits, unless char is signed.  (Escapes are not meant.)                *)
Faithful ==
  ~signed /\ ~Overlong /\ "\\" \notin ToSet(text) =>
    /\ str.buf = [i \in DOMAIN str.kept |-> Bits(Byte[text[str.kept[i]]])]
    /\ \A k \in DOMAIN tokens : tokens[k].type = "char" =>
         char_write(tokens[k].cnum) =
           [i \in 1..tokens[k].end - tokens[k].src - 2 |->
              Bits(Byte[text[tokens[k].src + i]])]

(* Every character is one that the program says there is (char.h).         *)
CharsInRange ==
  \A k \in DOMAIN tokens :
    tokens[k].type = "char" => ~Above(tokens[k].cnum, WEFT_CHAR_MAX)

(* A character that is written as an escape with hexadecimal digits is not *)
(* an error: parse_hex_esc says that it expects them.                      *)
HexEscapes ==
  \A k \in DOMAIN tokens :
    LET spelling == Spelling(tokens[k])
    IN  /\ tokens[k].type = "error"
        /\ Len(spelling) > 4
        /\ IsPrefix(<<"'", "\\", "x">>, spelling)
        => \E i \in 4..Len(spelling) - 1 : ~is_digit(spelling[i], 16)

(* The lexer comes to the end of every text, or runs over it.              *)
Terminates == <>(pc \in {"done", "overrun"})

=============================================================================
