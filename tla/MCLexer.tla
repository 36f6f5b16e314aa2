------------------------------- MODULE MCLexer ------------------------------
(***************************************************************************)
(* Instances of Lexer for TLC.                                             *)
(***************************************************************************)
EXTENDS Lexer

(* Lines, comments of both kinds, and words next to them, with one operator*)
(* at most: enough for a comment over two lines with code on either side.  *)
(* The longest all have two lines.                                         *)
MCLayout ==
  {s \in BoundedSeq({"x", " ", "\n", "#", "(", ")"}, 6) :
     Len(s) = 6 => "\n" \in ToSet(s)}

MCOps == {<<"x", ":">> \o s : s \in BoundedSeq({"x", "\n", "#", ":"}, 3)}

(* Diagrams, whole and broken: two names, of up to two letters, before and *)
(* after a pivot.                                                          *)
MCDiagrams ==
  {<<"{">> \o s : s \in BoundedSeq({"x", "y", " ", "-", "}", "\n"}, 4)} \union
  {<<"{">> \o in \o <<"-", "-">> \o out \o <<"}">> :
     in \in BoundedSeq({"x", "y", " ", ":"}, 3),
     out \in BoundedSeq({"x", "y", " ", "("}, 3)}

(* Numbers and what is nearly one: signs, dots, digits of one base in      *)
(* another, prefixes without digits, and values at the limit of a long.    *)
MCNumbers ==
  BoundedSeq({"-", "0", "1", "9", ".", "x", "X", "b", " "}, 4) \union
  {sign \o prefix \o digits \o end :
     sign \in {<<>>, <<"-">>}, prefix \in {<<"0", "x">>, <<"0", "b">>, <<"1">>},
     digits \in BoundedSeq({"0", "7", "F", "."}, 3), end \in {<<>>, <<"]">>}}

(* Characters and strings with quotes and escapes, cut off at every place. *)
MCEscapes ==
  {<<quote>> \o s :
     quote \in {"'", "\""}, s \in BoundedSeq({"'", "\"", "\\", "x", "1", "n"}, 4)}

(* The first and the last character of each width, a letter, and a NUL     *)
(* that is written with two bytes; beginnings of characters, a             *)
(* continuation of none, and no byte of UTF-8.                             *)
MCWhole ==
  { <<"a">>, <<"\"">>, <<"c0", "80">>, <<"c2", "80">>, <<"df", "bf">>,
    <<"e0", "a0", "80">>, <<"ef", "bf", "bf">>, <<"f0", "90", "80", "80">>,
    <<"f7", "bf", "bf", "bf">> }

MCBroken ==
  { <<"c2">>, <<"e0">>, <<"e0", "a0">>, <<"f0", "90">>, <<"f0", "90", "80">>,
    <<"80">>, <<"ff">> }

(* Each is followed by each other, by the quote and by the end.            *)
MCUtf8 ==
  {<<"\"">> \o FlattenSeq(s) \o end :
     s \in BoundedSeq(MCWhole \union MCBroken, 2), end \in {<<>>, <<"\"">>}}

MCChars ==
  {<<"'">> \o c \o end : c \in MCWhole \union MCBroken, end \in {<<>>, <<"'">>}}

MCTexts ==
  MCLayout \union MCOps \union MCDiagrams \union MCNumbers \union MCEscapes \union
  MCUtf8 \union MCChars

MCHexEscapes ==
  {<<"'", "\\">> \o s \o <<"'">> : s \in BoundedSeq({"x", "4", "n"}, 3)}

=============================================================================
