------------------------------ MODULE MCParser ------------------------------
(***************************************************************************)
(* Instances of Parser for TLC: the kinds of token each run lets the text  *)
(* contain.                                                                *)
(***************************************************************************)
EXTENDS Parser

MCLiterals == {"word", "lit"}

=============================================================================
