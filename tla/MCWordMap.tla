----------------------------- MODULE MCWordMap ------------------------------
(***************************************************************************)
(* Instances of WordMap for TLC.                                           *)
(***************************************************************************)
EXTENDS WordMap

(* "b", "a" and "ab", one of them the beginning of another, and an e acute *)
(* in UTF-8, which no name here is the beginning of.                       *)
MCNames == {<<98>>, <<97>>, <<97, 98>>, <<195, 169>>}

(* "a" and "a" with an e acute after it.                                   *)
MCPrefixNames == {<<97>>, <<97, 195, 169>>}

=============================================================================
