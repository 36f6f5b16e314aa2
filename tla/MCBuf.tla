------------------------------- MODULE MCBuf --------------------------------
(***************************************************************************)
(* Instances of Buf for TLC.                                               *)
(***************************************************************************)
EXTENDS Buf

(* Two values tell contents apart.                                         *)
MCBytes == {"x", "y"}

=============================================================================
