------------------------------- MODULE Stack --------------------------------
(***************************************************************************)
(* What a Weft_Buf promises its users in parse.c, compile.c and eval.c:    *)
(* the item taken back is the one put in last that is still there.         *)
(***************************************************************************)
EXTENDS Sequences, SequencesExt

CONSTANT Items

VARIABLE stack

Init == stack = <<>>

Push(item) == stack' = Append(stack, item)

Pop ==
  /\ stack # <<>>
  /\ stack' = Front(stack)

Next == (\E item \in Items : Push(item)) \/ Pop

Spec == Init /\ [][Next]_stack

=============================================================================
