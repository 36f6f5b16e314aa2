------------------------------- MODULE Reduce -------------------------------
(***************************************************************************)
(* What evaluating a program means: its data and builtin calls, with every *)
(* function replaced by its body all the way down, are dealt with one      *)
(* after the other, from left to right, until a builtin fails.             *)
(***************************************************************************)
EXTENDS Sequences

CONSTANTS
  Atoms,     \* the data and builtins that are not functions
  Builtins   \* those that may fail

VARIABLES
  todo,    \* what is left of the program
  effect,  \* what has been dealt with, in order
  status   \* "run", "true" or "false"

Do ==
  /\ status = "run"
  /\ todo # <<>>
  /\ todo' = Tail(todo)
  /\ effect' = Append(effect, Head(todo))
  /\ UNCHANGED status

Fail ==
  /\ status = "run"
  /\ todo # <<>>
  /\ Head(todo) \in Builtins
  /\ todo' = Tail(todo)
  /\ status' = "false"
  /\ UNCHANGED effect

Succeed ==
  /\ status = "run"
  /\ todo = <<>>
  /\ status' = "true"
  /\ UNCHANGED <<todo, effect>>

Init ==
  /\ todo \in Seq(Atoms)
  /\ effect = <<>>
  /\ status = "run"

Next == Do \/ Fail \/ Succeed

Spec == Init /\ [][Next]_<<todo, effect, status>>

=============================================================================
