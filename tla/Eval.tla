-------------------------------- MODULE Eval --------------------------------
(***************************************************************************)
(* The evaluator of src/src/eval.c.  W->ctrl is what is left of the list   *)
(* being evaluated and W->nest the lists to go on with when it ends, one   *)
(* for each function that has been called and has not run out.             *)
(*                                                                         *)
(* A program is the last of the functions in fns: each may call those      *)
(* before it and no other, which is what the compiler makes (NoRecursion   *)
(* in Compile).  Builtins are not in the source: a call of one returns     *)
(* true and leaves one datum on the stack, or returns false.  A loop of    *)
(* eval() tests ctrl or nest, and takes one item, in each action.          *)
(***************************************************************************)
EXTENDS Naturals, Sequences, SequencesExt, FiniteSets

CONSTANTS
  MaxFns,   \* bound: how many functions there are, the program included
  MaxBody   \* bound: how long their bodies are

ASSUME BoundsAssumption == MaxFns \in Nat \ {0} /\ MaxBody \in Nat

VARIABLES
  fns,    \* the bodies of the functions
  ctrl,   \* W->ctrl
  nest,   \* W->nest
  stack,  \* W->stack
  pc      \* "run", or what eval() returned

vars == <<fns, ctrl, nest, stack, pc>>

-----------------------------------------------------------------------------
(* Programs.                                                               *)

lit == [type |-> "lit", ptr |-> 0]

builtin == [type |-> "builtin", ptr |-> 0]

fn(f) == [type |-> "fn", ptr |-> f]

Data(f) == {lit, builtin} \union {fn(g) : g \in 1..f - 1}

Bodies(f) == UNION {[1..length -> Data(f)] : length \in 0..MaxBody}

Programs ==
  {p \in [1..MaxFns -> Bodies(MaxFns)] : \A f \in 1..MaxFns : p[f] \in Bodies(f)}

-----------------------------------------------------------------------------

(* eval_init, and the first line of eval().                                *)
Init ==
  /\ fns \in Programs
  /\ ctrl = fns[MaxFns]
  /\ nest = <<>>
  /\ stack = <<>>
  /\ pc = "run"

(* list_pop: the first loop takes the next item off the list.              *)
Take(type) ==
  /\ pc = "run"
  /\ ctrl # <<>>
  /\ Head(ctrl).type = type

(* All data but functions and builtins stands for itself.                  *)
PushData ==
  /\ pc = "run"
  /\ ctrl # <<>>
  /\ Head(ctrl).type \notin {"fn", "builtin"}
  /\ ctrl' = Tail(ctrl)
  /\ stack' = Append(stack, Head(ctrl))
  /\ UNCHANGED <<fns, nest, pc>>

(* eval_builtin.                                                           *)
CallBuiltin(ok) ==
  /\ Take("builtin")
  /\ ctrl' = Tail(ctrl)
  /\ IF ok THEN stack' = Append(stack, Head(ctrl)) /\ UNCHANGED pc
           ELSE pc' = "false" /\ UNCHANGED stack
  /\ UNCHANGED <<fns, nest>>

(* eval_fn.                                                                *)
CallFn ==
  /\ Take("fn")
  /\ nest' = Append(nest, Tail(ctrl))
  /\ ctrl' = fns[Head(ctrl).ptr]
  /\ UNCHANGED <<fns, stack, pc>>

(* Slip: the list that is gone back to stays in the nest.                  *)
PopNest_peek ==
  /\ pc = "run"
  /\ ctrl = <<>>
  /\ nest # <<>>
  /\ ctrl' = Last(nest)
  /\ UNCHANGED <<fns, nest, stack, pc>>

(* The second loop: back to the caller, past all that have ended.          *)
PopNest ==
  /\ pc = "run"
  /\ ctrl = <<>>
  /\ nest # <<>>
  /\ ctrl' = Last(nest)
  /\ nest' = Front(nest)
  /\ UNCHANGED <<fns, stack, pc>>

(* Slip: the end of the list is taken for the end of the program.          *)
Return_early ==
  /\ pc = "run"
  /\ ctrl = <<>>
  /\ pc' = "true"
  /\ UNCHANGED <<fns, ctrl, nest, stack>>

Return ==
  /\ pc = "run"
  /\ ctrl = <<>>
  /\ nest = <<>>
  /\ pc' = "true"
  /\ UNCHANGED <<fns, ctrl, nest, stack>>

Stopped ==
  /\ pc # "run"
  /\ UNCHANGED vars

Next ==
  \/ PushData
  \/ \E ok \in BOOLEAN : CallBuiltin(ok)
  \/ CallFn
  \/ PopNest
  \/ Return
  \/ Stopped

(* One thread, which goes on until eval() returns.                         *)
Spec == Init /\ [][Next]_vars /\ WF_vars(Next)

-----------------------------------------------------------------------------
(* Properties.                                                             *)

(* A list with every function replaced by its body, all the way down.      *)
Expand(list) ==
  LET expand(l, body) ==
        FlattenSeq([i \in DOMAIN l |-> IF l[i].type = "fn" THEN body[l[i].ptr]
                                       ELSE <<l[i]>>])
      body[f \in 1..MaxFns] == expand(fns[f], body)
  IN  expand(list, body)

(* Evaluation is left to right and all the way down: what is on the stack, *)
(* in the list and in the nest is at every moment the program expanded, so *)
(* no item is skipped, repeated or taken out of turn by a call or return.  *)
AsReduce ==
  INSTANCE Reduce WITH
    Atoms <- {lit, builtin},
    Builtins <- {builtin},
    todo <- Expand(ctrl \o FlattenSeq(Reverse(nest))),
    effect <- stack,
    status <- pc

ImplementsReduce == AsReduce!Spec

(* The functions that a list calls.                                        *)
Callees(list) == {list[i].ptr : i \in {i \in DOMAIN list : list[i].type = "fn"}}

(* The nest never gets deeper than there are functions: list i of it was   *)
(* left for a function made before the one it belongs to.                  *)
NestBounded ==
  /\ Len(nest) < MaxFns
  /\ \A i \in DOMAIN nest :
       \A f \in Callees(nest[i]) : f <= MaxFns - i
  /\ \A f \in Callees(ctrl) : f < MaxFns - Len(nest)

(* eval() returns, for every program that the compiler can make.           *)
Returns == <>(pc # "run")

=============================================================================
