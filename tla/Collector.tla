----------------------------- MODULE Collector ------------------------------
(***************************************************************************)
(* What gc.c promises: a block stays where it is until a collection finds  *)
(* it unmarked, and a collection frees all of those and no other.  Which   *)
(* of the remaining blocks are still marked afterwards is not promised.    *)
(***************************************************************************)
CONSTANT Addrs

VARIABLES blocks, marked

Init ==
  /\ blocks = {}
  /\ marked = {}

Alloc(b) ==
  /\ b \notin blocks
  /\ blocks' = blocks \union {b}
  /\ UNCHANGED marked

Mark(b) ==
  /\ b \in blocks
  /\ marked' = marked \union {b}
  /\ UNCHANGED blocks

Collect ==
  /\ blocks' = blocks \intersect marked
  /\ marked' \in SUBSET blocks'

Next ==
  \/ \E b \in Addrs : Alloc(b) \/ Mark(b)
  \/ Collect

Spec == Init /\ [][Next]_<<blocks, marked>>

=============================================================================
