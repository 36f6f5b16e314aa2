--------------------------------- MODULE Gc ---------------------------------
(***************************************************************************)
(* The mark and sweep collector of src/src/gc.c.                           *)
(*                                                                         *)
(* Every block has a tag in front of it that points to the block allocated *)
(* before it and, in the lowest bit of that pointer, holds the mark.  The  *)
(* heap is the function tags from the blocks that are allocated to their   *)
(* tags; malloc answers any address that is not in use, so an address that *)
(* was freed may come back.  An action is one iteration of a loop.         *)
(***************************************************************************)
EXTENDS Integers, Sequences, SequencesExt, FiniteSets

CONSTANT Addrs   \* the addresses malloc answers

NULL == 0

ASSUME AddrsAssumption == Addrs \subseteq Nat \ {NULL}

VARIABLES
  tags,     \* the heap: the tag of each block
  gc_head,  \* the newest block
  tag,      \* the cursor of the second loop of gc_collect
  pc,       \* "run" outside gc_collect, "head" and "sweep" in its loops
  chain,    \* history: the blocks in the heap, the newest first
  chain0,   \* history: chain when the collection began
  marked0   \* history: the blocks marked when the collection began

vars == <<tags, gc_head, tag, pc, chain, chain0, marked0>>

-----------------------------------------------------------------------------
(* Tags.                                                                   *)

Tag == [prev : Addrs \union {NULL}, mark : BOOLEAN]

get_tag_prev(b) == tags[b].prev

is_tag_marked(b) == tags[b].mark

(* The pointer is stored shifted, which clears the mark.                   *)
set_tag_prev(prev) == [prev |-> prev, mark |-> FALSE]

blocks == DOMAIN tags

marked == {b \in blocks : is_tag_marked(b)}

Without(b) == [c \in blocks \ {b} |-> tags[c]]

(* The history of the heap without a block that is freed.                  *)
Forget(b) == RemoveAt(chain, CHOOSE i \in DOMAIN chain : chain[i] = b)

(* The block the sweep frees next: the one allocated before the cursor,    *)
(* if it is not marked.                                                    *)
Doomed(b) == b # NULL /\ ~is_tag_marked(b)

-----------------------------------------------------------------------------

Init ==
  /\ tags = <<>>
  /\ gc_head = NULL
  /\ tag = NULL
  /\ pc = "run"
  /\ chain = <<>>
  /\ chain0 = <<>>
  /\ marked0 = {}

(* Slip: the new block is linked, but does not become the head.            *)
gc_alloc_lost(b) ==
  /\ pc = "run"
  /\ b \notin blocks
  /\ tags' = [c \in blocks \union {b} |->
               IF c = b THEN set_tag_prev(gc_head) ELSE tags[c]]
  /\ chain' = <<b>> \o chain
  /\ UNCHANGED <<gc_head, tag, pc, chain0, marked0>>

gc_alloc(b) ==
  /\ pc = "run"
  /\ b \notin blocks
  /\ tags' = [c \in blocks \union {b} |->
               IF c = b THEN set_tag_prev(gc_head) ELSE tags[c]]
  /\ gc_head' = b
  /\ chain' = <<b>> \o chain
  /\ UNCHANGED <<tag, pc, chain0, marked0>>

(* A block that is marked already, and NULL, are left as they are.         *)
gc_mark(b) ==
  /\ pc = "run"
  /\ b \in blocks
  /\ ~is_tag_marked(b)
  /\ tags' = [tags EXCEPT ![b].mark = TRUE]
  /\ UNCHANGED <<gc_head, tag, pc, chain, chain0, marked0>>

CollectBegin ==
  /\ pc = "run"
  /\ pc' = "head"
  /\ chain0' = chain
  /\ marked0' = marked
  /\ UNCHANGED <<tags, gc_head, tag, chain>>

(* Slip: the head is freed before the pointer to it has moved on.          *)
CollectHead_stale ==
  /\ pc = "head"
  /\ Doomed(gc_head)
  /\ tags' = Without(gc_head)
  /\ chain' = Tail(chain)
  /\ UNCHANGED <<gc_head, tag, pc, chain0, marked0>>

CollectHead ==
  /\ pc = "head"
  /\ Doomed(gc_head)
  /\ gc_head' = get_tag_prev(gc_head)
  /\ tags' = Without(gc_head)
  /\ chain' = Tail(chain)
  /\ UNCHANGED <<tag, pc, chain0, marked0>>

HeadDone ==
  /\ pc = "head"
  /\ ~Doomed(gc_head)
  /\ tag' = gc_head
  /\ pc' = "sweep"
  /\ UNCHANGED <<tags, gc_head, chain, chain0, marked0>>

(* Slip: the freed block is unlinked by copying its tag, mark and all.     *)
SweepPrev_no_clear ==
  /\ pc = "sweep"
  /\ tag # NULL
  /\ Doomed(get_tag_prev(tag))
  /\ tags' = [Without(get_tag_prev(tag)) EXCEPT
               ![tag].prev = get_tag_prev(get_tag_prev(tag))]
  /\ chain' = Forget(get_tag_prev(tag))
  /\ UNCHANGED <<gc_head, tag, pc, chain0, marked0>>

SweepPrev ==
  /\ pc = "sweep"
  /\ tag # NULL
  /\ Doomed(get_tag_prev(tag))
  /\ tags' = [Without(get_tag_prev(tag)) EXCEPT
               ![tag] = set_tag_prev(get_tag_prev(get_tag_prev(tag)))]
  /\ chain' = Forget(get_tag_prev(tag))
  /\ UNCHANGED <<gc_head, tag, pc, chain0, marked0>>

(* Slip: one block is freed between two cursors, not all of them.          *)
SweepNext_once ==
  /\ pc = "sweep"
  /\ tag # NULL
  /\ tag' = get_tag_prev(tag)
  /\ UNCHANGED <<tags, gc_head, pc, chain, chain0, marked0>>

SweepNext ==
  /\ pc = "sweep"
  /\ tag # NULL
  /\ ~Doomed(get_tag_prev(tag))
  /\ tag' = get_tag_prev(tag)
  /\ UNCHANGED <<tags, gc_head, pc, chain, chain0, marked0>>

(* Slip: the sweep starts over at the head instead of ending.              *)
CollectEnd_again ==
  /\ pc = "sweep"
  /\ tag = NULL
  /\ tag' = gc_head
  /\ UNCHANGED <<tags, gc_head, pc, chain, chain0, marked0>>

CollectEnd ==
  /\ pc = "sweep"
  /\ tag = NULL
  /\ pc' = "run"
  /\ UNCHANGED <<tags, gc_head, tag, chain, chain0, marked0>>

CollectStep == CollectHead \/ HeadDone \/ SweepPrev \/ SweepNext \/ CollectEnd

Next ==
  \/ \E b \in Addrs : gc_alloc(b) \/ gc_mark(b)
  \/ CollectBegin
  \/ CollectStep

(* gc_collect is a plain loop: once called it runs until it returns.       *)
Spec == Init /\ [][Next]_vars /\ WF_vars(CollectStep)

-----------------------------------------------------------------------------
(* Properties.                                                             *)

(* The tags hold pointers and marks, the cursors point to blocks that are  *)
(* allocated, and nothing outside gc_collect has a cursor.                 *)
TypeOK ==
  /\ blocks \subseteq Addrs
  /\ tags \in [blocks -> Tag]
  /\ gc_head \in blocks \union {NULL}
  /\ tag \in blocks \union {NULL}
  /\ pc \in {"run", "head", "sweep"}
  /\ pc # "sweep" => tag = NULL
  /\ chain \in Seq(Addrs)
  /\ chain0 \in Seq(Addrs)
  /\ marked0 \subseteq Addrs

(* The pointer to the block after the i-th of the chain.                   *)
Successor(i) == IF i < Len(chain) THEN chain[i + 1] ELSE NULL

(* Between any two steps, also inside gc_collect, the list that starts at  *)
(* gc_head has every allocated block exactly once and ends: no block is    *)
(* lost, none is in the list after it was freed, and there is no cycle.    *)
Linked ==
  /\ ToSet(chain) = blocks
  /\ Len(chain) = Cardinality(blocks)
  /\ gc_head = IF chain = <<>> THEN NULL ELSE chain[1]
  /\ \A i \in 1..Len(chain) : get_tag_prev(chain[i]) = Successor(i)

(* A collection frees exactly the blocks that were not marked when it      *)
(* began, whatever the order in which they were allocated and marked.      *)
AsCollector ==
  INSTANCE Collector WITH
    blocks <- IF pc = "run" THEN blocks ELSE ToSet(chain0),
    marked <- IF pc = "run" THEN marked ELSE marked0

ImplementsCollector == AsCollector!Spec

(* Marks are cleared by unlinking alone: the blocks that come out of a     *)
(* collection unmarked are those whose older neighbour was freed.  All the *)
(* others are still marked when the next collection's marking begins.      *)
MarksLeft ==
  [][CollectEnd =>
       marked' = {b \in marked0 :
         ~\E i \in 1..Len(chain0) - 1 :
            chain0[i] = b /\ chain0[i + 1] \notin marked0}]_vars

(* gc_collect returns.                                                     *)
CollectReturns == (pc = "head") ~> (pc = "run")

=============================================================================
