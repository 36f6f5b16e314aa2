-------------------------------- MODULE Buf ---------------------------------
(***************************************************************************)
(* The growing and shrinking byte buffer of src/src/buf.c, which every     *)
(* stack of the program is made of.                                        *)
(*                                                                         *)
(* buf is the structure Weft_Buf: cap bytes of raw, of which the first at  *)
(* are in use.  malloc and realloc leave new bytes unset: they are Unset,  *)
(* a value no caller pushes.  Callers are modelled by what the three state *)
(* machines do: they take back items in the sizes they put them in (the    *)
(* history variable ends), and only while there is one to take.            *)
(***************************************************************************)
EXTENDS Integers, Sequences, SequencesExt

CONSTANTS
  Bytes,     \* the values of a byte that is pushed
  Sizes,     \* the sizes of the items pushed
  Caps,      \* the capacities new_buf is called with
  MaxChurn   \* bound: how many bytes are pushed and dropped in all

Unset == "unset"

ASSUME BytesAssumption == Unset \notin Bytes
ASSUME SizesAssumption == Sizes \subseteq Nat \ {0}
ASSUME CapsAssumption == Caps \subseteq Nat
ASSUME MaxChurnAssumption == MaxChurn \in Nat

VARIABLES
  buf,      \* the buffer
  ends,     \* history: where the items in the buffer end
  dropped,  \* history: the size just dropped, 0 after anything else
  churn,    \* history: how many bytes were pushed and dropped
  moved,    \* history: how many bytes realloc had to preserve
  cap0      \* history: the capacity the buffer was made with

vars == <<buf, ends, dropped, churn, moved, cap0>>

Items == UNION {[1..size -> Bytes] : size \in Sizes}

Lower(m, n) == IF m <= n THEN m ELSE n

-----------------------------------------------------------------------------
(* The operations of buf.c.                                                *)

new_buf(cap) == [cap |-> cap, at |-> 0, raw |-> [i \in 1..cap |-> Unset]]

(* Slip: the new block is not given the old contents.                      *)
realloc_buf_fresh(b, cap) ==
  [b EXCEPT !.cap = cap, !.raw = [i \in 1..cap |-> Unset]]

realloc_buf(b, cap) ==
  [b EXCEPT !.cap = cap,
            !.raw = [i \in 1..cap |-> IF i <= b.cap THEN b.raw[i] ELSE Unset]]

(* Slip: room for exactly what is asked for.                               *)
expand_cap_exact(b, request) == b.at + request

expand_cap(b, request) == 2 * (b.at + request)

(* Slip: the room there is is compared with what is asked for alone.       *)
Expands_alone(b, size) == size > b.cap

(* Whether a push must move the buffer.                                    *)
Expands(b, size) == b.at + size > b.cap

is_shrinkable(b) == b.at <= b.cap \div 4

(* Slip: down to what is in use.                                           *)
shrink_cap_tight(b) == b.at

shrink_cap(b) == (b.at + b.cap) \div 2

buf_push(b, item) ==
  LET size == Len(item)
      B == IF Expands(b, size) THEN realloc_buf(b, expand_cap(b, size)) ELSE b
  IN  [B EXCEPT !.at = @ + size,
                !.raw = [i \in DOMAIN @ |-> IF i \in B.at + 1 .. B.at + size
                                            THEN item[i - B.at] ELSE @[i]]]

(* The bytes of buf_peek(buf, size).                                       *)
buf_peek(b, size) == [i \in 1..size |-> b.raw[b.at - size + i]]

(* buf_drop; buf_pop also copies out what buf_peek points at.              *)
buf_drop(b, size) ==
  LET B == [b EXCEPT !.at = @ - size]
  IN  IF is_shrinkable(B) THEN realloc_buf(B, shrink_cap(B)) ELSE B

-----------------------------------------------------------------------------

Init ==
  \E cap \in Caps :
    /\ buf = new_buf(cap)
    /\ cap0 = cap
    /\ ends = <<>>
    /\ dropped = 0
    /\ churn = 0
    /\ moved = 0

(* realloc preserves as many bytes as the smaller of the two blocks has.   *)
Account(size, reallocated) ==
  /\ churn' = churn + size
  /\ moved' = moved + IF reallocated THEN Lower(buf.cap, buf'.cap) ELSE 0
  /\ UNCHANGED cap0

Push(item) ==
  /\ churn + Len(item) <= MaxChurn
  /\ buf' = buf_push(buf, item)
  /\ ends' = Append(ends, buf'.at)
  /\ dropped' = 0
  /\ Account(Len(item), Expands(buf, Len(item)))

start(i) == IF i = 1 THEN 0 ELSE ends[i - 1]

Size(i) == ends[i] - start(i)

last == Size(Len(ends))

Drop ==
  /\ ends # <<>>
  /\ churn + last <= MaxChurn
  /\ buf' = buf_drop(buf, last)
  /\ ends' = Front(ends)
  /\ dropped' = last
  /\ Account(last, is_shrinkable([buf EXCEPT !.at = @ - last]))

Next == (\E item \in Items : Push(item)) \/ Drop

Spec == Init /\ [][Next]_vars

-----------------------------------------------------------------------------
(* Properties.                                                             *)

(* The bytes in use fit in the block, and add up to the items in it.       *)
TypeOK ==
  /\ buf \in [cap : Nat, at : Nat, raw : Seq(Bytes \union {Unset})]
  /\ Len(buf.raw) = buf.cap
  /\ buf.at <= buf.cap
  /\ ends \in Seq(Nat)
  /\ \A i \in 1..Len(ends) : Size(i) \in Sizes
  /\ buf.at = IF ends = <<>> THEN 0 ELSE ends[Len(ends)]
  /\ dropped \in Nat
  /\ churn \in Nat
  /\ moved \in Nat
  /\ cap0 \in Nat

(* Hysteresis: a drop leaves room to push the item back without moving the *)
(* buffer again, unless what stays in the buffer is less than the item.    *)
DropLeavesRoom ==
  \A again \in 1..dropped : again <= buf.at => ~Expands(buf, again)

Distance(m, n) == IF m <= n THEN n - m ELSE m - n

(* Amortised cost: whatever the order of pushes and drops, realloc copies  *)
(* at most four bytes for each byte pushed or dropped, and the capacity    *)
(* the buffer was made with twice.  Growing and shrinking towards half     *)
(* full is what pays for it: the distance from there is the credit left.   *)
AmortisedCost ==
  moved + 2 * Distance(2 * buf.at, buf.cap) <= 4 * churn + 2 * cap0

(* The items in the buffer, as buf_peek would find them one by one.        *)
contents ==
  [i \in 1..Len(ends) |-> buf_peek([buf EXCEPT !.at = ends[i]], Size(i))]

(* A buffer is a stack: across every expansion and shrinking the items     *)
(* come back unchanged, the last one first (buf_push, buf_pop).            *)
AsStack == INSTANCE Stack WITH stack <- contents

ImplementsStack == AsStack!Spec

=============================================================================
