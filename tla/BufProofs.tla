------------------------------ MODULE BufProofs ------------------------------
(***************************************************************************)
(* Theorems about Buf, for buffers of any capacity and items of any size,  *)
(* and without a bound on how long the buffer is used.                     *)
(***************************************************************************)
EXTENDS Buf, SequenceTheorems, TLAPS

Buffers == [cap : Nat, at : Nat, raw : Seq(Bytes \union {Unset})]

(* What holds of a Weft_Buf between two calls.                             *)
IsBuf(b) ==
  /\ b \in Buffers
  /\ Len(b.raw) = b.cap
  /\ b.at <= b.cap

(* The credit left: what a buffer away from half full may still be charged *)
(* for the next time it moves.                                             *)
IInv == TypeOK /\ AmortisedCost

-----------------------------------------------------------------------------
(* What the operations of buf.c return.                                    *)

(* An item is a non-empty sequence of bytes.                               *)
LEMMA ItemType ==
  ASSUME NEW item \in Items
  PROVE  /\ item \in Seq(Bytes)
         /\ Len(item) \in Sizes
         /\ Len(item) \in Nat \ {0}
<1>1. PICK size \in Sizes : item \in [1..size -> Bytes]
  BY DEF Items
<1>2. size \in Nat \ {0}
  BY SizesAssumption
<1> QED
  BY <1>1, <1>2

(* realloc_buf changes the capacity and keeps the fill.                    *)
LEMMA ReallocBuf ==
  ASSUME NEW b, IsBuf(b), NEW cap \in Nat, b.at <= cap
  PROVE  LET B == realloc_buf(b, cap)
         IN  IsBuf(B) /\ B.cap = cap /\ B.at = b.at
<1> DEFINE raw == [i \in 1..cap |-> IF i <= b.cap THEN b.raw[i] ELSE Unset]
<1>1. b \in Buffers /\ Len(b.raw) = b.cap
  BY DEF IsBuf
<1>2. ASSUME NEW i \in 1..cap
      PROVE  (IF i <= b.cap THEN b.raw[i] ELSE Unset) \in Bytes \union {Unset}
  <2>1. CASE i <= b.cap
    <3>1. i \in 1..Len(b.raw)
      BY <1>1, <2>1 DEF Buffers
    <3>2. b.raw[i] \in Bytes \union {Unset}
      BY <1>1, <3>1 DEF Buffers
    <3> QED
      BY <2>1, <3>2
  <2>2. CASE ~(i <= b.cap)
    BY <2>2
  <2> QED
    BY <2>1, <2>2
<1>3. raw \in [1..cap -> Bytes \union {Unset}]
  BY <1>2, Zenon
<1>4. raw \in Seq(Bytes \union {Unset}) /\ Len(raw) = cap
  <2> HIDE DEF raw
  <2> QED
    BY <1>3
<1>5. realloc_buf(b, cap) = [b EXCEPT !.cap = cap, !.raw = raw]
  BY DEF realloc_buf
<1> HIDE DEF raw
<1> QED
  BY <1>1, <1>4, <1>5 DEF IsBuf, Buffers

(* buf_push makes room, adds the item's length to the fill and otherwise   *)
(* keeps the capacity.                                                     *)
LEMMA BufPush ==
  ASSUME NEW b, IsBuf(b), NEW item \in Items
  PROVE  LET P == buf_push(b, item)
             size == Len(item)
         IN  /\ IsBuf(P)
             /\ P.at = b.at + size
             /\ P.cap = IF Expands(b, size) THEN 2 * (b.at + size) ELSE b.cap
<1> DEFINE size == Len(item)
           B == IF Expands(b, size) THEN realloc_buf(b, expand_cap(b, size)) ELSE b
           raw == [i \in DOMAIN B.raw |-> IF i \in B.at + 1 .. B.at + size
                                          THEN item[i - B.at] ELSE B.raw[i]]
<1>1. size \in Nat \ {0} /\ item \in Seq(Bytes)
  BY ItemType
<1>2. b.at \in Nat /\ b.cap \in Nat /\ b.at <= b.cap
  BY DEF IsBuf, Buffers
<1>3. /\ IsBuf(B)
      /\ B.at = b.at
      /\ B.cap = IF Expands(b, size) THEN 2 * (b.at + size) ELSE b.cap
      /\ b.at + size <= B.cap
  <2> HIDE DEF size
  <2>1. CASE Expands(b, size)
    <3>1. expand_cap(b, size) \in Nat /\ b.at <= expand_cap(b, size)
          /\ b.at + size <= expand_cap(b, size)
      BY <1>1, <1>2 DEF expand_cap
    <3>2. IsBuf(B) /\ B.cap = expand_cap(b, size) /\ B.at = b.at
      BY <2>1, <3>1, ReallocBuf
    <3> QED
      BY <2>1, <3>1, <3>2 DEF expand_cap
  <2>2. CASE ~Expands(b, size)
    BY <2>2, <1>1, <1>2 DEF Expands
  <2> QED
    BY <2>1, <2>2
<1>4. buf_push(b, item) = [B EXCEPT !.at = B.at + size, !.raw = raw]
  BY DEF buf_push
<1> HIDE DEF B, size
<1>5. B \in Buffers /\ Len(B.raw) = B.cap /\ B.at \in Nat /\ B.cap \in Nat
  BY <1>3 DEF IsBuf, Buffers
<1>6. DOMAIN B.raw = 1..B.cap
  BY <1>5 DEF Buffers
<1>7. ASSUME NEW i \in 1..B.cap
      PROVE  (IF i \in B.at + 1 .. B.at + size THEN item[i - B.at] ELSE B.raw[i])
               \in Bytes \union {Unset}
  <2>1. CASE i \in B.at + 1 .. B.at + size
    <3>1. i - B.at \in 1..size
      BY <1>1, <1>5, <2>1
    <3>2. item[i - B.at] \in Bytes
      BY <1>1, <3>1 DEF size
    <3> QED
      BY <2>1, <3>2
  <2>2. CASE ~(i \in B.at + 1 .. B.at + size)
    <3>1. B.raw[i] \in Bytes \union {Unset}
      BY <1>5 DEF Buffers
    <3> QED
      BY <2>2, <3>1
  <2> QED
    BY <2>1, <2>2
<1>8. raw \in [1..B.cap -> Bytes \union {Unset}]
  BY <1>6, <1>7, Zenon
<1> HIDE DEF raw
<1>9. raw \in Seq(Bytes \union {Unset}) /\ Len(raw) = B.cap
  BY <1>5, <1>8
<1>10. buf_push(b, item) = [cap |-> B.cap, at |-> B.at + size, raw |-> raw]
  BY <1>4, <1>5 DEF Buffers
<1>11. B.at + size \in Nat /\ B.at + size <= B.cap
  BY <1>1, <1>3, <1>5
<1>12. /\ IsBuf(buf_push(b, item))
       /\ buf_push(b, item).at = b.at + size
       /\ buf_push(b, item).cap = B.cap
  <2>1. [cap |-> B.cap, at |-> B.at + size, raw |-> raw] \in Buffers
    BY <1>5, <1>9, <1>11 DEF Buffers
  <2> QED
    BY <1>3, <1>9, <1>10, <1>11, <2>1 DEF IsBuf
<1> QED
  BY <1>3, <1>12 DEF size

(* buf_drop takes the size off the fill and, if a quarter or less is in    *)
(* use then, brings the capacity half way down to it.                      *)
LEMMA BufDrop ==
  ASSUME NEW b, IsBuf(b), NEW size \in Nat, size <= b.at
  PROVE  LET D == buf_drop(b, size)
             B == [b EXCEPT !.at = @ - size]
         IN  /\ IsBuf(D)
             /\ B.at = b.at - size /\ B.cap = b.cap
             /\ D.at = b.at - size
             /\ D.cap = IF is_shrinkable(B)
                        THEN (b.at - size + b.cap) \div 2 ELSE b.cap
<1> DEFINE B == [b EXCEPT !.at = b.at - size]
<1>1. /\ b \in Buffers /\ b.at \in Nat /\ b.cap \in Nat /\ b.at <= b.cap
      /\ Len(b.raw) = b.cap
  BY DEF IsBuf, Buffers
<1>2. b.at - size \in Nat /\ b.at - size <= b.cap
  BY <1>1
<1>3. IsBuf(B) /\ B.at = b.at - size /\ B.cap = b.cap
  BY <1>1, <1>2 DEF IsBuf, Buffers
<1>4. buf_drop(b, size) =
        IF is_shrinkable(B) THEN realloc_buf(B, shrink_cap(B)) ELSE B
  BY DEF buf_drop
<1> HIDE DEF B
<1>5. CASE is_shrinkable(B)
  <2>1. \A m, n \in Nat : m <= n => (m + n) \div 2 \in Nat /\ m <= (m + n) \div 2
    OBVIOUS
  <2>2. shrink_cap(B) \in Nat /\ B.at <= shrink_cap(B)
    BY <1>1, <1>2, <1>3, <2>1 DEF shrink_cap
  <2>3. LET D == realloc_buf(B, shrink_cap(B))
        IN  IsBuf(D) /\ D.cap = shrink_cap(B) /\ D.at = B.at
    BY <1>3, <2>2, ReallocBuf
  <2> QED
    BY <1>3, <1>4, <1>5, <2>3 DEF shrink_cap, B
<1>6. CASE ~is_shrinkable(B)
  BY <1>3, <1>4, <1>6 DEF B
<1> QED
  BY <1>5, <1>6

-----------------------------------------------------------------------------
(* The steps of the buffer's users.                                        *)

LEMMA TypeFacts ==
  ASSUME TypeOK
  PROVE  /\ IsBuf(buf) /\ buf.at \in Nat /\ buf.cap \in Nat
         /\ ends \in Seq(Nat) /\ Len(ends) \in Nat
         /\ \A i \in 1..Len(ends) : ends[i] \in Nat /\ start(i) \in Nat
<1>1. /\ IsBuf(buf) /\ buf.at \in Nat /\ buf.cap \in Nat
      /\ ends \in Seq(Nat) /\ Len(ends) \in Nat
  BY DEF TypeOK, IsBuf, Buffers
<1>2. ASSUME NEW i \in 1..Len(ends)
      PROVE  ends[i] \in Nat /\ start(i) \in Nat
  <2>1. ends[i] \in Nat
    BY <1>1
  <2>2. CASE i = 1
    BY <2>1, <2>2 DEF start
  <2>3. CASE i # 1
    <3>1. i - 1 \in 1..Len(ends)
      BY <1>1, <2>3
    <3>2. ends[i - 1] \in Nat
      BY <1>1, <3>1
    <3> QED
      BY <2>1, <2>3, <3>2 DEF start
  <2> QED
    BY <2>2, <2>3
<1> QED
  BY <1>1, <1>2

(* The item to be dropped is one that was pushed, and all of it is there.  *)
LEMMA LastFacts ==
  ASSUME TypeOK, ends # <<>>
  PROVE  /\ Len(ends) \in 1..Len(ends)
         /\ last \in Nat \ {0}
         /\ last <= buf.at
         /\ buf.at - last = start(Len(ends))
<1>1. ends \in Seq(Nat) /\ Len(ends) \in Nat
  BY TypeFacts
<1>2. Len(ends) \in 1..Len(ends)
  BY <1>1
<1>3. ends[Len(ends)] \in Nat /\ start(Len(ends)) \in Nat
  BY <1>2, TypeFacts
<1>4. buf.at = ends[Len(ends)]
  BY DEF TypeOK
<1>5. Size(Len(ends)) \in Sizes
  BY <1>2 DEF TypeOK
<1>6. last \in Nat \ {0} /\ last = ends[Len(ends)] - start(Len(ends))
  BY <1>5, SizesAssumption DEF last, Size
<1> QED
  BY <1>2, <1>3, <1>4, <1>6

(* What a push does to the buffer and to the accounts.                     *)
LEMMA PushEffect ==
  ASSUME TypeOK, NEW item \in Items, Push(item)
  PROVE  LET size == Len(item)
         IN  /\ size \in Sizes /\ size \in Nat \ {0}
             /\ IsBuf(buf')
             /\ buf'.at = buf.at + size
             /\ buf'.cap = IF buf.at + size > buf.cap
                           THEN 2 * (buf.at + size) ELSE buf.cap
             /\ churn' = churn + size
             /\ moved' = moved + IF buf.at + size > buf.cap THEN buf.cap ELSE 0
<1>1. Len(item) \in Sizes /\ Len(item) \in Nat \ {0}
  BY ItemType
<1>2. IsBuf(buf) /\ buf.at \in Nat /\ buf.cap \in Nat
  BY TypeFacts
<1>3. /\ IsBuf(buf')
      /\ buf'.at = buf.at + Len(item)
      /\ buf'.cap = IF Expands(buf, Len(item))
                    THEN 2 * (buf.at + Len(item)) ELSE buf.cap
  BY <1>2, BufPush DEF Push
<1>4. /\ churn' = churn + Len(item)
      /\ moved' = moved + IF Expands(buf, Len(item))
                          THEN Lower(buf.cap, buf'.cap) ELSE 0
  BY DEF Push, Account
<1> DEFINE size == Len(item)
<1> HIDE DEF size
<1>5. buf.at + size > buf.cap => buf.cap <= 2 * (buf.at + size)
  BY <1>1, <1>2 DEF size
<1>6. buf.at + size > buf.cap => Lower(buf.cap, 2 * (buf.at + size)) = buf.cap
  BY <1>5 DEF Lower
<1> QED
  BY <1>1, <1>3, <1>4, <1>6 DEF size, Expands

(* What a drop does to the buffer and to the accounts.                     *)
LEMMA DropEffect ==
  ASSUME TypeOK, Drop
  PROVE  LET at == buf.at - last
             shrinks == at <= buf.cap \div 4
         IN  /\ at \in Nat
             /\ IsBuf(buf')
             /\ buf'.at = at
             /\ buf'.cap = IF shrinks THEN (at + buf.cap) \div 2 ELSE buf.cap
             /\ churn' = churn + last
             /\ moved' = moved + IF shrinks THEN (at + buf.cap) \div 2 ELSE 0
<1> DEFINE at == buf.at - last
           B == [buf EXCEPT !.at = @ - last]
<1>1. ends # <<>> /\ buf' = buf_drop(buf, last)
  BY DEF Drop
<1>2. last \in Nat /\ last <= buf.at
  BY <1>1, LastFacts
<1>3. IsBuf(buf) /\ buf.at \in Nat /\ buf.cap \in Nat /\ buf.at <= buf.cap
  BY TypeFacts DEF IsBuf
<1>4. /\ IsBuf(buf')
      /\ B.at = at /\ B.cap = buf.cap
      /\ buf'.at = at
      /\ buf'.cap = IF is_shrinkable(B) THEN (at + buf.cap) \div 2 ELSE buf.cap
  BY <1>1, <1>2, <1>3, BufDrop
<1>5. /\ churn' = churn + last
      /\ moved' = moved + IF is_shrinkable(B) THEN Lower(buf.cap, buf'.cap) ELSE 0
  BY DEF Drop, Account
<1>6. at \in Nat /\ at <= buf.cap
  BY <1>2, <1>3
<1> HIDE DEF B, at
<1>7. is_shrinkable(B) <=> at <= buf.cap \div 4
  BY <1>4 DEF is_shrinkable
<1>8. \A m, n \in Nat : m <= n => (m + n) \div 2 <= n /\ (m + n) \div 2 \in Nat
  OBVIOUS
<1>9. (at + buf.cap) \div 2 <= buf.cap /\ (at + buf.cap) \div 2 \in Nat
  BY <1>3, <1>6, <1>8
<1>10. Lower(buf.cap, (at + buf.cap) \div 2) = (at + buf.cap) \div 2
  BY <1>3, <1>9 DEF Lower
<1> QED
  BY <1>4, <1>5, <1>6, <1>7, <1>10 DEF at

-----------------------------------------------------------------------------
(* Type correctness.                                                       *)

LEMMA TypeInit == Init => TypeOK
<1> SUFFICES ASSUME Init
             PROVE  TypeOK
  OBVIOUS
<1>1. PICK cap \in Caps : buf = new_buf(cap) /\ cap0 = cap
  BY DEF Init
<1>2. cap \in Nat
  BY CapsAssumption
<1>3. [i \in 1..cap |-> Unset] \in Seq(Bytes \union {Unset})
      /\ Len([i \in 1..cap |-> Unset]) = cap
  BY <1>2
<1> QED
  BY <1>1, <1>2, <1>3 DEF Init, TypeOK, new_buf, Size, start

LEMMA TypePush ==
  ASSUME TypeOK, NEW item \in Items, Push(item)
  PROVE  TypeOK'
<1> DEFINE size == Len(item)
<1>1. /\ size \in Sizes /\ size \in Nat \ {0}
      /\ IsBuf(buf') /\ buf'.at = buf.at + size
      /\ churn' = churn + size
      /\ moved' = moved + IF buf.at + size > buf.cap THEN buf.cap ELSE 0
  BY PushEffect
<1>2. /\ ends \in Seq(Nat) /\ Len(ends) \in Nat
      /\ buf.at \in Nat /\ buf.cap \in Nat
      /\ \A i \in 1..Len(ends) : ends[i] \in Nat /\ start(i) \in Nat
  BY TypeFacts
<1>3. ends' = Append(ends, buf'.at)
  BY DEF Push
<1>4. buf'.at \in Nat
  BY <1>1, <1>2
<1> DEFINE n == Len(ends)
<1>5. /\ ends' \in Seq(Nat) /\ Len(ends') = n + 1
      /\ ends'[n + 1] = buf'.at
      /\ \A i \in 1..n : ends'[i] = ends[i]
  BY <1>2, <1>3, <1>4
<1>6. ASSUME NEW i \in 1..Len(ends')
      PROVE  Size(i)' \in Sizes
  <2>1. CASE i \in 1..n
    <3>1. i - 1 \in 1..n \/ i = 1
      BY <1>2, <2>1
    <3>2. start(i)' = start(i)
      BY <1>5, <3>1 DEF start
    <3>3. Size(i)' = Size(i)
      BY <1>5, <2>1, <3>2 DEF Size
    <3> QED
      BY <2>1, <3>3 DEF TypeOK
  <2>2. CASE i = n + 1
    <3>1. start(i)' = buf.at
      <4>1. CASE n = 0
        <5>1. ends = <<>>
          BY <1>2, <4>1
        <5> QED
          BY <2>2, <4>1, <5>1 DEF start, TypeOK
      <4>2. CASE n # 0
        <5>1. n \in 1..n /\ n + 1 # 1 /\ n + 1 - 1 = n /\ ends # <<>>
          BY <1>2, <4>2
        <5>2. ends'[n] = ends[n] /\ buf.at = ends[n]
          BY <1>5, <5>1 DEF TypeOK
        <5>3. i # 1 /\ i - 1 = n
          BY <2>2, <5>1
        <5> QED
          BY <5>2, <5>3 DEF start
      <4> QED
        BY <4>1, <4>2
    <3>2. Size(i)' = buf'.at - buf.at
      BY <1>5, <2>2, <3>1 DEF Size
    <3>3. Size(i)' = size
      BY <1>1, <1>2, <3>2
    <3> QED
      BY <1>1, <3>3
  <2> QED
    BY <1>2, <1>5, <2>1, <2>2
<1>7. ends' # <<>> /\ buf'.at = ends'[Len(ends')]
  BY <1>2, <1>5
<1>8. churn' \in Nat /\ moved' \in Nat /\ cap0' \in Nat /\ dropped' \in Nat
  <2>1. churn \in Nat /\ moved \in Nat /\ cap0 \in Nat
        /\ cap0' = cap0 /\ dropped' = 0
    BY DEF TypeOK, Push, Account
  <2> HIDE DEF size
  <2> QED
    BY <1>1, <1>2, <2>1
<1> HIDE DEF size, n
<1> QED
  BY <1>1, <1>5, <1>6, <1>7, <1>8 DEF TypeOK, IsBuf, Buffers

LEMMA TypeDrop ==
  ASSUME TypeOK, Drop
  PROVE  TypeOK'
<1> DEFINE n == Len(ends)
<1>1. IsBuf(buf') /\ buf'.at = buf.at - last
  BY DropEffect
<1>2. /\ ends \in Seq(Nat) /\ n \in Nat
      /\ \A i \in 1..n : ends[i] \in Nat /\ start(i) \in Nat
  BY TypeFacts
<1>3. ends # <<>> /\ ends' = Front(ends)
  BY DEF Drop
<1>4. n \in 1..n /\ buf.at - last = start(n) /\ last \in Nat
  BY <1>3, LastFacts
<1>5. ends' = SubSeq(ends, 1, n - 1)
  BY <1>3 DEF Front
<1>6. /\ ends' \in Seq(Nat) /\ Len(ends') = n - 1
      /\ \A i \in 1..n - 1 : ends'[i] = ends[i]
  <2>1. n - 1 \in Int /\ 1 \in Int /\ \A i \in 1..n - 1 : ends[i] \in Nat
    BY <1>2, <1>4
  <2>2. /\ ends' \in Seq(Nat)
        /\ Len(ends') = IF 1 <= n - 1 THEN n - 1 - 1 + 1 ELSE 0
        /\ \A i \in 1..n - 1 - 1 + 1 : ends'[i] = ends[1 + i - 1]
    <3> HIDE DEF n
    <3> QED
      BY <1>5, <2>1, SubSeqProperties
  <2> HIDE DEF n
  <2> QED
    BY <1>4, <2>1, <2>2
<1>7. ASSUME NEW i \in 1..Len(ends')
      PROVE  Size(i)' \in Sizes
  <2>1. i \in 1..n - 1 /\ i \in 1..n /\ (i = 1 \/ i - 1 \in 1..n - 1)
    BY <1>4, <1>6
  <2>2. start(i)' = start(i)
    BY <1>6, <2>1 DEF start
  <2>3. Size(i)' = Size(i)
    BY <1>6, <2>1, <2>2 DEF Size
  <2> QED
    BY <2>1, <2>3 DEF TypeOK
<1>8. buf'.at = IF ends' = <<>> THEN 0 ELSE ends'[Len(ends')]
  <2>1. CASE n = 1
    BY <1>1, <1>4, <1>6, <2>1 DEF start
  <2>2. CASE n # 1
    <3>1. n - 1 \in 1..n - 1 /\ ends' # <<>>
      BY <1>4, <1>6, <2>2
    <3>2. start(n) = ends[n - 1] /\ ends'[n - 1] = ends[n - 1]
      BY <1>6, <2>2, <3>1 DEF start
    <3> QED
      BY <1>1, <1>4, <1>6, <3>1, <3>2
  <2> QED
    BY <2>1, <2>2
<1>9. churn' \in Nat /\ moved' \in Nat /\ cap0' \in Nat /\ dropped' \in Nat
  <2> DEFINE at == buf.at - last
             kept == (at + buf.cap) \div 2
  <2>1. /\ churn \in Nat /\ moved \in Nat /\ cap0 \in Nat
        /\ cap0' = cap0 /\ dropped' = last
    BY DEF TypeOK, Drop, Account
  <2>2. buf.cap \in Nat
    BY TypeFacts
  <2>3. /\ at \in Nat
        /\ churn' = churn + last
        /\ moved' = moved + IF at <= buf.cap \div 4 THEN kept ELSE 0
    BY DropEffect
  <2> HIDE DEF at
  <2>4. \A k \in Nat : k \div 2 \in Nat
    OBVIOUS
  <2>5. at + buf.cap \in Nat
    BY <2>2, <2>3
  <2>6. kept \in Nat
    BY <2>4, <2>5
  <2> HIDE DEF kept
  <2>7. moved' \in Nat
    BY <2>1, <2>3, <2>6
  <2> QED
    BY <1>4, <2>1, <2>3, <2>7
<1> HIDE DEF n
<1> QED
  BY <1>1, <1>6, <1>7, <1>8, <1>9 DEF TypeOK, IsBuf, Buffers

LEMMA TypeNext == TypeOK /\ [Next]_vars => TypeOK'
<1> SUFFICES ASSUME TypeOK, [Next]_vars
             PROVE  TypeOK'
  OBVIOUS
<1>1. CASE \E item \in Items : Push(item)
  BY <1>1, TypePush
<1>2. CASE Drop
  BY <1>2, TypeDrop
<1>3. CASE UNCHANGED vars
  BY <1>3 DEF TypeOK, vars, Size, start
<1> QED
  BY <1>1, <1>2, <1>3 DEF Next

-----------------------------------------------------------------------------
(* The cost of moving.                                                     *)

(* Growing to twice what is needed spends the credit of a full buffer.     *)
LEMMA GrowCost ==
  \A at, cap, size, paid, used, first \in Nat :
    /\ at <= cap
    /\ paid + 2 * Distance(2 * at, cap) <= 4 * used + 2 * first
    => LET grown == 2 * (at + size)
       IN  /\ at + size > cap =>
                (paid + cap) + 2 * Distance(2 * (at + size), grown)
                  <= 4 * (used + size) + 2 * first
           /\ paid + 2 * Distance(2 * (at + size), cap)
                <= 4 * (used + size) + 2 * first
  BY DEF Distance

(* Shrinking half way spends that of a buffer a quarter full.              *)
LEMMA ShrinkCost ==
  \A at, cap, size, paid, used, first, kept \in Nat :
    /\ at + size <= cap
    /\ paid + 2 * Distance(2 * (at + size), cap) <= 4 * used + 2 * first
    => /\ 4 * at <= cap /\ 2 * kept <= at + cap /\ at + cap <= 2 * kept + 1 =>
            (paid + kept) + 2 * Distance(2 * at, kept)
              <= 4 * (used + size) + 2 * first
       /\ paid + 2 * Distance(2 * at, cap) <= 4 * (used + size) + 2 * first
  BY DEF Distance

LEMMA CostPush ==
  ASSUME IInv, NEW item \in Items, Push(item)
  PROVE  AmortisedCost'
<1> DEFINE size == Len(item)
<1>1. TypeOK /\ AmortisedCost
  BY DEF IInv
<1>2. /\ buf.at \in Nat /\ buf.cap \in Nat /\ buf.at <= buf.cap
      /\ churn \in Nat /\ moved \in Nat /\ cap0 \in Nat
  BY <1>1, TypeFacts DEF TypeOK
<1>3. /\ size \in Nat
      /\ buf'.at = buf.at + size
      /\ buf'.cap = IF buf.at + size > buf.cap
                    THEN 2 * (buf.at + size) ELSE buf.cap
      /\ churn' = churn + size
      /\ moved' = moved + IF buf.at + size > buf.cap THEN buf.cap ELSE 0
  BY <1>1, PushEffect
<1>4. cap0' = cap0
  BY DEF Push, Account
<1> HIDE DEF size
<1>5. moved + 2 * Distance(2 * buf.at, buf.cap) <= 4 * churn + 2 * cap0
  BY <1>1 DEF AmortisedCost
<1>6. CASE buf.at + size > buf.cap
  <2>1. (moved + buf.cap) + 2 * Distance(2 * (buf.at + size), 2 * (buf.at + size))
          <= 4 * (churn + size) + 2 * cap0
    BY <1>2, <1>3, <1>5, <1>6, GrowCost
  <2>2. /\ buf'.cap = 2 * (buf.at + size)
        /\ moved' = moved + buf.cap
    BY <1>3, <1>6
  <2> QED
    BY <1>3, <1>4, <2>1, <2>2, Zenon DEF AmortisedCost
<1>7. CASE ~(buf.at + size > buf.cap)
  <2>1. moved + 2 * Distance(2 * (buf.at + size), buf.cap)
          <= 4 * (churn + size) + 2 * cap0
    BY <1>2, <1>3, <1>5, GrowCost
  <2>2. buf'.cap = buf.cap /\ moved' = moved
    BY <1>2, <1>3, <1>7
  <2> QED
    BY <1>3, <1>4, <2>1, <2>2, Zenon DEF AmortisedCost
<1> QED
  BY <1>6, <1>7

LEMMA CostDrop ==
  ASSUME IInv, Drop
  PROVE  AmortisedCost'
<1> DEFINE at == buf.at - last
           kept == (at + buf.cap) \div 2
<1>1. TypeOK /\ AmortisedCost
  BY DEF IInv
<1>2. /\ buf.at \in Nat /\ buf.cap \in Nat /\ buf.at <= buf.cap
      /\ churn \in Nat /\ moved \in Nat /\ cap0 \in Nat
  BY <1>1, TypeFacts DEF TypeOK
<1>3. last \in Nat
  BY <1>1, LastFacts DEF Drop
<1>4. /\ at \in Nat
      /\ buf'.at = at
      /\ buf'.cap = IF at <= buf.cap \div 4 THEN kept ELSE buf.cap
      /\ churn' = churn + last
      /\ moved' = moved + IF at <= buf.cap \div 4 THEN kept ELSE 0
  BY <1>1, DropEffect
<1>5. cap0' = cap0
  BY DEF Drop, Account
<1>6. buf.at = at + last
  BY <1>2, <1>3
<1> HIDE DEF at
<1>7. /\ at + last <= buf.cap
      /\ moved + 2 * Distance(2 * (at + last), buf.cap) <= 4 * churn + 2 * cap0
  BY <1>1, <1>2, <1>6 DEF AmortisedCost
<1>8. CASE at <= buf.cap \div 4
  <2>1. \A m, n \in Nat : m <= n \div 4 => 4 * m <= n
    OBVIOUS
  <2>2. \A m, n \in Nat : LET k == (m + n) \div 2
                          IN  k \in Nat /\ 2 * k <= m + n /\ m + n <= 2 * k + 1
    OBVIOUS
  <2>3. /\ 4 * at <= buf.cap
        /\ kept \in Nat /\ 2 * kept <= at + buf.cap /\ at + buf.cap <= 2 * kept + 1
    BY <1>2, <1>4, <1>8, <2>1, <2>2
  <2> HIDE DEF kept
  <2>4. (moved + kept) + 2 * Distance(2 * at, kept) <= 4 * (churn + last) + 2 * cap0
    BY <1>2, <1>3, <1>4, <1>7, <2>3, ShrinkCost
  <2>5. buf'.cap = kept /\ moved' = moved + kept
    BY <1>4, <1>8
  <2> QED
    BY <1>4, <1>5, <2>4, <2>5, Zenon DEF AmortisedCost
<1>9. CASE ~(at <= buf.cap \div 4)
  <2>1. moved + 2 * Distance(2 * at, buf.cap) <= 4 * (churn + last) + 2 * cap0
    BY <1>2, <1>3, <1>4, <1>7, ShrinkCost
  <2>2. buf'.cap = buf.cap /\ moved' = moved
    BY <1>2, <1>4, <1>9
  <2> QED
    BY <1>4, <1>5, <2>1, <2>2, Zenon DEF AmortisedCost
<1> QED
  BY <1>8, <1>9

LEMMA CostInit == Init => AmortisedCost
<1> SUFFICES ASSUME Init
             PROVE  AmortisedCost
  OBVIOUS
<1>1. PICK cap \in Caps : buf = new_buf(cap) /\ cap0 = cap
  BY DEF Init
<1>2. cap \in Nat /\ buf.cap = cap /\ buf.at = 0
  BY <1>1, CapsAssumption DEF new_buf
<1>3. Distance(0, cap) = cap
  BY <1>2 DEF Distance
<1>4. churn = 0 /\ moved = 0
  BY DEF Init
<1> QED
  BY <1>1, <1>2, <1>3, <1>4 DEF AmortisedCost

LEMMA Inductive == Spec => []IInv
<1>1. Init => IInv
  BY TypeInit, CostInit DEF IInv
<1>2. IInv /\ [Next]_vars => IInv'
  <2> SUFFICES ASSUME IInv, [Next]_vars
               PROVE  IInv'
    OBVIOUS
  <2>1. TypeOK'
    BY TypeNext DEF IInv
  <2>2. CASE \E item \in Items : Push(item)
    BY <2>1, <2>2, CostPush DEF IInv
  <2>3. CASE Drop
    BY <2>1, <2>3, CostDrop DEF IInv
  <2>4. CASE UNCHANGED vars
    BY <2>1, <2>4 DEF IInv, AmortisedCost, vars
  <2> QED
    BY <2>2, <2>3, <2>4 DEF Next
<1> QED
  BY <1>1, <1>2, PTL DEF Spec

(* The bytes in use always fit in the block (raw is never read or written  *)
(* past cap), and are those of the items not yet taken back.               *)
THEOREM WithinCapacity == Spec => []TypeOK
<1>1. IInv => TypeOK
  BY DEF IInv
<1> QED
  BY <1>1, Inductive, PTL

(* realloc copies at most four bytes for each byte pushed or dropped, and  *)
(* twice the first capacity, in any sequence of pushes and drops.          *)
THEOREM CostIsAmortised == Spec => []AmortisedCost
<1>1. IInv => AmortisedCost
  BY DEF IInv
<1> QED
  BY <1>1, Inductive, PTL

-----------------------------------------------------------------------------
(* Hysteresis.                                                             *)

(* A drop that does not shrink leaves at least its own room; one that does *)
(* leaves as much room as there is in use.                                 *)
LEMMA DropRoom ==
  ASSUME TypeOK, Drop
  PROVE  DropLeavesRoom'
<1> DEFINE at == buf.at - last
           kept == (at + buf.cap) \div 2
<1>1. /\ buf.at \in Nat /\ buf.cap \in Nat /\ buf.at <= buf.cap
  BY TypeFacts DEF TypeOK
<1>2. last \in Nat
  BY LastFacts DEF Drop
<1>3. /\ at \in Nat
      /\ buf'.at = at
      /\ buf'.cap = IF at <= buf.cap \div 4 THEN kept ELSE buf.cap
  BY DropEffect
<1>4. dropped' = last
  BY DEF Drop
<1>5. buf.at = at + last
  BY <1>1, <1>2
<1> HIDE DEF at
<1>6. CASE at <= buf.cap \div 4
  <2>1. \A m, n \in Nat : m <= n \div 4 => 2 * m <= (m + n) \div 2
    OBVIOUS
  <2>2. 2 * at <= kept
    BY <1>1, <1>3, <1>6, <2>1
  <2>3. kept \in Int
    BY <1>1, <1>3
  <2> HIDE DEF kept
  <2>4. \A again \in 1..last : again <= at => ~(at + again > kept)
    BY <1>2, <1>3, <2>2, <2>3
  <2> QED
    BY <1>3, <1>4, <1>6, <2>4 DEF DropLeavesRoom, Expands
<1>7. CASE ~(at <= buf.cap \div 4)
  <2>1. \A again \in 1..last : ~(at + again > buf.cap)
    BY <1>1, <1>2, <1>3, <1>5
  <2> QED
    BY <1>3, <1>4, <1>7, <2>1 DEF DropLeavesRoom, Expands
<1> QED
  BY <1>6, <1>7

(* Dropping and pushing again around a boundary never makes the buffer     *)
(* move back and forth.                                                    *)
THEOREM NoThrashing == Spec => []DropLeavesRoom
<1>1. Init => DropLeavesRoom
  BY DEF Init, DropLeavesRoom
<1>2. TypeOK /\ DropLeavesRoom /\ [Next]_vars => DropLeavesRoom'
  <2> SUFFICES ASSUME TypeOK, DropLeavesRoom, [Next]_vars
               PROVE  DropLeavesRoom'
    OBVIOUS
  <2>1. CASE \E item \in Items : Push(item)
    BY <2>1 DEF Push, DropLeavesRoom
  <2>2. CASE Drop
    BY <2>2, DropRoom
  <2>3. CASE UNCHANGED vars
    BY <2>3 DEF vars, DropLeavesRoom
  <2> QED
    BY <2>1, <2>2, <2>3 DEF Next
<1> QED
  BY <1>1, <1>2, WithinCapacity, PTL DEF Spec

-----------------------------------------------------------------------------
(* A buffer is a stack.                                                    *)

(* The items lie one behind the other.                                     *)
Sorted == \A i, j \in 1..Len(ends) : i <= j => ends[i] <= ends[j]

(* realloc_buf keeps what fits in the new block.                           *)
LEMMA ReallocKeeps ==
  ASSUME NEW b, IsBuf(b), NEW cap \in Nat, NEW k \in 1..b.cap, k <= cap
  PROVE  realloc_buf(b, cap).raw[k] = b.raw[k]
<1> DEFINE raw == [i \in 1..cap |-> IF i <= b.cap THEN b.raw[i] ELSE Unset]
<1>1. b \in Buffers /\ b.cap \in Nat
  BY DEF IsBuf, Buffers
<1>2. k \in 1..cap /\ k <= b.cap
  BY <1>1
<1>3. raw[k] = b.raw[k]
  BY <1>2
<1>4. realloc_buf(b, cap) = [b EXCEPT !.cap = cap, !.raw = raw]
  BY DEF realloc_buf
<1> HIDE DEF raw
<1> QED
  BY <1>1, <1>3, <1>4 DEF Buffers

(* buf_push puts the item behind what is in use and leaves that alone.     *)
LEMMA PushKeeps ==
  ASSUME NEW b, IsBuf(b), NEW item \in Items
  PROVE  LET P == buf_push(b, item)
         IN  /\ \A k \in 1..b.at : P.raw[k] = b.raw[k]
             /\ \A k \in 1..Len(item) : P.raw[b.at + k] = item[k]
<1> DEFINE size == Len(item)
           B == IF Expands(b, size) THEN realloc_buf(b, expand_cap(b, size)) ELSE b
           raw == [i \in DOMAIN B.raw |-> IF i \in B.at + 1 .. B.at + size
                                          THEN item[i - B.at] ELSE B.raw[i]]
<1>1. size \in Nat \ {0}
  BY ItemType
<1>2. b.at \in Nat /\ b.cap \in Nat /\ b.at <= b.cap
  BY DEF IsBuf, Buffers
<1>3. buf_push(b, item) = [B EXCEPT !.at = B.at + size, !.raw = raw]
  BY DEF buf_push
<1>4. /\ IsBuf(B) /\ B.at = b.at
      /\ b.at + size <= B.cap
      /\ \A k \in 1..b.at : B.raw[k] = b.raw[k]
  <2> HIDE DEF size
  <2>1. CASE Expands(b, size)
    <3> DEFINE cap == expand_cap(b, size)
    <3>1. cap \in Nat /\ b.at <= cap /\ b.at + size <= cap
      BY <1>1, <1>2 DEF expand_cap
    <3>2. B = realloc_buf(b, cap)
      BY <2>1
    <3> HIDE DEF cap, B
    <3>3. IsBuf(B) /\ B.cap = cap /\ B.at = b.at
      BY <3>1, <3>2, ReallocBuf
    <3>4. \A k \in 1..b.at : k \in 1..b.cap /\ k <= cap
      BY <1>2, <3>1
    <3>5. \A k \in 1..b.at : B.raw[k] = b.raw[k]
      BY <3>1, <3>2, <3>4, ReallocKeeps
    <3> QED
      BY <3>1, <3>3, <3>5
  <2>2. CASE ~Expands(b, size)
    BY <2>2, <1>1, <1>2 DEF Expands
  <2> QED
    BY <2>1, <2>2
<1> HIDE DEF B, size
<1>5. B \in Buffers /\ Len(B.raw) = B.cap /\ B.cap \in Nat /\ DOMAIN B.raw = 1..B.cap
  BY <1>4 DEF IsBuf, Buffers
<1>6. \A k \in 1..b.at : k \in DOMAIN B.raw /\ k \notin B.at + 1 .. B.at + size
  BY <1>1, <1>2, <1>4, <1>5
<1>7. \A k \in 1..size : /\ b.at + k \in DOMAIN B.raw
                         /\ b.at + k \in B.at + 1 .. B.at + size
                         /\ b.at + k - B.at = k
  BY <1>1, <1>2, <1>4, <1>5
<1>8. /\ \A k \in 1..b.at : raw[k] = b.raw[k]
      /\ \A k \in 1..size : raw[b.at + k] = item[k]
  <2>1. \A k \in DOMAIN B.raw :
          raw[k] = IF k \in B.at + 1 .. B.at + size THEN item[k - B.at] ELSE B.raw[k]
    BY Zenon
  <2> HIDE DEF raw
  <2>2. \A k \in 1..b.at : raw[k] = b.raw[k]
    BY <1>4, <1>6, <2>1
  <2>3. ASSUME NEW k \in 1..size PROVE raw[b.at + k] = item[k]
    <3>1. b.at + k \in DOMAIN B.raw /\ b.at + k \in B.at + 1 .. B.at + size
      BY <1>7
    <3>2. \A j \in DOMAIN B.raw : j \in B.at + 1 .. B.at + size => raw[j] = item[j - B.at]
      BY <2>1
    <3> DEFINE j == b.at + k
    <3>4. j \in DOMAIN B.raw /\ j \in B.at + 1 .. B.at + size
      BY <3>1
    <3> HIDE DEF j
    <3>3. raw[j] = item[j - B.at]
      BY <3>2, <3>4
    <3>5. j - B.at = k /\ b.at + k = j
      BY <1>1, <1>2, <1>4 DEF j
    <3>6. raw[j] = item[k]
      BY <3>3, <3>5
    <3> QED
      BY <3>5, <3>6
  <2> QED
    BY <2>2, <2>3
<1> HIDE DEF raw
<1>9. buf_push(b, item).raw = raw
  BY <1>3, <1>5 DEF Buffers
<1> QED
  BY <1>8, <1>9 DEF size

(* buf_drop leaves what stays in use alone.                                *)
LEMMA DropKeeps ==
  ASSUME NEW b, IsBuf(b), NEW size \in Nat, size <= b.at,
         NEW k \in 1..b.at - size
  PROVE  buf_drop(b, size).raw[k] = b.raw[k]
<1> DEFINE B == [b EXCEPT !.at = b.at - size]
<1>1. /\ b \in Buffers /\ b.at \in Nat /\ b.cap \in Nat /\ b.at <= b.cap
      /\ Len(b.raw) = b.cap
  BY DEF IsBuf, Buffers
<1>2. IsBuf(B) /\ B.at = b.at - size /\ B.cap = b.cap /\ B.raw = b.raw
  BY <1>1 DEF IsBuf, Buffers
<1>3. buf_drop(b, size) =
        IF is_shrinkable(B) THEN realloc_buf(B, shrink_cap(B)) ELSE B
  BY DEF buf_drop
<1> HIDE DEF B
<1>4. k \in 1..B.cap
  BY <1>1, <1>2
<1>5. CASE is_shrinkable(B)
  <2>1. \A m, n \in Nat : m <= n => (m + n) \div 2 \in Nat /\ m <= (m + n) \div 2
    OBVIOUS
  <2>2. b.at - size \in Nat /\ b.at - size <= b.cap
    BY <1>1
  <2>3. shrink_cap(B) \in Nat /\ b.at - size <= shrink_cap(B)
    BY <1>1, <1>2, <2>1, <2>2 DEF shrink_cap
  <2>4. k <= shrink_cap(B)
    BY <2>2, <2>3
  <2>5. realloc_buf(B, shrink_cap(B)).raw[k] = B.raw[k]
    BY <1>2, <1>4, <2>3, <2>4, ReallocKeeps
  <2> QED
    BY <1>2, <1>3, <1>5, <2>5
<1>6. CASE ~is_shrinkable(B)
  BY <1>2, <1>3, <1>6
<1> QED
  BY <1>5, <1>6

(* Item i as it lies in the buffer.                                        *)
Lies(b, i) == [k \in 1..Size(i) |-> b.raw[ends[i] - Size(i) + k]]

Layout == [i \in 1..Len(ends) |-> Lies(buf, i)]

LEMMA ContentsAre == TypeOK => contents = Layout
<1> SUFFICES ASSUME TypeOK
             PROVE  contents = Layout
  OBVIOUS
<1>1. ASSUME NEW b \in Buffers, NEW e, NEW size
      PROVE  buf_peek([b EXCEPT !.at = e], size) = [k \in 1..size |-> b.raw[e - size + k]]
  BY DEF Buffers, buf_peek
<1>2. buf \in Buffers
  BY TypeFacts DEF IsBuf
<1>3. \A i \in 1..Len(ends) : buf_peek([buf EXCEPT !.at = ends[i]], Size(i)) = Lies(buf, i)
  <2> SUFFICES ASSUME NEW i \in 1..Len(ends)
               PROVE  buf_peek([buf EXCEPT !.at = ends[i]], Size(i)) = Lies(buf, i)
    OBVIOUS
  <2>1. buf_peek([buf EXCEPT !.at = ends[i]], Size(i))
          = [k \in 1..Size(i) |-> buf.raw[ends[i] - Size(i) + k]]
    BY <1>1, <1>2
  <2> QED
    BY <2>1 DEF Lies
<1> QED
  BY <1>3, Zenon DEF contents, Layout

LEMMA ContentsWillBe == TypeOK' => (contents = Layout)'
BY ContentsAre, PTL

(* Each item lies in the part of the buffer that is in use, and all but    *)
(* the last in front of the last.                                          *)
LEMMA Places ==
  ASSUME TypeOK, Sorted, NEW i \in 1..Len(ends)
  PROVE  /\ ends[i] \in Nat /\ start(i) \in Nat /\ Size(i) \in Nat \ {0}
         /\ ends[i] - Size(i) = start(i)
         /\ ends[i] <= buf.at
         /\ i < Len(ends) => ends[i] <= start(Len(ends))
<1>1. /\ ends \in Seq(Nat) /\ Len(ends) \in Nat
      /\ ends[i] \in Nat /\ start(i) \in Nat
  BY TypeFacts
<1>2. Size(i) \in Nat \ {0}
  BY SizesAssumption DEF TypeOK
<1>3. ends[i] - Size(i) = start(i)
  BY <1>1 DEF Size
<1>4. Len(ends) \in 1..Len(ends) /\ i <= Len(ends) /\ ends # <<>>
  BY <1>1
<1>5. ends[i] <= buf.at
  BY <1>4 DEF Sorted, TypeOK
<1>6. ASSUME i < Len(ends) PROVE ends[i] <= start(Len(ends))
  <2>1. \A n \in Nat : \A m \in 1..n : m < n => n # 1 /\ n - 1 \in 1..n /\ m <= n - 1
    OBVIOUS
  <2>2. Len(ends) # 1 /\ Len(ends) - 1 \in 1..Len(ends) /\ i <= Len(ends) - 1
    BY <1>1, <1>6, <2>1
  <2> QED
    BY <2>2 DEF start, Sorted
<1> QED
  BY <1>1, <1>2, <1>3, <1>5, <1>6

(* Functions on an initial segment are sequences of their own values.      *)
LEMMA AsSequence ==
  ASSUME NEW n \in Nat, NEW f, f = [i \in 1..n |-> f[i]], NEW S,
         \A i \in 1..n : f[i] \in S
  PROVE  f \in Seq(S) /\ Len(f) = n
<1>1. f \in [1..n -> S]
  BY Zenon
<1> QED
  BY <1>1

(* A push adds the item to the contents.                                   *)
LEMMA StackPush ==
  ASSUME TypeOK, TypeOK', Sorted, NEW item \in Items, Push(item)
  PROVE  Sorted' /\ contents' = Append(contents, item)
<1> SUFFICES ASSUME NEW n, n = Len(ends)
             PROVE  Sorted' /\ contents' = Append(contents, item)
  OBVIOUS
<1> DEFINE size == Len(item)
<1>1. /\ size \in Nat \ {0} /\ item \in Seq(Bytes)
  BY ItemType
<1>2. IsBuf(buf) /\ buf.at \in Nat /\ ends \in Seq(Nat) /\ n \in Nat
  BY TypeFacts
<1>3. ends' = Append(ends, buf'.at) /\ buf' = buf_push(buf, item) /\ buf'.at = buf.at + size
  BY PushEffect DEF Push
<1>4. buf'.at \in Nat
  BY <1>1, <1>2, <1>3
<1>5. /\ Len(ends') = n + 1 /\ ends'[n + 1] = buf'.at
      /\ \A i \in 1..n : ends'[i] = ends[i]
  BY <1>2, <1>3, <1>4
<1>6. \A i \in 1..n : /\ ends[i] \in Nat /\ Size(i) \in Nat \ {0} /\ start(i) \in Nat
                      /\ ends[i] - Size(i) = start(i) /\ ends[i] <= buf.at
  BY Places
<1>7. Sorted'
  <2> SUFFICES ASSUME NEW i \in 1..n + 1, NEW j \in 1..n + 1, i <= j
               PROVE  ends'[i] <= ends'[j]
    BY <1>5 DEF Sorted
  <2>1. CASE j = n + 1
    BY <1>1, <1>2, <1>3, <1>5, <1>6, <2>1
  <2>2. CASE j # n + 1
    <3>1. i \in 1..n /\ j \in 1..n
      BY <1>2, <2>2
    <3> QED
      BY <1>5, <3>1 DEF Sorted
  <2> QED
    BY <2>1, <2>2
<1>8. ASSUME NEW i \in 1..n
      PROVE  Size(i)' = Size(i)
  <2>1. i = 1 \/ i - 1 \in 1..n
    BY <1>2
  <2> QED
    BY <1>5, <2>1 DEF Size, start
<1>9. Size(n + 1)' = size
  <2>1. start(n + 1)' = buf.at
    <3>1. CASE n = 0
      <4>1. ends = <<>>
        BY <1>2, <3>1, EmptySeq
      <4> QED
        BY <3>1, <4>1 DEF start, TypeOK
    <3>2. CASE n # 0
      <4>1. n \in 1..n /\ n + 1 # 1 /\ n + 1 - 1 = n /\ ends # <<>>
        BY <1>2, <3>2
      <4>2. buf.at = ends[n]
        BY <4>1 DEF TypeOK
      <4> QED
        BY <1>5, <4>1, <4>2 DEF start
    <3> QED
      BY <3>1, <3>2
  <2>2. Size(n + 1)' = buf'.at - buf.at
    BY <1>5, <2>1 DEF Size
  <2> HIDE DEF size
  <2> QED
    BY <1>1, <1>2, <1>3, <2>2
<1>10. /\ \A k \in 1..buf.at : buf'.raw[k] = buf.raw[k]
       /\ \A k \in 1..size : buf'.raw[buf.at + k] = item[k]
  BY <1>2, <1>3, PushKeeps
<1>11. ASSUME NEW i \in 1..n
       PROVE  Lies(buf, i)' = Lies(buf, i)
  <2>1. \A k \in 1..Size(i) : ends[i] - Size(i) + k \in 1..buf.at
    BY <1>2, <1>6
  <2>2. \A k \in 1..Size(i) : buf'.raw[ends[i] - Size(i) + k] = buf.raw[ends[i] - Size(i) + k]
    BY <1>10, <2>1
  <2>3. Lies(buf, i)' = [k \in 1..Size(i)' |-> buf'.raw[ends'[i] - Size(i)' + k]]
    BY DEF Lies
  <2>4. Lies(buf, i)' = [k \in 1..Size(i) |-> buf'.raw[ends[i] - Size(i) + k]]
    BY <1>5, <1>8, <2>3
  <2> QED
    BY <2>2, <2>4, Zenon DEF Lies
<1>12. Lies(buf, n + 1)' = item
  <2>1. Lies(buf, n + 1)' = [k \in 1..Size(n + 1)' |-> buf'.raw[ends'[n + 1] - Size(n + 1)' + k]]
    BY DEF Lies
  <2>2. Lies(buf, n + 1)' = [k \in 1..size |-> buf'.raw[buf'.at - size + k]]
    BY <1>5, <1>9, <2>1, Zenon
  <2>3. \A k \in 1..size : buf'.at - size + k = buf.at + k
    <3> HIDE DEF size
    <3> QED
      BY <1>1, <1>2, <1>3
  <2>4. \A k \in 1..size : buf'.raw[buf'.at - size + k] = item[k]
    BY <1>10, <2>3
  <2>5. item = [k \in 1..size |-> item[k]]
    BY <1>1
  <2> HIDE DEF size
  <2> QED
    BY <2>2, <2>4, <2>5, Zenon
<1>13. contents = [i \in 1..n |-> Lies(buf, i)]
  BY ContentsAre DEF Layout
<1>14. contents' = [i \in 1..n + 1 |-> Lies(buf, i)']
  <2>0. contents' = Layout'
    BY ContentsWillBe
  <2>1. contents' = [i \in 1..Len(ends') |-> Lies(buf, i)']
    BY <2>0 DEF Layout
  <2> QED
    BY <1>5, <2>1, Zenon
<1>15. contents' = Append(contents, item)
  <2> DEFINE S == {contents[i] : i \in 1..n} \union {item}
  <2>1. contents = [i \in 1..n |-> contents[i]] /\ \A i \in 1..n : contents[i] = Lies(buf, i)
    BY <1>13, Zenon
  <2>2. \A i \in 1..n : contents[i] \in S
    OBVIOUS
  <2>3. item \in S
    OBVIOUS
  <2>4. n + 1 \in Nat /\ n \in Nat
    BY <1>2
  <2>5. /\ contents' = [i \in 1..n + 1 |-> contents'[i]]
        /\ \A i \in 1..n + 1 : contents'[i] = Lies(buf, i)'
    BY <1>14, Zenon
  <2>6. \A i \in 1..n : i \in 1..n + 1 /\ contents'[i] = contents[i]
    BY <1>11, <2>1, <2>4, <2>5
  <2>7. n + 1 \in 1..n + 1 /\ contents'[n + 1] = item
    BY <1>12, <2>4, <2>5
  <2>8. \A i \in 1..n + 1 : contents'[i] \in S
    <3>1. \A i \in 1..n + 1 : i \in 1..n \/ i = n + 1
      BY <2>4
    <3> QED
      BY <2>2, <2>3, <2>6, <2>7, <3>1
  <2> HIDE DEF S
  <2>9. contents \in Seq(S) /\ Len(contents) = n
    BY <2>1, <2>2, <2>4, AsSequence
  <2>10. contents' \in Seq(S) /\ Len(contents') = n + 1
    BY <2>4, <2>5, <2>8, AsSequence
  <2>11. /\ Append(contents, item) \in Seq(S)
         /\ Len(Append(contents, item)) = n + 1
         /\ \A i \in 1..n : Append(contents, item)[i] = contents[i]
         /\ Append(contents, item)[n + 1] = item
    BY <2>3, <2>9, AppendProperties
  <2>12. \A i \in 1..n + 1 : contents'[i] = Append(contents, item)[i]
    <3>1. \A i \in 1..n + 1 : i \in 1..n \/ i = n + 1
      BY <2>4
    <3> QED
      BY <2>6, <2>7, <2>11, <3>1
  <2> QED
    BY <2>10, <2>11, <2>12, SeqEqual
<1> QED
  BY <1>7, <1>15

(* A drop takes the last item off the contents.                            *)
LEMMA StackDrop ==
  ASSUME TypeOK, TypeOK', Sorted, Drop
  PROVE  /\ Sorted'
         /\ contents # <<>>
         /\ contents' = Front(contents)
<1> SUFFICES ASSUME NEW n, n = Len(ends)
             PROVE  Sorted' /\ contents # <<>> /\ contents' = Front(contents)
  OBVIOUS
<1>1. ends # <<>> /\ ends' = Front(ends) /\ buf' = buf_drop(buf, last)
  BY DEF Drop
<1>2. IsBuf(buf) /\ buf.at \in Nat /\ ends \in Seq(Nat) /\ n \in Nat
  BY TypeFacts
<1>3. n \in 1..n /\ last \in Nat /\ last <= buf.at /\ buf.at - last = start(n)
  BY <1>1, LastFacts
<1>4. /\ Len(ends') = n - 1
      /\ \A i \in 1..n - 1 : ends'[i] = ends[i]
  <2>1. /\ ends' = SubSeq(ends, 1, n - 1)
        /\ n - 1 \in Int /\ 1 \in Int /\ \A i \in 1..n - 1 : ends[i] \in Nat
    BY <1>1, <1>2, <1>3 DEF Front
  <2>2. /\ Len(ends') = IF 1 <= n - 1 THEN n - 1 - 1 + 1 ELSE 0
        /\ \A i \in 1..n - 1 - 1 + 1 : ends'[i] = ends[1 + i - 1]
    BY <2>1, SubSeqProperties
  <2> QED
    BY <1>3, <2>1, <2>2
<1>5. \A i \in 1..n - 1 : i \in 1..n /\ i < n /\ (i = 1 \/ i - 1 \in 1..n - 1)
  BY <1>2
<1>6. \A i \in 1..n - 1 : /\ ends[i] \in Nat /\ Size(i) \in Nat \ {0} /\ start(i) \in Nat
                          /\ ends[i] - Size(i) = start(i) /\ ends[i] <= buf.at - last
  BY <1>3, <1>5, Places
<1>7. Sorted'
  BY <1>4, <1>5 DEF Sorted
<1>8. \A i \in 1..n - 1 : Size(i)' = Size(i)
  BY <1>4, <1>5 DEF Size, start
<1>9. \A k \in 1..buf.at - last : buf'.raw[k] = buf.raw[k]
  BY <1>1, <1>2, <1>3, DropKeeps
<1>10. ASSUME NEW i \in 1..n - 1
       PROVE  Lies(buf, i)' = Lies(buf, i)
  <2>1. \A s, k, e, z \in Nat : k \in 1..z /\ e - z = s /\ e <= buf.at - last
          => e - z + k \in 1..buf.at - last
    BY <1>2, <1>3
  <2>5. \A k \in 1..Size(i) : ends[i] - Size(i) + k \in 1..buf.at - last
    <3>1. \A k \in 1..Size(i) : k \in Nat
      OBVIOUS
    <3> QED
      BY <1>6, <2>1, <3>1
  <2>2. \A k \in 1..Size(i) : buf'.raw[ends[i] - Size(i) + k] = buf.raw[ends[i] - Size(i) + k]
    BY <1>9, <2>5
  <2>3. Lies(buf, i)' = [k \in 1..Size(i)' |-> buf'.raw[ends'[i] - Size(i)' + k]]
    BY DEF Lies
  <2>4. Lies(buf, i)' = [k \in 1..Size(i) |-> buf'.raw[ends[i] - Size(i) + k]]
    BY <1>4, <1>8, <2>3
  <2> QED
    BY <2>2, <2>4, Zenon DEF Lies
<1>11. contents = [i \in 1..n |-> Lies(buf, i)]
  BY ContentsAre DEF Layout
<1>12. contents' = [i \in 1..n - 1 |-> Lies(buf, i)']
  <2>0. contents' = Layout'
    BY ContentsWillBe
  <2>1. contents' = [i \in 1..Len(ends') |-> Lies(buf, i)']
    BY <2>0 DEF Layout
  <2> QED
    BY <1>4, <2>1, Zenon
<1> DEFINE S == {contents[i] : i \in 1..n}
<1>13. contents = [i \in 1..n |-> contents[i]] /\ \A i \in 1..n : contents[i] = Lies(buf, i)
  BY <1>11, Zenon
<1>14. contents \in Seq(S) /\ Len(contents) = n
  <2>1. \A i \in 1..n : contents[i] \in S
    OBVIOUS
  <2>2. n \in Nat
    BY <1>2
  <2> HIDE DEF S
  <2> QED
    BY <1>13, <2>1, <2>2, AsSequence
<1>15. /\ contents' = [i \in 1..n - 1 |-> contents'[i]]
       /\ \A i \in 1..n - 1 : contents'[i] = contents[i]
  <2>1. \A i \in 1..n - 1 : contents'[i] = Lies(buf, i)'
    BY <1>12, Zenon
  <2>2. \A i \in 1..n - 1 : contents'[i] = contents[i]
    BY <1>5, <1>10, <1>13, <2>1
  <2> QED
    BY <1>12, <2>2, Zenon
<1>16. contents # <<>> /\ contents' = Front(contents)
  <2>1. n \in Nat \ {0} /\ n - 1 \in Nat
    BY <1>2, <1>3
  <2>2. contents # <<>>
    BY <1>14, <2>1
  <2>3. \A i \in 1..n - 1 : contents'[i] \in S
    BY <1>5, <1>15
  <2> HIDE DEF S
  <2>4. contents' \in Seq(S) /\ Len(contents') = n - 1
    BY <1>15, <2>1, <2>3, AsSequence
  <2>5. /\ Front(contents) \in Seq(S) /\ Len(Front(contents)) = n - 1
        /\ \A i \in 1..n - 1 : Front(contents)[i] = contents[i]
    <3>1. Front(contents) = SubSeq(contents, 1, n - 1)
      BY <1>14 DEF Front
    <3>2. 1 \in 1..Len(contents) + 1 /\ n - 1 \in 0..Len(contents)
      BY <1>14, <2>1
    <3>3. n - 1 >= 1 - 1 /\ n - 1 - 1 + 1 = n - 1 /\ \A i \in 1..n - 1 : 1 + i - 1 = i
      BY <2>1
    <3> QED
      BY <1>14, <2>1, <3>1, <3>2, <3>3, SubSeqProperties, SMTT(30)
  <2> QED
    BY <1>15, <2>2, <2>4, <2>5, SeqEqual
<1> QED
  BY <1>7, <1>16

(* A buffer is a stack of items of any sizes, whatever moves it: what      *)
(* buf_peek and buf_pop give back is what was pushed last and is still     *)
(* there, and growing, shrinking and pushing leave the rest alone.         *)
THEOREM BufferIsStack == Spec => ImplementsStack
<1>1. Init => Sorted /\ contents = <<>>
  <2> SUFFICES ASSUME Init
               PROVE  Sorted /\ contents = <<>>
    OBVIOUS
  <2>1. ends = <<>> /\ Len(ends) = 0
    BY DEF Init
  <2> QED
    BY <2>1 DEF Sorted, contents
<1>2. TypeOK /\ TypeOK' /\ Sorted /\ [Next]_vars
        => Sorted' /\ [AsStack!Next]_contents
  <2> SUFFICES ASSUME TypeOK, TypeOK', Sorted, [Next]_vars
               PROVE  Sorted' /\ [AsStack!Next]_contents
    OBVIOUS
  <2>1. ASSUME NEW item \in Items, Push(item)
        PROVE  Sorted' /\ AsStack!Push(item)
    BY <2>1, StackPush DEF AsStack!Push
  <2>2. CASE Drop
    <3>1. Sorted' /\ contents # <<>> /\ contents' = Front(contents)
      BY <2>2, StackDrop
    <3> QED
      BY <3>1 DEF AsStack!Next, AsStack!Pop, AsStack!Front, Front
  <2>3. CASE UNCHANGED vars
    BY <2>3 DEF vars, Sorted, contents, Size, start, buf_peek
  <2> QED
    BY <2>1, <2>2, <2>3 DEF Next, AsStack!Next
<1> QED
  BY <1>1, <1>2, WithinCapacity, PTL
     DEF Spec, ImplementsStack, AsStack!Spec, AsStack!Init

=============================================================================
