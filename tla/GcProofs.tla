------------------------------ MODULE GcProofs ------------------------------
(***************************************************************************)
(* What is proved of Gc, for any set of addresses and heaps of any size.   *)
(***************************************************************************)
EXTENDS Gc, FiniteSetTheorems, SequenceTheorems, TLAPS

-----------------------------------------------------------------------------
(* The inductive invariant.                                                *)

Distinct(s) == \A i, j \in 1..Len(s) : s[i] = s[j] => i = j

(* The heap outside and inside of a collection is the list chain.          *)
ListOK ==
  /\ Distinct(chain)
  /\ ToSet(chain) = blocks
  /\ gc_head = Successor(0)
  /\ \A i \in 1..Len(chain) : get_tag_prev(chain[i]) = Successor(i)

(* How many blocks the collection has freed so far.                        *)
freed == Len(chain0) - Len(chain)

(* Beyond the p-th block the list is as it was when the collection began.  *)
Untouched(p) ==
  \A i \in 1..Len(chain) : i > p =>
    /\ chain[i] = chain0[i + freed]
    /\ is_tag_marked(chain[i]) <=> chain[i] \in marked0

(* What was unlinked, behind the block b in the list, made it lose its     *)
(* mark.                                                                   *)
LostMark(b) ==
  \E i \in 1..Len(chain0) - 1 : chain0[i] = b /\ chain0[i + 1] \notin marked0

(* The second loop of gc_collect is at the p-th block: the blocks in front *)
(* of it are done with, it has been linked past the unmarked blocks right  *)
(* behind it, and has lost its mark if there was one.                      *)
SweptTo(p) ==
  /\ tag = Successor(p - 1)
  /\ Untouched(p)
  /\ \A i \in 1..Len(chain) : i <= p => chain[i] \in marked0
  /\ \A i \in 1..Len(chain) : i < p =>
       is_tag_marked(chain[i]) <=> ~LostMark(chain[i])
  /\ p <= Len(chain) =>
       \A j \in 1..Len(chain0) : chain0[j] = chain[p] =>
         /\ j <= p + freed
         /\ \A k \in j + 1 .. p + freed : chain0[k] \notin marked0
         /\ is_tag_marked(chain[p]) <=> j = p + freed

CollectOK ==
  pc # "run" =>
    /\ Distinct(chain0)
    /\ freed \in Nat
    /\ marked0 \subseteq blocks
    /\ blocks \subseteq ToSet(chain0)
    /\ pc = "head" => Untouched(0)
    /\ pc = "sweep" => \E p \in 1..Len(chain) + 1 : SweptTo(p)

IInv == TypeOK /\ ListOK /\ CollectOK

-----------------------------------------------------------------------------
(* Sequences without repetitions.                                          *)

LEMMA Elements ==
  ASSUME NEW S, NEW s \in Seq(S)
  PROVE  ToSet(s) = {s[i] : i \in 1..Len(s)} /\ ToSet(s) \subseteq S
  <1>1. DOMAIN s = 1..Len(s) /\ \A i \in 1..Len(s) : s[i] \in S
    BY LenProperties, ElementOfSeq
  <1> QED BY <1>1 DEF ToSet

LEMMA InFront ==
  ASSUME NEW S, NEW s \in Seq(S), NEW b \in S
  PROVE  /\ <<b>> \o s \in Seq(S)
         /\ Len(<<b>> \o s) = Len(s) + 1
         /\ (<<b>> \o s)[1] = b
         /\ \A i \in 1..Len(s) : (<<b>> \o s)[i + 1] = s[i]
  <1>1. <<b>> \in Seq(S) /\ Len(<<b>>) = 1 /\ <<b>>[1] = b
    OBVIOUS
  <1>2. Len(s) \in Nat
    BY LenProperties
  <1>3. /\ <<b>> \o s \in Seq(S)
        /\ Len(<<b>> \o s) = 1 + Len(s)
        /\ \A i \in 1..1 + Len(s) :
             (<<b>> \o s)[i] = IF i <= 1 THEN <<b>>[i] ELSE s[i - 1]
    BY <1>1, ConcatProperties
  <1>4. ASSUME NEW i \in 1..Len(s) PROVE (<<b>> \o s)[i + 1] = s[i]
    <2>1. i + 1 \in 1..1 + Len(s) /\ ~(i + 1 <= 1) /\ i + 1 - 1 = i
      BY <1>2
    <2> QED BY <1>3, <2>1
  <1> QED BY <1>1, <1>2, <1>3, <1>4

(* t is s without its k-th element.                                        *)
Shortened(s, k, t) ==
  /\ Len(t) = Len(s) - 1
  /\ \A i \in 1..Len(t) : t[i] = IF i < k THEN s[i] ELSE s[i + 1]

LEMMA RemovedAt ==
  ASSUME NEW S, NEW s \in Seq(S), NEW k \in 1..Len(s)
  PROVE  RemoveAt(s, k) \in Seq(S) /\ Shortened(s, k, RemoveAt(s, k))
  <1> DEFINE front == SubSeq(s, 1, k - 1)
             back == SubSeq(s, k + 1, Len(s))
  <1>1. Len(s) \in Nat /\ k \in Int /\ \A i \in 1..Len(s) : s[i] \in S
    BY LenProperties, ElementOfSeq
  <1>2. /\ front \in Seq(S) /\ Len(front) = k - 1
        /\ \A i \in 1..k - 1 : front[i] = s[i]
    <2>1. \A i \in 1..k - 1 : s[i] \in S
      BY <1>1
    <2>2. /\ front \in Seq(S)
          /\ Len(front) = IF 1 <= k - 1 THEN k - 1 - 1 + 1 ELSE 0
          /\ \A i \in 1..k - 1 - 1 + 1 : front[i] = s[1 + i - 1]
      BY <1>1, <2>1, SubSeqProperties
    <2> QED BY <1>1, <2>2
  <1>3. /\ back \in Seq(S) /\ Len(back) = Len(s) - k
        /\ \A i \in 1..Len(s) - k : back[i] = s[k + i]
    <2>1. \A i \in k + 1..Len(s) : s[i] \in S
      BY <1>1
    <2>2. /\ back \in Seq(S)
          /\ Len(back) = IF k + 1 <= Len(s) THEN Len(s) - (k + 1) + 1 ELSE 0
          /\ \A i \in 1..Len(s) - (k + 1) + 1 : back[i] = s[k + 1 + i - 1]
      BY <1>1, <2>1, SubSeqProperties
    <2> QED BY <1>1, <2>2
  <1> HIDE DEF front, back
  <1>4. /\ front \o back \in Seq(S)
        /\ Len(front \o back) = Len(s) - 1
        /\ \A i \in 1..Len(s) - 1 :
             (front \o back)[i] =
               IF i <= k - 1 THEN front[i] ELSE back[i - (k - 1)]
    <2>1. Len(front) + Len(back) = Len(s) - 1
      BY <1>1, <1>2, <1>3
    <2>2. /\ front \o back \in Seq(S)
          /\ Len(front \o back) = Len(front) + Len(back)
          /\ \A i \in 1..Len(front) + Len(back) :
               (front \o back)[i] =
                 IF i <= Len(front) THEN front[i] ELSE back[i - Len(front)]
      BY <1>2, <1>3, ConcatProperties
    <2> QED BY <1>2, <2>1, <2>2
  <1>5. ASSUME NEW i \in 1..Len(s) - 1
        PROVE  (front \o back)[i] = IF i < k THEN s[i] ELSE s[i + 1]
    <2>1. CASE i < k
      BY <1>1, <1>2, <1>4, <1>5, <2>1
    <2>2. CASE ~(i < k)
      <3>1. i - (k - 1) \in 1..Len(s) - k /\ k + (i - (k - 1)) = i + 1
        BY <1>1, <1>5, <2>2
      <3> QED BY <1>1, <1>3, <1>4, <1>5, <2>2, <3>1
    <2> QED BY <2>1, <2>2
  <1>6. RemoveAt(s, k) = front \o back
    BY DEF RemoveAt, front, back
  <1> QED BY <1>4, <1>5, <1>6 DEF Shortened

LEMMA WithoutFirst ==
  ASSUME NEW S, NEW s \in Seq(S), s # <<>>
  PROVE  Tail(s) \in Seq(S) /\ Shortened(s, 1, Tail(s))
  BY HeadTailProperties DEF Shortened

LEMMA ShortenedDistinct ==
  ASSUME NEW S, NEW s \in Seq(S), NEW t \in Seq(S), NEW k \in 1..Len(s),
         Distinct(s), Shortened(s, k, t)
  PROVE  Distinct(t) /\ ToSet(t) = ToSet(s) \ {s[k]}
  <1>1. Len(s) \in Nat /\ Len(t) = Len(s) - 1
    BY LenProperties DEF Shortened
  <1> DEFINE from(i) == IF i < k THEN i ELSE i + 1
  <1>2. \A i \in 1..Len(t) : from(i) \in 1..Len(s) /\ t[i] = s[from(i)]
    BY <1>1 DEF Shortened
  <1>3. \A i, j \in 1..Len(t) : from(i) = from(j) => i = j
    BY <1>1
  <1>4. \A i \in 1..Len(t) : from(i) # k
    BY <1>1
  <1>5. ASSUME NEW i \in 1..Len(s), i # k
        PROVE  \E j \in 1..Len(t) : from(j) = i
    <2>1. CASE i < k
      BY <1>1, <2>1
    <2>2. CASE i > k
      <3>1. i - 1 \in 1..Len(t) /\ ~(i - 1 < k) /\ i - 1 + 1 = i
        BY <1>1, <2>2
      <3> QED BY <3>1
    <2> QED BY <1>5, <2>1, <2>2
  <1> HIDE DEF from
  <1>6. Distinct(t)
    <2> SUFFICES ASSUME NEW i \in 1..Len(t), NEW j \in 1..Len(t), t[i] = t[j]
                 PROVE  i = j
      BY DEF Distinct
    <2> QED BY <1>2, <1>3 DEF Distinct
  <1>7. ASSUME NEW x \in ToSet(t) PROVE x \in ToSet(s) \ {s[k]}
    <2>1. PICK i \in 1..Len(t) : x = t[i]
      BY Elements
    <2>2. x = s[from(i)] /\ from(i) \in 1..Len(s) /\ from(i) # k
      BY <1>2, <1>4, <2>1
    <2> QED BY <2>2, Elements DEF Distinct
  <1>8. ASSUME NEW x \in ToSet(s) \ {s[k]} PROVE x \in ToSet(t)
    <2>1. PICK i \in 1..Len(s) : x = s[i]
      BY Elements
    <2>2. PICK j \in 1..Len(t) : from(j) = i
      BY <1>5, <2>1
    <2> QED BY <1>2, <2>1, <2>2, Elements
  <1> QED BY <1>6, <1>7, <1>8

(* A sequence without repetitions is as long as the set of its elements    *)
(* is large.                                                               *)
LEMMA DistinctCount ==
  ASSUME NEW S, NEW s \in Seq(S), Distinct(s)
  PROVE  Cardinality(ToSet(s)) = Len(s)
  <1>1. Len(s) \in Nat /\ s \in [1..Len(s) -> S]
    BY LenProperties
  <1>2. s \in [1..Len(s) -> ToSet(s)]
    BY <1>1, Elements
  <1>3. s \in Bijection(1..Len(s), ToSet(s))
    BY <1>2, Elements DEF Distinct, Bijection, Injection, Surjection, IsInjective
  <1>4. IsFiniteSet(1..Len(s)) /\ Cardinality(1..Len(s)) = Len(s)
    BY <1>1, FS_Interval
  <1> QED BY <1>3, <1>4, FS_Bijection DEF ExistsBijection


-----------------------------------------------------------------------------
(* The list is kept by every step.                                         *)

LEMMA Chain ==
  ASSUME TypeOK, ListOK
  PROVE  /\ chain \in Seq(Addrs) /\ Len(chain) \in Nat
         /\ blocks = {chain[i] : i \in 1..Len(chain)}
         /\ \A i \in 1..Len(chain) : chain[i] \in blocks /\ chain[i] # NULL
         /\ Successor(0) = NULL <=> chain = <<>>
         /\ \A i \in 0..Len(chain) : Successor(i) = NULL <=> i = Len(chain)
  <1>1. /\ chain \in Seq(Addrs) /\ Len(chain) \in Nat
        /\ blocks = {chain[i] : i \in 1..Len(chain)}
    BY LenProperties, Elements DEF TypeOK, ListOK
  <1>2. \A i \in 1..Len(chain) : chain[i] \in blocks /\ chain[i] # NULL
    BY <1>1, AddrsAssumption DEF TypeOK
  <1>3. \A i \in 0..Len(chain) : Successor(i) = NULL <=> i = Len(chain)
    BY <1>1, <1>2 DEF Successor
  <1>4. chain = <<>> <=> Len(chain) = 0
    BY <1>1, EmptySeq
  <1> QED BY <1>1, <1>2, <1>3, <1>4

(* Freeing the block behind the k-th one of the list, or the head (k = 0), *)
(* and linking past it.                                                    *)
Unlinked(k) ==
  /\ chain' \in Seq(Addrs)
  /\ Shortened(chain, k + 1, chain')
  /\ Distinct(chain') /\ blocks' = blocks \ {chain[k + 1]}
  /\ ToSet(chain') = blocks' /\ tags' = [b \in blocks' |-> tags'[b]]
  /\ \A b \in blocks' : (k = 0 \/ b # chain[k]) => tags'[b] = tags[b]
  /\ k # 0 => tags'[chain[k]] = set_tag_prev(Successor(k + 1))

LEMMA FreeHead ==
  ASSUME TypeOK, ListOK, CollectHead
  PROVE  Unlinked(0) /\ chain # <<>> /\ gc_head = chain[1] /\ ~is_tag_marked(chain[1])
  <1>1. /\ gc_head # NULL /\ ~is_tag_marked(gc_head)
        /\ tags' = Without(gc_head) /\ chain' = Tail(chain)
    BY DEF CollectHead, Doomed
  <1>2. chain # <<>> /\ gc_head = chain[1] /\ 1 \in 1..Len(chain)
    BY <1>1, Chain DEF ListOK, Successor
  <1>3. chain' \in Seq(Addrs) /\ Shortened(chain, 1, chain')
    BY <1>1, <1>2, Chain, WithoutFirst
  <1>4. Distinct(chain') /\ ToSet(chain') = blocks \ {chain[1]}
    BY <1>2, <1>3, Chain, ShortenedDistinct DEF ListOK
  <1>5. /\ DOMAIN tags' = blocks \ {chain[1]}
        /\ tags' = [b \in DOMAIN tags' |-> tags'[b]]
        /\ \A b \in blocks \ {chain[1]} : tags'[b] = tags[b]
    BY <1>1, <1>2 DEF Without
  <1>6. blocks' = blocks \ {chain[1]} /\ ~is_tag_marked(chain[1])
    BY <1>1, <1>2, <1>5 DEF blocks, is_tag_marked
  <1>7. Unlinked(0)
    BY <1>3, <1>4, <1>5, <1>6 DEF Unlinked, Shortened, blocks
  <1> QED BY <1>2, <1>6, <1>7

LEMMA FreeBehind ==
  ASSUME TypeOK, ListOK, SweepPrev, NEW k \in 1..Len(chain), tag = chain[k]
  PROVE  /\ Unlinked(k) /\ k + 1 \in 1..Len(chain) /\ tag # chain[k + 1]
         /\ ~is_tag_marked(chain[k + 1])
  <1> DEFINE x == chain[k + 1]
  <1>1. /\ Doomed(get_tag_prev(tag))
        /\ tags' = [Without(get_tag_prev(tag)) EXCEPT
                     ![tag] = set_tag_prev(get_tag_prev(get_tag_prev(tag)))]
        /\ chain' = Forget(get_tag_prev(tag))
    BY DEF SweepPrev
  <1>2. get_tag_prev(tag) = Successor(k) /\ Successor(k) # NULL
    BY <1>1 DEF Doomed, ListOK
  <1>3. k + 1 \in 1..Len(chain) /\ Successor(k) = x
    BY <1>2, Chain DEF Successor
  <1>4. get_tag_prev(x) = Successor(k + 1)
    BY <1>3 DEF ListOK
  <1>5. tag # x /\ x \in blocks /\ tag \in blocks
    BY <1>3, Chain DEF ListOK, Distinct
  <1>6. chain' = RemoveAt(chain, k + 1)
    <2>1. DOMAIN chain = 1..Len(chain)
      BY Chain, LenProperties
    <2>2. (CHOOSE i \in DOMAIN chain : chain[i] = x) = k + 1
      BY <1>3, <2>1 DEF ListOK, Distinct
    <2> QED BY <1>1, <1>2, <1>3, <2>2 DEF Forget
  <1>7. chain' \in Seq(Addrs) /\ Shortened(chain, k + 1, chain')
    BY <1>3, <1>6, Chain, RemovedAt
  <1>8. Distinct(chain') /\ ToSet(chain') = blocks \ {x}
    BY <1>3, <1>7, Chain, ShortenedDistinct DEF ListOK
  <1>9. /\ DOMAIN tags' = blocks \ {x}
        /\ tags' = [b \in DOMAIN tags' |-> tags'[b]]
        /\ \A b \in blocks \ {x} : b # tag => tags'[b] = tags[b]
        /\ tags'[tag] = set_tag_prev(Successor(k + 1))
    BY <1>1, <1>2, <1>3, <1>4, <1>5 DEF Without
  <1>10. blocks' = blocks \ {x} /\ ~is_tag_marked(x)
    BY <1>1, <1>2, <1>3, <1>9 DEF blocks, is_tag_marked, Doomed
  <1>11. Unlinked(k)
    BY <1>7, <1>8, <1>9, <1>10 DEF Unlinked, blocks
  <1> QED BY <1>3, <1>5, <1>10, <1>11

LEMMA UnlinkedList ==
  ASSUME TypeOK, ListOK, NEW k \in 0..Len(chain) - 1, Unlinked(k),
         gc_head' = IF k = 0 THEN get_tag_prev(gc_head) ELSE gc_head
  PROVE  ListOK' /\ tags' \in [blocks' -> Tag]
  <1>1. Len(chain) \in Nat /\ Len(chain') = Len(chain) - 1
    BY Chain DEF Unlinked, Shortened
  <1>2. \A i \in 1..Len(chain') :
          chain'[i] = IF i < k + 1 THEN chain[i] ELSE chain[i + 1]
    BY DEF Unlinked, Shortened
  <1>3. gc_head' = Successor(0)'
    <2>1. CASE k = 0
      <3>1. gc_head = chain[1] /\ gc_head' = Successor(1)
        BY <1>1, <2>1 DEF ListOK, Successor
      <3> QED BY <1>1, <1>2, <2>1, <3>1 DEF Successor
    <2>2. CASE k # 0
      BY <1>1, <1>2, <2>2 DEF ListOK, Successor
    <2> QED BY <2>1, <2>2
  <1>4. ASSUME NEW i \in 1..Len(chain')
        PROVE  tags'[chain'[i]].prev = Successor(i)'
    <2>1. chain'[i] \in blocks'
      BY Elements DEF Unlinked
    <2>2. CASE i < k
      <3>1. chain'[i] = chain[i] /\ chain[i] # chain[k] /\ chain'[i + 1] = chain[i + 1]
        BY <1>1, <1>2, <2>2, SMTT(30) DEF ListOK, Distinct
      <3>2. tags'[chain'[i]].prev = Successor(i)
        BY <1>1, <2>1, <2>2, <3>1 DEF Unlinked, ListOK, get_tag_prev
      <3> QED BY <1>1, <2>2, <3>1, <3>2 DEF Successor
    <2>3. CASE i = k
      <3>1. chain'[i] = chain[k] /\ k # 0
        BY <1>1, <1>2, <2>3
      <3>2. tags'[chain'[i]].prev = Successor(k + 1)
        BY <3>1 DEF Unlinked, set_tag_prev
      <3> QED BY <1>1, <1>2, <2>3, <3>2 DEF Successor
    <2>4. CASE i > k
      <3>1. chain'[i] = chain[i + 1] /\ i + 1 \in 1..Len(chain)
        BY <1>1, <1>2, <2>4
      <3>2. k = 0 \/ chain[i + 1] # chain[k]
        BY <1>1, <2>4, <3>1 DEF ListOK, Distinct
      <3>3. tags'[chain'[i]].prev = Successor(i + 1)
        BY <2>1, <3>1, <3>2 DEF Unlinked, ListOK, get_tag_prev
      <3> QED BY <1>1, <1>2, <2>4, <3>3 DEF Successor
    <2> QED BY <1>1, <2>2, <2>3, <2>4
  <1>5. tags' \in [blocks' -> Tag]
    <2>1. ASSUME NEW b \in blocks' PROVE tags'[b] \in Tag
      <3>1. b \in blocks
        BY DEF Unlinked
      <3>2. CASE k = 0 \/ b # chain[k]
        BY <3>1, <3>2 DEF Unlinked, TypeOK
      <3>3. CASE k # 0 /\ b = chain[k]
        <4>1. Successor(k + 1) \in Addrs \union {NULL}
          BY <1>1, Chain DEF Successor, TypeOK
        <4>2. set_tag_prev(Successor(k + 1)) \in Tag
          BY <4>1 DEF set_tag_prev, Tag
        <4> QED BY <3>3, <4>2 DEF Unlinked
      <3> QED BY <3>2, <3>3
    <2>2. tags' = [b \in blocks' |-> tags'[b]]
      BY DEF Unlinked
    <2> QED BY <2>1, <2>2
  <1> QED BY <1>3, <1>4, <1>5 DEF ListOK, Unlinked, get_tag_prev, blocks


LEMMA InitList == Init => TypeOK /\ ListOK
  <1> SUFFICES ASSUME Init PROVE TypeOK /\ ListOK
    OBVIOUS
  <1>1. chain = <<>> /\ tags = <<>> /\ Len(chain) = 0 /\ 1..0 = {}
    BY DEF Init
  <1>2. DOMAIN tags = {} /\ tags = [b \in {} |-> tags[b]]
    BY <1>1
  <1>3. chain \in Seq(Addrs) /\ DOMAIN chain = {}
    BY <1>1
  <1>4. TypeOK
    BY <1>2, <1>3 DEF Init, TypeOK, blocks
  <1>5. ListOK
    BY <1>1, <1>2, <1>3 DEF Init, ListOK, Distinct, ToSet, blocks, Successor
  <1> QED BY <1>4, <1>5

LEMMA NextList == TypeOK /\ ListOK /\ [Next]_vars => TypeOK' /\ ListOK'
  <1> SUFFICES ASSUME TypeOK, ListOK, [Next]_vars PROVE TypeOK' /\ ListOK'
    OBVIOUS
  <1>1. ASSUME NEW b \in Addrs, gc_alloc(b) PROVE TypeOK' /\ ListOK'
    <2>1. /\ b \notin blocks /\ gc_head' = b /\ chain' = <<b>> \o chain
          /\ tags' = [c \in blocks \union {b} |->
                        IF c = b THEN set_tag_prev(gc_head) ELSE tags[c]]
          /\ pc' = pc /\ pc = "run" /\ tag' = tag
          /\ chain0' = chain0 /\ marked0' = marked0
      BY <1>1 DEF gc_alloc
    <2>2. /\ chain' \in Seq(Addrs) /\ Len(chain') = Len(chain) + 1
          /\ chain'[1] = b /\ \A i \in 1..Len(chain) : chain'[i + 1] = chain[i]
      BY <2>1, Chain, InFront
    <2>3. blocks' = blocks \union {b}
      BY <2>1 DEF blocks
    <2>4. \A i \in 1..Len(chain') :
            \/ i = 1 /\ chain'[i] = b
            \/ i - 1 \in 1..Len(chain) /\ chain'[i] = chain[i - 1]
      BY <2>2, Chain
    <2>5. Distinct(chain')
      BY <2>1, <2>4, Chain DEF Distinct, ListOK
    <2>6. ToSet(chain') = blocks'
      <3>1. ToSet(chain') = {chain'[i] : i \in 1..Len(chain')}
        BY <2>2, Elements
      <3>2. \A i \in 1..Len(chain) : i + 1 \in 1..Len(chain')
        BY <2>2, Chain
      <3>3. 1 \in 1..Len(chain')
        BY <2>2, Chain
      <3> QED BY <2>2, <2>3, <2>4, <3>1, <3>2, <3>3, Chain, SMTT(30)
    <2>7. gc_head' = Successor(0)'
      BY <2>1, <2>2, Chain DEF Successor
    <2>8. ASSUME NEW i \in 1..Len(chain')
          PROVE  tags'[chain'[i]].prev = Successor(i)'
      <3>1. CASE i = 1
        BY <2>1, <2>2, <3>1, Chain DEF Successor, ListOK, set_tag_prev
      <3>2. CASE i # 1
        <4>1. /\ i - 1 \in 1..Len(chain) /\ chain'[i] = chain[i - 1]
              /\ chain[i - 1] \in blocks
          BY <2>4, <3>2, Chain
        <4>2. tags'[chain'[i]].prev = Successor(i - 1)
          BY <2>1, <4>1 DEF ListOK, get_tag_prev
        <4> QED BY <2>2, <4>1, <4>2, Chain DEF Successor
      <3> QED BY <3>1, <3>2
    <2>9. tags' \in [blocks' -> Tag]
      <3>1. set_tag_prev(gc_head) \in Tag
        BY DEF TypeOK, set_tag_prev, Tag
      <3> QED BY <2>1, <2>3, <3>1 DEF TypeOK
    <2>10. TypeOK'
      BY <2>1, <2>2, <2>3, <2>9 DEF TypeOK
    <2>11. ListOK'
      BY <2>5, <2>6, <2>7, <2>8 DEF ListOK, get_tag_prev
    <2> QED BY <2>10, <2>11
  <1>2. ASSUME NEW b \in Addrs, gc_mark(b) PROVE TypeOK' /\ ListOK'
    <2>1. /\ tags' = [tags EXCEPT ![b].mark = TRUE] /\ b \in blocks
          /\ UNCHANGED <<gc_head, tag, pc, chain, chain0, marked0>>
      BY <1>2 DEF gc_mark
    <2>2. /\ blocks' = blocks /\ tags' \in [blocks' -> Tag]
          /\ \A c \in blocks : tags'[c].prev = tags[c].prev
      BY <2>1 DEF TypeOK, Tag, blocks
    <2>3. TypeOK'
      BY <2>1, <2>2 DEF TypeOK
    <2>4. ListOK'
      BY <2>1, <2>2, Chain DEF ListOK, Successor, get_tag_prev
    <2> QED BY <2>3, <2>4
  <1>3. ASSUME UNCHANGED <<tags, gc_head, chain>>, pc' \in {"run", "head", "sweep"},
               tag' \in blocks \union {NULL}, pc' # "sweep" => tag' = NULL,
               chain0' \in Seq(Addrs), marked0' \subseteq Addrs
        PROVE  TypeOK' /\ ListOK'
    <2>1. blocks' = blocks /\ \A i \in Nat : Successor(i)' = Successor(i)
      BY <1>3 DEF blocks, Successor
    <2>2. TypeOK'
      BY <1>3, <2>1 DEF TypeOK
    <2>3. ListOK'
      BY <1>3, <2>1, Chain DEF ListOK, get_tag_prev
    <2> QED BY <2>2, <2>3
  <1>4. CASE CollectBegin
    BY <1>3, <1>4 DEF CollectBegin, TypeOK, marked
  <1>5. CASE CollectHead
    <2>1. Unlinked(0) /\ chain # <<>> /\ gc_head = chain[1]
      BY <1>5, FreeHead
    <2>2. 0 \in 0..Len(chain) - 1
      BY <2>1, Chain, EmptySeq
    <2>3. gc_head' = get_tag_prev(gc_head) /\ UNCHANGED <<tag, pc, chain0, marked0>>
      BY <1>5 DEF CollectHead
    <2>4. ListOK' /\ tags' \in [blocks' -> Tag]
      BY <2>1, <2>2, <2>3, UnlinkedList
    <2>5. gc_head' \in blocks' \union {NULL}
      <3>1. (chain \in Seq(Addrs) /\ ListOK)'
        BY <2>1, <2>4 DEF Unlinked
      <3>2. /\ Len(chain') \in Nat
            /\ \A i \in 1..Len(chain') : chain'[i] \in blocks'
        BY <3>1, Elements, LenProperties DEF ListOK
      <3> QED BY <2>4, <3>2 DEF ListOK, Successor
    <2>6. TypeOK'
      <3>1. pc = "head" /\ tag = NULL
        BY <1>5 DEF CollectHead, TypeOK
      <3> QED BY <2>1, <2>3, <2>4, <2>5, <3>1 DEF TypeOK, Unlinked
    <2> QED BY <2>4, <2>6
  <1>6. CASE HeadDone
    BY <1>3, <1>6 DEF HeadDone, TypeOK
  <1>7. CASE SweepPrev
    <2>1. PICK k \in 1..Len(chain) : tag = chain[k]
      BY <1>7, Chain DEF SweepPrev, TypeOK
    <2>2. /\ Unlinked(k) /\ k + 1 \in 1..Len(chain) /\ tag # chain[k + 1]
      BY <1>7, <2>1, FreeBehind
    <2>3. k \in 0..Len(chain) - 1 /\ k # 0
      BY <2>2, Chain
    <2>4. gc_head' = gc_head /\ UNCHANGED <<tag, pc, chain0, marked0>>
      BY <1>7 DEF SweepPrev
    <2>5. ListOK' /\ tags' \in [blocks' -> Tag]
      BY <2>2, <2>3, <2>4, UnlinkedList
    <2>6. blocks' = blocks \ {chain[k + 1]}
      BY <2>2 DEF Unlinked
    <2>7. gc_head # chain[k + 1]
      <3>1. 1 \in 1..Len(chain) /\ gc_head = chain[1]
        BY <2>3, Chain DEF ListOK, Successor
      <3> QED BY <2>2, <2>3, <3>1 DEF ListOK, Distinct
    <2>8. TypeOK'
      BY <2>2, <2>4, <2>5, <2>6, <2>7 DEF TypeOK, Unlinked
    <2> QED BY <2>5, <2>8
  <1>8. CASE SweepNext
    <2>1. get_tag_prev(tag) \in blocks \union {NULL}
      <3>1. PICK k \in 1..Len(chain) : tag = chain[k]
        BY <1>8, Chain DEF SweepNext, TypeOK
      <3> QED BY <3>1, Chain DEF ListOK, Successor
    <2> QED BY <1>3, <1>8, <2>1 DEF SweepNext, TypeOK
  <1>9. CASE CollectEnd
    BY <1>3, <1>9 DEF CollectEnd, TypeOK
  <1>10. CASE UNCHANGED vars
    BY <1>3, <1>10 DEF vars, TypeOK
  <1> QED BY <1>1, <1>2, <1>4, <1>5, <1>6, <1>7, <1>8, <1>9, <1>10
          DEF Next, CollectStep


-----------------------------------------------------------------------------
(* What a collection has done so far is kept by every step.                *)

LEMMA Cursor ==
  ASSUME TypeOK, ListOK, NEW p \in 1..Len(chain) + 1, tag = Successor(p - 1)
  PROVE  tag # NULL <=> p \in 1..Len(chain) /\ tag = chain[p]
  <1>1. p - 1 \in 0..Len(chain) /\ p - 1 + 1 = p
    BY Chain
  <1> QED BY <1>1, Chain DEF Successor

LEMMA HeadCollect ==
  ASSUME TypeOK, ListOK, CollectOK, CollectHead PROVE CollectOK'
  <1>1. Unlinked(0) /\ chain # <<>> /\ gc_head = chain[1] /\ ~is_tag_marked(chain[1])
    BY FreeHead
  <1>2. pc = "head" /\ pc' = "head" /\ chain0' = chain0 /\ marked0' = marked0
    BY DEF CollectHead
  <1>3. /\ Distinct(chain0) /\ freed \in Nat /\ marked0 \subseteq blocks
        /\ blocks \subseteq ToSet(chain0) /\ Untouched(0)
    BY <1>2 DEF CollectOK
  <1>4. /\ Len(chain) \in Nat /\ Len(chain0) \in Nat /\ 1 \in 1..Len(chain)
        /\ Len(chain') = Len(chain) - 1
        /\ \A i \in 1..Len(chain') :
             /\ i + 1 \in 1..Len(chain) /\ chain'[i] = chain[i + 1]
             /\ chain'[i] \in blocks'
             /\ tags'[chain'[i]] = tags[chain[i + 1]]
    <2>1. Len(chain) \in Nat /\ Len(chain0) \in Nat /\ 1 \in 1..Len(chain)
      BY <1>1, Chain, EmptySeq, LenProperties DEF TypeOK
    <2>2. /\ Len(chain') = Len(chain) - 1
          /\ \A i \in 1..Len(chain') : chain'[i] = chain[i + 1]
      BY <1>1, <2>1 DEF Unlinked, Shortened
    <2>3. \A i \in 1..Len(chain') : chain'[i] \in blocks'
      BY <1>1, Elements DEF Unlinked
    <2>4. \A b \in blocks' : tags'[b] = tags[b]
      BY <1>1 DEF Unlinked
    <2> QED BY <2>1, <2>2, <2>3, <2>4
  <1>5. chain[1] \notin marked0
    BY <1>1, <1>3, <1>4 DEF Untouched
  <1>6. freed' = freed + 1
    BY <1>2, <1>4 DEF freed
  <1>7. blocks' = blocks \ {chain[1]}
    BY <1>1 DEF Unlinked
  <1>8. ASSUME NEW i \in 1..Len(chain')
        PROVE  /\ chain'[i] = chain0[i + freed']
               /\ tags'[chain'[i]].mark <=> chain'[i] \in marked0
    <2>1. i + 1 \in 1..Len(chain) /\ i + 1 > 0 /\ i + 1 + freed = i + freed'
      BY <1>3, <1>4, <1>6
    <2>2. chain[i + 1] = chain0[i + 1 + freed]
      BY <1>3, <2>1 DEF Untouched
    <2>3. tags[chain[i + 1]].mark <=> chain[i + 1] \in marked0
      BY <1>3, <2>1 DEF Untouched, is_tag_marked
    <2> QED BY <1>4, <2>1, <2>2, <2>3
  <1>9. Untouched(0)'
    BY <1>2, <1>8 DEF Untouched, is_tag_marked
  <1> QED BY <1>2, <1>3, <1>5, <1>6, <1>7, <1>9 DEF CollectOK

LEMMA BehindCollect ==
  ASSUME TypeOK, ListOK, CollectOK, SweepPrev PROVE CollectOK'
  <1>1. /\ tag # NULL /\ pc = "sweep" /\ pc' = "sweep" /\ tag' = tag
        /\ chain0' = chain0 /\ marked0' = marked0
    BY DEF SweepPrev
  <1>2. /\ Distinct(chain0) /\ freed \in Nat /\ marked0 \subseteq blocks
        /\ blocks \subseteq ToSet(chain0)
    BY <1>1 DEF CollectOK
  <1>3. PICK p \in 1..Len(chain) + 1 : SweptTo(p)
    BY <1>1 DEF CollectOK
  <1>4. p \in 1..Len(chain) /\ tag = chain[p]
    BY <1>1, <1>3, Cursor DEF SweptTo
  <1>5. /\ Unlinked(p) /\ p + 1 \in 1..Len(chain) /\ tag # chain[p + 1]
        /\ ~is_tag_marked(chain[p + 1])
    BY <1>4, FreeBehind
  <1>6. Len(chain) \in Nat /\ Len(chain0) \in Nat /\ p \in Nat
    BY <1>4, Chain, LenProperties DEF TypeOK
  <1>7. /\ Len(chain') = Len(chain) - 1
        /\ \A i \in 1..Len(chain') :
             /\ i <= p => i \in 1..Len(chain) /\ chain'[i] = chain[i]
             /\ i > p => i + 1 \in 1..Len(chain) /\ chain'[i] = chain[i + 1]
    BY <1>5, <1>6 DEF Unlinked, Shortened
  <1>8. freed' = freed + 1
    BY <1>1, <1>6, <1>7 DEF freed
  <1>9. /\ blocks' = blocks \ {chain[p + 1]}
        /\ \A b \in blocks' : b # chain[p] => tags'[b] = tags[b]
        /\ tags'[chain[p]] = set_tag_prev(Successor(p + 1))
    BY <1>4, <1>5, <1>6 DEF Unlinked
  <1>10. /\ chain[p + 1] \notin marked0
         /\ chain[p + 1] = chain0[p + 1 + freed]
    <2>1. p + 1 > p
      BY <1>6
    <2> QED BY <1>3, <1>5, <2>1 DEF SweptTo, Untouched
  <1>11. \A i \in 1..Len(chain') : chain'[i] \in blocks'
    BY <1>5, Elements DEF Unlinked
  <1>12. p \in 1..Len(chain') /\ chain'[p] = chain[p]
    BY <1>5, <1>6, <1>7
  <1>13. \A i \in 1..Len(chain') : i # p => tags'[chain'[i]] = tags[chain'[i]]
    <2> SUFFICES ASSUME NEW i \in 1..Len(chain'), i # p PROVE chain'[i] # chain[p]
      BY <1>9, <1>11
    <2>1. Distinct(chain')
      BY <1>5 DEF Unlinked
    <2> QED BY <1>12, <2>1 DEF Distinct
  <1>14. SweptTo(p)'
    <2>1. tag' = Successor(p - 1)'
      BY <1>1, <1>4, <1>6, <1>12 DEF Successor
    <2>2. ASSUME NEW i \in 1..Len(chain'), i > p
          PROVE  /\ chain'[i] = chain0[i + freed']
                 /\ tags'[chain'[i]].mark <=> chain'[i] \in marked0
      <3>1. /\ i + 1 \in 1..Len(chain) /\ i + 1 > p /\ chain'[i] = chain[i + 1]
            /\ i + 1 + freed = i + freed'
        <4>1. i + 1 \in 1..Len(chain) /\ chain'[i] = chain[i + 1]
          BY <1>7, <2>2
        <4>2. i \in Nat /\ i + 1 > p
          BY <1>6, <2>2
        <4>3. i + 1 + freed = i + (freed + 1)
          BY <1>2, <4>2
        <4> QED BY <1>8, <4>1, <4>2, <4>3
      <3>2. chain[i + 1] = chain0[i + 1 + freed]
        BY <1>3, <3>1 DEF SweptTo, Untouched
      <3>3. tags[chain[i + 1]].mark <=> chain[i + 1] \in marked0
        BY <1>3, <3>1 DEF SweptTo, Untouched, is_tag_marked
      <3> QED BY <1>6, <1>13, <2>2, <3>1, <3>2, <3>3
    <2>3. ASSUME NEW i \in 1..Len(chain'), i <= p PROVE chain'[i] \in marked0
      BY <1>3, <1>7, <2>3 DEF SweptTo
    <2>4. ASSUME NEW i \in 1..Len(chain'), i < p
          PROVE  tags'[chain'[i]].mark <=> ~LostMark(chain'[i])
      <3>1. i <= p /\ i # p
        BY <1>6, <2>4
      <3>2. i \in 1..Len(chain) /\ chain'[i] = chain[i]
        BY <1>7, <3>1
      <3>3. tags[chain[i]].mark <=> ~LostMark(chain[i])
        BY <1>3, <2>4, <3>2 DEF SweptTo, is_tag_marked
      <3> QED BY <1>13, <3>1, <3>2, <3>3
    <2>5. \A b : LostMark(b)' <=> LostMark(b)
      BY <1>1 DEF LostMark
    <2>6. ASSUME NEW j \in 1..Len(chain0), chain0[j] = chain'[p]
          PROVE  /\ j <= p + freed'
                 /\ \A k \in j + 1 .. p + freed' : chain0[k] \notin marked0
                 /\ tags'[chain'[p]].mark <=> j = p + freed'
      <3>1. /\ j <= p + freed
            /\ \A k \in j + 1 .. p + freed : chain0[k] \notin marked0
        BY <1>3, <1>4, <1>12, <2>6 DEF SweptTo
      <3>2. \A k \in j + 1 .. p + freed' : k \in j + 1 .. p + freed \/ k = p + 1 + freed
        BY <1>2, <1>6, <1>8
      <3>3. tags'[chain'[p]].mark = FALSE
        BY <1>9, <1>12 DEF set_tag_prev
      <3>4. j <= p + freed' /\ j # p + freed'
        BY <1>2, <1>6, <1>8, <3>1
      <3> QED BY <1>10, <3>1, <3>2, <3>3, <3>4
    <2> QED BY <1>1, <2>1, <2>2, <2>3, <2>4, <2>5, <2>6
            DEF SweptTo, Untouched, is_tag_marked
  <1>15. p \in 1..Len(chain') + 1
    BY <1>6, <1>7, <1>12
  <1> QED BY <1>1, <1>2, <1>8, <1>9, <1>10, <1>14, <1>15 DEF CollectOK


LEMMA HeadSwept ==
  ASSUME TypeOK, ListOK, CollectOK, HeadDone PROVE CollectOK'
  <1>1. /\ pc = "head" /\ pc' = "sweep" /\ tag' = gc_head /\ ~Doomed(gc_head)
        /\ UNCHANGED <<tags, gc_head, chain, chain0, marked0>>
    BY DEF HeadDone
  <1>2. /\ Distinct(chain0) /\ freed \in Nat /\ marked0 \subseteq blocks
        /\ blocks \subseteq ToSet(chain0) /\ Untouched(0)
    BY <1>1 DEF CollectOK
  <1>3. blocks' = blocks /\ freed' = freed
    BY <1>1 DEF blocks, freed
  <1>4. Len(chain) \in Nat /\ Len(chain0) \in Nat
    BY Chain, LenProperties DEF TypeOK
  <1>5. ASSUME 1 \in 1..Len(chain)
        PROVE  /\ is_tag_marked(chain[1]) /\ chain[1] \in marked0
               /\ chain[1] = chain0[1 + freed] /\ 1 + freed \in 1..Len(chain0)
    <2>1. gc_head = chain[1] /\ gc_head # NULL
      BY <1>4, <1>5, Chain DEF ListOK, Successor
    <2>2. is_tag_marked(chain[1])
      BY <1>1, <2>1 DEF Doomed
    <2>3. 1 > 0 /\ 1 + freed \in 1..Len(chain0)
      BY <1>2, <1>4, <1>5 DEF freed
    <2> QED BY <1>2, <1>5, <2>2, <2>3 DEF Untouched
  <1>6. SweptTo(1)'
    <2>1. tag' = Successor(1 - 1)'
      BY <1>1 DEF ListOK, Successor
    <2>2. Untouched(1)'
      BY <1>1, <1>2, <1>3, <1>4 DEF Untouched, is_tag_marked
    <2>3. \A i \in 1..Len(chain') : i <= 1 => chain'[i] \in marked0'
      <3>1. \A i \in 1..Len(chain) : i <= 1 => i = 1
        BY <1>4
      <3> QED BY <1>1, <1>5, <3>1
    <2>4. \A i \in 1..Len(chain') : ~(i < 1)
      BY <1>1, <1>4
    <2>5. ASSUME 1 <= Len(chain), NEW j \in 1..Len(chain0), chain0[j] = chain[1]
          PROVE  /\ j <= 1 + freed
                 /\ \A k \in j + 1 .. 1 + freed : chain0[k] \notin marked0
                 /\ is_tag_marked(chain[1]) <=> j = 1 + freed
      <3>1. j = 1 + freed
        BY <1>2, <1>4, <1>5, <2>5 DEF Distinct
      <3>2. j + 1 .. 1 + freed = {}
        BY <1>2, <3>1
      <3> QED BY <1>2, <1>4, <1>5, <2>5, <3>1, <3>2
    <2> QED BY <1>1, <1>3, <2>1, <2>2, <2>3, <2>4, <2>5 DEF SweptTo, is_tag_marked
  <1>7. 1 \in 1..Len(chain') + 1
    BY <1>1, <1>4
  <1> QED BY <1>1, <1>2, <1>3, <1>6, <1>7 DEF CollectOK

LEMMA NextSwept ==
  ASSUME TypeOK, ListOK, CollectOK, SweepNext PROVE CollectOK'
  <1>1. /\ tag # NULL /\ pc = "sweep" /\ pc' = "sweep"
        /\ ~Doomed(get_tag_prev(tag)) /\ tag' = get_tag_prev(tag)
        /\ UNCHANGED <<tags, gc_head, chain, chain0, marked0>>
    BY DEF SweepNext
  <1>2. /\ Distinct(chain0) /\ freed \in Nat /\ marked0 \subseteq blocks
        /\ blocks \subseteq ToSet(chain0)
    BY <1>1 DEF CollectOK
  <1>3. PICK p \in 1..Len(chain) + 1 : SweptTo(p)
    BY <1>1 DEF CollectOK
  <1>4. p \in 1..Len(chain) /\ tag = chain[p]
    BY <1>1, <1>3, Cursor DEF SweptTo
  <1>5. tag' = Successor(p)
    BY <1>1, <1>4 DEF ListOK
  <1>6. Len(chain) \in Nat /\ Len(chain0) \in Nat /\ p \in Nat
    BY <1>4, Chain, LenProperties DEF TypeOK
  <1>7. blocks' = blocks /\ freed' = freed
    BY <1>1 DEF blocks, freed
  <1>8. ASSUME p + 1 \in 1..Len(chain)
        PROVE  /\ is_tag_marked(chain[p + 1]) /\ chain[p + 1] \in marked0
               /\ chain[p + 1] = chain0[p + 1 + freed]
               /\ p + 1 + freed \in 1..Len(chain0)
    <2>1. tag' = chain[p + 1] /\ tag' # NULL
      BY <1>5, <1>6, <1>8, Chain DEF Successor
    <2>2. is_tag_marked(chain[p + 1])
      BY <1>1, <2>1 DEF Doomed
    <2>3. p + 1 > p /\ p + 1 + freed \in 1..Len(chain0)
      BY <1>2, <1>6, <1>8 DEF freed
    <2> QED BY <1>3, <1>8, <2>2, <2>3 DEF SweptTo, Untouched
  <1>9. is_tag_marked(chain[p]) <=> ~LostMark(chain[p])
    <2>1. PICK j \in 1..Len(chain0) : chain0[j] = chain[p]
      <3>1. chain[p] \in ToSet(chain0) /\ chain0 \in Seq(Addrs)
        BY <1>2, <1>4, Chain DEF TypeOK
      <3> QED BY <3>1, Elements
    <2>2. /\ j <= p + freed
          /\ \A k \in j + 1 .. p + freed : chain0[k] \notin marked0
          /\ is_tag_marked(chain[p]) <=> j = p + freed
      BY <1>3, <1>4, <2>1 DEF SweptTo
    <2>3. LostMark(chain[p]) <=> j < Len(chain0) /\ chain0[j + 1] \notin marked0
      <3>1. \A i \in 1..Len(chain0) - 1 : chain0[i] = chain[p] <=> i = j
        BY <1>2, <1>6, <2>1 DEF Distinct
      <3>2. j \in 1..Len(chain0) - 1 <=> j < Len(chain0)
        BY <1>6
      <3> QED BY <3>1, <3>2 DEF LostMark
    <2>4. CASE j = p + freed
      <3>1. ASSUME j < Len(chain0) PROVE chain0[j + 1] \in marked0
        <4>1. p + 1 \in 1..Len(chain) /\ j + 1 = p + 1 + freed
          BY <1>2, <1>6, <2>4, <3>1 DEF freed
        <4> QED BY <1>8, <4>1
      <3> QED BY <2>2, <2>3, <2>4, <3>1
    <2>5. CASE j # p + freed
      <3>1. j + 1 \in j + 1 .. p + freed /\ j < Len(chain0)
        BY <1>2, <1>4, <1>6, <2>2, <2>5 DEF freed
      <3> QED BY <2>2, <2>3, <2>5, <3>1
    <2> QED BY <2>4, <2>5
  <1>10. SweptTo(p + 1)'
    <2>1. tag' = Successor(p + 1 - 1)'
      <3>1. p + 1 - 1 = p
        BY <1>6
      <3> QED BY <1>1, <1>5, <3>1 DEF Successor
    <2>2. Untouched(p + 1)'
      <3>1. \A i \in 1..Len(chain) : i > p + 1 => i > p
        BY <1>6
      <3> QED BY <1>1, <1>3, <1>7, <3>1 DEF SweptTo, Untouched, is_tag_marked
    <2>3. \A i \in 1..Len(chain') : i <= p + 1 => chain'[i] \in marked0'
      <3>1. \A i \in 1..Len(chain) : i <= p + 1 => i <= p \/ i = p + 1
        BY <1>6
      <3> QED BY <1>1, <1>3, <1>8, <3>1 DEF SweptTo
    <2>4. \A i \in 1..Len(chain') : i < p + 1 =>
            (is_tag_marked(chain[i]) <=> ~LostMark(chain[i]))'
      <3>1. \A i \in 1..Len(chain) : i < p + 1 => i < p \/ i = p
        BY <1>6
      <3>2. \A i \in 1..Len(chain) : i < p + 1 =>
              (is_tag_marked(chain[i]) <=> ~LostMark(chain[i]))
        BY <1>3, <1>9, <3>1 DEF SweptTo
      <3> QED BY <1>1, <3>2 DEF is_tag_marked, LostMark
    <2>5. ASSUME p + 1 <= Len(chain), NEW j \in 1..Len(chain0),
                 chain0[j] = chain[p + 1]
          PROVE  /\ j <= p + 1 + freed
                 /\ \A k \in j + 1 .. p + 1 + freed : chain0[k] \notin marked0
                 /\ is_tag_marked(chain[p + 1]) <=> j = p + 1 + freed
      <3>1. p + 1 \in 1..Len(chain)
        BY <1>6, <2>5
      <3>2. j = p + 1 + freed
        BY <1>2, <1>8, <2>5, <3>1 DEF Distinct
      <3>3. j + 1 .. p + 1 + freed = {}
        BY <1>2, <1>6, <3>2
      <3> QED BY <1>2, <1>6, <1>8, <2>5, <3>1, <3>2, <3>3
    <2> QED BY <1>1, <1>7, <2>1, <2>2, <2>3, <2>4, <2>5 DEF SweptTo, is_tag_marked
  <1>11. p + 1 \in 1..Len(chain') + 1
    BY <1>1, <1>4, <1>6
  <1> QED BY <1>1, <1>2, <1>7, <1>10, <1>11 DEF CollectOK

LEMMA NextCollect == IInv /\ [Next]_vars => CollectOK'
  <1> SUFFICES ASSUME IInv, [Next]_vars PROVE CollectOK'
    OBVIOUS
  <1> USE DEF IInv
  <1>1. ASSUME NEW b \in Addrs, gc_alloc(b) \/ gc_mark(b) PROVE CollectOK'
    BY <1>1 DEF gc_alloc, gc_mark, CollectOK
  <1>2. CASE CollectBegin
    <2>1. /\ pc' = "head" /\ chain0' = chain /\ marked0' = marked
          /\ tags' = tags /\ chain' = chain
      BY <1>2 DEF CollectBegin
    <2>2. Len(chain) \in Nat /\ freed' = 0
      BY <2>1, Chain DEF freed
    <2>3. \A i \in 1..Len(chain) : i + 0 = i
      BY <2>2
    <2>4. blocks' = blocks /\ marked0' \subseteq blocks /\ Distinct(chain0')
      BY <2>1 DEF blocks, marked, ListOK
    <2>5. Untouched(0)'
      BY <2>1, <2>2, <2>3, Chain DEF Untouched, marked, is_tag_marked
    <2> QED BY <2>1, <2>2, <2>4, <2>5 DEF CollectOK, ListOK
  <1>3. CASE CollectEnd
    BY <1>3 DEF CollectEnd, CollectOK
  <1>4. CASE UNCHANGED vars
    <2>1. CollectOK' <=> CollectOK
      BY <1>4 DEF vars, CollectOK, SweptTo, Untouched, LostMark, is_tag_marked,
                  Successor, freed, blocks
    <2> QED BY <2>1
  <1> QED BY <1>1, <1>2, <1>3, <1>4, HeadCollect, BehindCollect, HeadSwept, NextSwept
          DEF Next, CollectStep

LEMMA InitIInv == Init => IInv
  BY InitList DEF Init, IInv, CollectOK

LEMMA NextIInv == IInv /\ [Next]_vars => IInv'
  BY NextList, NextCollect DEF IInv

(* What a collection comes to.                                             *)
LEMMA Collected ==
  ASSUME IInv, CollectEnd
  PROVE  /\ blocks = marked0
         /\ marked = {b \in marked0 : ~LostMark(b)}
  <1>1. tag = NULL /\ pc = "sweep"
    BY DEF CollectEnd
  <1>2. PICK p \in 1..Len(chain) + 1 : SweptTo(p)
    BY <1>1 DEF IInv, CollectOK
  <1>3. Len(chain) \in Nat /\ p = Len(chain) + 1
    <2>1. Len(chain) \in Nat /\ p - 1 \in 0..Len(chain)
      BY Chain DEF IInv
    <2>2. Successor(p - 1) = NULL
      BY <1>1, <1>2 DEF SweptTo
    <2>3. p - 1 = Len(chain)
      BY <2>1, <2>2, Chain DEF IInv
    <2> QED BY <2>1, <2>3
  <1>4. \A i \in 1..Len(chain) : /\ chain[i] \in marked0
                                 /\ is_tag_marked(chain[i]) <=> ~LostMark(chain[i])
    BY <1>2, <1>3 DEF SweptTo
  <1>5. marked0 \subseteq blocks
    BY <1>1 DEF IInv, CollectOK
  <1>6. blocks = marked0 /\ \A b \in blocks : is_tag_marked(b) <=> ~LostMark(b)
    BY <1>4, <1>5, Chain DEF IInv
  <1> QED BY <1>6 DEF marked

-----------------------------------------------------------------------------
(* Theorems.                                                               *)

(* The cursors of gc_collect never point to a block that has been freed,   *)
(* however blocks are allocated, marked and collected.                     *)
THEOREM CursorsLive == Spec => []TypeOK
  <1>1. IInv => TypeOK
    BY DEF IInv
  <1> QED BY <1>1, InitIInv, NextIInv, PTL DEF Spec

(* Between any two steps every allocated block is in the list of tags      *)
(* exactly once: none is leaked and the list has no cycle.                 *)
THEOREM HeapIsLinked == Spec => []Linked
  <1>1. IInv => Linked
    <2> SUFFICES ASSUME IInv PROVE Linked
      OBVIOUS
    <2>1. Len(chain) = Cardinality(blocks)
      BY DistinctCount DEF IInv, ListOK, TypeOK
    <2>2. gc_head = IF chain = <<>> THEN NULL ELSE chain[1]
      BY Chain DEF IInv, ListOK, Successor
    <2> QED BY <2>1, <2>2 DEF IInv, ListOK, Linked
  <1> QED BY <1>1, InitIInv, NextIInv, PTL DEF Spec

(* gc_collect frees the blocks that were not marked when it was called,    *)
(* and only those: the collector implements Collector.                     *)
THEOREM CollectorImplemented == Spec => ImplementsCollector
  <1>1. Init => AsCollector!Init
    <2> SUFFICES ASSUME Init PROVE AsCollector!Init
      OBVIOUS
    <2>1. pc = "run" /\ blocks = {}
      BY DEF Init, blocks
    <2> QED BY <2>1 DEF AsCollector!Init, marked
  <1>2. IInv /\ [Next]_vars =>
          [AsCollector!Next]_<<IF pc = "run" THEN blocks ELSE ToSet(chain0),
                               IF pc = "run" THEN marked ELSE marked0>>
    <2> SUFFICES ASSUME IInv, Next
                 PROVE  \/ AsCollector!Next
                        \/ UNCHANGED <<IF pc = "run" THEN blocks ELSE ToSet(chain0),
                                       IF pc = "run" THEN marked ELSE marked0>>
      BY DEF vars, blocks, marked, is_tag_marked
    <2>1. ASSUME NEW b \in Addrs, gc_alloc(b) PROVE AsCollector!Alloc(b)
      <3>1. /\ pc = "run" /\ pc' = "run" /\ b \notin blocks
            /\ tags' = [c \in blocks \union {b} |->
                          IF c = b THEN set_tag_prev(gc_head) ELSE tags[c]]
        BY <2>1 DEF gc_alloc
      <3>2. blocks' = blocks \union {b}
        BY <3>1 DEF blocks
      <3>3. marked' = marked
        BY <3>1, <3>2 DEF marked, is_tag_marked, set_tag_prev
      <3> QED BY <3>1, <3>2, <3>3 DEF AsCollector!Alloc
    <2>2. ASSUME NEW b \in Addrs, gc_mark(b) PROVE AsCollector!Mark(b)
      <3>1. /\ pc = "run" /\ pc' = "run" /\ b \in blocks
            /\ tags' = [tags EXCEPT ![b].mark = TRUE]
        BY <2>2 DEF gc_mark
      <3>2. /\ blocks' = blocks
            /\ \A c \in blocks : tags'[c].mark <=> tags[c].mark \/ c = b
        BY <3>1 DEF IInv, TypeOK, Tag, blocks
      <3>3. marked' = marked \union {b}
        BY <3>1, <3>2 DEF marked, is_tag_marked
      <3> QED BY <3>1, <3>2, <3>3 DEF AsCollector!Mark
    <2>3. ASSUME pc' # "run", pc # "run", UNCHANGED <<chain0, marked0>>
          PROVE  UNCHANGED <<IF pc = "run" THEN blocks ELSE ToSet(chain0),
                             IF pc = "run" THEN marked ELSE marked0>>
      BY <2>3
    <2>4. CASE CollectBegin
      BY <2>4 DEF CollectBegin, IInv, ListOK
    <2>5. CASE CollectHead \/ HeadDone \/ SweepPrev \/ SweepNext
      BY <2>3, <2>5 DEF CollectHead, HeadDone, SweepPrev, SweepNext
    <2>6. CASE CollectEnd
      <3>1. pc = "sweep" /\ pc' = "run" /\ tags' = tags
        BY <2>6 DEF CollectEnd
      <3>2. blocks' = marked0 /\ marked' \subseteq blocks'
        BY <2>6, <3>1, Collected DEF blocks, marked, is_tag_marked
      <3>3. marked0 \subseteq ToSet(chain0)
        BY <3>1 DEF IInv, CollectOK
      <3> QED BY <3>1, <3>2, <3>3 DEF AsCollector!Next, AsCollector!Collect
    <2> QED BY <2>1, <2>2, <2>4, <2>5, <2>6
            DEF Next, CollectStep, AsCollector!Next
  <1> QED BY <1>1, <1>2, InitIInv, NextIInv, PTL
          DEF Spec, ImplementsCollector, AsCollector!Spec

(* A block comes out of a collection still marked exactly when the block   *)
(* behind it in the list was kept, or it is the last of the list.          *)
THEOREM MarksAreLeft == Spec => MarksLeft
  <1>1. IInv /\ [Next]_vars =>
          [CollectEnd =>
             marked' = {b \in marked0 :
               ~\E i \in 1..Len(chain0) - 1 :
                  chain0[i] = b /\ chain0[i + 1] \notin marked0}]_vars
    <2> SUFFICES ASSUME IInv, CollectEnd
                 PROVE  marked' = {b \in marked0 :
                          ~\E i \in 1..Len(chain0) - 1 :
                             chain0[i] = b /\ chain0[i + 1] \notin marked0}
      OBVIOUS
    <2>1. marked' = marked
      BY DEF CollectEnd, marked, blocks, is_tag_marked
    <2> QED BY <2>1, Collected DEF LostMark
  <1> QED BY <1>1, InitIInv, NextIInv, PTL DEF Spec, MarksLeft

=============================================================================
