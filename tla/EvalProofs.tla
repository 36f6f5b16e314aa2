----------------------------- MODULE EvalProofs -----------------------------
(***************************************************************************)
(* What is proved of Eval, for any number of functions of any length.      *)
(***************************************************************************)
EXTENDS Eval, SequenceTheorems, WellFoundedInduction, TLAPS

-----------------------------------------------------------------------------
(* The inductive invariant.                                                *)

Item == [type : {"lit", "builtin", "fn"}, ptr : Nat]

(* A list that only calls functions made before function n.                *)
CallsBelow(list, n) ==
  \A i \in 1..Len(list) :
    list[i].type = "fn" => list[i].ptr \in 1..MaxFns /\ list[i].ptr < n

(* List i of the nest was left for a call, so it has one function less to  *)
(* call than list i - 1.                                                   *)
IInv ==
  /\ fns \in [1..MaxFns -> Seq(Item)]
  /\ \A f \in 1..MaxFns : CallsBelow(fns[f], f)
  /\ ctrl \in Seq(Item)
  /\ nest \in Seq(Seq(Item))
  /\ Len(nest) < MaxFns
  /\ CallsBelow(ctrl, MaxFns - Len(nest))
  /\ \A i \in 1..Len(nest) : CallsBelow(nest[i], MaxFns - i + 1)

-----------------------------------------------------------------------------
(* Lists.                                                                  *)

LEMMA TailBelow ==
  ASSUME NEW list \in Seq(Item), list # <<>>, NEW n \in Int, CallsBelow(list, n)
  PROVE  /\ Tail(list) \in Seq(Item)
         /\ CallsBelow(Tail(list), n)
         /\ Head(list) \in Item
         /\ Head(list).type = "fn" =>
              Head(list).ptr \in 1..MaxFns /\ Head(list).ptr < n
  <1>1. Len(list) \in Nat /\ Len(list) # 0
    BY EmptySeq, LenProperties
  <1>2. /\ Head(list) \in Item
        /\ Head(list) = list[1]
        /\ 1 \in 1..Len(list)
        /\ Tail(list) \in Seq(Item)
        /\ \A i \in 1..Len(Tail(list)) : i + 1 \in 1..Len(list) /\ Tail(list)[i] = list[i + 1]
    BY <1>1, HeadTailProperties
  <1>3. ASSUME NEW i \in 1..Len(Tail(list)), Tail(list)[i].type = "fn"
        PROVE  Tail(list)[i].ptr \in 1..MaxFns /\ Tail(list)[i].ptr < n
    BY <1>2, <1>3 DEF CallsBelow
  <1> QED BY <1>2, <1>3 DEF CallsBelow

(* The bodies of the programs are lists of items, whose calls go back.     *)
LEMMA Body ==
  ASSUME NEW f \in 1..MaxFns, NEW body \in Bodies(f)
  PROVE  body \in Seq(Item) /\ CallsBelow(body, f)
  <1>0. MaxFns \in Nat /\ MaxBody \in Nat
    BY BoundsAssumption
  <1>1. PICK length \in 0..MaxBody : body \in [1..length -> Data(f)]
    BY DEF Bodies
  <1>2. ASSUME NEW x \in Data(f)
        PROVE  /\ x \in Item
               /\ x.type = "fn" => x.ptr \in 1..MaxFns /\ x.ptr < f
    <2>1. CASE x \in {lit, builtin}
      BY <2>1 DEF lit, builtin, Item
    <2>2. CASE x \in {fn(g) : g \in 1..f - 1}
      <3>1. PICK g \in 1..f - 1 : x = fn(g)
        BY <2>2
      <3>2. g \in 1..MaxFns /\ g < f /\ g \in Nat
        BY <1>0
      <3> QED BY <3>1, <3>2 DEF fn, Item
    <2> QED BY <1>2, <2>1, <2>2 DEF Data
  <1>3. length \in Nat
    BY <1>0
  <1>4. body \in [1..length -> Item]
    BY <1>1, <1>2
  <1>5. body \in Seq(Item) /\ Len(body) = length
    BY <1>3, <1>4
  <1>6. \A i \in 1..Len(body) : body[i] \in Data(f)
    BY <1>1, <1>5
  <1> QED BY <1>2, <1>5, <1>6 DEF CallsBelow

-----------------------------------------------------------------------------
(* The invariant.                                                          *)

LEMMA InitIInv == Init => IInv
  <1> SUFFICES ASSUME Init PROVE IInv
    OBVIOUS
  <1>0. MaxFns \in Nat \ {0}
    BY BoundsAssumption
  <1>1. /\ fns \in [1..MaxFns -> Bodies(MaxFns)]
        /\ \A f \in 1..MaxFns : fns[f] \in Bodies(f)
    BY DEF Init, Programs
  <1>2. \A f \in 1..MaxFns : fns[f] \in Seq(Item) /\ CallsBelow(fns[f], f)
    BY <1>1, Body
  <1>3. fns \in [1..MaxFns -> Seq(Item)]
    BY <1>1, <1>2
  <1>4. nest = <<>> /\ ctrl = fns[MaxFns] /\ MaxFns \in 1..MaxFns
    BY <1>0 DEF Init
  <1>5. nest \in Seq(Seq(Item)) /\ Len(nest) = 0
    BY <1>4, EmptySeq
  <1>6. MaxFns - Len(nest) = MaxFns
    BY <1>0, <1>5
  <1> QED BY <1>0, <1>2, <1>3, <1>4, <1>5, <1>6 DEF IInv

LEMMA NextIInv == IInv /\ [Next]_vars => IInv'
  <1> SUFFICES ASSUME IInv, [Next]_vars PROVE IInv'
    OBVIOUS
  <1> DEFINE n == Len(nest)
  <1>0. MaxFns \in Nat \ {0} /\ n \in Nat /\ n < MaxFns
    BY BoundsAssumption, LenProperties DEF IInv
  <1>1. CASE PushData \/ \E ok \in BOOLEAN : CallBuiltin(ok)
    <2>1. ctrl # <<>> /\ ctrl' = Tail(ctrl) /\ UNCHANGED <<fns, nest>>
      BY <1>1 DEF PushData, CallBuiltin, Take
    <2>2. ctrl' \in Seq(Item) /\ CallsBelow(ctrl', MaxFns - n)
      BY <1>0, <2>1, TailBelow DEF IInv
    <2> QED BY <2>1, <2>2 DEF IInv, CallsBelow
  <1>2. CASE CallFn
    <2> DEFINE g == Head(ctrl).ptr
               rest == Tail(ctrl)
    <2>1. /\ ctrl # <<>> /\ Head(ctrl).type = "fn"
          /\ ctrl' = fns[g] /\ nest' = Append(nest, rest) /\ fns' = fns
      BY <1>2 DEF CallFn, Take
    <2>2. /\ rest \in Seq(Item) /\ CallsBelow(rest, MaxFns - n)
          /\ g \in 1..MaxFns /\ g < MaxFns - n
      BY <1>0, <2>1, TailBelow DEF IInv
    <2> HIDE DEF g, rest
    <2>3. /\ nest' \in Seq(Seq(Item))
          /\ Len(nest') = n + 1
          /\ \A i \in 1..n : nest'[i] = nest[i]
          /\ nest'[n + 1] = rest
      BY <2>1, <2>2, AppendProperties DEF IInv
    <2>4. ctrl' \in Seq(Item) /\ CallsBelow(ctrl', g)
      BY <2>1, <2>2 DEF IInv
    <2>5. CallsBelow(ctrl', MaxFns - (n + 1))
      <3>1. g <= MaxFns - (n + 1) /\ g \in Nat
        BY <1>0, <2>2
      <3> QED BY <1>0, <2>4, <3>1 DEF CallsBelow
    <2>6. ASSUME NEW i \in 1..n + 1
          PROVE  CallsBelow(nest'[i], MaxFns - i + 1)
      <3>1. CASE i = n + 1
        <4>1. MaxFns - i + 1 = MaxFns - n
          BY <1>0, <3>1
        <4> QED BY <2>2, <2>3, <3>1, <4>1
      <3>2. CASE i # n + 1
        <4>1. i \in 1..n
          BY <1>0, <3>2
        <4> QED BY <2>3, <4>1 DEF IInv
      <3> QED BY <3>1, <3>2
    <2>7. n + 1 < MaxFns
      BY <1>0, <2>2
    <2>8. /\ fns' \in [1..MaxFns -> Seq(Item)]
          /\ \A f \in 1..MaxFns : CallsBelow(fns'[f], f)
      BY <2>1 DEF IInv
    <2>9. /\ CallsBelow(ctrl, MaxFns - Len(nest))'
          /\ (\A i \in 1..Len(nest) : CallsBelow(nest[i], MaxFns - i + 1))'
      BY <2>3, <2>5, <2>6 DEF CallsBelow
    <2> QED BY <2>3, <2>4, <2>7, <2>8, <2>9 DEF IInv, CallsBelow
  <1>3. CASE PopNest
    <2>1. /\ nest # <<>> /\ ctrl' = Last(nest) /\ nest' = Front(nest) /\ fns' = fns
      BY <1>3 DEF PopNest
    <2>2. n # 0
      BY <2>1, EmptySeq DEF IInv
    <2>3. /\ nest' \in Seq(Seq(Item))
          /\ Len(nest') = n - 1
          /\ \A i \in 1..n - 1 : nest'[i] = nest[i]
      <3>1. nest' = SubSeq(nest, 1, n - 1)
        BY <2>1 DEF Front
      <3>2. /\ nest \in Seq(Seq(Item))
            /\ 1 \in 1..n + 1 /\ n - 1 \in 0..n
            /\ n - 1 >= 1 - 1 /\ n - 1 - 1 + 1 = n - 1
            /\ \A i \in 1..n - 1 : 1 + i - 1 = i
        BY <1>0, <2>2 DEF IInv
      <3> QED BY <1>0, <3>1, <3>2, SubSeqProperties, SMTT(30)
    <2>4. ctrl' = nest[n] /\ n \in 1..n
      BY <1>0, <2>1, <2>2 DEF Last
    <2>5. ctrl' \in Seq(Item) /\ CallsBelow(ctrl', MaxFns - n + 1)
      BY <2>4, ElementOfSeq DEF IInv
    <2>6. MaxFns - n + 1 = MaxFns - (n - 1) /\ n - 1 < MaxFns
      BY <1>0
    <2>7. \A i \in 1..n - 1 : CallsBelow(nest'[i], MaxFns - i + 1)
      BY <1>0, <2>3 DEF IInv
    <2>8. /\ fns' \in [1..MaxFns -> Seq(Item)]
          /\ \A f \in 1..MaxFns : CallsBelow(fns'[f], f)
      BY <2>1 DEF IInv
    <2>9. CallsBelow(ctrl', MaxFns - Len(nest'))
      BY <2>3, <2>5, <2>6
    <2> QED BY <2>3, <2>5, <2>6, <2>7, <2>8, <2>9 DEF IInv, CallsBelow
  <1>4. CASE Return \/ Stopped \/ UNCHANGED vars
    <2>1. UNCHANGED <<fns, ctrl, nest>>
      BY <1>4 DEF Return, Stopped, vars
    <2> QED BY <2>1 DEF IInv, CallsBelow
  <1> QED BY <1>1, <1>2, <1>3, <1>4 DEF Next

-----------------------------------------------------------------------------

(* However many functions there are and however long, the nest of eval()   *)
(* holds fewer lists than there are functions: the stack of calls needs no *)
(* limit of its own.                                                       *)
THEOREM NestIsBounded == Spec => []NestBounded
  <1>1. IInv => NestBounded
    <2> SUFFICES ASSUME IInv PROVE NestBounded
      OBVIOUS
    <2>0. MaxFns \in Nat \ {0} /\ Len(nest) \in Nat /\ Len(nest) < MaxFns
      BY BoundsAssumption, LenProperties DEF IInv
    <2>1. ASSUME NEW list \in Seq(Item), NEW k \in Int, CallsBelow(list, k), NEW f \in Callees(list)
          PROVE  f \in 1..MaxFns /\ f < k
      <3>1. DOMAIN list = 1..Len(list)
        BY LenProperties
      <3> QED BY <2>1, <3>1 DEF Callees, CallsBelow
    <2>2. ASSUME NEW i \in DOMAIN nest, NEW f \in Callees(nest[i])
          PROVE  f <= MaxFns - i
      <3>1. i \in 1..Len(nest)
        BY LenProperties DEF IInv
      <3>2. nest[i] \in Seq(Item) /\ CallsBelow(nest[i], MaxFns - i + 1)
        BY <3>1, ElementOfSeq DEF IInv
      <3>3. i \in Int /\ MaxFns - i + 1 \in Int
        BY <2>0, <3>1
      <3>4. f \in 1..MaxFns /\ f < MaxFns - i + 1
        BY <2>1, <3>2, <3>3
      <3> QED BY <2>0, <3>3, <3>4
    <2>3. ASSUME NEW f \in Callees(ctrl)
          PROVE  f < MaxFns - Len(nest)
      <3>1. ctrl \in Seq(Item) /\ CallsBelow(ctrl, MaxFns - Len(nest))
        BY DEF IInv
      <3>2. MaxFns - Len(nest) \in Int
        BY <2>0
      <3> QED BY <2>1, <3>1, <3>2
    <2> QED BY <2>0, <2>2, <2>3 DEF NestBounded
  <1> QED BY <1>1, InitIInv, NextIInv, PTL DEF Spec

-----------------------------------------------------------------------------
(* Counting, and sequences of sequences.                                   *)

(* A set of natural numbers has a least element.                           *)
LEMMA LeastNumber ==
  ASSUME NEW T \in SUBSET Nat, NEW n \in T
  PROVE  \E least \in T : \A m \in T : least <= m
  <1>1. T # {} /\ T \subseteq Nat
    OBVIOUS
  <1>2. PICK least \in T : \A m \in T : ~(<<m, least>> \in OpToRel(<, Nat))
    BY <1>1, WFMin, NatLessThanWellFounded, Zenon
  <1>3. ASSUME NEW m \in T PROVE least <= m
    <2>1. m \in Nat /\ least \in Nat
      OBVIOUS
    <2>2. ~(m < least)
      BY <1>2, <2>1 DEF OpToRel
    <2> QED BY <2>1, <2>2
  <1> QED BY <1>3

(* Counting up to a number; T is the set of those for which it holds.      *)
LEMMA Counting ==
  ASSUME NEW T, 0 \in T, \A n \in Nat : n \in T => n + 1 \in T
  PROVE  \A n \in Nat : n \in T
  <1> DEFINE Bad == {n \in Nat : n \notin T}
  <1> SUFFICES ASSUME NEW n \in Bad PROVE FALSE
    OBVIOUS
  <1>1. Bad \in SUBSET Nat
    OBVIOUS
  <1>2. PICK least \in Bad : \A x \in Bad : least <= x
    BY <1>1, LeastNumber
  <1>3. least - 1 \in Nat /\ least - 1 \notin Bad
    BY <1>1, <1>2
  <1>4. (least - 1) + 1 \in T
    BY <1>3
  <1> QED BY <1>1, <1>2, <1>4

(* The first i of the sequences of ss one behind the other, if f has that  *)
(* for less than i.                                                        *)
Joined(f, ss, i) == IF i = 1 THEN ss[i] ELSE f[i-1] \o ss[i]

(* The function inside FlattenSeq.                                         *)
IsJoin(f, ss) == f = [i \in 1..Len(ss) |-> Joined(f, ss, i)]

Join(ss) == CHOOSE f : IsJoin(f, ss)

LEMMA FlattenIsJoin ==
  ASSUME NEW ss, Len(ss) # 0
  PROVE  FlattenSeq(ss) = Join(ss)[Len(ss)]
  BY DEF FlattenSeq, Join, IsJoin, Joined

LEMMA JoinExists ==
  ASSUME NEW S, NEW ss \in Seq(Seq(S))
  PROVE  /\ IsJoin(Join(ss), ss)
         /\ \A i \in 1..Len(ss) : Join(ss)[i] \in Seq(S)
  <1> DEFINE Partly(f, n) == /\ f \in [1..Len(ss) -> Seq(S)]
                             /\ \A i \in 1..Len(ss) : i <= n => f[i] = Joined(f, ss, i)
  <1>1. Len(ss) \in Nat /\ \A i \in 1..Len(ss) : ss[i] \in Seq(S)
    BY LenProperties, ElementOfSeq
  <1>2. ASSUME NEW f \in [1..Len(ss) -> Seq(S)], NEW i \in 1..Len(ss)
        PROVE  Joined(f, ss, i) \in Seq(S)
    <2>1. i # 1 => i - 1 \in 1..Len(ss)
      BY <1>1
    <2>2. i # 1 => f[i-1] \in Seq(S)
      BY <2>1
    <2>3. i # 1 => f[i-1] \o ss[i] \in Seq(S)
      BY <1>1, <2>2, ConcatProperties
    <2> QED BY <1>1, <2>3 DEF Joined
  <1>3. \E f : Partly(f, 0)
    <2> DEFINE f == [i \in 1..Len(ss) |-> <<>>]
    <2>1. f \in [1..Len(ss) -> Seq(S)]
      BY EmptySeq
    <2>2. \A i \in 1..Len(ss) : ~(i <= 0)
      BY <1>1
    <2> HIDE DEF f
    <2> QED BY <2>1, <2>2
  <1>4. ASSUME NEW n \in Nat, NEW f, Partly(f, n) PROVE \E g : Partly(g, n + 1)
    <2> DEFINE g == [i \in 1..Len(ss) |-> IF i = n + 1 THEN Joined(f, ss, i) ELSE f[i]]
    <2>1. f \in [1..Len(ss) -> Seq(S)]
      BY <1>4
    <2>2. \A i \in 1..Len(ss) : (IF i = n + 1 THEN Joined(f, ss, i) ELSE f[i]) \in Seq(S)
      BY <1>2, <2>1
    <2>3. g \in [1..Len(ss) -> Seq(S)]
      BY <2>2, Zenon
    <2>4. \A i \in 1..Len(ss) : g[i] = IF i = n + 1 THEN Joined(f, ss, i) ELSE f[i]
      OBVIOUS
    <2> HIDE DEF g
    <2>5. ASSUME NEW i \in 1..Len(ss), i <= n + 1 PROVE g[i] = Joined(g, ss, i)
      <3>1. i = 1 \/ (i - 1 \in 1..Len(ss) /\ i - 1 # n + 1)
        BY <1>1, <2>5
      <3>2. Joined(g, ss, i) = Joined(f, ss, i)
        BY <2>4, <3>1 DEF Joined
      <3>3. i = n + 1 \/ i <= n
        BY <1>1, <2>5
      <3>4. i <= n => f[i] = Joined(f, ss, i)
        BY <1>4
      <3> QED BY <2>4, <3>2, <3>3, <3>4
    <2> QED BY <2>3, <2>5
  <1> HIDE DEF Partly
  <1>5. \A n \in Nat : \E f : Partly(f, n)
    <2> DEFINE T == {n \in Nat : \E f : Partly(f, n)}
    <2>1. 0 \in T /\ \A n \in Nat : n \in T => n + 1 \in T
      BY <1>3, <1>4
    <2> HIDE DEF T
    <2>2. \A n \in Nat : n \in T
      BY <2>1, Counting
    <2> QED BY <2>2 DEF T
  <1>6. PICK f : Partly(f, Len(ss))
    BY <1>1, <1>5
  <1>7. IsJoin(f, ss)
    <2>1. /\ f \in [1..Len(ss) -> Seq(S)]
          /\ \A i \in 1..Len(ss) : f[i] = Joined(f, ss, i)
      BY <1>1, <1>6 DEF Partly
    <2> QED BY <2>1, Zenon DEF IsJoin
  <1>8. IsJoin(Join(ss), ss)
    BY <1>7, Zenon DEF Join
  <1> DEFINE T == {n \in Nat : \A i \in 1..Len(ss) : i <= n => Join(ss)[i] \in Seq(S)}
  <1>9. \A i \in 1..Len(ss) : Join(ss)[i] = Joined(Join(ss), ss, i)
    BY <1>8, Zenon DEF IsJoin
  <1>10. 0 \in T
    BY <1>1
  <1>11. ASSUME NEW n \in Nat, n \in T PROVE n + 1 \in T
    <2> SUFFICES ASSUME NEW i \in 1..Len(ss), i <= n + 1 PROVE Join(ss)[i] \in Seq(S)
      OBVIOUS
    <2>1. CASE i = 1
      BY <1>1, <1>9, <2>1 DEF Joined
    <2>2. CASE i # 1
      <3>1. i - 1 \in 1..Len(ss) /\ i - 1 <= n
        BY <1>1, <2>2
      <3>2. Join(ss)[i-1] \in Seq(S)
        BY <1>11, <3>1
      <3>3. Join(ss)[i-1] \o ss[i] \in Seq(S)
        BY <1>1, <3>2, ConcatProperties
      <3> QED BY <1>9, <2>2, <3>3 DEF Joined
    <2> QED BY <2>1, <2>2
  <1> HIDE DEF T
  <1>12. \A n \in Nat : n \in T
    BY <1>10, <1>11, Counting
  <1>13. Len(ss) \in T /\ \A i \in 1..Len(ss) : i <= Len(ss)
    BY <1>1, <1>12
  <1> QED BY <1>8, <1>13 DEF T

(* Sequences that begin alike are joined alike.                            *)
LEMMA JoinAlike ==
  ASSUME NEW S, NEW ss \in Seq(Seq(S)), NEW tt \in Seq(Seq(S)),
         NEW n \in 0..Len(ss), n <= Len(tt), \A i \in 1..n : ss[i] = tt[i]
  PROVE  \A i \in 1..n : Join(ss)[i] = Join(tt)[i]
  <1>1. Len(ss) \in Nat /\ Len(tt) \in Nat /\ n \in Nat /\ n <= Len(ss)
    BY LenProperties
  <1>2. /\ \A i \in 1..Len(ss) : Join(ss)[i] = Joined(Join(ss), ss, i)
        /\ \A i \in 1..Len(tt) : Join(tt)[i] = Joined(Join(tt), tt, i)
    BY JoinExists, Zenon DEF IsJoin
  <1> DEFINE T == {m \in Nat : \A i \in 1..n : i <= m => Join(ss)[i] = Join(tt)[i]}
  <1>3. 0 \in T
    BY <1>1
  <1>4. ASSUME NEW m \in Nat, m \in T PROVE m + 1 \in T
    <2> SUFFICES ASSUME NEW i \in 1..n, i <= m + 1 PROVE Join(ss)[i] = Join(tt)[i]
      OBVIOUS
    <2>1. i \in 1..Len(ss) /\ i \in 1..Len(tt)
      BY <1>1
    <2>2. CASE i = 1
      BY <1>2, <2>1, <2>2 DEF Joined
    <2>3. CASE i # 1
      <3>1. i - 1 \in 1..n /\ i - 1 <= m
        BY <1>1, <2>3
      <3>2. Join(ss)[i-1] = Join(tt)[i-1]
        BY <1>4, <3>1
      <3>3. Joined(Join(ss), ss, i) = Join(ss)[i-1] \o ss[i]
        BY <2>3 DEF Joined
      <3>4. Joined(Join(tt), tt, i) = Join(tt)[i-1] \o tt[i]
        BY <2>3 DEF Joined
      <3>5. ss[i] = tt[i]
        OBVIOUS
      <3> QED BY <1>2, <2>1, <3>2, <3>3, <3>4, <3>5
    <2> QED BY <2>2, <2>3
  <1> HIDE DEF T
  <1>5. \A m \in Nat : m \in T
    BY <1>3, <1>4, Counting
  <1>6. n \in T /\ \A i \in 1..n : i <= n
    BY <1>1, <1>5
  <1> QED BY <1>6 DEF T

LEMMA FlattenType ==
  ASSUME NEW S, NEW ss \in Seq(Seq(S))
  PROVE  FlattenSeq(ss) \in Seq(S) /\ FlattenSeq(<<>>) = <<>>
  <1>1. FlattenSeq(<<>>) = <<>>
    BY EmptySeq DEF FlattenSeq
  <1>2. Len(ss) \in Nat
    BY LenProperties
  <1>3. CASE Len(ss) = 0
    <2>1. ss = <<>>
      BY <1>3, EmptySeq
    <2> QED BY <1>1, <2>1, EmptySeq
  <1>4. CASE Len(ss) # 0
    <2>1. Len(ss) \in 1..Len(ss)
      BY <1>2, <1>4
    <2>2. FlattenSeq(ss) = Join(ss)[Len(ss)]
      BY <1>4, FlattenIsJoin
    <2>3. \A i \in 1..Len(ss) : Join(ss)[i] \in Seq(S)
      BY JoinExists
    <2> QED BY <1>1, <2>1, <2>2, <2>3
  <1> QED BY <1>1, <1>3, <1>4

LEMMA FlattenAppend ==
  ASSUME NEW S, NEW ss \in Seq(Seq(S)), NEW s \in Seq(S)
  PROVE  FlattenSeq(Append(ss, s)) = FlattenSeq(ss) \o s
  <1> SUFFICES ASSUME NEW tt, tt = Append(ss, s), NEW n, n = Len(ss)
               PROVE  FlattenSeq(tt) = FlattenSeq(ss) \o s
    OBVIOUS
  <1>1. /\ tt \in Seq(Seq(S)) /\ Len(tt) = n + 1 /\ n \in Nat
        /\ \A i \in 1..n : tt[i] = ss[i]
        /\ tt[n + 1] = s
    BY AppendProperties, LenProperties
  <1>2. n + 1 \in 1..n + 1 /\ n + 1 # 0
    BY <1>1
  <1>3. FlattenSeq(tt) = Join(tt)[n + 1]
    BY <1>1, <1>2, FlattenIsJoin
  <1>4. Join(tt)[n + 1] = Joined(Join(tt), tt, n + 1)
    BY <1>1, <1>2, JoinExists, Zenon DEF IsJoin
  <1>5. CASE n = 0
    <2>1. ss = <<>>
      BY <1>5, EmptySeq
    <2>2. FlattenSeq(tt) = s
      BY <1>1, <1>3, <1>4, <1>5 DEF Joined
    <2>3. FlattenSeq(ss) = <<>>
      BY <2>1, FlattenType
    <2> QED BY <2>2, <2>3, ConcatEmptySeq
  <1>6. CASE n # 0
    <2>1. n + 1 # 1 /\ n + 1 - 1 = n /\ n \in 1..n /\ n \in 0..Len(tt) /\ n <= Len(ss)
      BY <1>1, <1>6
    <2>2. FlattenSeq(tt) = Join(tt)[n] \o s
      BY <1>1, <1>3, <1>4, <2>1 DEF Joined
    <2>3. Join(tt)[n] = Join(ss)[n]
      BY <1>1, <2>1, JoinAlike, ZenonT(30)
    <2>4. FlattenSeq(ss) = Join(ss)[n]
      BY <1>6, FlattenIsJoin
    <2> QED BY <2>2, <2>3, <2>4
  <1> QED BY <1>5, <1>6

LEMMA AppendBehind ==
  ASSUME NEW S, NEW s \in Seq(S), NEW t \in Seq(S), NEW x \in S
  PROVE  s \o Append(t, x) = Append(s \o t, x)
  <1>1. <<x>> \in Seq(S) /\ s \o t \in Seq(S)
    BY ConcatProperties
  <1>2. Append(t, x) = t \o <<x>> /\ Append(s \o t, x) = (s \o t) \o <<x>>
    BY <1>1, AppendIsConcat
  <1> QED BY <1>1, <1>2, ConcatAssociative

LEMMA Associative ==
  ASSUME NEW X, NEW a \in Seq(X), NEW b \in Seq(X), NEW c \in Seq(X)
  PROVE  (a \o b) \o c = a \o (b \o c)
  BY ConcatAssociative

LEMMA FlattenConcat ==
  ASSUME NEW S, NEW ss \in Seq(Seq(S)), NEW tt \in Seq(Seq(S))
  PROVE  FlattenSeq(ss \o tt) = FlattenSeq(ss) \o FlattenSeq(tt)
  <1> DEFINE Z == Seq(Seq(S))
             Joins(t) == FlattenSeq(ss \o t) = FlattenSeq(ss) \o FlattenSeq(t)
             T == {n \in Nat : \A t \in Z : Len(t) = n => Joins(t)}
  <1>1. 0 \in T
    <2> SUFFICES ASSUME NEW t \in Z, Len(t) = 0 PROVE Joins(t)
      OBVIOUS
    <2>1. t = <<>>
      BY EmptySeq
    <2>2. ss \o t = ss
      BY <2>1, ConcatEmptySeq
    <2>3. FlattenSeq(ss) \in Seq(S) /\ FlattenSeq(t) = <<>>
      BY <2>1, FlattenType
    <2>4. FlattenSeq(ss) \o <<>> = FlattenSeq(ss)
      BY <2>3, ConcatEmptySeq
    <2> QED BY <2>2, <2>3, <2>4
  <1>2. ASSUME NEW n \in Nat, n \in T PROVE n + 1 \in T
    <2> SUFFICES ASSUME NEW t \in Z, Len(t) = n + 1 PROVE Joins(t)
      OBVIOUS
    <2>1. t # <<>>
      BY EmptySeq
    <2>2. PICK front \in Z, x \in Seq(S) : t = Append(front, x)
      BY <2>1, SequenceEmptyOrAppend
    <2>3. Len(front) = n
      BY <2>2, AppendProperties, LenProperties
    <2>4. FlattenSeq(ss \o front) = FlattenSeq(ss) \o FlattenSeq(front)
      BY <1>2, <2>3
    <2>5. ss \o t = Append(ss \o front, x) /\ ss \o front \in Z
      BY <2>2, AppendBehind, ConcatProperties
    <2>6. FlattenSeq(ss \o t) = FlattenSeq(ss \o front) \o x
      BY <2>5, FlattenAppend
    <2>7. FlattenSeq(t) = FlattenSeq(front) \o x
      BY <2>2, FlattenAppend
    <2>8. FlattenSeq(ss) \in Seq(S) /\ FlattenSeq(front) \in Seq(S)
      BY FlattenType
    <2>9. (FlattenSeq(ss) \o FlattenSeq(front)) \o x
            = FlattenSeq(ss) \o (FlattenSeq(front) \o x)
      <3>1. x \in Seq(S)
        BY <2>2
      <3> SUFFICES ASSUME NEW a, a = FlattenSeq(ss), NEW b, b = FlattenSeq(front)
                   PROVE  (a \o b) \o x = a \o (b \o x)
        OBVIOUS
      <3>2. a \in Seq(S) /\ b \in Seq(S)
        BY <2>8
      <3> HIDE DEF T, Joins, Z
      <3> QED BY <3>1, <3>2, Associative
    <2> QED BY <2>4, <2>6, <2>7, <2>9
  <1> HIDE DEF T
  <1>3. \A n \in Nat : n \in T
    BY <1>1, <1>2, Counting
  <1>4. Len(tt) \in Nat
    BY LenProperties
  <1> QED BY <1>3, <1>4 DEF T

LEMMA FlattenOne ==
  ASSUME NEW S, NEW s \in Seq(S)
  PROVE  FlattenSeq(<<s>>) = s
  <1>1. <<s>> = Append(<<>>, s) /\ <<>> \in Seq(Seq(S))
    BY EmptySeq
  <1>2. FlattenSeq(<<s>>) = FlattenSeq(<<>>) \o s
    BY <1>1, FlattenAppend
  <1> QED BY <1>1, <1>2, FlattenType, ConcatEmptySeq

-----------------------------------------------------------------------------
(* Programs expanded.                                                      *)

Atoms == {lit, builtin}

(* What can be in a list of a program of MaxFns functions.                 *)
Callable == Atoms \union {fn(g) : g \in 1..MaxFns}

Code == Seq(Callable)

(* Functions each of which only calls those before it.                     *)
Calling == {F \in [1..MaxFns -> Code] : \A f \in 1..MaxFns : CallsBelow(F[f], f)}

(* What an item stands for when body has the expanded bodies.              *)
Piece(x, body) == IF x.type = "fn" THEN body[x.ptr] ELSE <<x>>

Pieces(list, body) == [i \in DOMAIN list |-> Piece(list[i], body)]

(* The function inside Expand.                                             *)
IsBody(body, F) == body = [f \in 1..MaxFns |-> FlattenSeq(Pieces(F[f], body))]

BodyOf(F) == CHOOSE body : IsBody(body, F)

Expanded(F, list) == FlattenSeq(Pieces(list, BodyOf(F)))

LEMMA ExpandIs ==
  ASSUME NEW list
  PROVE  Expand(list) = Expanded(fns, list)
  BY Zenon DEF Expand, Expanded, BodyOf, IsBody, Pieces, Piece

LEMMA CallableFacts ==
  ASSUME NEW x \in Callable
  PROVE  /\ x.type = "fn" => x.ptr \in 1..MaxFns
         /\ x.type # "fn" => x \in Atoms
         /\ x.type = "builtin" => x = builtin
  <1>1. CASE x \in Atoms
    BY <1>1 DEF Atoms, lit, builtin
  <1>2. CASE \E g \in 1..MaxFns : x = fn(g)
    BY <1>2 DEF fn
  <1> QED BY <1>1, <1>2 DEF Callable

LEMMA PiecesType ==
  ASSUME NEW list \in Code, NEW body,
         \A i \in 1..Len(list) : list[i].type = "fn" => body[list[i].ptr] \in Seq(Atoms)
  PROVE  /\ Pieces(list, body) \in Seq(Seq(Atoms))
         /\ Len(Pieces(list, body)) = Len(list)
         /\ \A i \in 1..Len(list) : Pieces(list, body)[i] = Piece(list[i], body)
  <1>1. Len(list) \in Nat /\ DOMAIN list = 1..Len(list)
    BY LenProperties DEF Code
  <1>2. ASSUME NEW i \in 1..Len(list) PROVE Piece(list[i], body) \in Seq(Atoms)
    <2>1. list[i] \in Callable
      BY ElementOfSeq DEF Code
    <2>2. CASE list[i].type = "fn"
      BY <2>2 DEF Piece
    <2>3. CASE list[i].type # "fn"
      <3>1. list[i] \in Atoms
        BY <2>1, <2>3, CallableFacts
      <3> QED BY <2>3, <3>1 DEF Piece
    <2> QED BY <2>2, <2>3
  <1> SUFFICES ASSUME NEW n, n = Len(list), NEW p, p = Pieces(list, body)
               PROVE  /\ p \in Seq(Seq(Atoms)) /\ Len(p) = n
                      /\ \A i \in 1..n : p[i] = Piece(list[i], body)
    OBVIOUS
  <1>3. p = [i \in 1..n |-> Piece(list[i], body)]
    BY <1>1 DEF Pieces
  <1>4. \A i \in 1..n : p[i] = Piece(list[i], body)
    BY <1>3, Zenon
  <1>5. p \in [1..n -> Seq(Atoms)]
    BY <1>2, <1>3, Zenon
  <1>6. p \in Seq(Seq(Atoms)) /\ Len(p) = n
    BY <1>1, <1>5
  <1> QED BY <1>4, <1>6

(* Programs can be expanded, as functions only call those before them.     *)
LEMMA BodyExists ==
  ASSUME NEW F \in Calling
  PROVE  /\ BodyOf(F) \in [1..MaxFns -> Seq(Atoms)]
         /\ \A f \in 1..MaxFns : BodyOf(F)[f] = FlattenSeq(Pieces(F[f], BodyOf(F)))
  <1> DEFINE B == [1..MaxFns -> Seq(Atoms)]
             Partly(b, n) ==
               /\ b \in B
               /\ \A f \in 1..MaxFns : f <= n => b[f] = FlattenSeq(Pieces(F[f], b))
  <1>0. MaxFns \in Nat
    BY BoundsAssumption
  <1>1. \A f \in 1..MaxFns : F[f] \in Code /\ CallsBelow(F[f], f)
    BY DEF Calling
  <1>2. ASSUME NEW f \in 1..MaxFns, NEW b,
               \A g \in 1..MaxFns : g < f => b[g] \in Seq(Atoms)
        PROVE  FlattenSeq(Pieces(F[f], b)) \in Seq(Atoms)
    <2>1. \A i \in 1..Len(F[f]) : F[f][i].type = "fn" => b[F[f][i].ptr] \in Seq(Atoms)
      BY <1>1, <1>2 DEF CallsBelow
    <2>2. Pieces(F[f], b) \in Seq(Seq(Atoms))
      BY <1>1, <2>1, PiecesType
    <2> QED BY <2>2, FlattenType
  <1>3. ASSUME NEW f \in 1..MaxFns, NEW b, NEW c,
               \A g \in 1..MaxFns : g < f => b[g] = c[g]
        PROVE  Pieces(F[f], b) = Pieces(F[f], c)
    <2>1. DOMAIN F[f] = 1..Len(F[f])
      BY <1>1, LenProperties DEF Code
    <2>2. \A i \in DOMAIN F[f] : Piece(F[f][i], b) = Piece(F[f][i], c)
      BY <1>1, <1>3, <2>1 DEF CallsBelow, Piece
    <2> QED BY <2>2, Zenon DEF Pieces
  <1>4. \E b : Partly(b, 0)
    <2> DEFINE b == [f \in 1..MaxFns |-> <<>>]
    <2>1. b \in B
      BY EmptySeq
    <2>2. \A f \in 1..MaxFns : ~(f <= 0)
      BY <1>0
    <2> HIDE DEF b
    <2> QED BY <2>1, <2>2
  <1>5. ASSUME NEW n \in Nat, NEW b, Partly(b, n) PROVE \E c : Partly(c, n + 1)
    <2> DEFINE c == [f \in 1..MaxFns |-> IF f = n + 1 THEN FlattenSeq(Pieces(F[f], b)) ELSE b[f]]
    <2>1. b \in B
      BY <1>5
    <2>2. \A f \in 1..MaxFns : b[f] \in Seq(Atoms)
      BY <2>1
    <2>3. \A f \in 1..MaxFns :
            (IF f = n + 1 THEN FlattenSeq(Pieces(F[f], b)) ELSE b[f]) \in Seq(Atoms)
      BY <1>2, <2>2
    <2>4. c \in B
      BY <2>3, Zenon
    <2>5. \A f \in 1..MaxFns : c[f] = IF f = n + 1 THEN FlattenSeq(Pieces(F[f], b)) ELSE b[f]
      OBVIOUS
    <2> HIDE DEF c
    <2>6. ASSUME NEW f \in 1..MaxFns, f <= n + 1 PROVE c[f] = FlattenSeq(Pieces(F[f], c))
      <3>1. \A g \in 1..MaxFns : g < f => b[g] = c[g]
        <4>1. \A g \in 1..MaxFns : g < f => g # n + 1
          BY <1>0, <2>6
        <4> QED BY <2>5, <4>1
      <3>2. Pieces(F[f], b) = Pieces(F[f], c)
        BY <1>3, <3>1
      <3>3. f = n + 1 \/ f <= n
        BY <1>0, <2>6
      <3>4. f <= n => b[f] = FlattenSeq(Pieces(F[f], b))
        BY <1>5
      <3> QED BY <2>5, <3>2, <3>3, <3>4
    <2> QED BY <2>4, <2>6
  <1> HIDE DEF Partly
  <1>6. \A n \in Nat : \E b : Partly(b, n)
    <2> DEFINE T == {n \in Nat : \E b : Partly(b, n)}
    <2>1. 0 \in T /\ \A n \in Nat : n \in T => n + 1 \in T
      BY <1>4, <1>5
    <2> HIDE DEF T
    <2>2. \A n \in Nat : n \in T
      BY <2>1, Counting
    <2> QED BY <2>2 DEF T
  <1>7. PICK b : Partly(b, MaxFns)
    BY <1>0, <1>6
  <1>8. IsBody(b, F)
    <2>1. /\ b \in B
          /\ \A f \in 1..MaxFns : b[f] = FlattenSeq(Pieces(F[f], b))
      BY <1>0, <1>7 DEF Partly
    <2> QED BY <2>1, Zenon DEF IsBody
  <1>9. IsBody(BodyOf(F), F)
    BY <1>8, Zenon DEF BodyOf
  <1>10. /\ BodyOf(F) = [f \in 1..MaxFns |-> BodyOf(F)[f]]
         /\ \A f \in 1..MaxFns : BodyOf(F)[f] = FlattenSeq(Pieces(F[f], BodyOf(F)))
    BY <1>9, Zenon DEF IsBody
  <1> DEFINE T == {n \in Nat : \A f \in 1..MaxFns : f <= n => BodyOf(F)[f] \in Seq(Atoms)}
  <1>11. 0 \in T
    BY <1>0
  <1>12. ASSUME NEW n \in Nat, n \in T PROVE n + 1 \in T
    <2> SUFFICES ASSUME NEW f \in 1..MaxFns, f <= n + 1 PROVE BodyOf(F)[f] \in Seq(Atoms)
      OBVIOUS
    <2>1. \A g \in 1..MaxFns : g < f => g <= n
      BY <1>0
    <2>2. \A g \in 1..MaxFns : g < f => BodyOf(F)[g] \in Seq(Atoms)
      BY <1>12, <2>1
    <2>3. FlattenSeq(Pieces(F[f], BodyOf(F))) \in Seq(Atoms)
      BY <1>2, <2>2
    <2> QED BY <1>10, <2>3
  <1> HIDE DEF T
  <1>13. \A n \in Nat : n \in T
    BY <1>11, <1>12, Counting
  <1>14. MaxFns \in T /\ \A f \in 1..MaxFns : f <= MaxFns
    BY <1>0, <1>13
  <1>15. \A f \in 1..MaxFns : BodyOf(F)[f] \in Seq(Atoms)
    BY <1>14 DEF T
  <1>16. BodyOf(F) \in B
    BY <1>10, <1>15, Zenon
  <1> QED BY <1>10, <1>16

LEMMA ExpandedPieces ==
  ASSUME NEW F \in Calling, NEW list \in Code
  PROVE  /\ Pieces(list, BodyOf(F)) \in Seq(Seq(Atoms))
         /\ Len(Pieces(list, BodyOf(F))) = Len(list)
         /\ \A i \in 1..Len(list) : Pieces(list, BodyOf(F))[i] = Piece(list[i], BodyOf(F))
         /\ Expanded(F, list) \in Seq(Atoms)
  <1>1. ASSUME NEW i \in 1..Len(list), list[i].type = "fn"
        PROVE  BodyOf(F)[list[i].ptr] \in Seq(Atoms)
    <2>1. list[i] \in Callable
      BY ElementOfSeq DEF Code
    <2>2. list[i].ptr \in 1..MaxFns
      BY <1>1, <2>1, CallableFacts
    <2> QED BY <2>2, BodyExists
  <1>2. Pieces(list, BodyOf(F)) \in Seq(Seq(Atoms))
    BY <1>1, PiecesType
  <1>3. Expanded(F, list) \in Seq(Atoms)
    BY <1>2, FlattenType DEF Expanded
  <1> QED BY <1>1, <1>2, <1>3, PiecesType

LEMMA ExpandedConcat ==
  ASSUME NEW F \in Calling, NEW list \in Code, NEW more \in Code
  PROVE  Expanded(F, list \o more) = Expanded(F, list) \o Expanded(F, more)
  <1> DEFINE b == BodyOf(F)
             both == list \o more
             p == Pieces(list, b)
             q == Pieces(more, b)
             r == Pieces(both, b)
  <1>1. /\ both \in Code /\ Len(both) = Len(list) + Len(more)
        /\ \A i \in 1..Len(list) + Len(more) :
             both[i] = IF i <= Len(list) THEN list[i] ELSE more[i - Len(list)]
    BY ConcatProperties DEF Code
  <1>2. Len(list) \in Nat /\ Len(more) \in Nat
    BY LenProperties DEF Code
  <1> HIDE DEF both
  <1>3. /\ p \in Seq(Seq(Atoms)) /\ Len(p) = Len(list)
        /\ \A i \in 1..Len(list) : p[i] = Piece(list[i], b)
    BY ExpandedPieces
  <1>4. /\ q \in Seq(Seq(Atoms)) /\ Len(q) = Len(more)
        /\ \A i \in 1..Len(more) : q[i] = Piece(more[i], b)
    BY ExpandedPieces
  <1>5. /\ r \in Seq(Seq(Atoms)) /\ Len(r) = Len(both)
        /\ \A i \in 1..Len(both) : r[i] = Piece(both[i], b)
    BY <1>1, ExpandedPieces
  <1> HIDE DEF b, p, q, r
  <1>6. /\ p \o q \in Seq(Seq(Atoms)) /\ Len(p \o q) = Len(list) + Len(more)
        /\ \A i \in 1..Len(list) + Len(more) :
             (p \o q)[i] = IF i <= Len(list) THEN p[i] ELSE q[i - Len(list)]
    <2>1. /\ p \o q \in Seq(Seq(Atoms)) /\ Len(p \o q) = Len(p) + Len(q)
          /\ \A i \in 1..Len(p) + Len(q) :
               (p \o q)[i] = IF i <= Len(p) THEN p[i] ELSE q[i - Len(p)]
      <3>1. p \in Seq(Seq(Atoms)) /\ q \in Seq(Seq(Atoms))
        BY <1>3, <1>4
      <3> QED BY ONLY <3>1, ConcatProperties
    <2> QED BY <1>3, <1>4, <2>1
  <1>7. ASSUME NEW i \in 1..Len(list) + Len(more) PROVE (p \o q)[i] = r[i]
    <2>1. CASE i <= Len(list)
      <3>1. i \in 1..Len(list)
        BY <1>2, <2>1
      <3>2. r[i] = Piece(list[i], b)
        BY <1>1, <1>5, <2>1
      <3>3. (p \o q)[i] = p[i]
        BY <1>6, <2>1
      <3> QED BY <1>3, <3>1, <3>2, <3>3
    <2>2. CASE ~(i <= Len(list))
      <3>1. i - Len(list) \in 1..Len(more)
        BY <1>2, <2>2
      <3>2. r[i] = Piece(more[i - Len(list)], b)
        BY <1>1, <1>5, <2>2
      <3>3. (p \o q)[i] = q[i - Len(list)]
        BY <1>6, <2>2
      <3> QED BY <1>4, <3>1, <3>2, <3>3
    <2> QED BY <2>1, <2>2
  <1>8. p \o q = r
    BY <1>1, <1>5, <1>6, <1>7, SeqEqual
  <1>9. FlattenSeq(r) = FlattenSeq(p) \o FlattenSeq(q)
    BY <1>3, <1>4, <1>8, FlattenConcat
  <1> QED BY <1>9 DEF Expanded, p, q, r, b, both

LEMMA ExpandedOne ==
  ASSUME NEW F \in Calling, NEW x \in Callable
  PROVE  /\ Expanded(F, <<x>>) = Piece(x, BodyOf(F))
         /\ x.type = "fn" => Expanded(F, <<x>>) = Expanded(F, F[x.ptr])
         /\ x.type # "fn" => Expanded(F, <<x>>) = <<x>>
  <1>1. <<x>> \in Code /\ Len(<<x>>) = 1 /\ <<x>>[1] = x
    BY DEF Code
  <1> DEFINE p == Pieces(<<x>>, BodyOf(F))
  <1>2. p \in Seq(Seq(Atoms)) /\ Len(p) = 1 /\ p[1] = Piece(x, BodyOf(F))
    BY <1>1, ExpandedPieces
  <1>3. Expanded(F, <<x>>) = FlattenSeq(p)
    BY DEF Expanded
  <1> HIDE DEF p
  <1>4. p = <<p[1]>> /\ p[1] \in Seq(Atoms)
    BY <1>2
  <1>5. FlattenSeq(p) = p[1]
    BY <1>4, FlattenOne
  <1>6. Expanded(F, <<x>>) = Piece(x, BodyOf(F))
    BY <1>2, <1>3, <1>5
  <1>7. ASSUME x.type = "fn" PROVE Expanded(F, <<x>>) = Expanded(F, F[x.ptr])
    <2>1. x.ptr \in 1..MaxFns
      BY <1>7, CallableFacts
    <2>2. BodyOf(F)[x.ptr] = Expanded(F, F[x.ptr])
      BY <2>1, BodyExists DEF Expanded
    <2> QED BY <1>6, <1>7, <2>2 DEF Piece
  <1> QED BY <1>6, <1>7 DEF Piece

(* The first item of what is left, and the rest.                           *)
LEMMA ExpandedFirst ==
  ASSUME NEW F \in Calling, NEW list \in Code, list # <<>>, NEW rest \in Code
  PROVE  /\ Head(list) \in Callable
         /\ Tail(list) \in Code
         /\ Expanded(F, list \o rest)
              = Expanded(F, <<Head(list)>>) \o Expanded(F, Tail(list) \o rest)
  <1>1. Head(list) \in Callable /\ Tail(list) \in Code
    BY HeadTailProperties DEF Code
  <1>2. list = <<Head(list)>> \o Tail(list)
    <2> SUFFICES ASSUME NEW one, one = <<Head(list)>>, NEW t, t = Tail(list)
                 PROVE  list = one \o t
      OBVIOUS
    <2>1. /\ t \in Code /\ Len(t) = Len(list) - 1 /\ Len(list) \in Nat \ {0}
          /\ \A i \in 1..Len(t) : t[i] = list[i + 1]
      BY HeadTailProperties, LenProperties, EmptySeq DEF Code
    <2>2. one \in Code /\ Len(one) = 1 /\ one[1] = list[1]
      BY <1>1 DEF Code
    <2>3. /\ one \o t \in Code /\ Len(one \o t) = 1 + Len(t)
          /\ \A i \in 1..1 + Len(t) : (one \o t)[i] = IF i <= 1 THEN one[i] ELSE t[i - 1]
      BY <2>1, <2>2, ConcatProperties DEF Code
    <2>4. ASSUME NEW i \in 1..Len(list) PROVE list[i] = (one \o t)[i]
      <3>1. CASE i = 1
        BY <2>1, <2>2, <2>3, <3>1
      <3>2. CASE i # 1
        <4>1. i - 1 \in 1..Len(t) /\ ~(i <= 1) /\ i \in 1..1 + Len(t) /\ i - 1 + 1 = i
          BY <2>1, <3>2
        <4> QED BY <2>1, <2>3, <4>1
      <3> QED BY <3>1, <3>2
    <2>5. Len(one \o t) = Len(list)
      BY <2>1, <2>3
    <2> QED BY <2>3, <2>4, <2>5, SeqEqual DEF Code
  <1>3. <<Head(list)>> \in Code /\ Tail(list) \o rest \in Code
    BY <1>1, ConcatProperties DEF Code
  <1>4. (<<Head(list)>> \o Tail(list)) \o rest = <<Head(list)>> \o (Tail(list) \o rest)
    BY <1>1, <1>3, ConcatAssociative DEF Code
  <1>5. Expanded(F, <<Head(list)>> \o (Tail(list) \o rest))
          = Expanded(F, <<Head(list)>>) \o Expanded(F, Tail(list) \o rest)
    BY <1>3, ExpandedConcat
  <1>6. list \o rest = <<Head(list)>> \o (Tail(list) \o rest)
    BY <1>2, <1>4
  <1> QED BY <1>1, <1>5, <1>6

-----------------------------------------------------------------------------
(* What is left to do.                                                     *)

(* The lists of the nest, the last one first.                              *)
Pending(N) == FlattenSeq(Reverse(N))

LEMMA ReverseType ==
  ASSUME NEW S, NEW s \in Seq(S)
  PROVE  /\ Reverse(s) \in Seq(S) /\ Len(Reverse(s)) = Len(s)
         /\ \A i \in 1..Len(s) : Reverse(s)[i] = s[Len(s) - i + 1]
  <1>1. Len(s) \in Nat /\ \A i \in 1..Len(s) : s[i] \in S
    BY LenProperties, ElementOfSeq
  <1> SUFFICES ASSUME NEW r, r = Reverse(s), NEW n, n = Len(s)
               PROVE  r \in Seq(S) /\ Len(r) = n /\ \A i \in 1..n : r[i] = s[n - i + 1]
    OBVIOUS
  <1>2. r = [i \in 1..n |-> s[(n - i) + 1]]
    BY DEF Reverse
  <1>3. \A i \in 1..n : (n - i) + 1 \in 1..n
    BY <1>1
  <1>4. \A i \in 1..n : s[(n - i) + 1] \in S
    BY <1>1, <1>3
  <1>5. r \in [1..n -> S] /\ \A i \in 1..n : r[i] = s[(n - i) + 1]
    BY <1>2, <1>4, Zenon
  <1> QED BY <1>1, <1>5

(* A call goes in front of what was pending.                               *)
LEMMA PendingAppend ==
  ASSUME NEW N \in Seq(Code), NEW list \in Code
  PROVE  /\ Pending(N) \in Code
         /\ Pending(Append(N, list)) = list \o Pending(N)
  <1> SUFFICES ASSUME NEW M, M = Append(N, list), NEW n, n = Len(N),
                      NEW one, one = <<list>>
               PROVE  Pending(N) \in Code /\ Pending(M) = list \o Pending(N)
    OBVIOUS
  <1>1. /\ M \in Seq(Code) /\ Len(M) = n + 1 /\ n \in Nat
        /\ \A i \in 1..n : M[i] = N[i]
        /\ M[n + 1] = list
    BY AppendProperties, LenProperties
  <1>2. /\ Reverse(N) \in Seq(Code) /\ Len(Reverse(N)) = n
        /\ \A i \in 1..n : Reverse(N)[i] = N[n - i + 1]
    BY ReverseType
  <1>3. /\ Reverse(M) \in Seq(Code) /\ Len(Reverse(M)) = n + 1
        /\ \A i \in 1..n + 1 : Reverse(M)[i] = M[n + 1 - i + 1]
    <2>1. /\ Reverse(M) \in Seq(Code) /\ Len(Reverse(M)) = Len(M)
          /\ \A i \in 1..Len(M) : Reverse(M)[i] = M[Len(M) - i + 1]
      BY <1>1, ReverseType
    <2> QED BY <1>1, <2>1
  <1>4. one \in Seq(Code) /\ Len(one) = 1 /\ one[1] = list
    OBVIOUS
  <1>5. /\ one \o Reverse(N) \in Seq(Code) /\ Len(one \o Reverse(N)) = 1 + n
        /\ \A i \in 1..1 + n : (one \o Reverse(N))[i]
                                 = IF i <= 1 THEN one[i] ELSE Reverse(N)[i - 1]
    BY <1>2, <1>4, ConcatProperties
  <1>6. ASSUME NEW i \in 1..n + 1 PROVE Reverse(M)[i] = (one \o Reverse(N))[i]
    <2>1. CASE i = 1
      <3>1. n + 1 - i + 1 = n + 1 /\ i <= 1 /\ i \in 1..1 + n
        BY <1>1, <2>1
      <3> QED BY <1>1, <1>3, <1>4, <1>5, <2>1, <3>1
    <2>2. CASE i # 1
      <3>1. /\ i - 1 \in 1..n /\ ~(i <= 1) /\ i \in 1..1 + n
            /\ n + 1 - i + 1 = n - (i - 1) + 1 /\ n - (i - 1) + 1 \in 1..n
        BY <1>1, <2>2
      <3>2. Reverse(N)[i - 1] = N[n - (i - 1) + 1]
        BY <1>2, <3>1
      <3>3. Reverse(M)[i] = M[n - (i - 1) + 1]
        BY <1>3, <3>1
      <3>4. M[n - (i - 1) + 1] = N[n - (i - 1) + 1]
        BY <1>1, <3>1
      <3>5. (one \o Reverse(N))[i] = Reverse(N)[i - 1]
        BY <1>5, <3>1
      <3> QED BY <3>2, <3>3, <3>4, <3>5
    <2> QED BY <2>1, <2>2
  <1>7. 1 + n = n + 1
    BY <1>1
  <1>8. Reverse(M) = one \o Reverse(N)
    BY <1>3, <1>5, <1>6, <1>7, SeqEqual
  <1>9. FlattenSeq(one \o Reverse(N)) = FlattenSeq(one) \o FlattenSeq(Reverse(N))
    BY <1>2, <1>4, FlattenConcat DEF Code
  <1>10. FlattenSeq(one) = list
    BY FlattenOne DEF Code
  <1>11. Pending(N) \in Code
    BY <1>2, FlattenType DEF Pending, Code
  <1> QED BY <1>8, <1>9, <1>10, <1>11 DEF Pending

LEMMA PendingType ==
  ASSUME NEW N \in Seq(Code)
  PROVE  Pending(N) \in Code
  <1>1. Reverse(N) \in Seq(Seq(Callable))
    BY ReverseType DEF Code
  <1> QED BY <1>1, FlattenType DEF Pending, Code

LEMMA FlattenNone == FlattenSeq(<<>>) = <<>>
  BY EmptySeq DEF FlattenSeq

LEMMA FrontAndLast ==
  ASSUME NEW S, NEW s \in Seq(S), s # <<>>
  PROVE  /\ Front(s) \in Seq(S)
         /\ Last(s) \in S
         /\ s = Append(Front(s), Last(s))
  <1>1. PICK front \in Seq(S), x \in S : s = Append(front, x)
    BY SequenceEmptyOrAppend
  <1>2. /\ Len(front) \in Nat /\ Len(s) = Len(front) + 1
        /\ s[Len(front) + 1] = x
        /\ \A i \in 1..Len(front) : s[i] = front[i]
    BY <1>1, AppendProperties, LenProperties
  <1>3. Last(s) = x
    BY <1>2 DEF Last
  <1>4. Front(s) = front
    <2>1. Front(s) = SubSeq(s, 1, Len(s) - 1)
      BY DEF Front
    <2>2. 1 \in 1..Len(s) + 1 /\ Len(s) - 1 \in 0..Len(s) /\ Len(s) - 1 = Len(front)
      BY <1>2
    <2>3. Len(s) - 1 >= 1 - 1 /\ Len(s) - 1 - 1 + 1 = Len(front)
          /\ \A i \in 1..Len(front) : 1 + i - 1 = i
      BY <1>2
    <2>4. /\ Front(s) \in Seq(S) /\ Len(Front(s)) = Len(front)
          /\ \A i \in 1..Len(front) : Front(s)[i] = s[i]
      BY <1>2, <2>1, <2>2, <2>3, SubSeqProperties, SMTT(30)
    <2> QED BY <1>1, <1>2, <2>4, SeqEqual
  <1> QED BY <1>1, <1>3, <1>4

LEMMA OneInFront ==
  ASSUME NEW S, NEW s \in Seq(S), NEW x \in S
  PROVE  /\ <<x>> \o s # <<>>
         /\ Head(<<x>> \o s) = x
         /\ Tail(<<x>> \o s) = s
  <1> SUFFICES ASSUME NEW one, one = <<x>>, NEW t, t = one \o s
               PROVE  t # <<>> /\ Head(t) = x /\ Tail(t) = s
    OBVIOUS
  <1>1. one \in Seq(S) /\ Len(one) = 1 /\ one[1] = x
    OBVIOUS
  <1>2. /\ t \in Seq(S) /\ Len(t) = 1 + Len(s) /\ Len(s) \in Nat
        /\ \A i \in 1..1 + Len(s) : t[i] = IF i <= 1 THEN one[i] ELSE s[i - 1]
    BY <1>1, ConcatProperties, LenProperties
  <1>3. t # <<>> /\ Head(t) = t[1] /\ t[1] = x
    BY <1>1, <1>2, EmptySeq
  <1>4. /\ Tail(t) \in Seq(S) /\ Len(Tail(t)) = Len(s)
        /\ \A i \in 1..Len(s) : Tail(t)[i] = t[i + 1]
    BY <1>2, <1>3, HeadTailProperties
  <1>5. ASSUME NEW i \in 1..Len(s) PROVE Tail(t)[i] = s[i]
    <2>1. i + 1 \in 1..1 + Len(s) /\ ~(i + 1 <= 1) /\ i + 1 - 1 = i
      BY <1>2
    <2> QED BY <1>2, <1>4, <2>1
  <1>6. Tail(t) = s
    BY <1>4, <1>5, SeqEqual
  <1> QED BY <1>3, <1>6

CodeOK ==
  /\ fns \in Calling
  /\ ctrl \in Code
  /\ nest \in Seq(Code)

LEMMA InitCode == Init => CodeOK
  <1> SUFFICES ASSUME Init PROVE CodeOK
    OBVIOUS
  <1>0. MaxFns \in Nat \ {0} /\ MaxBody \in Nat
    BY BoundsAssumption
  <1>1. /\ fns \in [1..MaxFns -> Bodies(MaxFns)]
        /\ \A f \in 1..MaxFns : fns[f] \in Bodies(f)
        /\ ctrl = fns[MaxFns] /\ nest = <<>>
    BY DEF Init, Programs
  <1>2. ASSUME NEW f \in 1..MaxFns PROVE fns[f] \in Code
    <2>1. PICK length \in 0..MaxBody : fns[f] \in [1..length -> Data(f)]
      BY <1>1 DEF Bodies
    <2>2. \A g \in 1..f - 1 : g \in 1..MaxFns
      BY <1>0
    <2>3. Data(f) \subseteq Callable
      BY <2>2 DEF Data, Callable, Atoms
    <2>4. fns[f] \in [1..length -> Callable] /\ length \in Nat
      BY <1>0, <2>1, <2>3
    <2> QED BY <2>4 DEF Code
  <1>3. \A f \in 1..MaxFns : CallsBelow(fns[f], f)
    BY InitIInv DEF IInv
  <1>4. fns \in Calling
    <2>1. fns \in [1..MaxFns -> Code]
      BY <1>1, <1>2
    <2> QED BY <1>3, <2>1 DEF Calling
  <1>5. ctrl \in Code
    BY <1>0, <1>1, <1>2
  <1> QED BY <1>1, <1>4, <1>5, EmptySeq DEF CodeOK

LEMMA NextCode == CodeOK /\ [Next]_vars => CodeOK'
  <1> SUFFICES ASSUME CodeOK, [Next]_vars PROVE CodeOK'
    OBVIOUS
  <1>1. CASE PushData \/ \E ok \in BOOLEAN : CallBuiltin(ok)
    <2>1. ctrl # <<>> /\ ctrl' = Tail(ctrl) /\ UNCHANGED <<fns, nest>>
      BY <1>1 DEF PushData, CallBuiltin, Take
    <2>2. Tail(ctrl) \in Code
      BY <2>1, HeadTailProperties DEF CodeOK, Code
    <2> QED BY <2>1, <2>2 DEF CodeOK
  <1>2. CASE CallFn
    <2>1. /\ ctrl # <<>> /\ Head(ctrl).type = "fn"
          /\ ctrl' = fns[Head(ctrl).ptr] /\ nest' = Append(nest, Tail(ctrl)) /\ fns' = fns
      BY <1>2 DEF CallFn, Take
    <2>2. Tail(ctrl) \in Code /\ Head(ctrl) \in Callable
      BY <2>1, HeadTailProperties DEF CodeOK, Code
    <2>3. fns[Head(ctrl).ptr] \in Code
      BY <2>1, <2>2, CallableFacts DEF CodeOK, Calling
    <2>4. Append(nest, Tail(ctrl)) \in Seq(Code)
      BY <2>2, AppendProperties DEF CodeOK
    <2> QED BY <2>1, <2>3, <2>4 DEF CodeOK
  <1>3. CASE PopNest
    <2>1. /\ nest # <<>> /\ ctrl' = Last(nest) /\ nest' = Front(nest) /\ fns' = fns
      BY <1>3 DEF PopNest
    <2>2. Front(nest) \in Seq(Code) /\ Last(nest) \in Code
      BY <2>1, FrontAndLast DEF CodeOK
    <2> QED BY <2>1, <2>2 DEF CodeOK
  <1>4. CASE Return \/ Stopped \/ UNCHANGED vars
    BY <1>4 DEF Return, Stopped, vars, CodeOK
  <1> QED BY <1>1, <1>2, <1>3, <1>4 DEF Next

(* What is left to do, of the program expanded.                            *)
Todo == Expanded(fns, ctrl \o Pending(nest))

LEMMA TodoIs == Expand(ctrl \o FlattenSeq(Reverse(nest))) = Todo
  BY ExpandIs DEF Todo, Pending

LEMMA TodoNext == (Expand(ctrl \o FlattenSeq(Reverse(nest))) = Todo)'
  BY TodoIs, PTL

(* The first thing left to do, if it is not a call, and what is left then. *)
LEMMA TodoAtom ==
  ASSUME CodeOK, ctrl # <<>>, Head(ctrl).type # "fn"
  PROVE  /\ Todo # <<>>
         /\ Head(Todo) = Head(ctrl)
         /\ Tail(Todo) = Expanded(fns, Tail(ctrl) \o Pending(nest))
         /\ Head(ctrl).type = "builtin" => Head(ctrl) = builtin
  <1> DEFINE x == Head(ctrl)
             rest == Expanded(fns, Tail(ctrl) \o Pending(nest))
  <1>1. fns \in Calling /\ ctrl \in Code /\ nest \in Seq(Code)
    BY DEF CodeOK
  <1>2. Pending(nest) \in Code
    BY <1>1, PendingType
  <1>3. /\ x \in Callable /\ Tail(ctrl) \in Code
        /\ Todo = Expanded(fns, <<x>>) \o rest
    BY <1>1, <1>2, ExpandedFirst DEF Todo
  <1>4. Expanded(fns, <<x>>) = <<x>> /\ x \in Atoms /\ (x.type = "builtin" => x = builtin)
    BY <1>1, <1>3, ExpandedOne, CallableFacts
  <1>5. rest \in Seq(Atoms)
    <2>1. Tail(ctrl) \o Pending(nest) \in Code
      BY <1>2, <1>3, ConcatProperties DEF Code
    <2> QED BY <1>1, <2>1, ExpandedPieces
  <1>6. Todo = <<x>> \o rest
    BY <1>3, <1>4
  <1> HIDE DEF x, rest
  <1>7. <<x>> \o rest # <<>> /\ Head(<<x>> \o rest) = x /\ Tail(<<x>> \o rest) = rest
    BY <1>4, <1>5, OneInFront
  <1> QED BY <1>4, <1>6, <1>7 DEF x, rest

(* Evaluating a program of any number and length of functions means doing  *)
(* its data and builtins from left to right with every call replaced by    *)
(* the body of the function, all the way down: calls, returns and the nest *)
(* are steps that nobody sees.                                             *)
THEOREM EvaluatesExpanded == Spec => ImplementsReduce
  <1>1. Init => AsReduce!Init
    <2> SUFFICES ASSUME Init PROVE AsReduce!Init
      OBVIOUS
    <2>1. fns \in Calling /\ ctrl \in Code /\ nest \in Seq(Code)
      BY InitCode DEF CodeOK
    <2>2. Pending(nest) \in Code
      BY <2>1, PendingType
    <2>3. ctrl \o Pending(nest) \in Code
      BY <2>1, <2>2, ConcatProperties DEF Code
    <2>4. Todo \in Seq(Atoms)
      BY <2>1, <2>3, ExpandedPieces DEF Todo
    <2> QED BY <2>4, TodoIs DEF AsReduce!Init, Init, Atoms
  <1>2. CodeOK /\ [Next]_vars
          => [AsReduce!Next]_<<Expand(ctrl \o FlattenSeq(Reverse(nest))), stack, pc>>
    <2> SUFFICES ASSUME CodeOK, [Next]_vars
                 PROVE  \/ AsReduce!Next
                        \/ Todo' = Todo /\ stack' = stack /\ pc' = pc
      BY TodoIs, TodoNext
    <2>0. fns \in Calling /\ ctrl \in Code /\ nest \in Seq(Code) /\ Pending(nest) \in Code
      BY PendingType DEF CodeOK
    <2>1. ASSUME pc = "run", ctrl # <<>>, Head(ctrl).type # "fn",
                 ctrl' = Tail(ctrl), UNCHANGED <<fns, nest>>
          PROVE  /\ Todo # <<>> /\ Head(Todo) = Head(ctrl) /\ Todo' = Tail(Todo)
                 /\ Head(ctrl).type = "builtin" => Head(ctrl) = builtin
      <3>1. Todo' = Expanded(fns, Tail(ctrl) \o Pending(nest))
        BY <2>1 DEF Todo, Pending
      <3> QED BY <2>1, <3>1, TodoAtom
    <2>2. CASE PushData
      <3>1. /\ pc = "run" /\ ctrl # <<>> /\ Head(ctrl).type # "fn"
            /\ ctrl' = Tail(ctrl) /\ UNCHANGED <<fns, nest>>
            /\ stack' = Append(stack, Head(ctrl)) /\ pc' = pc
        BY <2>2 DEF PushData
      <3>2. Todo # <<>> /\ Head(Todo) = Head(ctrl) /\ Todo' = Tail(Todo)
        BY <2>1, <3>1
      <3>3. AsReduce!Do
        BY <3>1, <3>2, TodoIs, TodoNext DEF AsReduce!Do
      <3> QED BY <3>3 DEF AsReduce!Next
    <2>3. CASE \E ok \in BOOLEAN : CallBuiltin(ok)
      <3>1. PICK ok \in BOOLEAN : CallBuiltin(ok)
        BY <2>3
      <3>2. /\ pc = "run" /\ ctrl # <<>> /\ Head(ctrl).type = "builtin"
            /\ ctrl' = Tail(ctrl) /\ UNCHANGED <<fns, nest>>
        BY <3>1 DEF CallBuiltin, Take
      <3>3. Todo # <<>> /\ Head(Todo) = Head(ctrl) /\ Todo' = Tail(Todo) /\ Head(ctrl) = builtin
        BY <2>1, <3>2
      <3>4. CASE ok
        <4>1. stack' = Append(stack, Head(ctrl)) /\ pc' = pc
          BY <3>1, <3>4 DEF CallBuiltin
        <4>2. AsReduce!Do
          BY <3>2, <3>3, <4>1, TodoIs, TodoNext DEF AsReduce!Do
        <4> QED BY <4>2 DEF AsReduce!Next
      <3>5. CASE ~ok
        <4>1. pc' = "false" /\ stack' = stack
          BY <3>1, <3>5 DEF CallBuiltin
        <4>2. AsReduce!Fail
          BY <3>2, <3>3, <4>1, TodoIs, TodoNext DEF AsReduce!Fail
        <4> QED BY <4>2 DEF AsReduce!Next
      <3> QED BY <3>4, <3>5
    <2>4. CASE CallFn
      <3> DEFINE g == Head(ctrl).ptr
                 rest == Tail(ctrl) \o Pending(nest)
      <3>1. /\ ctrl # <<>> /\ Head(ctrl).type = "fn"
            /\ ctrl' = fns[g] /\ nest' = Append(nest, Tail(ctrl))
            /\ fns' = fns /\ stack' = stack /\ pc' = pc
        BY <2>4 DEF CallFn, Take
      <3>2. /\ Head(ctrl) \in Callable /\ Tail(ctrl) \in Code
            /\ Todo = Expanded(fns, <<Head(ctrl)>>) \o Expanded(fns, rest)
        BY <2>0, <3>1, ExpandedFirst DEF Todo
      <3>3. Expanded(fns, <<Head(ctrl)>>) = Expanded(fns, fns[g]) /\ fns[g] \in Code
        BY <2>0, <3>1, <3>2, ExpandedOne, CallableFacts DEF Calling
      <3>4. Pending(nest') = rest
        BY <2>0, <3>1, <3>2, PendingAppend
      <3>5. rest \in Code
        BY <2>0, <3>2, ConcatProperties DEF Code
      <3>6. Todo' = Expanded(fns, fns[g] \o rest)
        BY <3>1, <3>4 DEF Todo, Pending
      <3> HIDE DEF g, rest
      <3>7. Todo' = Todo
        <4>1. Expanded(fns, fns[g] \o rest) = Expanded(fns, fns[g]) \o Expanded(fns, rest)
          BY <2>0, <3>3, <3>5, ExpandedConcat
        <4> QED BY <3>2, <3>3, <3>6, <4>1, Zenon
      <3> QED BY <3>1, <3>7
    <2>5. CASE PopNest
      <3>1. /\ nest # <<>> /\ ctrl = <<>> /\ ctrl' = Last(nest) /\ nest' = Front(nest)
            /\ fns' = fns /\ stack' = stack /\ pc' = pc
        BY <2>5 DEF PopNest
      <3>2. /\ Front(nest) \in Seq(Code) /\ Last(nest) \in Code
            /\ nest = Append(Front(nest), Last(nest))
        BY <2>0, <3>1, FrontAndLast
      <3>3. Pending(nest) = Last(nest) \o Pending(Front(nest))
        BY <3>2, PendingAppend
      <3>4. ctrl \o Pending(nest) = Pending(nest)
        BY <2>0, <3>1, ConcatEmptySeq DEF Code
      <3>5. Todo' = Expanded(fns, Last(nest) \o Pending(Front(nest)))
        BY <3>1 DEF Todo, Pending
      <3> QED BY <3>1, <3>3, <3>4, <3>5 DEF Todo
    <2>6. CASE Return
      <3>1. /\ pc = "run" /\ ctrl = <<>> /\ nest = <<>> /\ pc' = "true"
            /\ UNCHANGED <<fns, ctrl, nest, stack>>
        BY <2>6 DEF Return
      <3>2. Todo = <<>> /\ Todo' = Todo
        <4>1. Reverse(nest) = <<>>
          <5>1. Reverse(nest) \in Seq(Code) /\ Len(Reverse(nest)) = Len(nest)
            BY <2>0, ReverseType
          <5> QED BY <3>1, <5>1, EmptySeq
        <4>2. Pending(nest) = <<>>
          BY <4>1, FlattenNone DEF Pending
        <4>3. ctrl \o Pending(nest) = <<>>
          BY <2>0, <3>1, <4>2, ConcatEmptySeq DEF Code
        <4>4. Pieces(<<>>, BodyOf(fns)) = <<>>
          <5>1. <<>> \in Code
            BY EmptySeq DEF Code
          <5>2. /\ Pieces(<<>>, BodyOf(fns)) \in Seq(Seq(Atoms))
                /\ Len(Pieces(<<>>, BodyOf(fns))) = Len(<<>>)
            BY <2>0, <5>1, ExpandedPieces
          <5> QED BY <5>2, EmptySeq
        <4>5. Todo = <<>>
          BY <4>3, <4>4, FlattenNone DEF Todo, Expanded
        <4>6. Todo' = Todo
          BY <3>1 DEF Todo, Pending
        <4> QED BY <4>5, <4>6
      <3>3. AsReduce!Succeed
        BY <3>1, <3>2, TodoIs, TodoNext DEF AsReduce!Succeed
      <3> QED BY <3>3 DEF AsReduce!Next
    <2>7. CASE Stopped \/ UNCHANGED vars
      BY <2>7 DEF Stopped, vars, Todo, Pending
    <2> QED BY <2>2, <2>3, <2>4, <2>5, <2>6, <2>7 DEF Next
  <1> QED BY <1>1, <1>2, InitCode, NextCode, PTL DEF Spec, ImplementsReduce, AsReduce!Spec

=============================================================================
