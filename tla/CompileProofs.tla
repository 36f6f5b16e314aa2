---------------------------- MODULE CompileProofs ---------------------------
(***************************************************************************)
(* What is proved of Compile: for all that a parser may return, whatever   *)
(* its length, no function or list reaches itself.                         *)
(***************************************************************************)
EXTENDS Compile, SequenceTheorems, TLAPS

-----------------------------------------------------------------------------
(* The inductive invariant.                                                *)

(* Data refers to the first n things made.                                 *)
ListBelow(list, n) == \A k \in 1..Len(list) : list[k].ptr <= n

FrameBelow(F, n) ==
  /\ \A name \in Names : F.map[name] <= n
  /\ ListBelow(F.list, n)
  /\ \A j \in 1..Len(F.list_stack) : ListBelow(F.list_stack[j].list, n)

(* What is left of a frame's tokens is what the parser returned.           *)
RestKnown(F) == \A k \in 1..Len(F.rest) : Known(F.rest[k])

FrameOK(F, n) == F \in Frame /\ FrameBelow(F, n) /\ RestKnown(F)

FramesOK(fs, n) ==
  /\ fs \in Seq(Frame)
  /\ \A i \in 1..Len(fs) : FrameOK(fs[i], n)

MadeOK(ms) == \A m \in 1..Len(ms) : ListBelow(ms[m].list, m - 1)

(* Whatever a frame has in hand, to put in a list or to find in the map,   *)
(* has been made: so what is made next can only refer to what is there.    *)
IInv ==
  /\ TypeOK
  /\ FramesOK(frames, Len(made))
  /\ MadeOK(made)

-----------------------------------------------------------------------------
(* Sequences.                                                              *)

LEMMA Appended ==
  ASSUME NEW X, NEW s \in Seq(X), NEW x \in X
  PROVE  /\ Append(s, x) \in Seq(X)
         /\ Append(s, x) # <<>>
         /\ Len(s) \in Nat
         /\ Len(Append(s, x)) = Len(s) + 1
         /\ \A i \in 1..Len(s) : Append(s, x)[i] = s[i]
         /\ Append(s, x)[Len(s) + 1] = x
  <1>1. Len(s) \in Nat /\ Len(Append(s, x)) = Len(s) + 1
    BY AppendProperties, LenProperties
  <1>2. Append(s, x) # <<>>
    BY <1>1, EmptySeq
  <1> QED BY <1>1, <1>2, AppendProperties

(* Taking the last element off a sequence.                                 *)
LEMMA FrontLast ==
  ASSUME NEW X, NEW s \in Seq(X), s # <<>>
  PROVE  /\ Front(s) \in Seq(X)
         /\ Len(s) \in Nat \ {0}
         /\ Len(Front(s)) = Len(s) - 1
         /\ \A i \in 1..Len(Front(s)) : i \in 1..Len(s) /\ Front(s)[i] = s[i]
         /\ Len(s) \in 1..Len(s)
         /\ Last(s) = s[Len(s)]
         /\ Last(s) \in X
  <1>1. Len(s) \in Nat /\ Len(s) # 0
    BY EmptySeq, LenProperties
  <1>2. Front(s) = SubSeq(s, 1, Len(s) - 1)
    BY DEF Front
  <1>3. /\ Front(s) \in Seq(X)
        /\ Len(Front(s)) = Len(s) - 1
        /\ \A i \in 1..Len(s) - 1 : Front(s)[i] = s[i]
    <2>1. 1 \in 1..Len(s) + 1 /\ Len(s) - 1 \in 0..Len(s)
      BY <1>1
    <2>2. Len(s) - 1 >= 1 - 1 /\ Len(s) - 1 - 1 + 1 = Len(s) - 1
      BY <1>1
    <2>3. \A i \in 1..Len(s) - 1 : 1 + i - 1 = i
      OBVIOUS
    <2> QED BY <1>1, <1>2, <2>1, <2>2, <2>3, SubSeqProperties, SMTT(30)
  <1>4. Last(s) = s[Len(s)] /\ Last(s) \in X
    BY <1>1, ElementOfSeq DEF Last
  <1> QED BY <1>1, <1>3, <1>4

(* Taking the first element off a sequence.                                *)
LEMMA HeadTail ==
  ASSUME NEW X, NEW s \in Seq(X), s # <<>>
  PROVE  /\ Len(s) \in Nat \ {0}
         /\ Head(s) \in X
         /\ Head(s) = s[1]
         /\ 1 \in 1..Len(s)
         /\ Tail(s) \in Seq(X)
         /\ \A i \in 1..Len(Tail(s)) : i + 1 \in 1..Len(s) /\ Tail(s)[i] = s[i + 1]
  <1>1. Len(s) \in Nat /\ Len(s) # 0
    BY EmptySeq, LenProperties
  <1> QED BY <1>1, HeadTailProperties

-----------------------------------------------------------------------------
(* Frames.                                                                 *)

(* What a frame's fields are.                                              *)
LEMMA FrameFields ==
  ASSUME NEW F \in Frame
  PROVE  /\ F.map \in [Names -> Nat]
         /\ F.list \in Seq(Datum)
         /\ F.list_stack \in Seq([list : Seq(Datum), src : Nat])
         /\ F.src \in Nat
         /\ F.rest \in Seq(Token)
  BY DEF Frame

LEMMA AppendBelow ==
  ASSUME NEW list \in Seq(Datum), NEW datum \in Datum, NEW n \in Nat,
         ListBelow(list, n), datum.ptr <= n
  PROVE  /\ Append(list, datum) \in Seq(Datum)
         /\ ListBelow(Append(list, datum), n)
  <1>1. /\ Append(list, datum) \in Seq(Datum)
        /\ Len(list) \in Nat
        /\ Len(Append(list, datum)) = Len(list) + 1
        /\ \A i \in 1..Len(list) : Append(list, datum)[i] = list[i]
        /\ Append(list, datum)[Len(list) + 1] = datum
    BY Appended
  <1>2. ASSUME NEW k \in 1..Len(list) + 1
        PROVE  Append(list, datum)[k].ptr <= n
    <2>1. CASE k = Len(list) + 1
      BY <1>1, <2>1
    <2>2. CASE k # Len(list) + 1
      <3>1. k \in 1..Len(list)
        BY <1>1, <2>2
      <3> QED BY <1>1, <3>1 DEF ListBelow
    <2> QED BY <2>1, <2>2
  <1> QED BY <1>1, <1>2 DEF ListBelow

LEMMA DataType ==
  ASSUME NEW type \in {"lit", "fn", "list"}, NEW ptr \in Nat, NEW src \in Nat
  PROVE  /\ data(type, ptr, src) \in Datum
         /\ data(type, ptr, src).ptr = ptr
  BY DEF data, Datum

(* Data that refers to what there is can be put in a frame.                *)
LEMMA OutputData ==
  ASSUME NEW F \in Frame, NEW datum \in Datum, NEW n \in Nat,
         FrameBelow(F, n), RestKnown(F), datum.ptr <= n
  PROVE  LET G == output_data(F, datum)
         IN  G \in Frame /\ FrameBelow(G, n) /\ RestKnown(G)
  <1> DEFINE G == output_data(F, datum)
  <1>1. /\ G = [F EXCEPT !.list = Append(F.list, datum)]
        /\ Append(F.list, datum) \in Seq(Datum)
        /\ ListBelow(Append(F.list, datum), n)
    BY AppendBelow, FrameFields DEF output_data, FrameBelow
  <1>2. /\ G \in Frame
        /\ G.list = Append(F.list, datum)
        /\ G.map = F.map /\ G.list_stack = F.list_stack /\ G.rest = F.rest
    BY <1>1 DEF Frame
  <1> QED BY <1>1, <1>2 DEF FrameBelow, RestKnown

(* A frame whose current list is put away for a new one.                   *)
LEMMA PushList ==
  ASSUME NEW F \in Frame, NEW src \in Nat, NEW n \in Nat,
         FrameBelow(F, n), RestKnown(F)
  PROVE  LET G == push_list(F, src)
         IN  G \in Frame /\ FrameBelow(G, n) /\ RestKnown(G)
  <1> DEFINE G == push_list(F, src)
             entry == [list |-> F.list, src |-> src]
             Entries == [list : Seq(Datum), src : Nat]
             stack == Append(F.list_stack, entry)
  <1>1. entry \in Entries /\ entry.list = F.list /\ F.list_stack \in Seq(Entries)
    BY FrameFields
  <1> HIDE DEF Entries, entry
  <1>2. /\ stack \in Seq(Entries)
        /\ Len(F.list_stack) \in Nat
        /\ Len(stack) = Len(F.list_stack) + 1
        /\ \A i \in 1..Len(F.list_stack) : stack[i] = F.list_stack[i]
        /\ stack[Len(F.list_stack) + 1] = entry
    BY <1>1, Appended
  <1>3. ASSUME NEW j \in 1..Len(stack)
        PROVE  ListBelow(stack[j].list, n)
    <2>1. CASE j = Len(F.list_stack) + 1
      BY <1>1, <1>2, <2>1 DEF FrameBelow
    <2>2. CASE j # Len(F.list_stack) + 1
      <3>1. j \in 1..Len(F.list_stack)
        BY <1>2, <2>2
      <3> QED BY <1>2, <3>1 DEF FrameBelow
    <2> QED BY <2>1, <2>2
  <1>4. <<>> \in Seq(Datum) /\ ListBelow(<<>>, n)
    BY EmptySeq DEF ListBelow
  <1>5. G = [F EXCEPT !.list_stack = stack, !.list = <<>>]
    BY DEF push_list, entry
  <1> HIDE DEF stack
  <1>6. /\ G \in Frame
        /\ G.list = <<>> /\ G.list_stack = stack
        /\ G.map = F.map /\ G.rest = F.rest
    BY <1>2, <1>4, <1>5 DEF Frame, Entries
  <1> HIDE DEF G
  <1>7. FrameBelow(G, n) /\ RestKnown(G)
    BY <1>3, <1>4, <1>6 DEF FrameBelow, RestKnown
  <1> QED BY <1>6, <1>7 DEF G

(* A frame that goes on with the list that was put away last.              *)
LEMMA PopList ==
  ASSUME NEW F \in Frame, NEW ptr \in Nat, NEW n \in Nat, ptr <= n,
         FrameBelow(F, n), RestKnown(F), F.list_stack # <<>>
  PROVE  LET G == pop_list(F, ptr)
         IN  G \in Frame /\ FrameBelow(G, n) /\ RestKnown(G)
  <1> DEFINE Entries == [list : Seq(Datum), src : Nat]
             entry == Last(F.list_stack)
             stack == Front(F.list_stack)
             E == [F EXCEPT !.list = entry.list, !.list_stack = stack]
             datum == data("list", ptr, entry.src)
  <1>1. /\ stack \in Seq(Entries)
        /\ \A i \in 1..Len(stack) :
             i \in 1..Len(F.list_stack) /\ stack[i] = F.list_stack[i]
        /\ Len(F.list_stack) \in 1..Len(F.list_stack)
        /\ entry = F.list_stack[Len(F.list_stack)]
        /\ entry \in Entries
    <2>1. F.list_stack \in Seq(Entries)
      BY FrameFields
    <2> QED BY <2>1, FrontLast, ZenonT(30)
  <1>2. entry.list \in Seq(Datum) /\ entry.src \in Nat /\ ListBelow(entry.list, n)
    BY <1>1 DEF FrameBelow
  <1>3. \A j \in 1..Len(stack) : ListBelow(stack[j].list, n)
    BY <1>1 DEF FrameBelow
  <1>4. pop_list(F, ptr) = output_data(E, datum)
    BY DEF pop_list
  <1> HIDE DEF entry, stack
  <1>5. /\ E \in Frame
        /\ E.list = entry.list /\ E.list_stack = stack
        /\ E.map = F.map /\ E.rest = F.rest
    BY <1>1, <1>2 DEF Frame
  <1>6. FrameBelow(E, n) /\ RestKnown(E)
    BY <1>2, <1>3, <1>5 DEF FrameBelow, RestKnown
  <1>7. datum \in Datum /\ datum.ptr = ptr
    BY <1>2, DataType
  <1> HIDE DEF E, datum
  <1>8. LET G == output_data(E, datum)
        IN  G \in Frame /\ FrameBelow(G, n) /\ RestKnown(G)
    BY <1>5, <1>6, <1>7, OutputData
  <1> QED BY <1>4, <1>8

(* A frame that has taken its next token.                                  *)
LEMMA TakeToken ==
  ASSUME NEW F \in Frame, NEW n \in Nat, FrameBelow(F, n), RestKnown(F), F.rest # <<>>
  PROVE  LET G == [F EXCEPT !.rest = Tail(@)]
         IN  /\ G \in Frame /\ FrameBelow(G, n) /\ RestKnown(G)
             /\ Head(F.rest) \in Token /\ Known(Head(F.rest))
  <1> DEFINE rest == Tail(F.rest)
             G == [F EXCEPT !.rest = rest]
  <1>1. /\ Head(F.rest) \in Token
        /\ Head(F.rest) = F.rest[1]
        /\ 1 \in 1..Len(F.rest)
        /\ rest \in Seq(Token)
        /\ \A i \in 1..Len(rest) : i + 1 \in 1..Len(F.rest) /\ rest[i] = F.rest[i + 1]
    BY FrameFields, HeadTail
  <1>2. Known(Head(F.rest)) /\ \A i \in 1..Len(rest) : Known(rest[i])
    BY <1>1 DEF RestKnown
  <1> HIDE DEF rest
  <1>3. /\ G \in Frame
        /\ G.rest = rest /\ G.list = F.list /\ G.list_stack = F.list_stack
        /\ G.map = F.map
    BY <1>1 DEF Frame
  <1> HIDE DEF G
  <1>4. FrameBelow(G, n) /\ RestKnown(G)
    BY <1>2, <1>3 DEF FrameBelow, RestKnown
  <1> QED BY <1>1, <1>2, <1>3, <1>4 DEF G, rest

(* The next call: with a map of what there is, it has nothing in hand.     *)
LEMMA NewFrame ==
  ASSUME NEW map \in [Names -> Nat], NEW src \in Nat, NEW tokens \in Seq(Token),
         NEW n \in Nat, \A name \in Names : map[name] <= n,
         \A k \in 1..Len(tokens) : Known(tokens[k])
  PROVE  LET G == compile_init(map, src, tokens)
         IN  G \in Frame /\ FrameBelow(G, n) /\ RestKnown(G)
  <1>1. /\ <<>> \in Seq(Datum)
        /\ <<>> \in Seq([list : Seq(Datum), src : Nat])
        /\ Len(<<>>) = 0
    BY EmptySeq
  <1> QED BY <1>1 DEF compile_init, Frame, FrameBelow, RestKnown, ListBelow

(* A word is defined: its meaning is something that has been made.         *)
LEMMA MapInsert ==
  ASSUME NEW F, NEW G \in Frame, NEW fn \in Nat, NEW n \in Nat, fn <= n,
         FrameBelow(G, n), RestKnown(G)
  PROVE  LET H == map_insert(F, G, fn)
         IN  H \in Frame /\ FrameBelow(H, n) /\ RestKnown(H)
  <1> DEFINE map == [G.map EXCEPT ![names[F.src]] = fn]
             H == [G EXCEPT !.map = map]
  <1>1. map \in [Names -> Nat] /\ \A name \in Names : map[name] <= n
    BY FrameFields DEF FrameBelow
  <1>2. map_insert(F, G, fn) = H
    BY DEF map_insert
  <1> HIDE DEF map
  <1>3. /\ H \in Frame
        /\ H.map = map /\ H.list = G.list /\ H.list_stack = G.list_stack
        /\ H.rest = G.rest
    BY <1>1 DEF Frame
  <1> HIDE DEF H
  <1>4. FrameBelow(H, n) /\ RestKnown(H)
    BY <1>1, <1>3 DEF FrameBelow, RestKnown
  <1> QED BY <1>2, <1>3, <1>4

(* What refers to the first things made still does when there is another.  *)
LEMMA StillBelow ==
  ASSUME NEW F \in Frame, NEW n \in Nat, FrameBelow(F, n)
  PROVE  FrameBelow(F, n + 1)
  <1>1. ASSUME NEW list \in Seq(Datum), ListBelow(list, n)
        PROVE  ListBelow(list, n + 1)
    <2>1. ASSUME NEW k \in 1..Len(list)
          PROVE  list[k].ptr <= n + 1
      <3>1. list[k] \in Datum
        BY ElementOfSeq
      <3>2. list[k].ptr \in Nat /\ list[k].ptr <= n
        BY <1>1, <3>1 DEF Datum, ListBelow
      <3> QED BY <3>2
    <2> QED BY <2>1 DEF ListBelow
  <1>2. \A name \in Names : F.map[name] <= n + 1
    <2>1. ASSUME NEW name \in Names
          PROVE  F.map[name] <= n + 1
      <3>1. F.map[name] \in Nat /\ F.map[name] <= n
        BY FrameFields DEF FrameBelow
      <3> QED BY <3>1
    <2> QED BY <2>1
  <1>3. ListBelow(F.list, n + 1)
    BY <1>1, FrameFields DEF FrameBelow
  <1>4. ASSUME NEW j \in 1..Len(F.list_stack)
        PROVE  ListBelow(F.list_stack[j].list, n + 1)
    <2>1. F.list_stack[j] \in [list : Seq(Datum), src : Nat]
      BY FrameFields, ElementOfSeq
    <2>2. F.list_stack[j].list \in Seq(Datum) /\ ListBelow(F.list_stack[j].list, n)
      BY <2>1 DEF FrameBelow
    <2> QED BY <1>1, <2>2
  <1> QED BY <1>2, <1>3, <1>4 DEF FrameBelow

-----------------------------------------------------------------------------
(* The stack of calls.                                                     *)

LEMMA PushFrame ==
  ASSUME NEW fs, NEW F, NEW n \in Nat, FramesOK(fs, n), FrameOK(F, n)
  PROVE  FramesOK(Append(fs, F), n) /\ Append(fs, F) # <<>>
  <1>1. fs \in Seq(Frame) /\ F \in Frame
    BY DEF FramesOK, FrameOK
  <1>2. /\ Append(fs, F) \in Seq(Frame)
        /\ Append(fs, F) # <<>>
        /\ Len(fs) \in Nat
        /\ Len(Append(fs, F)) = Len(fs) + 1
        /\ \A i \in 1..Len(fs) : Append(fs, F)[i] = fs[i]
        /\ Append(fs, F)[Len(fs) + 1] = F
    BY <1>1, Appended
  <1>3. ASSUME NEW i \in 1..Len(Append(fs, F))
        PROVE  FrameOK(Append(fs, F)[i], n)
    <2>1. CASE i = Len(fs) + 1
      BY <1>2, <2>1
    <2>2. CASE i # Len(fs) + 1
      <3>1. i \in 1..Len(fs)
        BY <1>2, <2>2
      <3> QED BY <1>2, <3>1 DEF FramesOK
    <2> QED BY <2>1, <2>2
  <1> QED BY <1>2, <1>3 DEF FramesOK

LEMMA PopFrame ==
  ASSUME NEW fs, NEW n \in Nat, FramesOK(fs, n), fs # <<>>
  PROVE  FramesOK(Front(fs), n) /\ FrameOK(Last(fs), n) /\ Len(Front(fs)) = Len(fs) - 1
  <1>1. fs \in Seq(Frame)
    BY DEF FramesOK
  <1>2. /\ Front(fs) \in Seq(Frame)
        /\ Len(Front(fs)) = Len(fs) - 1
        /\ \A i \in 1..Len(Front(fs)) : i \in 1..Len(fs) /\ Front(fs)[i] = fs[i]
        /\ Len(fs) \in 1..Len(fs)
        /\ Last(fs) = fs[Len(fs)]
    BY <1>1, FrontLast
  <1> QED BY <1>2 DEF FramesOK

(* One more thing has been made, of what there was.                        *)
LEMMA OneMore ==
  ASSUME NEW ms \in Seq([src : Nat, list : Seq(Datum)]), MadeOK(ms),
         NEW src \in Nat, NEW list \in Seq(Datum), ListBelow(list, Len(ms))
  PROVE  LET new == Append(ms, [src |-> src, list |-> list])
         IN  /\ new \in Seq([src : Nat, list : Seq(Datum)])
             /\ Len(ms) \in Nat
             /\ Len(new) = Len(ms) + 1
             /\ MadeOK(new)
  <1> DEFINE Things == [src : Nat, list : Seq(Datum)]
             thing == [src |-> src, list |-> list]
             new == Append(ms, thing)
  <1>1. thing \in Things /\ thing.list = list
    OBVIOUS
  <1> HIDE DEF thing
  <1>2. /\ new \in Seq(Things)
        /\ Len(ms) \in Nat
        /\ Len(new) = Len(ms) + 1
        /\ \A i \in 1..Len(ms) : new[i] = ms[i]
        /\ new[Len(ms) + 1] = thing
    BY <1>1, Appended
  <1> HIDE DEF new
  <1>3. ASSUME NEW m \in 1..Len(new)
        PROVE  ListBelow(new[m].list, m - 1)
    <2>1. CASE m = Len(ms) + 1
      <3>1. m - 1 = Len(ms) /\ new[m].list = list
        BY <1>1, <1>2, <2>1
      <3> QED BY <3>1
    <2>2. CASE m # Len(ms) + 1
      <3>1. m \in 1..Len(ms) /\ new[m] = ms[m]
        BY <1>2, <2>2, SMTT(30)
      <3> QED BY <3>1 DEF MadeOK
    <2> QED BY <2>1, <2>2
  <1> QED BY <1>2, <1>3 DEF MadeOK, new, thing

(* Calls that refer to what there is still do when there is one more.      *)
LEMMA FramesStillOK ==
  ASSUME NEW fs, NEW n \in Nat, FramesOK(fs, n)
  PROVE  FramesOK(fs, n + 1)
  BY StillBelow DEF FramesOK, FrameOK

-----------------------------------------------------------------------------
(* The invariant.                                                          *)

LEMMA InitIInv == Init => IInv
  <1> SUFFICES ASSUME Init PROVE IInv
    OBVIOUS
  <1>1. frames = <<>> /\ made = <<>> /\ pc = "idle" /\ Parsed
    BY DEF Init
  <1>2. frames \in Seq(Frame) /\ made \in Seq([src : Nat, list : Seq(Datum)])
    BY <1>1, EmptySeq
  <1>3. Len(frames) = 0 /\ Len(made) = 0
    BY <1>1, EmptySeq
  <1>4. TypeOK
    BY <1>1, <1>2 DEF TypeOK
  <1> QED BY <1>2, <1>3, <1>4 DEF IInv, FramesOK, MadeOK

(* What a step has to do: its new calls and the thing it may make are in   *)
(* order, and it leaves what the parser returned alone.                    *)
LEMMA Step ==
  ASSUME IInv, UNCHANGED <<source, names>>,
         made' \in Seq([src : Nat, list : Seq(Datum)]), MadeOK(made'),
         FramesOK(frames', Len(made')),
         pc' \in {"idle", "run", "done"}, frames' # <<>>
  PROVE  IInv'
  <1>1. Parsed'
    BY DEF IInv, TypeOK, Parsed, Known
  <1>2. FramesOK(frames, Len(made))'
    BY DEF FramesOK, FrameOK, RestKnown, Known
  <1>3. MadeOK(made)'
    BY DEF MadeOK
  <1>4. frames' \in Seq(Frame)
    BY DEF FramesOK
  <1> QED BY <1>1, <1>2, <1>3, <1>4 DEF IInv, TypeOK

(* A step that puts another call in the place of the innermost one.        *)
LEMMA Replace ==
  ASSUME IInv, UNCHANGED <<source, names, made, pc>>, frames # <<>>,
         NEW G, FrameOK(G, Len(made)), frames' = Append(Front(frames), G)
  PROVE  IInv'
  <1>1. /\ Len(made) \in Nat /\ made \in Seq([src : Nat, list : Seq(Datum)])
        /\ MadeOK(made) /\ FramesOK(frames, Len(made))
        /\ pc \in {"idle", "run", "done"}
    BY LenProperties DEF IInv, TypeOK
  <1>2. FramesOK(Front(frames), Len(made))
    BY <1>1, PopFrame
  <1>3. FramesOK(frames', Len(made)) /\ frames' # <<>>
    BY <1>1, <1>2, PushFrame
  <1> QED BY <1>1, <1>3, Step

LEMMA NextIInv == IInv /\ [Next]_vars => IInv'
  <1> SUFFICES ASSUME IInv, [Next]_vars PROVE IInv'
    OBVIOUS
  <1> DEFINE n == Len(made)
             token == Head(C.rest)
  <1>1. /\ n \in Nat
        /\ n + 1 \in Nat
        /\ made \in Seq([src : Nat, list : Seq(Datum)])
        /\ MadeOK(made)
        /\ FramesOK(frames, n)
        /\ pc \in {"idle", "run", "done"}
        /\ pc # "idle" => frames # <<>>
    BY LenProperties DEF IInv, TypeOK
  <1>2. /\ names \in Seq(Names)
        /\ source \in Seq(Seq(Token))
        /\ \A l \in DOMAIN source : \A k \in DOMAIN source[l] : Known(source[l][k])
    BY DEF IInv, TypeOK, Parsed
  <1>3. ASSUME NEW l \in DOMAIN source
        PROVE  source[l] \in Seq(Token) /\ \A k \in 1..Len(source[l]) : Known(source[l][k])
    <2>1. l \in 1..Len(source)
      BY <1>2, LenProperties
    <2>2. source[l] \in Seq(Token)
      BY <1>2, <2>1, ElementOfSeq
    <2>3. DOMAIN source[l] = 1..Len(source[l])
      BY <2>2, LenProperties
    <2> QED BY <1>2, <2>2, <2>3
  <1>4. ASSUME pc = "run"
        PROVE  /\ frames # <<>> /\ FrameOK(C, n) /\ FramesOK(Front(frames), n)
               /\ C.rest # <<>> =>
                    /\ FrameOK(Popped, n)
                    /\ token \in Token
                    /\ Known(token)
    <2>1. frames # <<>> /\ FrameOK(C, n) /\ FramesOK(Front(frames), n)
      BY <1>1, <1>4, PopFrame DEF C
    <2>2. ASSUME C.rest # <<>>
          PROVE  FrameOK(Popped, n) /\ token \in Token /\ Known(token)
      BY <1>1, <2>1, <2>2, TakeToken DEF FrameOK, Popped
    <2> QED BY <2>1, <2>2
  <1>5. ASSUME NEW F, FrameOK(F, n), NEW datum \in Datum, datum.ptr <= n
        PROVE  FrameOK(output_data(F, datum), n)
    BY <1>1, <1>5, OutputData DEF FrameOK
  <1> HIDE DEF n
  <1>6. ASSUME NEW list \in DOMAIN source, Start(list) PROVE IInv'
    <2> DEFINE F == compile_init([name \in Names |-> Undefined], 0, source[list])
    <2>1. [name \in Names |-> Undefined] \in [Names -> Nat]
      BY DEF Undefined
    <2>2. \A name \in Names : [name_ \in Names |-> Undefined][name] <= n
      BY <1>1 DEF Undefined
    <2>3. FrameOK(F, n)
      BY <1>1, <1>3, <2>1, <2>2, NewFrame DEF FrameOK
    <2>4. frames' = <<F>> /\ made' = made /\ pc' = "run" /\ UNCHANGED <<source, names>>
      BY <1>6 DEF Start
    <2> HIDE DEF F
    <2>5. F \in Frame
      BY <2>3 DEF FrameOK
    <2>6. <<F>> \in Seq(Frame) /\ Len(<<F>>) = 1 /\ <<F>>[1] = F /\ <<F>> # <<>>
      BY <2>5
    <2>7. FramesOK(<<F>>, n)
      BY <2>3, <2>6 DEF FramesOK
    <2> QED BY <1>1, <2>4, <2>6, <2>7, Step DEF n
  <1>7. CASE Word
    <2>1. /\ pc = "run" /\ C.rest # <<>> /\ token.type = "word"
          /\ UNCHANGED <<source, names, made, pc>>
      BY <1>7 DEF Word, Take
    <2>2. token \in Token /\ Known(token) /\ FrameOK(C, n) /\ FrameOK(Popped, n)
      BY <1>4, <2>1
    <2> DEFINE fn == C.map[names[token.src]]
               G == IF fn = Undefined THEN Popped
                    ELSE output_data(Popped, data("fn", fn, token.src))
    <2>3. fn \in Nat /\ fn <= n /\ token.src \in Nat
      <3>1. names[token.src] \in Names
        BY <1>2, <2>2, LenProperties, ElementOfSeq DEF Known
      <3>2. C.map \in [Names -> Nat] /\ \A name \in Names : C.map[name] <= n
        BY <2>2, FrameFields DEF FrameOK, FrameBelow
      <3> QED BY <2>2, <3>1, <3>2 DEF Token
    <2>4. frames' = Append(Front(frames), G)
      BY <1>7 DEF Word
    <2> HIDE DEF fn
    <2>5. FrameOK(G, n)
      <3>1. data("fn", fn, token.src) \in Datum /\ data("fn", fn, token.src).ptr = fn
        BY <2>3, DataType
      <3>2. FrameOK(output_data(Popped, data("fn", fn, token.src)), n)
        BY <1>5, <2>2, <2>3, <3>1
      <3> QED BY <2>2, <3>2
    <2> HIDE DEF G
    <2> QED BY <1>4, <2>1, <2>4, <2>5, Replace DEF n
  <1>8. CASE Literal
    <2> DEFINE datum == data("lit", 0, token.src)
               G == output_data(Popped, datum)
    <2>1. /\ pc = "run" /\ C.rest # <<>>
          /\ UNCHANGED <<source, names, made, pc>>
          /\ frames' = Append(Front(frames), G)
      BY <1>8 DEF Literal, Take
    <2>2. token \in Token /\ FrameOK(Popped, n)
      BY <1>4, <2>1
    <2>3. datum \in Datum /\ datum.ptr <= n
      <3>1. token.src \in Nat
        BY <2>2 DEF Token
      <3> QED BY <1>1, <3>1, DataType
    <2>4. FrameOK(G, n)
      BY <1>5, <2>2, <2>3
    <2> HIDE DEF G
    <2> QED BY <1>4, <2>1, <2>4, Replace DEF n
  <1>9. CASE ListLiteral
    <2> DEFINE G == push_list(Popped, token.src)
    <2>1. /\ pc = "run" /\ C.rest # <<>>
          /\ UNCHANGED <<source, names, made, pc>>
          /\ frames' = Append(Front(frames), G)
      BY <1>9 DEF ListLiteral, Take
    <2>2. token \in Token /\ FrameOK(Popped, n)
      BY <1>4, <2>1
    <2>3. token.src \in Nat
      BY <2>2 DEF Token
    <2>4. FrameOK(G, n)
      BY <1>1, <2>2, <2>3, PushList DEF FrameOK
    <2> HIDE DEF G
    <2> QED BY <1>4, <2>1, <2>4, Replace DEF n
  <1>10. CASE Block
    <2> DEFINE G == compile_init(C.map, token.src, source[token.ptr])
    <2>1. /\ pc = "run" /\ C.rest # <<>> /\ token.type = "block"
          /\ UNCHANGED <<source, names, made, pc>>
          /\ frames' = Append(Append(Front(frames), Popped), G)
      BY <1>10 DEF Block, Take
    <2>2. /\ token \in Token /\ Known(token)
          /\ FrameOK(C, n) /\ FrameOK(Popped, n) /\ FramesOK(Front(frames), n)
      BY <1>4, <2>1
    <2>3. token.src \in Nat /\ token.ptr \in DOMAIN source
      BY <2>1, <2>2 DEF Token, Known
    <2>4. /\ source[token.ptr] \in Seq(Token)
          /\ \A k \in 1..Len(source[token.ptr]) : Known(source[token.ptr][k])
      BY <1>3, <2>3
    <2>5. C.map \in [Names -> Nat] /\ \A name \in Names : C.map[name] <= n
      BY <2>2, FrameFields DEF FrameOK, FrameBelow
    <2>6. FrameOK(G, n)
      BY <1>1, <2>3, <2>4, <2>5, NewFrame DEF FrameOK
    <2> HIDE DEF G
    <2>7. FramesOK(frames', n) /\ frames' # <<>>
      BY <1>1, <2>1, <2>2, <2>6, PushFrame
    <2> QED BY <1>1, <2>1, <2>7, Step DEF n
  <1>11. CASE CloseList
    <2> DEFINE thing == [src |-> Last(C.list_stack).src, list |-> C.list]
               G == pop_list(C, n + 1)
    <2>1. /\ pc = "run" /\ C.list_stack # <<>>
          /\ UNCHANGED <<source, names, pc>>
          /\ made' = Append(made, thing)
          /\ frames' = Append(Front(frames), G)
      BY <1>11 DEF CloseList, n
    <2>2. FrameOK(C, n) /\ FramesOK(Front(frames), n)
      BY <1>4, <2>1
    <2>3. C.list \in Seq(Datum) /\ ListBelow(C.list, n)
      BY <2>2, FrameFields DEF FrameOK, FrameBelow
    <2>4. Last(C.list_stack).src \in Nat
      <3>1. C.list_stack \in Seq([list : Seq(Datum), src : Nat])
        BY <2>2, FrameFields DEF FrameOK
      <3>2. Last(C.list_stack) \in [list : Seq(Datum), src : Nat]
        BY <2>1, <3>1, FrontLast
      <3> QED BY <3>2
    <2>5. /\ made' \in Seq([src : Nat, list : Seq(Datum)])
          /\ Len(made') = n + 1
          /\ MadeOK(made')
      BY <1>1, <2>1, <2>3, <2>4, OneMore DEF n
    <2>6. FrameOK(C, n + 1) /\ FramesOK(Front(frames), n + 1)
      BY <1>1, <2>2, StillBelow, FramesStillOK DEF FrameOK
    <2>7. FrameOK(G, n + 1)
      BY <1>1, <2>1, <2>6, PopList DEF FrameOK
    <2> HIDE DEF G
    <2>8. FramesOK(Append(Front(frames), G), n + 1) /\ Append(Front(frames), G) # <<>>
      BY <1>1, <2>6, <2>7, PushFrame
    <2> QED BY <1>1, <2>1, <2>5, <2>8, Step
  <1>12. CASE ReturnBlock
    <2> DEFINE thing == [src |-> C.src, list |-> C.list]
               around == Front(frames)
               G == map_insert(C, Last(around), n + 1)
    <2>1. /\ pc = "run" /\ Len(frames) > 1
          /\ UNCHANGED <<source, names, pc>>
          /\ made' = Append(made, thing)
          /\ frames' = Append(Front(around), G)
      BY <1>12 DEF ReturnBlock, n
    <2>2. frames # <<>> /\ FrameOK(C, n) /\ FramesOK(around, n)
      BY <1>4, <2>1
    <2>3. around # <<>>
      <3>1. Len(around) = Len(frames) - 1
        BY <1>1, <2>2, PopFrame
      <3>2. Len(frames) \in Nat
        BY <1>1, LenProperties DEF FramesOK
      <3>3. Len(around) # 0
        BY <2>1, <3>1, <3>2
      <3> QED BY <3>3, EmptySeq
    <2>4. /\ C.list \in Seq(Datum) /\ ListBelow(C.list, n) /\ C.src \in Nat
      BY <2>2, FrameFields DEF FrameOK, FrameBelow
    <2>5. /\ made' \in Seq([src : Nat, list : Seq(Datum)])
          /\ Len(made') = n + 1
          /\ MadeOK(made')
      BY <1>1, <2>1, <2>4, OneMore DEF n
    <2>6. FramesOK(around, n + 1)
      BY <1>1, <2>2, FramesStillOK
    <2> HIDE DEF around
    <2>7. FramesOK(Front(around), n + 1) /\ FrameOK(Last(around), n + 1)
      BY <1>1, <2>3, <2>6, PopFrame
    <2>8. FrameOK(G, n + 1)
      BY <1>1, <2>7, MapInsert DEF FrameOK
    <2> HIDE DEF G
    <2>9. FramesOK(Append(Front(around), G), n + 1) /\ Append(Front(around), G) # <<>>
      BY <1>1, <2>7, <2>8, PushFrame
    <2> QED BY <1>1, <2>1, <2>5, <2>9, Step
  <1>13. CASE Return
    <2>1. pc = "run" /\ pc' = "done" /\ UNCHANGED <<source, names, frames, made>>
      BY <1>13 DEF Return
    <2> QED BY <1>1, <2>1, Step DEF n
  <1>14. CASE UNCHANGED vars
    BY <1>14 DEF vars, IInv, TypeOK, Parsed, Known, FramesOK, FrameOK, RestKnown, MadeOK
  <1> QED BY <1>6, <1>7, <1>8, <1>9, <1>10, <1>11, <1>12, <1>13, <1>14 DEF Next

(* The invariant says that nothing reaches itself.                         *)
LEMMA InvNoRecursion == IInv => NoRecursion
  <1> SUFFICES ASSUME IInv, NEW m \in DOMAIN made, NEW i \in DOMAIN made[m].list
               PROVE  made[m].list[i].ptr < m
    BY DEF NoRecursion
  <1>1. made \in Seq([src : Nat, list : Seq(Datum)]) /\ MadeOK(made)
    BY DEF IInv, TypeOK
  <1>2. m \in 1..Len(made) /\ m \in Nat
    BY <1>1, LenProperties
  <1>3. made[m] \in [src : Nat, list : Seq(Datum)]
    BY <1>1, <1>2, ElementOfSeq
  <1>4. made[m].list \in Seq(Datum)
    BY <1>3
  <1>5. i \in 1..Len(made[m].list)
    BY <1>4, LenProperties
  <1>6. made[m].list[i] \in Datum
    BY <1>4, <1>5, ElementOfSeq
  <1>7. made[m].list[i].ptr \in Nat /\ made[m].list[i].ptr <= m - 1
    BY <1>1, <1>2, <1>5, <1>6 DEF MadeOK, ListBelow, Datum
  <1> QED BY <1>2, <1>7

LEMMA Inductive == Spec => []IInv
  BY InitIInv, NextIInv, PTL DEF Spec

-----------------------------------------------------------------------------
(* The theorems.                                                           *)

(* Whatever the parser returns, compile() keeps its lists, maps and calls  *)
(* well formed.                                                            *)
THEOREM StateTyped == Spec => []TypeOK
  <1>1. IInv => TypeOK
    BY DEF IInv
  <1> QED BY <1>1, Inductive, PTL

(* Functions and lists only refer to what was made before them, in texts   *)
(* of any length: evaluation cannot come back to where it is (eval.c), and *)
(* its nest is no deeper than there are functions.                         *)
THEOREM CallsGoBack == Spec => []NoRecursion
  BY InvNoRecursion, Inductive, PTL

=============================================================================
