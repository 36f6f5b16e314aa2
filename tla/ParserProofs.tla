---------------------------- MODULE ParserProofs ----------------------------
(***************************************************************************)
(* What is proved of Parser, for texts of every length over every set of   *)
(* token kinds and indentations: first that its stacks and lists are sound,*)
(* then what it hands on to the compiler: tokens that are in the text, with*)
(* lists that there are, each in one place, in order, under the right      *)
(* heads and in the definition where their line puts them.                 *)
(***************************************************************************)
EXTENDS Parser, SequenceTheorems, FiniteSetTheorems, FunctionTheorems, TLAPS

-----------------------------------------------------------------------------
(* The inductive invariant.                                                *)

(* The lists being built, from the outermost to the one the parser is in,  *)
(* were made in that order, and the node kept with a list that is not      *)
(* empty is in that list.                                                  *)
ListsOK(S) ==
  /\ S.list \in 1..Len(S.lists)
  /\ S.lists[S.list] # <<>> => S.node = S.list
  /\ Len(S.node_stack) = Len(S.list_stack)
  /\ \A i \in 1..Len(S.list_stack) :
       /\ S.list_stack[i] \in 1..S.list - 1
       /\ S.lists[S.list_stack[i]] # <<>> => S.node_stack[i] = S.list_stack[i]
       /\ \A j \in 1..i - 1 : S.list_stack[j] < S.list_stack[i]

(* A frame is open for each definition and for each "[" that has no "]".   *)
FramesCounted ==
  Len(P.base_stack) =
    Len(P.indent_stack) + unclosed + (IF pc = "close" THEN 1 ELSE 0)

IInv ==
  /\ TypeOK
  /\ NoUnderflow
  /\ pc # "undefined" =>
       /\ Aligned(P)
       /\ ListsOK(P)
       /\ FramesCounted
       /\ pc = "close" => Len(P.token_stack) = P.base

-----------------------------------------------------------------------------
(* Stacks.                                                                 *)

LEMMA FrontLast ==
  ASSUME NEW X, NEW s \in Seq(X), s # <<>>
  PROVE  /\ Front(s) \in Seq(X)
         /\ Len(s) \in Nat \ {0}
         /\ Len(Front(s)) = Len(s) - 1
         /\ \A i \in 1..Len(s) - 1 : Front(s)[i] = s[i]
         /\ Last(s) = s[Len(s)]
         /\ Last(s) \in X
  <1>1. Len(s) \in Nat /\ Len(s) # 0
    BY EmptySeq, LenProperties
  <1>2. Front(s) = SubSeq(s, 1, Len(s) - 1)
    BY DEF Front
  <1>3. /\ Front(s) \in Seq(X)
        /\ Len(Front(s)) = Len(s) - 1
        /\ \A i \in 1..Len(s) - 1 : Front(s)[i] = s[i]
    <2>1. 1 \in 1..Len(s) + 1 /\ Len(s) - 1 \in 0..Len(s)
      BY <1>1
    <2>2. Len(s) - 1 >= 1 - 1 /\ Len(s) - 1 - 1 + 1 = Len(s) - 1
      BY <1>1
    <2>3. \A i \in 1..Len(s) - 1 : 1 + i - 1 = i
      OBVIOUS
    <2> QED BY <1>1, <1>2, <2>1, <2>2, <2>3, SubSeqProperties, SMTT(30)
  <1>4. Last(s) = s[Len(s)] /\ Last(s) \in X
    BY <1>1, ElementOfSeq DEF Last
  <1> QED BY <1>1, <1>3, <1>4

LEMMA AppendedAt ==
  ASSUME NEW X, NEW s \in Seq(X), NEW x \in X, NEW n \in Nat, Len(s) = n
  PROVE  /\ Append(s, x) \in Seq(X)
         /\ Len(Append(s, x)) = n + 1
         /\ \A i \in 1..n : Append(s, x)[i] = s[i]
         /\ Append(s, x)[n + 1] = x
  BY AppendProperties

LEMMA Appended ==
  ASSUME NEW X, NEW s \in Seq(X), NEW x \in X
  PROVE  /\ Append(s, x) \in Seq(X)
         /\ Len(s) \in Nat
         /\ Len(Append(s, x)) = Len(s) + 1
         /\ \A i \in 1..Len(s) : Append(s, x)[i] = s[i]
         /\ Append(s, x)[Len(s) + 1] = x
         /\ Append(s, x) # <<>>
  BY AppendProperties, LenProperties

-----------------------------------------------------------------------------
(* The handlers.                                                           *)

(* What the output of a token leaves as it is.                             *)
SameStacks(S, O) ==
  /\ O.indent = S.indent
  /\ O.indent_stack = S.indent_stack
  /\ O.token_stack = S.token_stack
  /\ O.base = S.base
  /\ O.base_stack = S.base_stack
  /\ O.list = S.list
  /\ O.list_stack = S.list_stack
  /\ O.node_stack = S.node_stack

LEMMA ListsTyped ==
  ASSUME NEW S \in ParseState, ListsOK(S)
  PROVE  /\ S.lists \in Seq(Seq(Token))
         /\ Len(S.lists) \in Nat
         /\ \A l \in 1..Len(S.lists) : S.lists[l] \in Seq(Token)
         /\ S.list \in 1..Len(S.lists)
         /\ S.list_stack \in Seq(Nat)
         /\ S.node_stack \in Seq(Nat)
         /\ Len(S.list_stack) \in Nat
         /\ \A i \in 1..Len(S.list_stack) : S.list_stack[i] \in 1..Len(S.lists)
  <1>1. S.lists \in Seq(Seq(Token)) /\ S.list_stack \in Seq(Nat) /\ S.node_stack \in Seq(Nat)
    BY DEF ParseState
  <1>2. Len(S.lists) \in Nat /\ Len(S.list_stack) \in Nat
    BY <1>1, LenProperties
  <1>3. \A l \in 1..Len(S.lists) : S.lists[l] \in Seq(Token)
    BY <1>1, ElementOfSeq
  <1>4. S.list \in 1..Len(S.lists)
    BY DEF ListsOK
  <1>5. \A i \in 1..Len(S.list_stack) : S.list_stack[i] \in 1..S.list - 1
    BY DEF ListsOK
  <1>6. \A i \in 1..Len(S.list_stack) : S.list_stack[i] \in 1..Len(S.lists)
    BY <1>2, <1>4, <1>5
  <1> QED BY <1>1, <1>2, <1>3, <1>4, <1>6

(* A token is put at the end of the list being built, and nowhere else.    *)
LEMMA OutputToken ==
  ASSUME NEW S \in ParseState, ListsOK(S), NEW token \in Token
  PROVE  LET O == output_token(S, token) IN
         /\ O \in ParseState
         /\ SameStacks(S, O)
         /\ ListsOK(O)
         /\ O.lists = [S.lists EXCEPT ![S.list] = Append(@, token)]
         /\ Len(O.lists) = Len(S.lists)
  <1> DEFINE O == output_token(S, token)
             L == [S.lists EXCEPT ![S.list] = Append(@, token)]
  <1>1. S.lists[S.list] \in Seq(Token) /\ S.list \in 1..Len(S.lists)
    BY ListsTyped
  <1>2. /\ Append(S.lists[S.list], token) \in Seq(Token)
        /\ Append(S.lists[S.list], token) # <<>>
    BY <1>1, Appended
  <1>3. L \in Seq(Seq(Token)) /\ Len(L) = Len(S.lists)
    BY <1>1, <1>2, ListsTyped, ExceptSeq
  <1>4. O = [S EXCEPT !.lists = L, !.node = S.list]
    <2>1. CASE S.lists[S.list] = <<>>
      <3>1. Append(S.lists[S.list], token) = <<token>>
        BY <2>1
      <3> QED BY <2>1, <3>1 DEF output_token, ParseState
    <2>2. CASE S.lists[S.list] # <<>>
      BY <2>2 DEF output_token, ListsOK, ParseState
    <2> QED BY <2>1, <2>2
  <1>5. O \in ParseState
    BY <1>1, <1>3, <1>4, ListsTyped DEF ParseState
  <1>6. SameStacks(S, O) /\ O.lists = L /\ O.node = S.list
    BY <1>4 DEF SameStacks, ParseState
  <1>7. ListsOK(O)
    <2>1. \A i \in 1..Len(S.list_stack) : L[S.list_stack[i]] = S.lists[S.list_stack[i]]
      BY <1>1, ListsTyped DEF ListsOK
    <2> QED BY <1>1, <1>3, <1>6, <2>1 DEF ListsOK, SameStacks
  <1> QED BY <1>3, <1>5, <1>6, <1>7

(* Flushing moves the pending token, if there is one, to the list.         *)
LEMMA FlushTokenStack ==
  ASSUME NEW S \in ParseState, ListsOK(S), Aligned(S)
  PROVE  LET F == flush_token_stack(S) IN
         /\ F \in ParseState
         /\ SameStacks(S, [F EXCEPT !.token_stack = S.token_stack])
         /\ ListsOK(F)
         /\ Aligned(F)
         /\ Len(F.token_stack) = F.base
         /\ Len(F.lists) = Len(S.lists)
         /\ \A l \in 1..Len(S.lists) : l # S.list => F.lists[l] = S.lists[l]
  <1> DEFINE F == flush_token_stack(S)
  <1>1. CASE is_token_stack_empty(S)
    BY <1>1 DEF flush_token_stack, is_token_stack_empty, SameStacks, ParseState
  <1>2. CASE ~is_token_stack_empty(S)
    <2>1. /\ S.token_stack \in Seq(Token) /\ S.base_stack \in Seq(Nat)
          /\ Len(S.base_stack) \in Nat
          /\ Len(S.token_stack) = S.base + 1
      BY <1>2, LenProperties DEF ParseState, Aligned, is_token_stack_empty
    <2>2. S.token_stack # <<>> /\ S.base \in Nat
      BY <2>1 DEF Aligned
    <2>3. /\ Front(S.token_stack) \in Seq(Token)
          /\ Len(Front(S.token_stack)) = Len(S.token_stack) - 1
          /\ Last(S.token_stack) \in Token
      BY <2>1, <2>2, FrontLast
    <2> DEFINE T == pop_token(S)
    <2>4. T \in ParseState /\ T = [S EXCEPT !.token_stack = Front(S.token_stack)]
      BY <2>3 DEF pop_token, ParseState
    <2>5. ListsOK(T) /\ T.lists = S.lists /\ T.list = S.list
      BY <2>4 DEF ListsOK, ParseState
    <2>6. F = output_token(T, Last(S.token_stack))
      BY <1>2 DEF flush_token_stack
    <2>7. /\ F \in ParseState /\ SameStacks(T, F) /\ ListsOK(F)
          /\ F.lists = [T.lists EXCEPT ![T.list] = Append(@, Last(S.token_stack))]
          /\ Len(F.lists) = Len(T.lists)
      BY <2>3, <2>4, <2>5, <2>6, OutputToken, ZenonT(60)
    <2>8. SameStacks(S, [F EXCEPT !.token_stack = S.token_stack])
      BY <2>4, <2>7 DEF SameStacks, ParseState
    <2>9. Aligned(F) /\ Len(F.token_stack) = F.base
      BY <2>1, <2>2, <2>3, <2>4, <2>7 DEF SameStacks, Aligned, ParseState
    <2>10. \A l \in 1..Len(S.lists) : l # S.list => F.lists[l] = S.lists[l]
      BY <2>5, <2>7, ListsTyped
    <2> QED BY <2>5, <2>7, <2>8, <2>9, <2>10
  <1> QED BY <1>1, <1>2

(* The lists that a step may write to: those that are being built.         *)
Frozen(S, O) ==
  \A l \in 1..Len(S.lists) :
    O.lists[l] # S.lists[l] =>
      l = S.list \/ \E i \in 1..Len(S.list_stack) : S.list_stack[i] = l

(* The innermost frame, without its definition or list literal.            *)
PopFrame(S) == pop_list(pop_token(pop_base(S)))

LEMMA PopFrameState ==
  ASSUME NEW S \in ParseState, ListsOK(S), Aligned(S),
         Len(S.token_stack) = S.base, S.base # 0
  PROVE  /\ PopFrame(S) \in ParseState
         /\ ListsOK(PopFrame(S))
         /\ Aligned(PopFrame(S))
         /\ Len(PopFrame(S).token_stack) = PopFrame(S).base
         /\ PopFrame(S).lists = S.lists
         /\ PopFrame(S).indent_stack = S.indent_stack
         /\ Len(PopFrame(S).base_stack) = Len(S.base_stack) - 1
         /\ \E i \in 1..Len(S.list_stack) : S.list_stack[i] = PopFrame(S).list
         /\ Last(S.token_stack) \in Token
         /\ PopFrame(S).token_stack = Front(S.token_stack)
         /\ PopFrame(S).list_stack = Front(S.list_stack)
         /\ PopFrame(S).list = S.list_stack[S.base]
         /\ PopFrame(S).base = S.base - 1
         /\ PopFrame(S).indent = S.indent
  <1> DEFINE n == S.base
             F == PopFrame(S)
  <1>1. /\ n \in Nat \ {0}
        /\ S.base_stack \in Seq(Nat) /\ Len(S.base_stack) = n
        /\ S.token_stack \in Seq(Token) /\ Len(S.token_stack) = n
        /\ S.list_stack \in Seq(Nat) /\ Len(S.list_stack) = n
        /\ S.node_stack \in Seq(Nat) /\ Len(S.node_stack) = n
    BY DEF ParseState, Aligned
  <1>2. /\ S.base_stack # <<>> /\ S.token_stack # <<>>
        /\ S.list_stack # <<>> /\ S.node_stack # <<>>
    BY <1>1
  <1>3. /\ Front(S.base_stack) \in Seq(Nat)
        /\ Len(Front(S.base_stack)) = n - 1
        /\ \A i \in 1..n - 1 : Front(S.base_stack)[i] = S.base_stack[i]
        /\ Last(S.base_stack) = S.base_stack[n]
        /\ Last(S.base_stack) \in Nat
    BY <1>1, <1>2, FrontLast
  <1>4. /\ Front(S.token_stack) \in Seq(Token)
        /\ Len(Front(S.token_stack)) = n - 1
        /\ Last(S.token_stack) \in Token
    BY <1>1, <1>2, FrontLast
  <1>5. /\ Front(S.list_stack) \in Seq(Nat)
        /\ Len(Front(S.list_stack)) = n - 1
        /\ \A i \in 1..n - 1 : Front(S.list_stack)[i] = S.list_stack[i]
        /\ Last(S.list_stack) = S.list_stack[n]
        /\ Last(S.list_stack) \in Nat
    BY <1>1, <1>2, FrontLast
  <1>6. /\ Front(S.node_stack) \in Seq(Nat)
        /\ Len(Front(S.node_stack)) = n - 1
        /\ \A i \in 1..n - 1 : Front(S.node_stack)[i] = S.node_stack[i]
        /\ Last(S.node_stack) = S.node_stack[n]
        /\ Last(S.node_stack) \in Nat
    BY <1>1, <1>2, FrontLast, ZenonT(30)
  <1> DEFINE A == pop_base(S)
             B == pop_token(A)
  <1>7. A \in ParseState
    BY <1>3 DEF pop_base, ParseState
  <1>19. /\ A.base = Last(S.base_stack) /\ A.base_stack = Front(S.base_stack)
         /\ A.token_stack = S.token_stack
         /\ A.list = S.list /\ A.list_stack = S.list_stack
         /\ A.node = S.node /\ A.node_stack = S.node_stack
         /\ A.lists = S.lists /\ A.indent_stack = S.indent_stack
        /\ A.indent = S.indent
    BY DEF pop_base, ParseState
  <1> HIDE DEF A
  <1>20. B \in ParseState
    BY <1>4, <1>7, <1>19 DEF pop_token, ParseState
  <1>21. /\ B.token_stack = Front(S.token_stack)
         /\ B.base = A.base /\ B.base_stack = A.base_stack
         /\ B.list = S.list /\ B.list_stack = S.list_stack
         /\ B.node = S.node /\ B.node_stack = S.node_stack
         /\ B.lists = S.lists /\ B.indent_stack = S.indent_stack
         /\ B.indent = S.indent
    BY <1>7, <1>19 DEF pop_token, ParseState
  <1>22. F = pop_list(B)
    BY DEF PopFrame, A, B
  <1> HIDE DEF B, F
  <1>8. F \in ParseState
    BY <1>5, <1>6, <1>20, <1>21, <1>22 DEF pop_list, ParseState
  <1>23. /\ F.list = Last(S.list_stack) /\ F.list_stack = Front(S.list_stack)
         /\ F.node = Last(S.node_stack) /\ F.node_stack = Front(S.node_stack)
         /\ F.base = B.base /\ F.base_stack = B.base_stack
         /\ F.token_stack = B.token_stack
         /\ F.lists = B.lists /\ F.indent_stack = B.indent_stack
         /\ F.indent = B.indent
    BY <1>20, <1>21, <1>22 DEF pop_list, ParseState
  <1>9. /\ F.base = Last(S.base_stack) /\ F.base_stack = Front(S.base_stack)
        /\ F.token_stack = Front(S.token_stack)
        /\ F.list = Last(S.list_stack) /\ F.list_stack = Front(S.list_stack)
        /\ F.node = Last(S.node_stack) /\ F.node_stack = Front(S.node_stack)
        /\ F.lists = S.lists /\ F.indent_stack = S.indent_stack
        /\ F.indent = S.indent
    BY <1>19, <1>21, <1>23
  <1>16. n \in Nat \ {0}
    BY <1>1
  <1>17. \A m \in Nat \ {0} : m \in 1..m /\ (\A k \in 1..m - 1 : k \in 1..m)
    OBVIOUS
  <1>14. n \in 1..n /\ (\A k \in 1..n - 1 : k \in 1..n)
    BY <1>16, <1>17, Zenon
  <1>15. F.list = S.list_stack[n] /\ F.node = S.node_stack[n]
    BY <1>5, <1>6, <1>9
  <1>18. \A i \in 1..n : S.base_stack[i] = i - 1
    BY <1>1 DEF Aligned
  <1>10. F.base = n - 1
    BY <1>3, <1>9, <1>14, <1>18
  <1>11. Aligned(F)
    <2>1. \A i \in 1..n - 1 : S.base_stack[i] = i - 1
      BY <1>1 DEF Aligned
    <2> QED BY <1>1, <1>3, <1>4, <1>5, <1>6, <1>9, <1>10, <2>1 DEF Aligned
  <1>12. ListsOK(F)
    <2>1. S.list \in 1..Len(S.lists) /\ Len(S.lists) \in Nat
      BY ListsTyped
    <2>2. \A i \in 1..n : S.list_stack[i] \in 1..S.list - 1
      BY <1>1 DEF ListsOK
    <2>3. \A i \in 1..n : S.lists[S.list_stack[i]] # <<>> => S.node_stack[i] = S.list_stack[i]
      BY <1>1 DEF ListsOK
    <2>4. \A i \in 1..n : \A j \in 1..i - 1 : S.list_stack[j] < S.list_stack[i]
      BY <1>1 DEF ListsOK
    <2>5. F.list \in 1..Len(S.lists)
      BY <1>14, <1>15, <2>1, <2>2
    <2>6. S.lists[F.list] # <<>> => F.node = F.list
      BY <1>14, <1>15, <2>3
    <2>7. Len(F.node_stack) = Len(F.list_stack) /\ Len(F.list_stack) = n - 1
      BY <1>5, <1>6, <1>9
    <2>8. ASSUME NEW i \in 1..n - 1
          PROVE  /\ F.list_stack[i] \in 1..F.list - 1
                 /\ S.lists[F.list_stack[i]] # <<>> => F.node_stack[i] = F.list_stack[i]
                 /\ \A j \in 1..i - 1 : F.list_stack[j] < F.list_stack[i]
      <3>1. i \in 1..n /\ n \in 1..n /\ i \in 1..n - 1
        BY <1>14, Zenon
      <3>2. F.list_stack[i] = S.list_stack[i] /\ F.node_stack[i] = S.node_stack[i]
        BY <1>5, <1>6, <1>9
      <3>3. F.list = S.list_stack[n] /\ S.list_stack[i] < S.list_stack[n]
        BY <1>5, <1>9, <2>4, <3>1
      <3>4. S.list_stack[i] \in 1..S.list_stack[n] - 1
        BY <2>1, <2>2, <3>1, <3>3
      <3>5. \A j \in 1..i - 1 : F.list_stack[j] = S.list_stack[j]
        BY <1>1, <1>5, <1>9
      <3> QED BY <2>3, <2>4, <3>1, <3>2, <3>3, <3>4, <3>5
    <2> QED BY <1>9, <2>5, <2>6, <2>7, <2>8 DEF ListsOK
  <1>13. \E i \in 1..Len(S.list_stack) : S.list_stack[i] = F.list
    BY <1>1, <1>14, <1>15
  <1> QED BY <1>1, <1>3, <1>4, <1>8, <1>9, <1>10, <1>11, <1>12, <1>13, <1>15 DEF F

LEMMA HandleDedent ==
  ASSUME NEW S \in ParseState, ListsOK(S), Aligned(S),
         S.indent_stack # <<>>, S.base # 0
  PROVE  /\ handle_dedent(S) \in ParseState
         /\ ListsOK(handle_dedent(S))
         /\ Aligned(handle_dedent(S))
         /\ Len(handle_dedent(S).token_stack) = handle_dedent(S).base
         /\ Len(handle_dedent(S).indent_stack) = Len(S.indent_stack) - 1
         /\ Len(handle_dedent(S).base_stack) = Len(S.base_stack) - 1
         /\ Frozen(S, handle_dedent(S))
  <1> DEFINE T == flush_token_stack(S)
             U == pop_indent(T)
             F == pop_base(U)
             head == Last(F.token_stack)
             G == PopFrame(U)
             D == handle_dedent(S)
  <1>1. /\ T \in ParseState
        /\ SameStacks(S, [T EXCEPT !.token_stack = S.token_stack])
        /\ ListsOK(T) /\ Aligned(T) /\ Len(T.token_stack) = T.base
        /\ Len(T.lists) = Len(S.lists)
        /\ \A l \in 1..Len(S.lists) : l # S.list => T.lists[l] = S.lists[l]
    BY FlushTokenStack
  <1>2. /\ T.indent_stack = S.indent_stack /\ T.base = S.base
        /\ T.base_stack = S.base_stack /\ T.list = S.list
        /\ T.list_stack = S.list_stack
    BY <1>1 DEF SameStacks, ParseState
  <1>3. /\ S.indent_stack \in Seq(Nat)
        /\ Front(S.indent_stack) \in Seq(Nat)
        /\ Len(Front(S.indent_stack)) = Len(S.indent_stack) - 1
    BY FrontLast DEF ParseState
  <1>4. U = [T EXCEPT !.indent_stack = Front(S.indent_stack)]
    BY <1>2 DEF pop_indent
  <1>5. U \in ParseState
    BY <1>1, <1>3, <1>4 DEF ParseState
  <1>6. /\ U.indent_stack = Front(S.indent_stack) /\ U.base = T.base
        /\ U.base_stack = T.base_stack /\ U.token_stack = T.token_stack
        /\ U.list = T.list /\ U.list_stack = T.list_stack /\ U.lists = T.lists
        /\ U.node = T.node /\ U.node_stack = T.node_stack
    BY <1>1, <1>4 DEF ParseState
  <1>7. ListsOK(U) /\ Aligned(U) /\ Len(U.token_stack) = U.base /\ U.base # 0
    BY <1>1, <1>2, <1>6 DEF ListsOK, Aligned
  <1>8. /\ G \in ParseState /\ ListsOK(G) /\ Aligned(G)
        /\ Len(G.token_stack) = G.base
        /\ G.lists = U.lists /\ G.indent_stack = U.indent_stack
        /\ Len(G.base_stack) = Len(U.base_stack) - 1
        /\ \E i \in 1..Len(U.list_stack) : U.list_stack[i] = G.list
        /\ Last(U.token_stack) \in Token
    BY <1>5, <1>7, PopFrameState
  <1>9. /\ F.token_stack = U.token_stack /\ F.list = U.list /\ F.lists = U.lists
        /\ G = pop_list(pop_token(F))
    BY <1>5 DEF PopFrame, pop_base, ParseState
  <1>10. tag_block(F, head, F.list) \in Token
    <2>1. head \in Token
      BY <1>8, <1>9
    <2>2. F.lists[F.list] \in Seq(Token) /\ F.list \in Nat
      BY <1>5, <1>7, <1>9, ListsTyped
    <2>3. F.lists[F.list] # <<>> => Last(F.lists[F.list]) \in Token
      BY <2>2, FrontLast
    <2> DEFINE end == IF F.lists[F.list] = <<>> THEN head.end
                      ELSE Last(F.lists[F.list]).end
    <2>4. end \in Nat /\ head.src \in Nat
      BY <2>1, <2>3 DEF Token
    <2>5. tag_block(F, head, F.list)
            = [type |-> "block", src |-> head.src, end |-> end, ptr |-> F.list]
      BY DEF tag_block, tag_token
    <2> QED BY <2>2, <2>4, <2>5 DEF Token, Types
  <1>11. D = output_token(G, tag_block(F, head, F.list))
    BY <1>9 DEF handle_dedent
  <1>12. /\ D \in ParseState /\ SameStacks(G, D) /\ ListsOK(D)
         /\ D.lists = [G.lists EXCEPT ![G.list] = Append(@, tag_block(F, head, F.list))]
         /\ Len(D.lists) = Len(G.lists)
    BY <1>8, <1>10, <1>11, OutputToken, ZenonT(60)
  <1>13. Aligned(D) /\ Len(D.token_stack) = D.base
    BY <1>8, <1>12 DEF SameStacks, Aligned
  <1>14. Len(D.indent_stack) = Len(S.indent_stack) - 1
    BY <1>3, <1>6, <1>8, <1>12 DEF SameStacks
  <1>15. Len(D.base_stack) = Len(S.base_stack) - 1
    BY <1>2, <1>6, <1>8, <1>12 DEF SameStacks
  <1>16. Frozen(S, D)
    <2> SUFFICES ASSUME NEW l \in 1..Len(S.lists), l # S.list,
                        \A i \in 1..Len(S.list_stack) : S.list_stack[i] # l
                 PROVE  D.lists[l] = S.lists[l]
      BY DEF Frozen
    <2>1. T.lists[l] = S.lists[l]
      BY <1>1
    <2>2. l # G.list
      BY <1>2, <1>6, <1>8
    <2>3. D.lists[l] = G.lists[l]
      <3>1. G.lists \in Seq(Seq(Token)) /\ l \in 1..Len(G.lists)
        BY <1>1, <1>6, <1>8, ListsTyped
      <3> QED BY <1>12, <2>2, <3>1
    <2> QED BY <1>6, <1>8, <2>1, <2>3
  <1> QED BY <1>12, <1>13, <1>14, <1>15, <1>16

LEMMA CloseList ==
  ASSUME NEW S \in ParseState, ListsOK(S), Aligned(S),
         Len(S.token_stack) = S.base, S.base # 0, NEW close \in Nat
  PROVE  /\ close_list(S, close) \in ParseState
         /\ ListsOK(close_list(S, close))
         /\ Aligned(close_list(S, close))
         /\ close_list(S, close).indent_stack = S.indent_stack
         /\ Len(close_list(S, close).base_stack) = Len(S.base_stack) - 1
         /\ Frozen(S, close_list(S, close))
  <1> DEFINE F == pop_base(S)
             open == Last(F.token_stack)
             G == PopFrame(S)
             D == close_list(S, close)
             token == tag_list(open, close, F.list)
  <1>1. /\ G \in ParseState /\ ListsOK(G) /\ Aligned(G)
        /\ G.lists = S.lists /\ G.indent_stack = S.indent_stack
        /\ Len(G.base_stack) = Len(S.base_stack) - 1
        /\ \E i \in 1..Len(S.list_stack) : S.list_stack[i] = G.list
        /\ Last(S.token_stack) \in Token
    BY PopFrameState
  <1>2. /\ F.token_stack = S.token_stack /\ F.list = S.list
        /\ G = pop_list(pop_token(F))
    BY DEF PopFrame, pop_base, ParseState
  <1>3. token \in Token
    BY <1>1, <1>2 DEF tag_list, tag_token, Token, Types, ParseState
  <1>4. D = output_token(G, token)
    BY <1>2 DEF close_list
  <1> HIDE DEF token, G, D
  <1>5. /\ D \in ParseState /\ SameStacks(G, D) /\ ListsOK(D)
        /\ D.lists = [G.lists EXCEPT ![G.list] = Append(@, token)]
        /\ Len(D.lists) = Len(G.lists)
    BY <1>1, <1>3, <1>4, OutputToken, Zenon
  <1>6. Aligned(D)
    BY <1>1, <1>5 DEF SameStacks, Aligned
  <1>7. Frozen(S, D)
    <2> SUFFICES ASSUME NEW l \in 1..Len(S.lists),
                        \A i \in 1..Len(S.list_stack) : S.list_stack[i] # l
                 PROVE  D.lists[l] = S.lists[l]
      BY DEF Frozen
    <2>1. l # G.list
      BY <1>1
    <2>2. G.lists \in Seq(Seq(Token)) /\ l \in 1..Len(G.lists)
      BY <1>1, ListsTyped
    <2> QED BY <1>1, <1>5, <2>1, <2>2
  <1> QED BY <1>1, <1>5, <1>6, <1>7 DEF SameStacks, D

(* A new frame, in which the tokens on the stack are those below it.       *)
LEMMA NewFrame ==
  ASSUME NEW S \in ParseState, ListsOK(S), 
         S.base = Len(S.base_stack),
         \A i \in 1..Len(S.base_stack) : S.base_stack[i] = i - 1,
         Len(S.list_stack) = S.base, Len(S.node_stack) = S.base,
         Len(S.token_stack) = S.base + 1
  PROVE  LET N == push_list(push_base(S)) IN
         /\ N \in ParseState
         /\ ListsOK(N)
         /\ Aligned(N)
         /\ N.indent_stack = S.indent_stack
         /\ Len(N.base_stack) = Len(S.base_stack) + 1
         /\ Frozen(S, N)
  <1> DEFINE n == S.base
             N == push_list(push_base(S))
             new == Len(S.lists) + 1
  <1>1. /\ n \in Nat
        /\ S.base_stack \in Seq(Nat) /\ Len(S.base_stack) = n
        /\ S.list_stack \in Seq(Nat) /\ Len(S.list_stack) = n
        /\ S.node_stack \in Seq(Nat) /\ Len(S.node_stack) = n
        /\ Len(S.token_stack) = n + 1
        /\ \A i \in 1..n : S.base_stack[i] = i - 1
        /\ S.node \in Nat
    BY DEF ParseState
  <1>13. /\ S.list \in 1..Len(S.lists) /\ Len(S.lists) \in Nat
         /\ S.lists \in Seq(Seq(Token))
    BY ListsTyped
  <1>14. S.list \in Nat /\ new \in Nat
    BY <1>13
  <1>2. <<>> \in Seq(Token)
    OBVIOUS
  <1> HIDE DEF n
  <1>4. /\ Append(S.base_stack, n) \in Seq(Nat)
        /\ Len(Append(S.base_stack, n)) = n + 1
        /\ \A i \in 1..n : Append(S.base_stack, n)[i] = S.base_stack[i]
        /\ Append(S.base_stack, n)[n + 1] = n
    BY <1>1, <1>14, AppendedAt
  <1>5. /\ Append(S.list_stack, S.list) \in Seq(Nat)
        /\ Len(Append(S.list_stack, S.list)) = n + 1
        /\ \A i \in 1..n : Append(S.list_stack, S.list)[i] = S.list_stack[i]
        /\ Append(S.list_stack, S.list)[n + 1] = S.list
    BY <1>1, <1>14, AppendedAt
  <1>6. /\ Append(S.node_stack, S.node) \in Seq(Nat)
        /\ Len(Append(S.node_stack, S.node)) = n + 1
        /\ \A i \in 1..n : Append(S.node_stack, S.node)[i] = S.node_stack[i]
        /\ Append(S.node_stack, S.node)[n + 1] = S.node
    BY <1>1, <1>14, AppendedAt
  <1>7. /\ Append(S.lists, <<>>) \in Seq(Seq(Token))
        /\ Len(Append(S.lists, <<>>)) = new
        /\ \A l \in 1..Len(S.lists) : Append(S.lists, <<>>)[l] = S.lists[l]
        /\ Append(S.lists, <<>>)[new] = <<>>
    BY <1>2, <1>13, AppendedAt
  <1> DEFINE B == push_base(S)
  <1>15. n + 1 \in Nat /\ 0 \in Nat
    BY <1>1
  <1>20. B = [S EXCEPT !.base_stack = Append(S.base_stack, n), !.base = n + 1]
    BY <1>1 DEF push_base, n
  <1>16. B \in ParseState
    BY <1>20, <1>4, <1>15 DEF ParseState
  <1>17. /\ B.base_stack = Append(S.base_stack, n) /\ B.base = n + 1
         /\ B.list = S.list /\ B.list_stack = S.list_stack
         /\ B.node = S.node /\ B.node_stack = S.node_stack
         /\ B.lists = S.lists /\ B.token_stack = S.token_stack
         /\ B.indent_stack = S.indent_stack
    BY <1>20 DEF ParseState
  <1> HIDE DEF B
  <1>3. N = [B EXCEPT !.list_stack = Append(S.list_stack, S.list),
                      !.lists = Append(S.lists, <<>>),
                      !.list = new,
                      !.node_stack = Append(S.node_stack, S.node),
                      !.node = 0]
    BY <1>17 DEF push_list, B
  <1> HIDE DEF N, new
  <1>8. N \in ParseState
    BY <1>3, <1>5, <1>6, <1>7, <1>14, <1>15, <1>16 DEF ParseState
  <1>18. /\ N.list_stack = Append(S.list_stack, S.list)
         /\ N.lists = Append(S.lists, <<>>) /\ N.list = new
         /\ N.node_stack = Append(S.node_stack, S.node)
         /\ N.base = B.base /\ N.base_stack = B.base_stack
         /\ N.token_stack = B.token_stack /\ N.indent_stack = B.indent_stack
    BY <1>3, <1>16 DEF ParseState
  <1> USE DEF new
  <1>9. /\ N.base_stack = Append(S.base_stack, n) /\ N.base = n + 1
        /\ N.list_stack = Append(S.list_stack, S.list)
        /\ N.lists = Append(S.lists, <<>>) /\ N.list = new
        /\ N.node_stack = Append(S.node_stack, S.node)
        /\ N.token_stack = S.token_stack /\ N.indent_stack = S.indent_stack
    BY <1>17, <1>18
  <1>10. Aligned(N)
    <2>1. ASSUME NEW i \in 1..n + 1
          PROVE  N.base_stack[i] = i - 1
      <3>1. CASE i \in 1..n
        BY <1>1, <1>4, <1>9, <3>1
      <3>2. CASE i = n + 1
        BY <1>1, <1>4, <1>9, <3>2
      <3> QED BY <1>1, <3>1, <3>2
    <2> QED BY <1>1, <1>4, <1>5, <1>6, <1>9, <2>1 DEF Aligned
  <1>11. ListsOK(N)
    <2>1. N.list \in 1..Len(N.lists) /\ N.lists[N.list] = <<>>
      BY <1>7, <1>9, <1>13
    <2>2. Len(N.node_stack) = Len(N.list_stack) /\ Len(N.list_stack) = n + 1
      BY <1>5, <1>6, <1>9
    <2>3. ASSUME NEW i \in 1..n
          PROVE  /\ N.list_stack[i] \in 1..N.list - 1
                 /\ N.list_stack[i] < S.list
                 /\ N.lists[N.list_stack[i]] # <<>> => N.node_stack[i] = N.list_stack[i]
                 /\ \A j \in 1..i - 1 : N.list_stack[j] < N.list_stack[i]
      <3>1. N.list_stack[i] = S.list_stack[i] /\ N.node_stack[i] = S.node_stack[i]
        BY <1>5, <1>6, <1>9
      <3>2. /\ S.list_stack[i] \in 1..S.list - 1
            /\ S.lists[S.list_stack[i]] # <<>> => S.node_stack[i] = S.list_stack[i]
            /\ \A j \in 1..i - 1 : S.list_stack[j] < S.list_stack[i]
        BY <1>1 DEF ListsOK
      <3>3. /\ S.list_stack[i] \in 1..N.list - 1 /\ S.list_stack[i] < S.list
            /\ S.list_stack[i] \in 1..Len(S.lists)
        <4> DEFINE a == S.list_stack[i]
                   b == S.list
                   c == Len(S.lists)
        <4>1. a \in 1..b - 1 /\ b \in 1..c /\ c \in Nat /\ N.list = c + 1
          BY <1>9, <1>13, <3>2
        <4> HIDE DEF a, b, c
        <4>2. a \in 1..(c + 1) - 1 /\ a < b /\ a \in 1..c
          BY <4>1
        <4> QED BY <4>1, <4>2 DEF a, b, c
      <3>4. N.lists[S.list_stack[i]] = S.lists[S.list_stack[i]]
        BY <1>7, <1>9, <3>3
      <3>5. \A j \in 1..i - 1 : N.list_stack[j] = S.list_stack[j]
        BY <1>1, <1>5, <1>9
      <3> QED BY <3>1, <3>2, <3>3, <3>4, <3>5
    <2>4. N.list_stack[n + 1] = S.list /\ N.node_stack[n + 1] = S.node
      BY <1>5, <1>6, <1>9
    <2>5. /\ S.list \in 1..N.list - 1
          /\ N.lists[S.list] # <<>> => S.node = S.list
      BY <1>7, <1>9, <1>13 DEF ListsOK
    <2>6. \A i \in 1..n + 1 : i \in 1..n \/ i = n + 1
      BY <1>1
    <2>7. \A j \in 1..(n + 1) - 1 : j \in 1..n
      BY <1>1
    <2> QED BY <2>1, <2>2, <2>3, <2>4, <2>5, <2>6, <2>7 DEF ListsOK
  <1>12. Frozen(S, N)
    BY <1>7, <1>9 DEF Frozen
  <1> QED BY <1>1, <1>4, <1>8, <1>9, <1>10, <1>11, <1>12 DEF N

(* A token that is pushed with nothing pending becomes the pending token.  *)
LEMMA PushToken ==
  ASSUME NEW S \in ParseState, ListsOK(S), Aligned(S),
         Len(S.token_stack) = S.base, NEW token \in Token
  PROVE  LET T == push_token(S, token) IN
         /\ T \in ParseState
         /\ ListsOK(T)
         /\ Aligned(T)
         /\ Len(T.token_stack) = T.base + 1
         /\ T.lists = S.lists /\ T.list = S.list
         /\ T.list_stack = S.list_stack /\ T.node_stack = S.node_stack
         /\ T.base = S.base /\ T.base_stack = S.base_stack
         /\ T.indent_stack = S.indent_stack
  <1> DEFINE T == push_token(S, token)
  <1>1. S.token_stack \in Seq(Token) /\ S.base \in Nat
    BY DEF ParseState
  <1>2. /\ Append(S.token_stack, token) \in Seq(Token)
        /\ Len(Append(S.token_stack, token)) = S.base + 1
    BY <1>1, AppendedAt
  <1>3. T = [S EXCEPT !.token_stack = Append(S.token_stack, token)]
    BY DEF push_token, ParseState
  <1>4. T \in ParseState
    BY <1>2, <1>3 DEF ParseState
  <1>5. /\ T.token_stack = Append(S.token_stack, token)
        /\ T.lists = S.lists /\ T.list = S.list /\ T.node = S.node
        /\ T.list_stack = S.list_stack /\ T.node_stack = S.node_stack
        /\ T.base = S.base /\ T.base_stack = S.base_stack
        /\ T.indent_stack = S.indent_stack
    BY <1>3 DEF ParseState
  <1>6. ListsOK(T) /\ Aligned(T)
    BY <1>2, <1>5 DEF ListsOK, Aligned
  <1> QED BY <1>2, <1>4, <1>5, <1>6

(* What the handlers of identifiers, brackets and colons do to a state.    *)
Kept(S, O) ==
  /\ O \in ParseState
  /\ ListsOK(O)
  /\ Aligned(O)
  /\ Frozen(S, O)

LEMMA Handlers ==
  ASSUME NEW S \in ParseState, ListsOK(S), Aligned(S), NEW token \in Token
  PROVE  /\ Kept(S, flush_token_stack(S))
         /\ Len(flush_token_stack(S).token_stack) = flush_token_stack(S).base
         /\ flush_token_stack(S).base = S.base
         /\ flush_token_stack(S).base_stack = S.base_stack
         /\ flush_token_stack(S).indent_stack = S.indent_stack
         /\ flush_token_stack(S).list_stack = S.list_stack
         /\ Kept(S, handle_word(S, token))
         /\ handle_word(S, token).base_stack = S.base_stack
         /\ handle_word(S, token).indent_stack = S.indent_stack
         /\ Kept(S, output_token(S, token))
         /\ output_token(S, token).base_stack = S.base_stack
         /\ output_token(S, token).indent_stack = S.indent_stack
         /\ Kept(S, handle_list_open(S, token))
         /\ Len(handle_list_open(S, token).base_stack) = Len(S.base_stack) + 1
         /\ handle_list_open(S, token).indent_stack = S.indent_stack
         /\ Kept(S, handle_def(S))
         /\ Len(handle_def(S).base_stack) - Len(handle_def(S).indent_stack)
              = Len(S.base_stack) - Len(S.indent_stack)
  <1> DEFINE F == flush_token_stack(S)
             W == handle_word(S, token)
             O == output_token(S, token)
             L == handle_list_open(S, token)
             D == handle_def(S)
  <1>1. /\ F \in ParseState
        /\ SameStacks(S, [F EXCEPT !.token_stack = S.token_stack])
        /\ ListsOK(F) /\ Aligned(F) /\ Len(F.token_stack) = F.base
        /\ Len(F.lists) = Len(S.lists)
        /\ \A l \in 1..Len(S.lists) : l # S.list => F.lists[l] = S.lists[l]
    BY FlushTokenStack
  <1>2. /\ F.base = S.base /\ F.base_stack = S.base_stack
        /\ F.indent_stack = S.indent_stack
        /\ F.list = S.list /\ F.list_stack = S.list_stack
    BY <1>1 DEF SameStacks, ParseState
  <1>3. Kept(S, F)
    BY <1>1 DEF Kept, Frozen
  <1>4. /\ W \in ParseState /\ ListsOK(W) /\ Aligned(W)
        /\ Len(W.token_stack) = W.base + 1
        /\ W.lists = F.lists /\ W.list = F.list
        /\ W.list_stack = F.list_stack /\ W.node_stack = F.node_stack
        /\ W.base = F.base /\ W.base_stack = F.base_stack
        /\ W.indent_stack = F.indent_stack
    <2>1. W = push_token(F, token)
      BY DEF handle_word
    <2> HIDE DEF F, W
    <2> QED BY <1>1, <2>1, PushToken, Zenon
  <1>5. Kept(S, W)
    BY <1>1, <1>4 DEF Kept, Frozen
  <1>6. Kept(S, O) /\ O.base_stack = S.base_stack /\ O.indent_stack = S.indent_stack
    <2>1. /\ O \in ParseState /\ SameStacks(S, O) /\ ListsOK(O)
          /\ O.lists = [S.lists EXCEPT ![S.list] = Append(@, token)]
          /\ Len(O.lists) = Len(S.lists)
      BY OutputToken, Zenon
    <2>2. Aligned(O)
      BY <2>1 DEF SameStacks, Aligned
    <2>3. Frozen(S, O)
      BY <2>1, ListsTyped DEF Frozen
    <2> QED BY <2>1, <2>2, <2>3 DEF Kept, SameStacks
  <1>7. /\ Kept(S, L) /\ Len(L.base_stack) = Len(S.base_stack) + 1
        /\ L.indent_stack = S.indent_stack
    <2>1. L = push_list(push_base(W))
      BY DEF handle_list_open, handle_word
    <2>2. /\ W.base = Len(W.base_stack)
          /\ \A i \in 1..Len(W.base_stack) : W.base_stack[i] = i - 1
          /\ Len(W.list_stack) = W.base /\ Len(W.node_stack) = W.base
      BY <1>4 DEF Aligned
    <2> HIDE DEF W
    <2>3. /\ L \in ParseState /\ ListsOK(L) /\ Aligned(L)
          /\ L.indent_stack = W.indent_stack
          /\ Len(L.base_stack) = Len(W.base_stack) + 1
          /\ Frozen(W, L)
      BY <1>4, <2>1, <2>2, NewFrame, Zenon
    <2>4. Frozen(S, L)
      <3> SUFFICES ASSUME NEW l \in 1..Len(S.lists), l # S.list,
                          \A i \in 1..Len(S.list_stack) : S.list_stack[i] # l
                   PROVE  L.lists[l] = S.lists[l]
        BY DEF Frozen
      <3>1. W.lists[l] = S.lists[l] /\ Len(W.lists) = Len(S.lists)
        BY <1>1, <1>4
      <3>2. l # W.list /\ \A i \in 1..Len(W.list_stack) : W.list_stack[i] # l
        BY <1>2, <1>4
      <3> QED BY <2>3, <3>1, <3>2 DEF Frozen
    <2> QED BY <1>2, <1>4, <2>3, <2>4 DEF Kept
  <1>8. /\ Kept(S, D)
        /\ Len(D.base_stack) - Len(D.indent_stack) = Len(S.base_stack) - Len(S.indent_stack)
    <2>1. CASE is_token_stack_empty(S)
      BY <2>1 DEF handle_def, Kept, Frozen
    <2>2. CASE ~is_token_stack_empty(S)
      <3> DEFINE I == push_indent(S)
      <3>1. /\ S.indent_stack \in Seq(Nat) /\ S.indent \in Nat
            /\ Len(S.indent_stack) \in Nat /\ Len(S.base_stack) \in Nat
        BY LenProperties DEF ParseState
      <3>2. /\ Append(S.indent_stack, S.indent) \in Seq(Nat)
            /\ Len(Append(S.indent_stack, S.indent)) = Len(S.indent_stack) + 1
        BY <3>1, Appended
      <3>3. I = [S EXCEPT !.indent_stack = Append(S.indent_stack, S.indent)]
        BY DEF push_indent, ParseState
      <3>4. I \in ParseState
        BY <3>2, <3>3 DEF ParseState
      <3>5. /\ I.indent_stack = Append(S.indent_stack, S.indent)
            /\ I.lists = S.lists /\ I.list = S.list /\ I.node = S.node
            /\ I.list_stack = S.list_stack /\ I.node_stack = S.node_stack
            /\ I.base = S.base /\ I.base_stack = S.base_stack
            /\ I.token_stack = S.token_stack
        BY <3>3 DEF ParseState
      <3>6. ListsOK(I)
        BY <3>5 DEF ListsOK
      <3>7. /\ I.base = Len(I.base_stack)
            /\ \A i \in 1..Len(I.base_stack) : I.base_stack[i] = i - 1
            /\ Len(I.list_stack) = I.base /\ Len(I.node_stack) = I.base
            /\ Len(I.token_stack) = I.base + 1
        BY <2>2, <3>5 DEF Aligned, is_token_stack_empty
      <3>8. D = push_list(push_base(I))
        BY <2>2 DEF handle_def
      <3> HIDE DEF I, D
      <3>9. /\ D \in ParseState /\ ListsOK(D) /\ Aligned(D)
            /\ D.indent_stack = I.indent_stack
            /\ Len(D.base_stack) = Len(I.base_stack) + 1
            /\ Frozen(I, D)
        BY <3>4, <3>6, <3>7, <3>8, NewFrame, Zenon
      <3>10. Frozen(S, D)
        BY <3>5, <3>9 DEF Frozen
      <3>11. Len(D.base_stack) - Len(D.indent_stack) = Len(S.base_stack) - Len(S.indent_stack)
        <4>1. /\ Len(D.indent_stack) = Len(S.indent_stack) + 1
              /\ Len(D.base_stack) = Len(S.base_stack) + 1
          BY <3>2, <3>5, <3>9
        <4> QED BY <3>1, <4>1
      <3> QED BY <3>9, <3>10, <3>11 DEF Kept
    <2> QED BY <2>1, <2>2
  <1> QED BY <1>1, <1>2, <1>3, <1>4, <1>5, <1>6, <1>7, <1>8

-----------------------------------------------------------------------------
(* The invariant is inductive.                                             *)

(* Closing a definition: with no frame open there was a "]" too many.      *)
LEMMA DedentSafe ==
  ASSUME NEW S \in ParseState, ListsOK(S), Aligned(S), NEW indent \in Nat,
         is_dedent(S, indent)
  PROVE  /\ Len(S.indent_stack) \in Nat \ {0}
         /\ Len(S.base_stack) \in Nat
         /\ Underflows(flush_token_stack(S)) <=> S.base = 0
         /\ S.base = Len(S.base_stack)
  <1> DEFINE F == flush_token_stack(S)
  <1>1. /\ F \in ParseState
        /\ Len(F.token_stack) = F.base
        /\ SameStacks(S, [F EXCEPT !.token_stack = S.token_stack])
    BY FlushTokenStack
  <1>2. /\ F.base = S.base /\ F.base_stack = S.base_stack
        /\ F.list_stack = S.list_stack
    BY <1>1 DEF SameStacks, ParseState
  <1>3. /\ S.indent_stack \in Seq(Nat) /\ S.base_stack \in Seq(Nat)
        /\ S.list_stack \in Seq(Nat) /\ F.token_stack \in Seq(Token)
    BY <1>1 DEF ParseState
  <1>4. Len(S.indent_stack) \in Nat \ {0}
    BY <1>3, FrontLast DEF is_dedent
  <1>5. /\ S.base = Len(S.base_stack) /\ Len(S.list_stack) = S.base
        /\ S.base \in Nat
    BY DEF Aligned, ParseState
  <1>6. Underflows(F) <=> S.base = 0
    <2>1. (S.base_stack = <<>>) <=> (S.base = 0)
      BY <1>3, <1>5, EmptySeq
    <2>2. (S.list_stack = <<>>) <=> (S.base = 0)
      BY <1>3, <1>5, EmptySeq
    <2>3. (F.token_stack = <<>>) <=> (S.base = 0)
      BY <1>1, <1>2, <1>3, EmptySeq
    <2> QED BY <1>2, <2>1, <2>2, <2>3 DEF Underflows
  <1> QED BY <1>4, <1>5, <1>6

LEMMA TakeTypes ==
  ASSUME TypeOK, NEW kind \in AllKinds, Take(kind)
  PROVE  /\ input' \in Seq(AllKinds)
         /\ unclosed' \in Int
         /\ here \in Nat
         /\ Len(input') \in Nat
         /\ pc = "read"
         /\ unclosed' = IF kind = "open" THEN unclosed + 1
                        ELSE IF kind = "close" THEN unclosed - 1 ELSE unclosed
  <1>1. input \in Seq(AllKinds) /\ unclosed \in Int
    BY DEF TypeOK
  <1>2. input' \in Seq(AllKinds) /\ Len(input) \in Nat /\ Len(input') \in Nat
    BY <1>1, Appended, LenProperties DEF Take
  <1>3. unclosed' = IF kind = "open" THEN unclosed + 1
                    ELSE IF kind = "close" THEN unclosed - 1 ELSE unclosed
    BY DEF Take, AllKinds
  <1> QED BY <1>1, <1>2, <1>3 DEF Take, here

LEMMA InitIInv == Init => IInv
  <1> SUFFICES ASSUME Init PROVE IInv
    OBVIOUS
  <1>1. P \in ParseState
    BY DEF Init, parse_init, ParseState, Token
  <1>2. TypeOK
    BY <1>1 DEF Init, TypeOK
  <1>3. Aligned(P) /\ ListsOK(P) /\ FramesCounted
    BY DEF Init, parse_init, Aligned, ListsOK, FramesCounted
  <1> QED BY <1>2, <1>3 DEF Init, IInv, NoUnderflow

LEMMA NextIInv == IInv /\ [Next]_vars => IInv'
  <1> SUFFICES ASSUME IInv, [Next]_vars PROVE IInv'
    OBVIOUS
  <1>1. /\ TypeOK /\ P \in ParseState /\ unclosed \in Int /\ arg \in Nat
        /\ input \in Seq(AllKinds) /\ Len(input) \in Nat
        /\ pc \in {"read", "indent", "close", "end", "done", "undefined"}
    BY LenProperties DEF IInv, TypeOK
  <1>2. pc # "undefined" =>
          /\ Aligned(P) /\ ListsOK(P)
          /\ Len(P.base_stack) =
               Len(P.indent_stack) + unclosed + (IF pc = "close" THEN 1 ELSE 0)
          /\ pc = "close" => Len(P.token_stack) = P.base
    BY DEF IInv, FramesCounted
  <1>3. /\ Len(P.base_stack) \in Nat /\ Len(P.indent_stack) \in Nat
    BY <1>1, LenProperties DEF ParseState
  <1>20. DEFINE extra == IF pc = "close" THEN 1 ELSE 0
  <1>21. /\ extra \in Int
         /\ pc # "undefined" =>
              Len(P.base_stack) = Len(P.indent_stack) + unclosed + extra
    BY <1>2
  (* The token that a word, a literal or a "[" makes. *)
  <1>4. \A type \in Types : here \in Nat => tag_token(type, here, here, 0) \in Token
    BY DEF tag_token, Token
  <1>5. ASSUME NEW indent \in Indents, TakeIndent(indent) PROVE IInv'
    <2>1. /\ input' \in Seq(AllKinds) /\ unclosed' = unclosed /\ pc = "read"
          /\ P' = P /\ pc' = "indent" /\ arg' = indent /\ arg' \in Nat
      BY <1>1, <1>5, TakeTypes, IndentsAssumption DEF TakeIndent, AllKinds
    <2> QED BY <1>1, <1>2, <1>3, <2>1 DEF IInv, TypeOK, NoUnderflow, FramesCounted
  <1>6. CASE TakeWord
    <2>1. /\ input' \in Seq(AllKinds) /\ unclosed' = unclosed /\ pc = "read"
          /\ P' = handle_word(P, tag_token("word", here, here, 0))
          /\ pc' = "read" /\ arg' = arg /\ here \in Nat
      BY <1>1, <1>6, TakeTypes DEF TakeWord, AllKinds
    <2>2. tag_token("word", here, here, 0) \in Token
      BY <1>4, <2>1 DEF Types
    <2>3. /\ P' \in ParseState /\ ListsOK(P') /\ Aligned(P')
          /\ P'.base_stack = P.base_stack /\ P'.indent_stack = P.indent_stack
      BY <1>1, <1>2, <2>1, <2>2, Handlers DEF Kept
    <2> QED BY <1>1, <1>2, <2>1, <2>3
            DEF IInv, TypeOK, NoUnderflow, FramesCounted, ListsOK, Aligned
  <1>7. CASE TakeLiteral
    <2>1. /\ input' \in Seq(AllKinds) /\ unclosed' = unclosed /\ pc = "read"
          /\ P' = output_token(P, tag_token("lit", here, here, 0))
          /\ pc' = "read" /\ arg' = arg /\ here \in Nat
      BY <1>1, <1>7, TakeTypes DEF TakeLiteral, AllKinds
    <2>2. tag_token("lit", here, here, 0) \in Token
      BY <1>4, <2>1 DEF Types
    <2>3. /\ P' \in ParseState /\ ListsOK(P') /\ Aligned(P')
          /\ P'.base_stack = P.base_stack /\ P'.indent_stack = P.indent_stack
      BY <1>1, <1>2, <2>1, <2>2, Handlers DEF Kept
    <2> QED BY <1>1, <1>2, <2>1, <2>3
            DEF IInv, TypeOK, NoUnderflow, FramesCounted, ListsOK, Aligned
  <1>8. CASE TakeError
    <2>1. /\ input' \in Seq(AllKinds) /\ unclosed' = unclosed
          /\ P' = P /\ pc' = pc /\ arg' = arg
      BY <1>1, <1>8, TakeTypes DEF TakeError, AllKinds
    <2> QED BY <1>1, <2>1 DEF IInv, TypeOK, NoUnderflow, FramesCounted
  <1>9. CASE TakeOpen
    <2>1. /\ input' \in Seq(AllKinds) /\ unclosed' = unclosed + 1 /\ pc = "read"
          /\ P' = handle_list_open(P, tag_token("op", here, here, 0))
          /\ pc' = "read" /\ arg' = arg /\ here \in Nat
      BY <1>1, <1>9, TakeTypes DEF TakeOpen, AllKinds
    <2>2. tag_token("op", here, here, 0) \in Token
      BY <1>4, <2>1 DEF Types
    <2>3. /\ P' \in ParseState /\ ListsOK(P') /\ Aligned(P')
          /\ Len(P'.base_stack) = Len(P.base_stack) + 1
          /\ P'.indent_stack = P.indent_stack
      BY <1>1, <1>2, <2>1, <2>2, Handlers DEF Kept
    <2>4. FramesCounted'
      <3>1. Len(P.base_stack) = Len(P.indent_stack) + unclosed
        BY <1>1, <1>2, <1>3, <2>1
      <3>2. Len(P'.base_stack) = Len(P'.indent_stack) + unclosed'
        <4>1. /\ Len(P'.base_stack) = Len(P.base_stack) + 1
              /\ Len(P'.indent_stack) = Len(P.indent_stack)
              /\ unclosed' = unclosed + 1
          BY <2>1, <2>3
        <4>2. unclosed \in Int /\ Len(P.indent_stack) \in Nat
          BY <1>1, <1>3
        <4> DEFINE n == Len(P.indent_stack)
        <4>3. \A m \in Int, k \in Nat : (k + m) + 1 = k + (m + 1)
          OBVIOUS
        <4>4. (n + unclosed) + 1 = n + (unclosed + 1)
          BY <4>2, <4>3, Zenon
        <4> QED BY <3>1, <4>1, <4>4
      <3>3. unclosed' \in Int /\ Len(P'.indent_stack) \in Nat
        BY <1>1, <1>3, <2>1, <2>3
      <3> QED BY <2>1, <3>2, <3>3 DEF FramesCounted
    <2>5. TypeOK' /\ NoUnderflow'
      BY <1>1, <2>1, <2>3 DEF TypeOK, NoUnderflow
    <2> QED BY <2>1, <2>3, <2>4, <2>5 DEF IInv, ListsOK, Aligned
  <1>10. CASE TakeClose
    <2>1. /\ input' \in Seq(AllKinds) /\ unclosed' = unclosed - 1 /\ pc = "read"
          /\ P' = flush_token_stack(P) /\ pc' = "close" /\ arg' = 0
      BY <1>1, <1>10, TakeTypes DEF TakeClose, AllKinds
    <2>2. /\ P' \in ParseState /\ ListsOK(P') /\ Aligned(P')
          /\ P'.base_stack = P.base_stack /\ P'.indent_stack = P.indent_stack
          /\ Len(P'.token_stack) = P'.base
      BY <1>1, <1>2, <2>1, FlushTokenStack DEF SameStacks, ParseState
    <2>3. FramesCounted'
      BY <1>1, <1>2, <1>3, <2>1, <2>2 DEF FramesCounted
    <2>4. TypeOK' /\ NoUnderflow'
      BY <1>1, <2>1, <2>2 DEF TypeOK, NoUnderflow
    <2> QED BY <2>1, <2>2, <2>3, <2>4 DEF IInv, ListsOK, Aligned
  <1>11. CASE TakeDef
    <2>1. /\ input' \in Seq(AllKinds) /\ unclosed' = unclosed /\ pc = "read"
          /\ P' = handle_def(P) /\ pc' = "read" /\ arg' = arg /\ here \in Nat
      BY <1>1, <1>11, TakeTypes DEF TakeDef, AllKinds
    <2>2. tag_token("op", here, here, 0) \in Token
      BY <1>4, <2>1 DEF Types
    <2>3. /\ P' \in ParseState /\ ListsOK(P') /\ Aligned(P')
          /\ Len(P'.base_stack) - Len(P'.indent_stack)
               = Len(P.base_stack) - Len(P.indent_stack)
      BY <1>1, <1>2, <2>1, <2>2, Handlers DEF Kept
    <2>4. Len(P'.base_stack) \in Nat /\ Len(P'.indent_stack) \in Nat
      BY <2>3, LenProperties DEF ParseState
    <2>5. FramesCounted'
      <3>1. Len(P.base_stack) = Len(P.indent_stack) + unclosed
        BY <1>1, <1>2, <1>3, <2>1
      <3>2. Len(P'.base_stack) = Len(P'.indent_stack) + unclosed
        BY <1>1, <1>3, <2>3, <2>4, <3>1
      <3> QED BY <1>1, <2>1, <2>4, <3>2 DEF FramesCounted
    <2>6. TypeOK' /\ NoUnderflow'
      BY <1>1, <2>1, <2>3 DEF TypeOK, NoUnderflow
    <2> QED BY <2>1, <2>3, <2>5, <2>6 DEF IInv, ListsOK, Aligned
  (* A definition is closed, in one of the four handlers that do so. *)
  <1>12. ASSUME NEW indent \in Nat, is_dedent(P, indent), pc # "undefined",
                CloseFrame(flush_token_stack(P), handle_dedent(P), pc),
                unclosed' = unclosed, input' \in Seq(AllKinds), arg' = arg
         PROVE  IInv'
    <2>1. /\ Len(P.indent_stack) \in Nat \ {0}
          /\ Underflows(flush_token_stack(P)) <=> P.base = 0
          /\ P.base = Len(P.base_stack)
      BY <1>1, <1>2, <1>12, DedentSafe
    <2>2. CASE P.base = 0
      <3>1. P' = P /\ pc' = "undefined"
        BY <1>12, <2>1, <2>2 DEF CloseFrame
      <3>2. unclosed < 0
        <4>1. 0 = Len(P.indent_stack) + unclosed + extra /\ extra >= 0
          BY <1>12, <1>21, <2>1, <2>2
        <4> HIDE DEF extra
        <4> QED BY <1>1, <1>21, <2>1, <4>1
      <3> QED BY <1>1, <1>12, <3>1, <3>2 DEF IInv, TypeOK, NoUnderflow
    <2>3. CASE P.base # 0
      <3>1. P' = handle_dedent(P) /\ pc' = pc
        BY <1>12, <2>1, <2>3 DEF CloseFrame
      <3>2. P.indent_stack # <<>>
        BY <1>12 DEF is_dedent
      <3>3. /\ P' \in ParseState /\ ListsOK(P') /\ Aligned(P')
            /\ Len(P'.token_stack) = P'.base
            /\ Len(P'.indent_stack) = Len(P.indent_stack) - 1
            /\ Len(P'.base_stack) = Len(P.base_stack) - 1
        BY <1>1, <1>2, <1>12, <2>3, <3>1, <3>2, HandleDedent
      <3>4. FramesCounted'
        <4>1. unclosed' = unclosed /\ extra' = extra
          BY <1>12, <3>1
        <4>2. Len(P.base_stack) = Len(P.indent_stack) + unclosed + extra
          BY <1>12, <1>21
        <4>3. Len(P'.base_stack) = Len(P'.indent_stack) + unclosed + extra
          <5> HIDE DEF extra
          <5> QED BY <1>1, <1>3, <1>21, <3>3, <4>2
        <4> QED BY <4>1, <4>3 DEF FramesCounted
      <3>5. TypeOK' /\ NoUnderflow'
        BY <1>1, <1>12, <3>1, <3>3 DEF TypeOK, NoUnderflow
      <3> QED BY <3>1, <3>3, <3>4, <3>5 DEF IInv, ListsOK, Aligned
    <2> QED BY <2>2, <2>3
  <1>13. CASE TakeEnd
    <2>1. /\ input' \in Seq(AllKinds) /\ unclosed' = unclosed /\ pc = "read"
          /\ arg' = arg
      BY <1>1, <1>13, TakeTypes DEF TakeEnd, AllKinds
    <2>2. CASE is_dedent(P, 0)
      <3>1. CloseFrame(flush_token_stack(P), handle_dedent(P), pc)
        BY <1>13, <2>1, <2>2 DEF TakeEnd
      <3> QED BY <1>12, <2>1, <2>2, <3>1
    <2>3. CASE ~is_dedent(P, 0)
      BY <1>1, <1>13, <2>1, <2>3 DEF TakeEnd, IInv, TypeOK, NoUnderflow, FramesCounted
    <2> QED BY <2>2, <2>3
  <1>14. CASE TakeNothing
    <2>1. /\ P' = flush_token_stack(P) /\ pc = "read" /\ pc' = "end" /\ arg' = 0
          /\ input' = input /\ unclosed' = unclosed
      BY <1>14 DEF TakeNothing
    <2>2. /\ P' \in ParseState /\ ListsOK(P') /\ Aligned(P')
          /\ P'.base_stack = P.base_stack /\ P'.indent_stack = P.indent_stack
      BY <1>1, <1>2, <2>1, FlushTokenStack DEF SameStacks, ParseState
    <2> QED BY <1>1, <1>2, <2>1, <2>2
            DEF IInv, TypeOK, NoUnderflow, FramesCounted, ListsOK, Aligned
  <1>15. CASE Dedent
    <2>1. /\ is_dedent(P, arg) /\ pc # "undefined"
          /\ CloseFrame(flush_token_stack(P), handle_dedent(P), pc)
          /\ arg' = arg /\ input' = input /\ unclosed' = unclosed
      BY <1>15 DEF Dedent
    <2> QED BY <1>1, <1>12, <2>1
  <1>16. CASE IndentDone
    <2>1. /\ P' = [P EXCEPT !.indent = arg] /\ pc = "indent" /\ pc' = "read"
          /\ arg' = arg /\ input' = input /\ unclosed' = unclosed
      BY <1>16 DEF IndentDone
    <2>2. P' \in ParseState
      BY <1>1, <2>1 DEF ParseState
    <2>3. /\ P'.indent_stack = P.indent_stack /\ P'.token_stack = P.token_stack
          /\ P'.base = P.base /\ P'.base_stack = P.base_stack
          /\ P'.list = P.list /\ P'.list_stack = P.list_stack
          /\ P'.node = P.node /\ P'.node_stack = P.node_stack
          /\ P'.lists = P.lists
      BY <1>1, <2>1 DEF ParseState
    <2>4. Aligned(P') /\ ListsOK(P')
      BY <1>2, <2>1, <2>3 DEF Aligned, ListsOK
    <2> QED BY <1>1, <1>2, <2>1, <2>2, <2>3, <2>4
            DEF IInv, TypeOK, NoUnderflow, FramesCounted, ListsOK, Aligned
  <1>17. CASE CloseDone
    <2>1. /\ pc = "close" /\ CloseFrame(P, close_list(P, Len(input)), "read")
          /\ arg' = arg /\ input' = input /\ unclosed' = unclosed
      BY <1>17 DEF CloseDone
    <2>2. /\ P.base = Len(P.base_stack) /\ P.base \in Nat
          /\ Len(P.token_stack) = P.base /\ Len(P.list_stack) = P.base
          /\ P.base_stack \in Seq(Nat) /\ P.list_stack \in Seq(Nat)
          /\ P.token_stack \in Seq(Token)
      BY <1>1, <1>2, <2>1 DEF Aligned, ParseState
    <2>3. Underflows(P) <=> P.base = 0
      BY <2>2, EmptySeq DEF Underflows
    <2>4. CASE P.base = 0
      <3>1. P' = P /\ pc' = "undefined"
        BY <2>1, <2>3, <2>4 DEF CloseFrame
      <3>2. unclosed < 0
        BY <1>1, <1>2, <1>3, <2>1, <2>2, <2>4
      <3> QED BY <1>1, <2>1, <3>1, <3>2 DEF IInv, TypeOK, NoUnderflow
    <2>5. CASE P.base # 0
      <3>1. P' = close_list(P, Len(input)) /\ pc' = "read"
        BY <2>1, <2>3, <2>5 DEF CloseFrame
      <3>2. /\ P' \in ParseState /\ ListsOK(P') /\ Aligned(P')
            /\ P'.indent_stack = P.indent_stack
            /\ Len(P'.base_stack) = Len(P.base_stack) - 1
        BY <1>1, <1>2, <2>1, <2>2, <2>5, <3>1, CloseList
      <3>3. FramesCounted'
        BY <1>1, <1>2, <1>3, <2>1, <3>1, <3>2 DEF FramesCounted
      <3>4. TypeOK' /\ NoUnderflow'
        BY <1>1, <2>1, <3>1, <3>2 DEF TypeOK, NoUnderflow
      <3> QED BY <3>1, <3>2, <3>3, <3>4 DEF IInv, ListsOK, Aligned
    <2> QED BY <2>4, <2>5
  <1>18. CASE EndDone
    BY <1>1, <1>2, <1>18 DEF EndDone, IInv, TypeOK, NoUnderflow, FramesCounted
  <1>19. CASE Stopped \/ UNCHANGED vars
    BY <1>19 DEF Stopped, vars, IInv, TypeOK, NoUnderflow, FramesCounted
  <1> QED BY <1>5, <1>6, <1>7, <1>8, <1>9, <1>10, <1>11, <1>13, <1>14, <1>15,
             <1>16, <1>17, <1>18, <1>19 DEF Next

(* What a step writes to.                                                  *)
LEMMA NextFrozen == IInv /\ [Next]_vars => Frozen(P, P')
  <1> SUFFICES ASSUME IInv, [Next]_vars PROVE Frozen(P, P')
    OBVIOUS
  <1>1. TypeOK /\ P \in ParseState
    BY DEF IInv, TypeOK
  <1>2. pc # "undefined" =>
          /\ Aligned(P) /\ ListsOK(P)
          /\ pc = "close" => Len(P.token_stack) = P.base
    BY DEF IInv
  <1>3. ASSUME P'.lists = P.lists PROVE Frozen(P, P')
    BY <1>3 DEF Frozen
  <1>4. \A type \in Types : here \in Nat => tag_token(type, here, here, 0) \in Token
    BY DEF tag_token, Token
  <1>5. ASSUME NEW indent \in Indents, TakeIndent(indent) PROVE Frozen(P, P')
    BY <1>3, <1>5 DEF TakeIndent
  <1>6. CASE TakeWord
    <2>1. /\ pc = "read" /\ here \in Nat
          /\ P' = handle_word(P, tag_token("word", here, here, 0))
      BY <1>1, <1>6, TakeTypes DEF TakeWord, AllKinds
    <2> QED BY <1>1, <1>2, <1>4, <2>1, Handlers DEF Kept, Types
  <1>7. CASE TakeLiteral
    <2>1. /\ pc = "read" /\ here \in Nat
          /\ P' = output_token(P, tag_token("lit", here, here, 0))
      BY <1>1, <1>7, TakeTypes DEF TakeLiteral, AllKinds
    <2> QED BY <1>1, <1>2, <1>4, <2>1, Handlers DEF Kept, Types
  <1>8. CASE TakeError
    BY <1>3, <1>8 DEF TakeError
  <1>9. CASE TakeOpen
    <2>1. /\ pc = "read" /\ here \in Nat
          /\ P' = handle_list_open(P, tag_token("op", here, here, 0))
      BY <1>1, <1>9, TakeTypes DEF TakeOpen, AllKinds
    <2> QED BY <1>1, <1>2, <1>4, <2>1, Handlers DEF Kept, Types
  <1>10. CASE TakeClose \/ TakeNothing
    <2>1. pc = "read" /\ P' = flush_token_stack(P)
      BY <1>10 DEF TakeClose, TakeNothing, Take
    <2> QED BY <1>1, <1>2, <2>1, FlushTokenStack DEF Frozen
  <1>11. CASE TakeDef
    <2>1. pc = "read" /\ here \in Nat /\ P' = handle_def(P)
      BY <1>1, <1>11, TakeTypes DEF TakeDef, AllKinds
    <2> QED BY <1>1, <1>2, <1>4, <2>1, Handlers DEF Kept, Types
  <1>12. ASSUME NEW indent \in Nat, is_dedent(P, indent), pc # "undefined",
                CloseFrame(flush_token_stack(P), handle_dedent(P), pc)
         PROVE  Frozen(P, P')
    <2>1. Underflows(flush_token_stack(P)) <=> P.base = 0
      BY <1>1, <1>2, <1>12, DedentSafe
    <2>2. CASE P.base = 0
      BY <1>3, <1>12, <2>1, <2>2 DEF CloseFrame
    <2>3. CASE P.base # 0
      <3>1. P' = handle_dedent(P) /\ P.indent_stack # <<>>
        BY <1>12, <2>1, <2>3 DEF CloseFrame, is_dedent
      <3> QED BY <1>1, <1>2, <1>12, <2>3, <3>1, HandleDedent
    <2> QED BY <2>2, <2>3
  <1>13. CASE TakeEnd
    BY <1>3, <1>12, <1>13 DEF TakeEnd, Take
  <1>14. CASE Dedent
    BY <1>1, <1>12, <1>14 DEF Dedent, TypeOK
  <1>15. CASE IndentDone
    BY <1>1, <1>3, <1>15 DEF IndentDone, ParseState
  <1>16. CASE CloseDone
    <2>1. pc = "close" /\ CloseFrame(P, close_list(P, Len(input)), "read")
      BY <1>16 DEF CloseDone
    <2>2. CASE Underflows(P)
      BY <1>3, <2>1, <2>2 DEF CloseFrame
    <2>3. CASE ~Underflows(P)
      <3>1. P.base_stack # <<>> /\ P' = close_list(P, Len(input))
        BY <2>1, <2>3 DEF CloseFrame, Underflows
      <3>2. P.base # 0
        BY <1>1, <1>2, <2>1, <3>1, EmptySeq DEF Aligned, ParseState
      <3>3. Len(input) \in Nat
        BY <1>1, LenProperties DEF TypeOK
      <3> QED BY <1>1, <1>2, <2>1, <3>1, <3>2, <3>3, CloseList
    <2> QED BY <2>2, <2>3
  <1>17. CASE EndDone \/ Stopped \/ UNCHANGED vars
    BY <1>3, <1>17 DEF EndDone, Stopped, vars
  <1> QED BY <1>5, <1>6, <1>7, <1>8, <1>9, <1>10, <1>11, <1>13, <1>14, <1>15,
             <1>16, <1>17 DEF Next

-----------------------------------------------------------------------------
(* Theorems.                                                               *)

(* For texts of every length over every set of token kinds: the stacks of  *)
(* the parser stay aligned, so the head of a frame, its list and its base  *)
(* are always popped together.                                             *)
THEOREM StacksAligned == Spec => []FramesAligned
  <1>1. IInv => FramesAligned
    BY DEF IInv, FramesAligned
  <1> QED BY <1>1, InitIInv, NextIInv, PTL DEF Spec

(* Every field of the parse state holds a value of its type, whatever the  *)
(* text: also the tokens that handle_dedent and handle_list_close make of  *)
(* what they pop.                                                          *)
THEOREM StateTyped == Spec => []TypeOK
  <1>1. IInv => TypeOK
    BY DEF IInv
  <1> QED BY <1>1, InitIInv, NextIInv, PTL DEF Spec

(* No handler pops an empty stack unless the text so far has more "]" than *)
(* "[": the invariant counts one frame for each open bracket and each      *)
(* indentation on the stack.                                               *)
THEOREM StacksNeverUnderflow == Spec => []NoUnderflow
  <1>1. IInv => NoUnderflow
    BY DEF IInv
  <1> QED BY <1>1, InitIInv, NextIInv, PTL DEF Spec

(* A list that has been closed is never written to again: output_token     *)
(* follows P->node only into the list that the parser is in, because the   *)
(* node that pop_list restores is one of the list that it restores.        *)
THEOREM ListsFrozen == Spec => ClosedListsFrozen
  <1>1. Frozen(P, P') =>
          \A l \in 1..Len(P.lists) :
            P'.lists[l] # P.lists[l] => l = P.list \/ l \in ToSet(P.list_stack)
    <2> SUFFICES ASSUME Frozen(P, P'), NEW l \in 1..Len(P.lists),
                        P'.lists[l] # P.lists[l], l # P.list
                 PROVE  l \in ToSet(P.list_stack)
      OBVIOUS
    <2>1. PICK i \in 1..Len(P.list_stack) : P.list_stack[i] = l
      BY DEF Frozen
    <2> QED BY <2>1 DEF ToSet
  <1>2. IInv /\ [Next]_vars =>
          [\A l \in 1..Len(P.lists) :
             P'.lists[l] # P.lists[l] => l = P.list \/ l \in ToSet(P.list_stack)]_vars
    BY <1>1, NextFrozen
  <1> QED BY <1>2, InitIInv, NextIInv, PTL DEF Spec, ClosedListsFrozen

-----------------------------------------------------------------------------

(* A token of the first n of the text, that has one of m lists if any.     *)
Fits(token, n, m) ==
  /\ token.src \in 1..n
  /\ token.type \in {"list", "block"} => token.ptr \in 1..m

(* The tokens that a state holds, pending and in lists.                    *)
Holds(S, n) ==
  /\ \A i \in 1..Len(S.token_stack) : Fits(S.token_stack[i], n, Len(S.lists))
  /\ \A l \in 1..Len(S.lists) : \A k \in 1..Len(S.lists[l]) :
       Fits(S.lists[l][k], n, Len(S.lists))

-----------------------------------------------------------------------------
(* Steps of the handlers.                                                  *)

LEMMA FieldTypes ==
  ASSUME NEW S \in ParseState
  PROVE  /\ S.token_stack \in Seq(Token) /\ Len(S.token_stack) \in Nat
         /\ S.lists \in Seq(Seq(Token)) /\ Len(S.lists) \in Nat
         /\ \A l \in 1..Len(S.lists) : S.lists[l] \in Seq(Token) /\ Len(S.lists[l]) \in Nat
  <1>1. S.token_stack \in Seq(Token) /\ S.lists \in Seq(Seq(Token))
    BY DEF ParseState
  <1>2. Len(S.token_stack) \in Nat /\ Len(S.lists) \in Nat
    BY <1>1, LenProperties
  <1>3. \A l \in 1..Len(S.lists) : S.lists[l] \in Seq(Token)
    BY <1>1, ElementOfSeq
  <1> QED BY <1>1, <1>2, <1>3, LenProperties

(* When another token has been read, or another list made.                 *)
LEMMA FitsMore ==
  ASSUME NEW token, NEW n \in Nat, NEW m \in Nat, Fits(token, n, m)
  PROVE  Fits(token, n + 1, m) /\ Fits(token, n, m + 1)
  BY DEF Fits

LEMMA HoldsMore ==
  ASSUME NEW S \in ParseState, NEW n \in Nat, Holds(S, n)
  PROVE  Holds(S, n + 1)
  BY FieldTypes, FitsMore DEF Holds

(* A token is output.                                                      *)
LEMMA OutputHolds ==
  ASSUME NEW S \in ParseState, ListsOK(S), NEW n \in Nat, Holds(S, n),
         NEW token \in Token, Fits(token, n, Len(S.lists))
  PROVE  Holds(output_token(S, token), n)
  <1> DEFINE O == output_token(S, token)
  <1>1. /\ SameStacks(S, O)
        /\ O.lists = [S.lists EXCEPT ![S.list] = Append(@, token)]
        /\ Len(O.lists) = Len(S.lists)
    BY OutputToken, Zenon
  <1> HIDE DEF O
  <1>2. S.list \in 1..Len(S.lists) /\ S.lists \in Seq(Seq(Token))
    BY ListsTyped
  <1>3. S.lists[S.list] \in Seq(Token)
    BY <1>2, FieldTypes
  <1>4. /\ Len(Append(S.lists[S.list], token)) = Len(S.lists[S.list]) + 1
        /\ \A k \in 1..Len(S.lists[S.list]) : Append(S.lists[S.list], token)[k] = S.lists[S.list][k]
        /\ Append(S.lists[S.list], token)[Len(S.lists[S.list]) + 1] = token
        /\ Len(S.lists[S.list]) \in Nat
    BY <1>3, Appended
  <1>5. ASSUME NEW l \in 1..Len(S.lists), NEW k \in 1..Len(O.lists[l])
        PROVE  Fits(O.lists[l][k], n, Len(S.lists))
    <2>1. CASE l = S.list
      <3>1. O.lists[l] = Append(S.lists[S.list], token)
        BY <1>1, <1>2, <2>1
      <3>2. k \in 1..Len(S.lists[S.list]) \/ k = Len(S.lists[S.list]) + 1
        BY <1>4, <3>1
      <3>3. CASE k \in 1..Len(S.lists[S.list])
        BY <1>2, <1>4, <3>1, <3>3 DEF Holds
      <3>4. CASE k = Len(S.lists[S.list]) + 1
        BY <1>4, <3>1, <3>4
      <3> QED BY <3>2, <3>3, <3>4
    <2>2. CASE l # S.list
      <3>1. O.lists[l] = S.lists[l]
        BY <1>1, <1>2, <2>2
      <3> QED BY <3>1 DEF Holds
    <2> QED BY <2>1, <2>2
  <1>6. \A i \in 1..Len(O.token_stack) : Fits(O.token_stack[i], n, Len(S.lists))
    BY <1>1 DEF SameStacks, Holds
  <1>7. Holds(O, n)
    BY <1>1, <1>5, <1>6 DEF Holds
  <1> QED BY <1>7 DEF O

(* A token is taken off the stack, pushed on it, a list begun.             *)
LEMMA PopHolds ==
  ASSUME NEW S \in ParseState, S.token_stack # <<>>, NEW n \in Nat, Holds(S, n),
         NEW T, T.token_stack = Front(S.token_stack), T.lists = S.lists
  PROVE  Holds(T, n) /\ Fits(Last(S.token_stack), n, Len(S.lists))
  <1>1. S.token_stack \in Seq(Token)
    BY FieldTypes
  <1>2. /\ Len(S.token_stack) \in Nat \ {0}
        /\ Len(Front(S.token_stack)) = Len(S.token_stack) - 1
        /\ \A i \in 1..Len(S.token_stack) - 1 : Front(S.token_stack)[i] = S.token_stack[i]
        /\ Last(S.token_stack) = S.token_stack[Len(S.token_stack)]
    BY <1>1, FrontLast
  <1>3. /\ Len(S.token_stack) \in 1..Len(S.token_stack)
        /\ \A i \in 1..Len(S.token_stack) - 1 : i \in 1..Len(S.token_stack)
    BY <1>2
  <1> QED BY <1>2, <1>3 DEF Holds

LEMMA PushHolds ==
  ASSUME NEW S \in ParseState, NEW n \in Nat, Holds(S, n),
         NEW token \in Token, Fits(token, n, Len(S.lists))
  PROVE  Holds(push_token(S, token), n)
  <1> DEFINE T == push_token(S, token)
  <1>1. T.token_stack = Append(S.token_stack, token) /\ T.lists = S.lists
    BY DEF push_token, ParseState
  <1>2. /\ Len(S.token_stack) \in Nat
        /\ Len(T.token_stack) = Len(S.token_stack) + 1
        /\ \A i \in 1..Len(S.token_stack) : T.token_stack[i] = S.token_stack[i]
        /\ T.token_stack[Len(S.token_stack) + 1] = token
    BY <1>1, FieldTypes, Appended
  <1> HIDE DEF T
  <1>3. \A i \in 1..Len(S.token_stack) + 1 :
          i \in 1..Len(S.token_stack) \/ i = Len(S.token_stack) + 1
    BY <1>2
  <1>4. Holds(T, n)
    BY <1>1, <1>2, <1>3 DEF Holds
  <1> QED BY <1>4 DEF T

LEMMA NewFrameHolds ==
  ASSUME NEW S \in ParseState, NEW n \in Nat, Holds(S, n)
  PROVE  Holds(push_list(push_base(S)), n)
  <1> DEFINE B == push_base(S)
             N == push_list(B)
  <1>1. /\ B.token_stack = S.token_stack /\ B.lists = S.lists
        /\ DOMAIN B = DOMAIN S
    BY DEF push_base, ParseState
  <1> HIDE DEF B
  <1>2. N.token_stack = B.token_stack /\ N.lists = Append(B.lists, <<>>)
    BY <1>1 DEF push_list, ParseState
  <1> HIDE DEF N
  <1>3. /\ Len(S.lists) \in Nat
        /\ Len(N.lists) = Len(S.lists) + 1
        /\ \A l \in 1..Len(S.lists) : N.lists[l] = S.lists[l]
        /\ N.lists[Len(S.lists) + 1] = <<>>
    BY <1>1, <1>2, FieldTypes, Appended
  <1>4. \A l \in 1..Len(S.lists) + 1 : l \in 1..Len(S.lists) \/ l = Len(S.lists) + 1
    BY <1>3
  <1>5. \A i \in 1..Len(N.token_stack) : Fits(N.token_stack[i], n, Len(N.lists))
    BY <1>1, <1>2, <1>3, FitsMore DEF Holds
  <1>6. ASSUME NEW l \in 1..Len(N.lists), NEW k \in 1..Len(N.lists[l])
        PROVE  Fits(N.lists[l][k], n, Len(N.lists))
    <2>1. CASE l \in 1..Len(S.lists)
      BY <1>3, <1>6, <2>1, FitsMore DEF Holds
    <2>2. CASE l = Len(S.lists) + 1
      BY <1>3, <1>6, <2>2
    <2> QED BY <1>3, <1>4, <2>1, <2>2
  <1>7. Holds(N, n)
    BY <1>5, <1>6 DEF Holds
  <1> QED BY <1>7 DEF N, B

-----------------------------------------------------------------------------
(* The handlers.                                                           *)

LEMMA FlushHolds ==
  ASSUME NEW S \in ParseState, ListsOK(S), Aligned(S), NEW n \in Nat, Holds(S, n)
  PROVE  Holds(flush_token_stack(S), n)
  <1>1. CASE is_token_stack_empty(S)
    BY <1>1 DEF flush_token_stack
  <1>2. CASE ~is_token_stack_empty(S)
    <2>1. /\ S.token_stack \in Seq(Token) /\ S.base \in Nat
          /\ Len(S.token_stack) = S.base + 1
      BY <1>2 DEF ParseState, Aligned, is_token_stack_empty
    <2>2. S.token_stack # <<>>
      BY <2>1
    <2>3. Front(S.token_stack) \in Seq(Token) /\ Last(S.token_stack) \in Token
      BY <2>1, <2>2, FrontLast
    <2> DEFINE T == pop_token(S)
    <2>4. T \in ParseState /\ T = [S EXCEPT !.token_stack = Front(S.token_stack)]
      BY <2>3 DEF pop_token, ParseState
    <2>5. ListsOK(T) /\ T.lists = S.lists /\ T.token_stack = Front(S.token_stack)
      BY <2>4 DEF ListsOK, ParseState
    <2> HIDE DEF T
    <2>6. Holds(T, n) /\ Fits(Last(S.token_stack), n, Len(T.lists))
      BY <2>2, <2>5, PopHolds
    <2>7. Holds(output_token(T, Last(S.token_stack)), n)
      BY <2>3, <2>4, <2>5, <2>6, OutputHolds
    <2> QED BY <1>2, <2>7 DEF flush_token_stack, T
  <1> QED BY <1>1, <1>2

(* A frame is taken off, and its head becomes a token with its list.       *)
LEMMA ClosedHolds ==
  ASSUME NEW S \in ParseState, ListsOK(S), Aligned(S),
         Len(S.token_stack) = S.base, S.base # 0,
         NEW n \in Nat, Holds(S, n), NEW token \in Token,
         token.src = Last(S.token_stack).src, token.ptr = S.list
  PROVE  Holds(output_token(PopFrame(S), token), n)
  <1> DEFINE A == pop_base(S)
             B == pop_token(A)
             G == pop_list(B)
  <1>1. A.token_stack = S.token_stack /\ A.lists = S.lists /\ DOMAIN A = DOMAIN S
    BY DEF pop_base, ParseState
  <1> HIDE DEF A
  <1>2. B.token_stack = Front(S.token_stack) /\ B.lists = S.lists /\ DOMAIN B = DOMAIN S
    BY <1>1 DEF pop_token, ParseState
  <1> HIDE DEF B
  <1>3. G.token_stack = Front(S.token_stack) /\ G.lists = S.lists
    BY <1>2 DEF pop_list, ParseState
  <1>4. G = PopFrame(S)
    BY DEF PopFrame, A, B
  <1> HIDE DEF G
  <1>5. G \in ParseState /\ ListsOK(G)
    BY <1>4, PopFrameState
  <1>6. S.token_stack # <<>>
    BY FieldTypes DEF ParseState
  <1>7. Holds(G, n) /\ Fits(Last(S.token_stack), n, Len(S.lists))
    BY <1>3, <1>6, PopHolds
  <1>8. Fits(token, n, Len(G.lists))
    <2>1. S.list \in 1..Len(S.lists)
      BY ListsTyped
    <2> QED BY <1>3, <1>7, <2>1 DEF Fits
  <1>9. Holds(output_token(G, token), n)
    BY <1>5, <1>7, <1>8, OutputHolds
  <1> QED BY <1>4, <1>9

LEMMA DedentHolds ==
  ASSUME NEW S \in ParseState, ListsOK(S), Aligned(S),
         S.indent_stack # <<>>, S.base # 0, NEW n \in Nat, Holds(S, n)
  PROVE  Holds(handle_dedent(S), n)
  <1> DEFINE T == flush_token_stack(S)
             U == pop_indent(T)
             F == pop_base(U)
             head == Last(F.token_stack)
             token == tag_block(F, head, F.list)
  <1>1. /\ T \in ParseState
        /\ SameStacks(S, [T EXCEPT !.token_stack = S.token_stack])
        /\ ListsOK(T) /\ Aligned(T) /\ Len(T.token_stack) = T.base
    BY FlushTokenStack
  <1>2. T.indent_stack = S.indent_stack /\ T.base = S.base
    BY <1>1 DEF SameStacks, ParseState
  <1>3. Holds(T, n)
    BY FlushHolds
  <1> HIDE DEF T
  <1>4. Front(S.indent_stack) \in Seq(Nat)
    BY FrontLast DEF ParseState
  <1>5. U = [T EXCEPT !.indent_stack = Front(S.indent_stack)]
    BY <1>2 DEF pop_indent
  <1>6. U \in ParseState
    BY <1>1, <1>4, <1>5 DEF ParseState
  <1>7. /\ U.base = T.base /\ U.base_stack = T.base_stack
        /\ U.token_stack = T.token_stack
        /\ U.list = T.list /\ U.list_stack = T.list_stack /\ U.lists = T.lists
        /\ U.node = T.node /\ U.node_stack = T.node_stack
    BY <1>1, <1>5 DEF ParseState
  <1> HIDE DEF U
  <1>8. /\ ListsOK(U) /\ Aligned(U) /\ Len(U.token_stack) = U.base /\ U.base # 0
        /\ Holds(U, n)
    BY <1>1, <1>2, <1>3, <1>7 DEF ListsOK, Aligned, Holds
  <1>9. F.token_stack = U.token_stack /\ F.list = U.list /\ F.lists = U.lists
    BY <1>6 DEF pop_base, ParseState
  <1> HIDE DEF F
  <1>10. head \in Token
    <2>1. Last(U.token_stack) \in Token
      BY <1>6, <1>8, PopFrameState
    <2> QED BY <1>9, <2>1
  <1>11. F.list \in Nat /\ F.lists[F.list] \in Seq(Token)
    BY <1>6, <1>8, <1>9, ListsTyped
  <1>12. F.lists[F.list] # <<>> => Last(F.lists[F.list]) \in Token
    BY <1>11, FrontLast
  <1> DEFINE end == IF F.lists[F.list] = <<>> THEN head.end
                    ELSE Last(F.lists[F.list]).end
  <1>13. token = [type |-> "block", src |-> head.src, end |-> end, ptr |-> F.list]
    BY DEF tag_block, tag_token
  <1>14. token \in Token /\ token.src = head.src /\ token.ptr = F.list
    <2>1. end \in Nat /\ head.src \in Nat
      BY <1>10, <1>12 DEF Token
    <2> QED BY <1>11, <1>13, <2>1 DEF Token, Types
  <1>15. handle_dedent(S) = output_token(PopFrame(U), token)
    BY DEF handle_dedent, PopFrame, T, U, F
  <1> HIDE DEF token
  <1>16. Holds(output_token(PopFrame(U), token), n)
    BY <1>6, <1>8, <1>9, <1>14, ClosedHolds
  <1> QED BY <1>15, <1>16

LEMMA CloseHolds ==
  ASSUME NEW S \in ParseState, ListsOK(S), Aligned(S),
         Len(S.token_stack) = S.base, S.base # 0, NEW close \in Nat,
         NEW n \in Nat, Holds(S, n)
  PROVE  Holds(close_list(S, close), n)
  <1> DEFINE F == pop_base(S)
             token == tag_list(Last(F.token_stack), close, F.list)
  <1>1. Last(S.token_stack) \in Token
    BY PopFrameState
  <1>2. F.token_stack = S.token_stack /\ F.list = S.list
    BY DEF pop_base, ParseState
  <1>3. /\ token \in Token
        /\ token.src = Last(S.token_stack).src /\ token.ptr = S.list
    BY <1>1, <1>2 DEF tag_list, tag_token, Token, Types, ParseState
  <1>4. close_list(S, close) = output_token(PopFrame(S), token)
    BY DEF close_list, PopFrame
  <1> HIDE DEF token
  <1> QED BY <1>3, <1>4, ClosedHolds

-----------------------------------------------------------------------------
(* The invariant.                                                          *)

LEMMA InitHolds == Init => Holds(P, Len(input))
  <1> SUFFICES ASSUME Init PROVE Holds(P, Len(input))
    OBVIOUS
  <1>1. P.token_stack = <<>> /\ P.lists = << <<>> >>
    BY DEF Init, parse_init
  <1>2. Len(P.token_stack) = 0 /\ Len(P.lists) = 1 /\ Len(P.lists[1]) = 0
    BY <1>1
  <1> QED BY <1>2 DEF Holds

LEMMA NextHolds ==
  IInv /\ Holds(P, Len(input)) /\ [Next]_vars => Holds(P, Len(input))'
  <1> SUFFICES ASSUME IInv, Holds(P, Len(input)), [Next]_vars
               PROVE  Holds(P', Len(input'))
    OBVIOUS
  <1> DEFINE n == Len(input)
  <1>1. TypeOK /\ P \in ParseState /\ input \in Seq(AllKinds) /\ n \in Nat
    BY LenProperties DEF IInv, TypeOK
  <1>2. pc # "undefined" =>
          /\ Aligned(P) /\ ListsOK(P)
          /\ pc = "close" => Len(P.token_stack) = P.base
    BY DEF IInv
  (* Reading a token. *)
  <1>3. ASSUME NEW kind, Take(kind)
        PROVE  /\ Len(input') = n + 1 /\ here = n + 1 /\ here \in Nat
               /\ pc = "read" /\ Holds(P, n + 1)
               /\ ListsOK(P) /\ Aligned(P)
    <2>1. kind \in AllKinds
      BY <1>3, KindsAssumption DEF Take, AllKinds
    <2>2. input' = Append(input, kind) /\ pc = "read"
      BY <1>3 DEF Take
    <2>3. Len(input') = n + 1
      BY <1>1, <2>1, <2>2, Appended
    <2>4. Holds(P, n + 1)
      BY <1>1, HoldsMore
    <2> QED BY <1>1, <1>2, <2>2, <2>3, <2>4 DEF here
  <1>4. ASSUME NEW type \in {"word", "lit", "op"}, here = n + 1
        PROVE  /\ tag_token(type, here, here, 0) \in Token
               /\ Fits(tag_token(type, here, here, 0), n + 1, Len(P.lists))
    BY <1>1, <1>4 DEF tag_token, Token, Types, Fits
  <1>5. n + 1 \in Nat
    BY <1>1
  <1>6. ASSUME NEW indent \in Indents, TakeIndent(indent)
        PROVE  Holds(P', Len(input'))
    BY <1>3, <1>6 DEF TakeIndent
  <1>7. CASE TakeWord
    <2> DEFINE F == flush_token_stack(P)
               token == tag_token("word", here, here, 0)
    <2>1. /\ Len(input') = n + 1 /\ here = n + 1 /\ Holds(P, n + 1)
          /\ ListsOK(P) /\ Aligned(P) /\ P' = push_token(F, token)
      BY <1>3, <1>7 DEF TakeWord, handle_word
    <2>2. token \in Token /\ Fits(token, n + 1, Len(P.lists))
      BY <1>4, <2>1
    <2>3. F \in ParseState /\ Len(F.lists) = Len(P.lists)
      BY <1>1, <2>1, FlushTokenStack
    <2>4. Holds(F, n + 1)
      BY <1>1, <1>5, <2>1, FlushHolds
    <2> HIDE DEF F, token
    <2>5. Holds(push_token(F, token), n + 1)
      BY <1>5, <2>2, <2>3, <2>4, PushHolds
    <2> QED BY <2>1, <2>5
  <1>8. CASE TakeLiteral
    <2> DEFINE token == tag_token("lit", here, here, 0)
    <2>1. /\ Len(input') = n + 1 /\ here = n + 1 /\ Holds(P, n + 1)
          /\ ListsOK(P) /\ P' = output_token(P, token)
      BY <1>3, <1>8 DEF TakeLiteral
    <2>2. token \in Token /\ Fits(token, n + 1, Len(P.lists))
      BY <1>4, <2>1
    <2> HIDE DEF token
    <2> QED BY <1>1, <1>5, <2>1, <2>2, OutputHolds
  <1>9. CASE TakeError
    BY <1>3, <1>9 DEF TakeError
  <1>10. CASE TakeOpen
    <2> DEFINE F == flush_token_stack(P)
               token == tag_token("op", here, here, 0)
               T == push_token(F, token)
    <2>1. /\ Len(input') = n + 1 /\ here = n + 1 /\ Holds(P, n + 1)
          /\ ListsOK(P) /\ Aligned(P)
          /\ P' = push_list(push_base(T))
      BY <1>3, <1>10 DEF TakeOpen, handle_list_open
    <2>2. token \in Token /\ Fits(token, n + 1, Len(P.lists))
      BY <1>4, <2>1
    <2>3. /\ F \in ParseState /\ ListsOK(F) /\ Aligned(F)
          /\ Len(F.token_stack) = F.base /\ Len(F.lists) = Len(P.lists)
      BY <1>1, <2>1, FlushTokenStack
    <2>4. Holds(F, n + 1)
      BY <1>1, <1>5, <2>1, FlushHolds
    <2> HIDE DEF F, token
    <2>5. Holds(T, n + 1)
      BY <1>5, <2>2, <2>3, <2>4, PushHolds
    <2>6. T \in ParseState
      BY <2>2, <2>3, PushToken
    <2> HIDE DEF T
    <2>7. Holds(push_list(push_base(T)), n + 1)
      BY <1>5, <2>5, <2>6, NewFrameHolds
    <2> QED BY <2>1, <2>7
  <1>11. CASE TakeClose
    <2>1. /\ Len(input') = n + 1 /\ Holds(P, n + 1)
          /\ ListsOK(P) /\ Aligned(P) /\ P' = flush_token_stack(P)
      BY <1>3, <1>11 DEF TakeClose
    <2> QED BY <1>1, <1>5, <2>1, FlushHolds
  <1>12. CASE TakeDef
    <2>1. Len(input') = n + 1 /\ Holds(P, n + 1) /\ P' = handle_def(P)
      BY <1>3, <1>12 DEF TakeDef
    <2>2. CASE is_token_stack_empty(P)
      BY <2>1, <2>2 DEF handle_def
    <2>3. CASE ~is_token_stack_empty(P)
      <3> DEFINE I == push_indent(P)
      <3>1. P' = push_list(push_base(I))
        BY <2>1, <2>3 DEF handle_def
      <3>2. P.indent_stack \in Seq(Nat) /\ P.indent \in Nat
        BY <1>1 DEF ParseState
      <3>3. Append(P.indent_stack, P.indent) \in Seq(Nat)
        BY <3>2, Appended
      <3>4. I \in ParseState /\ I.token_stack = P.token_stack /\ I.lists = P.lists
        BY <1>1, <3>3 DEF push_indent, ParseState
      <3> HIDE DEF I
      <3>5. Holds(I, n + 1)
        BY <2>1, <3>4 DEF Holds
      <3>6. Holds(push_list(push_base(I)), n + 1)
        BY <1>5, <3>4, <3>5, NewFrameHolds
      <3> QED BY <2>1, <3>1, <3>6
    <2> QED BY <2>2, <2>3
  (* Closing a definition, with m tokens read. *)
  <1>13. ASSUME NEW indent \in Nat, is_dedent(P, indent), pc # "undefined",
                CloseFrame(flush_token_stack(P), handle_dedent(P), pc),
                NEW m \in Nat, Holds(P, m)
         PROVE  Holds(P', m)
    <2>1. Underflows(flush_token_stack(P)) <=> P.base = 0
      BY <1>1, <1>2, <1>13, DedentSafe
    <2>2. CASE P.base = 0
      BY <1>13, <2>1, <2>2 DEF CloseFrame
    <2>3. CASE P.base # 0
      <3>1. P' = handle_dedent(P) /\ P.indent_stack # <<>>
        BY <1>13, <2>1, <2>3 DEF CloseFrame, is_dedent
      <3> QED BY <1>1, <1>2, <1>13, <2>3, <3>1, DedentHolds
    <2> QED BY <2>2, <2>3
  <1>14. CASE TakeEnd
    <2>1. /\ Len(input') = n + 1 /\ Holds(P, n + 1) /\ pc = "read"
      BY <1>3, <1>14 DEF TakeEnd
    <2>2. CASE is_dedent(P, 0)
      <3>1. CloseFrame(flush_token_stack(P), handle_dedent(P), pc)
        BY <1>14, <2>1, <2>2 DEF TakeEnd
      <3> QED BY <1>5, <1>13, <2>1, <2>2, <3>1
    <2>3. CASE ~is_dedent(P, 0)
      BY <1>14, <2>1, <2>3 DEF TakeEnd
    <2> QED BY <2>2, <2>3
  <1>15. CASE TakeNothing
    <2>1. P' = flush_token_stack(P) /\ pc = "read" /\ input' = input
      BY <1>15 DEF TakeNothing
    <2> QED BY <1>1, <1>2, <2>1, FlushHolds
  <1>16. CASE Dedent
    <2>1. /\ is_dedent(P, arg) /\ pc # "undefined" /\ arg \in Nat
          /\ CloseFrame(flush_token_stack(P), handle_dedent(P), pc)
          /\ input' = input
      BY <1>1, <1>16 DEF Dedent, TypeOK
    <2> QED BY <1>1, <1>13, <2>1
  <1>17. CASE IndentDone
    <2>1. /\ P'.token_stack = P.token_stack /\ P'.lists = P.lists
          /\ input' = input
      BY <1>1, <1>17 DEF IndentDone, ParseState
    <2> QED BY <2>1 DEF Holds
  <1>18. CASE CloseDone
    <2>1. /\ pc = "close" /\ CloseFrame(P, close_list(P, n), "read")
          /\ input' = input
      BY <1>18 DEF CloseDone
    <2>2. CASE Underflows(P)
      BY <2>1, <2>2 DEF CloseFrame
    <2>3. CASE ~Underflows(P)
      <3>1. P.base_stack # <<>> /\ P' = close_list(P, n)
        BY <2>1, <2>3 DEF CloseFrame, Underflows
      <3>2. P.base # 0
        BY <1>1, <1>2, <2>1, <3>1, EmptySeq DEF Aligned, ParseState
      <3> QED BY <1>1, <1>2, <2>1, <3>1, <3>2, CloseHolds
    <2> QED BY <2>2, <2>3
  <1>19. CASE EndDone \/ Stopped \/ UNCHANGED vars
    BY <1>19 DEF EndDone, Stopped, vars
  <1> QED BY <1>6, <1>7, <1>8, <1>9, <1>10, <1>11, <1>12, <1>14, <1>15, <1>16,
             <1>17, <1>18, <1>19 DEF Next
-----------------------------------------------------------------------------
(* Every step, seen as moves of tokens.                                    *)

(* The list to which the token at index i of the token stack will go.      *)
Target(S, i) == IF i <= S.base THEN S.list_stack[i] ELSE S.list

Sound(S) == S \in ParseState /\ ListsOK(S) /\ Aligned(S)

Alike(S, O) ==
  /\ O.indent_stack = S.indent_stack
  /\ O.token_stack = S.token_stack
  /\ O.base = S.base
  /\ O.list = S.list
  /\ O.list_stack = S.list_stack
  /\ O.lists = S.lists

(* The top of the token stack goes to its list, as token t.                *)
Moved(S, O, t) ==
  /\ S.token_stack # <<>>
  /\ t \in Token
  /\ t.src = Last(S.token_stack).src
  /\ O.indent = S.indent
  /\ O.token_stack = Front(S.token_stack)
  /\ Len(O.token_stack) = O.base
  /\ O.list = Target(S, Len(S.token_stack))
  /\ \A i \in 1..Len(S.token_stack) : Target(O, i) = Target(S, i)
  /\ O.lists = [S.lists EXCEPT ![O.list] = Append(@, t)]

Flushed(S, F) ==
  /\ F.indent = S.indent
  /\ F.indent_stack = S.indent_stack
  /\ F.base = S.base
  /\ Len(F.token_stack) = F.base
  /\ \/ Alike(S, F)
     \/ Len(S.token_stack) = S.base + 1 /\ Moved(S, F, Last(S.token_stack))

(* The innermost frame is closed, as token t.                              *)
Closed(S, O, t) ==
  /\ Len(S.token_stack) = S.base
  /\ S.base # 0
  /\ O.base = S.base - 1
  /\ Moved(S, O, t)

Pushed(S, O, t) ==
  /\ t \in Token
  /\ Len(S.token_stack) = S.base
  /\ O.indent = S.indent
  /\ O.indent_stack = S.indent_stack
  /\ O.token_stack = Append(S.token_stack, t)
  /\ O.base = S.base
  /\ O.list = S.list
  /\ O.list_stack = S.list_stack
  /\ O.lists = S.lists

(* The pending token becomes the head of a frame.                          *)
Opened(S, O) ==
  /\ Len(S.token_stack) = S.base + 1
  /\ O.indent = S.indent
  /\ O.token_stack = S.token_stack
  /\ O.base = S.base + 1
  /\ O.list = Len(S.lists) + 1
  /\ O.list_stack = Append(S.list_stack, S.list)
  /\ O.lists = Append(S.lists, <<>>)

Written(S, O, t) ==
  /\ t \in Token
  /\ O.indent = S.indent
  /\ O.indent_stack = S.indent_stack
  /\ O.token_stack = S.token_stack
  /\ O.base = S.base
  /\ O.list = S.list
  /\ O.list_stack = S.list_stack
  /\ O.lists = [S.lists EXCEPT ![S.list] = Append(@, t)]

LEMMA SoundTypes ==
  ASSUME NEW S, Sound(S)
  PROVE  /\ S \in ParseState
         /\ S.base \in Nat /\ S.indent \in Nat
         /\ S.token_stack \in Seq(Token) /\ Len(S.token_stack) \in Nat
         /\ S.indent_stack \in Seq(Nat) /\ Len(S.indent_stack) \in Nat
         /\ S.list_stack \in Seq(Nat) /\ Len(S.list_stack) = S.base
         /\ Len(S.token_stack) \in {S.base, S.base + 1}
         /\ S.lists \in Seq(Seq(Token)) /\ Len(S.lists) \in Nat
         /\ \A l \in 1..Len(S.lists) : S.lists[l] \in Seq(Token) /\ Len(S.lists[l]) \in Nat
         /\ S.list \in 1..Len(S.lists)
  <1>1. S \in ParseState /\ ListsOK(S) /\ Aligned(S)
    BY DEF Sound
  <1>2. S.indent_stack \in Seq(Nat) /\ S.base \in Nat /\ S.indent \in Nat /\ S.list_stack \in Seq(Nat)
    BY <1>1 DEF ParseState
  <1>3. Len(S.indent_stack) \in Nat
    BY <1>2, LenProperties
  <1> QED BY <1>1, <1>2, <1>3, FieldTypes, ListsTyped DEF Aligned

(* The targets of the token stack are different lists, inner ones later.   *)
LEMMA TargetsIncrease ==
  ASSUME NEW S, Sound(S)
  PROVE  /\ \A i \in 1..S.base + 1 : Target(S, i) \in 1..Len(S.lists)
         /\ \A i \in 1..S.base + 1 : \A j \in 1..i - 1 : Target(S, j) < Target(S, i)
         /\ Target(S, S.base + 1) = S.list
         /\ \A i \in 1..S.base : Target(S, i) = S.list_stack[i]
         /\ \A i \in 1..Len(S.token_stack) : i \in 1..S.base + 1
  <1>1. /\ S.base \in Nat /\ Len(S.list_stack) = S.base
        /\ S.list \in 1..Len(S.lists) /\ Len(S.lists) \in Nat
        /\ Len(S.token_stack) \in {S.base, S.base + 1}
    BY SoundTypes
  <1>2. \A i \in 1..S.base :
          /\ S.list_stack[i] \in 1..S.list - 1
          /\ \A j \in 1..i - 1 : S.list_stack[j] < S.list_stack[i]
    BY <1>1 DEF Sound, ListsOK
  <1>3. Target(S, S.base + 1) = S.list /\ \A i \in 1..S.base : Target(S, i) = S.list_stack[i]
    BY <1>1 DEF Target
  <1>4. \A i \in 1..S.base + 1 : i \in 1..S.base \/ i = S.base + 1
    BY <1>1
  <1>5. \A i \in 1..S.base : S.list_stack[i] \in 1..Len(S.lists) /\ S.list_stack[i] < S.list
    BY <1>1, <1>2
  <1>6. ASSUME NEW i \in 1..S.base + 1, NEW j \in 1..i - 1 PROVE Target(S, j) < Target(S, i)
    <2>1. j \in 1..S.base
      BY <1>1
    <2>2. CASE i \in 1..S.base
      BY <1>2, <1>3, <2>1, <2>2
    <2>3. CASE i = S.base + 1
      BY <1>3, <1>5, <2>1, <2>3
    <2> QED BY <1>4, <2>2, <2>3
  <1>7. \A i \in 1..Len(S.token_stack) : i \in 1..S.base + 1
    BY <1>1
  <1>8. S.list \in 1..Len(S.lists) /\ (\A i \in 1..S.base + 1 : Target(S, i) \in 1..Len(S.lists))
    BY <1>1, <1>3, <1>4, <1>5
  <1> QED BY <1>3, <1>6, <1>7, <1>8

LEMMA FlushMoves ==
  ASSUME NEW S, Sound(S)
  PROVE  Sound(flush_token_stack(S)) /\ Flushed(S, flush_token_stack(S))
  <1> DEFINE F == flush_token_stack(S)
  <1>1. /\ F \in ParseState
        /\ SameStacks(S, [F EXCEPT !.token_stack = S.token_stack])
        /\ ListsOK(F) /\ Aligned(F) /\ Len(F.token_stack) = F.base
    BY FlushTokenStack DEF Sound
  <1>2. /\ F.indent = S.indent /\ F.indent_stack = S.indent_stack /\ F.base = S.base
        /\ F.list = S.list /\ F.list_stack = S.list_stack
    BY <1>1 DEF SameStacks, ParseState
  <1>3. Sound(F)
    BY <1>1 DEF Sound
  <1>4. CASE is_token_stack_empty(S)
    <2>1. F = S
      BY <1>4 DEF flush_token_stack
    <2> HIDE DEF F
    <2>2. Alike(S, F)
      BY <2>1 DEF Alike
    <2>3. Flushed(S, F)
      BY <1>1, <1>2, <2>2 DEF Flushed
    <2> QED BY <1>3, <2>3 DEF F
  <1>5. CASE ~is_token_stack_empty(S)
    <2>1. /\ S.token_stack \in Seq(Token) /\ S.base \in Nat
          /\ Len(S.token_stack) = S.base + 1
      BY <1>5, SoundTypes DEF is_token_stack_empty
    <2>2. S.token_stack # <<>>
      BY <2>1
    <2>3. Front(S.token_stack) \in Seq(Token) /\ Last(S.token_stack) \in Token
      BY <2>1, <2>2, FrontLast
    <2> DEFINE T == pop_token(S)
    <2>4. T = [S EXCEPT !.token_stack = Front(S.token_stack)] /\ S \in ParseState
      BY DEF pop_token, Sound
    <2>5. T \in ParseState /\ T.lists = S.lists /\ T.list = S.list
          /\ T.token_stack = Front(S.token_stack) /\ T.node = S.node
          /\ T.node_stack = S.node_stack /\ T.list_stack = S.list_stack
      BY <2>3, <2>4 DEF ParseState
    <2>6. ListsOK(T)
      BY <2>5 DEF ListsOK, Sound
    <2>7. F = output_token(T, Last(S.token_stack))
      BY <1>5 DEF flush_token_stack
    <2> HIDE DEF F, T
    <2>8. /\ SameStacks(T, F)
          /\ F.lists = [T.lists EXCEPT ![T.list] = Append(@, Last(S.token_stack))]
      BY <2>3, <2>5, <2>6, <2>7, OutputToken, Zenon
    <2>9. F.token_stack = Front(S.token_stack)
      BY <2>5, <2>8 DEF SameStacks
    <2>10. \A i \in 1..Len(S.token_stack) : Target(F, i) = Target(S, i)
      BY <1>2 DEF Target
    <2>11. F.list = Target(S, Len(S.token_stack))
      BY <1>2, <2>1 DEF Target
    <2>12. F.lists = [S.lists EXCEPT ![F.list] = Append(@, Last(S.token_stack))]
      BY <1>2, <2>5, <2>8
    <2>13. Flushed(S, F)
      BY <1>1, <1>2, <2>1, <2>2, <2>3, <2>9, <2>10, <2>11, <2>12 DEF Flushed, Moved
    <2> QED BY <1>3, <2>13 DEF F
  <1> QED BY <1>4, <1>5

(* Closing the innermost frame, for either handler that does.              *)
LEMMA CloseMoves ==
  ASSUME NEW S, Sound(S), Len(S.token_stack) = S.base, S.base # 0,
         NEW t \in Token, t.src = Last(S.token_stack).src
  PROVE  LET O == output_token(PopFrame(S), t) IN
         /\ Sound(O)
         /\ Closed(S, O, t)
         /\ O.indent_stack = S.indent_stack
  <1> DEFINE G == PopFrame(S)
             O == output_token(G, t)
  <1>1. /\ S.base \in Nat \ {0} /\ S.token_stack \in Seq(Token)
        /\ S.list_stack \in Seq(Nat) /\ Len(S.list_stack) = S.base
    BY SoundTypes
  <1>2. /\ G \in ParseState /\ ListsOK(G) /\ Aligned(G)
        /\ Len(G.token_stack) = G.base
        /\ G.lists = S.lists /\ G.indent_stack = S.indent_stack
        /\ G.token_stack = Front(S.token_stack)
        /\ G.list_stack = Front(S.list_stack)
        /\ G.list = S.list_stack[S.base]
        /\ G.base = S.base - 1 /\ G.indent = S.indent
    BY PopFrameState DEF Sound
  <1> HIDE DEF G
  <1>3. /\ O \in ParseState /\ SameStacks(G, O) /\ ListsOK(O)
        /\ O.lists = [G.lists EXCEPT ![G.list] = Append(@, t)]
    BY <1>2, OutputToken, Zenon
  <1> HIDE DEF O
  <1>4. Aligned(O)
    BY <1>2, <1>3 DEF SameStacks, Aligned
  <1>5. S.list_stack # <<>> /\ S.token_stack # <<>>
    BY <1>1
  <1>6. \A i \in 1..S.base - 1 : Front(S.list_stack)[i] = S.list_stack[i]
    BY <1>1, <1>5, FrontLast
  <1>7. /\ O.indent = S.indent /\ O.indent_stack = S.indent_stack
        /\ O.token_stack = Front(S.token_stack)
        /\ O.list = S.list_stack[S.base] /\ O.list_stack = Front(S.list_stack)
        /\ O.base = S.base - 1 /\ Len(O.token_stack) = O.base
    BY <1>2, <1>3 DEF SameStacks
  <1>8. O.list = Target(S, Len(S.token_stack))
    BY <1>1, <1>7 DEF Target
  <1>9. ASSUME NEW i \in 1..Len(S.token_stack) PROVE Target(O, i) = Target(S, i)
    <2>1. i \in 1..S.base - 1 \/ i = S.base
      BY <1>1
    <2>2. CASE i \in 1..S.base - 1
      <3>1. Target(O, i) = O.list_stack[i] /\ Target(S, i) = S.list_stack[i]
        BY <1>1, <1>7, <2>2 DEF Target
      <3> QED BY <1>6, <1>7, <2>2, <3>1
    <2>3. CASE i = S.base
      BY <1>1, <1>7, <2>3 DEF Target
    <2> QED BY <2>1, <2>2, <2>3
  <1>10. O.lists = [S.lists EXCEPT ![O.list] = Append(@, t)]
    BY <1>2, <1>3, <1>7
  <1>11. Closed(S, O, t)
    BY <1>1, <1>5, <1>7, <1>8, <1>9, <1>10 DEF Closed, Moved
  <1>12. Sound(O)
    BY <1>3, <1>4 DEF Sound
  <1> QED BY <1>7, <1>11, <1>12 DEF O, G

LEMMA DedentMoves ==
  ASSUME NEW S, Sound(S), S.indent_stack # <<>>, S.base # 0
  PROVE  \E F \in ParseState, t \in Token :
           /\ Sound(F) /\ Flushed(S, F)
           /\ Sound(handle_dedent(S)) /\ Closed(F, handle_dedent(S), t)
           /\ t.type = "block"
           /\ handle_dedent(S).indent_stack = Front(S.indent_stack)
  <1> DEFINE T == flush_token_stack(S)
             U == pop_indent(T)
             F == pop_base(U)
             head == Last(F.token_stack)
             token == tag_block(F, head, F.list)
             D == handle_dedent(S)
  <1>1. Sound(T) /\ Flushed(S, T)
    BY FlushMoves
  <1>2. D = output_token(PopFrame(U), token)
    BY DEF handle_dedent, PopFrame, T, U, F
  <1> HIDE DEF T, D
  <1>3. /\ T.indent_stack = S.indent_stack /\ T.base = S.base
        /\ Len(T.token_stack) = T.base /\ T \in ParseState
    BY <1>1 DEF Flushed, Sound
  <1>4. Front(S.indent_stack) \in Seq(Nat)
    BY SoundTypes, FrontLast
  <1>5. U = [T EXCEPT !.indent_stack = Front(S.indent_stack)]
    BY <1>3 DEF pop_indent
  <1>6. U \in ParseState
    BY <1>3, <1>4, <1>5 DEF ParseState
  <1>7. /\ U.base = T.base /\ U.base_stack = T.base_stack
        /\ U.token_stack = T.token_stack /\ U.indent = T.indent
        /\ U.list = T.list /\ U.list_stack = T.list_stack /\ U.lists = T.lists
        /\ U.node = T.node /\ U.node_stack = T.node_stack
        /\ U.indent_stack = Front(S.indent_stack)
    BY <1>3, <1>5 DEF ParseState
  <1> HIDE DEF U
  <1>8. Sound(U) /\ Len(U.token_stack) = U.base /\ U.base # 0
    BY <1>1, <1>3, <1>6, <1>7 DEF Sound, ListsOK, Aligned
  <1>9. F.token_stack = U.token_stack /\ F.list = U.list /\ F.lists = U.lists
    BY <1>6 DEF pop_base, ParseState
  <1> HIDE DEF F
  <1>10. head \in Token
    <2>1. Last(U.token_stack) \in Token
      BY <1>6, <1>8, PopFrameState DEF Sound
    <2> QED BY <1>9, <2>1
  <1>11. F.list \in Nat /\ F.lists[F.list] \in Seq(Token)
    BY <1>8, <1>9, SoundTypes
  <1>12. F.lists[F.list] # <<>> => Last(F.lists[F.list]) \in Token
    BY <1>11, FrontLast
  <1> DEFINE end == IF F.lists[F.list] = <<>> THEN head.end
                    ELSE Last(F.lists[F.list]).end
  <1>13. token = [type |-> "block", src |-> head.src, end |-> end, ptr |-> F.list]
    BY DEF tag_block, tag_token
  <1>14. token \in Token /\ token.src = head.src /\ token.type = "block"
    <2>1. end \in Nat /\ head.src \in Nat
      BY <1>10, <1>12 DEF Token
    <2> QED BY <1>11, <1>13, <2>1 DEF Token, Types
  <1>15. token.src = Last(U.token_stack).src
    BY <1>9, <1>14
  <1> HIDE DEF token
  <1>16. Sound(D) /\ Closed(U, D, token) /\ D.indent_stack = U.indent_stack
    BY <1>2, <1>8, <1>14, <1>15, CloseMoves
  <1>17. Closed(T, D, token)
    <2>1. \A i : Target(T, i) = Target(U, i)
      BY <1>7 DEF Target
    <2> QED BY <1>7, <1>16, <2>1 DEF Closed, Moved
  <1> QED BY <1>1, <1>3, <1>7, <1>14, <1>16, <1>17 DEF D

LEMMA ListMoves ==
  ASSUME NEW S, Sound(S), Len(S.token_stack) = S.base, S.base # 0, NEW close \in Nat
  PROVE  \E t \in Token :
           /\ Sound(close_list(S, close)) /\ Closed(S, close_list(S, close), t)
           /\ t.type = "list"
           /\ close_list(S, close).indent_stack = S.indent_stack
  <1> DEFINE F == pop_base(S)
             token == tag_list(Last(F.token_stack), close, F.list)
  <1>1. Last(S.token_stack) \in Token /\ S \in ParseState
    BY PopFrameState DEF Sound
  <1>2. F.token_stack = S.token_stack /\ F.list = S.list
    BY <1>1 DEF pop_base, ParseState
  <1>3. /\ token \in Token /\ token.type = "list"
        /\ token.src = Last(S.token_stack).src
    BY <1>1, <1>2 DEF tag_list, tag_token, Token, Types, ParseState
  <1>4. close_list(S, close) = output_token(PopFrame(S), token)
    BY DEF close_list, PopFrame
  <1> HIDE DEF token
  <1> QED BY <1>3, <1>4, CloseMoves

LEMMA PushMoves ==
  ASSUME NEW S, Sound(S), Len(S.token_stack) = S.base, NEW t \in Token
  PROVE  Sound(push_token(S, t)) /\ Pushed(S, push_token(S, t), t)
  <1> DEFINE T == push_token(S, t)
  <1>1. T \in ParseState /\ ListsOK(T) /\ Aligned(T)
    BY PushToken DEF Sound
  <1>2. S \in ParseState /\ T = [S EXCEPT !.token_stack = Append(S.token_stack, t)]
    BY DEF push_token, ParseState, Sound
  <1>3. Pushed(S, T, t)
    BY <1>2 DEF Pushed, ParseState
  <1> QED BY <1>1, <1>3 DEF Sound

LEMMA OpenMoves ==
  ASSUME NEW S, Sound(S), Len(S.token_stack) = S.base + 1
  PROVE  LET O == push_list(push_base(S)) IN
         /\ Sound(O)
         /\ Opened(S, O)
         /\ O.indent_stack = S.indent_stack
  <1> DEFINE B == push_base(S)
             O == push_list(B)
  <1>1. O \in ParseState /\ ListsOK(O) /\ Aligned(O)
    BY NewFrame DEF Sound, Aligned
  <1>2. /\ S \in ParseState
        /\ B = [S EXCEPT !.base_stack = Append(S.base_stack, S.base), !.base = S.base + 1]
    BY DEF push_base, Sound
  <1>3. /\ DOMAIN B = DOMAIN S /\ B.base = S.base + 1 /\ B.indent = S.indent
        /\ B.indent_stack = S.indent_stack /\ B.token_stack = S.token_stack
        /\ B.list = S.list /\ B.list_stack = S.list_stack /\ B.lists = S.lists
    BY <1>2 DEF ParseState
  <1> HIDE DEF B
  <1>4. /\ O.base = B.base /\ O.indent = B.indent
        /\ O.indent_stack = B.indent_stack /\ O.token_stack = B.token_stack
        /\ O.list = Len(B.lists) + 1 /\ O.list_stack = Append(B.list_stack, B.list)
        /\ O.lists = Append(B.lists, <<>>)
    BY <1>2, <1>3 DEF push_list, ParseState
  <1> HIDE DEF O
  <1>5. Opened(S, O) /\ O.indent_stack = S.indent_stack
    BY <1>3, <1>4 DEF Opened
  <1> QED BY <1>1, <1>5 DEF Sound, O, B

LEMMA WriteMoves ==
  ASSUME NEW S, Sound(S), NEW t \in Token
  PROVE  Sound(output_token(S, t)) /\ Written(S, output_token(S, t), t)
  <1> DEFINE O == output_token(S, t)
  <1>1. /\ O \in ParseState /\ SameStacks(S, O) /\ ListsOK(O)
        /\ O.lists = [S.lists EXCEPT ![S.list] = Append(@, t)]
    BY OutputToken, Zenon DEF Sound
  <1> HIDE DEF O
  <1>2. Aligned(O)
    BY <1>1 DEF SameStacks, Aligned, Sound
  <1>3. Sound(O) /\ Written(S, O, t)
    BY <1>1, <1>2 DEF Sound, Written, SameStacks
  <1> QED BY <1>3 DEF O

-----------------------------------------------------------------------------
(* The steps of the parser, by what they do to the tokens.                 *)

Reads(kinds) == \E kind \in kinds : input' = Append(input, kind)

here_token(type) == tag_token(type, here, here, 0)

(* No token is moved, and none that would be kept is read.                 *)
StaysStep ==
  /\ Alike(P, P')
  /\ \/ P'.indent = P.indent
     \/ P'.indent = arg /\ pc = "indent" /\ ~is_dedent(P, arg)
  /\ \/ input' = input
     \/ Sound(P) /\ Reads({"indent", "error", "end"})
     \/ Sound(P) /\ Reads({"def"}) /\ Len(P.token_stack) = P.base

FlushStep == Flushed(P, P') /\ (input' = input \/ Reads({"close"}))

WordStep ==
  /\ Reads({"word"})
  /\ \E F \in ParseState :
       Sound(F) /\ Flushed(P, F) /\ Pushed(F, P', here_token("word"))

LiteralStep == Reads({"lit"}) /\ Written(P, P', here_token("lit"))

OpenStep ==
  /\ Reads({"open"})
  /\ \E F, G \in ParseState :
       /\ Sound(F) /\ Flushed(P, F)
       /\ Sound(G) /\ Pushed(F, G, here_token("op"))
       /\ Opened(G, P') /\ P'.indent_stack = G.indent_stack

DefStep ==
  /\ Reads({"def"}) /\ input # <<>>
  /\ Opened(P, P')
  /\ P'.indent_stack = Append(P.indent_stack, P.indent)

DedentStep ==
  /\ (input' = input /\ pc \in {"indent", "close", "end"}) \/ Reads({"end"})
  /\ P.indent_stack # <<>> /\ Last(P.token_stack).type # "op"
  /\ P'.indent_stack = Front(P.indent_stack)
  /\ \E F \in ParseState, t \in Token :
       Sound(F) /\ Flushed(P, F) /\ Closed(F, P', t) /\ t.type = "block"

ListStep ==
  /\ input' = input /\ pc = "close" /\ ~is_dedent(P, arg)
  /\ P'.indent_stack = P.indent_stack
  /\ \E t \in Token : Closed(P, P', t) /\ t.type = "list"

LEMMA NextMoves ==
  IInv /\ [Next]_vars =>
    \/ StaysStep
    \/ Sound(P) /\ Sound(P') /\ ( \/ FlushStep
                                  \/ WordStep
                                  \/ LiteralStep
                                  \/ OpenStep
                                  \/ DefStep
                                  \/ DedentStep
                                  \/ ListStep )
  <1> DEFINE Goal ==
        \/ StaysStep
        \/ Sound(P) /\ Sound(P') /\ ( \/ FlushStep
                                      \/ WordStep
                                      \/ LiteralStep
                                      \/ OpenStep
                                      \/ DefStep
                                      \/ DedentStep
                                      \/ ListStep )
  <1> SUFFICES ASSUME IInv, [Next]_vars PROVE Goal
    OBVIOUS
  <1>1. TypeOK /\ P \in ParseState /\ Len(input) \in Nat /\ arg \in Nat
    BY LenProperties DEF IInv, TypeOK
  <1>2. pc # "undefined" => Sound(P) /\ (pc = "close" => Len(P.token_stack) = P.base)
    BY <1>1 DEF IInv, Sound
  <1>3. ASSUME NEW kind, Take(kind)
        PROVE  /\ input' = Append(input, kind) /\ pc = "read" /\ Sound(P)
               /\ kind # "indent" => input # <<>>
    BY <1>2, <1>3 DEF Take
  <1>4. \A type \in {"word", "lit", "op"} : here_token(type) \in Token
    BY <1>1 DEF here_token, here, tag_token, Token, Types
  <1>5. ASSUME P' = P, input' = input \/ (Sound(P) /\ Reads({"indent", "error", "end"}))
        PROVE  Goal
    BY <1>5 DEF StaysStep, Alike
  <1>19. ASSUME P' = P, input' = input PROVE Goal
    BY <1>19 DEF StaysStep, Alike
  <1>6. ASSUME NEW indent \in Indents, TakeIndent(indent) PROVE Goal
    BY <1>3, <1>5, <1>6 DEF TakeIndent, Reads
  <1>7. CASE TakeWord
    <2> DEFINE F == flush_token_stack(P)
    <2>1. /\ input' = Append(input, "word") /\ Sound(P)
          /\ P' = push_token(F, here_token("word"))
      BY <1>3, <1>7 DEF TakeWord, handle_word, here_token
    <2>2. Sound(F) /\ Flushed(P, F) /\ F \in ParseState
      BY <2>1, FlushMoves DEF Sound
    <2> HIDE DEF F
    <2>3. Len(F.token_stack) = F.base
      BY <2>2 DEF Flushed
    <2>4. Sound(P') /\ Pushed(F, P', here_token("word"))
      BY <1>4, <2>1, <2>2, <2>3, PushMoves
    <2> QED BY <2>1, <2>2, <2>4 DEF WordStep, Reads
  <1>8. CASE TakeLiteral
    <2>1. /\ input' = Append(input, "lit") /\ Sound(P)
          /\ P' = output_token(P, here_token("lit"))
      BY <1>3, <1>8 DEF TakeLiteral, here_token
    <2>2. Sound(P') /\ Written(P, P', here_token("lit"))
      BY <1>4, <2>1, WriteMoves
    <2> QED BY <2>1, <2>2 DEF LiteralStep, Reads
  <1>9. CASE TakeError
    BY <1>3, <1>5, <1>9 DEF TakeError, Reads
  <1>10. CASE TakeOpen
    <2> DEFINE F == flush_token_stack(P)
               G == push_token(F, here_token("op"))
    <2>1. /\ input' = Append(input, "open") /\ Sound(P)
          /\ P' = push_list(push_base(G))
      BY <1>3, <1>10 DEF TakeOpen, handle_list_open, here_token
    <2>2. Sound(F) /\ Flushed(P, F) /\ F \in ParseState
      BY <2>1, FlushMoves DEF Sound
    <2> HIDE DEF F
    <2>3. Len(F.token_stack) = F.base
      BY <2>2 DEF Flushed
    <2>4. Sound(G) /\ Pushed(F, G, here_token("op")) /\ G \in ParseState
      BY <1>4, <2>2, <2>3, PushMoves DEF Sound
    <2> HIDE DEF G
    <2>5. Len(G.token_stack) = G.base + 1
      BY <2>2, <2>3, <2>4, SoundTypes, Appended, SMTT(30) DEF Pushed
    <2>6. Sound(P') /\ Opened(G, P') /\ P'.indent_stack = G.indent_stack
      BY <2>1, <2>4, <2>5, OpenMoves
    <2> QED BY <2>1, <2>2, <2>4, <2>6 DEF OpenStep, Reads
  <1>11. CASE TakeClose \/ TakeNothing
    <2>1. /\ input' = input \/ Reads({"close"})
          /\ P' = flush_token_stack(P) /\ Sound(P)
      BY <1>2, <1>3, <1>11 DEF TakeClose, TakeNothing, Reads
    <2> QED BY <2>1, FlushMoves DEF FlushStep
  <1>12. CASE TakeDef
    <2>1. input' = Append(input, "def") /\ P' = handle_def(P) /\ Sound(P) /\ input # <<>>
      BY <1>3, <1>12 DEF TakeDef
    <2>2. CASE is_token_stack_empty(P)
      <3>1. P' = P
        BY <2>1, <2>2 DEF handle_def
      <3> QED BY <2>1, <2>2, <3>1 DEF StaysStep, Alike, Reads, is_token_stack_empty
    <2>3. CASE ~is_token_stack_empty(P)
      <3> DEFINE I == push_indent(P)
      <3>1. P' = push_list(push_base(I))
        BY <2>1, <2>3 DEF handle_def
      <3>2. P.indent_stack \in Seq(Nat) /\ P.indent \in Nat /\ Len(P.token_stack) = P.base + 1
        BY <2>1, <2>3, SoundTypes DEF is_token_stack_empty
      <3>3. Append(P.indent_stack, P.indent) \in Seq(Nat)
        BY <3>2, Appended
      <3>4. I = [P EXCEPT !.indent_stack = Append(P.indent_stack, P.indent)]
        BY <1>1 DEF push_indent, ParseState
      <3>5. I \in ParseState
        BY <1>1, <3>3, <3>4 DEF ParseState
      <3>6. /\ I.token_stack = P.token_stack /\ I.lists = P.lists
            /\ I.list = P.list /\ I.list_stack = P.list_stack /\ I.base = P.base
            /\ I.node = P.node /\ I.node_stack = P.node_stack
            /\ I.base_stack = P.base_stack /\ I.indent = P.indent
            /\ I.indent_stack = Append(P.indent_stack, P.indent)
        BY <1>1, <3>4 DEF ParseState
      <3> HIDE DEF I
      <3>7. Sound(I) /\ Len(I.token_stack) = I.base + 1
        BY <2>1, <3>2, <3>5, <3>6 DEF Sound, ListsOK, Aligned
      <3>8. Sound(P') /\ Opened(I, P') /\ P'.indent_stack = I.indent_stack
        BY <3>1, <3>7, OpenMoves
      <3>9. Opened(P, P')
        BY <3>6, <3>8 DEF Opened
      <3> QED BY <2>1, <3>6, <3>8, <3>9 DEF DefStep, Reads
    <2> QED BY <2>2, <2>3
  <1>13. ASSUME NEW indent \in Nat, is_dedent(P, indent), pc # "undefined",
                CloseFrame(flush_token_stack(P), handle_dedent(P), pc),
                (input' = input /\ pc \in {"indent", "close", "end"}) \/ Reads({"end"})
         PROVE  Goal
    <2>1. Underflows(flush_token_stack(P)) <=> P.base = 0
      BY <1>2, <1>13, DedentSafe DEF Sound
    <2>2. CASE P.base = 0
      <3>1. P' = P
        BY <1>13, <2>1, <2>2 DEF CloseFrame
      <3>2. CASE input' = input
        BY <1>19, <3>1, <3>2
      <3>3. CASE Reads({"end"})
        <4>1. Sound(P) /\ Reads({"indent", "error", "end"})
          BY <1>2, <1>13, <3>3 DEF Reads
        <4> QED BY <1>5, <3>1, <4>1
      <3> QED BY <1>13, <3>2, <3>3
    <2>3. CASE P.base # 0
      <3>1. P' = handle_dedent(P)
        BY <1>13, <2>1, <2>3 DEF CloseFrame
      <3>2. P.indent_stack # <<>> /\ Last(P.token_stack).type # "op"
        BY <1>13 DEF is_dedent
      <3>3. \E F \in ParseState, t \in Token :
              /\ Sound(F) /\ Flushed(P, F)
              /\ Sound(P') /\ Closed(F, P', t)
              /\ t.type = "block"
              /\ P'.indent_stack = Front(P.indent_stack)
        BY <1>2, <1>13, <2>3, <3>1, <3>2, DedentMoves
      <3> QED BY <1>2, <1>13, <3>2, <3>3 DEF DedentStep
    <2> QED BY <2>2, <2>3
  <1>14. CASE TakeEnd
    <2>1. Reads({"end"}) /\ pc = "read" /\ Sound(P)
      BY <1>3, <1>14 DEF TakeEnd, Reads
    <2>2. CASE is_dedent(P, 0)
      <3>1. CloseFrame(flush_token_stack(P), handle_dedent(P), pc)
        BY <1>14, <2>1, <2>2 DEF TakeEnd
      <3> QED BY <1>13, <2>1, <2>2, <3>1
    <2>3. CASE ~is_dedent(P, 0)
      <3>1. P' = P
        BY <1>14, <2>3 DEF TakeEnd
      <3> QED BY <1>5, <2>1, <3>1 DEF Reads
    <2> QED BY <2>2, <2>3
  <1>15. CASE Dedent
    <2>1. /\ is_dedent(P, arg) /\ pc \in {"indent", "close", "end"}
          /\ CloseFrame(flush_token_stack(P), handle_dedent(P), pc)
          /\ input' = input
      BY <1>15 DEF Dedent
    <2> QED BY <1>1, <1>13, <2>1
  <1>16. CASE IndentDone
    <2>1. /\ Alike(P, P') /\ input' = input
          /\ P'.indent = arg /\ pc = "indent" /\ ~is_dedent(P, arg)
      BY <1>1, <1>16 DEF IndentDone, Alike, ParseState
    <2> QED BY <2>1 DEF StaysStep
  <1>17. CASE CloseDone
    <2>1. /\ pc = "close" /\ CloseFrame(P, close_list(P, Len(input)), "read")
          /\ input' = input /\ ~is_dedent(P, arg)
      BY <1>17 DEF CloseDone
    <2>2. CASE Underflows(P)
      BY <1>19, <2>1, <2>2 DEF CloseFrame
    <2>3. CASE ~Underflows(P)
      <3>1. P.base_stack # <<>> /\ P' = close_list(P, Len(input))
        BY <2>1, <2>3 DEF CloseFrame, Underflows
      <3>2. P.base # 0
        BY <1>1, <1>2, <2>1, <3>1, EmptySeq DEF Sound, Aligned, ParseState
      <3>3. \E t \in Token :
              /\ Sound(P') /\ Closed(P, P', t) /\ t.type = "list"
              /\ P'.indent_stack = P.indent_stack
        BY <1>1, <1>2, <2>1, <3>1, <3>2, ListMoves
      <3> QED BY <1>2, <2>1, <3>3 DEF ListStep
    <2> QED BY <2>2, <2>3
  <1>18. CASE EndDone \/ Stopped \/ UNCHANGED vars
    BY <1>18, <1>19 DEF EndDone, Stopped, vars
  <1> QED BY <1>6, <1>7, <1>8, <1>9, <1>10, <1>11, <1>12, <1>14, <1>15, <1>16,
             <1>17, <1>18 DEF Next

-----------------------------------------------------------------------------
(* The order of the tokens.                                                *)

(* After position a of the text, up to b, nothing makes the parser flush.  *)
Quiet(in, a, b) ==
  \A i \in a + 1 .. b : in[i] \in {"lit", "error", "indent", "end"}

(* What is ahead of a token read before it, in its list or in the list to  *)
(* which it will go, overtook it quietly.                                  *)
InOrder(S, in) ==
  /\ \A l \in 1..Len(S.lists) : \A j, k \in 1..Len(S.lists[l]) :
       j < k /\ S.lists[l][j].src > S.lists[l][k].src =>
         Quiet(in, S.lists[l][k].src, S.lists[l][j].src)
  /\ \A i \in 1..Len(S.token_stack) : \A k \in 1..Len(S.lists[Target(S, i)]) :
       S.lists[Target(S, i)][k].src > S.token_stack[i].src =>
         Quiet(in, S.token_stack[i].src, S.lists[Target(S, i)][k].src)

(* And the pending token can be overtaken.                                 *)
PendingLast(S, in) ==
  Len(S.token_stack) > S.base =>
    Quiet(in, S.token_stack[Len(S.token_stack)].src, Len(in))

(* A list with a token more.                                               *)
LEMMA Extended ==
  ASSUME NEW S, Sound(S), NEW L, NEW l \in 1..Len(S.lists), NEW t \in Token,
         L = [S.lists EXCEPT ![l] = Append(@, t)]
  PROVE  /\ Len(L) = Len(S.lists)
         /\ \A m \in 1..Len(S.lists) : m # l => L[m] = S.lists[m]
         /\ Len(S.lists[l]) \in Nat
         /\ Len(L[l]) = Len(S.lists[l]) + 1
         /\ \A k \in 1..Len(S.lists[l]) : L[l][k] = S.lists[l][k]
         /\ L[l][Len(S.lists[l]) + 1] = t
         /\ \A k \in 1..Len(L[l]) : k \in 1..Len(S.lists[l]) \/ k = Len(S.lists[l]) + 1
  <1>1. S.lists \in Seq(Seq(Token)) /\ S.lists[l] \in Seq(Token)
    BY SoundTypes
  <1>2. /\ Append(S.lists[l], t) \in Seq(Token)
        /\ Len(S.lists[l]) \in Nat
        /\ Len(Append(S.lists[l], t)) = Len(S.lists[l]) + 1
        /\ \A k \in 1..Len(S.lists[l]) : Append(S.lists[l], t)[k] = S.lists[l][k]
        /\ Append(S.lists[l], t)[Len(S.lists[l]) + 1] = t
    BY <1>1, Appended
  <1>3. L = [S.lists EXCEPT ![l] = Append(S.lists[l], t)]
    OBVIOUS
  <1>4. Len(L) = Len(S.lists) /\ L[l] = Append(S.lists[l], t)
        /\ \A m \in 1..Len(S.lists) : m # l => L[m] = S.lists[m]
    BY <1>1, <1>2, <1>3, ExceptSeq
  <1>5. \A k \in 1..Len(S.lists[l]) + 1 : k \in 1..Len(S.lists[l]) \/ k = Len(S.lists[l]) + 1
    BY <1>2
  <1> QED BY <1>2, <1>4, <1>5

(* The top of a stack.                                                     *)
LEMMA Topped ==
  ASSUME NEW S, Sound(S), S.token_stack # <<>>
  PROVE  LET n == Len(S.token_stack) IN
         /\ n \in Nat \ {0} /\ n \in 1..n
         /\ Len(Front(S.token_stack)) = n - 1
         /\ \A i \in 1..n - 1 : Front(S.token_stack)[i] = S.token_stack[i] /\ i \in 1..n
         /\ Last(S.token_stack) = S.token_stack[n]
         /\ Last(S.token_stack) \in Token
         /\ n \in 1..S.base + 1
  <1>1. S.token_stack \in Seq(Token)
    BY SoundTypes
  <1>2. /\ Len(S.token_stack) \in Nat \ {0}
        /\ Len(Front(S.token_stack)) = Len(S.token_stack) - 1
        /\ \A i \in 1..Len(S.token_stack) - 1 : Front(S.token_stack)[i] = S.token_stack[i]
        /\ Last(S.token_stack) = S.token_stack[Len(S.token_stack)]
        /\ Last(S.token_stack) \in Token
    BY <1>1, FrontLast
  <1>3. Len(S.token_stack) \in 1..Len(S.token_stack)
    BY <1>2
  <1>4. Len(S.token_stack) \in 1..S.base + 1
    BY <1>3, TargetsIncrease
  <1>5. \A i \in 1..Len(S.token_stack) - 1 : i \in 1..Len(S.token_stack)
    BY <1>2
  <1> QED BY <1>2, <1>3, <1>4, <1>5

LEMMA FlushedHolds ==
  ASSUME NEW S, Sound(S), NEW F, Flushed(S, F), NEW n \in Nat, Holds(S, n)
  PROVE  Holds(F, n)
  <1>1. CASE Alike(S, F)
    BY <1>1 DEF Alike, Holds
  <1>2. CASE Moved(S, F, Last(S.token_stack))
    <2> DEFINE l == F.list
    <2>1. /\ S.token_stack # <<>> /\ F.token_stack = Front(S.token_stack)
          /\ l = Target(S, Len(S.token_stack))
          /\ F.lists = [S.lists EXCEPT ![l] = Append(@, Last(S.token_stack))]
      BY <1>2 DEF Moved
    <2>2. /\ Len(S.token_stack) \in 1..Len(S.token_stack)
          /\ Last(S.token_stack) = S.token_stack[Len(S.token_stack)]
          /\ Last(S.token_stack) \in Token /\ Len(S.token_stack) \in 1..S.base + 1
          /\ Len(F.token_stack) = Len(S.token_stack) - 1
          /\ \A i \in 1..Len(S.token_stack) - 1 :
               F.token_stack[i] = S.token_stack[i] /\ i \in 1..Len(S.token_stack)
      BY <2>1, Topped
    <2>3. l \in 1..Len(S.lists)
      BY <2>1, <2>2, TargetsIncrease
    <2>4. /\ Len(F.lists) = Len(S.lists)
          /\ \A m \in 1..Len(S.lists) : m # l => F.lists[m] = S.lists[m]
          /\ \A k \in 1..Len(S.lists[l]) : F.lists[l][k] = S.lists[l][k]
          /\ F.lists[l][Len(S.lists[l]) + 1] = Last(S.token_stack)
          /\ \A k \in 1..Len(F.lists[l]) : k \in 1..Len(S.lists[l]) \/ k = Len(S.lists[l]) + 1
      BY <2>1, <2>2, <2>3, Extended
    <2> HIDE DEF l
    <2>5. Fits(Last(S.token_stack), n, Len(S.lists))
      BY <2>2 DEF Holds
    <2>6. ASSUME NEW m \in 1..Len(F.lists), NEW k \in 1..Len(F.lists[m])
          PROVE  Fits(F.lists[m][k], n, Len(F.lists))
      <3>1. CASE m # l
        BY <2>4, <3>1 DEF Holds
      <3>2. CASE m = l /\ k \in 1..Len(S.lists[l])
        BY <2>3, <2>4, <3>2 DEF Holds
      <3>3. CASE m = l /\ k = Len(S.lists[l]) + 1
        BY <2>4, <2>5, <3>3
      <3> QED BY <2>4, <3>1, <3>2, <3>3
    <2>7. \A i \in 1..Len(F.token_stack) : Fits(F.token_stack[i], n, Len(F.lists))
      BY <2>2, <2>4 DEF Holds
    <2> QED BY <2>6, <2>7 DEF Holds
  <1> QED BY <1>1, <1>2 DEF Flushed

LEMMA MovedInOrder ==
  ASSUME NEW S, Sound(S), NEW O, NEW t, Moved(S, O, t), NEW in, InOrder(S, in)
  PROVE  InOrder(O, in)
  <1> DEFINE n == Len(S.token_stack)
             l == O.list
  <1>1. /\ S.token_stack # <<>> /\ t \in Token /\ t.src = Last(S.token_stack).src
        /\ O.token_stack = Front(S.token_stack)
        /\ O.list = Target(S, n)
        /\ \A i \in 1..n : Target(O, i) = Target(S, i)
        /\ O.lists = [S.lists EXCEPT ![l] = Append(@, t)]
    BY DEF Moved
  <1>2. /\ n \in Nat \ {0} /\ n \in 1..n /\ Len(O.token_stack) = n - 1
        /\ \A i \in 1..n - 1 : O.token_stack[i] = S.token_stack[i] /\ i \in 1..n
        /\ t.src = S.token_stack[n] .src
        /\ n \in 1..S.base + 1
    BY <1>1, Topped
  <1>3. l \in 1..Len(S.lists)
    BY <1>1, <1>2, TargetsIncrease
  <1>4. \A i \in 1..n - 1 : Target(S, i) # l /\ Target(S, i) \in 1..Len(S.lists)
    <2> SUFFICES ASSUME NEW i \in 1..n - 1
                 PROVE  Target(S, i) # l /\ Target(S, i) \in 1..Len(S.lists)
      OBVIOUS
    <2>1. i \in 1..S.base + 1 /\ n \in 1..S.base + 1
      BY <1>2, TargetsIncrease
    <2>2. Target(S, i) < Target(S, n) /\ Target(S, i) \in 1..Len(S.lists)
      BY <2>1, TargetsIncrease
    <2>3. Target(S, i) \in Nat /\ Target(S, n) \in Nat
      BY <1>1, <1>3, <2>2
    <2> QED BY <1>1, <2>2, <2>3
  <1>5. /\ Len(O.lists) = Len(S.lists)
        /\ \A m \in 1..Len(S.lists) : m # l => O.lists[m] = S.lists[m]
        /\ Len(S.lists[l]) \in Nat
        /\ Len(O.lists[l]) = Len(S.lists[l]) + 1
        /\ \A k \in 1..Len(S.lists[l]) : O.lists[l][k] = S.lists[l][k]
        /\ O.lists[l][Len(S.lists[l]) + 1] = t
        /\ \A k \in 1..Len(O.lists[l]) : k \in 1..Len(S.lists[l]) \/ k = Len(S.lists[l]) + 1
    BY <1>1, <1>3, Extended
  <1> HIDE DEF l, n
  <1>6. ASSUME NEW m \in 1..Len(O.lists), NEW j \in 1..Len(O.lists[m]),
               NEW k \in 1..Len(O.lists[m]),
               j < k, O.lists[m][j].src > O.lists[m][k].src
        PROVE  Quiet(in, O.lists[m][k].src, O.lists[m][j].src)
    <2>1. CASE m # l
      <3>1. O.lists[m] = S.lists[m]
        BY <1>5, <2>1
      <3> QED BY <1>5, <1>6, <3>1 DEF InOrder
    <2>2. CASE m = l
      <3>1. j \in 1..Len(S.lists[l])
        BY <1>5, <1>6, <2>2
      <3>2. O.lists[m][j] = S.lists[l][j]
        BY <1>5, <2>2, <3>1
      <3>3. CASE k \in 1..Len(S.lists[l])
        <4>1. O.lists[m][k] = S.lists[l][k]
          BY <1>5, <2>2, <3>3
        <4> QED BY <1>3, <1>6, <3>1, <3>2, <3>3, <4>1 DEF InOrder
      <3>4. CASE k = Len(S.lists[l]) + 1
        <4>1. O.lists[m][k].src = S.token_stack[n] .src
          BY <1>2, <1>5, <2>2, <3>4
        <4>2. n \in 1..Len(S.token_stack) /\ Target(S, n) = l
          BY <1>1, <1>2 DEF n, l
        <4> QED BY <1>6, <3>1, <3>2, <4>1, <4>2 DEF InOrder
      <3> QED BY <1>5, <2>2, <3>3, <3>4
    <2> QED BY <2>1, <2>2
  <1>7. ASSUME NEW i \in 1..Len(O.token_stack), NEW k \in 1..Len(O.lists[Target(O, i)]),
               O.lists[Target(O, i)][k].src > O.token_stack[i].src
        PROVE  Quiet(in, O.token_stack[i].src, O.lists[Target(O, i)][k].src)
    <2>1. i \in 1..n - 1 /\ i \in 1..Len(S.token_stack)
      BY <1>2 DEF n
    <2>2. O.token_stack[i] = S.token_stack[i] /\ Target(O, i) = Target(S, i)
      BY <1>1, <1>2, <2>1 DEF n
    <2>3. O.lists[Target(O, i)] = S.lists[Target(S, i)]
      BY <1>4, <1>5, <2>1, <2>2
    <2> QED BY <1>7, <2>1, <2>2, <2>3 DEF InOrder
  <1> QED BY <1>6, <1>7 DEF InOrder

LEMMA FlushedInOrder ==
  ASSUME NEW S, Sound(S), NEW O, Flushed(S, O), NEW in, InOrder(S, in)
  PROVE  InOrder(O, in)
  <1>1. CASE Alike(S, O)
    BY <1>1 DEF Alike, InOrder, Target
  <1>2. CASE Moved(S, O, Last(S.token_stack))
    BY <1>2, MovedInOrder
  <1> QED BY <1>1, <1>2 DEF Flushed

(* What has just been read is behind everything else.                      *)
LEMMA PushedInOrder ==
  ASSUME NEW S, Sound(S), NEW O, NEW t, Pushed(S, O, t), NEW in, InOrder(S, in),
         NEW n \in Nat, Holds(S, n), t.src = n + 1
  PROVE  InOrder(O, in)
  <1>1. /\ t \in Token /\ Len(S.token_stack) = S.base
        /\ O.token_stack = Append(S.token_stack, t)
        /\ O.base = S.base /\ O.list = S.list
        /\ O.list_stack = S.list_stack /\ O.lists = S.lists
    BY DEF Pushed
  <1>2. /\ S.base \in Nat
        /\ Len(O.token_stack) = S.base + 1
        /\ \A i \in 1..S.base : O.token_stack[i] = S.token_stack[i]
        /\ O.token_stack[S.base + 1] = t
    BY <1>1, SoundTypes, Appended, SMTT(30)
  <1>3. \A i : Target(O, i) = Target(S, i)
    BY <1>1 DEF Target
  <1>4. Target(S, S.base + 1) \in 1..Len(S.lists)
    BY <1>2, TargetsIncrease
  <1>5. \A k \in 1..Len(S.lists[Target(S, S.base + 1)]) :
          ~(S.lists[Target(S, S.base + 1)][k].src > n + 1)
    BY <1>4 DEF Holds, Fits
  <1>6. ASSUME NEW i \in 1..S.base + 1, NEW k \in 1..Len(O.lists[Target(O, i)]),
               O.lists[Target(O, i)][k].src > O.token_stack[i].src
        PROVE  Quiet(in, O.token_stack[i].src, O.lists[Target(O, i)][k].src)
    <2>1. O.lists[Target(O, i)] = S.lists[Target(S, i)]
      BY <1>1, <1>3
    <2>2. CASE i \in 1..S.base
      BY <1>1, <1>2, <1>6, <2>1, <2>2 DEF InOrder
    <2>3. CASE i = S.base + 1
      BY <1>2, <1>5, <1>6, <2>1, <2>3
    <2> QED BY <1>2, <2>2, <2>3
  <1>7. \A l \in 1..Len(O.lists) : \A j, k \in 1..Len(O.lists[l]) :
          j < k /\ O.lists[l][j].src > O.lists[l][k].src =>
            Quiet(in, O.lists[l][k].src, O.lists[l][j].src)
    BY <1>1 DEF InOrder
  <1> QED BY <1>2, <1>6, <1>7 DEF InOrder

LEMMA OpenedInOrder ==
  ASSUME NEW S, Sound(S), NEW O, Opened(S, O), NEW in, InOrder(S, in)
  PROVE  InOrder(O, in)
  <1>1. /\ Len(S.token_stack) = S.base + 1
        /\ O.token_stack = S.token_stack /\ O.base = S.base + 1
        /\ O.list_stack = Append(S.list_stack, S.list)
        /\ O.lists = Append(S.lists, <<>>)
    BY DEF Opened
  <1>2. /\ S.base \in Nat /\ Len(S.list_stack) = S.base /\ S.list \in Nat
        /\ S.list_stack \in Seq(Nat)
    BY SoundTypes
  <1>3. /\ \A i \in 1..S.base : O.list_stack[i] = S.list_stack[i]
        /\ O.list_stack[S.base + 1] = S.list
    BY <1>1, <1>2, Appended
  <1>4. /\ Len(S.lists) \in Nat /\ Len(O.lists) = Len(S.lists) + 1
        /\ \A l \in 1..Len(S.lists) : O.lists[l] = S.lists[l]
        /\ O.lists[Len(S.lists) + 1] = <<>>
    BY <1>1, SoundTypes, Appended
  <1>5. \A i \in 1..S.base + 1 : Target(O, i) = Target(S, i)
    <2> SUFFICES ASSUME NEW i \in 1..S.base + 1 PROVE Target(O, i) = Target(S, i)
      OBVIOUS
    <2>1. Target(O, i) = O.list_stack[i]
      BY <1>1, <1>2 DEF Target
    <2>2. CASE i \in 1..S.base
      BY <1>3, <2>1, <2>2, TargetsIncrease
    <2>3. CASE i = S.base + 1
      BY <1>3, <2>1, <2>3, TargetsIncrease
    <2> QED BY <1>2, <2>2, <2>3
  <1>6. \A l \in 1..Len(O.lists) : l \in 1..Len(S.lists) \/ l = Len(S.lists) + 1
    BY <1>4
  <1>7. \A i \in 1..S.base + 1 : O.lists[Target(O, i)] = S.lists[Target(S, i)]
    BY <1>4, <1>5, TargetsIncrease
  <1>8. ASSUME NEW l \in 1..Len(O.lists), NEW j \in 1..Len(O.lists[l]),
               NEW k \in 1..Len(O.lists[l]),
               j < k, O.lists[l][j].src > O.lists[l][k].src
        PROVE  Quiet(in, O.lists[l][k].src, O.lists[l][j].src)
    <2>1. CASE l \in 1..Len(S.lists)
      <3>1. O.lists[l] = S.lists[l]
        BY <1>4, <2>1
      <3> QED BY <1>8, <2>1, <3>1 DEF InOrder
    <2>2. CASE l = Len(S.lists) + 1
      BY <1>4, <1>8, <2>2
    <2> QED BY <1>6, <2>1, <2>2
  <1>9. \A i \in 1..Len(O.token_stack) : \A k \in 1..Len(O.lists[Target(O, i)]) :
          O.lists[Target(O, i)][k].src > O.token_stack[i].src =>
            Quiet(in, O.token_stack[i].src, O.lists[Target(O, i)][k].src)
    BY <1>1, <1>7 DEF InOrder
  <1> QED BY <1>8, <1>9 DEF InOrder

LEMMA WrittenInOrder ==
  ASSUME NEW S, Sound(S), NEW O, NEW t, Written(S, O, t), NEW in, InOrder(S, in),
         NEW n \in Nat, Holds(S, n), t.src = n + 1,
         Len(in) = n + 1, PendingLast(S, in)
  PROVE  InOrder(O, in)
  <1> DEFINE l == S.list
  <1>1. /\ t \in Token /\ O.token_stack = S.token_stack
        /\ O.base = S.base /\ O.list = S.list
        /\ O.list_stack = S.list_stack
        /\ O.lists = [S.lists EXCEPT ![l] = Append(@, t)]
    BY DEF Written
  <1>2. l \in 1..Len(S.lists) /\ S.base \in Nat /\ Len(S.token_stack) \in {S.base, S.base + 1}
        /\ Len(S.lists) \in Nat
    BY SoundTypes
  <1>3. /\ Len(O.lists) = Len(S.lists)
        /\ \A m \in 1..Len(S.lists) : m # l => O.lists[m] = S.lists[m]
        /\ Len(S.lists[l]) \in Nat
        /\ Len(O.lists[l]) = Len(S.lists[l]) + 1
        /\ \A k \in 1..Len(S.lists[l]) : O.lists[l][k] = S.lists[l][k]
        /\ O.lists[l][Len(S.lists[l]) + 1] = t
        /\ \A k \in 1..Len(O.lists[l]) : k \in 1..Len(S.lists[l]) \/ k = Len(S.lists[l]) + 1
    BY <1>1, <1>2, Extended, SMTT(30)
  <1>4. \A i : Target(O, i) = Target(S, i)
    BY <1>1 DEF Target
  <1> HIDE DEF l
  <1>5. ASSUME NEW m \in 1..Len(O.lists), NEW j \in 1..Len(O.lists[m]),
               NEW k \in 1..Len(O.lists[m]),
               j < k, O.lists[m][j].src > O.lists[m][k].src
        PROVE  Quiet(in, O.lists[m][k].src, O.lists[m][j].src)
    <2>1. CASE m # l
      <3>1. O.lists[m] = S.lists[m]
        BY <1>3, <2>1
      <3> QED BY <1>3, <1>5, <3>1 DEF InOrder
    <2>2. CASE m = l
      <3>1. j \in 1..Len(S.lists[l])
        BY <1>3, <1>5, <2>2
      <3>2. O.lists[m][j] = S.lists[l][j] /\ S.lists[l][j].src \in 1..n
        BY <1>2, <1>3, <2>2, <3>1 DEF Holds, Fits
      <3>3. CASE k \in 1..Len(S.lists[l])
        <4>1. O.lists[m][k] = S.lists[l][k]
          BY <1>3, <2>2, <3>3
        <4> QED BY <1>2, <1>5, <3>1, <3>2, <3>3, <4>1 DEF InOrder
      <3>4. CASE k = Len(S.lists[l]) + 1
        <4>1. O.lists[m][k].src = n + 1
          BY <1>3, <2>2, <3>4
        <4> QED BY <1>5, <3>2, <4>1
      <3> QED BY <1>3, <2>2, <3>3, <3>4
    <2> QED BY <2>1, <2>2
  <1>6. ASSUME NEW i \in 1..Len(O.token_stack), NEW k \in 1..Len(O.lists[Target(O, i)]),
               O.lists[Target(O, i)][k].src > O.token_stack[i].src
        PROVE  Quiet(in, O.token_stack[i].src, O.lists[Target(O, i)][k].src)
    <2>1. /\ i \in 1..Len(S.token_stack) /\ O.token_stack[i] = S.token_stack[i]
          /\ Target(O, i) = Target(S, i) /\ i \in 1..S.base + 1
      BY <1>1, <1>4, TargetsIncrease
    <2>2. Target(S, i) \in 1..Len(S.lists)
      BY <2>1, TargetsIncrease
    <2>3. CASE Target(S, i) # l
      <3>1. O.lists[Target(O, i)] = S.lists[Target(S, i)]
        BY <1>3, <2>1, <2>2, <2>3
      <3> QED BY <1>6, <2>1, <3>1 DEF InOrder
    <2>4. CASE Target(S, i) = l
      <3>1. i = S.base + 1
        <4>1. ASSUME i \in 1..S.base PROVE FALSE
          <5>1. i \in 1..(S.base + 1) - 1 /\ S.base + 1 \in 1..S.base + 1
            BY <1>2, <4>1
          <5>2. Target(S, i) < Target(S, S.base + 1) /\ Target(S, S.base + 1) = l
            BY <5>1, TargetsIncrease DEF l
          <5> QED BY <1>2, <2>4, <5>2
        <4> QED BY <1>2, <2>1, <4>1
      <3>2. Len(S.token_stack) = S.base + 1 /\ Len(S.token_stack) > S.base
        BY <1>2, <2>1, <3>1
      <3>3. Quiet(in, S.token_stack[i].src, Len(in))
        BY <3>1, <3>2 DEF PendingLast
      <3>4. CASE k \in 1..Len(S.lists[l])
        <4>1. O.lists[Target(O, i)][k] = S.lists[Target(S, i)][k]
          BY <1>3, <2>1, <2>4, <3>4
        <4> QED BY <1>6, <2>1, <2>4, <3>4, <4>1 DEF InOrder
      <3>5. CASE k = Len(S.lists[l]) + 1
        <4>1. O.lists[Target(O, i)][k].src = n + 1
          BY <1>3, <2>1, <2>4, <3>5
        <4> QED BY <2>1, <3>3, <4>1
      <3> QED BY <1>3, <2>1, <2>4, <3>4, <3>5
    <2> QED BY <2>3, <2>4
  <1> QED BY <1>5, <1>6 DEF InOrder

(* Reading a token changes nothing of what was read before.                *)
LEMMA ReadInOrder ==
  ASSUME NEW S, Sound(S), NEW in \in Seq(AllKinds), NEW kind \in AllKinds,
         Holds(S, Len(in)), InOrder(S, in)
  PROVE  /\ InOrder(S, Append(in, kind))
         /\ PendingLast(S, in) /\ kind \in {"lit", "error", "indent", "end"} =>
              PendingLast(S, Append(in, kind))
  <1> DEFINE n == Len(in)
             more == Append(in, kind)
  <1>1. /\ n \in Nat /\ Len(more) = n + 1
        /\ \A i \in 1..n : more[i] = in[i]
        /\ more[n + 1] = kind
    BY Appended
  <1> HIDE DEF more, n
  <1>2. \A a \in Nat : \A b \in 1..n : Quiet(in, a, b) => Quiet(more, a, b)
    BY <1>1 DEF Quiet
  <1>3. \A l \in 1..Len(S.lists) : \A k \in 1..Len(S.lists[l]) : S.lists[l][k].src \in 1..n
    BY DEF Holds, Fits, n
  <1>4. \A i \in 1..Len(S.token_stack) : S.token_stack[i].src \in 1..n
    BY DEF Holds, Fits, n
  <1>5. \A i \in 1..Len(S.token_stack) : Target(S, i) \in 1..Len(S.lists)
    BY TargetsIncrease
  <1>8. ASSUME NEW l \in 1..Len(S.lists), NEW j \in 1..Len(S.lists[l]),
               NEW k \in 1..Len(S.lists[l]),
               j < k, S.lists[l][j].src > S.lists[l][k].src
        PROVE  Quiet(more, S.lists[l][k].src, S.lists[l][j].src)
    <2>1. Quiet(in, S.lists[l][k].src, S.lists[l][j].src)
      BY <1>8 DEF InOrder
    <2> QED BY <1>1, <1>2, <1>3, <2>1, SMTT(30)
  <1>9. ASSUME NEW i \in 1..Len(S.token_stack), NEW k \in 1..Len(S.lists[Target(S, i)]),
               S.lists[Target(S, i)][k].src > S.token_stack[i].src
        PROVE  Quiet(more, S.token_stack[i].src, S.lists[Target(S, i)][k].src)
    <2>1. Quiet(in, S.token_stack[i].src, S.lists[Target(S, i)][k].src)
      BY <1>9 DEF InOrder
    <2>2. S.lists[Target(S, i)][k].src \in 1..n /\ S.token_stack[i].src \in Nat
      BY <1>3, <1>4, <1>5, SMTT(30)
    <2> QED BY <1>2, <2>1, <2>2
  <1>6. InOrder(S, more)
    BY <1>8, <1>9 DEF InOrder
  <1>7. ASSUME PendingLast(S, in), kind \in {"lit", "error", "indent", "end"}
        PROVE  PendingLast(S, more)
    <2> SUFFICES ASSUME Len(S.token_stack) > S.base
                 PROVE  Quiet(more, S.token_stack[Len(S.token_stack)].src, n + 1)
      BY <1>1 DEF PendingLast
    <2>1. Quiet(in, S.token_stack[Len(S.token_stack)].src, n)
      BY <1>7 DEF PendingLast, n
    <2>2. S.base \in Nat /\ Len(S.token_stack) \in Nat
      BY SoundTypes
    <2>3. S.token_stack[Len(S.token_stack)].src \in 1..n
      BY <1>4, <2>2
    <2> QED BY <1>1, <1>7, <2>1, <2>3 DEF Quiet
  <1> QED BY <1>6, <1>7 DEF more

LEMMA NextInOrder ==
  ASSUME IInv, Holds(P, Len(input)), InOrder(P, input), PendingLast(P, input),
         [Next]_vars
  PROVE  InOrder(P', input') /\ PendingLast(P', input')
  <1> DEFINE n == Len(input)
  <1>1. /\ input \in Seq(AllKinds) /\ n \in Nat
        /\ \A kind \in AllKinds : Len(Append(input, kind)) = n + 1
    BY Appended DEF IInv, TypeOK
  <1>2. ASSUME NEW kind \in AllKinds, Sound(P), input' = Append(input, kind)
        PROVE  /\ InOrder(P, input') /\ Len(input') = n + 1
               /\ kind \in {"lit", "error", "indent", "end"} => PendingLast(P, input')
    BY <1>1, <1>2, ReadInOrder
  <1>3. ASSUME NEW S, Len(S.token_stack) = S.base, Sound(S)
        PROVE  PendingLast(S, input')
    BY <1>3, SoundTypes DEF PendingLast
  <1>4. ASSUME NEW t, t.src = n + 1, NEW S, Sound(S), NEW F, Pushed(S, F, t), Len(input') = n + 1
        PROVE  PendingLast(F, input')
    <2>1. F.token_stack = Append(S.token_stack, t) /\ t \in Token
      BY <1>4 DEF Pushed
    <2>2. F.token_stack[Len(F.token_stack)] = t
      BY <1>4, <2>1, SoundTypes, Appended
    <2>3. Quiet(input', n + 1, n + 1)
      BY <1>1 DEF Quiet
    <2> QED BY <1>4, <2>2, <2>3 DEF PendingLast
  <1>5. CASE StaysStep
    <2>1. /\ P'.token_stack = P.token_stack /\ P'.lists = P.lists /\ P'.base = P.base
          /\ \A i : Target(P', i) = Target(P, i)
      BY <1>5 DEF StaysStep, Alike, Target
    <2>2. InOrder(P, input') /\ PendingLast(P, input')
      <3>1. CASE input' = input
        BY <3>1
      <3>2. CASE Sound(P) /\ Reads({"indent", "error", "end"})
        BY <1>2, <3>2 DEF Reads, AllKinds
      <3>3. CASE Sound(P) /\ Reads({"def"}) /\ Len(P.token_stack) = P.base
        BY <1>2, <1>3, <3>3 DEF Reads, AllKinds
      <3> QED BY <1>5, <3>1, <3>2, <3>3 DEF StaysStep
    <2> QED BY <2>1, <2>2 DEF InOrder, PendingLast
  <1>6. CASE Sound(P) /\ Sound(P') /\ FlushStep
    <2>1. InOrder(P, input')
      BY <1>2, <1>6 DEF FlushStep, Reads, AllKinds
    <2> QED BY <1>3, <1>6, <2>1, FlushedInOrder DEF FlushStep, Flushed
  <1>7. here_token("word").src = n + 1 /\ here_token("lit").src = n + 1 /\ here_token("op").src = n + 1
    BY DEF here_token, here, tag_token
  <1>8. CASE Sound(P) /\ Sound(P') /\ WordStep
    <2>1. PICK F \in ParseState :
            Sound(F) /\ Flushed(P, F) /\ Pushed(F, P', here_token("word"))
      BY <1>8 DEF WordStep
    <2>2. InOrder(P, input') /\ Len(input') = n + 1
      BY <1>2, <1>8 DEF WordStep, Reads, AllKinds
    <2>3. Holds(F, n)
      BY <1>1, <1>8, <2>1, FlushedHolds
    <2>4. InOrder(F, input')
      BY <1>8, <2>1, <2>2, FlushedInOrder
    <2> QED BY <1>1, <1>4, <1>7, <2>1, <2>2, <2>3, <2>4, PushedInOrder
  <1>9. CASE Sound(P) /\ Sound(P') /\ LiteralStep
    <2>1. InOrder(P, input') /\ PendingLast(P, input') /\ Len(input') = n + 1
          /\ Written(P, P', here_token("lit"))
      BY <1>2, <1>9 DEF LiteralStep, Reads, AllKinds
    <2>2. InOrder(P', input')
      BY <1>1, <1>7, <1>9, <2>1, WrittenInOrder
    <2> QED BY <2>1, <2>2 DEF PendingLast, Written
  <1>10. CASE Sound(P) /\ Sound(P') /\ OpenStep
    <2>1. PICK F \in ParseState, G \in ParseState :
            /\ Sound(F) /\ Flushed(P, F)
            /\ Sound(G) /\ Pushed(F, G, here_token("op"))
            /\ Opened(G, P')
      BY <1>10 DEF OpenStep
    <2>2. InOrder(P, input') /\ Len(input') = n + 1
      BY <1>2, <1>10 DEF OpenStep, Reads, AllKinds
    <2>3. Holds(F, n)
      BY <1>1, <1>10, <2>1, FlushedHolds
    <2>4. InOrder(F, input')
      BY <1>10, <2>1, <2>2, FlushedInOrder
    <2>5. InOrder(G, input')
      BY <1>1, <1>7, <2>1, <2>3, <2>4, PushedInOrder
    <2>6. Len(P'.token_stack) = P'.base
      BY <2>1 DEF Opened
    <2> QED BY <1>3, <1>10, <2>1, <2>5, <2>6, OpenedInOrder
  <1>11. CASE Sound(P) /\ Sound(P') /\ DefStep
    <2>1. InOrder(P, input') /\ Opened(P, P')
      BY <1>2, <1>11 DEF DefStep, Reads, AllKinds
    <2>2. Len(P'.token_stack) = P'.base
      BY <2>1 DEF Opened
    <2> QED BY <1>3, <1>11, <2>1, <2>2, OpenedInOrder
  <1>12. CASE Sound(P) /\ Sound(P') /\ DedentStep
    <2>1. PICK F \in ParseState, t \in Token : Sound(F) /\ Flushed(P, F) /\ Closed(F, P', t)
      BY <1>12 DEF DedentStep
    <2>2. InOrder(P, input')
      BY <1>2, <1>12 DEF DedentStep, Reads, AllKinds
    <2>3. InOrder(F, input')
      BY <1>12, <2>1, <2>2, FlushedInOrder
    <2> QED BY <1>3, <1>12, <2>1, <2>3, MovedInOrder DEF Closed, Moved
  <1>13. CASE Sound(P) /\ Sound(P') /\ ListStep
    <2>1. PICK t \in Token : Closed(P, P', t)
      BY <1>13 DEF ListStep
    <2>2. InOrder(P, input')
      BY <1>13 DEF ListStep
    <2> QED BY <1>3, <1>13, <2>1, <2>2, MovedInOrder DEF Closed, Moved
  <1> QED BY <1>5, <1>6, <1>8, <1>9, <1>10, <1>11, <1>12, <1>13, NextMoves

(* An identifier is overtaken only by the literals right after it, in a    *)
(* text of any length: every other token is flushed to its list before     *)
(* anything that comes after it, and the slots of the token stack go to    *)
(* different lists.                                                        *)
THEOREM OvertakenByLiterals == Spec => []OnlyLiteralsOvertake
  <1> DEFINE Inv == IInv /\ Holds(P, Len(input)) /\ InOrder(P, input) /\ PendingLast(P, input)
  <1>1. Init => Inv
    <2> SUFFICES ASSUME Init PROVE InOrder(P, input) /\ PendingLast(P, input)
      BY InitIInv, InitHolds
    <2>1. P.token_stack = <<>> /\ P.base = 0 /\ P.lists = << <<>> >>
      BY DEF Init, parse_init
    <2> QED BY <2>1 DEF InOrder, PendingLast
  <1>2. Inv /\ [Next]_vars => Inv'
    BY NextIInv, NextHolds, NextInOrder
  <1>3. Inv => OnlyLiteralsOvertake
    BY DEF InOrder, OnlyLiteralsOvertake, Inverted, Quiet
  <1> QED BY <1>1, <1>2, <1>3, PTL DEF Spec

-----------------------------------------------------------------------------
(* The kinds of the tokens.                                                *)

OneLine(in) == \A i \in DOMAIN in : i > 1 => in[i] \notin {"indent", "end"}

NoBrackets(in) == \A i \in DOMAIN in : in[i] \notin {"open", "close"}

(* A token on the stack is an identifier or a "[", and a pending one an    *)
(* identifier.                                                             *)
Kinded(S, in) ==
  /\ \A i \in 1..Len(S.token_stack) :
       \/ S.token_stack[i].type = "word" /\ in[S.token_stack[i].src] = "word"
       \/ S.token_stack[i].type = "op" /\ in[S.token_stack[i].src] = "open"
  /\ Len(S.token_stack) > S.base => S.token_stack[Len(S.token_stack)].type = "word"

Fitting(token, in) ==
  /\ token.type = "block" => in[token.src] = "word"
  /\ token.type = "list" => in[token.src] = "open"

Matched(S, in) ==
  \A l \in 1..Len(S.lists) : \A k \in 1..Len(S.lists[l]) : Fitting(S.lists[l][k], in)

(* The frames that an identifier heads: those of definitions, unless       *)
(* indentation or ";" closed a "[" as one.                                 *)
Heads(S) == {i \in 1..S.base : S.token_stack[i].type = "word"}

Counted(S, in) ==
  /\ Cardinality(Heads(S)) >= Len(S.indent_stack)
  /\ OneLine(in) => Cardinality(Heads(S)) = Len(S.indent_stack)

LEMMA ReadKinded ==
  ASSUME NEW S, Sound(S), NEW in \in Seq(AllKinds), NEW kind \in AllKinds,
         Holds(S, Len(in))
  PROVE  /\ Kinded(S, in) => Kinded(S, Append(in, kind))
         /\ Matched(S, in) => Matched(S, Append(in, kind))
         /\ OneLine(Append(in, kind)) => OneLine(in) /\ (kind = "end" => in = <<>>)
         /\ NoBrackets(Append(in, kind)) => NoBrackets(in)
  <1> DEFINE n == Len(in)
             more == Append(in, kind)
  <1>1. /\ n \in Nat /\ Len(more) = n + 1
        /\ \A i \in 1..n : more[i] = in[i]
        /\ more[n + 1] = kind /\ more \in Seq(AllKinds)
    BY Appended
  <1>2. DOMAIN in = 1..n /\ DOMAIN more = 1..n + 1
    BY <1>1, LenProperties
  <1> HIDE DEF more
  <1>3. /\ \A l \in 1..Len(S.lists) : \A k \in 1..Len(S.lists[l]) : S.lists[l][k].src \in 1..n
        /\ \A i \in 1..Len(S.token_stack) : S.token_stack[i].src \in 1..n
    BY DEF Holds, Fits
  <1> HIDE DEF n
  <1>4. Kinded(S, in) => Kinded(S, more)
    BY <1>1, <1>3 DEF Kinded
  <1>5. Matched(S, in) => Matched(S, more)
    BY <1>1, <1>3 DEF Matched, Fitting
  <1>6. \A i \in 1..n : i \in 1..n + 1
    BY <1>1
  <1>7. OneLine(more) => OneLine(in)
    BY <1>1, <1>2, <1>6 DEF OneLine
  <1>8. NoBrackets(more) => NoBrackets(in)
    BY <1>1, <1>2, <1>6 DEF NoBrackets
  <1>9. OneLine(more) /\ kind = "end" => in = <<>>
    <2>1. n # 0 => n + 1 \in 1..n + 1 /\ n + 1 > 1
      BY <1>1
    <2>2. OneLine(more) /\ kind = "end" => n = 0
      BY <1>1, <1>2, <2>1 DEF OneLine
    <2> QED BY <2>2, EmptySeq DEF n
  <1> QED BY <1>4, <1>5, <1>7, <1>8, <1>9 DEF more

LEMMA MovedKinded ==
  ASSUME NEW S, Sound(S), NEW O, NEW t, Moved(S, O, t), NEW in, Kinded(S, in)
  PROVE  /\ Kinded(O, in)
         /\ Matched(S, in) /\ Fitting(t, in) => Matched(O, in)
         /\ O.base < Len(S.token_stack)
  <1> DEFINE n == Len(S.token_stack)
             l == O.list
  <1>1. /\ S.token_stack # <<>> /\ t \in Token
        /\ O.token_stack = Front(S.token_stack) /\ Len(O.token_stack) = O.base
        /\ l = Target(S, n)
        /\ O.lists = [S.lists EXCEPT ![l] = Append(@, t)]
    BY DEF Moved
  <1>2. /\ n \in Nat \ {0} /\ n \in 1..n /\ Len(O.token_stack) = n - 1
        /\ \A i \in 1..n - 1 : O.token_stack[i] = S.token_stack[i] /\ i \in 1..n
        /\ n \in 1..S.base + 1
    BY <1>1, Topped
  <1>3. Kinded(O, in)
    BY <1>1, <1>2 DEF Kinded
  <1>4. l \in 1..Len(S.lists)
    BY <1>1, <1>2, TargetsIncrease
  <1>5. /\ Len(O.lists) = Len(S.lists)
        /\ \A m \in 1..Len(S.lists) : m # l => O.lists[m] = S.lists[m]
        /\ \A k \in 1..Len(S.lists[l]) : O.lists[l][k] = S.lists[l][k]
        /\ O.lists[l][Len(S.lists[l]) + 1] = t
        /\ \A k \in 1..Len(O.lists[l]) : k \in 1..Len(S.lists[l]) \/ k = Len(S.lists[l]) + 1
    BY <1>1, <1>4, Extended
  <1> HIDE DEF l
  <1>6. ASSUME Matched(S, in), Fitting(t, in),
               NEW m \in 1..Len(O.lists), NEW k \in 1..Len(O.lists[m])
        PROVE  Fitting(O.lists[m][k], in)
    <2>1. CASE m # l
      BY <1>5, <1>6, <2>1 DEF Matched
    <2>2. CASE m = l /\ k \in 1..Len(S.lists[l])
      BY <1>4, <1>5, <1>6, <2>2 DEF Matched
    <2>3. CASE m = l /\ k = Len(S.lists[l]) + 1
      BY <1>5, <1>6, <2>3
    <2> QED BY <1>5, <2>1, <2>2, <2>3
  <1>7. Matched(S, in) /\ Fitting(t, in) => Matched(O, in)
    BY <1>6 DEF Matched
  <1>8. O.base < n
    BY <1>1, <1>2
  <1> QED BY <1>3, <1>7, <1>8

LEMMA HeadsFinite ==
  ASSUME NEW S, S.base \in Nat
  PROVE  IsFiniteSet(Heads(S)) /\ Cardinality(Heads(S)) \in Nat
  <1>1. IsFiniteSet(1..S.base)
    BY FS_Interval
  <1>2. Heads(S) \subseteq 1..S.base
    BY DEF Heads
  <1> QED BY <1>1, <1>2, FS_Subset, FS_CardinalityType

LEMMA FlushedKinded ==
  ASSUME NEW S, Sound(S), NEW F, Flushed(S, F), NEW in, Kinded(S, in)
  PROVE  /\ Kinded(F, in)
         /\ Matched(S, in) => Matched(F, in)
         /\ Heads(F) = Heads(S)
         /\ S.base # 0 => Target(F, 1) = Target(S, 1)
         /\ S.base = 0 => Target(F, 1) = Target(S, 1)
  <1>1. CASE Alike(S, F)
    BY <1>1 DEF Alike, Kinded, Matched, Heads, Target
  <1>2. CASE Len(S.token_stack) = S.base + 1 /\ Moved(S, F, Last(S.token_stack))
    <2>1. /\ S.token_stack # <<>> /\ F.token_stack = Front(S.token_stack) /\ F.base = S.base
          /\ \A i \in 1..Len(S.token_stack) : Target(F, i) = Target(S, i)
      BY <1>2 DEF Flushed, Moved
    <2>2. /\ Len(S.token_stack) \in 1..Len(S.token_stack)
          /\ Last(S.token_stack) = S.token_stack[Len(S.token_stack)]
          /\ \A i \in 1..Len(S.token_stack) - 1 : F.token_stack[i] = S.token_stack[i]
          /\ S.base \in Nat
      BY <2>1, Topped, SoundTypes
    <2>3. Fitting(Last(S.token_stack), in)
      BY <2>2 DEF Kinded, Fitting
    <2>4. Heads(F) = Heads(S)
      BY <1>2, <2>1, <2>2 DEF Heads
    <2>5. 1 \in 1..Len(S.token_stack)
      BY <1>2, <2>2
    <2> QED BY <1>2, <2>1, <2>3, <2>4, <2>5, MovedKinded
  <1> QED BY <1>1, <1>2 DEF Flushed

LEMMA PushedKinded ==
  ASSUME NEW S, Sound(S), NEW O, NEW t, Pushed(S, O, t), NEW in, Kinded(S, in),
         \/ t.type = "word" /\ in[t.src] = "word"
         \/ t.type = "op" /\ in[t.src] = "open"
  PROVE  /\ t.type = "word" => Kinded(O, in)
         /\ \A i \in 1..Len(O.token_stack) :
              \/ O.token_stack[i].type = "word" /\ in[O.token_stack[i].src] = "word"
              \/ O.token_stack[i].type = "op" /\ in[O.token_stack[i].src] = "open"
         /\ Matched(S, in) => Matched(O, in)
         /\ Heads(O) = Heads(S)
         /\ Target(O, 1) = Target(S, 1)
         /\ O.token_stack[O.base + 1] = t
  <1>1. /\ t \in Token /\ Len(S.token_stack) = S.base
        /\ O.token_stack = Append(S.token_stack, t)
        /\ O.base = S.base /\ O.list = S.list /\ O.list_stack = S.list_stack
        /\ O.lists = S.lists
    BY DEF Pushed
  <1>2. /\ S.base \in Nat
        /\ Len(O.token_stack) = S.base + 1
        /\ \A i \in 1..S.base : O.token_stack[i] = S.token_stack[i]
        /\ O.token_stack[S.base + 1] = t
    BY <1>1, SoundTypes, Appended
  <1>3. \A i \in 1..S.base + 1 : i \in 1..S.base \/ i = S.base + 1
    BY <1>2
  <1>4. \A i \in 1..Len(O.token_stack) :
          \/ O.token_stack[i].type = "word" /\ in[O.token_stack[i].src] = "word"
          \/ O.token_stack[i].type = "op" /\ in[O.token_stack[i].src] = "open"
    BY <1>1, <1>2, <1>3 DEF Kinded
  <1>5. Heads(O) = Heads(S)
    BY <1>1, <1>2 DEF Heads
  <1>6. Matched(S, in) => Matched(O, in)
    BY <1>1 DEF Matched
  <1> QED BY <1>1, <1>2, <1>4, <1>5, <1>6 DEF Kinded, Target

LEMMA OpenedKinded ==
  ASSUME NEW S, Sound(S), NEW O, Opened(S, O), NEW in,
         \A i \in 1..Len(S.token_stack) :
           \/ S.token_stack[i].type = "word" /\ in[S.token_stack[i].src] = "word"
           \/ S.token_stack[i].type = "op" /\ in[S.token_stack[i].src] = "open"
  PROVE  /\ Kinded(O, in)
         /\ Matched(S, in) => Matched(O, in)
         /\ Heads(O) = IF S.token_stack[S.base + 1].type = "word"
                       THEN Heads(S) \union {S.base + 1} ELSE Heads(S)
         /\ Target(O, 1) = Target(S, 1)
         /\ S.base + 1 \notin Heads(S)
  <1>1. /\ Len(S.token_stack) = S.base + 1
        /\ O.token_stack = S.token_stack /\ O.base = S.base + 1
        /\ O.list_stack = Append(S.list_stack, S.list)
        /\ O.lists = Append(S.lists, <<>>)
    BY DEF Opened
  <1>2. /\ S.base \in Nat /\ Len(S.list_stack) = S.base /\ S.list \in Nat
        /\ S.list_stack \in Seq(Nat)
    BY SoundTypes
  <1>3. /\ \A i \in 1..S.base : O.list_stack[i] = S.list_stack[i]
        /\ O.list_stack[S.base + 1] = S.list
    BY <1>1, <1>2, Appended
  <1>4. /\ Len(S.lists) \in Nat /\ Len(O.lists) = Len(S.lists) + 1
        /\ \A l \in 1..Len(S.lists) : O.lists[l] = S.lists[l]
        /\ O.lists[Len(S.lists) + 1] = <<>>
    BY <1>1, SoundTypes, Appended
  <1>5. \A l \in 1..Len(O.lists) : l \in 1..Len(S.lists) \/ l = Len(S.lists) + 1
    BY <1>4
  <1>6. Kinded(O, in)
    BY <1>1, <1>2 DEF Kinded
  <1>7. ASSUME Matched(S, in), NEW l \in 1..Len(O.lists), NEW k \in 1..Len(O.lists[l])
        PROVE  Fitting(O.lists[l][k], in)
    <2>1. CASE l \in 1..Len(S.lists)
      BY <1>4, <1>7, <2>1 DEF Matched
    <2>2. CASE l = Len(S.lists) + 1
      BY <1>4, <1>7, <2>2
    <2> QED BY <1>5, <2>1, <2>2
  <1>8. \A i \in 1..S.base + 1 : i \in 1..S.base \/ i = S.base + 1
    BY <1>2
  <1>9. \A i \in 1..S.base : i \in 1..S.base + 1
    BY <1>2
  <1>10. Heads(O) = IF S.token_stack[S.base + 1].type = "word"
                    THEN Heads(S) \union {S.base + 1} ELSE Heads(S)
    <2>1. S.base + 1 \in 1..S.base + 1
      BY <1>2
    <2> QED BY <1>1, <1>8, <1>9, <2>1 DEF Heads
  <1>11. Target(O, 1) = Target(S, 1)
    <2>1. CASE S.base = 0
      BY <1>1, <1>2, <1>3, <2>1 DEF Target
    <2>2. CASE S.base # 0
      BY <1>1, <1>2, <1>3, <2>2 DEF Target
    <2> QED BY <2>1, <2>2
  <1>12. S.base + 1 \notin Heads(S)
    BY <1>2 DEF Heads
  <1>13. Matched(S, in) => Matched(O, in)
    BY <1>7 DEF Matched
  <1> QED BY <1>6, <1>10, <1>11, <1>12, <1>13

(* Closing a frame.                                                        *)
LEMMA ClosedHeads ==
  ASSUME NEW S, Sound(S), NEW O, NEW t, Closed(S, O, t)
  PROVE  /\ Heads(O) = Heads(S) \ {S.base}
         /\ S.base \in 1..S.base
         /\ Last(S.token_stack) = S.token_stack[S.base]
         /\ Target(O, 1) = Target(S, 1)
         /\ Last(S.token_stack).type = "word" <=> S.base \in Heads(S)
  <1>1. /\ Len(S.token_stack) = S.base /\ O.base = S.base - 1
        /\ S.token_stack # <<>> /\ O.token_stack = Front(S.token_stack)
        /\ \A i \in 1..Len(S.token_stack) : Target(O, i) = Target(S, i)
    BY DEF Closed, Moved
  <1>2. /\ S.base \in Nat \ {0} /\ S.base \in 1..S.base
        /\ \A i \in 1..S.base - 1 : O.token_stack[i] = S.token_stack[i]
        /\ Last(S.token_stack) = S.token_stack[S.base]
    BY <1>1, Topped
  <1>3. \A i : i \in 1..S.base - 1 <=> i \in 1..S.base /\ i # S.base
    BY <1>2
  <1>4. Heads(O) = Heads(S) \ {S.base}
    BY <1>1, <1>2, <1>3 DEF Heads
  <1>5. 1 \in 1..S.base
    BY <1>2
  <1> QED BY <1>1, <1>2, <1>4, <1>5 DEF Heads

-----------------------------------------------------------------------------
(* What the loops of the parser know.                                      *)

Phases ==
  /\ pc \in {"close", "end", "done"} => arg = 0 /\ Len(P.token_stack) = P.base
  /\ pc = "done" => ~is_dedent(P, 0)
  /\ pc \in {"close", "indent"} => input # <<>> /\ Last(input) = pc

LEMMA NextPhases == IInv /\ Phases /\ [Next]_vars => Phases'
  <1> SUFFICES ASSUME IInv, Phases, [Next]_vars PROVE Phases'
    OBVIOUS
  <1>1. TypeOK /\ P \in ParseState /\ input \in Seq(AllKinds) /\ arg \in Nat
    BY DEF IInv, TypeOK
  <1>2. pc # "undefined" => ListsOK(P) /\ Aligned(P)
    BY DEF IInv
  <1>3. ASSUME pc' \in {"read", "undefined"} PROVE Phases'
    BY <1>3 DEF Phases
  <1>4. ASSUME NEW kind \in AllKinds, Take(kind)
        PROVE  input' # <<>> /\ Last(input') = kind /\ pc = "read"
    <2>1. input' = Append(input, kind) /\ pc = "read"
      BY <1>4 DEF Take
    <2>2. /\ input' # <<>> /\ Len(input') = Len(input) + 1
          /\ input'[Len(input) + 1] = kind
      BY <1>1, <2>1, Appended
    <2> QED BY <2>1, <2>2 DEF Last
  <1>5. ASSUME NEW indent \in Indents, TakeIndent(indent) PROVE Phases'
    BY <1>4, <1>5 DEF TakeIndent, Phases, AllKinds
  <1>6. CASE TakeWord \/ TakeLiteral \/ TakeError \/ TakeOpen \/ TakeDef
    BY <1>3, <1>6 DEF TakeWord, TakeLiteral, TakeError, TakeOpen, TakeDef, Take
  <1>7. CASE TakeClose
    <2>1. Len(P'.token_stack) = P'.base
      BY <1>1, <1>2, <1>7, FlushTokenStack DEF TakeClose, Take
    <2> QED BY <1>4, <1>7, <2>1 DEF TakeClose, Phases, AllKinds
  <1>8. CASE TakeEnd
    BY <1>3, <1>8 DEF TakeEnd, Take, CloseFrame
  <1>9. CASE TakeNothing
    <2>1. Len(P'.token_stack) = P'.base
      BY <1>1, <1>2, <1>9, FlushTokenStack DEF TakeNothing
    <2> QED BY <1>9, <2>1 DEF TakeNothing, Phases
  <1>10. CASE Dedent
    <2>1. /\ is_dedent(P, arg) /\ pc \in {"indent", "close", "end"}
          /\ CloseFrame(flush_token_stack(P), handle_dedent(P), pc)
          /\ input' = input /\ arg' = arg
      BY <1>10 DEF Dedent
    <2>2. CASE Underflows(flush_token_stack(P))
      BY <1>3, <2>1, <2>2 DEF CloseFrame
    <2>3. CASE ~Underflows(flush_token_stack(P))
      <3>1. P.base # 0 /\ P.indent_stack # <<>>
        BY <1>1, <1>2, <2>1, <2>3, DedentSafe DEF is_dedent
      <3>2. Len(P'.token_stack) = P'.base /\ pc' = pc
        BY <1>1, <1>2, <2>1, <2>3, <3>1, HandleDedent DEF CloseFrame
      <3> QED BY <2>1, <3>2 DEF Phases
    <2> QED BY <2>2, <2>3
  <1>11. CASE IndentDone \/ CloseDone
    BY <1>3, <1>11 DEF IndentDone, CloseDone, CloseFrame
  <1>12. CASE EndDone
    BY <1>12 DEF EndDone, Phases
  <1>13. CASE Stopped \/ UNCHANGED vars
    BY <1>13 DEF Stopped, vars, Phases
  <1> QED BY <1>5, <1>6, <1>7, <1>8, <1>9, <1>10, <1>11, <1>12, <1>13 DEF Next

(* The kinds and the number of the tokens, together.                       *)
KInv ==
  /\ Kinded(P, input)
  /\ OneLine(input) => Matched(P, input)
  /\ Counted(P, input)
  /\ Target(P, 1) = 1
  /\ Len(input) <= 1 => P.indent_stack = <<>>

LEMMA InitKInv == Init => Phases /\ KInv
  <1> SUFFICES ASSUME Init PROVE Phases /\ KInv
    OBVIOUS
  <1>1. /\ P.token_stack = <<>> /\ P.base = 0 /\ P.lists = << <<>> >>
        /\ P.indent_stack = <<>> /\ P.list = 1 /\ pc = "read"
    BY DEF Init, parse_init
  <1>2. Heads(P) = {}
    BY <1>1 DEF Heads
  <1>3. Cardinality(Heads(P)) = 0
    BY <1>2, FS_EmptySet
  <1> QED BY <1>1, <1>3 DEF Phases, KInv, Kinded, Matched, Counted, Target

LEMMA NextKInv ==
  ASSUME IInv, Holds(P, Len(input)), Phases, KInv, [Next]_vars
  PROVE  KInv'
  <1> DEFINE n == Len(input)
             c == Cardinality(Heads(P))
             d == Len(P.indent_stack)
  <1>1. /\ input \in Seq(AllKinds) /\ n \in Nat /\ arg \in Nat
        /\ \A kind \in AllKinds : Len(Append(input, kind)) = n + 1
                                  /\ Append(input, kind)[n + 1] = kind
    BY Appended DEF IInv, TypeOK
  <1>2. /\ Kinded(P, input) /\ Counted(P, input) /\ Target(P, 1) = 1
        /\ OneLine(input) => Matched(P, input)
        /\ n <= 1 => P.indent_stack = <<>>
    BY DEF KInv
  (* What has been read is still as it was. *)
  <1>3. ASSUME NEW kind \in AllKinds, Sound(P), input' = Append(input, kind)
        PROVE  /\ Kinded(P, input') /\ Counted(P, input')
               /\ OneLine(input') => Matched(P, input')
               /\ OneLine(input') => OneLine(input) /\ (kind = "end" => input = <<>>)
               /\ Len(input') = n + 1
               /\ Len(input') <= 1 => P.indent_stack = <<>>
    BY <1>1, <1>2, <1>3, ReadKinded DEF Counted
  <1>4. ASSUME Sound(P)
        PROVE  /\ c \in Nat /\ IsFiniteSet(Heads(P)) /\ d \in Nat
               /\ P.indent_stack \in Seq(Nat) /\ P.base \in Nat
    BY <1>4, SoundTypes, HeadsFinite
  <1>5. CASE StaysStep
    <2>1. /\ P'.token_stack = P.token_stack /\ P'.lists = P.lists /\ P'.base = P.base
          /\ P'.indent_stack = P.indent_stack
          /\ Target(P', 1) = Target(P, 1) /\ Heads(P') = Heads(P)
      BY <1>5 DEF StaysStep, Alike, Target, Heads
    <2>2. /\ Kinded(P, input') /\ Counted(P, input')
          /\ OneLine(input') => Matched(P, input')
          /\ Len(input') <= 1 => P.indent_stack = <<>>
      <3>1. CASE input' = input
        BY <1>2, <3>1
      <3>2. CASE Sound(P) /\ (Reads({"indent", "error", "end"}) \/ Reads({"def"}))
        BY <1>3, <3>2 DEF Reads, AllKinds
      <3> QED BY <1>5, <3>1, <3>2 DEF StaysStep
    <2> QED BY <1>2, <2>1, <2>2 DEF KInv, Kinded, Counted, Matched
  <1>6. ASSUME Sound(P), NEW F, Flushed(P, F), Kinded(P, input'), Counted(P, input'),
               OneLine(input') => Matched(P, input')
        PROVE  /\ Kinded(F, input') /\ Counted(F, input')
               /\ OneLine(input') => Matched(F, input')
               /\ Target(F, 1) = 1 /\ Heads(F) = Heads(P)
    <2>1. F.indent_stack = P.indent_stack
      BY <1>6 DEF Flushed
    <2> QED BY <1>2, <1>6, <2>1, FlushedKinded DEF Counted
  <1>7. CASE Sound(P) /\ Sound(P') /\ FlushStep
    <2>1. /\ Kinded(P, input') /\ Counted(P, input')
          /\ OneLine(input') => Matched(P, input')
          /\ Len(input') <= 1 => P.indent_stack = <<>>
      BY <1>2, <1>3, <1>7 DEF FlushStep, Reads, AllKinds
    <2> QED BY <1>6, <1>7, <2>1 DEF FlushStep, KInv, Flushed
  <1>8. /\ here_token("word").src = n + 1 /\ here_token("op").src = n + 1
        /\ here_token("word").type = "word" /\ here_token("op").type = "op"
        /\ here_token("lit").type = "lit"
    BY DEF here_token, here, tag_token
  <1>9. CASE Sound(P) /\ Sound(P') /\ WordStep
    <2>1. PICK F \in ParseState :
            Sound(F) /\ Flushed(P, F) /\ Pushed(F, P', here_token("word"))
      BY <1>9 DEF WordStep
    <2>2. /\ Kinded(P, input') /\ Counted(P, input')
          /\ OneLine(input') => Matched(P, input')
          /\ Len(input') <= 1 => P.indent_stack = <<>>
          /\ input'[n + 1] = "word"
      BY <1>1, <1>3, <1>9 DEF WordStep, Reads, AllKinds
    <2>3. /\ Kinded(F, input') /\ Counted(F, input')
          /\ OneLine(input') => Matched(F, input')
          /\ Target(F, 1) = 1
      BY <1>6, <1>9, <2>1, <2>2
    <2>4. P'.indent_stack = F.indent_stack /\ F.indent_stack = P.indent_stack
      BY <2>1 DEF Pushed, Flushed
    <2>5. /\ Kinded(P', input') /\ Heads(P') = Heads(F) /\ Target(P', 1) = Target(F, 1)
          /\ Matched(F, input') => Matched(P', input')
      BY <1>8, <2>1, <2>2, <2>3, PushedKinded
    <2> QED BY <2>2, <2>3, <2>4, <2>5 DEF KInv, Counted
  <1>10. CASE Sound(P) /\ Sound(P') /\ LiteralStep
    <2>1. /\ Kinded(P, input') /\ Counted(P, input')
          /\ OneLine(input') => Matched(P, input')
          /\ Len(input') <= 1 => P.indent_stack = <<>>
      BY <1>3, <1>10 DEF LiteralStep, Reads, AllKinds
    <2> DEFINE t == here_token("lit")
               l == P.list
    <2>2. /\ t \in Token /\ P'.token_stack = P.token_stack /\ P'.base = P.base
          /\ P'.list = P.list /\ P'.list_stack = P.list_stack
          /\ P'.indent_stack = P.indent_stack
          /\ P'.lists = [P.lists EXCEPT ![l] = Append(@, t)]
      BY <1>10 DEF LiteralStep, Written
    <2>3. l \in 1..Len(P.lists)
      BY <1>10, SoundTypes
    <2>4. /\ Len(P'.lists) = Len(P.lists)
          /\ \A m \in 1..Len(P.lists) : m # l => P'.lists[m] = P.lists[m]
          /\ \A k \in 1..Len(P.lists[l]) : P'.lists[l][k] = P.lists[l][k]
          /\ P'.lists[l][Len(P.lists[l]) + 1] = t
          /\ \A k \in 1..Len(P'.lists[l]) : k \in 1..Len(P.lists[l]) \/ k = Len(P.lists[l]) + 1
      BY <1>10, <2>2, <2>3, Extended
    <2>5. Fitting(t, input')
      BY <1>8 DEF Fitting
    <2> HIDE DEF l, t
    <2>6. ASSUME Matched(P, input'), NEW m \in 1..Len(P'.lists), NEW k \in 1..Len(P'.lists[m])
          PROVE  Fitting(P'.lists[m][k], input')
      <3>1. CASE m # l
        BY <2>4, <2>6, <3>1 DEF Matched
      <3>2. CASE m = l /\ k \in 1..Len(P.lists[l])
        BY <2>3, <2>4, <2>6, <3>2 DEF Matched
      <3>3. CASE m = l /\ k = Len(P.lists[l]) + 1
        BY <2>4, <2>5, <3>3
      <3> QED BY <2>4, <3>1, <3>2, <3>3
    <2>7. Matched(P, input') => Matched(P', input')
      BY <2>6 DEF Matched
    <2>8. Heads(P') = Heads(P) /\ Target(P', 1) = Target(P, 1)
      BY <2>2 DEF Heads, Target
    <2> QED BY <1>2, <2>1, <2>2, <2>7, <2>8 DEF KInv, Counted, Kinded
  <1>11. CASE Sound(P) /\ Sound(P') /\ OpenStep
    <2>1. PICK F \in ParseState, G \in ParseState :
            /\ Sound(F) /\ Flushed(P, F)
            /\ Sound(G) /\ Pushed(F, G, here_token("op"))
            /\ Opened(G, P') /\ P'.indent_stack = G.indent_stack
      BY <1>11 DEF OpenStep
    <2>2. /\ Kinded(P, input') /\ Counted(P, input')
          /\ OneLine(input') => Matched(P, input')
          /\ Len(input') <= 1 => P.indent_stack = <<>>
          /\ input'[n + 1] = "open"
      BY <1>1, <1>3, <1>11 DEF OpenStep, Reads, AllKinds
    <2>3. /\ Kinded(F, input') /\ Counted(F, input')
          /\ OneLine(input') => Matched(F, input')
          /\ Target(F, 1) = 1
      BY <1>6, <1>11, <2>1, <2>2
    <2>4. P'.indent_stack = F.indent_stack /\ F.indent_stack = P.indent_stack
      BY <2>1 DEF Pushed, Flushed
    <2>5. /\ \A i \in 1..Len(G.token_stack) :
               \/ G.token_stack[i].type = "word" /\ input'[G.token_stack[i].src] = "word"
               \/ G.token_stack[i].type = "op" /\ input'[G.token_stack[i].src] = "open"
          /\ Heads(G) = Heads(F) /\ Target(G, 1) = Target(F, 1)
          /\ Matched(F, input') => Matched(G, input')
          /\ G.token_stack[G.base + 1].type = "op"
      BY <1>8, <2>1, <2>2, <2>3, PushedKinded
    <2>6. /\ Kinded(P', input') /\ Heads(P') = Heads(G) /\ Target(P', 1) = Target(G, 1)
          /\ Matched(G, input') => Matched(P', input')
      BY <2>1, <2>5, OpenedKinded
    <2> QED BY <2>2, <2>3, <2>4, <2>5, <2>6 DEF KInv, Counted
  <1>12. CASE Sound(P) /\ Sound(P') /\ DefStep
    <2>1. /\ Kinded(P, input') /\ Counted(P, input')
          /\ OneLine(input') => Matched(P, input')
          /\ Len(input') = n + 1 /\ input # <<>>
          /\ Opened(P, P') /\ P'.indent_stack = Append(P.indent_stack, P.indent)
      BY <1>3, <1>12 DEF DefStep, Reads, AllKinds
    <2>2. /\ Len(P.token_stack) = P.base + 1 /\ P.base \in Nat /\ P.indent \in Nat
          /\ Len(P'.indent_stack) = d + 1
      BY <1>4, <1>12, <2>1, SoundTypes, Appended DEF Opened
    <2>3. P.token_stack[P.base + 1].type = "word"
      BY <2>1, <2>2 DEF Kinded
    <2>4. /\ Kinded(P', input')
          /\ Heads(P') = Heads(P) \union {P.base + 1} /\ Target(P', 1) = Target(P, 1)
          /\ P.base + 1 \notin Heads(P)
          /\ Matched(P, input') => Matched(P', input')
      <3>1. \A i \in 1..Len(P.token_stack) :
              \/ P.token_stack[i].type = "word" /\ input'[P.token_stack[i].src] = "word"
              \/ P.token_stack[i].type = "op" /\ input'[P.token_stack[i].src] = "open"
        BY <2>1 DEF Kinded
      <3> QED BY <1>12, <2>1, <2>3, <3>1, OpenedKinded, ZenonT(30)
    <2>5. Cardinality(Heads(P')) = c + 1
      BY <1>4, <1>12, <2>4, FS_AddElement
    <2>6. n # 0
      BY <1>1, <2>1, EmptySeq
    <2>7. c >= d /\ (OneLine(input') => c = d)
      BY <2>1 DEF Counted
    <2>8. Cardinality(Heads(P')) >= d + 1 /\ (OneLine(input') => Cardinality(Heads(P')) = d + 1)
      <3> HIDE DEF c, d
      <3> QED BY <1>4, <1>12, <2>5, <2>7
    <2>9. ~(Len(input') <= 1)
      BY <1>1, <2>1, <2>6
    <2> QED BY <1>2, <2>1, <2>2, <2>4, <2>8, <2>9 DEF KInv, Counted
  <1>13. CASE Sound(P) /\ Sound(P') /\ DedentStep
    <2>1. PICK F \in ParseState, t \in Token :
            Sound(F) /\ Flushed(P, F) /\ Closed(F, P', t) /\ t.type = "block"
      BY <1>13 DEF DedentStep
    <2>2. /\ P.indent_stack # <<>> /\ Last(P.token_stack).type # "op"
          /\ P'.indent_stack = Front(P.indent_stack)
          /\ (input' = input /\ pc \in {"indent", "close", "end"}) \/ Reads({"end"})
      BY <1>13 DEF DedentStep
    <2>3. /\ Kinded(P, input') /\ Counted(P, input')
          /\ OneLine(input') => Matched(P, input')
          /\ Len(input') <= 1 => P.indent_stack = <<>>
      BY <1>2, <1>3, <2>2, <1>13 DEF Reads, AllKinds
    <2>4. /\ Kinded(F, input') /\ Counted(F, input')
          /\ OneLine(input') => Matched(F, input')
          /\ Target(F, 1) = 1 /\ Heads(F) = Heads(P)
      BY <1>6, <1>13, <2>1, <2>3
    <2>5. /\ Heads(P') = Heads(F) \ {F.base}
          /\ Last(F.token_stack) = F.token_stack[F.base]
          /\ Target(P', 1) = Target(F, 1)
          /\ Last(F.token_stack).type = "word" <=> F.base \in Heads(F)
          /\ F.base \in 1..F.base
      BY <2>1, ClosedHeads
    <2>6. Len(P'.indent_stack) = d - 1 /\ d \in Nat \ {0}
      BY <1>4, <1>13, <2>2, FrontLast
    <2>7. Moved(F, P', t) /\ t.src = Last(F.token_stack).src /\ Len(F.token_stack) = F.base
      BY <2>1 DEF Closed, Moved
    (* In a text of one line the head is an identifier. *)
    <2>8. ASSUME OneLine(input') PROVE Last(F.token_stack).type = "word"
      <3>1. ~(n <= 1)
        BY <1>2, <2>2
      <3>2. ~Reads({"end"})
        <4>1. ASSUME input' = Append(input, "end") PROVE FALSE
          <5>1. input = <<>>
            BY <1>3, <1>13, <2>8, <4>1 DEF AllKinds
          <5> QED BY <3>1, <5>1
        <4> QED BY <4>1 DEF Reads
      <3>3. pc # "indent"
        <4>1. ASSUME pc = "indent" PROVE FALSE
          <5>1. Last(input) = "indent"
            BY <4>1 DEF Phases
          <5>2. input[n] = "indent" /\ n \in DOMAIN input /\ n > 1
            BY <1>1, <3>1, <5>1, LenProperties DEF Last
          <5> QED BY <2>2, <2>8, <3>2, <5>2 DEF OneLine
        <4> QED BY <4>1
      <3>4. Len(P.token_stack) = P.base
        BY <2>2, <3>2, <3>3 DEF Phases
      <3>5. F.token_stack = P.token_stack
        <4>1. Alike(P, F) \/ Len(P.token_stack) = P.base + 1
          BY <2>1 DEF Flushed
        <4> QED BY <1>4, <1>13, <3>4, <4>1 DEF Alike
      <3> QED BY <2>2, <2>4, <2>5, <2>7, <3>5 DEF Kinded
    <2>9. OneLine(input') => Fitting(t, input')
      BY <2>1, <2>4, <2>5, <2>7, <2>8 DEF Fitting, Kinded
    <2>10. /\ Kinded(P', input')
           /\ OneLine(input') => Matched(P', input')
      BY <2>1, <2>4, <2>7, <2>9, MovedKinded
    <2>11. Cardinality(Heads(P')) = IF F.base \in Heads(P) THEN c - 1 ELSE c
      <3>1. Heads(P') = Heads(P) \ {F.base}
        BY <2>4, <2>5
      <3>2. IsFiniteSet(Heads(P))
        BY <1>4, <1>13
      <3> QED BY <3>1, <3>2, FS_RemoveElement
    <2>12. c >= d /\ (OneLine(input') => c = d)
      BY <2>3 DEF Counted
    <2>13. Cardinality(Heads(P')) >= d - 1 /\ (OneLine(input') => Cardinality(Heads(P')) = d - 1)
      <3>1. OneLine(input') => F.base \in Heads(P)
        BY <2>4, <2>5, <2>8
      <3> HIDE DEF c, d
      <3> QED BY <1>4, <1>13, <2>6, <2>11, <2>12, <3>1
    <2> QED BY <2>2, <2>3, <2>4, <2>5, <2>6, <2>10, <2>13 DEF KInv, Counted
  <1>14. CASE Sound(P) /\ Sound(P') /\ ListStep
    <2>1. PICK t \in Token : Closed(P, P', t) /\ t.type = "list"
      BY <1>14 DEF ListStep
    <2>2. /\ input' = input /\ pc = "close" /\ ~is_dedent(P, arg) /\ arg = 0
          /\ P'.indent_stack = P.indent_stack
      BY <1>14 DEF ListStep, Phases
    <2>3. /\ Heads(P') = Heads(P) \ {P.base}
          /\ Last(P.token_stack) = P.token_stack[P.base]
          /\ Target(P', 1) = Target(P, 1)
          /\ Last(P.token_stack).type = "word" <=> P.base \in Heads(P)
          /\ P.base \in 1..P.base
      BY <1>14, <2>1, ClosedHeads
    <2>4. /\ Moved(P, P', t) /\ t.src = Last(P.token_stack).src
          /\ Len(P.token_stack) = P.base /\ P.token_stack # <<>>
      BY <2>1 DEF Closed, Moved
    (* With an identifier at the head, no definition is open. *)
    <2>5. Last(P.token_stack).type # "op" => d = 0
      <3>1. ASSUME Last(P.token_stack).type # "op", P.indent_stack # <<>> PROVE FALSE
        <4>1. Last(P.indent_stack) \in Nat
          BY <1>4, <1>14, <3>1, FrontLast
        <4>2. 0 <= Last(P.indent_stack)
          BY <4>1
        <4> QED BY <2>2, <2>4, <3>1, <4>2 DEF is_dedent
      <3> QED BY <3>1
    <2>6. Cardinality(Heads(P')) = IF P.base \in Heads(P) THEN c - 1 ELSE c
      BY <1>4, <1>14, <2>3, FS_RemoveElement, ZenonT(30)
    <2>7. c >= d /\ (OneLine(input') => c = d)
      BY <1>2, <2>2 DEF Counted
    <2>8. P.base \in Heads(P) => d = 0 /\ c # 0
      <3>1. P.base \in Heads(P) => Last(P.token_stack).type # "op"
        BY <2>3
      <3>2. P.base \in Heads(P) => c # 0
        BY <1>4, <1>14, FS_EmptySet
      <3> QED BY <2>5, <3>1, <3>2
    <2>9. OneLine(input') => P.base \notin Heads(P)
      BY <2>7, <2>8
    <2>10. Cardinality(Heads(P')) >= d /\ (OneLine(input') => Cardinality(Heads(P')) = d)
      <3> HIDE DEF c, d
      <3> QED BY <1>4, <1>14, <2>6, <2>7, <2>8, <2>9
    <2>11. OneLine(input') => Fitting(t, input')
      BY <1>2, <2>1, <2>2, <2>3, <2>4, <2>9 DEF Fitting, Kinded
    <2>12. /\ Kinded(P', input')
           /\ OneLine(input') => Matched(P', input')
      BY <1>2, <1>14, <2>2, <2>4, <2>11, MovedKinded
    <2> QED BY <1>2, <2>2, <2>3, <2>10, <2>12 DEF KInv, Counted
  <1> QED BY <1>5, <1>7, <1>9, <1>10, <1>11, <1>12, <1>13, <1>14, NextMoves

-----------------------------------------------------------------------------

LEMMA KindsKept ==
  /\ Init => IInv /\ Holds(P, Len(input)) /\ Phases /\ KInv
  /\ IInv /\ Holds(P, Len(input)) /\ Phases /\ KInv /\ [Next]_vars =>
       IInv' /\ Holds(P, Len(input))' /\ Phases' /\ KInv'
  BY InitIInv, InitHolds, InitKInv, NextIInv, NextHolds, NextPhases, NextKInv

(* In a text of one line, of any length: a definition is headed by an      *)
(* identifier and a list literal by a "[".  Every "]" closes the           *)
(* definitions inside its brackets first, and no more of them, because     *)
(* there are as many indentations on the stack as identifiers that head a  *)
(* frame.                                                                  *)
THEOREM HeadsFit == Spec => []HeadsMatch
  <1>1. IInv /\ KInv => HeadsMatch
    BY DEF KInv, HeadsMatch, Matched, Fitting, OneLine
  <1> QED BY <1>1, KindsKept, PTL DEF Spec

(* parse() returns the whole program exactly when the brackets match, with *)
(* every stack empty: once the loop at the end of the text has stopped,    *)
(* a frame that is left is headed by a "[" that nothing closed.            *)
THEOREM WholeReturned == Spec => []WholeProgramReturned
  <1>1. IInv /\ Phases /\ KInv => WholeProgramReturned
    <2> SUFFICES ASSUME IInv, Phases, KInv, pc = "done"
                 PROVE  /\ unclosed >= 0
                        /\ (P.list = 1) <=> (unclosed = 0)
                        /\ unclosed = 0 => /\ P.indent_stack = <<>>
                                           /\ P.token_stack = <<>>
                                           /\ P.base_stack = <<>>
      BY DEF WholeProgramReturned
    <2> DEFINE d == Len(P.indent_stack)
               c == Cardinality(Heads(P))
    <2>1. /\ Sound(P) /\ unclosed \in Int
          /\ Len(P.base_stack) = d + unclosed /\ P.base = Len(P.base_stack)
          /\ Len(P.token_stack) = P.base /\ ~is_dedent(P, 0)
          /\ c >= d /\ Target(P, 1) = 1
      BY DEF IInv, TypeOK, FramesCounted, Sound, Aligned, Phases, KInv, Counted
    <2>2. /\ d \in Nat /\ P.base \in Nat /\ c \in Nat /\ IsFiniteSet(Heads(P))
          /\ P.indent_stack \in Seq(Nat) /\ P.token_stack \in Seq(Token)
          /\ P.base_stack \in Seq(Nat) /\ P.list \in Nat
      BY <2>1, SoundTypes, HeadsFinite DEF Sound, ParseState
    (* The frame that is left, if any. *)
    <2>3. P.base # 0 => unclosed > 0
      <3> SUFFICES ASSUME P.base # 0 PROVE unclosed > 0
        OBVIOUS
      <3>1. P.token_stack # <<>>
        BY <2>1
      <3>2. CASE P.indent_stack = <<>>
        BY <2>1, <2>2, <3>2
      <3>3. CASE P.indent_stack # <<>>
        <4>1. Last(P.indent_stack) \in Nat
          BY <2>2, <3>3, FrontLast
        <4>2. 0 <= Last(P.indent_stack)
          BY <4>1
        <4>3. Last(P.token_stack).type = "op"
          BY <2>1, <3>1, <3>3, <4>2 DEF is_dedent
        <4>4. P.token_stack[P.base].type = "op"
          BY <2>1, <3>1, <4>3, Topped
        <4>5. Heads(P) \subseteq 1..P.base - 1
          BY <2>2, <4>4 DEF Heads
        <4>6. IsFiniteSet(1..P.base - 1) /\ Cardinality(1..P.base - 1) = P.base - 1
          <5>1. P.base - 1 \in Nat
            BY <2>2
          <5>2. ASSUME NEW b \in Nat
                PROVE  IsFiniteSet(1..b) /\ Cardinality(1..b) = b
            <6>1. /\ IsFiniteSet(1..b)
                  /\ Cardinality(1..b) = IF 1 > b THEN 0 ELSE b - 1 + 1
              BY FS_Interval
            <6> QED BY <6>1
          <5> QED BY <5>1, <5>2
        <4>7. c <= P.base - 1
          BY <4>5, <4>6, FS_Subset, ZenonT(30)
        <4> HIDE DEF c, d
        <4> QED BY <2>1, <2>2, <4>7
      <3> QED BY <3>2, <3>3
    <2>4. P.base = 0 => d = 0 /\ unclosed = 0
      <3>1. P.base = 0 => Heads(P) = {}
        BY DEF Heads
      <3>2. P.base = 0 => c = 0
        BY <3>1, FS_EmptySet
      <3> HIDE DEF c, d
      <3> QED BY <2>1, <2>2, <3>2
    <2>5. P.base = 0 <=> P.list = 1
      <3>1. P.base = 0 => P.list = 1
        BY <2>1 DEF Target
      <3>2. P.base # 0 => P.list_stack[1] \in 1..P.list - 1
        BY <2>1, <2>2 DEF Sound, ListsOK, Aligned
      <3> QED BY <2>2, <3>1, <3>2
    <2>6. P.base = 0 => /\ P.indent_stack = <<>>
                        /\ P.token_stack = <<>>
                        /\ P.base_stack = <<>>
      BY <2>1, <2>2, <2>4, EmptySeq
    <2> QED BY <2>1, <2>2, <2>3, <2>4, <2>5, <2>6
  <1> QED BY <1>1, KindsKept, PTL DEF Spec

-----------------------------------------------------------------------------
(* The off-side rule.                                                      *)

Nested(S) ==
  /\ \A j \in 1..Len(S.indent_stack) : \A i \in 1..j : S.indent_stack[i] <= S.indent_stack[j]
  /\ \A j \in 1..Len(S.indent_stack) : S.indent_stack[j] <= S.indent

(* Without brackets, the loop of handle_indent stops only at a smaller     *)
(* indentation or with nothing on the stack.                               *)
LEMMA StoppedAt ==
  ASSUME NEW S, Sound(S), NEW in, Kinded(S, in), Holds(S, Len(in)),
         in \in Seq(AllKinds), NoBrackets(in), Counted(S, in), Nested(S),
         NEW indent \in Nat, ~is_dedent(S, indent)
  PROVE  \A i \in 1..Len(S.indent_stack) : S.indent_stack[i] < indent
  <1>1. /\ S.indent_stack \in Seq(Nat) /\ Len(S.indent_stack) \in Nat /\ S.base \in Nat
        /\ S.token_stack \in Seq(Token) /\ Len(S.token_stack) \in {S.base, S.base + 1}
    BY SoundTypes
  <1> SUFFICES ASSUME S.indent_stack # <<>>
               PROVE  \A i \in 1..Len(S.indent_stack) : S.indent_stack[i] < indent
    OBVIOUS
  <1>2. /\ Len(S.indent_stack) \in Nat \ {0}
        /\ Last(S.indent_stack) = S.indent_stack[Len(S.indent_stack)]
        /\ Last(S.indent_stack) \in Nat
    BY <1>1, FrontLast
  <1>3. S.token_stack # <<>>
    <2>1. ASSUME S.token_stack = <<>> PROVE FALSE
      <3>1. S.base = 0
        BY <1>1, <2>1
      <3>2. Heads(S) = {}
        BY <3>1 DEF Heads
      <3>3. Cardinality(Heads(S)) = 0
        BY <3>2, FS_EmptySet
      <3> QED BY <1>2, <3>3 DEF Counted
    <2> QED BY <2>1
  <1>4. Last(S.token_stack).type # "op"
    <2>1. /\ Last(S.token_stack) = S.token_stack[Len(S.token_stack)]
          /\ Len(S.token_stack) \in 1..Len(S.token_stack)
      BY <1>3, Topped
    <2>2. Last(S.token_stack).src \in 1..Len(in)
      BY <2>1 DEF Holds, Fits
    <2>3. in[Last(S.token_stack).src] # "open"
      BY <2>2, LenProperties DEF NoBrackets
    <2> QED BY <2>1, <2>3 DEF Kinded
  <1>5. indent > Last(S.indent_stack)
    BY <1>2, <1>3, <1>4 DEF is_dedent
  <1> SUFFICES ASSUME NEW i \in 1..Len(S.indent_stack)
               PROVE  S.indent_stack[i] < indent
    OBVIOUS
  <1>6. S.indent_stack[i] <= Last(S.indent_stack) /\ S.indent_stack[i] \in Nat
    <2>1. Len(S.indent_stack) \in 1..Len(S.indent_stack)
      BY <1>2
    <2>2. S.indent_stack[i] \in Nat
      BY <1>1, ElementOfSeq
    <2> QED BY <1>2, <2>1, <2>2 DEF Nested
  <1> QED BY <1>2, <1>5, <1>6

LEMMA NextNested ==
  ASSUME IInv, Holds(P, Len(input)), KInv, NoBrackets(input) => Nested(P), [Next]_vars
  PROVE  NoBrackets(input') => Nested(P')
  <1> SUFFICES ASSUME NoBrackets(input') PROVE Nested(P')
    OBVIOUS
  <1>1. input \in Seq(AllKinds) /\ arg \in Nat /\ (pc # "undefined" => Sound(P))
    BY DEF IInv, TypeOK, Sound
  <1>2. ASSUME Sound(P), NEW kind \in AllKinds, input' = Append(input, kind)
        PROVE  NoBrackets(input)
    BY <1>1, <1>2, ReadKinded
  <1>3. ASSUME NoBrackets(input), P'.indent_stack = P.indent_stack, P'.indent = P.indent
        PROVE  Nested(P')
    BY <1>3 DEF Nested
  <1>4. CASE StaysStep
    <2>1. NoBrackets(input)
      BY <1>2, <1>4 DEF StaysStep, Reads, AllKinds
    <2>2. CASE P'.indent = P.indent
      BY <1>3, <1>4, <2>1, <2>2 DEF StaysStep, Alike
    <2>3. CASE P'.indent = arg /\ pc = "indent" /\ ~is_dedent(P, arg)
      <3>1. \A i \in 1..Len(P.indent_stack) : P.indent_stack[i] < arg
        BY <1>1, <2>1, <2>3, StoppedAt DEF KInv
      <3>2. P.indent_stack \in Seq(Nat)
        BY <1>1, <2>3, SoundTypes
      <3>3. P'.indent_stack = P.indent_stack
        BY <1>4 DEF StaysStep, Alike
      <3> QED BY <1>1, <2>1, <2>3, <3>1, <3>2, <3>3 DEF Nested
    <2> QED BY <1>4, <2>2, <2>3 DEF StaysStep
  <1>5. CASE Sound(P) /\ Sound(P') /\ FlushStep
    BY <1>2, <1>3, <1>5 DEF FlushStep, Flushed, Reads, AllKinds
  <1>6. CASE Sound(P) /\ Sound(P') /\ WordStep
    BY <1>2, <1>3, <1>6 DEF WordStep, Flushed, Pushed, Reads, AllKinds
  <1>7. CASE Sound(P) /\ Sound(P') /\ LiteralStep
    BY <1>2, <1>3, <1>7 DEF LiteralStep, Written, Reads, AllKinds
  <1>8. CASE Sound(P) /\ Sound(P') /\ OpenStep
    BY <1>2, <1>3, <1>8 DEF OpenStep, Flushed, Pushed, Opened, Reads, AllKinds
  <1>9. CASE Sound(P) /\ Sound(P') /\ DefStep
    <2>1. /\ NoBrackets(input) /\ P'.indent = P.indent
          /\ P'.indent_stack = Append(P.indent_stack, P.indent)
      BY <1>2, <1>9 DEF DefStep, Opened, Reads, AllKinds
    <2> DEFINE d == Len(P.indent_stack)
    <2>2. /\ d \in Nat /\ Len(P'.indent_stack) = d + 1
          /\ \A i \in 1..d : P'.indent_stack[i] = P.indent_stack[i]
          /\ P'.indent_stack[d + 1] = P.indent
          /\ P.indent \in Nat
      BY <1>9, <2>1, SoundTypes, Appended
    <2> HIDE DEF d
    <2>3. ASSUME NEW j \in 1..d + 1
          PROVE  /\ \A i \in 1..j : P'.indent_stack[i] <= P'.indent_stack[j]
                 /\ P'.indent_stack[j] <= P.indent
      <3>1. Nested(P) /\ (j \in 1..d \/ j = d + 1) /\ \A i \in 1..j : i \in 1..d \/ i = d + 1
        BY <2>1, <2>2
      <3>2. CASE j \in 1..d
        BY <2>2, <3>1, <3>2, SMTT(30) DEF Nested, d
      <3>3. CASE j = d + 1
        BY <2>2, <3>1, <3>3 DEF Nested, d
      <3> QED BY <3>1, <3>2, <3>3
    <2> QED BY <2>1, <2>2, <2>3 DEF Nested
  <1>10. CASE Sound(P) /\ Sound(P') /\ DedentStep
    <2>1. /\ P'.indent_stack = Front(P.indent_stack) /\ P.indent_stack # <<>>
          /\ P'.indent = P.indent /\ NoBrackets(input)
      BY <1>2, <1>10 DEF DedentStep, Flushed, Closed, Moved, Reads, AllKinds
    <2> DEFINE d == Len(P.indent_stack)
    <2>2. /\ d \in Nat \ {0} /\ Len(P'.indent_stack) = d - 1
          /\ \A i \in 1..d - 1 : P'.indent_stack[i] = P.indent_stack[i]
      <3>1. P.indent_stack \in Seq(Nat)
        BY <1>10, SoundTypes
      <3> QED BY <2>1, <3>1, FrontLast, SMTT(30)
    <2> HIDE DEF d
    <2>3. \A j \in 1..d - 1 : j \in 1..d /\ \A i \in 1..j : i \in 1..d - 1
      BY <2>2
    <2> QED BY <2>1, <2>2, <2>3 DEF Nested, d
  <1>11. CASE Sound(P) /\ Sound(P') /\ ListStep
    BY <1>3, <1>11 DEF ListStep, Closed, Moved
  <1> QED BY <1>4, <1>5, <1>6, <1>7, <1>8, <1>9, <1>10, <1>11, NextMoves

(* When the next token is read right after an indentation, the loop that   *)
(* handled it has just stopped.                                            *)
LEMMA IndentJustDone ==
  ASSUME IInv, Phases, [Next]_vars, pc' = "read", input' # <<>>, Last(input') = "indent"
  PROVE  IndentDone \/ UNCHANGED vars
  <1>1. input \in Seq(AllKinds)
    BY DEF IInv, TypeOK
  <1>2. ASSUME NEW kind \in AllKinds \ {"indent"}, Take(kind) PROVE FALSE
    <2>1. input' = Append(input, kind)
      BY <1>2 DEF Take
    <2>2. Len(input') = Len(input) + 1 /\ input'[Len(input) + 1] = kind
      BY <1>1, <2>1, Appended
    <2> QED BY <2>2 DEF Last
  <1>3. ~TakeWord /\ ~TakeLiteral /\ ~TakeError /\ ~TakeOpen
    BY <1>2 DEF TakeWord, TakeLiteral, TakeError, TakeOpen, AllKinds
  <1>4. ~TakeClose /\ ~TakeDef /\ ~TakeEnd
    BY <1>2 DEF TakeClose, TakeDef, TakeEnd, AllKinds
  <1>5. (\A indent \in Indents : ~TakeIndent(indent)) /\ ~TakeNothing /\ ~EndDone
    BY DEF TakeIndent, TakeNothing, EndDone
  <1>6. ~Dedent
    BY DEF Dedent, CloseFrame
  <1>7. ~CloseDone
    BY DEF CloseDone, Phases
  <1>8. Stopped => UNCHANGED vars
    BY DEF Stopped
  <1> QED BY <1>3, <1>4, <1>5, <1>6, <1>7, <1>8 DEF Next

(* The off-side rule, for texts without brackets of any length and any     *)
(* indentations: the indentations on the stack never decrease, so the loop *)
(* that stops at the last one has closed every definition that began no    *)
(* further to the left.                                                    *)
THEOREM OffSideRule == Spec => []OffSide
  <1> DEFINE Inv == /\ IInv /\ Holds(P, Len(input)) /\ Phases /\ KInv
                    /\ NoBrackets(input) => Nested(P)
                    /\ OffSide
  <1>1. Init => Inv
    <2> SUFFICES ASSUME Init PROVE Nested(P) /\ OffSide
      BY KindsKept
    <2>1. P.indent_stack = <<>> /\ input = <<>>
      BY DEF Init, parse_init
    <2> QED BY <2>1 DEF Nested, OffSide
  <1>2. Inv /\ [Next]_vars => Inv'
    <2> SUFFICES ASSUME Inv, [Next]_vars PROVE OffSide'
      BY KindsKept, NextNested
    <2> SUFFICES ASSUME pc' = "read", input' # <<>>, Last(input') = "indent", NoBrackets(input')
                 PROVE  \A i \in 1..Len(P'.indent_stack) : P'.indent_stack[i] < P'.indent
      BY DEF OffSide, NoBrackets
    <2>1. CASE UNCHANGED vars
      BY <2>1 DEF OffSide, NoBrackets, vars
    <2>2. CASE IndentDone
      <3>1. /\ P' = [P EXCEPT !.indent = arg] /\ input' = input /\ pc = "indent"
            /\ ~is_dedent(P, arg)
        BY <2>2 DEF IndentDone
      <3>2. Sound(P) /\ arg \in Nat /\ input \in Seq(AllKinds)
        BY <3>1 DEF IInv, TypeOK, Sound
      <3>3. \A i \in 1..Len(P.indent_stack) : P.indent_stack[i] < arg
        BY <3>1, <3>2, StoppedAt DEF KInv
      <3>4. P'.indent_stack = P.indent_stack /\ P'.indent = arg
        BY <3>1, <3>2 DEF Sound, ParseState
      <3> QED BY <3>3, <3>4
    <2> QED BY <2>1, <2>2, IndentJustDone
  <1>3. Inv => OffSide
    OBVIOUS
  <1> QED BY <1>1, <1>2, <1>3, PTL DEF Spec

-----------------------------------------------------------------------------
(* The places of the tokens.                                               *)

(* Where a state holds a token: in slot k of the token stack or in cell k  *)
(* of list l.                                                              *)
Places(S) ==
  {<<0, k>> : k \in 1..Len(S.token_stack)} \union
  UNION {{<<l, k>> : k \in 1..Len(S.lists[l])} : l \in 1..Len(S.lists)}

Src(S, p) == IF p[1] = 0 THEN S.token_stack[p[2]].src ELSE S.lists[p[1]][p[2]].src

KeptIn(in) == {i \in 1..Len(in) : in[i] \in {"word", "lit", "open"}}

(* The places hold the tokens of a set, each one once.                     *)
Placed(S, K) ==
  /\ \A p \in Places(S) : Src(S, p) \in K
  /\ \A x \in K : \E p \in Places(S) : Src(S, p) = x
  /\ \A p, q \in Places(S) : Src(S, p) = Src(S, q) => p = q

LEMMA IsPlace ==
  ASSUME NEW S, Sound(S)
  PROVE  /\ \A i, k : <<i, k>> \in Places(S) <=>
              \/ i = 0 /\ k \in 1..Len(S.token_stack)
              \/ i \in 1..Len(S.lists) /\ k \in 1..Len(S.lists[i])
         /\ \A p \in Places(S) : p = <<p[1], p[2]>>
         /\ \A k : Src(S, <<0, k>>) = S.token_stack[k].src
         /\ \A l \in 1..Len(S.lists) : \A k : Src(S, <<l, k>>) = S.lists[l][k].src
  <1>1. \A l \in 1..Len(S.lists) : l # 0
    BY SoundTypes
  <1>2. \A i, k : <<i, k>> \in Places(S) <=>
          \/ i = 0 /\ k \in 1..Len(S.token_stack)
          \/ i \in 1..Len(S.lists) /\ k \in 1..Len(S.lists[i])
    BY DEF Places
  <1>3. \A p \in Places(S) : p = <<p[1], p[2]>>
    BY DEF Places
  <1>4. \A k : Src(S, <<0, k>>) = S.token_stack[k].src
    BY DEF Src
  <1>5. \A l \in 1..Len(S.lists) : \A k : Src(S, <<l, k>>) = S.lists[l][k].src
    BY <1>1 DEF Src
  <1> QED BY <1>2, <1>3, <1>4, <1>5

LEMMA PlaceMoved ==
  ASSUME NEW S, NEW O, NEW K, Placed(S, K),
         NEW a \in Places(S), NEW b, b \notin Places(S),
         Places(O) = (Places(S) \ {a}) \union {b},
         \A p \in Places(S) \ {a} : Src(O, p) = Src(S, p),
         Src(O, b) = Src(S, a)
  PROVE  Placed(O, K)
  <1>1. \A p \in Places(O) : Src(O, p) \in K
    BY DEF Placed
  <1>2. \A x \in K : \E p \in Places(O) : Src(O, p) = x
    BY DEF Placed
  <1>3. \A p, q \in Places(O) : Src(O, p) = Src(O, q) => p = q
    BY DEF Placed
  <1> QED BY <1>1, <1>2, <1>3 DEF Placed

LEMMA PlaceAdded ==
  ASSUME NEW S, NEW O, NEW K, Placed(S, K),
         NEW b, b \notin Places(S), Places(O) = Places(S) \union {b},
         \A p \in Places(S) : Src(O, p) = Src(S, p),
         Src(O, b) \notin K
  PROVE  Placed(O, K \union {Src(O, b)})
  <1>1. \A p \in Places(O) : Src(O, p) \in K \union {Src(O, b)}
    BY DEF Placed
  <1>2. \A x \in K \union {Src(O, b)} : \E p \in Places(O) : Src(O, p) = x
    BY DEF Placed
  <1>3. \A p, q \in Places(O) : Src(O, p) = Src(O, q) => p = q
    BY DEF Placed
  <1> QED BY <1>1, <1>2, <1>3 DEF Placed

Longer(S, O, l, t) == O.lists = [S.lists EXCEPT ![l] = Append(@, t)]

(* A list with a token more has a place more.                              *)
LEMMA ExtendedPlaces ==
  ASSUME NEW S, Sound(S), NEW O, Sound(O), NEW l \in 1..Len(S.lists), NEW t \in Token,
         Longer(S, O, l, t)
  PROVE  LET b == <<l, Len(S.lists[l]) + 1>> IN
         /\ b \notin Places(S) /\ b \in Places(O) /\ Src(O, b) = t.src
         /\ \A i, k : i # 0 => /\ <<i, k>> \in Places(O) <=> (<<i, k>> \in Places(S) \/ <<i, k>> = b)
                               /\ <<i, k>> \in Places(S) => Src(O, <<i, k>>) = Src(S, <<i, k>>)
  <1> DEFINE n == Len(S.lists[l])
  <1>1. /\ Len(O.lists) = Len(S.lists)
        /\ \A m \in 1..Len(S.lists) : m # l => O.lists[m] = S.lists[m]
        /\ n \in Nat
        /\ Len(O.lists[l]) = n + 1
        /\ \A k \in 1..n : O.lists[l][k] = S.lists[l][k]
        /\ O.lists[l][n + 1] = t
    BY Extended DEF Longer
  <1>2. l # 0 /\ Len(S.lists) \in Nat
    BY SoundTypes
  <1> HIDE DEF n
  <1>3. n + 1 \in 1..n + 1 /\ n + 1 \notin 1..n /\ \A k : k \in 1..n + 1 <=> (k \in 1..n \/ k = n + 1)
    BY <1>1
  <1>4. <<l, n + 1>> \notin Places(S) /\ <<l, n + 1>> \in Places(O)
    BY <1>1, <1>2, <1>3, IsPlace DEF n
  <1>5. Src(O, <<l, n + 1>>) = t.src
    BY <1>1, IsPlace
  <1>6. ASSUME NEW i, NEW k, i # 0
        PROVE  <<i, k>> \in Places(O) <=> (<<i, k>> \in Places(S) \/ <<i, k>> = <<l, n + 1>>)
    <2>1. <<i, k>> \in Places(O) <=> (i \in 1..Len(S.lists) /\ k \in 1..Len(O.lists[i]))
      BY <1>1, <1>6, IsPlace
    <2>2. <<i, k>> \in Places(S) <=> (i \in 1..Len(S.lists) /\ k \in 1..Len(S.lists[i]))
      BY <1>6, IsPlace
    <2>3. <<i, k>> = <<l, n + 1>> <=> (i = l /\ k = n + 1)
      OBVIOUS
    <2>4. CASE i = l
      BY <1>1, <1>3, <2>1, <2>2, <2>3, <2>4 DEF n
    <2>5. CASE i # l
      BY <1>1, <2>1, <2>2, <2>3, <2>5
    <2> QED BY <2>4, <2>5
  <1>7. ASSUME NEW i, NEW k, i # 0, <<i, k>> \in Places(S)
        PROVE  Src(O, <<i, k>>) = Src(S, <<i, k>>)
    <2>1. i \in 1..Len(S.lists) /\ k \in 1..Len(S.lists[i])
      BY <1>7, IsPlace
    <2>2. Src(S, <<i, k>>) = S.lists[i][k].src
      BY <2>1, IsPlace
    <2>3. i \in 1..Len(O.lists)
      BY <1>1, <2>1
    <2>4. Src(O, <<i, k>>) = O.lists[i][k].src
      BY <2>3, IsPlace
    <2>5. O.lists[i][k] = S.lists[i][k]
      BY <1>1, <2>1 DEF n
    <2> QED BY <2>2, <2>4, <2>5
  <1> QED BY <1>4, <1>5, <1>6, <1>7 DEF n

LEMMA MovedPlaced ==
  ASSUME NEW S, Sound(S), NEW O, Sound(O), NEW t, Moved(S, O, t), NEW K, Placed(S, K)
  PROVE  Placed(O, K)
  <1> DEFINE n == Len(S.token_stack)
             l == O.list
             a == <<0, n>>
             b == <<l, Len(S.lists[l]) + 1>>
  <1>1. /\ S.token_stack # <<>> /\ t \in Token /\ t.src = Last(S.token_stack).src
        /\ O.token_stack = Front(S.token_stack)
        /\ l = Target(S, n)
        /\ O.lists = [S.lists EXCEPT ![l] = Append(@, t)]
    BY DEF Moved
  <1>2. /\ n \in Nat \ {0} /\ n \in 1..n /\ Len(O.token_stack) = n - 1
        /\ \A i \in 1..n - 1 : O.token_stack[i] = S.token_stack[i]
        /\ t.src = S.token_stack[n] .src
        /\ n \in 1..S.base + 1
    BY <1>1, Topped
  <1>3. l \in 1..Len(S.lists) /\ l # 0
    BY <1>1, <1>2, TargetsIncrease
  <1>4. /\ b \notin Places(S) /\ b \in Places(O) /\ Src(O, b) = t.src
        /\ \A i, k : i # 0 => /\ <<i, k>> \in Places(O) <=> (<<i, k>> \in Places(S) \/ <<i, k>> = b)
                              /\ <<i, k>> \in Places(S) => Src(O, <<i, k>>) = Src(S, <<i, k>>)
    BY <1>1, <1>3, ExtendedPlaces, SMTT(30) DEF Longer
  <1>5. /\ a \in Places(S) /\ Src(S, a) = t.src
        /\ \A k : /\ <<0, k>> \in Places(S) <=> k \in 1..n
                  /\ <<0, k>> \in Places(O) <=> k \in 1..n - 1
                  /\ Src(S, <<0, k>>) = S.token_stack[k].src
                  /\ Src(O, <<0, k>>) = O.token_stack[k].src
    <2>1. \A k : ~(0 \in 1..Len(S.lists)) /\ ~(0 \in 1..Len(O.lists))
      BY SoundTypes
    <2>2. \A k : /\ <<0, k>> \in Places(S) <=> k \in 1..Len(S.token_stack)
                 /\ <<0, k>> \in Places(O) <=> k \in 1..Len(O.token_stack)
                 /\ Src(S, <<0, k>>) = S.token_stack[k].src
                 /\ Src(O, <<0, k>>) = O.token_stack[k].src
      BY <2>1, IsPlace
    <2> QED BY <1>2, <2>2
  <1>6. \A k : k \in 1..n - 1 <=> (k \in 1..n /\ k # n)
    BY <1>2
  <1>7. (\A p \in Places(S) : p = <<p[1], p[2]>>) /\ (\A p \in Places(O) : p = <<p[1], p[2]>>)
    BY IsPlace
  <1>8. b[1] # 0 /\ (\A i, k : <<i, k>> = a <=> (i = 0 /\ k = n))
        /\ (\A k : <<0, k>> # b)
    BY <1>3
  <1> HIDE DEF n, l, a, b
  <1>9. ASSUME NEW i, NEW k
        PROVE  /\ <<i, k>> \in Places(O) <=> (<<i, k>> \in (Places(S) \ {a}) \union {b})
               /\ <<i, k>> \in Places(S) \ {a} => Src(O, <<i, k>>) = Src(S, <<i, k>>)
    <2>1. CASE i = 0
      BY <1>2, <1>5, <1>6, <1>8, <2>1, SMTT(30)
    <2>2. CASE i # 0
      BY <1>4, <1>8, <2>2
    <2> QED BY <2>1, <2>2
  <1>10. b = <<b[1], b[2]>>
    BY DEF b
  <1>11. Places(O) = (Places(S) \ {a}) \union {b}
    BY <1>7, <1>9, <1>10
  <1>12. \A p \in Places(S) \ {a} : Src(O, p) = Src(S, p)
    BY <1>7, <1>9
  <1> QED BY <1>4, <1>5, <1>11, <1>12, PlaceMoved

LEMMA SamePlaced ==
  ASSUME NEW S, NEW O, O.token_stack = S.token_stack, O.lists = S.lists,
         NEW K, Placed(S, K)
  PROVE  Placed(O, K)
  <1>1. Places(O) = Places(S) /\ \A p : Src(O, p) = Src(S, p)
    BY DEF Places, Src
  <1> QED BY <1>1 DEF Placed

LEMMA FlushedPlaced ==
  ASSUME NEW S, Sound(S), NEW O, Sound(O), Flushed(S, O), NEW K, Placed(S, K)
  PROVE  Placed(O, K)
  <1>1. CASE Alike(S, O)
    BY <1>1, SamePlaced DEF Alike
  <1>2. CASE Moved(S, O, Last(S.token_stack))
    BY <1>2, MovedPlaced
  <1> QED BY <1>1, <1>2 DEF Flushed

LEMMA PushedPlaced ==
  ASSUME NEW S, Sound(S), NEW O, Sound(O), NEW t, Pushed(S, O, t), NEW K, Placed(S, K),
         t.src \notin K
  PROVE  Placed(O, K \union {t.src})
  <1> DEFINE n == Len(S.token_stack)
             b == <<0, n + 1>>
  <1>1. t \in Token /\ O.token_stack = Append(S.token_stack, t) /\ O.lists = S.lists
    BY DEF Pushed
  <1>2. /\ n \in Nat /\ Len(O.token_stack) = n + 1
        /\ \A k \in 1..n : O.token_stack[k] = S.token_stack[k]
        /\ O.token_stack[n + 1] = t
    BY <1>1, SoundTypes, Appended
  <1> HIDE DEF n
  <1>3. \A k : k \in 1..n + 1 <=> (k \in 1..n \/ k = n + 1)
    BY <1>2
  <1>4. n + 1 \notin 1..n
    BY <1>2
  <1>5. (\A i \in 1..Len(S.lists) : i # 0) /\ Len(O.lists) = Len(S.lists)
    BY <1>1, SoundTypes
  <1>6. b \notin Places(S) /\ Src(O, b) = t.src
    BY <1>2, <1>4, <1>5, IsPlace DEF n
  <1>7. ASSUME NEW i, NEW k
        PROVE  /\ <<i, k>> \in Places(O) <=> (<<i, k>> \in Places(S) \union {b})
               /\ <<i, k>> \in Places(S) => Src(O, <<i, k>>) = Src(S, <<i, k>>)
    <2>1. CASE i = 0
      <3>1. <<0, k>> \in Places(S) <=> k \in 1..n
        BY <1>5, IsPlace DEF n
      <3>2. <<0, k>> \in Places(O) <=> k \in 1..n + 1
        BY <1>2, <1>5, IsPlace
      <3>3. <<0, k>> = b <=> k = n + 1
        OBVIOUS
      <3>4. Src(O, <<0, k>>) = O.token_stack[k].src /\ Src(S, <<0, k>>) = S.token_stack[k].src
        BY IsPlace
      <3> QED BY <1>2, <1>3, <2>1, <3>1, <3>2, <3>3, <3>4
    <2>2. CASE i # 0
      <3>1. <<i, k>> \in Places(S) <=> (i \in 1..Len(S.lists) /\ k \in 1..Len(S.lists[i]))
        BY <2>2, IsPlace
      <3>2. <<i, k>> \in Places(O) <=> (i \in 1..Len(S.lists) /\ k \in 1..Len(S.lists[i]))
        BY <1>1, <2>2, IsPlace
      <3>3. i \in 1..Len(S.lists) => Src(O, <<i, k>>) = Src(S, <<i, k>>)
        BY <1>1, IsPlace
      <3>4. <<i, k>> # b
        BY <2>2
      <3> QED BY <3>1, <3>2, <3>3, <3>4
    <2> QED BY <2>1, <2>2
  <1>8. (\A p \in Places(S) : p = <<p[1], p[2]>>) /\ (\A p \in Places(O) : p = <<p[1], p[2]>>)
    BY IsPlace
  <1>9. b = <<b[1], b[2]>>
    OBVIOUS
  <1> HIDE DEF b
  <1>10. Places(O) = Places(S) \union {b}
    BY <1>7, <1>8, <1>9
  <1>11. \A p \in Places(S) : Src(O, p) = Src(S, p)
    BY <1>7, <1>8
  <1> QED BY <1>6, <1>10, <1>11, PlaceAdded

LEMMA OpenedPlaced ==
  ASSUME NEW S, Sound(S), NEW O, Sound(O), Opened(S, O), NEW K, Placed(S, K)
  PROVE  Placed(O, K)
  <1>1. O.token_stack = S.token_stack /\ O.lists = Append(S.lists, <<>>)
    BY DEF Opened
  <1>2. /\ Len(S.lists) \in Nat /\ Len(O.lists) = Len(S.lists) + 1
        /\ \A l \in 1..Len(S.lists) : O.lists[l] = S.lists[l]
        /\ O.lists[Len(S.lists) + 1] = <<>>
    BY <1>1, SoundTypes, Appended
  <1>3. \A l \in 1..Len(O.lists) : l \in 1..Len(S.lists) \/ l = Len(S.lists) + 1
    BY <1>2
  <1>4. \A l \in 1..Len(S.lists) : l \in 1..Len(O.lists)
    BY <1>2
  <1>5. \A k : k \notin 1..Len(O.lists[Len(S.lists) + 1])
    BY <1>2
  <1>6. ASSUME NEW i, NEW k
        PROVE  /\ <<i, k>> \in Places(O) <=> <<i, k>> \in Places(S)
               /\ <<i, k>> \in Places(S) => Src(O, <<i, k>>) = Src(S, <<i, k>>)
    <2>1. <<i, k>> \in Places(S) <=> ( \/ i = 0 /\ k \in 1..Len(S.token_stack)
                                       \/ i \in 1..Len(S.lists) /\ k \in 1..Len(S.lists[i]) )
      BY IsPlace
    <2>2. <<i, k>> \in Places(O) <=> ( \/ i = 0 /\ k \in 1..Len(S.token_stack)
                                       \/ i \in 1..Len(O.lists) /\ k \in 1..Len(O.lists[i]) )
      BY <1>1, IsPlace
    <2>3. i = 0 => Src(O, <<i, k>>) = Src(S, <<i, k>>)
      BY <1>1, IsPlace
    <2>4. i \in 1..Len(S.lists) => Src(O, <<i, k>>) = Src(S, <<i, k>>)
      BY <1>2, <1>4, IsPlace
    <2> QED BY <1>2, <1>3, <1>4, <1>5, <2>1, <2>2, <2>3, <2>4
  <1>7. (\A p \in Places(S) : p = <<p[1], p[2]>>) /\ (\A p \in Places(O) : p = <<p[1], p[2]>>)
    BY IsPlace
  <1>8. Places(O) = Places(S)
    BY <1>6, <1>7
  <1>9. \A p \in Places(S) : Src(O, p) = Src(S, p)
    BY <1>6, <1>7
  <1> QED BY <1>8, <1>9 DEF Placed

LEMMA WrittenPlaced ==
  ASSUME NEW S, Sound(S), NEW O, Sound(O), NEW t, Written(S, O, t), NEW K, Placed(S, K),
         t.src \notin K
  PROVE  Placed(O, K \union {t.src})
  <1> DEFINE l == S.list
             b == <<l, Len(S.lists[l]) + 1>>
  <1>1. t \in Token /\ O.token_stack = S.token_stack
        /\ O.lists = [S.lists EXCEPT ![l] = Append(@, t)]
    BY DEF Written
  <1>2. l \in 1..Len(S.lists) /\ l # 0
    BY SoundTypes
  <1>3. /\ b \notin Places(S) /\ b \in Places(O) /\ Src(O, b) = t.src
        /\ \A i, k : i # 0 => /\ <<i, k>> \in Places(O) <=> (<<i, k>> \in Places(S) \/ <<i, k>> = b)
                              /\ <<i, k>> \in Places(S) => Src(O, <<i, k>>) = Src(S, <<i, k>>)
    <2>1. Longer(S, O, l, t)
      BY <1>1 DEF Longer
    <2> HIDE DEF l
    <2> QED BY <1>1, <1>2, <2>1, ExtendedPlaces
  <1>4. \A k : /\ <<0, k>> \in Places(S) <=> <<0, k>> \in Places(O)
               /\ Src(O, <<0, k>>) = Src(S, <<0, k>>)
    <2>1. 0 \notin 1..Len(S.lists) /\ 0 \notin 1..Len(O.lists)
      BY SoundTypes
    <2>2. \A k : /\ <<0, k>> \in Places(S) <=> k \in 1..Len(S.token_stack)
                 /\ Src(S, <<0, k>>) = S.token_stack[k].src
      BY <2>1, IsPlace
    <2>3. \A k : /\ <<0, k>> \in Places(O) <=> k \in 1..Len(O.token_stack)
                 /\ Src(O, <<0, k>>) = O.token_stack[k].src
      BY <2>1, IsPlace
    <2> QED BY <1>1, <2>2, <2>3
  <1>5. (\A p \in Places(S) : p = <<p[1], p[2]>>) /\ (\A p \in Places(O) : p = <<p[1], p[2]>>)
    BY IsPlace
  <1>6. b = <<b[1], b[2]>> /\ (\A k : <<0, k>> # b)
    BY <1>2
  <1> HIDE DEF l, b
  <1>7. ASSUME NEW i, NEW k
        PROVE  /\ <<i, k>> \in Places(O) <=> (<<i, k>> \in Places(S) \union {b})
               /\ <<i, k>> \in Places(S) => Src(O, <<i, k>>) = Src(S, <<i, k>>)
    BY <1>3, <1>4, <1>6
  <1>8. Places(O) = Places(S) \union {b}
    BY <1>5, <1>6, <1>7
  <1>9. \A p \in Places(S) : Src(O, p) = Src(S, p)
    BY <1>5, <1>7
  <1> QED BY <1>3, <1>8, <1>9, PlaceAdded

(* What is kept of a text with a token more.                               *)
LEMMA KeptMore ==
  ASSUME NEW in \in Seq(AllKinds), NEW kind
  PROVE  /\ Len(in) + 1 \notin KeptIn(in)
         /\ KeptIn(Append(in, kind)) =
              IF kind \in {"word", "lit", "open"} THEN KeptIn(in) \union {Len(in) + 1}
                                                  ELSE KeptIn(in)
  <1> DEFINE n == Len(in)
             more == Append(in, kind)
  <1>1. /\ n \in Nat /\ Len(more) = n + 1
        /\ \A i \in 1..n : more[i] = in[i]
        /\ more[n + 1] = kind
    BY AppendProperties, LenProperties
  <1> HIDE DEF n, more
  <1>2. \A i : i \in 1..n + 1 <=> (i \in 1..n \/ i = n + 1)
    BY <1>1
  <1>3. n + 1 \notin 1..n
    BY <1>1
  <1>4. \A i : i \in KeptIn(in) <=> (i \in 1..n /\ in[i] \in {"word", "lit", "open"})
    BY DEF KeptIn, n
  <1>5. \A i : i \in KeptIn(more) <=> (i \in 1..n + 1 /\ more[i] \in {"word", "lit", "open"})
    BY <1>1 DEF KeptIn
  <1>6. CASE kind \in {"word", "lit", "open"}
    <2>1. \A i : i \in KeptIn(more) <=> i \in KeptIn(in) \union {n + 1}
      BY <1>1, <1>2, <1>4, <1>5, <1>6
    <2>2. KeptIn(more) = KeptIn(in) \union {n + 1}
      BY <2>1
    <2> QED BY <1>3, <1>4, <1>6, <2>2 DEF n, more
  <1>7. CASE kind \notin {"word", "lit", "open"}
    <2>1. \A i : i \in KeptIn(more) <=> i \in KeptIn(in)
      BY <1>1, <1>2, <1>3, <1>4, <1>5, <1>7
    <2>2. KeptIn(more) = KeptIn(in)
      BY <2>1
    <2> QED BY <1>3, <1>4, <1>7, <2>2 DEF n, more
  <1> QED BY <1>6, <1>7

LEMMA NextPlaced ==
  IInv /\ Placed(P, KeptIn(input)) /\ [Next]_vars => Placed(P', KeptIn(input'))
  <1> SUFFICES ASSUME IInv, Placed(P, KeptIn(input)), [Next]_vars
               PROVE  Placed(P', KeptIn(input'))
    OBVIOUS
  <1> DEFINE n == Len(input)
             K == KeptIn(input)
  <1>1. input \in Seq(AllKinds)
    BY DEF IInv, TypeOK
  <1>2. n + 1 \notin K
    BY <1>1, KeptMore
  <1>3. ASSUME NEW kind, input' = Append(input, kind)
        PROVE  KeptIn(input') = IF kind \in {"word", "lit", "open"} THEN K \union {n + 1} ELSE K
    BY <1>1, <1>3, KeptMore
  <1>4. input' = input \/ Reads({"indent", "error", "end", "def", "close"}) => KeptIn(input') = K
    BY <1>3 DEF Reads
  <1>5. Reads({"word", "lit", "open"}) => KeptIn(input') = K \union {n + 1}
    BY <1>3 DEF Reads
  <1>6. here_token("word").src = n + 1 /\ here_token("lit").src = n + 1 /\ here_token("op").src = n + 1
    BY DEF here_token, here, tag_token
  <1> HIDE DEF n, K
  <1>7. CASE StaysStep
    <2>1. KeptIn(input') = K
      BY <1>4, <1>7 DEF StaysStep, Reads
    <2> QED BY <1>7, <2>1, SamePlaced DEF StaysStep, Alike, K
  <1>8. CASE Sound(P) /\ Sound(P') /\ FlushStep
    <2>1. KeptIn(input') = K
      BY <1>4, <1>8 DEF FlushStep, Reads
    <2> QED BY <1>8, <2>1, FlushedPlaced DEF FlushStep, K
  <1>9. CASE Sound(P) /\ Sound(P') /\ WordStep
    <2>1. KeptIn(input') = K \union {n + 1}
      BY <1>5, <1>9 DEF WordStep, Reads
    <2>2. PICK F \in ParseState :
            Sound(F) /\ Flushed(P, F) /\ Pushed(F, P', here_token("word"))
      BY <1>9 DEF WordStep
    <2>3. Placed(F, K)
      BY <1>9, <2>2, FlushedPlaced DEF K
    <2>4. Placed(P', K \union {here_token("word").src})
      BY <1>2, <1>6, <1>9, <2>2, <2>3, PushedPlaced
    <2> QED BY <1>6, <2>1, <2>4
  <1>10. CASE Sound(P) /\ Sound(P') /\ LiteralStep
    <2>1. KeptIn(input') = K \union {n + 1}
      BY <1>5, <1>10 DEF LiteralStep, Reads
    <2>2. Written(P, P', here_token("lit")) /\ Placed(P, K)
      BY <1>10 DEF LiteralStep, K
    <2>3. Placed(P', K \union {here_token("lit").src})
      BY <1>2, <1>6, <1>10, <2>2, WrittenPlaced
    <2> QED BY <1>6, <2>1, <2>3
  <1>11. CASE Sound(P) /\ Sound(P') /\ OpenStep
    <2>1. KeptIn(input') = K \union {n + 1}
      BY <1>5, <1>11 DEF OpenStep, Reads
    <2>2. PICK F \in ParseState, G \in ParseState :
            /\ Sound(F) /\ Flushed(P, F)
            /\ Sound(G) /\ Pushed(F, G, here_token("op"))
            /\ Opened(G, P')
      BY <1>11 DEF OpenStep
    <2>3. Placed(F, K)
      BY <1>11, <2>2, FlushedPlaced DEF K
    <2>4. Placed(G, K \union {here_token("op").src})
      BY <1>2, <1>6, <2>2, <2>3, PushedPlaced
    <2>5. Placed(P', K \union {here_token("op").src})
      BY <1>11, <2>2, <2>4, OpenedPlaced
    <2> QED BY <1>6, <2>1, <2>5
  <1>12. CASE Sound(P) /\ Sound(P') /\ DefStep
    <2>1. KeptIn(input') = K
      BY <1>4, <1>12 DEF DefStep, Reads
    <2> QED BY <1>12, <2>1, OpenedPlaced DEF DefStep, K
  <1>13. CASE Sound(P) /\ Sound(P') /\ DedentStep
    <2>1. KeptIn(input') = K
      BY <1>4, <1>13 DEF DedentStep, Reads
    <2>2. PICK F \in ParseState, t \in Token : Sound(F) /\ Flushed(P, F) /\ Closed(F, P', t)
      BY <1>13 DEF DedentStep
    <2>3. Placed(F, K)
      BY <1>13, <2>2, FlushedPlaced DEF K
    <2> QED BY <1>13, <2>1, <2>2, <2>3, MovedPlaced DEF Closed
  <1>14. CASE Sound(P) /\ Sound(P') /\ ListStep
    <2>1. KeptIn(input') = K
      BY <1>4, <1>14 DEF ListStep
    <2>2. PICK t \in Token : Closed(P, P', t)
      BY <1>14 DEF ListStep
    <2> QED BY <1>14, <2>1, <2>2, MovedPlaced DEF Closed, K
  <1> QED BY <1>7, <1>8, <1>9, <1>10, <1>11, <1>12, <1>13, <1>14, NextMoves

(* As many places as tokens.                                               *)
LEMMA AsManyPlaces ==
  ASSUME NEW S, NEW n \in Nat, NEW K, K \subseteq 1..n, Placed(S, K)
  PROVE  Cardinality(Places(S)) = Cardinality(K)
  <1> DEFINE f == [p \in Places(S) |-> Src(S, p)]
  <1>1. IsFiniteSet(K)
    <2>1. IsFiniteSet(1..n)
      BY FS_Interval
    <2> QED BY <2>1, FS_Subset
  <1>2. f \in [Places(S) -> K]
    BY DEF Placed
  <1>3. f \in Injection(Places(S), K)
    <2>1. \A p, q \in Places(S) : f[p] = f[q] => p = q
      BY DEF Placed
    <2> QED BY <1>2, <2>1, Fun_IsInj
  <1>4. f \in Surjection(Places(S), K)
    <2>1. \A x \in K : \E p \in Places(S) : f[p] = x
      BY DEF Placed
    <2> QED BY <1>2, <2>1, Fun_IsSurj
  <1> HIDE DEF f
  <1> QED BY <1>1, <1>3, <1>4, FS_Injection

(* No identifier, literal or "[" is lost or doubled, in a text of any      *)
(* length: a token that is read takes a place of its own, and a token that *)
(* is flushed or closed leaves its slot for the end of a list.             *)
THEOREM EachTokenOnce == Spec => []EveryTokenOnce
  <1> DEFINE Inv == IInv /\ Placed(P, KeptIn(input))
  <1>1. Init => Inv
    <2> SUFFICES ASSUME Init PROVE Placed(P, KeptIn(input))
      BY InitIInv
    <2>1. P.token_stack = <<>> /\ P.lists = << <<>> >> /\ input = <<>>
      BY DEF Init, parse_init
    <2>2. Places(P) = {} /\ KeptIn(input) = {}
      BY <2>1 DEF Places, KeptIn
    <2> QED BY <2>2 DEF Placed
  <1>2. Inv /\ [Next]_vars => Inv'
    BY NextIInv, NextPlaced
  <1>3. Inv => EveryTokenOnce
    <2> SUFFICES ASSUME Inv PROVE EveryTokenOnce
      OBVIOUS
    <2>1. Len(input) \in Nat /\ KeptIn(input) \subseteq 1..Len(input)
      BY LenProperties DEF IInv, TypeOK, KeptIn
    <2>2. Cardinality(Places(P)) = Cardinality(KeptIn(input))
      BY <2>1, AsManyPlaces
    <2>3. {Src(P, p) : p \in Places(P)} = KeptIn(input)
      BY DEF Placed
    <2> QED BY <2>2, <2>3 DEF EveryTokenOnce, Places, Src, KeptIn
  <1> QED BY <1>1, <1>2, <1>3, PTL DEF Spec

=============================================================================
