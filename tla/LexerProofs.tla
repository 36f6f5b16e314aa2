----------------------------- MODULE LexerProofs ----------------------------
(***************************************************************************)
(* What is proved of Lexer, for texts of every length.                     *)
(***************************************************************************)
EXTENDS Lexer, SequenceTheorems, FiniteSetTheorems, WellFoundedInduction, TLAPS

-----------------------------------------------------------------------------
(* Numbers and loops.                                                      *)

LEMMA LeastNumber ==
  ASSUME NEW T \in SUBSET Nat, NEW n \in T
  PROVE  \E least \in T : \A m \in T : least <= m
  <1>1. T # {} /\ T \subseteq Nat
    OBVIOUS
  <1>2. PICK least \in T : \A m \in T : ~(<<m, least>> \in OpToRel(<, Nat))
    BY <1>1, WFMin, NatLessThanWellFounded, Zenon
  <1>3. ASSUME NEW m \in T PROVE least <= m
    <2>1. m \in Nat /\ least \in Nat
      OBVIOUS
    <2>2. ~(m < least)
      BY <1>2, <2>1 DEF OpToRel
    <2> QED BY <2>1, <2>2
  <1> QED BY <1>3

LEMMA MinIs ==
  ASSUME NEW T \in SUBSET Nat, T # {}
  PROVE  Min(T) \in T /\ \A m \in T : Min(T) <= m
  <1>1. PICK least \in T : \A m \in T : least <= m
    BY LeastNumber
  <1> QED BY <1>1 DEF Min

(* The last place that is in a set, of those up to a bound.                *)
LEMMA LastPlace ==
  ASSUME NEW n \in Nat, NEW T \in SUBSET (0..n), T # {}
  PROVE  \E last \in T : \A m \in T : m <= last
  <1> DEFINE Back == {n - m : m \in T}
  <1>1. Back \in SUBSET Nat /\ Back # {}
    <2>1. \A m \in T : m \in 0..n /\ n - m \in Nat
      OBVIOUS
    <2> QED BY <2>1
  <1>2. PICK least \in Back : \A b \in Back : least <= b
    BY <1>1, LeastNumber
  <1>3. PICK last \in T : least = n - last
    BY <1>2
  <1>4. ASSUME NEW m \in T PROVE m <= last
    <2>1. n - m \in Back
      OBVIOUS
    <2> QED BY <1>2, <1>3, <2>1
  <1> QED BY <1>4

(* Counting up to a number; T is the set of those for which it holds.      *)
LEMMA Counting ==
  ASSUME NEW T, 0 \in T, \A n \in Nat : n \in T => n + 1 \in T
  PROVE  \A n \in Nat : n \in T
  <1> DEFINE Bad == {n \in Nat : n \notin T}
  <1> SUFFICES ASSUME NEW n \in Bad PROVE FALSE
    OBVIOUS
  <1>1. Bad \in SUBSET Nat
    OBVIOUS
  <1>2. PICK least \in Bad : \A x \in Bad : least <= x
    BY <1>1, LeastNumber
  <1>3. least - 1 \in Nat /\ least - 1 \notin Bad
    BY <1>1, <1>2
  <1>4. (least - 1) + 1 \in T
    BY <1>3
  <1> QED BY <1>1, <1>2, <1>4

(* A loop over D that stops at some places with a value and goes on to the *)
(* next one at the others.                                                 *)
IsLoop(f, D, stop, val, next) ==
  f = [x \in D |-> IF x \in stop THEN val[x] ELSE f[next[x]]]

(* It is defined if each step comes closer to an end.                      *)
LEMMA LoopExists ==
  ASSUME NEW D, NEW n \in Nat, NEW left \in [D -> 0..n], NEW stop, NEW val,
         NEW next \in [D -> D],
         \A x \in D \ stop : left[next[x]] < left[x]
  PROVE  \E f : IsLoop(f, D, stop, val, next)
  <1> DEFINE Near(m) == {x \in D : left[x] < m}
             T == {m \in Nat : \E f : IsLoop(f, Near(m), stop, val, next)}
  <1>1. 0 \in T
    <2> DEFINE f == [x \in Near(0) |-> 0]
    <2>1. Near(0) = {}
      OBVIOUS
    <2>2. IsLoop(f, Near(0), stop, val, next)
      BY <2>1 DEF IsLoop
    <2> QED BY <2>2
  <1>2. ASSUME NEW m \in Nat, m \in T PROVE m + 1 \in T
    <2>1. PICK f : IsLoop(f, Near(m), stop, val, next)
      BY <1>2
    <2> DEFINE g == [x \in Near(m + 1) |-> IF x \in stop THEN val[x] ELSE f[next[x]]]
    <2>2. ASSUME NEW x \in Near(m + 1), x \notin stop PROVE f[next[x]] = g[next[x]]
      <3>1. next[x] \in D /\ left[next[x]] < left[x] /\ left[x] < m + 1
        BY <2>2
      <3>2. left[next[x]] \in 0..n /\ left[x] \in 0..n
        BY <3>1
      <3>3. next[x] \in Near(m) /\ next[x] \in Near(m + 1)
        BY <3>1, <3>2
      <3> QED BY <2>1, <3>3 DEF IsLoop
    <2>3. g = [x \in Near(m + 1) |-> IF x \in stop THEN val[x] ELSE g[next[x]]]
      BY <2>2
    <2> HIDE DEF g
    <2>4. IsLoop(g, Near(m + 1), stop, val, next)
      BY <2>3 DEF IsLoop
    <2> QED BY <2>4
  <1>3. n + 1 \in T
    BY <1>1, <1>2, Counting
  <1>4. Near(n + 1) = D
    OBVIOUS
  <1> QED BY <1>3, <1>4

-----------------------------------------------------------------------------
(* Characters and places.                                                  *)

LEMMA TextFacts ==
  ASSUME text \in Texts
  PROVE  /\ Len(text) \in Nat /\ DOMAIN text = 1..Len(text)
         /\ Nul = Len(text) + 1 /\ Nul \in Nat
         /\ \A i : at(i) = NUL <=> i \notin 1..Len(text)
         /\ \A i \in 1..Len(text) : at(i) \in DOMAIN Byte /\ at(i) = text[i]
  <1>1. text \in Seq(DOMAIN Byte \ {NUL})
    BY TextsAssumption
  <1>2. Len(text) \in Nat /\ DOMAIN text = 1..Len(text)
    BY <1>1, LenProperties
  <1>3. \A i \in 1..Len(text) : text[i] \in DOMAIN Byte \ {NUL}
    BY <1>1, ElementOfSeq
  <1> QED BY <1>2, <1>3 DEF at, Nul

(* The characters that mean something by themselves; those that the prover *)
(* of arithmetic cannot read have a lemma of their own.                    *)
LEMMA CharFacts ==
  /\ ~isspace(NUL) /\ ~isspace("(") /\ ~isspace(")") /\ ~isspace("#")
  /\ ~isspace("-") /\ ~isspace("0") /\ ~isspace(".") /\ ~isspace("'")
  /\ isspace("\n")
  /\ is_delim(NUL) /\ is_delim("(") /\ is_delim(")") /\ is_delim("#")
  /\ is_delim("\n")
  /\ \A c : isspace(c) => is_delim(c)
  /\ NUL \notin {"(", ")", "#", "\n", "-", "0", "'", "\\"}
  BY Zenon DEF isspace, is_delim, delim_list, NUL

LEMMA BraceFacts ==
  /\ ~isspace("\"") /\ ~isspace("{") /\ ~isspace("}")
  /\ NUL \notin {"{", "}", "\""}
  BY Zenon DEF isspace, NUL

(* The first place of those from i on at which a test holds.               *)
LEMMA FirstPlace ==
  ASSUME text \in Texts, NEW i \in 1..Nul, NEW T \in SUBSET (i..Nul), T # {}
  PROVE  /\ Min(T) \in T /\ Min(T) \in i..Nul
         /\ \A j \in i..Min(T) - 1 : j \notin T
  <1>1. Nul \in Nat
    BY TextFacts
  <1>2. T \in SUBSET Nat
    BY <1>1
  <1>3. Min(T) \in T /\ \A m \in T : Min(T) <= m
    BY <1>2, MinIs
  <1>4. Min(T) \in i..Nul
    BY <1>3
  <1>5. ASSUME NEW j \in i..Min(T) - 1 PROVE j \notin T
    <2>1. j \in Int /\ Min(T) \in Int /\ ~(Min(T) <= j)
      BY <1>1, <1>4
    <2> QED BY <1>3, <2>1
  <1> QED BY <1>3, <1>4, <1>5

LEMMA LineEnds ==
  ASSUME text \in Texts, NEW i \in 1..Nul
  PROVE  /\ line_end(i) \in i..Nul
         /\ at(line_end(i)) \in {NUL, "\n"}
         /\ \A j \in i..line_end(i) - 1 : at(j) \notin {NUL, "\n"}
  <1> DEFINE T == {j \in i..Nul : at(j) \in {NUL, "\n"}}
  <1>1. line_end(i) = Min(T)
    BY DEF line_end, First
  <1>2. Nul \in T
    BY TextFacts
  <1>3. \A j \in i..Nul : j \in T <=> at(j) \in {NUL, "\n"}
    OBVIOUS
  <1>4. T \in SUBSET (i..Nul)
    OBVIOUS
  <1> HIDE DEF T
  <1>5. Nul \in Nat
    BY TextFacts
  <1>6. Min(T) \in T /\ Min(T) \in i..Nul /\ \A j \in i..Min(T) - 1 : j \notin T
    BY <1>2, <1>4, FirstPlace
  <1>7. \A j \in i..Min(T) - 1 : j \in i..Nul
    BY <1>5, <1>6
  <1> QED BY <1>1, <1>3, <1>6, <1>7

LEMMA LineComments ==
  ASSUME text \in Texts, NEW i \in 1..Nul, at(i) = "#"
  PROVE  /\ parse_line_comment(i) \in i + 1..Nul
         /\ line_end(i) \in i + 1..Nul
         /\ \/ /\ at(line_end(i)) = "\n"
               /\ parse_line_comment(i) = line_end(i) + 1
            \/ /\ line_end(i) = Nul
               /\ parse_line_comment(i) = Nul
  <1>1. Nul \in Nat /\ at(Nul) = NUL /\ \A j \in 1..Nul : at(j) = NUL => j = Nul
    BY TextFacts
  <1>2. line_end(i) \in i + 1..Nul /\ at(line_end(i)) \in {NUL, "\n"}
    <2>1. line_end(i) # i
      BY LineEnds, CharFacts
    <2> QED BY <1>1, <2>1, LineEnds
  <1> DEFINE T == {line_end(i) + 1, Nul}
  <1>3. parse_line_comment(i) \in T /\ \A m \in T : parse_line_comment(i) <= m
    <2>1. T \in SUBSET Nat /\ T # {}
      BY <1>1, <1>2
    <2> HIDE DEF T
    <2>2. Min(T) \in T /\ \A m \in T : Min(T) <= m
      BY <2>1, MinIs
    <2> QED BY <2>2 DEF parse_line_comment, T
  <1>4. line_end(i) = Nul => parse_line_comment(i) = Nul
    BY <1>1, <1>3
  <1>5. at(line_end(i)) = "\n" => parse_line_comment(i) = line_end(i) + 1
    <2>1. at(line_end(i)) = "\n" => line_end(i) # Nul
      BY <1>1, CharFacts
    <2> QED BY <1>1, <1>2, <1>3, <2>1
  <1>6. line_end(i) = Nul \/ at(line_end(i)) = "\n"
    BY <1>1, <1>2
  <1> QED BY <1>1, <1>2, <1>3, <1>4, <1>5, <1>6

-----------------------------------------------------------------------------
(* What a place is in, step by step.                                       *)

LEMMA InLineNext ==
  ASSUME NEW i \in Nat \ {0}
  PROVE  /\ ~InLine(0)
         /\ InLine(i) <=> at(i) # "\n" /\ (at(i) = "#" \/ InLine(i - 1))
  <1>1. ~InLine(0)
    BY DEF InLine
  <1>2. ASSUME InLine(i)
        PROVE  at(i) # "\n" /\ (at(i) = "#" \/ InLine(i - 1))
    <2>1. PICK j \in 1..i : at(j) = "#" /\ \A k \in j..i : at(k) # "\n"
      BY <1>2 DEF InLine
    <2>2. at(i) # "\n"
      BY <2>1
    <2>3. CASE j = i
      BY <2>1, <2>2, <2>3
    <2>4. CASE j # i
      <3>1. j \in 1..i - 1 /\ \A k \in j..i - 1 : k \in j..i
        BY <2>4
      <3> QED BY <2>1, <2>2, <3>1 DEF InLine
    <2> QED BY <2>3, <2>4
  <1>3. ASSUME at(i) # "\n", at(i) = "#" PROVE InLine(i)
    <2>1. i \in 1..i /\ \A k \in i..i : k = i
      OBVIOUS
    <2> QED BY <1>3, <2>1 DEF InLine
  <1>4. ASSUME at(i) # "\n", InLine(i - 1) PROVE InLine(i)
    <2>1. PICK j \in 1..i - 1 : at(j) = "#" /\ \A k \in j..i - 1 : at(k) # "\n"
      BY <1>4 DEF InLine
    <2>2. j \in 1..i /\ \A k \in j..i : k \in j..i - 1 \/ k = i
      OBVIOUS
    <2> QED BY <1>4, <2>1, <2>2 DEF InLine
  <1> QED BY <1>1, <1>2, <1>3, <1>4

(* The places up to i with a bracket of some kind that is in no line       *)
(* comment, and how their number grows.                                    *)
Brackets(i, c) == {j \in 1..i : at(j) = c /\ ~InLine(j)}

LEMMA BracketsNext ==
  ASSUME NEW i \in Nat \ {0}, NEW c
  PROVE  /\ IsFiniteSet(Brackets(i, c)) /\ Cardinality(Brackets(i, c)) \in Nat
         /\ Cardinality(Brackets(0, c)) = 0
         /\ Cardinality(Brackets(i, c)) = Cardinality(Brackets(i - 1, c)) +
              (IF at(i) = c /\ ~InLine(i) THEN 1 ELSE 0)
  <1>1. \A n \in Nat : IsFiniteSet(Brackets(n, c)) /\ Cardinality(Brackets(n, c)) \in Nat
    <2> TAKE n \in Nat
    <2>1. Brackets(n, c) \subseteq 1..n
      BY DEF Brackets
    <2>2. IsFiniteSet(1..n)
      BY FS_Interval
    <2>3. IsFiniteSet(Brackets(n, c))
      BY <2>1, <2>2, FS_Subset
    <2> QED BY <2>3, FS_CardinalityType
  <1>2. Cardinality(Brackets(0, c)) = 0
    <2>1. Brackets(0, c) = {}
      BY DEF Brackets
    <2> QED BY <2>1, FS_EmptySet
  <1>3. CASE at(i) = c /\ ~InLine(i)
    <2>1. Brackets(i, c) = Brackets(i - 1, c) \union {i} /\ i \notin Brackets(i - 1, c)
      <3>1. \A j : j \in 1..i <=> j \in 1..i - 1 \/ j = i
        OBVIOUS
      <3>2. i \notin 1..i - 1
        OBVIOUS
      <3> QED BY <1>3, <3>1, <3>2 DEF Brackets
    <2>2. IsFiniteSet(Brackets(i - 1, c))
      <3>1. i - 1 \in Nat
        OBVIOUS
      <3> QED BY <1>1, <3>1
    <2>3. Cardinality(Brackets(i, c)) = Cardinality(Brackets(i - 1, c)) + 1
      BY <2>1, <2>2, FS_AddElement
    <2> QED BY <1>1, <1>2, <1>3, <2>3
  <1>4. CASE ~(at(i) = c /\ ~InLine(i))
    <2>1. Brackets(i, c) = Brackets(i - 1, c)
      <3>1. \A j : j \in 1..i <=> j \in 1..i - 1 \/ j = i
        OBVIOUS
      <3> QED BY <1>4, <3>1 DEF Brackets
    <2> QED BY <1>1, <1>2, <1>4, <2>1
  <1> QED BY <1>3, <1>4

LEMMA NestNext ==
  ASSUME NEW i \in Nat \ {0}
  PROVE  /\ Nest(0) = 0 /\ Nest(i) \in Int
         /\ Nest(i) = Nest(i - 1) + (IF InLine(i) THEN 0
                                     ELSE IF at(i) = "(" THEN 1
                                     ELSE IF at(i) = ")" THEN -1 ELSE 0)
  <1>1. \A n : Nest(n) = Cardinality(Brackets(n, "(")) - Cardinality(Brackets(n, ")"))
    BY DEF Nest, Brackets
  <1>2. \A c : Cardinality(Brackets(0, c)) = 0
    BY BracketsNext
  <1>3. i - 1 \in Nat
    OBVIOUS
  <1>4. \A c : \A n \in Nat : Cardinality(Brackets(n, c)) \in Nat
    <2> TAKE c
    <2> TAKE n \in Nat
    <2>1. CASE n = 0
      BY <1>2, <2>1
    <2>2. CASE n # 0
      BY <2>2, BracketsNext
    <2> QED BY <2>1, <2>2
  <1>5. \A c : Cardinality(Brackets(i, c)) = Cardinality(Brackets(i - 1, c)) +
              (IF at(i) = c /\ ~InLine(i) THEN 1 ELSE 0)
    BY BracketsNext
  <1>6. Nest(0) = 0 /\ Nest(i) \in Int
    BY <1>1, <1>2, <1>4
  <1> DEFINE o == Cardinality(Brackets(i - 1, "("))
             c == Cardinality(Brackets(i - 1, ")"))
  <1>7. /\ o \in Nat /\ c \in Nat /\ Nest(i - 1) = o - c
        /\ Nest(i) = (o + (IF at(i) = "(" /\ ~InLine(i) THEN 1 ELSE 0)) -
                     (c + (IF at(i) = ")" /\ ~InLine(i) THEN 1 ELSE 0))
    BY <1>1, <1>3, <1>4, <1>5
  <1> HIDE DEF o, c
  <1> QED BY <1>6, <1>7

LEMMA PlainStart == Plain(0) /\ \A i \in Nat : Nest(i) \in Int
  <1>1. Plain(0)
    BY InLineNext, NestNext DEF Plain
  <1>2. ASSUME NEW i \in Nat PROVE Nest(i) \in Int
    <2>1. CASE i = 0
      BY <2>1, NestNext
    <2>2. CASE i # 0
      BY <2>2, NestNext
    <2> QED BY <2>1, <2>2
  <1> QED BY <1>1, <1>2

(* From a plain place on.                                                  *)
LEMMA PlainNext ==
  ASSUME NEW i \in Nat \ {0}, Plain(i - 1)
  PROVE  /\ at(i) \notin {"(", ")", "#"} => Plain(i)
         /\ at(i) = "(" => Nest(i) = 1 /\ ~InLine(i)
         /\ at(i) = "#" => Nest(i) = 0 /\ InLine(i)
         /\ at(i) = ")" => Nest(i) = -1 /\ ~InLine(i)
  BY InLineNext, NestNext DEF Plain

-----------------------------------------------------------------------------
(* Comments.                                                               *)

(* From a line comment to behind it.                                       *)
LEMMA InLineComment ==
  ASSUME text \in Texts, NEW i \in 1..Nul, at(i) = "#"
  PROVE  /\ \A k \in i..line_end(i) - 1 : InLine(k) /\ Nest(k) = Nest(i - 1)
         /\ at(line_end(i)) = "\n" =>
              ~InLine(line_end(i)) /\ Nest(line_end(i)) = Nest(i - 1)
  <1> DEFINE e == line_end(i)
             T == {k \in i..e - 1 : ~(InLine(k) /\ Nest(k) = Nest(i - 1))}
  <1>1. /\ Nul \in Nat /\ e \in i + 1..Nul
        /\ \A k \in i..e - 1 : at(k) # "\n"
    BY TextFacts, LineEnds, LineComments
  <1> HIDE DEF e
  <1>2. InLine(i) /\ Nest(i) = Nest(i - 1)
    BY <1>1, InLineNext, NestNext, PlainStart
  <1>3. ASSUME NEW k \in i..e - 1 PROVE InLine(k) /\ Nest(k) = Nest(i - 1)
    <2> SUFFICES ASSUME k \in T PROVE FALSE
      OBVIOUS
    <2>1. T \in SUBSET Nat
      BY <1>1
    <2>2. PICK least \in T : \A m \in T : least <= m
      BY <2>1, LeastNumber
    <2>3. least \in i..e - 1 /\ least # i /\ ~(InLine(least) /\ Nest(least) = Nest(i - 1))
      BY <1>2, <2>2
    <2>4. least - 1 \in i..e - 1 /\ least - 1 \notin T /\ least \in Nat \ {0}
      BY <1>1, <2>1, <2>2, <2>3
    <2>5. InLine(least - 1) /\ Nest(least - 1) = Nest(i - 1)
      BY <2>4
    <2>6. InLine(least) /\ Nest(least) = Nest(least - 1)
      BY <1>1, <2>3, <2>4, <2>5, InLineNext, NestNext, PlainStart
    <2> QED BY <2>3, <2>5, <2>6
  <1>4. ASSUME at(e) = "\n" PROVE ~InLine(e) /\ Nest(e) = Nest(i - 1)
    <2>1. e \in Nat \ {0} /\ e - 1 \in i..e - 1 /\ e - 1 \in Nat
      BY <1>1
    <2>2. ~InLine(e)
      BY <1>4, <2>1, InLineNext
    <2>3. Nest(e) = Nest(e - 1)
      BY <1>4, <2>1, <2>2, NestNext, PlainStart
    <2> QED BY <1>3, <2>1, <2>2, <2>3
  <1> QED BY <1>3, <1>4 DEF e

(* The loop of parse_comment, over places and depths.                      *)
CommentPlaces == (1..Nul) \X Nat

CommentStops == {p \in CommentPlaces : p[2] = 0 \/ at(p[1]) = NUL}

CommentNext(j, nest) ==
  IF at(j) = "(" THEN <<j + 1, nest + 1>>
  ELSE IF at(j) = ")" THEN <<j + 1, nest - 1>>
  ELSE IF at(j) = "#" THEN <<parse_line_comment(j), nest>>
  ELSE <<j + 1, nest>>

CommentAt(f, at_nest) ==
  LET j == at_nest[1]
      nest == at_nest[2]
  IN  CASE nest = 0 \/ at(j) = NUL -> j
        [] nest > 0 /\ at(j) = "(" -> f[<<j + 1, nest + 1>>]
        [] nest > 0 /\ at(j) = ")" -> f[<<j + 1, nest - 1>>]
        [] nest > 0 /\ at(j) = "#" -> f[<<parse_line_comment(j), nest>>]
        [] OTHER -> f[<<j + 1, nest>>]

IsCommentEnd(f) == f = [at_nest \in (1..Nul) \X Nat |-> CommentAt(f, at_nest)]

LEMMA CommentBody ==
  ASSUME NEW f, NEW j, NEW nest \in Nat
  PROVE  (CASE nest = 0 \/ at(j) = NUL -> j
            [] nest > 0 /\ at(j) = "(" -> f[<<j + 1, nest + 1>>]
            [] nest > 0 /\ at(j) = ")" -> f[<<j + 1, nest - 1>>]
            [] nest > 0 /\ at(j) = "#" -> f[<<parse_line_comment(j), nest>>]
            [] OTHER -> f[<<j + 1, nest>>]) =
         IF nest = 0 \/ at(j) = NUL THEN j ELSE f[CommentNext(j, nest)]
  <1>1. CASE nest = 0 \/ at(j) = NUL
    BY <1>1, CharFacts
  <1>2. ASSUME nest > 0, at(j) # NUL
        PROVE  (CASE nest = 0 \/ at(j) = NUL -> j
                  [] nest > 0 /\ at(j) = "(" -> f[<<j + 1, nest + 1>>]
                  [] nest > 0 /\ at(j) = ")" -> f[<<j + 1, nest - 1>>]
                  [] nest > 0 /\ at(j) = "#" -> f[<<parse_line_comment(j), nest>>]
                  [] OTHER -> f[<<j + 1, nest>>]) = f[CommentNext(j, nest)]
    <2>1. CASE at(j) = "("
      BY <1>2, <2>1 DEF CommentNext
    <2>2. CASE at(j) = ")"
      BY <1>2, <2>2 DEF CommentNext
    <2>3. CASE at(j) = "#"
      BY <1>2, <2>3 DEF CommentNext
    <2>4. CASE at(j) \notin {"(", ")", "#"}
      BY <1>2, <2>4 DEF CommentNext
    <2> QED BY <2>1, <2>2, <2>3, <2>4
  <1>3. nest > 0 \/ nest = 0
    OBVIOUS
  <1> QED BY <1>1, <1>2, <1>3

LEMMA CommentStep ==
  ASSUME text \in Texts, NEW j \in 1..Nul, NEW nest \in Nat, nest # 0, at(j) # NUL
  PROVE  /\ CommentNext(j, nest) \in CommentPlaces
         /\ CommentNext(j, nest)[1] > j
  <1>1. Nul \in Nat /\ j + 1 \in 1..Nul /\ nest > 0
    BY TextFacts
  <1>2. at(j) = "#" => parse_line_comment(j) \in j + 1..Nul
    BY LineComments
  <1> QED BY <1>1, <1>2 DEF CommentNext, CommentPlaces

(* What is at the end of the comments that begin before each place.        *)
CommentEnd == CHOOSE f : IsCommentEnd(f)

LEMMA CommentUnfolds ==
  ASSUME text \in Texts
  PROVE  /\ \A i : parse_comment(i) = CommentEnd[<<i + 1, 1>>]
         /\ \A j \in 1..Nul, nest \in Nat :
              CommentEnd[<<j, nest>>] =
                IF nest = 0 \/ at(j) = NUL THEN j
                ELSE CommentEnd[CommentNext(j, nest)]
  <1> DEFINE D == CommentPlaces
             left == [p \in D |-> Nul - p[1]]
             val == [p \in D |-> p[1]]
             next == [p \in D |-> IF p \in CommentStops THEN p
                                  ELSE CommentNext(p[1], p[2])]
  <1>1. Nul \in Nat
    BY TextFacts
  <1>2. \A p \in D : /\ p[1] \in 1..Nul /\ p[2] \in Nat /\ p = <<p[1], p[2]>>
                     /\ (p \in CommentStops <=> p[2] = 0 \/ at(p[1]) = NUL)
    BY DEF CommentPlaces, CommentStops
  <1>3. left \in [D -> 0..Nul]
    BY <1>1, <1>2
  <1>4. \A p \in D \ CommentStops :
          CommentNext(p[1], p[2]) \in D /\ CommentNext(p[1], p[2])[1] > p[1]
    BY <1>2, CommentStep
  <1>5. next \in [D -> D]
    BY <1>4
  <1>6. ASSUME NEW p \in D \ CommentStops PROVE left[next[p]] < left[p]
    <2>1. next[p] = CommentNext(p[1], p[2]) /\ next[p] \in D /\ next[p][1] > p[1]
      BY <1>4
    <2>2. next[p][1] \in 1..Nul /\ p[1] \in 1..Nul
      BY <1>2, <2>1
    <2>3. left[next[p]] = Nul - next[p][1] /\ left[p] = Nul - p[1]
      BY <2>1
    <2> QED BY <1>1, <2>1, <2>2, <2>3
  <1> HIDE DEF left, val, next, D
  <1>7. PICK f : IsLoop(f, D, CommentStops, val, next)
    BY <1>1, <1>3, <1>5, <1>6, LoopExists
  <1>8. ASSUME NEW g, NEW p \in D
        PROVE  (IF p \in CommentStops THEN val[p] ELSE g[next[p]]) =
               CommentAt(g, p)
    <2>1. /\ p[2] \in Nat
          /\ p \in CommentStops <=> p[2] = 0 \/ at(p[1]) = NUL
          /\ val[p] = p[1]
          /\ p \notin CommentStops => next[p] = CommentNext(p[1], p[2])
      BY <1>2 DEF val, next, D
    <2> DEFINE j == p[1]
               nest == p[2]
    <2>2. nest \in Nat /\ (p \in CommentStops <=> nest = 0 \/ at(j) = NUL)
      BY <2>1
    <2>3. (IF p \in CommentStops THEN val[p] ELSE g[next[p]]) =
          IF nest = 0 \/ at(j) = NUL THEN j ELSE g[CommentNext(j, nest)]
      BY <2>1
    <2> HIDE DEF val, next
    <2>4. nest \in Nat
      BY <2>1
    <2> HIDE DEF j, nest
    <2> QED BY <2>3, <2>4, CommentBody DEF j, nest, CommentAt
  <1>9. IsCommentEnd(f)
    BY <1>7, <1>8 DEF IsLoop, IsCommentEnd, D, CommentPlaces
  <1>10. IsCommentEnd(CommentEnd)
    BY <1>9 DEF CommentEnd
  <1>11. \A i : parse_comment(i) = CommentEnd[<<i + 1, 1>>]
    BY DEF parse_comment, CommentEnd, IsCommentEnd, CommentAt
  <1>12. IsLoop(CommentEnd, D, CommentStops, val, next)
    <2> DEFINE e == CommentEnd
    <2>1. IsCommentEnd(e)
      BY <1>10
    <2> HIDE DEF e
    <2>2. e = [p \in D |-> IF p \in CommentStops THEN val[p] ELSE e[next[p]]]
      BY <1>8, <2>1 DEF IsCommentEnd, D, CommentPlaces
    <2> QED BY <2>2 DEF IsLoop, e
  <1>13. ASSUME NEW j \in 1..Nul, NEW nest \in Nat
         PROVE  CommentEnd[<<j, nest>>] =
                  IF nest = 0 \/ at(j) = NUL THEN j
                  ELSE CommentEnd[CommentNext(j, nest)]
    <2> DEFINE p == <<j, nest>>
    <2>1. p \in CommentPlaces /\ p[1] = j /\ p[2] = nest
      BY DEF CommentPlaces
    <2>2. p \in D /\ (p \in CommentStops <=> nest = 0 \/ at(j) = NUL)
      BY <2>1 DEF CommentStops, D
    <2>3. val[p] = j /\ (p \notin CommentStops => next[p] = CommentNext(j, nest))
      BY <2>1 DEF val, next, D
    <2> HIDE DEF p
    <2>4. CommentEnd[p] = IF p \in CommentStops THEN val[p] ELSE CommentEnd[next[p]]
      BY <1>12, <2>2 DEF IsLoop
    <2>5. CommentEnd[p] = IF nest = 0 \/ at(j) = NUL THEN j
                          ELSE CommentEnd[CommentNext(j, nest)]
      BY <2>2, <2>3, <2>4
    <2> QED BY <2>5 DEF p
  <1> QED BY <1>11, <1>13

LEMMA CommentBounds ==
  ASSUME text \in Texts
  PROVE  /\ \A j \in 1..Nul, nest \in Nat : CommentEnd[<<j, nest>>] \in j..Nul
         /\ \A i \in 1..Nul : at(i) = "(" => parse_comment(i) \in i + 1..Nul
  <1> DEFINE Bad == {j \in 1..Nul : \E nest \in Nat : CommentEnd[<<j, nest>>] \notin j..Nul}
  <1>1. Nul \in Nat
    BY TextFacts
  <1>2. Bad = {}
    <2> SUFFICES ASSUME Bad # {} PROVE FALSE
      OBVIOUS
    <2>1. Bad \in SUBSET (0..Nul)
      BY <1>1
    <2>2. PICK j \in Bad : \A m \in Bad : m <= j
      BY <1>1, <2>1, LastPlace
    <2>3. PICK nest \in Nat : CommentEnd[<<j, nest>>] \notin j..Nul
      BY <2>2
    <2>4. j \in 1..Nul
      BY <2>2
    <2>5. nest # 0 /\ at(j) # NUL /\ CommentEnd[<<j, nest>>] = CommentEnd[CommentNext(j, nest)]
      BY <1>1, <2>3, <2>4, CommentUnfolds
    <2>6. PICK m \in 1..Nul, deep \in Nat : CommentNext(j, nest) = <<m, deep>>
      BY <2>4, <2>5, CommentStep DEF CommentPlaces
    <2>7. m > j
      BY <2>4, <2>5, <2>6, CommentStep
    <2>8. m \notin Bad
      BY <1>1, <2>2, <2>4, <2>7
    <2>9. CommentEnd[<<m, deep>>] \in m..Nul
      BY <2>8
    <2> QED BY <1>1, <2>3, <2>4, <2>5, <2>6, <2>7, <2>9
  <1>3. ASSUME NEW i \in 1..Nul, at(i) = "("
        PROVE  parse_comment(i) \in i + 1..Nul
    <2>1. i + 1 \in 1..Nul
      BY <1>1, <1>3, TextFacts, CharFacts
    <2> QED BY <1>2, <2>1, CommentUnfolds
  <1> QED BY <1>2, <1>3

(* While the loop runs, it is as deep as the text is.                      *)
LEMMA CommentDepth ==
  ASSUME text \in Texts, NEW j \in 1..Nul, NEW nest \in Nat, nest # 0, at(j) # NUL,
         ~InLine(j - 1), Nest(j - 1) = nest
  PROVE  LET next == CommentNext(j, nest) IN
         /\ \A k \in j..next[1] - 1 : Nest(k - 1) > 0
         /\ next[1] = Nul \/ (~InLine(next[1] - 1) /\ Nest(next[1] - 1) = next[2])
  <1> DEFINE m == CommentNext(j, nest)[1]
             deep == CommentNext(j, nest)[2]
  <1> SUFFICES /\ \A k \in j..m - 1 : Nest(k - 1) > 0
               /\ m = Nul \/ (~InLine(m - 1) /\ Nest(m - 1) = deep)
    OBVIOUS
  <1>1. Nul \in Nat /\ j \in Nat \ {0}
    BY TextFacts
  <1>2. CASE at(j) = "#"
    <2> DEFINE e == line_end(j)
    <2>1. m = parse_line_comment(j) /\ deep = nest
      BY <1>2, CharFacts DEF CommentNext
    <2>2. /\ \A k \in j..e - 1 : Nest(k) = Nest(j - 1)
          /\ at(e) = "\n" => ~InLine(e) /\ Nest(e) = Nest(j - 1)
          /\ e \in j + 1..Nul
          /\ \/ at(e) = "\n" /\ m = e + 1
             \/ e = Nul /\ m = Nul
      BY <1>2, <2>1, InLineComment, LineComments
    <2> HIDE DEF e
    <2>3. ASSUME NEW k \in j..m - 1 PROVE Nest(k - 1) > 0
      <3>1. k = j \/ k - 1 \in j..e - 1
        BY <1>1, <2>2
      <3> QED BY <2>2, <3>1
    <2>4. m = Nul \/ (~InLine(m - 1) /\ Nest(m - 1) = deep)
      BY <2>1, <2>2
    <2> HIDE DEF m, deep
    <2> QED BY <2>3, <2>4
  <1>3. CASE at(j) # "#"
    <2>1. m = j + 1
      BY <1>3 DEF CommentNext
    <2>2. ~InLine(j)
      BY <1>1, <1>3, InLineNext
    <2>3. Nest(j) = deep
      BY <1>1, <1>3, <2>2, NestNext DEF CommentNext
    <2>4. \A k \in j..m - 1 : k = j
      BY <1>1, <2>1
    <2>5. m - 1 = j
      BY <1>1, <2>1
    <2> HIDE DEF m, deep
    <2> QED BY <2>2, <2>3, <2>4, <2>5
  <1> QED BY <1>2, <1>3

LEMMA CommentDepths ==
  ASSUME text \in Texts, NEW j \in 1..Nul, ~InLine(j - 1), Nest(j - 1) \in Nat
  PROVE  LET e == CommentEnd[<<j, Nest(j - 1)>>] IN
         /\ e \in j..Nul
         /\ e = Nul \/ Plain(e - 1)
         /\ \A k \in j..e - 1 : Nest(k - 1) > 0
  <1> DEFINE Good(i) ==
        ~InLine(i - 1) /\ Nest(i - 1) \in Nat =>
          LET e == CommentEnd[<<i, Nest(i - 1)>>] IN
          (e = Nul \/ Plain(e - 1)) /\ \A k \in i..e - 1 : Nest(k - 1) > 0
  <1> DEFINE Bad == {i \in 1..Nul : ~Good(i)}
  <1>1. Nul \in Nat
    BY TextFacts
  <1>2. Bad = {}
    <2> SUFFICES ASSUME Bad # {} PROVE FALSE
      OBVIOUS
    <2>1. Bad \in SUBSET (0..Nul)
      BY <1>1
    <2>2. PICK i \in Bad : \A m \in Bad : m <= i
      <3> HIDE DEF Bad
      <3> QED BY <1>1, <2>1, LastPlace
    <2>3. i \in 1..Nul /\ ~InLine(i - 1) /\ Nest(i - 1) \in Nat /\ ~Good(i)
      BY <2>2
    <2> DEFINE nest == Nest(i - 1)
               e == CommentEnd[<<i, nest>>]
    <2>4. CASE nest = 0 \/ at(i) = NUL
      <3>1. e = i
        BY <2>3, <2>4, CommentUnfolds
      <3>2. e = Nul \/ Plain(e - 1)
        <4>1. at(i) = NUL => i = Nul
          BY <2>3, TextFacts
        <4>2. nest = 0 => Plain(i - 1)
          BY <2>3 DEF Plain
        <4> HIDE DEF e, nest
        <4> QED BY <2>4, <3>1, <4>1, <4>2
      <3>3. i..e - 1 = {}
        BY <2>3, <3>1
      <3> QED BY <2>3, <3>2, <3>3
    <2>5. CASE nest # 0 /\ at(i) # NUL
      <3>1. e = CommentEnd[CommentNext(i, nest)]
        BY <2>3, <2>5, CommentUnfolds
      <3>2. PICK m \in 1..Nul, deep \in Nat : CommentNext(i, nest) = <<m, deep>>
        BY <2>3, <2>5, CommentStep DEF CommentPlaces
      <3>3. m > i
        BY <2>3, <2>5, <3>2, CommentStep
      <3>4. /\ \A k \in i..m - 1 : Nest(k - 1) > 0
            /\ m = Nul \/ (~InLine(m - 1) /\ Nest(m - 1) = deep)
        <4>1. /\ i \in 1..Nul /\ nest \in Nat /\ nest # 0 /\ at(i) # NUL
              /\ ~InLine(i - 1) /\ Nest(i - 1) = nest
          BY <2>3, <2>5
        <4> HIDE DEF nest, e, Bad, Good
        <4>2. /\ \A k \in i..CommentNext(i, nest)[1] - 1 : Nest(k - 1) > 0
              /\ \/ CommentNext(i, nest)[1] = Nul
                 \/ /\ ~InLine(CommentNext(i, nest)[1] - 1)
                    /\ Nest(CommentNext(i, nest)[1] - 1) = CommentNext(i, nest)[2]
          BY <4>1, CommentDepth
        <4>3. CommentNext(i, nest)[1] = m /\ CommentNext(i, nest)[2] = deep
          BY <3>2
        <4> QED BY <4>2, <4>3
      <3>5. e = CommentEnd[<<m, deep>>] /\ e \in m..Nul
        <4>1. CommentEnd[<<m, deep>>] \in m..Nul
          BY CommentBounds
        <4>2. e = CommentEnd[<<m, deep>>]
          BY <3>1, <3>2, Zenon
        <4> QED BY <4>1, <4>2
      <3>6. CASE m = Nul
        <4>1. e = Nul /\ \A k \in i..e - 1 : k \in i..m - 1
          BY <1>1, <3>5, <3>6
        <4> QED BY <2>3, <3>4, <4>1
      <3>7. CASE ~InLine(m - 1) /\ Nest(m - 1) = deep
        <4>1. Good(m)
          BY <1>1, <2>2, <2>3, <3>3
        <4>2. (e = Nul \/ Plain(e - 1)) /\ \A k \in m..e - 1 : Nest(k - 1) > 0
          BY <3>5, <3>7, <4>1
        <4>3. \A k \in i..e - 1 : k \in i..m - 1 \/ k \in m..e - 1
          BY <1>1, <2>3, <3>3, <3>5
        <4> QED BY <2>3, <3>4, <4>2, <4>3
      <3> QED BY <3>4, <3>6, <3>7
    <2> QED BY <2>4, <2>5
  <1> QED BY <1>2, CommentBounds

LEMMA Comments ==
  ASSUME text \in Texts, NEW i \in 1..Nul, at(i) = "(", Plain(i - 1)
  PROVE  /\ parse_comment(i) \in i + 1..Nul
         /\ parse_comment(i) = Nul \/ Plain(parse_comment(i) - 1)
         /\ \A k \in i..parse_comment(i) - 1 : ~(Plain(k) /\ Plain(k - 1))
  <1>1. Nul \in Nat /\ i + 1 \in 1..Nul /\ i \in Nat \ {0} /\ (i + 1) - 1 = i
    BY TextFacts, CharFacts
  <1>2. Nest(i) = 1 /\ ~InLine(i)
    BY <1>1, PlainNext
  <1>3. parse_comment(i) = CommentEnd[<<i + 1, Nest((i + 1) - 1)>>]
    BY <1>1, <1>2, CommentUnfolds
  <1>4. /\ parse_comment(i) \in i + 1..Nul
        /\ parse_comment(i) = Nul \/ Plain(parse_comment(i) - 1)
        /\ \A k \in i + 1..parse_comment(i) - 1 : Nest(k - 1) > 0
    BY <1>1, <1>2, <1>3, CommentDepths
  <1>5. ASSUME NEW k \in i..parse_comment(i) - 1 PROVE ~(Plain(k) /\ Plain(k - 1))
    <2>1. CASE k = i
      BY <1>2, <2>1 DEF Plain
    <2>2. CASE k # i
      <3>1. k \in i + 1..parse_comment(i) - 1
        BY <1>1, <1>4, <2>2
      <3>2. Nest(k - 1) > 0
        BY <1>4, <3>1
      <3> QED BY <3>2 DEF Plain
    <2> QED BY <2>1, <2>2
  <1> QED BY <1>4, <1>5

-----------------------------------------------------------------------------
(* Empty space.                                                            *)

(* Where parse_empty goes on, and where to.                                *)
Blank(j) == at(j) = "#" \/ at(j) = "(" \/ (isspace(at(j)) /\ ~is_indent(j))

EmptyNext(j) ==
  IF at(j) = "#" THEN parse_line_comment(j)
  ELSE IF at(j) = "(" THEN parse_comment(j) ELSE j + 1

EmptyAt(f, j) ==
  CASE at(j) = "#" -> f[parse_line_comment(j)]
    [] at(j) = "(" -> f[parse_comment(j)]
    [] isspace(at(j)) /\ ~is_indent(j) -> f[j + 1]
    [] OTHER -> j

IsEmptyEnd(f) == f = [j \in 1..Nul |-> EmptyAt(f, j)]

EmptyEnd == CHOOSE f : IsEmptyEnd(f)

LEMMA EmptyBody ==
  ASSUME NEW f, NEW j
  PROVE  EmptyAt(f, j) = IF Blank(j) THEN f[EmptyNext(j)] ELSE j
  <1>1. CASE at(j) = "#"
    BY <1>1, CharFacts DEF EmptyAt, Blank, EmptyNext
  <1>2. CASE at(j) = "("
    BY <1>2, CharFacts DEF EmptyAt, Blank, EmptyNext
  <1>3. CASE at(j) \notin {"#", "("}
    BY <1>3 DEF EmptyAt, Blank, EmptyNext
  <1> QED BY <1>1, <1>2, <1>3

LEMMA EmptyStep ==
  ASSUME text \in Texts, NEW j \in 1..Nul, Blank(j)
  PROVE  EmptyNext(j) \in j + 1..Nul
  <1>1. Nul \in Nat /\ (at(j) # NUL => j + 1 \in 1..Nul)
    BY TextFacts
  <1>2. at(j) # NUL
    BY CharFacts DEF Blank
  <1>3. at(j) = "#" => parse_line_comment(j) \in j + 1..Nul
    BY LineComments
  <1>4. at(j) = "(" => parse_comment(j) \in j + 1..Nul
    BY CommentBounds
  <1> QED BY <1>1, <1>2, <1>3, <1>4 DEF EmptyNext

LEMMA EmptyUnfolds ==
  ASSUME text \in Texts
  PROVE  /\ \A i : parse_empty(i) = EmptyEnd[i]
         /\ \A j \in 1..Nul :
              EmptyEnd[j] = IF Blank(j) THEN EmptyEnd[EmptyNext(j)] ELSE j
  <1> DEFINE D == 1..Nul
             left == [j \in D |-> Nul - j]
             stop == {j \in D : ~Blank(j)}
             val == [j \in D |-> j]
             next == [j \in D |-> IF j \in stop THEN j ELSE EmptyNext(j)]
  <1>1. Nul \in Nat
    BY TextFacts
  <1>2. left \in [D -> 0..Nul]
    BY <1>1
  <1>3. \A j \in D \ stop : EmptyNext(j) \in D /\ EmptyNext(j) > j
    BY <1>1, EmptyStep
  <1>4. next \in [D -> D]
    BY <1>3
  <1>5. ASSUME NEW j \in D \ stop PROVE left[next[j]] < left[j]
    <2>1. next[j] = EmptyNext(j) /\ next[j] \in D /\ next[j] > j
      BY <1>3
    <2>2. left[next[j]] = Nul - next[j] /\ left[j] = Nul - j
      BY <2>1
    <2> QED BY <1>1, <2>1, <2>2
  <1>6. \A j \in D : /\ j \in stop <=> ~Blank(j)
                     /\ val[j] = j
                     /\ j \notin stop => next[j] = EmptyNext(j)
    OBVIOUS
  <1> HIDE DEF left, stop, val, next
  <1>7. PICK f : IsLoop(f, D, stop, val, next)
    BY <1>1, <1>2, <1>4, <1>5, LoopExists
  <1>8. \A g : \A j \in D : EmptyAt(g, j) = IF j \in stop THEN val[j] ELSE g[next[j]]
    BY <1>6, EmptyBody
  <1>9. IsEmptyEnd(f)
    BY <1>7, <1>8 DEF IsLoop, IsEmptyEnd
  <1>10. IsEmptyEnd(EmptyEnd)
    BY <1>9 DEF EmptyEnd
  <1>11. \A i : parse_empty(i) = EmptyEnd[i]
    BY DEF parse_empty, EmptyEnd, IsEmptyEnd, EmptyAt
  <1>12. ASSUME NEW j \in 1..Nul
         PROVE  EmptyEnd[j] = IF Blank(j) THEN EmptyEnd[EmptyNext(j)] ELSE j
    <2> DEFINE e == EmptyEnd
    <2>1. e = [k \in 1..Nul |-> EmptyAt(e, k)]
      BY <1>10 DEF IsEmptyEnd
    <2> HIDE DEF e
    <2>2. e[j] = EmptyAt(e, j)
      BY <2>1
    <2>3. e[j] = IF Blank(j) THEN e[EmptyNext(j)] ELSE j
      BY <2>2, EmptyBody
    <2> QED BY <2>3 DEF e
  <1> QED BY <1>11, <1>12

(* No code is skipped, and no new line with code after it.                 *)
Skipped(k) == k \notin Code /\ (k \in NewLines => is_line_empty(k + 1))

(* A step of parse_empty from a plain place leads to another one.          *)
LEMMA EmptyGap ==
  ASSUME text \in Texts, NEW j \in 1..Nul, Blank(j), Plain(j - 1)
  PROVE  /\ EmptyNext(j) = Nul \/ Plain(EmptyNext(j) - 1)
         /\ \A k \in j..EmptyNext(j) - 1 : Skipped(k)
  <1> DEFINE m == EmptyNext(j)
  <1>1. Nul \in Nat /\ j \in Nat \ {0} /\ m \in j + 1..Nul
    BY TextFacts, EmptyStep
  <1>2. \A k : ~(Plain(k) /\ Plain(k - 1)) => Skipped(k)
    BY DEF Skipped, Code, NewLines
  <1>3. CASE at(j) = "("
    <2>1. m = parse_comment(j)
      BY <1>3, CharFacts DEF EmptyNext
    <2> HIDE DEF m
    <2> QED BY <1>2, <1>3, <2>1, Comments DEF m
  <1>4. CASE at(j) = "#"
    <2> DEFINE e == line_end(j)
    <2>1. m = parse_line_comment(j)
      BY <1>4 DEF EmptyNext
    <2>2. /\ \A k \in j..e - 1 : InLine(k)
          /\ at(e) = "\n" => ~InLine(e) /\ Nest(e) = Nest(j - 1)
          /\ e \in j + 1..Nul
          /\ \/ at(e) = "\n" /\ m = e + 1
             \/ e = Nul /\ m = Nul
      BY <1>4, <2>1, InLineComment, LineComments
    <2> HIDE DEF e, m
    <2>3. m = Nul \/ Plain(m - 1)
      <3>1. CASE m = e + 1 /\ at(e) = "\n"
        <4>1. m - 1 = e
          BY <1>1, <2>2, <3>1
        <4> QED BY <2>2, <3>1, <4>1 DEF Plain
      <3> QED BY <2>2, <3>1
    <2>4. ASSUME NEW k \in j..m - 1 PROVE Skipped(k)
      <3>1. CASE k \in j..e - 1
        BY <1>2, <2>2, <3>1 DEF Plain
      <3>2. CASE k \notin j..e - 1
        <4>1. k = e /\ k - 1 \in j..e - 1
          BY <1>1, <2>2, <3>2
        <4> QED BY <1>2, <2>2, <4>1 DEF Plain
      <3> QED BY <3>1, <3>2
    <2> QED BY <2>3, <2>4 DEF m
  <1>5. CASE at(j) \notin {"(", "#"}
    <2>1. m = j + 1 /\ isspace(at(j)) /\ ~is_indent(j)
      BY <1>5 DEF EmptyNext, Blank
    <2>2. at(j) \notin {"(", ")", "#"}
      BY <2>1, CharFacts
    <2>3. Plain(j)
      BY <1>1, <2>2, PlainNext
    <2>4. Skipped(j)
      BY <2>1 DEF Skipped, Code, NewLines, is_indent
    <2>5. m - 1 = j /\ \A k \in j..m - 1 : k = j
      BY <1>1, <2>1
    <2> HIDE DEF m
    <2> QED BY <2>3, <2>4, <2>5 DEF m
  <1> QED BY <1>3, <1>4, <1>5

LEMMA EmptyBounds ==
  ASSUME text \in Texts, NEW i \in 1..Nul
  PROVE  parse_empty(i) \in i..Nul /\ ~Blank(parse_empty(i))
  <1> DEFINE Good(j) == EmptyEnd[j] \in j..Nul /\ ~Blank(EmptyEnd[j])
             Bad == {j \in 1..Nul : ~Good(j)}
  <1>1. Nul \in Nat
    BY TextFacts
  <1>2. Bad = {}
    <2> SUFFICES ASSUME Bad # {} PROVE FALSE
      OBVIOUS
    <2>1. Bad \in SUBSET (0..Nul)
      BY <1>1
    <2>2. PICK j \in Bad : \A m \in Bad : m <= j
      <3> HIDE DEF Bad
      <3> QED BY <1>1, <2>1, LastPlace
    <2>3. j \in 1..Nul /\ ~Good(j)
      BY <2>2
    <2>4. Blank(j) /\ EmptyEnd[j] = EmptyEnd[EmptyNext(j)]
      BY <1>1, <2>3, EmptyUnfolds
    <2>5. EmptyNext(j) \in j + 1..Nul
      BY <2>3, <2>4, EmptyStep
    <2>6. Good(EmptyNext(j))
      BY <1>1, <2>2, <2>3, <2>5
    <2> QED BY <1>1, <2>3, <2>4, <2>5, <2>6
  <1> QED BY <1>2, EmptyUnfolds

LEMMA EmptyPlain ==
  ASSUME text \in Texts, NEW i \in 1..Nul, i = Nul \/ Plain(i - 1)
  PROVE  /\ parse_empty(i) = Nul \/ Plain(parse_empty(i) - 1)
         /\ \A k \in i..parse_empty(i) - 1 : Skipped(k)
  <1> DEFINE Good(j) == j = Nul \/ Plain(j - 1) =>
                          /\ EmptyEnd[j] = Nul \/ Plain(EmptyEnd[j] - 1)
                          /\ \A k \in j..EmptyEnd[j] - 1 : Skipped(k)
             Bad == {j \in 1..Nul : ~Good(j)}
  <1>1. Nul \in Nat /\ at(Nul) = NUL
    BY TextFacts
  <1>2. Bad = {}
    <2> SUFFICES ASSUME Bad # {} PROVE FALSE
      OBVIOUS
    <2>1. Bad \in SUBSET (0..Nul)
      BY <1>1
    <2>2. PICK j \in Bad : \A m \in Bad : m <= j
      <3> HIDE DEF Bad
      <3> QED BY <1>1, <2>1, LastPlace
    <2>3. j \in 1..Nul /\ ~Good(j) /\ (j = Nul \/ Plain(j - 1))
      BY <2>2
    <2>4. EmptyEnd[j] = j => Good(j)
      <3>1. \A k : k \notin j..j - 1
        BY <2>3
      <3> QED BY <2>3, <3>1
    <2>5. Blank(j) /\ EmptyEnd[j] = EmptyEnd[EmptyNext(j)]
      BY <2>3, <2>4, EmptyUnfolds
    <2>6. EmptyNext(j) \in j + 1..Nul /\ Plain(j - 1)
      <3>1. j # Nul
        BY <1>1, <2>5, CharFacts DEF Blank
      <3> QED BY <2>3, <2>5, <3>1, EmptyStep
    <2> DEFINE m == EmptyNext(j)
               e == EmptyEnd[m]
    <2>7. (m = Nul \/ Plain(m - 1)) /\ \A k \in j..m - 1 : Skipped(k)
      BY <2>3, <2>5, <2>6, EmptyGap
    <2>8. Good(m)
      BY <1>1, <2>2, <2>3, <2>6
    <2>9. (e = Nul \/ Plain(e - 1)) /\ \A k \in m..e - 1 : Skipped(k)
      BY <2>7, <2>8
    <2>10. e \in m..Nul
      BY <1>1, <2>6, EmptyBounds, EmptyUnfolds
    <2>11. \A k \in j..e - 1 : k \in j..m - 1 \/ k \in m..e - 1
      BY <1>1, <2>3, <2>6, <2>10
    <2>12. e = EmptyEnd[j]
      BY <2>5
    <2> HIDE DEF m, e
    <2> QED BY <2>3, <2>7, <2>9, <2>11, <2>12
  <1> QED BY <1>2, EmptyUnfolds

-----------------------------------------------------------------------------
(* Digits.                                                                 *)

LEMMA AsciiDomain == Len(Ascii) = 95 /\ DOMAIN Ascii = 1..95
  <1>1. Len(Ascii) = 95
    BY DEF Ascii
  <1>2. DOMAIN Ascii = 1..95
    BY DEF Ascii
  <1> QED BY <1>1, <1>2

Printed(c) == c \notin {"\t", "\n", "\r"} \union DOMAIN High

NotBefore(c, low) == \A m \in 1..low - 1 : Ascii[m] # c

ByteIn(c, low, high) == c \in DOMAIN Byte /\ Byte[c] \in 31 + low..31 + high

LEMMA AsciiByte ==
  ASSUME NEW c, NEW low \in Nat \ {0}, NEW n \in Nat, low <= n, n <= 95,
         c = Ascii[n],
         Printed(c), NotBefore(c, low)
  PROVE  ByteIn(c, low, n)
  <1> DEFINE I == {m \in 1..Len(Ascii) : Ascii[m] = c}
  <1>1. Len(Ascii) = 95 /\ DOMAIN Ascii = 1..95
    BY AsciiDomain
  <1>2. c \in DOMAIN Byte
    BY <1>1 DEF Byte, ToSet
  <1>3. n \in I /\ I \in SUBSET Nat
    BY <1>1
  <1>4. SelectInSeq(Ascii, LAMBDA d : d = c) = Min(I)
    BY <1>3 DEF SelectInSeq
  <1>5. Min(I) \in I /\ Min(I) <= n
    <2> HIDE DEF I
    <2> QED BY <1>3, MinIs
  <1>6. Min(I) \in low..n
    <2>1. Min(I) \in 1..95 /\ Ascii[Min(I)] = c
      BY <1>1, <1>5
    <2> HIDE DEF I
    <2>2. ~(Min(I) < low)
      BY <2>1 DEF NotBefore
    <2> QED BY <1>5, <2>1, <2>2
  <1>7. Byte[c] = 31 + SelectInSeq(Ascii, LAMBDA d : d = c)
    BY <1>2, Zenon DEF Byte, Printed
  <1> HIDE DEF I
  <1> QED BY <1>2, <1>4, <1>6, <1>7 DEF ByteIn

(* The characters that begin and end comments and lines are no digits.     *)
Special == {"(", ")", "#", "\n"}

LEMMA DigitsPlain ==
  ASSUME NEW c \in Special, NEW base \in 0..16
  PROVE  ~is_digit(c, base)
  <1>1. /\ Ascii[4] = "#" /\ Ascii[9] = "(" /\ Ascii[10] = ")" /\ Ascii[17] = "0"
        /\ Ascii[34] = "A" /\ Ascii[66] = "a"
        /\ Ascii[26] = "9" /\ Ascii[39] = "F" /\ Ascii[71] = "f"
        /\ Len(Ascii) = 95
    BY DEF Ascii
  <1> DEFINE Beyond == {"0", "A", "a"}
  <1>2. /\ Ascii[1] \notin Beyond /\ Ascii[2] \notin Beyond /\ Ascii[3] \notin Beyond
        /\ Ascii[4] \notin Beyond /\ Ascii[5] \notin Beyond /\ Ascii[6] \notin Beyond
        /\ Ascii[7] \notin Beyond /\ Ascii[8] \notin Beyond /\ Ascii[9] \notin Beyond
        /\ Ascii[10] \notin Beyond
    BY DEF Ascii
  <1>3. \A m \in 1..11 - 1 : \/ m = 1 \/ m = 2 \/ m = 3 \/ m = 4 \/ m = 5
                             \/ m = 6 \/ m = 7 \/ m = 8 \/ m = 9 \/ m = 10
    OBVIOUS
  <1>4. NotBefore("0", 11) /\ NotBefore("A", 11) /\ NotBefore("a", 11)
    BY <1>2, <1>3, Zenon DEF NotBefore
  <1>5. \A d : NotBefore(d, 1)
    BY DEF NotBefore
  <1>6. /\ Printed("#") /\ Printed("(") /\ Printed(")")
        /\ Printed("0") /\ Printed("A") /\ Printed("a")
        /\ Printed("9") /\ Printed("F") /\ Printed("f")
    BY DEF High, Printed
  <1> HIDE DEF Ascii
  <1>7. \A d \in {"#", "(", ")"} : d \in DOMAIN Byte /\ Byte[d] \in 32..41
    <2>1. ByteIn("#", 1, 4)
      BY <1>1, <1>5, <1>6, AsciiByte
    <2>2. ByteIn("(", 1, 9)
      <3>1. 1 \in Nat \ {0} /\ 9 \in Nat /\ 1 <= 9 /\ 9 <= 95
        OBVIOUS
      <3> QED BY <1>1, <1>5, <1>6, <3>1, AsciiByte, Zenon
    <2>3. ByteIn(")", 1, 10)
      BY <1>1, <1>5, <1>6, AsciiByte
    <2> QED BY <2>1, <2>2, <2>3 DEF ByteIn
  <1>8. Byte["0"] \in 42..48 /\ Byte["A"] \in 42..65 /\ Byte["a"] \in 42..97
    <2>1. ByteIn("0", 11, 17)
      BY <1>1, <1>4, <1>6, AsciiByte
    <2>2. ByteIn("A", 11, 34)
      BY <1>1, <1>4, <1>6, AsciiByte
    <2>3. ByteIn("a", 11, 66)
      BY <1>1, <1>4, <1>6, AsciiByte
    <2> QED BY <2>1, <2>2, <2>3 DEF ByteIn
  <1>9. Byte["9"] \in Int /\ Byte["F"] \in Int /\ Byte["f"] \in Int
    <2>1. ByteIn("9", 1, 26)
      BY <1>1, <1>5, <1>6, AsciiByte
    <2>2. ByteIn("F", 1, 39)
      BY <1>1, <1>5, <1>6, AsciiByte
    <2>3. ByteIn("f", 1, 71)
      BY <1>1, <1>5, <1>6, AsciiByte
    <2> QED BY <2>1, <2>2, <2>3 DEF ByteIn
  <1>10. c \in DOMAIN Byte /\ Byte[c] \in 0..41
    <2>1. "\n" \in DOMAIN Byte /\ Byte["\n"] = 10
      BY DEF Byte, High
    <2> QED BY <1>7, <2>1 DEF Special
  <1>11. Digit[c] = 16
    BY <1>8, <1>9, <1>10 DEF Digit
  <1> QED BY <1>11 DEF is_digit

-----------------------------------------------------------------------------
(* Numbers and words.                                                      *)

(* From i up to j, no comment and no line begins or ends.                  *)
Clear(i, j) == \A k \in i..j - 1 : at(k) \notin Special

LEMMA Clears ==
  ASSUME NEW i \in Int, NEW j \in Int, NEW k \in Int, Clear(i, j), Clear(j, k)
  PROVE  Clear(i, k)
  <1>1. \A m \in i..k - 1 : m \in i..j - 1 \/ m \in j..k - 1
    OBVIOUS
  <1> QED BY <1>1 DEF Clear

LEMMA ClearOne ==
  ASSUME NEW i \in Int, at(i) \notin Special
  PROVE  Clear(i, i + 1)
  <1>1. \A m \in i..(i + 1) - 1 : m = i
    OBVIOUS
  <1> QED BY <1>1 DEF Clear

LEMMA SpecialFacts ==
  /\ \A c \in Special : is_delim(c)
  /\ Special \intersect {"-", "0", "x", "X", "b", "B", ".", NUL} = {}
  BY CharFacts DEF Special, NUL

LEMMA Words ==
  ASSUME text \in Texts, NEW i \in 1..Nul, at(i) # NUL
  PROVE  /\ get_word_len(i) \in Int /\ i + get_word_len(i) \in i + 1..Nul
         /\ Clear(i + 1, i + get_word_len(i))
         /\ \A k \in i + 1..i + get_word_len(i) - 1 : ~is_delim(at(k))
  <1> DEFINE T == {j \in i + 1..Nul : is_delim(at(j))}
  <1>1. Nul \in Nat /\ i + 1 \in 1..Nul /\ is_delim(at(Nul))
    BY TextFacts, CharFacts
  <1>2. get_word_len(i) = Min(T) - i
    BY DEF get_word_len, First
  <1>3. T \in SUBSET (i + 1..Nul) /\ Nul \in T
    BY <1>1
  <1>4. \A k \in i + 1..Nul : k \notin T => ~is_delim(at(k))
    OBVIOUS
  <1> HIDE DEF T
  <1>5. Min(T) \in i + 1..Nul /\ \A j \in i + 1..Min(T) - 1 : j \notin T
    BY <1>1, <1>3, FirstPlace
  <1>6. get_word_len(i) \in Int /\ i + get_word_len(i) = Min(T)
    BY <1>1, <1>2, <1>5
  <1>7. \A k \in i + 1..Min(T) - 1 : ~is_delim(at(k))
    BY <1>1, <1>4, <1>5
  <1>8. Clear(i + 1, Min(T))
    BY <1>7, SpecialFacts DEF Clear
  <1> QED BY <1>5, <1>6, <1>7, <1>8

(* Where the digits from a place on end.                                   *)
DigitsEnd(start, base) == First(start, LAMBDA j : ~is_digit(at(j), base))

LEMMA DigitRun ==
  ASSUME text \in Texts, NEW start \in 1..Nul, NEW base \in 0..16
  PROVE  DigitsEnd(start, base) \in start..Nul /\ Clear(start, DigitsEnd(start, base))
  <1> DEFINE T == {j \in start..Nul : ~is_digit(at(j), base)}
  <1>1. Nul \in Nat /\ at(Nul) = NUL
    BY TextFacts
  <1>2. DigitsEnd(start, base) = Min(T)
    BY DEF First, DigitsEnd
  <1>3. T \in SUBSET (start..Nul) /\ Nul \in T
    BY <1>1 DEF is_digit
  <1>4. \A k \in start..Nul : k \notin T => at(k) \notin Special
    BY DigitsPlain
  <1> HIDE DEF T
  <1>5. Min(T) \in start..Nul /\ \A j \in start..Min(T) - 1 : j \notin T
    BY <1>1, <1>3, FirstPlace
  <1>6. Clear(start, Min(T))
    BY <1>1, <1>4, <1>5 DEF Clear
  <1> QED BY <1>2, <1>5, <1>6

(* A token that begins at a place and ends behind it, before the NUL.      *)
IsToken(token, i) == token.src = i /\ token.end \in i + 1..Nul

(* An error takes the rest of the word.                                    *)
LEMMA WordRest ==
  ASSUME text \in Texts, NEW i \in Int, NEW end \in 1..Nul, i <= end, Clear(i, end),
         ~is_delim(at(end))
  PROVE  /\ end + get_word_len(end) \in end + 1..Nul
         /\ Clear(i, end + get_word_len(end))
  <1>1. end + get_word_len(end) \in end + 1..Nul /\ Clear(end + 1, end + get_word_len(end))
    BY Words, CharFacts
  <1>2. Clear(end, end + 1)
    BY ClearOne, SpecialFacts
  <1>3. Nul \in Nat
    BY TextFacts
  <1>4. Clear(i, end + 1)
    BY <1>2, <1>3, Clears
  <1> QED BY <1>1, <1>3, <1>4, Clears

LEMMA Radix ==
  ASSUME text \in Texts, NEW i \in 1..Nul, NEW base \in {2, 16},
         skip(i, "-") + 2 \in i + 2..Nul
  PROVE  /\ IsToken(parse_radix(i, base), i)
         /\ parse_radix(i, base).type \in {"int", "error"}
         /\ Clear(i, skip(i, "-") + 2) => Clear(i, parse_radix(i, base).end)
  <1> DEFINE start == skip(i, "-") + 2
             end == DigitsEnd(start, base)
             token == parse_radix(i, base)
             inum == number(start, end, base)
             value == IF at(i) = "-" THEN Long(-inum) ELSE inum
  <1>1. Nul \in Nat /\ start \in i + 2..Nul
    BY TextFacts
  <1>2. end \in start..Nul /\ Clear(start, end)
    <2> HIDE DEF start
    <2>1. start \in 1..Nul /\ base \in 0..16
      BY <1>1
    <2> QED BY <1>1, <2>1, DigitRun
  <1>3. token = CASE at(start) = NUL -> tag_token("error", i, start)
                  [] at(start) # NUL /\ ~is_delim(at(end)) ->
                       tag_token("error", i, end + get_word_len(end))
                  [] OTHER -> tag_int(i, end, value)
    BY DEF parse_radix, DigitsEnd
  <1> HIDE DEF start, end, token, value
  <1>4. CASE at(start) = NUL
    <2>1. token = tag_token("error", i, start)
      BY <1>3, <1>4
    <2> QED BY <1>1, <2>1 DEF tag_token, IsToken, start, token
  <1>5. CASE at(start) # NUL /\ ~is_delim(at(end))
    <2>1. token = tag_token("error", i, end + get_word_len(end))
      BY <1>3, <1>5
    <2>2. end + get_word_len(end) \in end + 1..Nul
      BY <1>1, <1>2, <1>5, WordRest DEF Clear
    <2>3. Clear(i, start) => Clear(i, end + get_word_len(end))
      BY <1>1, <1>2, <1>5, Clears, WordRest
    <2> QED BY <1>1, <1>2, <2>1, <2>2, <2>3 DEF tag_token, IsToken, start, token
  <1>6. CASE at(start) # NUL /\ is_delim(at(end))
    <2>1. token = tag_int(i, end, value)
      BY <1>3, <1>6
    <2>2. Clear(i, start) => Clear(i, end)
      BY <1>1, <1>2, Clears
    <2> QED BY <1>1, <1>2, <2>1, <2>2 DEF tag_int, IsToken, start, token
  <1> QED BY <1>4, <1>5, <1>6

LEMMA Skips ==
  ASSUME text \in Texts, NEW i \in 1..Nul, NEW c, c # NUL
  PROVE  /\ skip(i, c) \in i..Nul
         /\ at(i) = c => skip(i, c) = i + 1 /\ i + 1 \in 1..Nul
         /\ at(i) # c => skip(i, c) = i
  BY TextFacts DEF skip

LEMMA SignClear ==
  ASSUME text \in Texts, NEW i \in 1..Nul
  PROVE  Clear(i, skip(i, "-"))
  <1>1. CASE at(i) = "-"
    <2>1. skip(i, "-") = i + 1
      BY <1>1 DEF skip
    <2> QED BY <1>1, <2>1, ClearOne, SpecialFacts
  <1>2. CASE at(i) # "-"
    <2>1. skip(i, "-") = i
      BY <1>2 DEF skip
    <2> QED BY <2>1 DEF Clear
  <1> QED BY <1>1, <1>2

DecimalEnd(start) == First(start, LAMBDA j : at(j) # "." /\ ~is_digit(at(j), 10))

LEMMA DecimalRun ==
  ASSUME text \in Texts, NEW start \in 1..Nul
  PROVE  /\ DecimalEnd(start) \in start..Nul
         /\ Clear(start, DecimalEnd(start))
         /\ at(start) = "." \/ is_digit(at(start), 10) => DecimalEnd(start) > start
  <1> DEFINE T == {j \in start..Nul : at(j) # "." /\ ~is_digit(at(j), 10)}
  <1>1. Nul \in Nat /\ at(Nul) = NUL
    BY TextFacts
  <1>2. DecimalEnd(start) = Min(T)
    BY DEF First, DecimalEnd
  <1>3. T \in SUBSET (start..Nul) /\ Nul \in T
    <2>1. NUL # "."
      BY DEF NUL
    <2> QED BY <1>1, <2>1 DEF is_digit
  <1>4. /\ \A k \in start..Nul : k \notin T => at(k) \notin Special
        /\ at(start) = "." \/ is_digit(at(start), 10) => start \notin T
    BY DigitsPlain, SpecialFacts
  <1> HIDE DEF T
  <1>5. Min(T) \in start..Nul /\ Min(T) \in T /\ \A j \in start..Min(T) - 1 : j \notin T
    BY <1>1, <1>3, FirstPlace
  <1>6. Clear(start, Min(T))
    BY <1>1, <1>4, <1>5 DEF Clear
  <1>7. start \notin T => Min(T) > start
    BY <1>1, <1>5
  <1> QED BY <1>2, <1>4, <1>5, <1>6, <1>7

LEMMA Decimal ==
  ASSUME text \in Texts, NEW i \in 1..Nul, is_decimal(i)
  PROVE  /\ IsToken(parse_decimal(i), i)
         /\ parse_decimal(i).type \in {"int", "float", "error"}
         /\ Clear(i, parse_decimal(i).end)
  <1> DEFINE start == skip(i, "-")
             end == DecimalEnd(start)
             dots == {j \in start..end - 1 : at(j) = "."}
             dot == IF dots = {} THEN end ELSE Min(dots)
             bad == IF Cardinality(dots) > 1 THEN Min(dots \ {dot}) ELSE end
             inum == number(start, dot, 10)
             place == end - dot - 1
             fnum == inum * power(10, place) + number(dot + 1, end, 10)
             sign == IF at(i) = "-" THEN -1 ELSE 1
             token == parse_decimal(i)
  <1>1. Nul \in Nat /\ start \in i..Nul /\ Clear(i, start)
    BY TextFacts, Skips, SignClear, CharFacts
  <1>2. at(start) = "." \/ is_digit(at(start), 10)
    BY DEF is_decimal, skip
  <1>3. end \in start..Nul /\ Clear(start, end) /\ end > start
    <2> HIDE DEF start
    <2>1. start \in 1..Nul
      BY <1>1
    <2> QED BY <1>2, <2>1, DecimalRun
  <1>4. Clear(i, end)
    BY <1>1, <1>3, Clears
  <1>5. token = CASE bad # end \/ ~is_delim(at(end)) ->
                       tag_token("error", i, bad + get_word_len(bad))
                  [] bad = end /\ is_delim(at(end)) /\ dots = {} ->
                       tag_int(i, end, Long(sign * inum))
                  [] OTHER -> tag_float(i, end, sign * fnum, place)
    BY DEF parse_decimal, DecimalEnd
  <1>6. bad = end \/ bad \in start..end - 1
    <2>1. ASSUME Cardinality(dots) > 1 PROVE dots \ {dot} # {}
      <3>1. Cardinality({}) = 0 /\ Cardinality({dot}) = 1
        <4> HIDE DEF dot
        <4> QED BY FS_EmptySet, FS_Singleton
      <3> SUFFICES ASSUME dots \subseteq {dot} PROVE FALSE
        OBVIOUS
      <3>2. dots = {} \/ dots = {dot}
        <4> HIDE DEF dots, dot
        <4> QED OBVIOUS
      <3> HIDE DEF dots, dot
      <3> QED BY <2>1, <3>1, <3>2
    <2>2. dots \ {dot} \in SUBSET Nat /\ dots \ {dot} \subseteq start..end - 1
      BY <1>1, <1>3
    <2> HIDE DEF dots, dot
    <2> QED BY <2>1, <2>2, MinIs
  <1> HIDE DEF start, end, dots, dot, bad, inum, place, fnum, sign, token
  <1>7. CASE bad = end /\ is_delim(at(end))
    <2>1. \/ token = tag_int(i, end, Long(sign * inum))
          \/ token = tag_float(i, end, sign * fnum, place)
      BY <1>5, <1>7
    <2> QED BY <1>1, <1>3, <1>4, <2>1 DEF tag_int, tag_float, IsToken, token
  <1>8. CASE bad # end \/ ~is_delim(at(end))
    <2>1. token = tag_token("error", i, bad + get_word_len(bad))
      BY <1>5, <1>8
    <2>2. bad \in 1..Nul /\ i <= bad /\ Clear(i, bad) /\ at(bad) # NUL
      <3>1. CASE bad = end
        BY <1>1, <1>3, <1>4, <1>8, <3>1, CharFacts
      <3>2. CASE bad \in start..end - 1
        BY <1>1, <1>3, <1>4, <3>2, TextFacts DEF Clear
      <3> QED BY <1>6, <3>1, <3>2
    <2>3. bad + get_word_len(bad) \in bad + 1..Nul /\ Clear(bad + 1, bad + get_word_len(bad))
      BY <2>2, Words
    <2>4. Clear(bad, bad + 1)
      <3>1. CASE bad = end
        BY <1>8, <2>2, <3>1, ClearOne, SpecialFacts
      <3>2. CASE bad \in start..end - 1
        BY <1>3, <2>2, <3>2, ClearOne DEF Clear
      <3> QED BY <1>6, <3>1, <3>2
    <2>5. Clear(i, bad + 1)
      BY <1>1, <2>2, <2>4, Clears
    <2>6. Clear(i, bad + get_word_len(bad))
      BY <1>1, <2>2, <2>3, <2>5, Clears
    <2> QED BY <1>1, <2>1, <2>2, <2>3, <2>6 DEF tag_token, IsToken, token
  <1> QED BY <1>7, <1>8 DEF token

-----------------------------------------------------------------------------
(* Characters.                                                             *)

LEMMA Widest ==
  ASSUME NEW wide, wide \subseteq 2..4, wide # {}
  PROVE  Max(wide) \in wide
  <1>1. \E x \in wide : \A y \in wide : x >= y
    <2>1. CASE 4 \in wide
      BY <2>1
    <2>2. CASE 4 \notin wide /\ 3 \in wide
      BY <2>2
    <2>3. CASE 4 \notin wide /\ 3 \notin wide
      <3>1. \A y \in wide : y = 2
        BY <2>3
      <3>2. 2 \in wide
        BY <3>1
      <3> QED BY <3>1, <3>2
    <2> QED BY <2>1, <2>2, <2>3
  <1> QED BY <1>1 DEF Max

LEMMA Widths ==
  ASSUME NEW s
  PROVE  \E n \in 1..4 : /\ char_get_utf8_width(s) \in {n, -n}
                         /\ \A k \in 1..n - 1 : s[k + 1] # {}
  <1> DEFINE wide == {width \in 2..4 : s[1] \intersect Mask[width] = Lead[width]}
             width == Max(wide)
             M == Malformed(s, width)
             w == char_get_utf8_width(s)
  <1>1. w = CASE wide = {} -> IF 7 \in s[1] THEN -1 ELSE 1
              [] wide # {} /\ M # {} -> -Min(M)
              [] OTHER -> IF width = 4 /\ Above(char_read_n(s, 4), WEFT_CHAR_MAX)
                          THEN -4 ELSE width
    BY DEF char_get_utf8_width
  <1>2. wide # {} => width \in 2..4
    <2>1. wide \subseteq 2..4
      OBVIOUS
    <2> HIDE DEF wide
    <2> QED BY <2>1, Widest
  <1>3. /\ M \subseteq 1..width
        /\ \A k \in 1..width : k \notin M /\ k < width => s[k + 1] # {}
    BY DEF Malformed
  <1> HIDE DEF wide, width, M, w
  <1>4. CASE wide = {}
    <2>1. w \in {1, -1} /\ \A k \in 1..1 - 1 : s[k + 1] # {}
      BY <1>1, <1>4
    <2> QED BY <2>1 DEF w
  <1>5. CASE wide # {} /\ M # {}
    <2>1. M \in SUBSET Nat
      BY <1>2, <1>3, <1>5
    <2>2. Min(M) \in M /\ \A m \in M : Min(M) <= m
      BY <1>5, <2>1, MinIs
    <2>3. Min(M) \in 1..4 /\ w \in {Min(M), -Min(M)}
      BY <1>1, <1>2, <1>3, <1>5, <2>2
    <2>4. ASSUME NEW k \in 1..Min(M) - 1 PROVE s[k + 1] # {}
      <3>1. k \notin M /\ k \in 1..width /\ k < width
        BY <1>2, <1>3, <1>5, <2>2, <2>3
      <3> QED BY <1>3, <3>1
    <2> QED BY <2>3, <2>4 DEF w
  <1>6. CASE wide # {} /\ M = {}
    <2>1. width \in 2..4 /\ w \in {width, -width}
      BY <1>1, <1>2, <1>6
    <2>2. \A k \in 1..width - 1 : k \in 1..width /\ k < width
      BY <2>1
    <2> QED BY <1>3, <1>6, <2>1, <2>2 DEF w
  <1> QED BY <1>4, <1>5, <1>6

(* A character that is read ends before the NUL, and so does an error.     *)
LEMMA Utf8 ==
  ASSUME text \in Texts, NEW i \in 1..Nul, at(i) # NUL
  PROVE  /\ IsToken(parse_utf8(i), i)
         /\ parse_utf8(i).type \in {"char", "error"}
         /\ {"src", "end"} \subseteq DOMAIN parse_utf8(i)
  <1> DEFINE s == <<word(i), word(i + 1), word(i + 2), word(i + 3)>>
             width == char_get_utf8_width(s)
             token == parse_utf8(i)
  <1>1. token = IF width < 0 THEN tag_token("error", i, i - width)
                ELSE tag_char(i, i + width, char_read_n(s, width))
    BY DEF parse_utf8
  <1>2. s[2] = word(i + 1) /\ s[3] = word(i + 2) /\ s[4] = word(i + 3)
    OBVIOUS
  <1> HIDE DEF s
  <1>3. PICK n \in 1..4 : width \in {n, -n} /\ \A k \in 1..n - 1 : s[k + 1] # {}
    BY Widths
  <1>4. \A j : at(j) = NUL => word(j) = {}
    BY DEF word
  <1>5. i + n \in i + 1..Nul
    <2>1. Nul \in Nat /\ i + 1 \in 1..Nul
          /\ \A j \in Nat \ {0} : at(j) # NUL => j + 1 <= Nul
      BY TextFacts
    <2>2. CASE n = 1
      BY <2>1, <2>2
    <2>3. CASE n = 2
      <3>1. s[1 + 1] # {}
        BY <1>3, <2>3
      <3> QED BY <1>2, <1>4, <2>1, <2>3, <3>1
    <2>4. CASE n = 3
      <3>1. s[2 + 1] # {}
        BY <1>3, <2>4
      <3> QED BY <1>2, <1>4, <2>1, <2>4, <3>1
    <2>5. CASE n = 4
      <3>1. s[3 + 1] # {}
        BY <1>3, <2>5
      <3> QED BY <1>2, <1>4, <2>1, <2>5, <3>1
    <2> QED BY <2>2, <2>3, <2>4, <2>5
  <1> HIDE DEF width, token
  <1>6. \/ token = tag_token("error", i, i + n)
        \/ token = tag_char(i, i + n, char_read_n(s, width))
    BY <1>1, <1>3
  <1> QED BY <1>5, <1>6 DEF tag_token, tag_char, IsToken, token

(* The text ends in a backslash.                                           *)
BackslashLast == Len(text) > 0 /\ at(Len(text)) = "\\"

LEMMA Bare ==
  ASSUME text \in Texts, NEW i \in 1..Nul, at(i) # NUL
  PROVE  LET token == parse_char_bare(i) IN
         /\ token.src = i /\ token.type \in {"char", "error"}
         /\ {"src", "end"} \subseteq DOMAIN token
         /\ token.end \in i + 1..Nul \/ (BackslashLast /\ token.end = Nul + 1)
  <1> DEFINE token == parse_char_bare(i)
  <1>1. /\ Nul = Len(text) + 1 /\ Len(text) \in Nat /\ i \in 1..Len(text)
        /\ \A j \in Nat \ {0} : at(j) # NUL => j + 1 <= Nul
    BY TextFacts
  <1>2. token = CASE at(i) = "\\" /\ is_hex_esc(i) -> parse_hex_esc(i)
                  [] at(i) = "\\" /\ is_dec_esc(i) -> parse_dec_esc(i)
                  [] at(i) = "\\" /\ ~is_hex_esc(i) /\ ~is_dec_esc(i) -> parse_char_esc(i)
                  [] OTHER -> parse_utf8(i)
    BY DEF parse_char_bare
  <1> HIDE DEF token
  <1>3. /\ parse_hex_esc(i).src = i /\ parse_hex_esc(i).type \in {"char", "error"}
        /\ parse_hex_esc(i).end \in i + 1..Nul
        /\ {"src", "end"} \subseteq DOMAIN parse_hex_esc(i)
    BY <1>1 DEF parse_hex_esc, tag_token
  <1>4. ASSUME is_dec_esc(i)
        PROVE  /\ parse_dec_esc(i).src = i /\ parse_dec_esc(i).type \in {"char", "error"}
               /\ parse_dec_esc(i).end \in i + 1..Nul
               /\ {"src", "end"} \subseteq DOMAIN parse_dec_esc(i)
    <2> DEFINE end == IF is_digit(at(i + 2), 10) THEN i + 3 ELSE i + 2
               inum == FoldLeft(LAMBDA n, c : 10 * n + Digit[c], Digit[at(i + 1)],
                                SubSeq(text, i + 1, end - 1))
    <2>1. parse_dec_esc(i) = IF inum > 255 THEN tag_token("error", i, end)
                             ELSE tag_char(i, end, Bits(inum))
      BY DEF parse_dec_esc
    <2>2. end \in i + 1..Nul
      BY <1>1, <1>4 DEF is_dec_esc, is_digit
    <2> HIDE DEF end, inum
    <2> QED BY <2>1, <2>2 DEF tag_token, tag_char
  <1>5. ASSUME at(i) = "\\"
        PROVE  /\ parse_char_esc(i).src = i /\ parse_char_esc(i).type = "char"
               /\ {"src", "end"} \subseteq DOMAIN parse_char_esc(i)
               /\ parse_char_esc(i).end = i + 2
               /\ i + 2 \in i + 1..Nul \/ (BackslashLast /\ i + 2 = Nul + 1)
    <2>1. i + 2 \in i + 1..Nul \/ (BackslashLast /\ i + 2 = Nul + 1)
      BY <1>1, <1>5 DEF BackslashLast
    <2> QED BY <2>1 DEF parse_char_esc, tag_char
  <1>6. /\ parse_utf8(i).src = i /\ parse_utf8(i).type \in {"char", "error"}
        /\ {"src", "end"} \subseteq DOMAIN parse_utf8(i)
        /\ parse_utf8(i).end \in i + 1..Nul
    BY Utf8 DEF IsToken
  <1>7. \/ token = parse_hex_esc(i)
        \/ token = parse_dec_esc(i) /\ is_dec_esc(i)
        \/ token = parse_char_esc(i) /\ at(i) = "\\"
        \/ token = parse_utf8(i)
    BY <1>2
  <1>8. /\ token.src = i /\ token.type \in {"char", "error"}
        /\ {"src", "end"} \subseteq DOMAIN token
        /\ token.end \in i + 1..Nul \/ (BackslashLast /\ token.end = Nul + 1)
    BY <1>3, <1>4, <1>5, <1>6, <1>7
  <1> QED BY <1>8 DEF token

(* get_char_len.                                                           *)
IsCharEnd(f, i) ==
  f = [j \in i..Nul |->
         CASE at(j) = "\\" -> IF at(j + 1) = NUL THEN Nul ELSE f[j + 2]
           [] at(j) = "'"  -> j + 1
           [] at(j) = NUL  -> j
           [] OTHER        -> f[j + 1]]

LEMMA CharEndUnfolds ==
  ASSUME text \in Texts, NEW i \in 1..Nul
  PROVE  \E f : char_end(i) = f[i] /\ IsCharEnd(f, i)
  <1> DEFINE D == i..Nul
             left == [j \in D |-> Nul - j]
             stop == {j \in D : at(j) \in {"'", NUL} \/ (at(j) = "\\" /\ at(j + 1) = NUL)}
             val == [j \in D |-> IF at(j) = "'" THEN j + 1 ELSE Nul]
             next == [j \in D |-> IF j \in stop THEN j
                                  ELSE IF at(j) = "\\" THEN j + 2 ELSE j + 1]
  <1>1. /\ Nul \in Nat /\ i \in Nat \ {0}
        /\ \A j \in D : at(j) = NUL <=> j = Nul
        /\ \A j \in D : at(j) # NUL => j + 1 \in D
    BY TextFacts
  <1>2. NUL # "'" /\ NUL # "\\"
    BY CharFacts
  <1>3. left \in [D -> 0..Nul]
    BY <1>1
  <1>4. \A j \in D \ stop : next[j] \in D /\ next[j] > j
    <2> TAKE j \in D \ stop
    <2>1. at(j) # NUL /\ j + 1 \in D
      BY <1>1
    <2>2. at(j) = "\\" => j + 1 # Nul /\ j + 2 \in D
      BY <1>1, <2>1
    <2> QED BY <2>1, <2>2
  <1>5. next \in [D -> D]
    BY <1>4
  <1>6. \A j \in D \ stop : left[next[j]] < left[j]
    <2> TAKE j \in D \ stop
    <2>1. left[next[j]] = Nul - next[j] /\ left[j] = Nul - j /\ next[j] > j /\ next[j] \in D
      BY <1>4
    <2> QED BY <1>1, <2>1
  <1>7. ASSUME NEW f, NEW j \in D
        PROVE  (CASE at(j) = "\\" -> IF at(j + 1) = NUL THEN Nul ELSE f[j + 2]
                  [] at(j) = "'"  -> j + 1
                  [] at(j) = NUL  -> j
                  [] OTHER        -> f[j + 1]) =
               IF j \in stop THEN val[j] ELSE f[next[j]]
    <2>1. CASE at(j) = "\\"
      BY <1>2, <2>1
    <2>2. CASE at(j) = "'"
      BY <1>2, <2>2
    <2>3. CASE at(j) = NUL
      BY <1>1, <1>2, <2>3
    <2>4. CASE at(j) \notin {"\\", "'", NUL}
      BY <2>4
    <2> QED BY <2>1, <2>2, <2>3, <2>4
  <1> HIDE DEF left, stop, val, next
  <1>8. PICK g : IsLoop(g, D, stop, val, next)
    BY <1>1, <1>3, <1>5, <1>6, LoopExists
  <1> DEFINE e == CHOOSE f : IsCharEnd(f, i)
  <1>9. IsCharEnd(g, i)
    BY <1>7, <1>8 DEF IsLoop, IsCharEnd
  <1>10. IsCharEnd(e, i)
    BY <1>9
  <1>11. char_end(i) = e[i]
    BY DEF char_end, IsCharEnd
  <1> QED BY <1>10, <1>11

LEMMA CharEnd ==
  ASSUME text \in Texts, NEW i \in 1..Nul, at(i) # NUL
  PROVE  char_end(i) \in i + 1..Nul
  <1> DEFINE D == i..Nul
  <1>1. /\ Nul \in Nat /\ i \in Nat /\ i \in D /\ i # Nul /\ D \in SUBSET (0..Nul)
        /\ \A j \in D : at(j) = NUL <=> j = Nul
        /\ \A j \in D : at(j) # NUL => j + 1 \in D
    BY TextFacts
  <1>2. PICK e : char_end(i) = e[i] /\ IsCharEnd(e, i)
    BY CharEndUnfolds
  <1> DEFINE Bad == {j \in D : ~(e[j] \in j..Nul /\ (j # Nul => e[j] > j))}
  <1>3. Bad = {}
    <2> SUFFICES ASSUME Bad # {} PROVE FALSE
      OBVIOUS
    <2>1. PICK j \in Bad : \A m \in Bad : m <= j
      <3>1. Bad \in SUBSET (0..Nul)
        BY <1>1
      <3> HIDE DEF Bad
      <3> QED BY <1>1, <3>1, LastPlace
    <2>2. e[j] = CASE at(j) = "\\" -> IF at(j + 1) = NUL THEN Nul ELSE e[j + 2]
                   [] at(j) = "'"  -> j + 1
                   [] at(j) = NUL  -> j
                   [] OTHER        -> e[j + 1]
      BY <1>2, <2>1 DEF IsCharEnd
    <2>3. j \in D /\ j \in Nat /\ ~(e[j] \in j..Nul /\ (j # Nul => e[j] > j))
      BY <1>1, <2>1
    <2>4. ASSUME NEW m \in D, m > j PROVE e[m] \in m..Nul
      <3>1. ~(m <= j)
        BY <1>1, <2>3, <2>4
      <3>2. m \notin Bad
        BY <2>1, <3>1
      <3> QED BY <2>4, <3>2
    <2> HIDE DEF Bad
    <2>5. CASE at(j) = "\\"
      <3>1. j + 1 \in D
        BY <1>1, <2>3, <2>5, CharFacts
      <3>2. CASE at(j + 1) = NUL
        BY <1>1, <2>2, <2>3, <2>5, <3>1, <3>2
      <3>3. CASE at(j + 1) # NUL
        <4>1. (j + 1) + 1 \in D /\ (j + 1) + 1 = j + 2
          BY <1>1, <2>3, <3>1, <3>3
        <4>2. e[j] = e[j + 2] /\ e[j + 2] \in j + 2..Nul
          BY <1>1, <2>2, <2>3, <2>4, <2>5, <3>3, <4>1
        <4> QED BY <1>1, <2>3, <4>2
      <3> QED BY <3>2, <3>3
    <2>6. CASE at(j) = "'"
      <3>1. j + 1 \in D
        BY <1>1, <2>3, <2>6, CharFacts
      <3>2. e[j] = j + 1
        BY <2>2, <2>6, CharFacts
      <3> QED BY <1>1, <2>3, <3>1, <3>2
    <2>7. CASE at(j) = NUL
      BY <1>1, <2>2, <2>3, <2>7, CharFacts
    <2>8. CASE at(j) \notin {"\\", "'", NUL}
      <3>1. j + 1 \in D
        BY <1>1, <2>3, <2>8
      <3>2. e[j] = e[j + 1] /\ e[j + 1] \in j + 1..Nul
        BY <1>1, <2>2, <2>3, <2>4, <2>8, <3>1
      <3> QED BY <1>1, <2>3, <3>2
    <2> QED BY <2>5, <2>6, <2>7, <2>8
  <1> QED BY <1>1, <1>2, <1>3

LEMMA Char ==
  ASSUME text \in Texts, NEW i \in 1..Nul, at(i) = "'"
  PROVE  LET token == parse_char(i) IN
         /\ token.src = i /\ token.type \in {"char", "error"}
         /\ token.end \in i + 1..Nul \/ (BackslashLast /\ token.end = Nul + 1)
  <1> DEFINE bare == parse_char_bare(i + 1)
             token == parse_char(i)
  <1>1. /\ Nul \in Nat /\ i + 1 \in 1..Nul /\ i \in Nat
        /\ \A j \in Nat \ {0} : at(j) # NUL => j \in 1..Nul - 1
    BY TextFacts, CharFacts
  <1>2. at(i + 1) # NUL =>
          /\ bare.type \in {"char", "error"} /\ {"src", "end"} \subseteq DOMAIN bare
          /\ bare.end \in i + 2..Nul \/ (BackslashLast /\ bare.end = Nul + 1)
    BY <1>1, Bare
  <1>3. token = CASE at(i + 1) = NUL -> tag_token("error", i, i + 1)
                  [] at(i + 1) # NUL /\ at(bare.end) = NUL -> tag_token("error", i, bare.end)
                  [] at(i + 1) # NUL /\ at(bare.end) \notin {NUL, "'"} ->
                       tag_token("error", i, char_end(bare.end))
                  [] OTHER -> [bare EXCEPT !.src = i, !.end = @ + 1]
    BY DEF parse_char
  <1> HIDE DEF bare, token
  <1>4. CASE at(i + 1) = NUL
    <2>1. token = tag_token("error", i, i + 1)
      BY <1>3, <1>4
    <2> QED BY <1>1, <2>1 DEF tag_token, token
  <1>5. CASE at(i + 1) # NUL /\ at(bare.end) = NUL
    <2>1. token = tag_token("error", i, bare.end)
      BY <1>3, <1>5
    <2> QED BY <1>1, <1>2, <1>5, <2>1 DEF tag_token, token
  <1>6. CASE at(i + 1) # NUL /\ at(bare.end) \notin {NUL, "'"}
    <2>1. token = tag_token("error", i, char_end(bare.end))
      BY <1>3, <1>6
    <2>2. bare.end \in i + 2..Nul
      BY <1>1, <1>2, <1>6
    <2>3. char_end(bare.end) \in bare.end + 1..Nul
      BY <1>1, <1>6, <2>2, CharEnd
    <2> QED BY <1>1, <2>1, <2>2, <2>3 DEF tag_token, token
  <1>7. CASE at(i + 1) # NUL /\ at(bare.end) = "'"
    <2>1. token = [bare EXCEPT !.src = i, !.end = @ + 1]
      BY <1>3, <1>7, CharFacts
    <2>2. bare.end \in i + 2..Nul - 1
      BY <1>1, <1>2, <1>7, CharFacts
    <2>3. token.src = i /\ token.end = bare.end + 1 /\ token.type = bare.type
      BY <1>2, <1>7, <2>1
    <2> QED BY <1>1, <1>2, <1>7, <2>2, <2>3 DEF token
  <1> QED BY <1>4, <1>5, <1>6, <1>7

-----------------------------------------------------------------------------
(* Tokens.                                                                 *)

LEMMA Kinds ==
  ASSUME NEW i
  PROVE  /\ kind(i) \in {"indent", "op", "binary", "hex", "decimal", "char", "str",
                         "shuffle", "word"}
         /\ kind(i) = "indent" <=> isspace(at(i))
         /\ kind(i) = "op" => at(i) \in op_list
         /\ kind(i) = "binary" => is_binary(i)
         /\ kind(i) = "hex" => is_hex(i)
         /\ kind(i) = "decimal" => is_decimal(i)
         /\ kind(i) = "char" => at(i) = "'"
         /\ kind(i) = "word" => at(i) # NUL
  BY Zenon DEF kind, op_list

LEMMA KindsOpen ==
  ASSUME NEW i
  PROVE  /\ kind(i) = "str" => at(i) = "\""
         /\ kind(i) = "shuffle" => at(i) = "{"
  BY Zenon DEF kind

(* An operator is one character, and not a special one.                    *)
LEMMA Ops ==
  ASSUME NEW c \in op_list
  PROVE  ~isspace(c) /\ c \notin Special
  BY Zenon DEF op_list, isspace, Special, NUL

LEMMA NumberPrefix ==
  ASSUME text \in Texts, NEW i \in 1..Nul
  PROVE  /\ is_binary(i) \/ is_hex(i) => skip(i, "-") + 2 \in i + 2..Nul
         /\ is_binary(i) \/ (is_hex(i) /\ at(skip(i, "-") + 2) # "X") =>
              Clear(i, skip(i, "-") + 2)
  <1> DEFINE j == skip(i, "-")
  <1>1. /\ Nul \in Nat
        /\ \A k \in Nat \ {0} : at(k) # NUL => k + 1 <= Nul
    BY TextFacts
  <1>2. j \in i..Nul
    BY Skips, CharFacts
  <1>3. \A c \in {"0", "b", "B", "x", "X"} : c # NUL
    BY DEF NUL
  <1>4. is_binary(i) <=> at(j) = "0" /\ at(j + 1) \in {"b", "B"}
    BY DEF is_binary
  <1>5. is_hex(i) <=> at(j) = "0" /\ (at(j + 1) = "x" \/ at(j + 2) = "X")
    BY DEF is_hex
  <1>6. Clear(i, j)
    BY SignClear
  <1> HIDE DEF j
  <1>7. is_binary(i) \/ is_hex(i) => j + 2 \in i + 2..Nul
    BY <1>1, <1>2, <1>3, <1>4, <1>5
  <1>8. ASSUME is_binary(i) \/ (is_hex(i) /\ at(j + 2) # "X")
        PROVE  Clear(i, j + 2)
    <2>1. at(j) = "0" /\ at(j + 1) \in {"b", "B", "x"}
      BY <1>4, <1>5, <1>8
    <2>2. Clear(j, j + 1) /\ Clear(j + 1, j + 2)
      <3>1. at(j) \notin Special /\ at(j + 1) \notin Special
        BY <2>1, SpecialFacts
      <3> QED BY <1>2, <3>1 DEF Clear
    <2>3. Clear(i, j + 1)
      BY <1>2, <1>6, <2>2, Clears
    <2> QED BY <1>2, <2>2, <2>3, Clears
  <1> QED BY <1>7, <1>8 DEF j

(* Only a character that ends in a backslash ends behind the NUL.          *)
LEMMA Scans ==
  ASSUME text \in Texts, NEW i \in 1..Nul, at(i) # NUL,
         kind(i) \notin {"indent", "str", "shuffle"}
  PROVE  /\ scan(i).src = i
         /\ scan(i).type \in {"op", "int", "float", "char", "word", "error"}
         /\ scan(i).end \in i + 1..Nul \/ (BackslashLast /\ scan(i).end = Nul + 1)
         /\ scan(i).type \in {"word", "op", "char"} => kind(i) = scan(i).type
         /\ kind(i) = "op" => scan(i).end = i + 1
         /\ kind(i) = "word" => scan(i).end = i + get_word_len(i)
         /\ /\ ~Blank(i) /\ at(i) # ")" /\ at(i) # "'"
            /\ is_hex(i) => at(skip(i, "-") + 2) # "X"
            => Clear(i, scan(i).end)
  <1>1. kind(i) \in {"op", "binary", "hex", "decimal", "char", "word"}
    BY Kinds
  <1>2. Nul \in Nat /\ i + 1 \in 1..Nul
    BY TextFacts
  <1>3. CASE kind(i) = "op"
    <2>1. scan(i) = tag_token("op", i, i + 1)
      BY <1>3 DEF scan
    <2>2. Clear(i, i + 1)
      BY <1>3, Kinds, Ops, ClearOne
    <2> QED BY <1>2, <1>3, <2>1, <2>2 DEF tag_token
  <1>4. CASE kind(i) = "binary"
    <2>1. scan(i) = parse_radix(i, 2)
      BY <1>4 DEF scan
    <2>2. skip(i, "-") + 2 \in i + 2..Nul /\ Clear(i, skip(i, "-") + 2)
      BY <1>4, Kinds, NumberPrefix
    <2>3. /\ IsToken(parse_radix(i, 2), i)
          /\ parse_radix(i, 2).type \in {"int", "error"}
          /\ Clear(i, parse_radix(i, 2).end)
      BY <2>2, Radix
    <2> QED BY <1>4, <2>1, <2>3 DEF IsToken
  <1>5. CASE kind(i) = "hex"
    <2>1. scan(i) = parse_radix(i, 16)
      BY <1>5 DEF scan
    <2>2. /\ is_hex(i) /\ skip(i, "-") + 2 \in i + 2..Nul
          /\ at(skip(i, "-") + 2) # "X" => Clear(i, skip(i, "-") + 2)
      BY <1>5, Kinds, NumberPrefix
    <2>3. /\ IsToken(parse_radix(i, 16), i)
          /\ parse_radix(i, 16).type \in {"int", "error"}
          /\ at(skip(i, "-") + 2) # "X" => Clear(i, parse_radix(i, 16).end)
      BY <2>2, Radix
    <2> QED BY <1>5, <2>1, <2>2, <2>3 DEF IsToken
  <1>6. CASE kind(i) = "decimal"
    <2>1. scan(i) = parse_decimal(i)
      BY <1>6 DEF scan
    <2>2. /\ IsToken(parse_decimal(i), i)
          /\ parse_decimal(i).type \in {"int", "float", "error"}
          /\ Clear(i, parse_decimal(i).end)
      BY <1>6, Kinds, Decimal
    <2> QED BY <1>6, <2>1, <2>2 DEF IsToken
  <1>7. CASE kind(i) = "char"
    <2>1. scan(i) = parse_char(i)
      BY <1>7 DEF scan
    <2>2. at(i) = "'"
      BY <1>7, Kinds
    <2> QED BY <1>7, <2>1, <2>2, Char
  <1>8. CASE kind(i) = "word"
    <2>1. scan(i) = tag_token("word", i, i + get_word_len(i))
      BY <1>8 DEF scan
    <2>2. i + get_word_len(i) \in i + 1..Nul /\ Clear(i + 1, i + get_word_len(i))
      BY Words
    <2>3. ~Blank(i) /\ at(i) # ")" => at(i) \notin Special
      <3>1. ~isspace(at(i))
        BY <1>8, Kinds
      <3> QED BY <3>1, CharFacts DEF Blank, Special
    <2>4. ~Blank(i) /\ at(i) # ")" => Clear(i, i + get_word_len(i))
      BY <1>2, <2>2, <2>3, ClearOne, Clears
    <2> QED BY <1>8, <2>1, <2>2, <2>4 DEF tag_token
  <1> QED BY <1>1, <1>3, <1>4, <1>5, <1>6, <1>7, <1>8

(* A member of a diagram.                                                  *)
LEMMA Members ==
  ASSUME text \in Texts, NEW i \in 1..Nul, at(i) # NUL
  PROVE  /\ IsToken(parse_shuffle_member(i), i)
         /\ Clear(i + 1, parse_shuffle_member(i).end)
  <1> DEFINE T == {j \in i + 1..Nul : is_delim(at(j)) \/ is_shuffle_pivot(j)}
  <1>1. Nul \in Nat /\ i + 1 \in 1..Nul /\ is_delim(at(Nul))
    BY TextFacts, CharFacts
  <1>2. get_shuffle_member_len(i) = Min(T) - i
    BY DEF get_shuffle_member_len, First
  <1>3. T \in SUBSET (i + 1..Nul) /\ Nul \in T
    BY <1>1
  <1>4. \A k \in i + 1..Nul : k \notin T => at(k) \notin Special
    BY SpecialFacts
  <1> HIDE DEF T
  <1>5. Min(T) \in i + 1..Nul /\ \A j \in i + 1..Min(T) - 1 : j \notin T
    BY <1>1, <1>3, FirstPlace
  <1>6. get_shuffle_member_len(i) \in Int /\ i + get_shuffle_member_len(i) = Min(T)
    BY <1>1, <1>2, <1>5
  <1>7. Clear(i + 1, Min(T))
    BY <1>1, <1>4, <1>5 DEF Clear
  <1>8. Clear(i + 1, i + 1)
    BY <1>1 DEF Clear
  <1>9. \/ parse_shuffle_member(i) = tag_token("error", i, i + 1)
        \/ parse_shuffle_member(i) = tag_token("shuffle", i, Min(T))
    BY <1>6, Zenon DEF parse_shuffle_member
  <1> QED BY <1>1, <1>5, <1>7, <1>8, <1>9 DEF tag_token, IsToken

-----------------------------------------------------------------------------
(* The type invariant.                                                     *)

LEMMA Appended ==
  ASSUME NEW s, s \in Seq(ToSet(s)), NEW e
  PROVE  /\ Len(s) \in Nat /\ DOMAIN s = 1..Len(s)
         /\ Append(s, e) \in Seq(ToSet(Append(s, e)))
         /\ Len(Append(s, e)) = Len(s) + 1
         /\ DOMAIN Append(s, e) = 1..Len(s) + 1
         /\ Append(s, e)[Len(s) + 1] = e
         /\ \A k \in 1..Len(s) : Append(s, e)[k] = s[k]
  <1> DEFINE S == ToSet(s) \union {e}
             t == Append(s, e)
  <1>1. Len(s) \in Nat /\ DOMAIN s = 1..Len(s) /\ s \in Seq(S)
    <2>1. s \in [1..Len(s) -> ToSet(s)] /\ Len(s) \in Nat
      BY LenProperties
    <2> QED BY <2>1
  <1>2. /\ t \in Seq(S) /\ Len(t) = Len(s) + 1
        /\ \A k \in 1..Len(s) : t[k] = s[k]
        /\ t[Len(s) + 1] = e
    BY <1>1, AppendProperties
  <1>3. Len(t) \in Nat /\ DOMAIN t = 1..Len(t) /\ t \in [1..Len(t) -> S]
    <2> HIDE DEF t, S
    <2> QED BY <1>2, LenProperties
  <1>4. t \in Seq(ToSet(t))
    <2> HIDE DEF t, S
    <2>1. t \in [1..Len(t) -> ToSet(t)]
      BY <1>3 DEF ToSet
    <2> QED BY <1>3, <2>1
  <1> QED BY <1>1, <1>2, <1>3, <1>4

(* The records, and that no output of a diagram is beyond its inputs.      *)
Records ==
  /\ "end" \in DOMAIN str
  /\ {"end", "in", "out"} \subseteq DOMAIN shuffle
  /\ shuffle.in \in Seq(ToSet(shuffle.in))
  /\ shuffle.out \in Seq(0..Len(shuffle.in) - 1)
  /\ pc = "in" => shuffle.out = <<>>

(* What the lexer stands before.                                           *)
AtCode ==
  /\ pc = "start" => src = 1 /\ tokens = <<>>
  /\ pc = "token" => ~Blank(src)
  /\ pc \in {"in", "out"} => ~Blank(shuffle.end)
  /\ pc = "done" => at(src) = NUL

TextInv == TypeOK /\ Records /\ AtCode

LEMMA TextInit ==
  ASSUME Init
  PROVE  TextInv
  <1>1. text \in Texts /\ signed \in BOOLEAN
    BY SignsAssumption DEF Init
  <1>2. Nul \in Nat /\ 1 \in 1..Nul
    BY <1>1, TextFacts
  <1>3. <<>> \in Seq(ToSet(<<>>)) /\ <<>> \in Seq(0..Len(<<>>) - 1) /\ DOMAIN <<>> = {}
    OBVIOUS
  <1>4. TypeOK
    BY <1>1, <1>2, <1>3 DEF Init, TypeOK
  <1>5. Records
    BY <1>3 DEF Init, Records
  <1>6. AtCode
    BY DEF Init, AtCode
  <1> QED BY <1>4, <1>5, <1>6 DEF TextInv

(* A text stays as it is, and so does what is said of it.                  *)
LEMMA TextStays ==
  ASSUME text' = text
  PROVE  /\ Nul' = Nul
         /\ \A i : at(i)' = at(i)
         /\ at(src)' = at(src')
         /\ Blank(src)' = Blank(src')
         /\ Blank(shuffle.end)' = Blank(shuffle'.end)
  <1>1. Nul' = Nul /\ (\A i : at(i)' = at(i)) /\ at(src)' = at(src')
    BY DEF Nul, at
  <1>2. Blank(src)' = Blank(src') /\ Blank(shuffle.end)' = Blank(shuffle'.end)
    BY DEF Blank, is_indent, is_line_empty, line_end, First, depth, Nul, at
  <1> QED BY <1>1, <1>2

(* Whatever the next token is, if it lies behind the last one.             *)
LEMMA TakeType ==
  ASSUME TypeOK, NEW token, Take(token), text' = text, signed' = signed,
         token.src \in src..Nul, token.end \in token.src..Nul
  PROVE  /\ TypeOK' /\ pc' = "token"
         /\ parse_empty(token.end) \in token.end..Nul
         /\ ~Blank(src')
  <1>1. Nul \in Nat /\ src \in 1..Nul /\ Nul' = Nul
    BY TextFacts, TextStays DEF TypeOK
  <1>2. token.end \in 1..Nul
    BY <1>1
  <1>3. parse_empty(token.end) \in token.end..Nul /\ ~Blank(parse_empty(token.end))
    BY <1>2, EmptyBounds DEF TypeOK
  <1>4. /\ Len(tokens) \in Nat /\ DOMAIN tokens = 1..Len(tokens)
        /\ tokens' \in Seq(ToSet(tokens')) /\ DOMAIN tokens' = 1..Len(tokens) + 1
        /\ tokens'[Len(tokens) + 1] = token
        /\ \A k \in 1..Len(tokens) : tokens'[k] = tokens[k]
    BY Appended DEF TypeOK, Take
  <1>5. src' \in token.end..Nul /\ src' \in 1..Nul /\ src <= src'
    BY <1>1, <1>3 DEF Take
  <1>6. ASSUME NEW k \in DOMAIN tokens'
        PROVE  /\ tokens'[k].src \in 1..src'
               /\ tokens'[k].end \in tokens'[k].src..src'
               /\ \A l \in DOMAIN tokens' : k < l => tokens'[k].end <= tokens'[l].src
    <2>1. CASE k = Len(tokens) + 1
      BY <1>1, <1>4, <1>5, <2>1
    <2>2. CASE k # Len(tokens) + 1
      <3>1. k \in DOMAIN tokens /\ tokens'[k] = tokens[k]
        BY <1>4, <2>2
      <3>2. tokens[k].src \in 1..src /\ tokens[k].end \in tokens[k].src..src
        BY <3>1 DEF TypeOK
      <3>3. ASSUME NEW l \in DOMAIN tokens', k < l
            PROVE  tokens[k].end <= tokens'[l].src
        <4>1. CASE l = Len(tokens) + 1
          BY <1>1, <1>4, <3>2, <4>1
        <4>2. CASE l # Len(tokens) + 1
          BY <1>4, <3>1, <3>3, <4>2 DEF TypeOK
        <4> QED BY <4>1, <4>2
      <3> QED BY <1>1, <1>5, <3>1, <3>2, <3>3
    <2> QED BY <2>1, <2>2
  <1>7. TypeOK'
    BY <1>1, <1>4, <1>5, <1>6 DEF TypeOK, Take
  <1> QED BY <1>3, <1>7 DEF Take

(* The token is taken whole.                                               *)
LEMMA TakeText ==
  ASSUME TextInv, NEW token, Take(token),
         UNCHANGED <<text, signed, shuffle, str>>,
         token.src \in src..Nul, token.end \in token.src..Nul
  PROVE  TextInv'
  <1>1. TypeOK' /\ pc' = "token" /\ ~Blank(src')
    BY TakeType DEF TextInv
  <1>2. Records'
    BY <1>1 DEF TextInv, Records
  <1>3. AtCode'
    BY <1>1, TextStays DEF AtCode
  <1> QED BY <1>1, <1>2, <1>3 DEF TextInv

LEMMA OverrunText ==
  ASSUME TextInv, Overrun
  PROVE  TextInv'
  <1>1. Nul' = Nul /\ text' = text
    BY TextStays DEF Overrun
  <1>2. TypeOK'
    BY <1>1 DEF TextInv, TypeOK, Overrun
  <1>3. Records' /\ AtCode'
    BY DEF TextInv, Records, AtCode, Overrun
  <1> QED BY <1>2, <1>3 DEF TextInv

LEMMA IndentText ==
  ASSUME TextInv, NEW i \in src..Nul, TakeIndent(i)
  PROVE  TextInv'
  <1>1. CASE IndentEnds(i) = {} /\ Overrun
    BY <1>1, OverrunText
  <1>2. CASE /\ IndentEnds(i) # {}
             /\ Take(tag_indent(i, Min(IndentEnds(i))))
             /\ UNCHANGED <<text, signed, shuffle, str>>
    <2> DEFINE token == tag_indent(i, Min(IndentEnds(i)))
    <2>1. Nul \in Nat /\ i \in 1..Nul /\ text \in Texts
      BY TextFacts DEF TextInv, TypeOK
    <2>2. Min(IndentEnds(i)) \in i..Nul
      <3>1. IndentEnds(i) \in SUBSET (i..Nul)
        BY DEF IndentEnds
      <3>2. i..Nul \in SUBSET Nat
        BY <2>1
      <3> QED BY <1>2, <2>1, <3>1, FirstPlace
    <2>3. token.src = i /\ token.end = Min(IndentEnds(i))
      BY DEF tag_indent
    <2>4. token.src \in src..Nul /\ token.end \in token.src..Nul
      BY <2>1, <2>2, <2>3
    <2> HIDE DEF token
    <2>5. Take(token) /\ UNCHANGED <<text, signed, shuffle, str>>
      BY <1>2 DEF token
    <2> QED BY <2>4, <2>5, TakeText
  <1> QED BY <1>1, <1>2 DEF TakeIndent

(* The outputs that one more member of a diagram adds to it.               *)
LEMMA Indexes ==
  ASSUME NEW in, in \in Seq(ToSet(in)), NEW member
  PROVE  SetToSeq(get_shuffle_member_index(in, member)) \in Seq(0..Len(in) - 1)
  <1> DEFINE S == get_shuffle_member_index(in, member)
             f == SetToSeq(S)
  <1>1. Len(in) \in Nat /\ DOMAIN in = 1..Len(in)
    BY LenProperties
  <1>2. S \subseteq 0..Len(in) - 1
    BY <1>1 DEF get_shuffle_member_index
  <1>3. IsFiniteSet(S)
    <2>1. IsFiniteSet(0..Len(in) - 1)
      BY <1>1, FS_Interval
    <2> HIDE DEF S
    <2> QED BY <1>2, <2>1, FS_Subset
  <1> HIDE DEF S
  <1>4. Cardinality(S) \in Nat /\ ExistsBijection(1..Cardinality(S), S)
    BY <1>3, FS_CardinalityType
  <1>5. \E g \in [1..Cardinality(S) -> S] : IsInjective(g)
    BY <1>4 DEF ExistsBijection, Bijection, Injection, IsInjective
  <1>6. f \in [1..Cardinality(S) -> S]
    BY <1>5 DEF SetToSeq
  <1>7. f \in Seq(0..Len(in) - 1)
    <2> HIDE DEF f
    <2>1. f \in [1..Cardinality(S) -> 0..Len(in) - 1]
      BY <1>2, <1>6
    <2> QED BY <1>4, <2>1
  <1> QED BY <1>7 DEF S

LEMMA MembersText ==
  ASSUME TextInv, pc \in {"in", "out"}, at(shuffle.end) # NUL
  PROVE  LET member == parse_shuffle_member(shuffle.end) IN
         /\ member.end \in shuffle.end + 1..Nul
         /\ parse_empty(member.end) \in member.end..Nul
         /\ parse_empty(member.end) \in src + 1..Nul
         /\ ~Blank(parse_empty(member.end))
  <1> DEFINE member == parse_shuffle_member(shuffle.end)
  <1>1. /\ Nul \in Nat /\ text \in Texts /\ src \in 1..Nul
        /\ shuffle.end \in src + 1..Nul /\ shuffle.end \in 1..Nul
    BY TextFacts DEF TextInv, TypeOK
  <1>2. member.end \in shuffle.end + 1..Nul
    BY <1>1, Members DEF IsToken
  <1> HIDE DEF member
  <1>3. parse_empty(member.end) \in member.end..Nul /\ ~Blank(parse_empty(member.end))
    BY <1>1, <1>2, EmptyBounds
  <1> QED BY <1>1, <1>2, <1>3 DEF member

LEMMA TextStep ==
  ASSUME TextInv, [Next]_vars
  PROVE  TextInv'
  <1>1. /\ Nul \in Nat /\ text \in Texts /\ src \in 1..Nul
        /\ \A i \in 1..Nul : at(i) # NUL => i + 1 \in 1..Nul
    BY TextFacts DEF TextInv, TypeOK
  <1>2. CASE Start
    <2>1. parse_empty(1) \in 1..Nul
      BY <1>1, EmptyBounds
    <2>2. src = 1
      BY <1>2 DEF Start, TextInv, AtCode
    <2> DEFINE i == IF is_line_empty(1) THEN parse_empty(1) ELSE 1
    <2>3. i \in src..Nul
      BY <1>1, <2>1, <2>2
    <2>4. TakeIndent(i)
      BY <1>2 DEF Start
    <2> HIDE DEF i
    <2> QED BY <2>3, <2>4, IndentText
  <1>3. CASE Indent
    <2>1. src \in src..Nul /\ TakeIndent(src)
      BY <1>1, <1>3 DEF Indent
    <2> QED BY <2>1, IndentText
  <1>4. CASE Scan
    <2>1. at(src) # NUL /\ kind(src) \notin {"indent", "str", "shuffle"}
      BY <1>4 DEF Scan
    <2> DEFINE token == scan(src)
    <2>2. token.src = src /\ token.end > src
      BY <1>1, <2>1, Scans
    <2>3. CASE token.end <= Nul /\ Take(token) /\ UNCHANGED <<text, signed, shuffle, str>>
      <3>1. token.src \in src..Nul /\ token.end \in token.src..Nul
        BY <1>1, <2>1, <2>3, Scans
      <3> HIDE DEF token
      <3> QED BY <2>3, <3>1, TakeText
    <2>4. CASE Overrun
      BY <2>4, OverrunText
    <2> QED BY <1>4, <2>3, <2>4 DEF Scan
  <1>5. CASE ReadBehind
    BY <1>5, OverrunText DEF ReadBehind
  <1>6. CASE Eof
    <2>1. Nul' = Nul /\ at(src)' = at(src') /\ text' = text
      BY <1>6, TextStays DEF Eof
    <2>2. TypeOK'
      BY <1>6, <2>1 DEF Eof, TextInv, TypeOK
    <2>3. Records' /\ AtCode'
      BY <1>6, <2>1 DEF Eof, TextInv, Records, AtCode
    <2> QED BY <2>2, <2>3 DEF TextInv
  <1>7. CASE OpenStr
    <2>1. at(src) # NUL
      BY <1>7, KindsOpen, BraceFacts, Zenon DEF OpenStr
    <2>2. src + 1 \in 1..Nul
      BY <1>1, <2>1
    <2>3. Nul' = Nul
      BY <1>7, TextStays DEF OpenStr
    <2>4. TypeOK'
      BY <1>1, <1>7, <2>2, <2>3 DEF OpenStr, TextInv, TypeOK
    <2>5. Records' /\ AtCode'
      BY <1>7 DEF OpenStr, TextInv, Records, AtCode
    <2> QED BY <2>4, <2>5 DEF TextInv
  <1>8. CASE InStr
    <2> DEFINE bare == parse_char_bare(str.end)
    <2>1. /\ pc = "str" /\ at(str.end) # NUL
          /\ \/ /\ bare.end <= Nul
                /\ \/ str' = [str EXCEPT !.end = bare.end]
                   \/ str' = [end  |-> bare.end,
                              buf  |-> push_char(str.buf, bare.cnum),
                              kept |-> str.kept \o
                                         [k \in 1..bare.end - bare.src |-> bare.src + k - 1]]
                /\ UNCHANGED <<text, signed, src, pc, tokens, shuffle>>
             \/ Overrun
      BY <1>8, Zenon DEF InStr
    <2>2. str.end \in src + 1..Nul
      BY <2>1 DEF TextInv, TypeOK
    <2>3. bare.end > str.end /\ bare.end \in Int
      BY <1>1, <2>1, <2>2, Bare
    <2> HIDE DEF bare
    <2>4. CASE Overrun
      BY <2>4, OverrunText
    <2>5. CASE /\ str'.end = bare.end /\ bare.end <= Nul /\ "end" \in DOMAIN str'
               /\ UNCHANGED <<text, signed, src, pc, tokens, shuffle>>
      <3>1. Nul' = Nul
        BY <2>5, TextStays
      <3>2. TypeOK'
        BY <1>1, <2>1, <2>2, <2>3, <2>5, <3>1 DEF TextInv, TypeOK
      <3>3. Records' /\ AtCode'
        BY <2>1, <2>5 DEF TextInv, Records, AtCode
      <3> QED BY <3>2, <3>3 DEF TextInv
    <2> QED BY <2>1, <2>4, <2>5 DEF TextInv, Records
  <1>9. CASE CloseStr
    <2> DEFINE token == tag_str(src, str.end + 1, str.buf)
    <2>1. /\ pc = "str" /\ at(str.end) # NUL
          /\ Take(token) /\ UNCHANGED <<text, signed, shuffle, str>>
      BY <1>9, BraceFacts, Zenon DEF CloseStr
    <2>2. str.end \in src + 1..Nul
      BY <2>1 DEF TextInv, TypeOK
    <2>3. token.src \in src..Nul /\ token.end \in token.src..Nul
      BY <1>1, <2>1, <2>2 DEF tag_str
    <2> HIDE DEF token
    <2> QED BY <2>1, <2>3, TakeText
  <1>10. CASE EofInStr
    <2> DEFINE token == tag_token("error", src, str.end)
    <2>1. str.end \in src + 1..Nul
      BY <1>10 DEF EofInStr, TextInv, TypeOK
    <2>2. token.src \in src..Nul /\ token.end \in token.src..Nul
      BY <1>1, <2>1 DEF tag_token
    <2>3. Take(token) /\ UNCHANGED <<text, signed, shuffle, str>>
      BY <1>10 DEF EofInStr
    <2> HIDE DEF token
    <2> QED BY <2>2, <2>3, TakeText
  <1>11. CASE OpenShuffle
    <2>1. at(src) # NUL
      BY <1>11, KindsOpen, BraceFacts, Zenon DEF OpenShuffle
    <2>2. src + 1 \in 1..Nul
      BY <1>1, <2>1
    <2>3. parse_empty(src + 1) \in src + 1..Nul /\ ~Blank(parse_empty(src + 1))
      BY <1>1, <2>2, EmptyBounds
    <2>4. Nul' = Nul /\ Blank(shuffle.end)' = Blank(shuffle'.end)
      BY <1>11, TextStays DEF OpenShuffle
    <2>5. TypeOK'
      BY <1>1, <1>11, <2>3, <2>4 DEF OpenShuffle, TextInv, TypeOK
    <2>6. Records'
      <3>1. <<>> \in Seq(ToSet(<<>>)) /\ <<>> \in Seq(0..Len(<<>>) - 1)
        OBVIOUS
      <3> QED BY <1>11, <3>1 DEF OpenShuffle, TextInv, Records
    <2>7. AtCode'
      BY <1>11, <2>3, <2>4 DEF OpenShuffle, AtCode
    <2> QED BY <2>5, <2>6, <2>7 DEF TextInv
  <1>12. CASE In
    <2> DEFINE member == parse_shuffle_member(shuffle.end)
    <2>1. /\ pc = "in" /\ at(shuffle.end) # NUL
          /\ shuffle' = [shuffle EXCEPT
               !.in = IF member.type = "shuffle" THEN Append(@, member) ELSE @,
               !.end = parse_empty(member.end)]
          /\ UNCHANGED <<text, signed, src, pc, tokens, str>>
      BY <1>12 DEF In
    <2>2. parse_empty(member.end) \in src + 1..Nul /\ ~Blank(parse_empty(member.end))
      BY <2>1, MembersText
    <2> HIDE DEF member
    <2>3. Nul' = Nul /\ Blank(shuffle.end)' = Blank(shuffle'.end)
      BY <2>1, TextStays
    <2>4. /\ shuffle'.end = parse_empty(member.end) /\ shuffle'.out = shuffle.out
          /\ shuffle'.in \in {shuffle.in, Append(shuffle.in, member)}
          /\ DOMAIN shuffle' = DOMAIN shuffle
      BY <2>1 DEF TextInv, Records
    <2>5. shuffle'.in \in Seq(ToSet(shuffle'.in))
      <3>1. Append(shuffle.in, member) \in Seq(ToSet(Append(shuffle.in, member)))
        BY Appended DEF TextInv, Records
      <3>2. CASE shuffle'.in = shuffle.in
        BY <3>2, Zenon DEF TextInv, Records
      <3>3. CASE shuffle'.in = Append(shuffle.in, member)
        BY <3>1, <3>3, Zenon
      <3> QED BY <2>4, <3>2, <3>3
    <2>6. shuffle'.out = <<>> /\ shuffle'.out \in Seq(0..Len(shuffle'.in) - 1)
      <3>1. <<>> \in Seq(0..Len(shuffle'.in) - 1)
        OBVIOUS
      <3>2. shuffle'.out = <<>>
        BY <2>1, <2>4 DEF TextInv, Records
      <3> QED BY <3>1, <3>2
    <2>7. TypeOK'
      BY <1>1, <2>1, <2>2, <2>3, <2>4 DEF TextInv, TypeOK
    <2>8. Records'
      BY <2>1, <2>4, <2>5, <2>6 DEF TextInv, Records
    <2>9. AtCode'
      BY <2>1, <2>2, <2>3, <2>4 DEF AtCode
    <2> QED BY <2>7, <2>8, <2>9 DEF TextInv
  <1>13. CASE Pivot
    <2>1. /\ pc = "in" /\ pc' = "out" /\ is_shuffle_pivot(shuffle.end)
          /\ shuffle' = [shuffle EXCEPT !.end = parse_empty(@ + 2)]
          /\ UNCHANGED <<text, signed, src, tokens, str>>
      BY <1>13 DEF Pivot
    <2>2. shuffle.end \in src + 1..Nul
      BY <2>1 DEF TextInv, TypeOK
    <2>3. shuffle.end + 2 \in shuffle.end..Nul
      BY <1>1, <2>1, <2>2, CharFacts DEF is_shuffle_pivot
    <2>4. parse_empty(shuffle.end + 2) \in src + 1..Nul /\ ~Blank(parse_empty(shuffle.end + 2))
      BY <1>1, <2>2, <2>3, EmptyBounds
    <2>5. Nul' = Nul /\ Blank(shuffle.end)' = Blank(shuffle'.end)
      BY <2>1, TextStays
    <2>6. /\ shuffle'.end = parse_empty(shuffle.end + 2)
          /\ shuffle'.out = shuffle.out /\ shuffle'.in = shuffle.in
          /\ DOMAIN shuffle' = DOMAIN shuffle
      BY <2>1 DEF TextInv, Records
    <2>7. TypeOK'
      BY <1>1, <2>1, <2>4, <2>5, <2>6 DEF TextInv, TypeOK
    <2>8. Records'
      BY <2>1, <2>6 DEF TextInv, Records
    <2>9. AtCode'
      BY <2>1, <2>4, <2>5, <2>6 DEF AtCode
    <2> QED BY <2>7, <2>8, <2>9 DEF TextInv
  <1>14. CASE Out
    <2> DEFINE member == parse_shuffle_member(shuffle.end)
               more == SetToSeq(get_shuffle_member_index(shuffle.in, member))
    <2>1. /\ pc = "out" /\ at(shuffle.end) # NUL
          /\ shuffle' = [shuffle EXCEPT
               !.out = IF member.type = "shuffle" THEN @ \o more ELSE @,
               !.end = parse_empty(member.end)]
          /\ UNCHANGED <<text, signed, src, pc, tokens, str>>
      BY <1>14, Zenon DEF Out
    <2>2. parse_empty(member.end) \in src + 1..Nul /\ ~Blank(parse_empty(member.end))
      BY <2>1, MembersText
    <2>3. more \in Seq(0..Len(shuffle.in) - 1)
      BY Indexes DEF TextInv, Records
    <2> HIDE DEF member, more
    <2>4. Nul' = Nul /\ Blank(shuffle.end)' = Blank(shuffle'.end)
      BY <2>1, TextStays
    <2>5. /\ shuffle'.end = parse_empty(member.end) /\ shuffle'.in = shuffle.in
          /\ shuffle'.out \in {shuffle.out, shuffle.out \o more}
          /\ DOMAIN shuffle' = DOMAIN shuffle
      BY <2>1 DEF TextInv, Records
    <2>6. shuffle'.out \in Seq(0..Len(shuffle'.in) - 1)
      <3>1. shuffle.out \in Seq(0..Len(shuffle.in) - 1)
        BY DEF TextInv, Records
      <3>2. shuffle.out \o more \in Seq(0..Len(shuffle.in) - 1)
        BY <2>3, <3>1, ConcatProperties
      <3> QED BY <2>5, <3>1, <3>2
    <2>7. TypeOK'
      BY <1>1, <2>1, <2>2, <2>4, <2>5 DEF TextInv, TypeOK
    <2>8. Records'
      BY <2>1, <2>5, <2>6 DEF TextInv, Records
    <2>9. AtCode'
      BY <2>1, <2>2, <2>4, <2>5 DEF AtCode
    <2> QED BY <2>7, <2>8, <2>9 DEF TextInv
  <1>15. CASE CloseShuffle
    <2> DEFINE token == tag_token("shuffle", src, shuffle.end + 1)
    <2>1. /\ pc = "out" /\ at(shuffle.end) # NUL
          /\ Take(token) /\ UNCHANGED <<text, signed, shuffle, str>>
      BY <1>15, BraceFacts, Zenon DEF CloseShuffle
    <2>2. shuffle.end \in src + 1..Nul
      BY <2>1 DEF TextInv, TypeOK
    <2>3. token.src \in src..Nul /\ token.end \in token.src..Nul
      BY <1>1, <2>1, <2>2 DEF tag_token
    <2> HIDE DEF token
    <2> QED BY <2>1, <2>3, TakeText
  <1>16. CASE EofInShuffle
    <2> DEFINE token == tag_token("error", src, shuffle.end)
    <2>1. shuffle.end \in src + 1..Nul
      BY <1>16 DEF EofInShuffle, TextInv, TypeOK
    <2>2. token.src \in src..Nul /\ token.end \in token.src..Nul
      BY <1>1, <2>1 DEF tag_token
    <2>3. Take(token) /\ UNCHANGED <<text, signed, shuffle, str>>
      BY <1>16 DEF EofInShuffle
    <2> HIDE DEF token
    <2> QED BY <2>2, <2>3, TakeText
  <1>17. CASE UNCHANGED vars
    <2>1. Nul' = Nul /\ at(src)' = at(src') /\ Blank(src)' = Blank(src')
          /\ Blank(shuffle.end)' = Blank(shuffle'.end)
      BY <1>17, TextStays DEF vars
    <2>2. TypeOK'
      BY <1>17, <2>1 DEF vars, TextInv, TypeOK
    <2>3. Records' /\ AtCode'
      BY <1>17, <2>1 DEF vars, TextInv, Records, AtCode
    <2> QED BY <2>2, <2>3 DEF TextInv
  <1> QED BY <1>2, <1>3, <1>4, <1>5, <1>6, <1>7, <1>8, <1>9, <1>10, <1>11, <1>12,
             <1>13, <1>14, <1>15, <1>16, <1>17, Zenon DEF Next, Stopped

THEOREM TextInvariant == Spec => []TextInv
  <1>1. Init => TextInv
    BY TextInit
  <1>2. TextInv /\ [Next]_vars => TextInv'
    BY TextStep
  <1> QED BY <1>1, <1>2, PTL DEF Spec

(* The lexer goes forward through the text, token by token, and never      *)
(* comes behind its end with the place it is at.                           *)
THEOREM LexerTypeOK == Spec => []TypeOK
  <1>1. TextInv => TypeOK
    BY DEF TextInv
  <1> QED BY <1>1, TextInvariant, PTL

(* No output of a diagram is beyond its inputs, in whatever text.          *)
THEOREM OutputsOfDiagrams == Spec => []OutputsAreInputs
  <1>1. TextInv => OutputsAreInputs
    <2> SUFFICES ASSUME TextInv, NEW i \in DOMAIN shuffle.out
                 PROVE  shuffle.out[i] < Len(shuffle.in)
      BY DEF OutputsAreInputs
    <2>1. Len(shuffle.in) \in Nat
      BY LenProperties DEF TextInv, Records
    <2>2. i \in 1..Len(shuffle.out)
      BY LenProperties DEF TextInv, Records
    <2>3. shuffle.out[i] \in 0..Len(shuffle.in) - 1
      BY <2>2, ElementOfSeq DEF TextInv, Records
    <2> QED BY <2>1, <2>3
  <1> QED BY <1>1, TextInvariant, PTL

-----------------------------------------------------------------------------
(* Indentations.                                                           *)

(* The brackets of some kind from i up to j.                               *)
Between(i, j, c) == {k \in i..j - 1 : at(k) = c}

LEMMA BetweenNext ==
  ASSUME NEW i \in Nat, NEW j \in Nat, i <= j, NEW c
  PROVE  /\ Cardinality(Between(i, i, c)) = 0
         /\ Cardinality(Between(i, j, c)) \in Nat
         /\ Cardinality(Between(i, j + 1, c)) =
              Cardinality(Between(i, j, c)) + (IF at(j) = c THEN 1 ELSE 0)
  <1>1. Between(i, i, c) = {}
    BY DEF Between
  <1>2. IsFiniteSet(Between(i, j, c))
    <2>1. IsFiniteSet(i..j - 1)
      BY FS_Interval
    <2> QED BY <2>1, FS_Subset DEF Between
  <1>3. Cardinality(Between(i, j, c)) \in Nat
    BY <1>2, FS_CardinalityType
  <1>4. \A k : k \in i..(j + 1) - 1 <=> k \in i..j - 1 \/ k = j
    OBVIOUS
  <1>5. CASE at(j) = c
    <2>1. Between(i, j + 1, c) = Between(i, j, c) \union {j} /\ j \notin Between(i, j, c)
      BY <1>4, <1>5 DEF Between
    <2>2. Cardinality(Between(i, j + 1, c)) = Cardinality(Between(i, j, c)) + 1
      BY <1>2, <2>1, FS_AddElement
    <2> QED BY <1>1, <1>3, <1>5, <2>2, FS_EmptySet
  <1>6. CASE at(j) # c
    <2>1. Between(i, j + 1, c) = Between(i, j, c)
      BY <1>4, <1>6 DEF Between
    <2> QED BY <1>1, <1>3, <1>6, <2>1, FS_EmptySet
  <1> QED BY <1>5, <1>6

LEMMA DepthNext ==
  ASSUME NEW i \in Nat, NEW j \in Nat, i <= j
  PROVE  /\ depth(i, i) = 0 /\ depth(i, j) \in Int
         /\ depth(i, j + 1) = depth(i, j) + (IF at(j) = "(" THEN 1
                                             ELSE IF at(j) = ")" THEN -1 ELSE 0)
  <1>1. \A k : depth(i, k) = Cardinality(Between(i, k, "(")) - Cardinality(Between(i, k, ")"))
    BY DEF depth, Between
  <1> DEFINE o == Cardinality(Between(i, j, "("))
             c == Cardinality(Between(i, j, ")"))
  <1>2. /\ o \in Nat /\ c \in Nat
        /\ Cardinality(Between(i, j + 1, "(")) = o + (IF at(j) = "(" THEN 1 ELSE 0)
        /\ Cardinality(Between(i, j + 1, ")")) = c + (IF at(j) = ")" THEN 1 ELSE 0)
        /\ Cardinality(Between(i, i, "(")) = 0 /\ Cardinality(Between(i, i, ")")) = 0
    BY BetweenNext
  <1>3. depth(i, i) = 0 /\ depth(i, j) = o - c
    BY <1>1, <1>2
  <1> HIDE DEF o, c
  <1> QED BY <1>1, <1>2, <1>3

(* Where no line comment begins, the depth is that of the text.            *)
LEMMA Depths ==
  ASSUME NEW i \in Nat \ {0}, NEW j \in Nat, i <= j, ~InLine(i - 1),
         \A k \in i..j - 1 : at(k) # "#"
  PROVE  /\ ~InLine(j - 1) /\ depth(i, j) \in Int
         /\ Nest(j - 1) = Nest(i - 1) + depth(i, j)
  <1> DEFINE Good(m) == ~InLine(m - 1) /\ Nest(m - 1) = Nest(i - 1) + depth(i, m)
             Bad == {m \in i..j : ~Good(m)}
  <1>1. Bad = {}
    <2> SUFFICES ASSUME Bad # {} PROVE FALSE
      OBVIOUS
    <2>1. Bad \in SUBSET Nat
      OBVIOUS
    <2>2. PICK m \in Bad : \A b \in Bad : m <= b
      <3> HIDE DEF Bad
      <3> QED BY <2>1, LeastNumber
    <2>3. m \in i..j /\ ~Good(m)
      BY <2>2
    <2>4. m # i
      <3>1. Nest(i - 1) \in Int
        BY PlainStart
      <3>2. Good(i)
        BY <3>1, DepthNext
      <3> QED BY <2>3, <3>2
    <2> DEFINE p == m - 1
    <2>5. p \in i..j - 1 /\ p + 1 = m
      BY <2>3, <2>4
    <2>6. Good(p)
      <3>1. p \notin Bad /\ p \in i..j
        BY <2>2, <2>3, <2>5
      <3> QED BY <3>1
    <2>7. ~InLine(p)
      BY <2>5, <2>6, InLineNext
    <2>8. depth(i, p + 1) = depth(i, p) + (IF at(p) = "(" THEN 1
                                           ELSE IF at(p) = ")" THEN -1 ELSE 0)
          /\ depth(i, p) \in Int
      BY <2>5, DepthNext
    <2>9. Nest(p) = Nest(p - 1) + (IF at(p) = "(" THEN 1
                                   ELSE IF at(p) = ")" THEN -1 ELSE 0)
          /\ Nest(p - 1) \in Int /\ Nest(i - 1) \in Int
      BY <2>5, <2>7, NestNext, PlainStart
    <2>10. Good(p + 1)
      <3>1. (p + 1) - 1 = p
        BY <2>5
      <3> QED BY <2>6, <2>7, <2>8, <2>9, <3>1
    <2> QED BY <2>3, <2>5, <2>10
  <1>2. Good(j)
    BY <1>1
  <1> QED BY <1>2, DepthNext

(* An indentation that ends before what is neither blank nor a bracket,    *)
(* with no line comment in it.                                             *)
IndentsTo(i, e) ==
  /\ e \in i..Nul
  /\ depth(i, e) = 0
  /\ ~isspace(at(e)) /\ at(e) \notin {"(", ")", "#"}
  /\ \A k \in i..e : at(k) # "#"
  /\ \A k \in i..e - 1 : isspace(at(k)) \/ at(k) \in {"(", ")"} \/ depth(i, k) # 0

LEMMA IndentEndsAre ==
  ASSUME text \in Texts, NEW i \in 1..Nul, NEW j \in IndentEnds(i),
         \A k \in i..j : at(k) # "#"
  PROVE  IndentsTo(i, Min(IndentEnds(i))) /\ Min(IndentEnds(i)) <= j
  <1> DEFINE T == IndentEnds(i)
             e == Min(T)
  <1>1. Nul \in Nat
    BY TextFacts
  <1>2. T \in SUBSET (i..Nul) /\ T # {}
    BY DEF IndentEnds
  <1>3. \A k \in i..Nul :
          k \in T <=> ~isspace(at(k)) /\ at(k) \notin {"(", ")"} /\ depth(i, k) = 0
    BY DEF IndentEnds
  <1> HIDE DEF T
  <1>4. e \in T /\ e \in i..Nul /\ \A k \in i..e - 1 : k \notin T
    BY <1>2, FirstPlace
  <1>5. e <= j
    <2>1. j \in T /\ j \in i..Nul
      BY <1>2 DEF T
    <2> QED BY <1>1, <1>4, <2>1
  <1>6. \A k \in i..e : at(k) # "#"
    <2>1. \A k \in i..e : k \in i..j
      BY <1>1, <1>2, <1>4, <1>5 DEF T
    <2> QED BY <2>1
  <1>7. \A k \in i..e - 1 : k \in i..Nul
    BY <1>1, <1>4
  <1>8. e \in i..e
    BY <1>1, <1>4
  <1>9. \A k \in i..e - 1 : isspace(at(k)) \/ at(k) \in {"(", ")"} \/ depth(i, k) # 0
    BY <1>3, <1>4, <1>7
  <1>10. ~isspace(at(e)) /\ at(e) \notin {"(", ")", "#"} /\ depth(i, e) = 0
    BY <1>3, <1>4, <1>6, <1>8
  <1> HIDE DEF e
  <1> QED BY <1>4, <1>5, <1>6, <1>9, <1>10 DEF IndentsTo, T, e

(* A line with code on it.                                                 *)
LEMMA LineIndents ==
  ASSUME text \in Texts, NEW i \in 1..Nul, ~is_line_empty(i)
  PROVE  /\ IndentEnds(i) # {}
         /\ IndentsTo(i, Min(IndentEnds(i)))
         /\ Min(IndentEnds(i)) < line_end(i)
  <1>1. PICK j \in i..line_end(i) - 1 :
          /\ ~isspace(at(j)) /\ at(j) \notin {"(", ")"} /\ depth(i, j) = 0
          /\ \A k \in i..j : at(k) # "#"
    BY DEF is_line_empty
  <1>2. Nul \in Nat /\ line_end(i) \in i..Nul
    BY TextFacts, LineEnds
  <1>3. j \in IndentEnds(i)
    BY <1>1, <1>2 DEF IndentEnds
  <1>4. IndentsTo(i, Min(IndentEnds(i))) /\ Min(IndentEnds(i)) <= j
    BY <1>1, <1>3, IndentEndsAre
  <1>5. Min(IndentEnds(i)) \in Int
    BY <1>2, <1>4 DEF IndentsTo
  <1> QED BY <1>1, <1>2, <1>3, <1>4, <1>5

LEMMA DepthSkips ==
  ASSUME NEW i \in Nat, NEW j \in Nat, i < j, at(i) \notin {"(", ")"}
  PROVE  depth(i, j) = depth(i + 1, j)
  <1>1. \A k : k \in i..j - 1 <=> k = i \/ k \in i + 1..j - 1
    OBVIOUS
  <1>2. \A c \in {"(", ")"} : Between(i, j, c) = Between(i + 1, j, c)
    BY <1>1 DEF Between
  <1>3. \A k : depth(k, j) = Cardinality(Between(k, j, "(")) - Cardinality(Between(k, j, ")"))
    BY DEF depth, Between
  <1> QED BY <1>2, <1>3

LEMMA NewLineIndents ==
  ASSUME text \in Texts, NEW i \in 1..Nul, is_indent(i)
  PROVE  /\ IndentEnds(i) # {}
         /\ IndentsTo(i, Min(IndentEnds(i)))
         /\ Min(IndentEnds(i)) \in i + 1..Nul
         /\ at(Min(IndentEnds(i))) # NUL
         /\ \A k \in i + 1..Min(IndentEnds(i)) : at(k) # "\n"
  <1> DEFINE e == Min(IndentEnds(i))
  <1>1. /\ Nul \in Nat /\ at(i) = "\n" /\ i + 1 \in 1..Nul /\ i \in Nat
    BY TextFacts, CharFacts DEF is_indent
  <1>2. PICK j \in i + 1..line_end(i + 1) - 1 :
          /\ ~isspace(at(j)) /\ at(j) \notin {"(", ")"} /\ depth(i + 1, j) = 0
          /\ \A k \in i + 1..j : at(k) # "#"
    BY DEF is_indent, is_line_empty
  <1>3. /\ line_end(i + 1) \in i + 1..Nul
        /\ \A k \in i + 1..line_end(i + 1) - 1 : at(k) \notin {NUL, "\n"}
    BY <1>1, LineEnds
  <1>4. depth(i, j) = 0
    BY <1>1, <1>2, <1>3, DepthSkips
  <1>5. \A k \in i..j : at(k) # "#"
    BY <1>1, <1>2
  <1>6. j \in IndentEnds(i)
    BY <1>1, <1>2, <1>3, <1>4 DEF IndentEnds
  <1>7. IndentsTo(i, e) /\ e <= j
    BY <1>5, <1>6, IndentEndsAre
  <1> HIDE DEF e
  <1>8. e \in i + 1..Nul
    BY <1>1, <1>7, CharFacts DEF IndentsTo
  <1>9. \A k \in i + 1..e : k \in i + 1..line_end(i + 1) - 1
    BY <1>1, <1>2, <1>3, <1>7, <1>8
  <1> QED BY <1>3, <1>6, <1>7, <1>8, <1>9 DEF e

(* In a balanced text, no plain place has a closing bracket.               *)
LEMMA NoneCloses ==
  ASSUME text \in Texts, Balanced, NEW i \in 1..Nul, i = Nul \/ Plain(i - 1)
  PROVE  at(i) # ")"
  <1>1. at(i) = ")" => i \in DOMAIN text /\ i # Nul
    BY TextFacts, CharFacts
  <1>2. i \in Nat \ {0}
    BY TextFacts
  <1>3. at(i) = ")" => Nest(i) = -1
    BY <1>1, <1>2, PlainNext
  <1> QED BY <1>1, <1>3 DEF Balanced

StartPlace == IF is_line_empty(1) THEN parse_empty(1) ELSE 1

LEMMA StartIndents ==
  ASSUME text \in Texts, Balanced
  PROVE  /\ StartPlace \in 1..Nul
         /\ IndentEnds(StartPlace) # {}
         /\ IndentsTo(StartPlace, Min(IndentEnds(StartPlace)))
         /\ is_line_empty(1) =>
              /\ StartPlace = Nul \/ Plain(StartPlace - 1)
              /\ \A k \in 1..StartPlace - 1 : Skipped(k)
              /\ is_indent(StartPlace) \/ Min(IndentEnds(StartPlace)) = StartPlace
              /\ ~is_indent(StartPlace) => ~isspace(at(StartPlace))
  <1> DEFINE i == StartPlace
  <1>1. Nul \in Nat /\ 1 \in 1..Nul
    BY TextFacts
  <1>2. CASE ~is_line_empty(1)
    <2>1. i = 1
      BY <1>2 DEF StartPlace
    <2> HIDE DEF i
    <2> QED BY <1>1, <1>2, <2>1, LineIndents DEF i
  <1>3. CASE is_line_empty(1)
    <2>1. i = parse_empty(1)
      BY <1>3 DEF StartPlace
    <2> HIDE DEF i
    <2>2. i \in 1..Nul /\ ~Blank(i)
      BY <1>1, <2>1, EmptyBounds
    <2>3. (i = Nul \/ Plain(i - 1)) /\ \A k \in 1..i - 1 : Skipped(k)
      <3>1. Plain(1 - 1)
        BY PlainStart
      <3> QED BY <1>1, <2>1, <3>1, EmptyPlain
    <2>4. CASE is_indent(i)
      BY <2>2, <2>3, <2>4, NewLineIndents DEF i
    <2>5. CASE ~is_indent(i)
      <3>1. ~isspace(at(i)) /\ at(i) \notin {"(", ")", "#"}
        BY <2>2, <2>3, <2>5, NoneCloses DEF Blank
      <3>2. depth(i, i) = 0
        BY <1>1, <2>2, DepthNext
      <3>3. i \in IndentEnds(i) /\ \A k \in i..i : at(k) # "#"
        BY <1>1, <2>2, <3>1, <3>2 DEF IndentEnds
      <3>4. IndentsTo(i, Min(IndentEnds(i))) /\ Min(IndentEnds(i)) <= i
        BY <2>2, <3>3, IndentEndsAre
      <3>5. Min(IndentEnds(i)) = i
        BY <1>1, <2>2, <3>4 DEF IndentsTo
      <3> QED BY <1>3, <2>2, <2>3, <2>5, <3>1, <3>3, <3>4, <3>5 DEF i
    <2> QED BY <2>4, <2>5
  <1> QED BY <1>2, <1>3

-----------------------------------------------------------------------------
(* The end of the text.                                                    *)

EndsWell == Balanced /\ (text # <<>> => Last(text) \notin {"0", "\\"})

LEMMA LastPlaceOfText ==
  ASSUME text \in Texts, EndsWell
  PROVE  /\ ~BackslashLast
         /\ \A i \in 1..Nul : at(i) = "0" => at(i + 1) # NUL
  <1>1. /\ Len(text) \in Nat /\ Nul = Len(text) + 1
        /\ Len(text) # 0 => at(Len(text)) = Last(text) /\ text # <<>>
        /\ \A i \in Nat \ {0} : at(i) = NUL <=> i > Len(text)
    <2>1. text # <<>> => text \in Seq(DOMAIN Byte \ {NUL})
      BY TextsAssumption
    <2>2. Len(text) # 0 => text # <<>>
      BY EmptySeq
    <2> QED BY <2>2, TextFacts DEF Last
  <1>2. ~BackslashLast
    BY <1>1 DEF BackslashLast, EndsWell
  <1>3. ASSUME NEW i \in 1..Nul, at(i) = "0", at(i + 1) = NUL PROVE FALSE
    <2>1. i = Len(text) /\ Len(text) # 0
      BY <1>1, <1>3, CharFacts
    <2> QED BY <1>1, <1>3, <2>1 DEF EndsWell
  <1> QED BY <1>2, <1>3

Kept == EndsWell => pc # "overrun"

LEMMA OneText ==
  ASSUME [Next]_vars
  PROVE  text' = text
  BY DEF Next, Start, Indent, Scan, ReadBehind, Eof, Stopped, vars, TakeIndent, Overrun,
         OpenStr, InStr, CloseStr, EofInStr, OpenShuffle, In, Pivot, Out, CloseShuffle,
         EofInShuffle

LEMMA KeptStep ==
  ASSUME TextInv, Kept, [Next]_vars
  PROVE  Kept'
  <1>1. EndsWell' => EndsWell
    BY OneText DEF EndsWell, Balanced, Nest, InLine, at
  <1> SUFFICES ASSUME EndsWell PROVE pc' # "overrun"
    BY <1>1 DEF Kept
  <1>2. /\ text \in Texts /\ src \in 1..Nul /\ Balanced /\ pc # "overrun"
        /\ Nul \in Nat
    BY TextFacts DEF TextInv, TypeOK, EndsWell, Kept
  <1>3. ASSUME NEW i, TakeIndent(i), IndentEnds(i) # {} PROVE pc' # "overrun"
    BY <1>3 DEF TakeIndent, Take
  <1>4. CASE Start
    <2>1. TakeIndent(StartPlace) /\ IndentEnds(StartPlace) # {}
      BY <1>2, <1>4, StartIndents DEF Start, StartPlace
    <2> QED BY <1>3, <2>1
  <1>5. CASE Indent
    <2>1. pc = "token" /\ kind(src) = "indent" /\ TakeIndent(src)
      BY <1>5 DEF Indent
    <2>2. is_indent(src)
      BY <2>1, Kinds DEF TextInv, AtCode, Blank
    <2>3. IndentEnds(src) # {}
      BY <1>2, <2>2, NewLineIndents
    <2> QED BY <1>3, <2>1, <2>3
  <1>6. CASE Scan
    <2>1. at(src) # NUL /\ kind(src) \notin {"indent", "str", "shuffle"}
      BY <1>6 DEF Scan
    <2>2. scan(src).end \in 1..Nul
      BY <1>2, <2>1, Scans, LastPlaceOfText
    <2> DEFINE token == scan(src)
    <2> HIDE DEF token
    <2>3. ~(token.end > Nul)
      BY <1>2, <2>2 DEF token
    <2>4. Take(token)
      BY <1>6, <2>3 DEF Scan, token
    <2> QED BY <2>4 DEF Take
  <1>7. ~ReadBehind
    <2> SUFFICES ASSUME ReadBehind PROVE FALSE
      OBVIOUS
    <2> DEFINE j == skip(src, "-")
    <2>1. at(j) = "0" /\ at(j + 1) = NUL
      BY DEF ReadBehind
    <2>2. j \in 1..Nul
      BY <1>2, Skips, CharFacts
    <2> HIDE DEF j
    <2> QED BY <1>2, <2>1, <2>2, LastPlaceOfText
  <1>8. CASE InStr
    <2> DEFINE bare == parse_char_bare(str.end)
    <2>1. /\ pc = "str" /\ at(str.end) # NUL
          /\ (pc' = pc /\ bare.end <= Nul) \/ (Overrun /\ bare.end > Nul)
      BY <1>8, Zenon DEF InStr
    <2>2. str.end \in 1..Nul
      BY <1>2, <2>1 DEF TextInv, TypeOK
    <2>3. bare.end \in 1..Nul
      BY <1>2, <2>1, <2>2, Bare, LastPlaceOfText
    <2>4. ~(bare.end > Nul)
      BY <1>2, <2>3
    <2> QED BY <2>1, <2>4
  <1>9. CASE Eof \/ Stopped \/ UNCHANGED vars \/ OpenStr \/ OpenShuffle \/ In \/ Pivot \/ Out
    BY <1>2, <1>9 DEF Eof, Stopped, vars, OpenStr, OpenShuffle, In, Pivot, Out
  <1>10. CASE CloseStr \/ EofInStr \/ CloseShuffle \/ EofInShuffle
    BY <1>10 DEF CloseStr, EofInStr, CloseShuffle, EofInShuffle, Take
  <1> QED BY <1>4, <1>5, <1>6, <1>7, <1>8, <1>9, <1>10, Zenon DEF Next

(* The end of the text is never read over, in whatever state the lexer     *)
(* comes to it: parse_indent finds the code that is_line_empty has found.  *)
THEOREM LexerNeverPastEnd == Spec => []NeverPastEnd
  <1>1. Init => Kept
    BY DEF Init, Kept
  <1>2. TextInv /\ Kept /\ [Next]_vars => Kept'
    BY KeptStep
  <1>3. Kept => NeverPastEnd
    BY DEF Kept, EndsWell, NeverPastEnd
  <1> QED BY <1>1, <1>2, <1>3, TextInvariant, PTL DEF Spec

-----------------------------------------------------------------------------
(* Layout.                                                                 *)

(* What starts with code is clear of lines and comments, or it ends with   *)
(* code, like a diagram that may have new lines in it, or with the text.   *)
Written(token) ==
  /\ token.src \in Code /\ token.src < token.end
  /\ Clear(token.src, token.end) \/ token.end - 1 \in Code \/ token.end = Nul
  /\ token.type \in {"word", "op"} => token.src..token.end - 1 \subseteq Code

(* An indentation ends before code or the NUL; it begins with the new line *)
(* of its line, but for the first one.                                     *)
AfterNewLine(token) ==
  /\ token.src \in NewLines /\ token.src < token.end /\ at(token.end) # NUL
  /\ \A m \in token.src + 1..token.end - 1 : at(m) # "\n" /\ m \notin Code
  /\ token.indent = token.end - token.src - 1

OnFirstLine(token) ==
  \/ /\ token.indent = token.end - 1
     /\ \A m \in 1..token.end - 1 : at(m) # "\n"
  \/ /\ token.indent = 0
     /\ is_line_empty(1)
     /\ \A m \in 1..token.end - 1 : Skipped(m)

Indented(k, token) ==
  /\ ~isspace(at(token.end)) /\ at(token.end) \notin {"(", "#"}
  /\ AfterNewLine(token) \/ (k = 1 /\ OnFirstLine(token))

(* Nothing stands between a token and a place behind it, and nothing at    *)
(* all behind an indentation.                                              *)
Joined(token, i) ==
  /\ \A m \in token.end..i - 1 : Skipped(m)
  /\ token.type = "indent" => i = token.end

History(toks, i) ==
  /\ \A k \in DOMAIN toks : IF toks[k].type = "indent" THEN Indented(k, toks[k])
                            ELSE k > 1 /\ Written(toks[k])
  /\ \A k \in DOMAIN toks : k + 1 \in DOMAIN toks => Joined(toks[k], toks[k + 1].src)
  /\ Len(toks) \in DOMAIN toks => Joined(toks[Len(toks)], i)

(* All code before a place is in a token.                                  *)
Covered(toks, i) ==
  \A c \in Code : c < i => \E k \in DOMAIN toks : toks[k].src <= c /\ c < toks[k].end

AtPlain(i) == i = Nul \/ Plain(i - 1)

ReadFrom ==
  /\ pc \in {"token", "in", "out"} => tokens # <<>> /\ AtPlain(src)
  /\ pc \in {"in", "out"} => src \in Code /\ AtPlain(shuffle.end)
  /\ pc # "str"

LayoutInv == Layout => History(tokens, src) /\ Covered(tokens, src) /\ ReadFrom

LEMMA LayoutStays ==
  ASSUME text' = text
  PROVE  /\ Layout' = Layout
         /\ History(tokens, src)' = History(tokens', src')
         /\ Covered(tokens, src)' = Covered(tokens', src')
         /\ AtPlain(src)' = AtPlain(src')
         /\ AtPlain(shuffle.end)' = AtPlain(shuffle'.end)
         /\ Code' = Code
  <1>1. Layout' = Layout
    BY DEF Layout, Balanced, Nest, InLine, at
  <1>2. Code' = Code /\ NewLines' = NewLines
    BY DEF Code, NewLines, Plain, Nest, InLine, at
  <1>3. Nul' = Nul /\ \A i : at(i)' = at(i)
    BY DEF Nul, at
  <1>4. \A i : is_line_empty(i)' = is_line_empty(i)
    BY DEF is_line_empty, line_end, First, depth, Nul, at
  <1>5. \A i : Plain(i)' = Plain(i)
    BY DEF Plain, Nest, InLine, at
  <1>6. \A i : Skipped(i)' = Skipped(i)
    BY <1>2, <1>4 DEF Skipped
  <1>7. \A i, j : Clear(i, j)' = Clear(i, j)
    BY <1>3 DEF Clear
  <1>8. \A t : Written(t)' = Written(t)
    BY <1>2, <1>3, <1>7 DEF Written
  <1>9. \A t : AfterNewLine(t)' = AfterNewLine(t)
    BY <1>2, <1>3 DEF AfterNewLine
  <1>10. \A t : OnFirstLine(t)' = OnFirstLine(t)
    BY <1>3, <1>4, <1>6 DEF OnFirstLine
  <1>11. \A k, t : Indented(k, t)' = Indented(k, t)
    BY <1>3, <1>9, <1>10 DEF Indented
  <1>12. \A t, i : Joined(t, i)' = Joined(t, i)
    BY <1>6 DEF Joined
  <1>13. History(tokens, src)' = History(tokens', src')
    BY <1>8, <1>11, <1>12 DEF History
  <1>14. Covered(tokens, src)' = Covered(tokens', src')
    BY <1>2 DEF Covered
  <1>15. AtPlain(src)' = AtPlain(src') /\ AtPlain(shuffle.end)' = AtPlain(shuffle'.end)
    BY <1>3, <1>5 DEF AtPlain
  <1> QED BY <1>1, <1>2, <1>13, <1>14, <1>15

(* A token is taken after the last one, or the first.                      *)
LEMMA TakeLayout ==
  ASSUME TextInv, Layout, History(tokens, src), Covered(tokens, src),
         NEW token, Take(token),
         token.src \in src..Nul, token.end \in token.src..Nul, AtPlain(token.end),
         IF token.type = "indent" THEN Indented(Len(tokens) + 1, token) ELSE Written(token),
         \/ tokens # <<>> /\ token.src = src
         \/ /\ tokens = <<>> /\ src = 1 /\ token.type = "indent"
            /\ \A m \in 1..token.src - 1 : m \notin Code
  PROVE  /\ History(tokens', src') /\ Covered(tokens', src')
         /\ tokens' # <<>> /\ AtPlain(src')
  <1> DEFINE n == Len(tokens)
             e == token.end
             s == parse_empty(e)
  <1>1. /\ Nul \in Nat /\ src \in 1..Nul /\ text \in Texts /\ e \in 1..Nul
        /\ token.src \in 1..Nul
    BY TextFacts DEF TextInv, TypeOK
  <1>2. /\ n \in Nat /\ DOMAIN tokens = 1..n
        /\ Len(tokens') = n + 1 /\ DOMAIN tokens' = 1..n + 1
        /\ tokens'[n + 1] = token
        /\ \A k \in 1..n : tokens'[k] = tokens[k]
    BY Appended DEF TextInv, TypeOK, Take
  <1>3. (tokens = <<>> => n = 0) /\ (tokens # <<>> => n > 0)
    BY <1>2, EmptySeq DEF TextInv, TypeOK
  <1>4. src' = s /\ s \in e..Nul /\ AtPlain(s) /\ \A m \in e..s - 1 : Skipped(m)
    BY <1>1, EmptyBounds, EmptyPlain DEF Take, AtPlain
  <1>5. token.type = "indent" => s = e
    <2>1. token.type = "indent" => ~Blank(e)
      BY DEF Indented, Blank
    <2> QED BY <1>1, <2>1, EmptyUnfolds
  <1>6. Joined(token, s)
    BY <1>4, <1>5 DEF Joined
  <1>7. \/ n > 0 /\ token.src = src
        \/ n = 0 /\ src = 1 /\ token.type = "indent" /\ \A m \in 1..token.src - 1 : m \notin Code
    BY <1>3
  <1> HIDE DEF n, e, s
  <1>8. ASSUME NEW k \in 1..n + 1
        PROVE  IF tokens'[k].type = "indent" THEN Indented(k, tokens'[k])
               ELSE k > 1 /\ Written(tokens'[k])
    <2>1. CASE k = n + 1
      BY <1>2, <1>7, <2>1 DEF n
    <2>2. CASE k # n + 1
      BY <1>2, <2>2 DEF History
    <2> QED BY <2>1, <2>2
  <1>9. ASSUME NEW k \in 1..n + 1, k + 1 \in 1..n + 1
        PROVE  Joined(tokens'[k], tokens'[k + 1].src)
    <2>1. CASE k = n
      <3>1. n \in DOMAIN tokens /\ token.src = src
        BY <1>2, <1>7, <2>1
      <3>2. Joined(tokens[n], src)
        BY <3>1 DEF History, n
      <3> QED BY <1>2, <2>1, <3>1, <3>2
    <2>2. CASE k # n
      <3>1. k \in 1..n /\ k + 1 \in 1..n
        BY <1>2, <1>9, <2>2
      <3> QED BY <1>2, <3>1 DEF History
    <2> QED BY <2>1, <2>2
  <1>10. History(tokens', src')
    BY <1>2, <1>4, <1>6, <1>8, <1>9 DEF History
  <1>11. ASSUME NEW c \in Code, c < s
         PROVE  \E k \in 1..n + 1 : tokens'[k].src <= c /\ c < tokens'[k].end
    <2>1. c \in Nat /\ c >= 1
      <3>1. c \in DOMAIN text
        BY DEF Code
      <3> QED BY <1>1, <3>1, TextFacts
    <2>2. CASE c < src
      <3>1. \E k \in DOMAIN tokens : tokens[k].src <= c /\ c < tokens[k].end
        BY <2>2 DEF Covered
      <3> QED BY <1>2, <3>1
    <2>3. CASE c >= src /\ c < e
      <3>1. token.src <= c
        BY <1>1, <1>7, <2>1, <2>3
      <3>2. n + 1 \in 1..n + 1 /\ tokens'[n + 1] = token
        BY <1>2
      <3> QED BY <2>3, <3>1, <3>2 DEF e
    <2>4. CASE c >= e
      <3>1. c \in e..s - 1
        BY <1>1, <1>4, <1>11, <2>1, <2>4
      <3> QED BY <1>4, <3>1 DEF Skipped
    <2> QED BY <1>1, <2>1, <2>2, <2>3, <2>4
  <1>12. Covered(tokens', src')
    BY <1>2, <1>4, <1>11 DEF Covered
  <1>13. tokens' # <<>>
    BY <1>2, EmptySeq
  <1> QED BY <1>4, <1>10, <1>12, <1>13

(* Nothing begins or ends in what is clear.                                *)
LEMMA RunPlain ==
  ASSUME NEW i \in Nat \ {0}, NEW j \in Nat, i <= j, Plain(i - 1), Clear(i, j)
  PROVE  \A k \in i - 1..j - 1 : Plain(k)
  <1> DEFINE Bad == {k \in i..j : ~Plain(k - 1)}
  <1>1. Bad = {}
    <2> SUFFICES ASSUME Bad # {} PROVE FALSE
      OBVIOUS
    <2>1. Bad \in SUBSET Nat
      OBVIOUS
    <2>2. PICK m \in Bad : \A b \in Bad : m <= b
      <3> HIDE DEF Bad
      <3> QED BY <2>1, LeastNumber
    <2>3. m \in i..j /\ ~Plain(m - 1) /\ m # i
      BY <2>2
    <2> DEFINE p == m - 1
    <2>4. p \in i..j - 1 /\ p \in Nat \ {0} /\ p \in i..j /\ p < m
      BY <2>3
    <2>5. Plain(p - 1)
      BY <2>2, <2>3, <2>4
    <2>6. at(p) \notin Special
      BY <2>4 DEF Clear
    <2> HIDE DEF p
    <2>7. Plain(p)
      BY <2>4, <2>5, <2>6, PlainNext DEF Special
    <2> QED BY <2>3, <2>7 DEF p
  <1>2. ASSUME NEW k \in i - 1..j - 1 PROVE Plain(k)
    <2>1. k + 1 \in i..j /\ (k + 1) - 1 = k
      OBVIOUS
    <2>2. Plain((k + 1) - 1)
      BY <1>1, <2>1
    <2> QED BY <2>1, <2>2
  <1> QED BY <1>2

(* What the lexer stands before, if it is no blank.                        *)
LEMMA CodeAt ==
  ASSUME text \in Texts, Balanced, NEW i \in 1..Nul, AtPlain(i), ~Blank(i),
         at(i) # NUL, ~isspace(at(i))
  PROVE  i \in Code /\ at(i) \notin Special /\ Plain(i - 1) /\ Plain(i)
  <1>1. /\ Nul \in Nat /\ i \in DOMAIN text /\ i \in Nat \ {0}
        /\ Plain(i - 1)
    BY TextFacts DEF AtPlain
  <1>2. at(i) # ")"
    BY <1>1, NoneCloses
  <1>3. at(i) \notin Special
    BY <1>2, CharFacts DEF Blank, Special
  <1>4. Plain(i)
    BY <1>1, <1>3, PlainNext DEF Special
  <1> QED BY <1>1, <1>2, <1>3, <1>4 DEF Code

(* Quotes and the X of is_hex are left out of the texts with a layout.     *)
LEMMA LayoutText ==
  ASSUME text \in Texts, Layout, NEW i \in 1..Nul
  PROVE  /\ at(i) # "'" /\ at(i) # "\""
         /\ is_hex(i) => at(skip(i, "-") + 2) # "X"
  <1>1. at(i) # "'" /\ at(i) # "\""
    <2>1. i \in DOMAIN text => at(i) \in ToSet(text)
      BY DEF at, ToSet
    <2>2. i \notin DOMAIN text => at(i) = NUL
      BY DEF at
    <2> QED BY <2>1, <2>2, CharFacts, BraceFacts, Zenon DEF Layout
  <1>2. ASSUME is_hex(i) PROVE at(skip(i, "-") + 2) # "X"
    <2> DEFINE j == skip(i, "-")
    <2>1. at(j) = "0"
      BY <1>2 DEF is_hex
    <2> HIDE DEF j
    <2>2. j \in DOMAIN text
      BY <2>1, CharFacts DEF at
    <2>3. at(j + 2) # "X"
      BY <2>1, <2>2, Zenon DEF Layout
    <2> QED BY <2>3 DEF j
  <1> QED BY <1>1, <1>2

(* What the tokens are like once a token is taken.                         *)
ReadOn ==
  /\ History(tokens', src') /\ Covered(tokens', src')
  /\ tokens' # <<>> /\ AtPlain(src')

LEMMA ReadOnLayout ==
  ASSUME ReadOn, text' = text, pc' = "token"
  PROVE  LayoutInv'
  <1>1. ReadFrom'
    BY LayoutStays DEF ReadOn, ReadFrom
  <1>2. History(tokens, src)' /\ Covered(tokens, src)'
    BY LayoutStays DEF ReadOn
  <1> QED BY <1>1, <1>2 DEF LayoutInv

(* Numbers, words and operators.                                           *)
LEMMA ScanLayout ==
  ASSUME TextInv, Layout, History(tokens, src), Covered(tokens, src), ReadFrom,
         pc = "token", at(src) # NUL, kind(src) \notin {"indent", "str", "shuffle"},
         scan(src).end <= Nul, Take(scan(src))
  PROVE  ReadOn
  <1> DEFINE token == scan(src)
             e == scan(src).end
  <1>1. /\ text \in Texts /\ src \in 1..Nul /\ Nul \in Nat /\ Balanced
        /\ ~Blank(src) /\ tokens # <<>> /\ AtPlain(src)
    BY TextFacts DEF TextInv, TypeOK, AtCode, Layout, ReadFrom
  <1>2. ~isspace(at(src))
    BY Kinds
  <1>3. src \in Code /\ at(src) \notin Special /\ Plain(src - 1)
    BY <1>1, <1>2, CodeAt
  <1>4. /\ token.src = src /\ e \in src + 1..Nul
        /\ token.type \in {"op", "int", "float", "char", "word", "error"}
        /\ token.type \in {"word", "op"} => kind(src) = token.type
        /\ kind(src) = "op" => e = src + 1
        /\ kind(src) = "word" => e = src + get_word_len(src)
    BY <1>1, Scans
  <1>5. Clear(src, e)
    <2>1. at(src) # "'" /\ (is_hex(src) => at(skip(src, "-") + 2) # "X")
      BY <1>1, LayoutText
    <2>2. at(src) # ")"
      BY <1>3 DEF Special
    <2> QED BY <1>1, <2>1, <2>2, Scans
  <1> HIDE DEF token, e
  <1>6. \A k \in src - 1..e - 1 : Plain(k)
    <2>1. src \in Nat \ {0} /\ e \in Nat /\ src <= e
      BY <1>1, <1>4
    <2> QED BY <1>3, <1>5, <2>1, RunPlain
  <1>7. AtPlain(e)
    <2>1. e - 1 \in src - 1..e - 1
      BY <1>1, <1>4
    <2> QED BY <1>6, <2>1 DEF AtPlain
  <1>8. ASSUME token.type \in {"word", "op"} PROVE src..e - 1 \subseteq Code
    <2> SUFFICES ASSUME NEW k \in src..e - 1 PROVE k \in Code
      OBVIOUS
    <2>1. CASE k = src
      BY <1>3, <2>1
    <2>2. CASE k # src
      <3>1. kind(src) = "word"
        BY <1>1, <1>4, <1>8, <2>2
      <3>2. \A m \in src + 1..e - 1 : ~is_delim(at(m))
        <4> DEFINE w == get_word_len(src)
        <4>1. w \in Int /\ e = src + w
          BY <1>1, <1>4, <3>1, Words
        <4>2. \A m \in src + 1..src + w - 1 : ~is_delim(at(m))
          BY <1>1, Words
        <4> HIDE DEF w
        <4> QED BY <1>1, <4>1, <4>2
      <3>3. ~is_delim(at(k))
        BY <1>1, <1>4, <2>2, <3>2
      <3>4. ~isspace(at(k)) /\ at(k) # ")"
        BY <3>3, CharFacts
      <3>5. k \in src - 1..e - 1 /\ k - 1 \in src - 1..e - 1 /\ k \in 1..Len(text)
        BY <1>1, <1>4, TextFacts
      <3>6. Plain(k) /\ Plain(k - 1) /\ k \in DOMAIN text
        BY <1>1, <1>6, <3>5, TextFacts
      <3> QED BY <3>4, <3>6 DEF Code
    <2> QED BY <2>1, <2>2
  <1>9. Written(token) /\ token.type # "indent"
    <2>1. token.end = e /\ src < e
      BY <1>1, <1>4 DEF token, e
    <2> QED BY <1>3, <1>4, <1>5, <1>8, <2>1 DEF Written
  <1>10. /\ token.end = e /\ Take(token)
         /\ token.src \in src..Nul /\ token.end \in token.src..Nul
    <2>1. token.end = e /\ Take(token)
      BY DEF token, e
    <2> QED BY <1>1, <1>4, <2>1
  <1> QED BY <1>1, <1>4, <1>7, <1>9, <1>10, TakeLayout DEF ReadOn

(* An indentation that begins with a new line: it is one that no comment   *)
(* has taken, and no code stands before the place where it ends.           *)
LEMMA NewLineLayout ==
  ASSUME text \in Texts, NEW i \in 1..Nul, AtPlain(i), is_indent(i)
  PROVE  LET token == tag_indent(i, Min(IndentEnds(i))) IN
         /\ AfterNewLine(token) /\ \A k : Indented(k, token)
         /\ token.src = i /\ token.end \in i + 1..Nul /\ token.type = "indent"
         /\ AtPlain(token.end)
  <1> DEFINE e == Min(IndentEnds(i))
             token == tag_indent(i, e)
  <1>1. Nul \in Nat /\ at(i) = "\n" /\ i \in Nat \ {0}
    BY TextFacts DEF is_indent
  <1>2. /\ IndentsTo(i, e) /\ e \in i + 1..Nul /\ at(e) # NUL
        /\ \A k \in i + 1..e : at(k) # "\n"
    BY NewLineIndents
  <1>3. i \in DOMAIN text /\ Plain(i - 1) /\ Plain(i)
    <2>1. i \in DOMAIN text /\ i # Nul
      BY <1>1, TextFacts, CharFacts
    <2>2. Plain(i - 1)
      BY <2>1 DEF AtPlain
    <2> QED BY <1>1, <2>1, <2>2, PlainNext
  <1>4. i \in NewLines
    BY <1>1, <1>3 DEF NewLines
  <1>5. /\ \A k \in i..e : at(k) # "#"
        /\ \A k \in i..e - 1 : isspace(at(k)) \/ at(k) \in {"(", ")"} \/ depth(i, k) # 0
        /\ ~isspace(at(e)) /\ at(e) \notin {"(", "#"} /\ depth(i, e) = 0
    BY <1>2 DEF IndentsTo
  <1>6. /\ token.src = i /\ token.end = e /\ token.type = "indent"
        /\ token.indent = e - i - 1
    BY <1>1 DEF tag_indent
  <1> HIDE DEF e, token
  <1>7. \A k \in i..e : ~InLine(k - 1) /\ Nest(k - 1) = depth(i, k)
    <2> TAKE k \in i..e
    <2>1. k \in Nat /\ i <= k /\ \A m \in i..k - 1 : at(m) # "#"
      BY <1>1, <1>2, <1>5
    <2>2. ~InLine(i - 1) /\ Nest(i - 1) = 0
      BY <1>3 DEF Plain
    <2>3. /\ ~InLine(k - 1) /\ depth(i, k) \in Int
          /\ Nest(k - 1) = Nest(i - 1) + depth(i, k)
      BY <1>1, <2>1, <2>2, Depths
    <2> QED BY <2>2, <2>3
  <1>8. AtPlain(e)
    <2>1. e \in i..e
      BY <1>1, <1>2
    <2> QED BY <1>5, <1>7, <2>1 DEF AtPlain, Plain
  <1>9. ASSUME NEW m \in i + 1..e - 1 PROVE m \notin Code
    <2>1. m \in i..e /\ m \in i..e - 1 /\ m \in Nat \ {0}
      BY <1>1, <1>2
    <2>2. CASE isspace(at(m)) \/ at(m) = ")"
      BY <2>2 DEF Code
    <2>3. CASE at(m) = "("
      <3>1. Plain(m - 1) => Nest(m) = 1
        BY <2>1, <2>3, PlainNext
      <3> QED BY <3>1 DEF Code, Plain
    <2>4. CASE depth(i, m) # 0
      BY <1>7, <2>1, <2>4 DEF Code, Plain
    <2> QED BY <1>5, <2>1, <2>2, <2>3, <2>4
  <1>10. AfterNewLine(token)
    <2>1. i < e /\ \A m \in i + 1..e - 1 : m \in i + 1..e
      BY <1>1, <1>2
    <2> QED BY <1>2, <1>4, <1>6, <1>9, <2>1 DEF AfterNewLine
  <1>11. \A k : Indented(k, token)
    BY <1>5, <1>6, <1>10 DEF Indented
  <1> QED BY <1>2, <1>6, <1>8, <1>10, <1>11 DEF token, e

(* After a token.                                                          *)
LEMMA IndentLayout ==
  ASSUME TextInv, Layout, History(tokens, src), Covered(tokens, src), ReadFrom,
         pc = "token", kind(src) = "indent", TakeIndent(src)
  PROVE  ReadOn /\ pc' = "token"
  <1> DEFINE token == tag_indent(src, Min(IndentEnds(src)))
  <1>1. /\ text \in Texts /\ src \in 1..Nul /\ Nul \in Nat
        /\ ~Blank(src) /\ tokens # <<>> /\ AtPlain(src)
    BY TextFacts DEF TextInv, TypeOK, AtCode, ReadFrom
  <1>2. is_indent(src)
    BY <1>1, Kinds DEF Blank
  <1>3. Take(token)
    BY <1>1, <1>2, NewLineIndents DEF TakeIndent
  <1>4. /\ Indented(Len(tokens) + 1, token) /\ AtPlain(token.end)
        /\ token.src = src /\ token.end \in src + 1..Nul /\ token.type = "indent"
    BY <1>1, <1>2, NewLineLayout
  <1> HIDE DEF token
  <1>5. token.src \in src..Nul /\ token.end \in token.src..Nul
    BY <1>1, <1>4
  <1> QED BY <1>1, <1>3, <1>4, <1>5, TakeLayout DEF ReadOn, Take

(* At the start of the text.                                               *)
LEMMA StartLayout ==
  ASSUME TextInv, Layout, History(tokens, src), Covered(tokens, src),
         pc = "start", TakeIndent(StartPlace)
  PROVE  ReadOn /\ pc' = "token"
  <1> DEFINE i == StartPlace
             e == Min(IndentEnds(i))
             token == tag_indent(i, e)
  <1>1. /\ text \in Texts /\ Nul \in Nat /\ Balanced /\ src = 1 /\ tokens = <<>>
        /\ Len(tokens) = 0
    BY TextFacts, EmptySeq DEF TextInv, TypeOK, AtCode, Layout
  <1>2. /\ i \in 1..Nul /\ IndentsTo(i, e) /\ Take(token)
        /\ is_line_empty(1) =>
             /\ AtPlain(i) /\ \A k \in 1..i - 1 : Skipped(k)
             /\ is_indent(i) \/ e = i
             /\ ~is_indent(i) => ~isspace(at(i))
    BY <1>1, StartIndents DEF TakeIndent, AtPlain
  <1>3. e \in i..Nul /\ ~isspace(at(e)) /\ at(e) \notin {"(", "#"}
    BY <1>2 DEF IndentsTo
  <1>4. token.src = i /\ token.end = e /\ token.type = "indent"
        /\ token.indent = IF at(i) = "\n" THEN e - i - 1 ELSE e - i
    BY DEF tag_indent
  <1>5. ASSUME AtPlain(e), Indented(1, token), \A m \in 1..i - 1 : m \notin Code
        PROVE  ReadOn /\ pc' = "token"
    <2>1. token.src \in src..Nul /\ token.end \in token.src..Nul
      BY <1>1, <1>2, <1>3, <1>4
    <2>2. Len(tokens) + 1 = 1
      BY <1>1
    <2> HIDE DEF token, e, i
    <2> QED BY <1>1, <1>2, <1>4, <1>5, <2>1, <2>2, TakeLayout DEF ReadOn, Take
  <1>6. CASE ~is_line_empty(1)
    <2>1. i = 1 /\ 1 \in 1..Nul
      <3>1. 1 \in 1..Nul
        BY <1>1, TextFacts
      <3> QED BY <1>6, <3>1 DEF StartPlace
    <2>2. /\ e < line_end(1) /\ line_end(1) \in 1..Nul
          /\ \A m \in 1..line_end(1) - 1 : at(m) # "\n"
      BY <1>1, <1>6, <2>1, LineIndents, LineEnds
    <2>3. at(1) # "\n" /\ \A m \in 1..e - 1 : at(m) # "\n"
      <3>1. 1 \in 1..line_end(1) - 1 /\ \A m \in 1..e - 1 : m \in 1..line_end(1) - 1
        BY <1>1, <1>3, <2>1, <2>2
      <3> QED BY <2>2, <3>1
    <2>4. token.indent = e - 1
      BY <1>4, <2>1, <2>3
    <2>5. depth(1, e) = 0 /\ \A k \in 1..e : at(k) # "#"
      BY <1>2, <2>1 DEF IndentsTo
    <2> HIDE DEF token, e, i
    <2>6. Indented(1, token)
      BY <1>3, <1>4, <2>3, <2>4 DEF Indented, OnFirstLine
    <2>7. AtPlain(e)
      <3>1. 1 - 1 = 0 /\ e \in Nat /\ 1 <= e /\ \A k \in 1..e - 1 : k \in 1..e
        BY <1>1, <1>3, <2>1
      <3>2. ~InLine(0) /\ Nest(0) = 0
        BY PlainStart DEF Plain
      <3>3. ~InLine(e - 1) /\ Nest(e - 1) = Nest(0) + depth(1, e)
        BY <2>5, <3>1, <3>2, Depths
      <3> QED BY <2>5, <3>2, <3>3 DEF AtPlain, Plain
    <2>8. \A m \in 1..i - 1 : m \notin Code
      BY <2>1
    <2> QED BY <1>5, <2>6, <2>7, <2>8
  <1>7. CASE is_line_empty(1) /\ is_indent(i)
    <2>1. \A m \in 1..i - 1 : m \notin Code
      BY <1>2, <1>7 DEF Skipped
    <2>2. AtPlain(i)
      BY <1>2, <1>7
    <2>3. AtPlain(e) /\ Indented(1, token)
      <3> HIDE DEF i
      <3>1. AtPlain(token.end) /\ Indented(1, token)
        BY <1>1, <1>2, <1>7, <2>2, NewLineLayout
      <3> HIDE DEF token, e
      <3> QED BY <1>4, <3>1
    <2> QED BY <1>5, <2>1, <2>3
  <1>8. CASE is_line_empty(1) /\ ~is_indent(i)
    <2>1. /\ AtPlain(i) /\ e = i /\ at(i) # "\n"
          /\ \A m \in 1..i - 1 : Skipped(m)
      BY <1>2, <1>8, CharFacts
    <2>2. token.indent = 0
      BY <1>2, <1>4, <2>1
    <2> HIDE DEF token, e, i
    <2>3. Indented(1, token)
      BY <1>3, <1>4, <1>8, <2>1, <2>2 DEF Indented, OnFirstLine
    <2>4. \A m \in 1..i - 1 : m \notin Code
      BY <2>1 DEF Skipped
    <2> QED BY <1>5, <2>1, <2>3, <2>4
  <1> QED BY <1>6, <1>7, <1>8

(* A diagram: its brackets are code, and what is read in it is plain.      *)
LEMMA MemberPlain ==
  ASSUME TextInv, Layout, pc \in {"in", "out"}, at(shuffle.end) # NUL, AtPlain(shuffle.end)
  PROVE  AtPlain(parse_empty(parse_shuffle_member(shuffle.end).end))
  <1> DEFINE i == shuffle.end
             e == parse_shuffle_member(i).end
  <1>1. /\ text \in Texts /\ Nul \in Nat /\ Balanced
        /\ i \in 1..Nul /\ i \in Nat \ {0} /\ ~Blank(i)
    <2>1. /\ text \in Texts /\ src \in 1..Nul /\ i \in src + 1..Nul
          /\ ~Blank(i)
      BY DEF TextInv, TypeOK, AtCode
    <2>2. Nul \in Nat
      BY <2>1, TextFacts
    <2>3. Balanced
      BY Zenon DEF Layout
    <2> HIDE DEF i
    <2> QED BY <2>1, <2>2, <2>3
  <1>2. e \in i + 1..Nul /\ Clear(i + 1, e) /\ e \in 1..Nul
    BY <1>1, Members DEF IsToken
  <1>3. Plain(i - 1) /\ at(i) \notin {"(", ")", "#"}
    <2>1. Plain(i - 1)
      BY <1>1, TextFacts DEF AtPlain
    <2> QED BY <1>1, <2>1, NoneCloses DEF Blank
  <1> HIDE DEF i, e
  <1>4. Plain((i + 1) - 1)
    <2>1. Plain(i) /\ (i + 1) - 1 = i
      BY <1>1, <1>3, PlainNext
    <2> QED BY <2>1
  <1>5. Plain(e - 1)
    <2>1. i + 1 \in Nat \ {0} /\ e \in Nat /\ i + 1 <= e /\ e - 1 \in (i + 1) - 1..e - 1
      BY <1>1, <1>2
    <2> QED BY <1>2, <1>4, <2>1, RunPlain
  <1>6. AtPlain(parse_empty(e))
    BY <1>1, <1>2, <1>5, EmptyPlain DEF AtPlain
  <1> QED BY <1>6 DEF e, i

LEMMA DiagramLayout ==
  ASSUME TextInv, Layout, ReadFrom, OpenShuffle \/ In \/ Pivot \/ Out
  PROVE  /\ text' = text /\ tokens' = tokens /\ src' = src
         /\ ReadFrom'
  <1>1. /\ text \in Texts /\ Nul \in Nat /\ src \in 1..Nul
        /\ \A i \in 1..Nul : at(i) # NUL => i + 1 \in 1..Nul
    BY TextFacts DEF TextInv, TypeOK
  <1>2. Balanced
    BY Zenon DEF Layout
  <1>3. ASSUME text' = text, tokens' = tokens, src' = src, pc' \in {"in", "out"},
               tokens # <<>>, src \in Code, AtPlain(src), AtPlain(shuffle'.end)
        PROVE  ReadFrom'
    <2>1. Code' = Code /\ AtPlain(src)' = AtPlain(src') /\
          AtPlain(shuffle.end)' = AtPlain(shuffle'.end)
      BY <1>3, LayoutStays
    <2> QED BY <1>3, <2>1 DEF ReadFrom
  <1>4. CASE OpenShuffle
    <2>1. /\ pc = "token" /\ kind(src) = "shuffle" /\ pc' = "in"
          /\ UNCHANGED <<text, src, tokens>>
          /\ shuffle'.end = parse_empty(src + 1)
      BY <1>4 DEF OpenShuffle
    <2>2. at(src) # NUL /\ ~isspace(at(src))
      BY <2>1, KindsOpen, BraceFacts, Zenon
    <2>3. ~Blank(src) /\ AtPlain(src) /\ tokens # <<>>
      BY <2>1 DEF TextInv, AtCode, ReadFrom
    <2>4. src \in Code /\ Plain(src)
      BY <1>1, <1>2, <2>2, <2>3, CodeAt
    <2>5. src + 1 \in 1..Nul /\ (src + 1) - 1 = src
      BY <1>1, <2>2
    <2>6. Plain((src + 1) - 1)
      BY <2>4, <2>5
    <2>7. AtPlain(parse_empty(src + 1))
      BY <1>1, <2>5, <2>6, EmptyPlain DEF AtPlain
    <2> QED BY <1>3, <2>1, <2>3, <2>4, <2>7
  <1>5. CASE In \/ Out
    <2>1. /\ pc \in {"in", "out"} /\ pc' = pc /\ at(shuffle.end) # NUL
          /\ UNCHANGED <<text, src, tokens>>
          /\ shuffle'.end = parse_empty(parse_shuffle_member(shuffle.end).end)
      <3>1. CASE In
        BY <3>1 DEF In, TextInv, Records
      <3>2. CASE Out
        <4>1. /\ pc = "out" /\ pc' = pc /\ at(shuffle.end) # NUL
              /\ UNCHANGED <<text, src, tokens>>
              /\ \E out : shuffle' = [shuffle EXCEPT !.out = out,
                            !.end = parse_empty(parse_shuffle_member(shuffle.end).end)]
          BY <3>2, Zenon DEF Out
        <4> QED BY <4>1 DEF TextInv, Records
      <3> QED BY <1>5, <3>1, <3>2
    <2>2. tokens # <<>> /\ src \in Code /\ AtPlain(src) /\ AtPlain(shuffle.end)
      BY <2>1 DEF ReadFrom
    <2>3. AtPlain(parse_empty(parse_shuffle_member(shuffle.end).end))
      BY <2>1, <2>2, MemberPlain
    <2> QED BY <1>3, <2>1, <2>2, <2>3
  <1>6. CASE Pivot
    <2> DEFINE i == shuffle.end
    <2>1. /\ pc = "in" /\ pc' = "out" /\ at(i) = "-" /\ at(i + 1) = "-"
          /\ UNCHANGED <<text, src, tokens>>
          /\ shuffle'.end = parse_empty(i + 2)
      BY <1>6 DEF Pivot, is_shuffle_pivot, TextInv, Records
    <2>2. tokens # <<>> /\ src \in Code /\ AtPlain(src) /\ AtPlain(i)
      BY <2>1 DEF ReadFrom
    <2>3. i \in src + 1..Nul
      BY <2>1 DEF TextInv, TypeOK
    <2> HIDE DEF i
    <2>4. i \in Nat \ {0} /\ i \in 1..Nul /\ i + 1 \in 1..Nul /\ i + 2 \in 1..Nul
      <3>1. i \in 1..Nul /\ at(i) # NUL /\ at(i + 1) # NUL
        BY <1>1, <2>1, <2>3, CharFacts
      <3>2. i + 1 \in 1..Nul
        BY <1>1, <3>1
      <3>3. (i + 1) + 1 \in 1..Nul
        BY <1>1, <3>1, <3>2
      <3> QED BY <1>1, <3>1, <3>2, <3>3
    <2>5. Plain(i - 1)
      <3>1. i # Nul
        BY <1>1, <2>1, TextFacts, CharFacts
      <3> QED BY <2>2, <3>1 DEF AtPlain
    <2>6. Clear(i, i + 2)
      <3>1. \A k \in i..(i + 2) - 1 : k = i \/ k = i + 1
        BY <2>4
      <3> QED BY <2>1, <3>1, SpecialFacts DEF Clear
    <2>7. Plain((i + 2) - 1)
      <3>1. (i + 2) - 1 \in i - 1..(i + 2) - 1 /\ i + 2 \in Nat /\ i <= i + 2
        BY <2>4
      <3> QED BY <2>4, <2>5, <2>6, <3>1, RunPlain
    <2>8. AtPlain(parse_empty(i + 2))
      BY <1>1, <2>4, <2>7, EmptyPlain DEF AtPlain
    <2> QED BY <1>3, <2>1, <2>2, <2>8
  <1> QED BY <1>4, <1>5, <1>6 DEF OpenShuffle, In, Pivot, Out

LEMMA ClosedLayout ==
  ASSUME TextInv, Layout, History(tokens, src), Covered(tokens, src), ReadFrom,
         CloseShuffle \/ EofInShuffle
  PROVE  ReadOn /\ pc' = "token" /\ text' = text
  <1>1. /\ text \in Texts /\ Nul \in Nat /\ src \in 1..Nul
        /\ \A i \in 1..Nul : at(i) # NUL => i + 1 \in 1..Nul
    BY TextFacts DEF TextInv, TypeOK
  <1>2. Balanced
    BY Zenon DEF Layout
  <1>3. pc \in {"in", "out"} /\ text' = text
    BY Zenon DEF CloseShuffle, EofInShuffle
  <1>4. /\ tokens # <<>> /\ src \in Code /\ AtPlain(src) /\ AtPlain(shuffle.end)
        /\ shuffle.end \in src + 1..Nul /\ ~Blank(shuffle.end)
    BY <1>3 DEF ReadFrom, TextInv, TypeOK, AtCode
  <1>5. CASE CloseShuffle
    <2> DEFINE i == shuffle.end
               token == tag_token("shuffle", src, i + 1)
    <2>1. Take(token) /\ at(i) # NUL /\ ~isspace(at(i))
      BY <1>5, BraceFacts, Zenon DEF CloseShuffle
    <2>2. /\ token.src = src /\ token.end = i + 1 /\ token.type = "shuffle"
      BY DEF tag_token
    <2>3. i \in src + 1..Nul /\ AtPlain(i) /\ ~Blank(i)
      BY <1>4
    <2> HIDE DEF i, token
    <2>4. i \in 1..Nul /\ i + 1 \in 1..Nul /\ (i + 1) - 1 = i
      BY <1>1, <2>1, <2>3
    <2>5. i \in Code /\ Plain(i)
      BY <1>1, <1>2, <2>1, <2>3, <2>4, CodeAt
    <2>6. Written(token)
      <3>1. src < i + 1
        BY <1>1, <2>3
      <3> QED BY <1>4, <2>2, <2>4, <2>5, <3>1 DEF Written
    <2>7. AtPlain(token.end)
      BY <2>2, <2>4, <2>5 DEF AtPlain
    <2>8. token.src \in src..Nul /\ token.end \in token.src..Nul
      BY <1>1, <2>2, <2>3, <2>4
    <2> QED BY <1>3, <1>4, <2>1, <2>2, <2>6, <2>7, <2>8, TakeLayout DEF ReadOn, Take
  <1>6. CASE EofInShuffle
    <2> DEFINE i == shuffle.end
               token == tag_token("error", src, i)
    <2>1. Take(token) /\ at(i) = NUL
      BY <1>6, Zenon DEF EofInShuffle
    <2>2. /\ token.src = src /\ token.end = i /\ token.type = "error"
      BY DEF tag_token
    <2>3. i \in src + 1..Nul /\ AtPlain(i)
      BY <1>4
    <2> HIDE DEF i, token
    <2>4. i = Nul
      BY <1>1, <2>1, <2>3, TextFacts
    <2>5. Written(token)
      <3>1. src < i
        BY <1>1, <2>3
      <3> QED BY <1>4, <2>2, <2>4, <3>1 DEF Written
    <2>6. token.src \in src..Nul /\ token.end \in token.src..Nul
      BY <1>1, <2>2, <2>3
    <2> QED BY <1>3, <1>4, <2>1, <2>2, <2>3, <2>5, <2>6, TakeLayout DEF ReadOn, Take
  <1> QED BY <1>5, <1>6

LEMMA LayoutStep ==
  ASSUME TextInv, LayoutInv, [Next]_vars
  PROVE  LayoutInv'
  <1>1. text' = text
    BY OneText
  <1> SUFFICES ASSUME Layout PROVE LayoutInv'
    BY <1>1, LayoutStays, Zenon DEF LayoutInv
  <1>2. History(tokens, src) /\ Covered(tokens, src) /\ ReadFrom
    BY DEF LayoutInv
  <1>3. text \in Texts /\ src \in 1..Nul
    BY DEF TextInv, TypeOK
  <1>4. ASSUME tokens' = tokens, src' = src, ReadFrom' PROVE LayoutInv'
    BY <1>1, <1>2, <1>4, LayoutStays DEF LayoutInv
  <1>5. ASSUME tokens' = tokens, src' = src, pc' \in {"done", "overrun"} PROVE LayoutInv'
    BY <1>4, <1>5 DEF ReadFrom
  <1>6. ASSUME Overrun PROVE LayoutInv'
    BY <1>5, <1>6 DEF Overrun
  <1>7. CASE Start
    <2>1. pc = "start" /\ TakeIndent(StartPlace)
      BY <1>7 DEF Start, StartPlace
    <2> QED BY <1>1, <1>2, <2>1, StartLayout, ReadOnLayout
  <1>8. CASE Indent
    <2>1. pc = "token" /\ kind(src) = "indent" /\ TakeIndent(src)
      BY <1>8 DEF Indent
    <2> QED BY <1>1, <1>2, <2>1, IndentLayout, ReadOnLayout
  <1>9. CASE Scan
    <2>1. /\ pc = "token" /\ at(src) # NUL /\ kind(src) \notin {"indent", "str", "shuffle"}
          /\ (scan(src).end <= Nul /\ Take(scan(src))) \/ Overrun
      BY <1>9 DEF Scan
    <2>2. CASE scan(src).end <= Nul /\ Take(scan(src))
      BY <1>1, <1>2, <2>1, <2>2, ScanLayout, ReadOnLayout DEF Take
    <2> QED BY <1>6, <2>1, <2>2
  <1>10. CASE ReadBehind
    BY <1>6, <1>10 DEF ReadBehind
  <1>11. CASE Eof
    BY <1>5, <1>11 DEF Eof
  <1>12. CASE Stopped
    BY <1>5, <1>12 DEF Stopped, vars
  <1>13. ~OpenStr
    BY <1>3, LayoutText, KindsOpen, Zenon DEF OpenStr
  <1>14. ~InStr /\ ~CloseStr /\ ~EofInStr
    BY <1>2, Zenon DEF InStr, CloseStr, EofInStr, ReadFrom
  <1>15. CASE OpenShuffle \/ In \/ Pivot \/ Out
    BY <1>2, <1>4, <1>15, DiagramLayout
  <1>16. CASE CloseShuffle \/ EofInShuffle
    BY <1>2, <1>16, ClosedLayout, ReadOnLayout
  <1>17. CASE UNCHANGED vars
    <2>1. tokens' = tokens /\ src' = src /\ pc' = pc /\ shuffle' = shuffle
      BY <1>17 DEF vars
    <2>2. ReadFrom'
      <3>1. Code' = Code /\ AtPlain(src)' = AtPlain(src') /\
            AtPlain(shuffle.end)' = AtPlain(shuffle'.end)
        BY <1>1, LayoutStays
      <3> QED BY <1>2, <2>1, <3>1 DEF ReadFrom
    <2> QED BY <1>4, <2>1, <2>2
  <1> QED BY <1>7, <1>8, <1>9, <1>10, <1>11, <1>12, <1>13, <1>14, <1>15, <1>16, <1>17,
             Zenon DEF Next

LEMMA LayoutInit ==
  ASSUME Init, TextInv
  PROVE  LayoutInv
  <1>1. tokens = <<>> /\ src = 1 /\ pc = "start" /\ DOMAIN tokens = {} /\ Len(tokens) = 0
    BY DEF Init
  <1>2. History(tokens, src) /\ ReadFrom
    BY <1>1 DEF History, ReadFrom
  <1>3. \A c \in Code : ~(c < 1)
    <2>1. DOMAIN text \in SUBSET (Nat \ {0})
      BY TextFacts DEF TextInv, TypeOK
    <2> QED BY <2>1 DEF Code
  <1> QED BY <1>1, <1>2, <1>3 DEF Covered, LayoutInv

THEOREM LayoutInvariant == Spec => []LayoutInv
  <1>1. Init => LayoutInv
    BY TextInit, LayoutInit
  <1>2. TextInv /\ LayoutInv /\ [Next]_vars => LayoutInv'
    BY LayoutStep
  <1> QED BY <1>1, <1>2, TextInvariant, PTL DEF Spec

-----------------------------------------------------------------------------
(* What the layout of a text comes to.                                     *)

(* All the code is in one token each, and words and operators are made of  *)
(* code: the functions that skip comments agree on what is one.            *)
THEOREM CodeInOneToken == Spec => []CodeInTokens
  <1>1. TextInv /\ LayoutInv => CodeInTokens
    <2> SUFFICES ASSUME TextInv, LayoutInv, Layout
                 PROVE  /\ pc = "done" =>
                             \A i \in Code : \E k \in DOMAIN tokens :
                               /\ tokens[k].src <= i /\ i < tokens[k].end
                               /\ \A l \in DOMAIN tokens \ {k} :
                                    ~(tokens[l].src <= i /\ i < tokens[l].end)
                        /\ \A k \in DOMAIN tokens :
                             tokens[k].type \in {"word", "op"} =>
                               tokens[k].src..tokens[k].end - 1 \subseteq Code
      BY Zenon DEF CodeInTokens
    <2>1. History(tokens, src) /\ Covered(tokens, src)
      BY DEF LayoutInv
    <2>2. /\ text \in Texts /\ src \in 1..Nul /\ DOMAIN tokens = 1..Len(tokens)
          /\ Len(tokens) \in Nat
          /\ \A k \in DOMAIN tokens :
               /\ tokens[k].src \in 1..src /\ tokens[k].end \in tokens[k].src..src
               /\ \A l \in DOMAIN tokens : k < l => tokens[k].end <= tokens[l].src
      BY LenProperties DEF TextInv, TypeOK
    <2>3. Nul \in Nat /\ DOMAIN text = 1..Nul - 1
      BY <2>2, TextFacts
    <2>4. ASSUME pc = "done", NEW i \in Code
          PROVE  \E k \in DOMAIN tokens :
                   /\ tokens[k].src <= i /\ i < tokens[k].end
                   /\ \A l \in DOMAIN tokens \ {k} :
                        ~(tokens[l].src <= i /\ i < tokens[l].end)
      <3>1. src = Nul
        <4>1. at(src) = NUL
          BY <2>4 DEF TextInv, AtCode
        <4> QED BY <2>2, <4>1, TextFacts
      <3>2. i \in 1..Nul - 1 /\ i < src
        BY <2>3, <3>1 DEF Code
      <3>3. PICK k \in DOMAIN tokens : tokens[k].src <= i /\ i < tokens[k].end
        BY <2>1, <3>2 DEF Covered
      <3>4. ASSUME NEW l \in DOMAIN tokens \ {k}
            PROVE  ~(tokens[l].src <= i /\ i < tokens[l].end)
        <4>1. k < l \/ l < k
          BY <2>2
        <4>2. tokens[k].end <= tokens[l].src \/ tokens[l].end <= tokens[k].src
          BY <2>2, <4>1
        <4>3. /\ tokens[k].src \in Int /\ tokens[k].end \in Int
              /\ tokens[l].src \in Int /\ tokens[l].end \in Int
          <5>1. \A m \in DOMAIN tokens : tokens[m].src \in Int /\ tokens[m].end \in Int
            BY <2>2
          <5> QED BY <5>1
        <4> QED BY <3>2, <3>3, <4>2, <4>3
      <3> QED BY <3>3, <3>4
    <2>5. ASSUME NEW k \in DOMAIN tokens, tokens[k].type \in {"word", "op"}
          PROVE  tokens[k].src..tokens[k].end - 1 \subseteq Code
      BY <2>1, <2>5 DEF History, Written
    <2> QED BY <2>4, <2>5
  <1> QED BY <1>1, TextInvariant, LayoutInvariant, PTL

(* An indentation is never followed by another one or by the end.          *)
THEOREM IndentOnlyBeforeCode == Spec => []IndentBeforeCode
  <1>1. TextInv /\ LayoutInv => IndentBeforeCode
    <2> SUFFICES ASSUME TextInv, LayoutInv, Layout, NEW k \in 2..Len(tokens),
                        tokens[k].type = "indent"
                 PROVE  /\ tokens[k - 1].type # "indent"
                        /\ k = Len(tokens) => pc # "done"
      BY Zenon DEF IndentBeforeCode
    <2>1. History(tokens, src) /\ (pc = "done" => at(src) = NUL)
      BY DEF LayoutInv, TextInv, AtCode
    <2>2. /\ k \in DOMAIN tokens /\ k - 1 \in DOMAIN tokens /\ (k - 1) + 1 = k
          /\ k # 1
      <3>1. DOMAIN tokens = 1..Len(tokens) /\ Len(tokens) \in Nat
        BY LenProperties DEF TextInv, TypeOK
      <3> QED BY <3>1
    <2>3. Indented(k, tokens[k]) /\ AfterNewLine(tokens[k])
      BY <2>1, <2>2 DEF History, Indented
    <2>4. isspace(at(tokens[k].src)) /\ at(tokens[k].end) # NUL
      BY <2>3, CharFacts DEF AfterNewLine, NewLines
    <2>5. tokens[k - 1].type # "indent"
      <3> SUFFICES ASSUME tokens[k - 1].type = "indent" PROVE FALSE
        OBVIOUS
      <3>1. Indented(k - 1, tokens[k - 1])
        BY <2>1, <2>2 DEF History
      <3>2. Joined(tokens[k - 1], tokens[k].src)
        BY <2>1, <2>2 DEF History
      <3> QED BY <2>4, <3>1, <3>2 DEF Indented, Joined
    <2>6. k = Len(tokens) => Joined(tokens[k], src)
      BY <2>1, <2>2 DEF History
    <2> QED BY <2>1, <2>4, <2>5, <2>6 DEF Joined
  <1> QED BY <1>1, TextInvariant, LayoutInvariant, PTL

(* A line that has code before its end is not empty.                       *)
LEMMA LineOfCode ==
  ASSUME text \in Texts, NEW n \in Nat, NEW j \in Code, n < j, Plain(n),
         \A k \in n + 1..j - 1 : at(k) # "\n"
  PROVE  ~is_line_empty(n + 1)
  <1>1. /\ Nul \in Nat /\ j \in 1..Nul - 1 /\ j \in DOMAIN text
        /\ j \in Nat \ {0} /\ n + 1 \in 1..Nul
    <2>1. j \in DOMAIN text /\ Nul = Len(text) + 1 /\ Len(text) \in Nat
          /\ DOMAIN text = 1..Len(text)
      BY TextFacts DEF Code
    <2> QED BY <2>1
  <1>2. Plain(j) /\ Plain(j - 1) /\ ~isspace(at(j)) /\ at(j) # ")" /\ at(j) # "("
    <2>1. Plain(j) /\ Plain(j - 1) /\ ~isspace(at(j)) /\ at(j) # ")"
      BY DEF Code
    <2>2. at(j) = "(" => Nest(j) = 1
      BY <1>1, <2>1, PlainNext
    <2> QED BY <2>1, <2>2 DEF Plain
  <1>3. \A k \in n + 1..j : at(k) # "\n"
    <2>1. \A k \in n + 1..j : k = j \/ k \in n + 1..j - 1
      BY <1>1
    <2>2. at(j) # "\n"
      BY <1>2, CharFacts
    <2> QED BY <2>1, <2>2
  <1>4. j \in n + 1..line_end(n + 1) - 1
    <2> DEFINE e == line_end(n + 1)
    <2>1. e \in n + 1..Nul /\ at(e) \in {NUL, "\n"}
      BY <1>1, LineEnds
    <2> HIDE DEF e
    <2>2. at(e) = NUL => e = Nul
      BY <1>1, <2>1, TextFacts
    <2>3. ~(e <= j)
      <3>1. e <= j => e \in n + 1..j
        BY <1>1, <2>1
      <3> QED BY <1>1, <1>3, <2>1, <2>2, <3>1
    <2>4. j \in n + 1..e - 1
      BY <1>1, <2>1, <2>3
    <2> QED BY <2>4 DEF e
  <1>5. \A k \in n + 1..j : at(k) # "#"
    <2> SUFFICES ASSUME NEW k \in n + 1..j, at(k) = "#" PROVE FALSE
      OBVIOUS
    <2>1. k \in 1..j /\ \A m \in k..j : m \in n + 1..j
      BY <1>1
    <2>2. InLine(j)
      BY <1>3, <2>1 DEF InLine
    <2> QED BY <1>2, <2>2 DEF Plain
  <1>6. depth(n + 1, j) = 0
    <2>1. n + 1 \in Nat \ {0} /\ n + 1 <= j /\ (n + 1) - 1 = n
          /\ \A k \in n + 1..j - 1 : k \in n + 1..j
      BY <1>1
    <2>2. ~InLine((n + 1) - 1) /\ Nest((n + 1) - 1) = 0 /\ Nest(j - 1) = 0
      BY <1>2, <2>1 DEF Plain
    <2>3. depth(n + 1, j) \in Int /\ Nest(j - 1) = Nest((n + 1) - 1) + depth(n + 1, j)
      BY <1>1, <1>5, <2>1, <2>2, Depths
    <2> QED BY <2>2, <2>3
  <1> QED BY <1>2, <1>4, <1>5, <1>6 DEF is_line_empty

(* The lines that a place of code starts.                                  *)
LinesOf(s) == {n \in 1..s : StartsLine(n, s)}

LEMMA LinesFacts ==
  ASSUME text \in Texts, NEW s \in Code, NEW n \in LinesOf(s)
  PROVE  /\ s \in Nat /\ n \in 1..s - 1 /\ n \in NewLines /\ n \notin Code
         /\ at(n) = "\n" /\ ~is_line_empty(n + 1)
         /\ \A j \in n + 1..s - 1 : at(j) # "\n" /\ j \notin Code
  <1>1. DOMAIN text \in SUBSET (Nat \ {0})
    BY TextFacts
  <1>2. /\ n \in 1..s /\ n < s /\ n \in NewLines
        /\ \A j \in n + 1..s - 1 : at(j) # "\n" /\ j \notin Code
    BY DEF LinesOf, StartsLine
  <1>3. s \in Nat \ {0} /\ n \in Nat \ {0} /\ n \in 1..s - 1
    BY <1>1, <1>2 DEF Code, NewLines
  <1>4. Plain(n) /\ at(n) = "\n"
    BY <1>2 DEF NewLines
  <1>5. ~is_line_empty(n + 1)
    BY <1>2, <1>3, <1>4, LineOfCode
  <1>6. n \notin Code
    BY <1>4, CharFacts DEF Code
  <1> QED BY <1>2, <1>3, <1>4, <1>5, <1>6

(* Behind a token, code is on the same line.                               *)
LEMMA SameLine ==
  ASSUME text \in Texts, NEW before, NEW s \in Code,
         Written(before), Joined(before, s), before.end \in 1..s
  PROVE  LinesOf(s) = {}
  <1> SUFFICES ASSUME NEW n \in LinesOf(s) PROVE FALSE
    OBVIOUS
  <1> DEFINE b == before.src
             e == before.end
  <1>1. /\ s \in Nat /\ n \in 1..s - 1 /\ n \in NewLines /\ n \notin Code
        /\ at(n) = "\n" /\ ~is_line_empty(n + 1)
        /\ \A j \in n + 1..s - 1 : at(j) # "\n" /\ j \notin Code
    BY LinesFacts
  <1>2. /\ b \in Code /\ b < e /\ e \in 1..s
        /\ Clear(b, e) \/ e - 1 \in Code \/ e = Nul
        /\ \A m \in e..s - 1 : Skipped(m)
    BY DEF Written, Joined
  <1>3. b \in Nat /\ s < Nul /\ Nul \in Nat
    <2>1. /\ Nul = Len(text) + 1 /\ Len(text) \in Nat /\ DOMAIN text = 1..Len(text)
          /\ b \in DOMAIN text /\ s \in DOMAIN text
      BY <1>2, TextFacts DEF Code
    <2> QED BY <2>1
  <1> HIDE DEF b, e
  <1>4. n < e
    <2>1. n \notin e..s - 1
      BY <1>1, <1>2 DEF Skipped
    <2> QED BY <1>1, <1>2, <2>1
  <1>5. b < n
    <2>1. b \notin n + 1..s - 1 /\ b # n
      BY <1>1, <1>2
    <2> QED BY <1>1, <1>2, <1>3, <2>1
  <1>6. ~Clear(b, e)
    <2>1. n \in b..e - 1
      BY <1>1, <1>2, <1>3, <1>4, <1>5
    <2> QED BY <1>1, <2>1 DEF Clear, Special
  <1>7. e - 1 \notin Code
    <2>1. e - 1 = n \/ e - 1 \in n + 1..s - 1
      BY <1>1, <1>2, <1>4
    <2> QED BY <1>1, <2>1
  <1> QED BY <1>1, <1>2, <1>3, <1>6, <1>7

(* Behind an indentation that begins with a new line, code is on that      *)
(* line.                                                                   *)
LEMMA NextLine ==
  ASSUME text \in Texts, NEW before, NEW s \in Code,
         AfterNewLine(before), before.end = s
  PROVE  /\ LinesOf(s) # {}
         /\ \A n \in LinesOf(s) : before.indent = s - n - 1
  <1> DEFINE b == before.src
  <1>1. /\ b \in NewLines /\ b < s /\ before.indent = s - b - 1
        /\ \A m \in b + 1..s - 1 : at(m) # "\n" /\ m \notin Code
    BY DEF AfterNewLine
  <1>2. b \in Nat \ {0} /\ s \in Nat /\ at(b) = "\n"
    <2>1. DOMAIN text \in SUBSET (Nat \ {0}) /\ b \in DOMAIN text /\ s \in DOMAIN text
      BY <1>1, TextFacts DEF NewLines, Code
    <2> QED BY <1>1, <2>1 DEF NewLines
  <1> HIDE DEF b
  <1>3. b \in LinesOf(s)
    BY <1>1, <1>2 DEF LinesOf, StartsLine
  <1>4. ASSUME NEW n \in LinesOf(s) PROVE n = b
    <2>1. /\ n \in 1..s - 1 /\ at(n) = "\n"
          /\ \A j \in n + 1..s - 1 : at(j) # "\n"
      BY LinesFacts
    <2>2. n < b => b \in n + 1..s - 1
      BY <1>1, <1>2, <2>1
    <2>3. b < n => n \in b + 1..s - 1
      BY <1>1, <1>2, <2>1
    <2> QED BY <1>1, <1>2, <2>1, <2>2, <2>3
  <1> QED BY <1>1, <1>3, <1>4

(* The first code of a text.                                               *)
LEMMA FirstLine ==
  ASSUME text \in Texts, NEW before, NEW s \in Code,
         OnFirstLine(before), before.end = s
  PROVE  LinesOf(s) = {} /\ before.indent = FirstColumn(s)
  <1>1. s \in Nat \ {0}
    <2>1. DOMAIN text \in SUBSET (Nat \ {0}) /\ s \in DOMAIN text
      BY TextFacts DEF Code
    <2> QED BY <2>1
  <1>2. CASE before.indent = s - 1 /\ \A m \in 1..s - 1 : at(m) # "\n"
    <2>1. LinesOf(s) = {}
      BY <1>2, LinesFacts
    <2> QED BY <1>2, <2>1 DEF FirstColumn
  <1>3. CASE before.indent = 0 /\ is_line_empty(1) /\ \A m \in 1..s - 1 : Skipped(m)
    <2>1. LinesOf(s) = {}
      BY <1>3, LinesFacts DEF Skipped
    <2>2. \E j \in 1..s - 1 : at(j) = "\n"
      <3> SUFFICES ASSUME \A j \in 1..s - 1 : at(j) # "\n" PROVE FALSE
        OBVIOUS
      <3>1. 0 \in Nat /\ 0 < s /\ 0 + 1 = 1 /\ \A k \in 0 + 1..s - 1 : at(k) # "\n"
        BY <1>1
      <3>2. ~is_line_empty(0 + 1)
        BY <3>1, PlainStart, LineOfCode
      <3> QED BY <1>3, <3>1, <3>2
    <2> QED BY <1>3, <2>1, <2>2 DEF FirstColumn
  <1> QED BY <1>2, <1>3 DEF OnFirstLine

(* Indentations follow the lines that the code of a text is on.            *)
THEOREM LayoutOfLines == Spec => []LayoutFollowsLines
  <1>1. TextInv /\ LayoutInv => LayoutFollowsLines
    <2> SUFFICES ASSUME TextInv, LayoutInv, Layout, NEW k \in 2..Len(tokens),
                        tokens[k].type # "indent"
                 PROVE  LET token == tokens[k]
                            before == tokens[k - 1]
                            lines == {n \in 1..token.src : StartsLine(n, token.src)}
                        IN  /\ k > 2 => (before.type = "indent" <=> lines # {})
                            /\ before.type = "indent" =>
                                 IF lines = {} THEN before.indent = FirstColumn(token.src)
                                 ELSE \A n \in lines : before.indent = token.src - n - 1
      BY Zenon DEF LayoutFollowsLines
    <2> DEFINE s == tokens[k].src
               before == tokens[k - 1]
    <2>1. History(tokens, src) /\ text \in Texts
      BY DEF LayoutInv, TextInv, TypeOK
    <2>2. /\ k \in DOMAIN tokens /\ k - 1 \in DOMAIN tokens /\ (k - 1) + 1 = k
          /\ k \in Nat /\ k - 1 < k
      <3>1. DOMAIN tokens = 1..Len(tokens) /\ Len(tokens) \in Nat
        BY LenProperties DEF TextInv, TypeOK
      <3> QED BY <3>1
    <2>3. s \in Code
      BY <2>1, <2>2 DEF History, Written
    <2>4. before.end \in 1..s
      <3>1. \A l \in DOMAIN tokens : tokens[l].src \in Nat /\ tokens[l].end \in Nat \ {0}
        BY TextFacts DEF TextInv, TypeOK
      <3>2. tokens[k - 1].end <= tokens[k].src
        BY <2>2 DEF TextInv, TypeOK
      <3> QED BY <2>2, <3>1, <3>2
    <2>5. Joined(before, s)
      BY <2>1, <2>2 DEF History
    <2>6. IF before.type = "indent" THEN Indented(k - 1, before) ELSE Written(before)
      BY <2>1, <2>2 DEF History
    <2> HIDE DEF s, before
    <2>7. CASE before.type # "indent"
      <3>1. LinesOf(s) = {}
        BY <2>1, <2>3, <2>4, <2>5, <2>6, <2>7, SameLine
      <3> QED BY <2>7, <3>1 DEF LinesOf, s, before
    <2>8. CASE before.type = "indent" /\ AfterNewLine(before)
      <3>1. before.end = s
        BY <2>5, <2>8 DEF Joined
      <3>2. LinesOf(s) # {} /\ \A n \in LinesOf(s) : before.indent = s - n - 1
        BY <2>1, <2>3, <2>8, <3>1, NextLine
      <3> QED BY <2>8, <3>2 DEF LinesOf, s, before
    <2>9. CASE before.type = "indent" /\ k - 1 = 1 /\ OnFirstLine(before)
      <3>1. before.end = s
        BY <2>5, <2>9 DEF Joined
      <3>2. LinesOf(s) = {} /\ before.indent = FirstColumn(s)
        BY <2>1, <2>3, <2>9, <3>1, FirstLine
      <3>3. ~(k > 2)
        BY <2>2, <2>9
      <3> QED BY <3>2, <3>3 DEF LinesOf, s, before
    <2> QED BY <2>6, <2>7, <2>8, <2>9 DEF Indented
  <1> QED BY <1>1, TextInvariant, LayoutInvariant, PTL

-----------------------------------------------------------------------------
(* Quotes.                                                                 *)

Quote == {"'", "\""}

(* The characters that mean something in quotes.                           *)
Marks == {"'", "\"", "\\"}

LEMMA QuoteFacts ==
  /\ \A c \in Quote : /\ c \in Marks /\ c # "\\" /\ c # NUL /\ ~isspace(c)
                      /\ c \notin op_list /\ c # "-" /\ c # "." /\ c # "0" /\ c # "{"
  /\ "\\" \in Marks /\ NUL \notin Marks
  /\ \A c \in Marks : c = "\\" \/ c \in Quote
  /\ \A c \in {"x", "X", "u", "U"} : c \notin Marks
  BY Zenon DEF Quote, Marks, isspace, op_list, NUL

(* No quote and no backslash is a digit.                                   *)
LEMMA MarksNoDigits ==
  ASSUME NEW c \in Marks
  PROVE  ~is_digit(c, 10)
  <1>1. Ascii[3] = "\"" /\ Ascii[8] = "'" /\ Ascii[61] = "\\"
    BY DEF Ascii
  <1>2. /\ Ascii[17] = "0" /\ Ascii[26] = "9" /\ Ascii[34] = "A" /\ Ascii[66] = "a"
        /\ Ascii[39] = "F" /\ Ascii[71] = "f"
    BY DEF Ascii
  <1>3. /\ Ascii[1] # "0" /\ Ascii[2] # "0" /\ Ascii[3] # "0" /\ Ascii[4] # "0"
        /\ Ascii[5] # "0" /\ Ascii[6] # "0" /\ Ascii[7] # "0" /\ Ascii[8] # "0"
        /\ Ascii[9] # "0" /\ Ascii[10] # "0"
    BY DEF Ascii
  <1>4. /\ Ascii[1] # "\\" /\ Ascii[2] # "\\" /\ Ascii[3] # "\\" /\ Ascii[4] # "\\"
        /\ Ascii[5] # "\\" /\ Ascii[6] # "\\" /\ Ascii[7] # "\\" /\ Ascii[8] # "\\"
        /\ Ascii[9] # "\\" /\ Ascii[10] # "\\" /\ Ascii[11] # "\\" /\ Ascii[12] # "\\"
        /\ Ascii[13] # "\\" /\ Ascii[14] # "\\" /\ Ascii[15] # "\\" /\ Ascii[16] # "\\"
        /\ Ascii[17] # "\\" /\ Ascii[18] # "\\" /\ Ascii[19] # "\\" /\ Ascii[20] # "\\"
        /\ Ascii[21] # "\\" /\ Ascii[22] # "\\" /\ Ascii[23] # "\\" /\ Ascii[24] # "\\"
        /\ Ascii[25] # "\\" /\ Ascii[26] # "\\"
    BY DEF Ascii
  <1>5. /\ Printed("0") /\ Printed("9") /\ Printed("A") /\ Printed("a")
        /\ Printed("F") /\ Printed("f")
    BY Zenon DEF High, Printed
  <1>6. Printed("\"") /\ Printed("'") /\ Printed("\\")
    BY Zenon DEF High, Printed
  <1> HIDE DEF Ascii
  <1>7. NotBefore("0", 11)
    <2>1. \A m \in 1..11 - 1 : \/ m = 1 \/ m = 2 \/ m = 3 \/ m = 4 \/ m = 5
                               \/ m = 6 \/ m = 7 \/ m = 8 \/ m = 9 \/ m = 10
      OBVIOUS
    <2> QED BY <1>3, <2>1, Zenon DEF NotBefore
  <1>8. NotBefore("\\", 27)
    <2>1. \A m \in 1..27 - 1 :
             \/ m = 1 \/ m = 2 \/ m = 3 \/ m = 4 \/ m = 5 \/ m = 6 \/ m = 7 \/ m = 8
             \/ m = 9 \/ m = 10 \/ m = 11 \/ m = 12 \/ m = 13 \/ m = 14 \/ m = 15
             \/ m = 16 \/ m = 17 \/ m = 18 \/ m = 19 \/ m = 20 \/ m = 21 \/ m = 22
             \/ m = 23 \/ m = 24 \/ m = 25 \/ m = 26
      OBVIOUS
    <2> QED BY <1>4, <2>1, Zenon DEF NotBefore
  <1>9. \A d : NotBefore(d, 1)
    BY DEF NotBefore
  <1>10. ByteIn("0", 11, 17)
    BY <1>2, <1>5, <1>7, AsciiByte
  <1>11. ByteIn("9", 1, 26)
    BY <1>2, <1>5, <1>9, AsciiByte
  <1>12. ByteIn("A", 1, 34) /\ ByteIn("a", 1, 66)
    <2>1. ByteIn("A", 1, 34)
      <3>1. 1 \in Nat \ {0} /\ 34 \in Nat /\ 1 <= 34 /\ 34 <= 95
        OBVIOUS
      <3> QED BY <1>2, <1>5, <1>9, <3>1, AsciiByte, Zenon
    <2>2. ByteIn("a", 1, 66)
      <3>1. 1 \in Nat \ {0} /\ 66 \in Nat /\ 1 <= 66 /\ 66 <= 95
        OBVIOUS
      <3> QED BY <1>2, <1>5, <1>9, <3>1, AsciiByte, Zenon
    <2> QED BY <2>1, <2>2
  <1>13. ByteIn("F", 1, 39) /\ ByteIn("f", 1, 71)
    <2>1. ByteIn("F", 1, 39)
      <3>1. 1 \in Nat \ {0} /\ 39 \in Nat /\ 1 <= 39 /\ 39 <= 95
        OBVIOUS
      <3> QED BY <1>2, <1>5, <1>9, <3>1, AsciiByte, Zenon
    <2>2. ByteIn("f", 1, 71)
      <3>1. 1 \in Nat \ {0} /\ 71 \in Nat /\ 1 <= 71 /\ 71 <= 95
        OBVIOUS
      <3> QED BY <1>2, <1>5, <1>9, <3>1, AsciiByte, Zenon
    <2> QED BY <2>1, <2>2
  <1>14. ByteIn("\"", 1, 3)
    <2>1. 1 \in Nat \ {0} /\ 3 \in Nat /\ 1 <= 3 /\ 3 <= 95
      OBVIOUS
    <2> QED BY <1>1, <1>6, <1>9, <2>1, AsciiByte, Zenon
  <1>15. ByteIn("'", 1, 8)
    <2>1. 1 \in Nat \ {0} /\ 8 \in Nat /\ 1 <= 8 /\ 8 <= 95
      OBVIOUS
    <2> QED BY <1>1, <1>6, <1>9, <2>1, AsciiByte, Zenon
  <1>16. ByteIn("\\", 27, 61)
    <2>1. 27 \in Nat \ {0} /\ 61 \in Nat /\ 27 <= 61 /\ 61 <= 95
      OBVIOUS
    <2> QED BY <1>1, <1>6, <1>8, <2>1, AsciiByte, Zenon
  <1>17. c \in DOMAIN Byte /\ Byte[c] \in (32..39) \union (58..92)
    <2>1. Byte["\""] \in 32..34 /\ Byte["'"] \in 32..39 /\ Byte["\\"] \in 58..92
          /\ {"\"", "'", "\\"} \subseteq DOMAIN Byte
      <3>1. 31 + 1 = 32 /\ 31 + 3 = 34 /\ 31 + 8 = 39 /\ 31 + 27 = 58 /\ 31 + 61 = 92
        OBVIOUS
      <3> QED BY <1>14, <1>15, <1>16, <3>1, Zenon DEF ByteIn
    <2>2. CASE c = "'"
      BY <2>1, <2>2
    <2>3. CASE c = "\\"
      BY <2>1, <2>3
    <2>4. CASE c # "'" /\ c # "\\"
      <3> DEFINE q == "\""
      <3>1. c = q
        BY <2>4, Zenon DEF Marks
      <3>2. Byte[q] \in 32..34 /\ q \in DOMAIN Byte
        BY <2>1, Zenon
      <3> HIDE DEF q
      <3> QED BY <3>1, <3>2
    <2> QED BY <2>2, <2>3, <2>4
  <1>18. Byte["0"] \in 42..48 /\ Byte["9"] \in 32..57 /\ Byte["a"] \in 32..97
         /\ Byte["A"] \in 32..65 /\ Byte["f"] \in Int /\ Byte["F"] \in Int
    BY <1>10, <1>11, <1>12, <1>13 DEF ByteIn
  <1>19. Digit[c] \in Int /\ Digit[c] >= 10
    <2> DEFINE digit(first, last) == Byte[c] \in Byte[first]..Byte[last]
    <2>1. Digit[c] = CASE digit("0", "9") -> Byte[c] - Byte["0"]
                       [] digit("a", "f") -> Byte[c] - Byte["a"] + 10
                       [] digit("A", "F") -> Byte[c] - Byte["A"] + 10
                       [] OTHER -> 16
      BY <1>17, Zenon DEF Digit
    <2>2. ~digit("0", "9")
      BY <1>17, <1>18
    <2> QED BY <1>17, <1>18, <2>1, <2>2
  <1> QED BY <1>19 DEF is_digit

(* Where no byte is above 127, every character is one byte wide.           *)
Narrow == ToSet(text) \intersect DOMAIN High = {}

(* The bits of a byte.                                                     *)
LEMMA BitsAre ==
  ASSUME NEW n \in Nat
  PROVE  /\ Bits(n) \subseteq 0..7
         /\ (0 \in Bits(n) <=> n % 2 = 1) /\ (1 \in Bits(n) <=> (n \div 2) % 2 = 1)
         /\ (2 \in Bits(n) <=> (n \div 4) % 2 = 1) /\ (3 \in Bits(n) <=> (n \div 8) % 2 = 1)
         /\ (4 \in Bits(n) <=> (n \div 16) % 2 = 1) /\ (5 \in Bits(n) <=> (n \div 32) % 2 = 1)
         /\ (6 \in Bits(n) <=> (n \div 64) % 2 = 1) /\ (7 \in Bits(n) <=> (n \div 128) % 2 = 1)
  <1>1. /\ 2^0 = 1 /\ 2^1 = 2 /\ 2^2 = 4 /\ 2^3 = 8 /\ 2^4 = 16 /\ 2^5 = 32 /\ 2^6 = 64
        /\ 2^7 = 128
    OBVIOUS
  <1>2. n \div 1 = n
    OBVIOUS
  <1> QED BY <1>1, <1>2 DEF Bits

(* The bytes of a text, but for the NUL.                                   *)
LEMMA LowBytes ==
  ASSUME NEW c \in DOMAIN Byte \ DOMAIN High
  PROVE  Byte[c] \in 9..126 /\ 7 \notin Bits(Byte[c]) /\ Bits(Byte[c]) # {}
  <1>1. Byte[c] \in 9..126
    <2>1. DOMAIN Byte = {"\t", "\n", "\r"} \union ToSet(Ascii) \union DOMAIN High
      BY DEF Byte
    <2>2. CASE c \in {"\t", "\n", "\r"}
      <3>1. Byte[c] = 9 \/ Byte[c] = 10 \/ Byte[c] = 13
        BY <2>2, Zenon DEF Byte
      <3> QED BY <3>1
    <2>3. CASE c \in ToSet(Ascii) /\ c \notin {"\t", "\n", "\r"}
      <3>1. PICK n \in 1..95 : c = Ascii[n]
        BY <2>3, AsciiDomain DEF ToSet
      <3>2. ByteIn(c, 1, n)
        <4>1. Printed(c)
          BY <2>3 DEF Printed
        <4>2. NotBefore(c, 1)
          BY DEF NotBefore
        <4> QED BY <3>1, <4>1, <4>2, AsciiByte
      <3> QED BY <3>1, <3>2 DEF ByteIn
    <2> QED BY <2>1, <2>2, <2>3
  <1>2. 7 \notin Bits(Byte[c])
    <2>1. (Byte[c] \div 128) % 2 = 0
      BY <1>1
    <2> QED BY <1>1, <2>1, BitsAre
  <1>3. Bits(Byte[c]) # {}
    <2>1. ASSUME NEW n \in 9..126
          PROVE  \/ n % 2 = 1 \/ (n \div 2) % 2 = 1 \/ (n \div 4) % 2 = 1
                 \/ (n \div 8) % 2 = 1 \/ (n \div 16) % 2 = 1 \/ (n \div 32) % 2 = 1
                 \/ (n \div 64) % 2 = 1
      OBVIOUS
    <2>2. Byte[c] \in Nat
      BY <1>1
    <2> QED BY <1>1, <2>1, <2>2, BitsAre
  <1> QED BY <1>1, <1>2, <1>3

LEMMA OneByte ==
  ASSUME text \in Texts, signed \in BOOLEAN, Narrow, NEW i \in 1..Nul, at(i) # NUL
  PROVE  parse_utf8(i).end = i + 1
  <1> DEFINE c == at(i)
             s == <<word(i), word(i + 1), word(i + 2), word(i + 3)>>
             wide == {width \in 2..4 : s[1] \intersect Mask[width] = Lead[width]}
             width == char_get_utf8_width(s)
  <1>1. c \in DOMAIN Byte /\ c \notin DOMAIN High
    BY TextFacts DEF Narrow, ToSet
  <1>2. 7 \notin Bits(Byte[c])
    BY <1>1, LowBytes
  <1>3. s[1] = word(i) /\ word(i) = Bits(Byte[c])
    <2>1. word(i) = Word32[c][signed]
      BY DEF word
    <2>2. Word32[c][signed] = Bits(Byte[c])
      BY <1>1, <1>2 DEF Word32
    <2> QED BY <2>1, <2>2
  <1>4. 7 \in Lead[2] /\ 7 \in Lead[3] /\ 7 \in Lead[4]
    <2>1. 2^7 = 128 /\ 7 \in 0..7
      OBVIOUS
    <2>2. (192 \div 128) % 2 = 1 /\ (224 \div 128) % 2 = 1 /\ (240 \div 128) % 2 = 1
      OBVIOUS
    <2>3. 7 \in Bits(192) /\ 7 \in Bits(224) /\ 7 \in Bits(240)
      BY <2>1, <2>2 DEF Bits
    <2> QED BY <2>3 DEF Lead
  <1>5. wide = {}
    <2> SUFFICES ASSUME NEW w \in 2..4, s[1] \intersect Mask[w] = Lead[w] PROVE FALSE
      OBVIOUS
    <2>1. 7 \in Lead[w]
      BY <1>4
    <2> QED BY <1>2, <1>3, <2>1
  <1>6. width = 1
    <2>1. 7 \notin s[1]
      BY <1>2, <1>3
    <2> HIDE DEF s
    <2> QED BY <1>5, <2>1 DEF char_get_utf8_width
  <1> HIDE DEF width, s
  <1>7. parse_utf8(i) = tag_char(i, i + width, char_read_n(s, width))
    BY <1>6 DEF parse_utf8, width, s
  <1> QED BY <1>6, <1>7 DEF tag_char

(* The backslashes right before a place, those before b not counted, and   *)
(* whether their number is even: then the last one escapes nothing.        *)
Backslashes(b, j) == {k \in b..j - 1 : \A l \in k..j - 1 : at(l) = "\\"}

Even(b, j) == Cardinality(Backslashes(b, j)) % 2 = 0

LEMMA Escapes ==
  ASSUME NEW b \in Nat, NEW j \in Nat, b <= j
  PROVE  /\ Even(b, b)
         /\ at(j) = "\\" => (Even(b, j + 1) <=> ~Even(b, j))
         /\ at(j) # "\\" => Even(b, j + 1)
  <1> DEFINE S == Backslashes(b, j)
             T == Backslashes(b, j + 1)
  <1>1. Cardinality({}) = 0
    BY FS_EmptySet
  <1>2. Even(b, b)
    <2>1. Backslashes(b, b) = {}
      BY DEF Backslashes
    <2> QED BY <1>1, <2>1 DEF Even
  <1>3. IsFiniteSet(S) /\ Cardinality(S) \in Nat
    <2>1. IsFiniteSet(b..j - 1) /\ S \subseteq b..j - 1
      BY FS_Interval DEF Backslashes
    <2> QED BY <2>1, FS_Subset, FS_CardinalityType
  <1>4. ASSUME at(j) = "\\" PROVE T = S \union {j} /\ j \notin S
    <2>1. j \notin S
      BY DEF Backslashes
    <2>2. ASSUME NEW k PROVE k \in T <=> k \in S \/ k = j
      <3>1. CASE k \in b..j - 1
        <4>1. \A l : l \in k..(j + 1) - 1 <=> l \in k..j - 1 \/ l = j
          BY <3>1
        <4> QED BY <1>4, <3>1, <4>1 DEF Backslashes
      <3>2. CASE k = j
        <4>1. \A l : l \in j..(j + 1) - 1 => l = j
          OBVIOUS
        <4> QED BY <1>4, <3>2, <4>1 DEF Backslashes
      <3>3. CASE k \notin b..j - 1 /\ k # j
        BY <3>3 DEF Backslashes
      <3> QED BY <3>1, <3>2, <3>3
    <2> QED BY <2>1, <2>2
  <1>5. ASSUME at(j) # "\\" PROVE T = {}
    <2> SUFFICES ASSUME NEW k \in T PROVE FALSE
      OBVIOUS
    <2>1. k \in b..(j + 1) - 1 /\ \A l \in k..(j + 1) - 1 : at(l) = "\\"
      BY DEF Backslashes
    <2>2. j \in k..(j + 1) - 1
      BY <2>1
    <2> QED BY <1>5, <2>1, <2>2
  <1> HIDE DEF S, T
  <1>6. ASSUME at(j) = "\\" PROVE Cardinality(T) = Cardinality(S) + 1
    BY <1>3, <1>4, <1>6, FS_AddElement
  <1>7. at(j) = "\\" => (Even(b, j + 1) <=> ~Even(b, j))
    <2> SUFFICES ASSUME at(j) = "\\" PROVE Even(b, j + 1) <=> ~Even(b, j)
      OBVIOUS
    <2>1. \A n \in Nat : (n + 1) % 2 = 0 <=> ~(n % 2 = 0)
      OBVIOUS
    <2>2. (Cardinality(S) + 1) % 2 = 0 <=> ~(Cardinality(S) % 2 = 0)
      BY <1>3, <2>1
    <2> QED BY <1>6, <2>2 DEF Even, S, T
  <1>8. at(j) # "\\" => Even(b, j + 1)
    <2>1. 0 % 2 = 0
      OBVIOUS
    <2> QED BY <1>1, <1>5, <2>1 DEF Even, T
  <1> QED BY <1>2, <1>7, <1>8

(* A place at which a character may begin: nothing there is escaped.       *)
Free(b, j) == at(j) \in Marks => Even(b, j)

(* What ends a string or a character.                                      *)
Ends(b, j, quote) == at(j) = quote /\ Even(b, j)

NoneEnds(b, i, j, quote) == \A k \in i..j - 1 : ~Ends(b, k, quote)

(* From a free place, a character that is read goes on to the next one, and *)
(* no quote that ends something is in between.                             *)
LEMMA BareStep ==
  ASSUME text \in Texts, signed \in BOOLEAN, Narrow, NEW b \in 1..Nul, NEW i \in b..Nul,
         at(i) # NUL, Free(b, i), NEW quote \in Quote,
         parse_char_bare(i).end <= Nul
  PROVE  /\ Free(b, parse_char_bare(i).end)
         /\ NoneEnds(b, i + 1, parse_char_bare(i).end, quote)
  <1> DEFINE token == parse_char_bare(i)
  <1>1. Nul \in Nat /\ b \in Nat /\ i \in Nat /\ b <= i /\ i \in 1..Nul
    BY TextFacts
  <1>2. token = CASE at(i) = "\\" /\ is_hex_esc(i) -> parse_hex_esc(i)
                  [] at(i) = "\\" /\ is_dec_esc(i) -> parse_dec_esc(i)
                  [] at(i) = "\\" /\ ~is_hex_esc(i) /\ ~is_dec_esc(i) -> parse_char_esc(i)
                  [] OTHER -> parse_utf8(i)
    BY DEF parse_char_bare
  <1> HIDE DEF token
  <1>3. CASE token = parse_hex_esc(i) /\ is_hex_esc(i)
    <2>1. token.end = i + 1
      BY <1>3 DEF parse_hex_esc, tag_token
    <2>2. at(i + 1) \notin Marks
      BY <1>3, QuoteFacts DEF is_hex_esc
    <2>3. NoneEnds(b, i + 1, i + 1, quote)
      BY <1>1 DEF NoneEnds
    <2> QED BY <2>1, <2>2, <2>3 DEF Free, token
  <1>4. CASE token = parse_dec_esc(i) /\ is_dec_esc(i)
    <2> DEFINE end == IF is_digit(at(i + 2), 10) THEN i + 3 ELSE i + 2
               inum == FoldLeft(LAMBDA n, c : 10 * n + Digit[c], Digit[at(i + 1)],
                                SubSeq(text, i + 1, end - 1))
    <2>1. token = IF inum > 255 THEN tag_token("error", i, end)
                  ELSE tag_char(i, end, Bits(inum))
      BY <1>4 DEF parse_dec_esc
    <2>2. token.end = end
      <3> HIDE DEF end, inum
      <3> QED BY <2>1 DEF tag_token, tag_char
    <2>3. \A k \in i + 1..end - 1 : at(k) \notin Marks
      <3>1. is_digit(at(i + 1), 10)
        BY <1>4 DEF is_dec_esc
      <3>2. \A k \in i + 1..end - 1 : k = i + 1 \/ (k = i + 2 /\ is_digit(at(i + 2), 10))
        BY <1>1
      <3> HIDE DEF end
      <3>3. at(i + 1) \notin Marks
        BY <3>1, MarksNoDigits
      <3>4. is_digit(at(i + 2), 10) => at(i + 2) \notin Marks
        BY MarksNoDigits
      <3> QED BY <3>2, <3>3, <3>4
    <2>4. end - 1 \in i + 1..end - 1 /\ end - 1 \in Nat /\ b <= end - 1 /\ (end - 1) + 1 = end
      BY <1>1
    <2> HIDE DEF end
    <2>5. at(end - 1) # "\\"
      BY <2>3, <2>4, QuoteFacts
    <2>6. Even(b, end)
      BY <1>1, <2>4, <2>5, Escapes
    <2>7. NoneEnds(b, i + 1, end, quote)
      BY <2>3, QuoteFacts DEF NoneEnds, Ends
    <2> QED BY <2>2, <2>6, <2>7 DEF Free, token
  <1>5. CASE token = parse_char_esc(i) /\ at(i) = "\\"
    <2>1. token.end = i + 2
      BY <1>5 DEF parse_char_esc, tag_char
    <2>2. Even(b, i)
      BY <1>5, QuoteFacts DEF Free
    <2>3. ~Even(b, i + 1)
      BY <1>1, <1>5, <2>2, Escapes
    <2>4. Even(b, (i + 1) + 1)
      <3>1. i + 1 \in Nat /\ b <= i + 1
        BY <1>1
      <3> QED BY <1>1, <2>3, <3>1, Escapes
    <2>5. NoneEnds(b, i + 1, i + 2, quote)
      <3>1. \A k \in i + 1..(i + 2) - 1 : k = i + 1
        BY <1>1
      <3> QED BY <2>3, <3>1 DEF NoneEnds, Ends
    <2>6. (i + 1) + 1 = i + 2
      BY <1>1
    <2> QED BY <2>1, <2>4, <2>5, <2>6 DEF Free, token
  <1>6. CASE token = parse_utf8(i) /\ at(i) # "\\"
    <2>1. token.end = i + 1
      BY <1>1, <1>6, OneByte
    <2>2. Even(b, i + 1)
      BY <1>1, <1>6, Escapes
    <2>3. NoneEnds(b, i + 1, i + 1, quote)
      BY <1>1 DEF NoneEnds
    <2> QED BY <2>1, <2>2, <2>3 DEF Free, token
  <1>7. \/ token = parse_hex_esc(i) /\ is_hex_esc(i)
        \/ token = parse_dec_esc(i) /\ is_dec_esc(i)
        \/ token = parse_char_esc(i) /\ at(i) = "\\"
        \/ token = parse_utf8(i) /\ at(i) # "\\"
    BY <1>2
  <1> QED BY <1>3, <1>4, <1>5, <1>6, <1>7

(* From a free place on: ended by the first quote that ends it, or the NUL. *)
Closed(b, i, quote, end) ==
  \/ end = Nul /\ NoneEnds(b, i, Nul, quote)
  \/ end - 1 \in i..Nul - 1 /\ Ends(b, end - 1, quote) /\ NoneEnds(b, i, end - 1, quote)

(* No quote that ends something before a place changes nothing for it.     *)
LEMMA ClosedBefore ==
  ASSUME NEW n \in Nat, Nul = n, NEW i \in Nat, NEW j \in i..n, NEW b, NEW quote, NEW end,
         NoneEnds(b, i, j, quote), Closed(b, j, quote, end)
  PROVE  Closed(b, i, quote, end)
  <1>1. ASSUME NEW m \in Int, NoneEnds(b, j, m, quote) PROVE NoneEnds(b, i, m, quote)
    <2>1. \A k \in i..m - 1 : k \in i..j - 1 \/ k \in j..m - 1
      OBVIOUS
    <2> QED BY <1>1, <2>1 DEF NoneEnds
  <1>2. \A m : m \in j..n - 1 => m \in i..n - 1 /\ m \in Int
    OBVIOUS
  <1> QED BY <1>1, <1>2 DEF Closed

LEMMA CharCloses ==
  ASSUME text \in Texts, NEW b \in 1..Nul, NEW i \in b..Nul, Free(b, i)
  PROVE  Closed(b, i, "'", char_end(i))
  <1> DEFINE D == i..Nul
  <1>1. /\ Nul \in Nat /\ b \in Nat /\ i \in Nat /\ b <= i /\ i \in 1..Nul
        /\ i \in D /\ D \in SUBSET (0..Nul)
        /\ \A j \in D : at(j) = NUL <=> j = Nul
        /\ \A j \in D : at(j) # NUL => j + 1 \in D
    BY TextFacts
  <1>2. PICK e : char_end(i) = e[i] /\ IsCharEnd(e, i)
    BY <1>1, CharEndUnfolds
  <1> DEFINE Bad == {j \in D : Free(b, j) /\ ~Closed(b, j, "'", e[j])}
  <1>3. Bad = {}
    <2> SUFFICES ASSUME Bad # {} PROVE FALSE
      OBVIOUS
    <2>1. PICK j \in Bad : \A m \in Bad : m <= j
      <3>1. Bad \in SUBSET (0..Nul)
        BY <1>1
      <3> HIDE DEF Bad
      <3> QED BY <1>1, <3>1, LastPlace
    <2>2. e[j] = CASE at(j) = "\\" -> IF at(j + 1) = NUL THEN Nul ELSE e[j + 2]
                   [] at(j) = "'"  -> j + 1
                   [] at(j) = NUL  -> j
                   [] OTHER        -> e[j + 1]
      BY <1>2, <2>1 DEF IsCharEnd
    <2>3. j \in D /\ j \in Nat /\ b <= j /\ Free(b, j) /\ ~Closed(b, j, "'", e[j])
      BY <1>1, <2>1
    <2>4. ASSUME NEW m \in D, m > j, Free(b, m) PROVE Closed(b, m, "'", e[m])
      <3>1. ~(m <= j)
        BY <1>1, <2>3, <2>4
      <3>2. m \notin Bad
        BY <2>1, <3>1
      <3> QED BY <2>4, <3>2
    <2> HIDE DEF Bad, D
    <2>5. CASE at(j) = "\\"
      <3>1. j + 1 \in D /\ j + 1 \in Nat /\ b <= j + 1
        BY <1>1, <2>3, <2>5, CharFacts
      <3>2. Even(b, j) /\ ~Even(b, j + 1)
        BY <1>1, <2>3, <2>5, Escapes, QuoteFacts DEF Free
      <3>3. NoneEnds(b, j, j + 2, "'")
        <4>1. \A k \in j..(j + 2) - 1 : k = j \/ k = j + 1
          BY <2>3
        <4> QED BY <2>5, <3>2, <4>1, QuoteFacts DEF NoneEnds, Ends, Quote
      <3>4. CASE at(j + 1) = NUL
        <4>1. e[j] = Nul /\ Nul = j + 1
          BY <1>1, <2>2, <2>5, <3>1, <3>4, CharFacts
        <4>2. NoneEnds(b, j, Nul, "'")
          <5>1. \A k \in j..Nul - 1 : k \in j..(j + 2) - 1
            BY <1>1, <2>3, <4>1
          <5> QED BY <3>3, <5>1 DEF NoneEnds
        <4> QED BY <2>3, <4>1, <4>2 DEF Closed
      <3>5. CASE at(j + 1) # NUL
        <4>1. (j + 1) + 1 \in D /\ (j + 1) + 1 = j + 2
          BY <1>1, <2>3, <3>1, <3>5
        <4>2. Even(b, j + 2)
          BY <1>1, <3>1, <3>2, <4>1, Escapes
        <4>3. e[j] = e[j + 2]
          BY <2>2, <2>5, <3>5, CharFacts
        <4>4. Closed(b, j + 2, "'", e[j + 2])
          <5>1. j + 2 > j /\ j + 2 \in D
            BY <2>3, <4>1
          <5> QED BY <2>4, <4>2, <5>1 DEF Free
        <4>5. j + 2 \in j..Nul
          BY <2>3, <4>1 DEF D
        <4> QED BY <1>1, <2>3, <3>3, <4>3, <4>5, <4>4, ClosedBefore
      <3> QED BY <3>4, <3>5
    <2>6. CASE at(j) = "'"
      <3>1. j + 1 \in D
        BY <1>1, <2>3, <2>6, CharFacts
      <3>2. e[j] = j + 1
        BY <2>2, <2>6, CharFacts
      <3>3. Ends(b, j, "'")
        BY <2>3, <2>6 DEF Free, Marks, Ends
      <3>4. (j + 1) - 1 = j /\ j \in j..Nul - 1 /\ NoneEnds(b, j, j, "'")
        BY <1>1, <2>3, <3>1 DEF D, NoneEnds
      <3> QED BY <2>3, <3>2, <3>3, <3>4 DEF Closed
    <2>7. CASE at(j) = NUL
      <3>1. e[j] = Nul /\ j = Nul
        BY <1>1, <2>2, <2>3, <2>7, CharFacts
      <3>2. NoneEnds(b, j, Nul, "'")
        BY <1>1, <3>1 DEF NoneEnds
      <3> QED BY <2>3, <3>1, <3>2 DEF Closed
    <2>8. CASE at(j) \notin {"\\", "'", NUL}
      <3>1. j + 1 \in D
        BY <1>1, <2>3, <2>8
      <3>2. Even(b, j + 1)
        BY <1>1, <2>3, <2>8, Escapes
      <3>3. e[j] = e[j + 1] /\ Closed(b, j + 1, "'", e[j + 1])
        BY <2>2, <2>3, <2>4, <2>8, <3>1, <3>2 DEF Free
      <3>4. NoneEnds(b, j, j + 1, "'")
        <4>1. \A k \in j..(j + 1) - 1 : k = j
          BY <2>3
        <4> QED BY <2>8, <4>1 DEF NoneEnds, Ends
      <3>5. j + 1 \in j..Nul
        BY <2>3, <3>1 DEF D
      <3> QED BY <1>1, <2>3, <3>3, <3>4, <3>5, ClosedBefore
    <2> QED BY <2>5, <2>6, <2>7, <2>8
  <1> QED BY <1>1, <1>2, <1>3

LEMMA QuoteKinds ==
  ASSUME NEW i, at(i) \in Quote
  PROVE  kind(i) = IF at(i) = "'" THEN "char" ELSE "str"
  <1>1. skip(i, "-") = i /\ skip(i, ".") = i /\ at(i) # "0"
    BY QuoteFacts, Zenon DEF skip
  <1>2. ~is_binary(i) /\ ~is_hex(i)
    BY <1>1, Zenon DEF is_binary, is_hex
  <1>3. ~is_decimal(i)
    <2>1. ~is_digit(at(i), 10)
      BY QuoteFacts, MarksNoDigits, Zenon
    <2> QED BY <1>1, <2>1, Zenon DEF is_decimal
  <1>4. ~isspace(at(i)) /\ at(i) \notin op_list
    BY QuoteFacts, Zenon
  <1> QED BY <1>2, <1>3, <1>4, Zenon DEF kind, Quote

(* parse_char.                                                             *)
LEMMA CharQuotes ==
  ASSUME text \in Texts, signed \in BOOLEAN, Narrow, NEW i \in 1..Nul, at(i) = "'",
         parse_char(i).end <= Nul
  PROVE  Closed(i + 1, i + 2, "'", parse_char(i).end)
  <1> DEFINE bare == parse_char_bare(i + 1)
             token == parse_char(i)
             b == i + 1
  <1>1. /\ Nul \in Nat /\ i + 1 \in 1..Nul /\ i \in Nat /\ b \in 1..Nul /\ b \in Nat
        /\ \A j \in Nat \ {0} : at(j) # NUL => j \in 1..Nul - 1
        /\ at(Nul) = NUL /\ \A j \in 1..Nul - 1 : at(j) # NUL
    BY TextFacts, CharFacts
  <1>2. at(i + 1) # NUL =>
          /\ bare.type \in {"char", "error"} /\ {"src", "end"} \subseteq DOMAIN bare
          /\ bare.end \in i + 2..Nul \/ (BackslashLast /\ bare.end = Nul + 1)
    BY <1>1, Bare
  <1>3. token = CASE at(i + 1) = NUL -> tag_token("error", i, i + 1)
                  [] at(i + 1) # NUL /\ at(bare.end) = NUL -> tag_token("error", i, bare.end)
                  [] at(i + 1) # NUL /\ at(bare.end) \notin {NUL, "'"} ->
                       tag_token("error", i, char_end(bare.end))
                  [] OTHER -> [bare EXCEPT !.src = i, !.end = @ + 1]
    BY DEF parse_char
  <1>4. ASSUME at(i + 1) # NUL, bare.end <= Nul
        PROVE  Free(b, bare.end) /\ NoneEnds(b, i + 2, bare.end, "'")
    <2>1. Free(b, b)
      BY <1>1, Escapes DEF Free
    <2>2. "'" \in Quote /\ b \in b..Nul /\ b + 1 = i + 2
      BY <1>1 DEF Quote
    <2> HIDE DEF b
    <2> QED BY <1>1, <1>4, <2>1, <2>2, BareStep DEF b
  <1> HIDE DEF bare, token
  <1>5. CASE at(i + 1) = NUL
    <2>1. token = tag_token("error", i, i + 1)
      BY <1>3, <1>5
    <2>2. i + 1 = Nul /\ NoneEnds(b, i + 2, Nul, "'")
      BY <1>1, <1>5 DEF NoneEnds
    <2> QED BY <2>1, <2>2 DEF tag_token, token, Closed
  <1>6. CASE at(i + 1) # NUL /\ at(bare.end) = NUL
    <2>1. token = tag_token("error", i, bare.end)
      BY <1>3, <1>6
    <2>2. token.end = bare.end
      BY <2>1 DEF tag_token
    <2>3. bare.end = Nul
      BY <1>1, <1>2, <1>6, <2>2 DEF token
    <2> QED BY <1>1, <1>4, <1>6, <2>2, <2>3 DEF token, Closed
  <1>7. CASE at(i + 1) # NUL /\ at(bare.end) \notin {NUL, "'"}
    <2>1. token = tag_token("error", i, char_end(bare.end))
      BY <1>3, <1>7
    <2>2. bare.end \in i + 2..Nul /\ bare.end \in b..Nul
      BY <1>1, <1>2, <1>7
    <2>3. Free(b, bare.end) /\ NoneEnds(b, i + 2, bare.end, "'")
      BY <1>4, <1>7, <2>2
    <2>4. Closed(b, bare.end, "'", char_end(bare.end))
      <3> HIDE DEF b
      <3> QED BY <1>1, <2>2, <2>3, CharCloses
    <2>5. Closed(b, i + 2, "'", char_end(bare.end))
      <3>1. i + 2 \in Nat
        BY <1>1
      <3> HIDE DEF b
      <3> QED BY <1>1, <2>2, <2>3, <2>4, <3>1, ClosedBefore
    <2> QED BY <2>1, <2>5 DEF tag_token, token
  <1>8. CASE at(i + 1) # NUL /\ at(bare.end) = "'"
    <2>1. token = [bare EXCEPT !.src = i, !.end = @ + 1]
      BY <1>3, <1>8, CharFacts
    <2>2. bare.end \in i + 2..Nul - 1
      BY <1>1, <1>2, <1>8, CharFacts
    <2>3. token.end = bare.end + 1
      BY <1>2, <1>8, <2>1
    <2>4. Free(b, bare.end) /\ NoneEnds(b, i + 2, bare.end, "'")
      BY <1>1, <1>4, <1>8, <2>2
    <2>5. Ends(b, bare.end, "'")
      BY <1>8, <2>4 DEF Free, Ends, Marks
    <2>6. token.end - 1 = bare.end
      BY <2>2, <2>3
    <2> QED BY <2>2, <2>4, <2>5, <2>6 DEF Closed, token
  <1> QED BY <1>5, <1>6, <1>7, <1>8

(* What is said of a token that begins with a quote.                       *)
ClosedToken(token) ==
  token.type # "indent" /\ at(token.src) \in Quote =>
    Closed(token.src + 1, IF at(token.src) = "'" THEN token.src + 2 ELSE token.src + 1,
           at(token.src), token.end)

LEMMA ScanQuotes ==
  ASSUME text \in Texts, signed \in BOOLEAN, Narrow, NEW i \in 1..Nul, at(i) # NUL,
         kind(i) \notin {"indent", "str", "shuffle"}, scan(i).end <= Nul
  PROVE  ClosedToken(scan(i))
  <1>1. scan(i).src = i
    BY Scans
  <1> SUFFICES ASSUME at(i) \in Quote
               PROVE  Closed(i + 1, IF at(i) = "'" THEN i + 2 ELSE i + 1, at(i), scan(i).end)
    BY <1>1 DEF ClosedToken
  <1>2. at(i) = "'" /\ kind(i) = "char"
    BY QuoteKinds
  <1>3. scan(i) = parse_char(i)
    BY <1>2 DEF scan
  <1>4. Closed(i + 1, i + 2, "'", scan(i).end)
    BY <1>2, <1>3, CharQuotes
  <1> QED BY <1>2, <1>4

(* So far, a string has no quote that ends it.                             *)
OpenString(i, end) ==
  at(i) \in Quote \ {"'"} /\ Free(i + 1, end) /\ NoneEnds(i + 1, i + 1, end, at(i))

(* The tokens, and the string or diagram that is read.                     *)
QuotesAre(state, toks, i, end) ==
  Narrow =>
    /\ \A k \in DOMAIN toks : ClosedToken(toks[k])
    /\ state = "str" => OpenString(i, end)
    /\ state \in {"in", "out"} => at(i) \notin Quote

QuoteInv == QuotesAre(pc, tokens, src, str.end)

LEMMA QuoteStays ==
  ASSUME text' = text
  PROVE  QuoteInv' <=> QuotesAre(pc', tokens', src', str'.end)
  <1>1. Nul' = Nul /\ (Narrow' <=> Narrow) /\ \A i : at(i)' = at(i)
    BY DEF Nul, Narrow, at
  <1>2. \A b, j : Even(b, j)' <=> Even(b, j)
    BY <1>1 DEF Even, Backslashes
  <1>3. \A b, j, quote : Ends(b, j, quote)' <=> Ends(b, j, quote)
    BY <1>1, <1>2 DEF Ends
  <1>4. \A b, i, j, quote : NoneEnds(b, i, j, quote)' <=> NoneEnds(b, i, j, quote)
    BY <1>3 DEF NoneEnds
  <1>5. \A b, i, quote, end : Closed(b, i, quote, end)' <=> Closed(b, i, quote, end)
    BY <1>1, <1>3, <1>4 DEF Closed
  <1>6. \A token : ClosedToken(token)' <=> ClosedToken(token)
    BY <1>1, <1>5 DEF ClosedToken
  <1>7. \A i, end : OpenString(i, end)' <=> OpenString(i, end)
    BY <1>1, <1>2, <1>4 DEF OpenString, Free
  <1> QED BY <1>1, <1>6, <1>7 DEF QuoteInv, QuotesAre

LEMMA TakeQuotes ==
  ASSUME TextInv, QuoteInv, NEW token, Take(token), text' = text,
         Narrow => ClosedToken(token)
  PROVE  QuoteInv'
  <1>1. /\ Len(tokens) \in Nat /\ DOMAIN tokens = 1..Len(tokens)
        /\ DOMAIN tokens' = 1..Len(tokens) + 1
        /\ tokens'[Len(tokens) + 1] = token
        /\ \A k \in 1..Len(tokens) : tokens'[k] = tokens[k]
    BY Appended DEF TextInv, TypeOK, Take
  <1>2. ASSUME Narrow, NEW k \in DOMAIN tokens' PROVE ClosedToken(tokens'[k])
    <2>1. CASE k = Len(tokens) + 1
      BY <1>1, <1>2, <2>1
    <2>2. CASE k # Len(tokens) + 1
      <3>1. k \in DOMAIN tokens /\ tokens'[k] = tokens[k]
        BY <1>1, <2>2
      <3> QED BY <1>2, <3>1 DEF QuoteInv, QuotesAre
    <2> QED BY <2>1, <2>2
  <1>3. pc' = "token"
    BY DEF Take
  <1>4. QuotesAre(pc', tokens', src', str'.end)
    BY <1>2, <1>3 DEF QuotesAre
  <1> QED BY <1>4, QuoteStays

LEMMA IndentQuotes ==
  ASSUME TextInv, QuoteInv, NEW i, TakeIndent(i), [Next]_vars
  PROVE  QuoteInv'
  <1>1. CASE Overrun
    <2>1. text' = text /\ tokens' = tokens /\ pc' = "overrun"
      BY <1>1 DEF Overrun
    <2> QED BY <2>1, QuoteStays DEF QuoteInv, QuotesAre
  <1>2. CASE Take(tag_indent(i, Min(IndentEnds(i))))
    <2>1. tag_indent(i, Min(IndentEnds(i))).type = "indent"
      BY DEF tag_indent
    <2>2. ClosedToken(tag_indent(i, Min(IndentEnds(i))))
      BY <2>1 DEF ClosedToken
    <2> QED BY <1>2, <2>2, OneText, TakeQuotes
  <1> QED BY <1>1, <1>2 DEF TakeIndent

LEMMA QuoteStep ==
  ASSUME TextInv, QuoteInv, [Next]_vars
  PROVE  QuoteInv'
  <1>1. /\ text \in Texts /\ signed \in BOOLEAN /\ src \in 1..Nul /\ src \in Nat
        /\ Nul \in Nat /\ text' = text /\ at(Nul) = NUL
        /\ \A i \in 1..Nul : at(i) # NUL => i + 1 \in 1..Nul
        /\ \A i \in 1..Nul : at(i) = NUL <=> i = Nul
    BY TextFacts, OneText DEF TextInv, TypeOK
  <1>2. CASE Start \/ Indent
    <2>1. PICK i : TakeIndent(i)
      BY <1>2 DEF Start, Indent
    <2> QED BY <2>1, IndentQuotes
  <1>3. CASE Overrun \/ Eof \/ Stopped \/ UNCHANGED vars
    <2>1. /\ tokens' = tokens
          /\ pc' \in {"overrun", "done"} \/ (pc' = pc /\ src' = src /\ str' = str)
      BY <1>3, Zenon DEF Overrun, Eof, Stopped, vars
    <2> QED BY <1>1, <2>1, QuoteStays DEF QuoteInv, QuotesAre
  <1>4. CASE Scan
    <2>1. at(src) # NUL /\ kind(src) \notin {"indent", "str", "shuffle"}
      BY <1>4 DEF Scan
    <2>2. Narrow /\ scan(src).end <= Nul => ClosedToken(scan(src))
      BY <1>1, <2>1, ScanQuotes
    <2> DEFINE token == scan(src)
    <2> HIDE DEF token
    <2>3. (token.end <= Nul /\ Take(token)) \/ Overrun
      BY <1>4 DEF Scan, token
    <2>4. CASE token.end <= Nul /\ Take(token)
      BY <1>1, <2>2, <2>4, TakeQuotes DEF token
    <2> QED BY <1>3, <2>3, <2>4
  <1>5. CASE ReadBehind
    BY <1>3, <1>5 DEF ReadBehind
  <1>6. CASE OpenStr
    <2>1. /\ pc' = "str" /\ src' = src /\ tokens' = tokens /\ kind(src) = "str"
          /\ str'.end = src + 1
      BY <1>6 DEF OpenStr
    <2>2. at(src) \in Quote \ {"'"}
      BY <2>1, KindsOpen, Zenon DEF Quote
    <2>3. OpenString(src, src + 1)
      BY <1>1, <2>2, Escapes DEF OpenString, Free, NoneEnds
    <2> QED BY <1>1, <2>1, <2>3, QuoteStays DEF QuoteInv, QuotesAre
  <1>7. CASE InStr
    <2> DEFINE bare == parse_char_bare(str.end)
    <2>1. /\ pc = "str" /\ at(str.end) # NUL
          /\ \/ /\ bare.end <= Nul
                /\ \/ str' = [str EXCEPT !.end = bare.end]
                   \/ str' = [end  |-> bare.end,
                              buf  |-> push_char(str.buf, bare.cnum),
                              kept |-> str.kept \o
                                         [k \in 1..bare.end - bare.src |-> bare.src + k - 1]]
                /\ UNCHANGED <<text, signed, src, pc, tokens, shuffle>>
             \/ Overrun
      BY <1>7, Zenon DEF InStr
    <2>2. at(str.end) # at(src) \/ ~Narrow
      <3>1. pc = "str" /\ at(str.end) \notin {"\"", NUL}
        BY <1>7, Zenon DEF InStr
      <3>2. Narrow => at(src) \in Quote \ {"'"}
        BY <2>1 DEF QuoteInv, QuotesAre, OpenString
      <3> QED BY <3>1, <3>2, Zenon DEF Quote
    <2>3. str.end \in src + 1..Nul /\ "end" \in DOMAIN str
      BY <2>1 DEF TextInv, TypeOK, Records
    <2> DEFINE e == bare.end
    <2>4. ASSUME Narrow, e <= Nul PROVE OpenString(src, e)
      <3>1. at(src) \in Quote \ {"'"} /\ OpenString(src, str.end)
        BY <2>1, <2>4 DEF QuoteInv, QuotesAre, OpenString
      <3>2. src + 1 \in 1..Nul /\ str.end \in 1..Nul /\ e \in str.end + 1..Nul
        BY <1>1, <2>1, <2>3, <2>4, Bare
      <3>3. Free(src + 1, e) /\ NoneEnds(src + 1, str.end + 1, e, at(src))
        BY <1>1, <2>1, <2>3, <2>4, <3>1, <3>2, BareStep DEF OpenString
      <3> HIDE DEF bare
      <3>4. NoneEnds(src + 1, src + 1, e, at(src))
        <4>1. \A k \in src + 1..e - 1 :
                 k \in src + 1..str.end - 1 \/ k = str.end \/ k \in str.end + 1..e - 1
          BY <1>1, <2>3, <3>2
        <4>2. ~Ends(src + 1, str.end, at(src))
          BY <2>2, <2>4 DEF Ends
        <4> QED BY <3>1, <3>3, <4>1, <4>2 DEF NoneEnds, OpenString
      <3> QED BY <3>1, <3>3, <3>4 DEF OpenString
    <2> HIDE DEF bare
    <2>5. CASE /\ str'.end = e /\ e <= Nul
               /\ UNCHANGED <<text, signed, src, pc, tokens, shuffle>>
      BY <2>1, <2>4, <2>5, QuoteStays DEF QuoteInv, QuotesAre
    <2>6. \/ Overrun
          \/ str'.end = e /\ e <= Nul /\ UNCHANGED <<text, signed, src, pc, tokens, shuffle>>
      BY <2>1, <2>3
    <2> QED BY <1>3, <2>5, <2>6
  <1>8. CASE CloseStr
    <2> DEFINE token == tag_str(src, str.end + 1, str.buf)
    <2>1. pc = "str" /\ at(str.end) = "\"" /\ at(str.end) # NUL /\ Take(token)
      BY <1>8, BraceFacts, Zenon DEF CloseStr
    <2>2. str.end \in src + 1..Nul
      BY <2>1, Zenon DEF TextInv, TypeOK
    <2>3. token.src = src /\ token.end = str.end + 1
      BY DEF tag_str
    <2>4. Take(token) /\ pc = "str" /\ at(str.end) # NUL
      BY <2>1, Zenon
    <2>5. ASSUME Narrow PROVE ClosedToken(token)
      <3>1. at(src) \in Quote \ {"'"} /\ OpenString(src, str.end)
        BY <2>4, <2>5 DEF QuoteInv, QuotesAre, OpenString
      <3>2. at(str.end) = at(src)
        BY <2>1, <3>1, Zenon DEF Quote
      <3> HIDE DEF token
      <3>3. Ends(src + 1, str.end, at(src))
        BY <3>1, <3>2, QuoteFacts DEF OpenString, Free, Ends
      <3>4. (str.end + 1) - 1 = str.end /\ str.end \in src + 1..Nul - 1
        BY <1>1, <2>2, <2>4
      <3>5. Closed(src + 1, src + 1, at(src), str.end + 1)
        BY <3>1, <3>3, <3>4 DEF Closed, OpenString
      <3>6. at(src) # "'"
        BY <3>1
      <3> QED BY <2>3, <3>5, <3>6 DEF ClosedToken
    <2> HIDE DEF token
    <2> QED BY <1>1, <2>4, <2>5, TakeQuotes
  <1>9. CASE EofInStr
    <2> DEFINE token == tag_token("error", src, str.end)
    <2>1. pc = "str" /\ at(str.end) = NUL /\ Take(token)
      BY <1>9 DEF EofInStr
    <2>2. str.end \in src + 1..Nul
      BY <2>1 DEF TextInv, TypeOK
    <2>3. token.src = src /\ token.end = str.end /\ str.end = Nul
      BY <1>1, <2>1, <2>2 DEF tag_token
    <2>4. ASSUME Narrow PROVE ClosedToken(token)
      <3>1. at(src) \in Quote \ {"'"} /\ OpenString(src, str.end)
        BY <2>1, <2>4 DEF QuoteInv, QuotesAre, OpenString
      <3> HIDE DEF token
      <3>2. Closed(src + 1, src + 1, at(src), str.end)
        BY <2>3, <3>1 DEF Closed, OpenString
      <3> QED BY <2>3, <3>1, <3>2 DEF ClosedToken
    <2> HIDE DEF token
    <2> QED BY <1>1, <2>1, <2>4, TakeQuotes
  <1>10. CASE OpenShuffle
    <2>1. kind(src) = "shuffle" /\ pc' = "in" /\ src' = src /\ tokens' = tokens
      BY <1>10 DEF OpenShuffle
    <2>2. at(src) \notin Quote
      <3>1. kind(src) \notin {"char", "str"}
        BY <2>1
      <3> QED BY <3>1, QuoteKinds
    <2> QED BY <1>1, <2>1, <2>2, QuoteStays DEF QuoteInv, QuotesAre
  <1>11. CASE In \/ Pivot \/ Out
    <2>1. pc \in {"in", "out"} /\ pc' \in {"in", "out"} /\ src' = src /\ tokens' = tokens
      BY <1>11, Zenon DEF In, Pivot, Out
    <2> QED BY <1>1, <2>1, QuoteStays DEF QuoteInv, QuotesAre
  <1>12. ASSUME NEW token, token.src = src, pc \in {"in", "out"}, Take(token)
         PROVE  QuoteInv'
    <2>1. Narrow => ClosedToken(token)
      BY <1>12 DEF QuoteInv, QuotesAre, ClosedToken
    <2> QED BY <1>1, <1>12, <2>1, TakeQuotes
  <1>13. CASE CloseShuffle
    <2>1. pc \in {"in", "out"} /\ Take(tag_token("shuffle", src, shuffle.end + 1))
      BY <1>13, Zenon DEF CloseShuffle
    <2>2. tag_token("shuffle", src, shuffle.end + 1).src = src
      BY DEF tag_token
    <2> QED BY <1>12, <2>1, <2>2
  <1>14. CASE EofInShuffle
    <2>1. pc \in {"in", "out"} /\ Take(tag_token("error", src, shuffle.end))
      BY <1>14 DEF EofInShuffle
    <2>2. tag_token("error", src, shuffle.end).src = src
      BY DEF tag_token
    <2> QED BY <1>12, <2>1, <2>2
  <1> QED BY <1>2, <1>3, <1>4, <1>5, <1>6, <1>7, <1>8, <1>9, <1>10, <1>11, <1>13, <1>14,
             Zenon DEF Next

(* A token that is closed ends where QuotesClose says.                     *)
EndsAtQuote(token) ==
  LET quote == at(token.src)
      from == IF quote = "'" THEN token.src + 2 ELSE token.src + 1
      quotes == Quotes(token.src + 1, quote) \intersect from..Len(text)
  IN  token.type # "indent" /\ quote \in Quote =>
        token.end = IF quotes = {} THEN Nul ELSE Min(quotes) + 1

LEMMA ClosedEnds ==
  ASSUME text \in Texts, NEW token, ClosedToken(token), token.src \in Nat, token.end \in Nat
  PROVE  EndsAtQuote(token)
  <1> DEFINE i == token.src
             end == token.end
             quote == at(i)
             from == IF quote = "'" THEN i + 2 ELSE i + 1
             quotes == Quotes(i + 1, quote) \intersect from..Len(text)
  <1> SUFFICES ASSUME token.type # "indent", quote \in Quote
               PROVE  end = IF quotes = {} THEN Nul ELSE Min(quotes) + 1
    BY DEF EndsAtQuote
  <1>1. Nul = Len(text) + 1 /\ Len(text) \in Nat /\ i \in Nat /\ end \in Nat
        /\ from \in {i + 1, i + 2}
    BY TextFacts
  <1>2. Closed(i + 1, from, quote, end)
    BY DEF ClosedToken
  <1>3. \A k : k \in quotes <=> k \in from..Nul - 1 /\ Ends(i + 1, k, quote)
    <2> HIDE DEF i, quote, from
    <2>1. \A k : k \in from..Len(text) => k \in i + 1..Len(text)
      BY <1>1
    <2>2. \A k : Ends(i + 1, k, quote) <=>
                   /\ at(k) = quote
                   /\ Cardinality({m \in i + 1..k - 1 : \A l \in m..k - 1 : at(l) = "\\"}) % 2 = 0
      BY DEF Ends, Even, Backslashes
    <2>3. Nul - 1 = Len(text)
      BY <1>1
    <2> QED BY <2>1, <2>2, <2>3 DEF Quotes
  <1> HIDE DEF i, end, quote, from, quotes
  <1>4. CASE end = Nul /\ NoneEnds(i + 1, from, Nul, quote)
    <2>1. quotes = {}
      BY <1>3, <1>4 DEF NoneEnds
    <2> QED BY <1>4, <2>1
  <1>5. CASE /\ end - 1 \in from..Nul - 1 /\ Ends(i + 1, end - 1, quote)
             /\ NoneEnds(i + 1, from, end - 1, quote)
    <2>1. end - 1 \in quotes
      BY <1>3, <1>5
    <2>2. quotes \in SUBSET Nat
      BY <1>1, <1>3
    <2>3. Min(quotes) \in quotes /\ \A m \in quotes : Min(quotes) <= m
      BY <2>1, <2>2, MinIs
    <2>4. Min(quotes) \in Nat /\ Min(quotes) \in from..Nul - 1 /\ Min(quotes) <= end - 1
      BY <1>3, <2>1, <2>2, <2>3
    <2>5. ~(Min(quotes) < end - 1)
      <3> SUFFICES ASSUME Min(quotes) < end - 1 PROVE FALSE
        OBVIOUS
      <3>1. Min(quotes) \in from..(end - 1) - 1
        BY <1>1, <2>4
      <3> QED BY <1>3, <1>5, <2>3, <3>1 DEF NoneEnds
    <2>6. end = Min(quotes) + 1
      BY <1>1, <2>4, <2>5
    <2> QED BY <2>1, <2>6
  <1> QED BY <1>2, <1>4, <1>5 DEF Closed

(* A string or a character ends at its quote, whatever is in it: the       *)
(* functions that read characters (parse_char_bare, in parse_str and in    *)
(* parse_char) and get_char_len, which looks for the end of a malformed    *)
(* one, agree on what an escape is.                                        *)
THEOREM QuotesAreClosed == Spec => []QuotesClose
  <1>1. Init => QuoteInv
    <2> SUFFICES ASSUME Init PROVE QuoteInv
      OBVIOUS
    <2>1. tokens = <<>> /\ pc = "start"
      BY DEF Init
    <2>2. DOMAIN tokens = {}
      BY <2>1
    <2> QED BY <2>1, <2>2 DEF QuoteInv, QuotesAre
  <1>2. TextInv /\ QuoteInv /\ [Next]_vars => QuoteInv'
    BY QuoteStep
  <1>3. TextInv /\ QuoteInv => QuotesClose
    <2> SUFFICES ASSUME TextInv, QuoteInv PROVE QuotesClose
      OBVIOUS
    <2>1. ASSUME Narrow, NEW k \in DOMAIN tokens PROVE EndsAtQuote(tokens[k])
      <3>1. ClosedToken(tokens[k])
        BY <2>1 DEF QuoteInv, QuotesAre
      <3>2. Nul \in Nat /\ text \in Texts /\ src \in 1..Nul
            /\ tokens[k].src \in 1..src /\ tokens[k].end \in tokens[k].src..src
        BY TextFacts DEF TextInv, TypeOK
      <3>3. tokens[k].src \in Nat /\ tokens[k].end \in Nat
        BY <3>2
      <3> QED BY <3>1, <3>2, <3>3, ClosedEnds
    <2> QED BY <2>1, Zenon DEF QuotesClose, Narrow, EndsAtQuote, Quote
  <1> QED BY <1>1, <1>2, <1>3, TextInvariant, PTL DEF Spec

-----------------------------------------------------------------------------
(* Characters that are read and written again.                             *)

(* The bytes that UTF-8 tells apart.                                       *)
LEMMA HighBits ==
  /\ Bits(128) = {7} /\ Bits(192) = {6, 7} /\ Bits(224) = {5, 6, 7}
  /\ Bits(240) = {4, 5, 6, 7} /\ Bits(248) = {3, 4, 5, 6, 7}
  <1>1. \A i \in 0..7 : i = 0 \/ i = 1 \/ i = 2 \/ i = 3 \/ i = 4 \/ i = 5 \/ i = 6 \/ i = 7
    OBVIOUS
  <1>2. Bits(128) = {7}
    BY <1>1, BitsAre
  <1>3. Bits(192) = {6, 7}
    BY <1>1, BitsAre
  <1>4. Bits(224) = {5, 6, 7}
    BY <1>1, BitsAre
  <1>5. Bits(240) = {4, 5, 6, 7}
    BY <1>1, BitsAre
  <1>6. Bits(248) = {3, 4, 5, 6, 7}
    BY <1>1, BitsAre
  <1> QED BY <1>2, <1>3, <1>4, <1>5, <1>6

LEMMA LeadIs ==
  /\ Mask[2] = {5, 6, 7} /\ Mask[3] = {4, 5, 6, 7} /\ Mask[4] = {3, 4, 5, 6, 7}
  /\ Lead[1] = {} /\ Lead[2] = {6, 7} /\ Lead[3] = {5, 6, 7} /\ Lead[4] = {4, 5, 6, 7}
  /\ UTF8_XMASK = {6, 7} /\ UTF8_XBYTE = {7}
  BY HighBits DEF Mask, Lead, UTF8_XMASK, UTF8_XBYTE

(* Of the bytes above 127: those that begin a character of two, three or   *)
(* four bytes, and those that go on with one.                              *)
LEMMA HighBytes ==
  ASSUME NEW c \in DOMAIN High
  PROVE  LET b == Bits(Byte[c]) IN
         /\ c \in DOMAIN Byte /\ 7 \in b
         /\ b \intersect {5, 6, 7} = {6, 7} => c = "c0" \/ 1 \in b
         /\ b \intersect {4, 5, 6, 7} = {5, 6, 7} => c = "e0" \/ 3 \in b
         /\ b \intersect {3, 4, 5, 6, 7} = {4, 5, 6, 7} => c = "f0" \/ 2 \in b
         /\ b \intersect {6, 7} = {7} => c \in {"80", "90"} \/ 5 \in b
         /\ b \intersect {6, 7} = {7} => c = "80" \/ 4 \in b \/ 5 \in b
  <1> DEFINE b == Bits(Byte[c])
  <1>1. c \in DOMAIN Byte
    BY DEF Byte
  <1>2. \/ (c = "80" /\ Byte[c] = 128)
        \/ (c = "90" /\ Byte[c] = 144)
        \/ (c = "a0" /\ Byte[c] = 160)
        \/ (c = "bf" /\ Byte[c] = 191)
        \/ (c = "c0" /\ Byte[c] = 192)
        \/ (c = "c2" /\ Byte[c] = 194)
        \/ (c = "c3" /\ Byte[c] = 195)
        \/ (c = "df" /\ Byte[c] = 223)
        \/ (c = "e0" /\ Byte[c] = 224)
        \/ (c = "ef" /\ Byte[c] = 239)
        \/ (c = "f0" /\ Byte[c] = 240)
        \/ (c = "f7" /\ Byte[c] = 247)
        \/ (c = "ff" /\ Byte[c] = 255)
    <2>1. c \notin {"\t", "\n", "\r"}
      BY Zenon DEF High
    <2>2. Byte[c] = High[c]
      BY <1>1, <2>1, Zenon DEF Byte
    <2> QED BY <2>2 DEF High
  <1>3. Byte[c] \in Nat
    BY <1>2
  <1>4. /\ (1 \in b <=> (Byte[c] \div 2) % 2 = 1) /\ (2 \in b <=> (Byte[c] \div 4) % 2 = 1)
        /\ (3 \in b <=> (Byte[c] \div 8) % 2 = 1) /\ (4 \in b <=> (Byte[c] \div 16) % 2 = 1)
        /\ (5 \in b <=> (Byte[c] \div 32) % 2 = 1) /\ (6 \in b <=> (Byte[c] \div 64) % 2 = 1)
        /\ (7 \in b <=> (Byte[c] \div 128) % 2 = 1)
    BY <1>3, BitsAre
  <1> HIDE DEF b
  <1>5. 7 \in b
    BY <1>2, <1>4
  <1>6. /\ b \intersect {5, 6, 7} = {6, 7} => c = "c0" \/ 1 \in b
        /\ b \intersect {4, 5, 6, 7} = {5, 6, 7} => c = "e0" \/ 3 \in b
        /\ b \intersect {3, 4, 5, 6, 7} = {4, 5, 6, 7} => c = "f0" \/ 2 \in b
    <2>1. /\ b \intersect {5, 6, 7} = {6, 7} => 6 \in b /\ 5 \notin b
          /\ b \intersect {4, 5, 6, 7} = {5, 6, 7} => 5 \in b /\ 4 \notin b
          /\ b \intersect {3, 4, 5, 6, 7} = {4, 5, 6, 7} => 4 \in b /\ 3 \notin b
      OBVIOUS
    <2>2. 6 \in b <=> (Byte[c] \div 64) % 2 = 1
      BY <1>3, BitsAre DEF b
    <2>3. 3 \in b <=> (Byte[c] \div 8) % 2 = 1
      BY <1>4
    <2> QED BY <1>2, <1>4, <2>1, <2>2
  <1>7. /\ b \intersect {6, 7} = {7} => c \in {"80", "90"} \/ 5 \in b
        /\ b \intersect {6, 7} = {7} => c = "80" \/ 4 \in b \/ 5 \in b
    <2>1. b \intersect {6, 7} = {7} => 6 \notin b
      OBVIOUS
    <2>2. 6 \in b <=> (Byte[c] \div 64) % 2 = 1
      BY <1>3, BitsAre DEF b
    <2> QED BY <1>2, <1>4, <2>1, <2>2
  <1> QED BY <1>1, <1>5, <1>6, <1>7 DEF b

(* The bits of a character of several bytes, by the bytes they are from.   *)
LEMMA ReadBits ==
  ASSUME NEW n \in 2..4, NEW s, \A k \in 1..n : s[k] \subseteq 0..7,
         NEW e
  PROVE  e \in char_read_n(s, n) <=>
           \E k \in 1..n : \E j \in s[k] :
             e = j + 6 * (n - k) /\ j \in 0..5 /\ (k = 1 => j <= 6 - n)
  <1> DEFINE read(k) == IF k = 1 THEN Left(s[1] \ Mask[n], n - 1)
                        ELSE Left(s[k] \ UTF8_XMASK, n - k)
  <1>1. e \in char_read_n(s, n) <=> \E k \in 1..n : e \in read(k)
    <2>1. char_read_n(s, n) = Left(s[1] \ Mask[n], n - 1) \union
            UNION {Left(s[i] \ UTF8_XMASK, n - i) : i \in 2..n}
      <3>1. n # 1
        OBVIOUS
      <3> QED BY <3>1, Zenon DEF char_read_n
    <2>2. (\E k \in 1..n : e \in read(k)) <=>
            \/ e \in Left(s[1] \ Mask[n], n - 1)
            \/ \E i \in 2..n : e \in Left(s[i] \ UTF8_XMASK, n - i)
      <3>1. /\ 1 \in 1..n /\ 2..n \subseteq 1..n
            /\ \A k \in 1..n : k = 1 \/ (k \in 2..n /\ k # 1)
            /\ \A k \in 2..n : k # 1
        OBVIOUS
      <3> QED BY <3>1
    <2> HIDE DEF read
    <2> QED BY <2>1, <2>2
  <1>2. ASSUME NEW k \in 1..n
        PROVE  e \in read(k) <=>
                 \E j \in s[k] : e = j + 6 * (n - k) /\ j \in 0..5 /\ (k = 1 => j <= 6 - n)
    <2>1. CASE k = 1
      <3>1. s[1] \ Mask[n] = {j \in s[1] : j <= 6 - n}
        <4>1. /\ Mask[2] = {5, 6, 7} /\ Mask[3] = {4, 5, 6, 7} /\ Mask[4] = {3, 4, 5, 6, 7}
          BY LeadIs
        <4>2. s[1] \subseteq 0..7
          OBVIOUS
        <4>3. n = 2 \/ n = 3 \/ n = 4
          OBVIOUS
        <4> QED BY <4>1, <4>2, <4>3
      <3>2. e \in read(1) <=> \E j \in s[1] : j <= 6 - n /\ e = j + 6 * (n - 1) /\ e \in 0..31
        BY <3>1 DEF Left
      <3>3. \A j \in s[1] : /\ j \in 0..7
                            /\ j <= 6 - n => j \in 0..5 /\ j + 6 * (n - 1) \in 0..31
        <4>1. n = 2 \/ n = 3 \/ n = 4
          OBVIOUS
        <4> QED BY <4>1
      <3> HIDE DEF read
      <3> QED BY <2>1, <3>2, <3>3
    <2>2. CASE k # 1
      <3>1. s[k] \ UTF8_XMASK = {j \in s[k] : j \in 0..5}
        BY LeadIs
      <3>2. e \in read(k) <=> \E j \in s[k] : j \in 0..5 /\ e = j + 6 * (n - k) /\ e \in 0..31
        BY <2>2, <3>1 DEF Left
      <3>3. \A j \in 0..5 : j + 6 * (n - k) \in 0..31
        BY <2>2
      <3> HIDE DEF read
      <3> QED BY <2>2, <3>2, <3>3
    <2> QED BY <2>1, <2>2
  <1> HIDE DEF read
  <1> QED BY <1>1, <1>2

(* What is read from a byte is what is written for it.                     *)
LEMMA WrittenBits ==
  ASSUME NEW n \in 2..4, NEW s, \A k \in 1..n : s[k] \subseteq 0..7,
         s[1] \intersect Mask[n] = Lead[n],
         \A k \in 2..n : is_xbyte(s[k])
  PROVE  /\ Right(char_read_n(s, n), n - 1) \union Lead[n] = s[1]
         /\ \A k \in 2..n : xbyte(char_read_n(s, n), n - k) = s[k]
  <1> DEFINE cnum == char_read_n(s, n)
  <1>1. ASSUME NEW e \in cnum
        PROVE  \E k \in 1..n : \E j \in s[k] :
                 e = j + 6 * (n - k) /\ j \in 0..5 /\ (k = 1 => j <= 6 - n)
    BY ReadBits
  <1>2. ASSUME NEW k \in 1..n, NEW j \in s[k], j \in 0..5, k = 1 => j <= 6 - n
        PROVE  j + 6 * (n - k) \in cnum
    BY <1>2, ReadBits
  <1> HIDE DEF cnum
  <1>3. ASSUME NEW k \in 1..n, NEW e \in cnum, e - 6 * (n - k) \in 0..7,
               k # 1 => e - 6 * (n - k) \in 0..5
        PROVE  e - 6 * (n - k) \in s[k] /\ (k = 1 => e - 6 * (n - k) <= 6 - n)
    <2>0. PICK m \in 1..n :
            \E l \in s[m] : e = l + 6 * (n - m) /\ l \in 0..5 /\ (m = 1 => l <= 6 - n)
      BY <1>1
    <2>1. PICK j \in s[m] : e = j + 6 * (n - m) /\ j \in 0..5 /\ (m = 1 => j <= 6 - n)
      BY <2>0
    <2>2. e - 6 * (n - k) = j + 6 * (k - m)
      BY <2>1
    <2>3. m = k
      <3>1. m \in 1..4 /\ k \in 1..4
        OBVIOUS
      <3>2. k > m => j + 6 * (k - m) >= 6
        BY <2>1, <3>1
      <3>3. k < m => j + 6 * (k - m) < 0
        BY <2>1, <3>1
      <3>4. k > m => k # 1
        BY <3>1
      <3> QED BY <1>3, <2>2, <3>1, <3>2, <3>3, <3>4
    <2> QED BY <2>1, <2>2, <2>3
  <1>4. Right(cnum, n - 1) = {j \in s[1] : j <= 6 - n}
    <2>1. ASSUME NEW b \in Right(cnum, n - 1)
          PROVE  b \in s[1] /\ b <= 6 - n
      BY <1>3 DEF Right
    <2>2. ASSUME NEW j \in s[1], j <= 6 - n
          PROVE  j \in Right(cnum, n - 1)
      <3>1. j \in 0..5 /\ j \in 0..7
        BY <2>2
      <3>2. j + 6 * (n - 1) \in cnum
        BY <1>2, <2>2, <3>1
      <3>3. (j + 6 * (n - 1)) - 6 * (n - 1) = j
        BY <3>1
      <3> QED BY <3>1, <3>2, <3>3 DEF Right
    <2> QED BY <2>1, <2>2
  <1>5. {j \in s[1] : j <= 6 - n} \union Lead[n] = s[1]
    <2>1. s[1] \subseteq 0..7
      OBVIOUS
    <2>2. CASE n = 2
      BY <2>1, <2>2, LeadIs
    <2>3. CASE n = 3
      BY <2>1, <2>3, LeadIs
    <2>4. CASE n = 4
      BY <2>1, <2>4, LeadIs
    <2> QED BY <2>2, <2>3, <2>4
  <1>6. ASSUME NEW k \in 2..n
        PROVE  xbyte(cnum, n - k) = s[k]
    <2>1. k \in 1..n /\ k # 1 /\ s[k] \subseteq 0..7
      OBVIOUS
    <2>2. Right(cnum, n - k) \ UTF8_XMASK = {j \in s[k] : j \in 0..5}
      <3>1. ASSUME NEW b \in Right(cnum, n - k) \ UTF8_XMASK
            PROVE  b \in s[k] /\ b \in 0..5
        <4>1. PICK e \in cnum : b = e - 6 * (n - k) /\ b \in 0..7
          BY DEF Right
        <4>2. b \in 0..5
          BY <4>1, LeadIs
        <4> QED BY <1>3, <2>1, <4>1, <4>2
      <3>2. ASSUME NEW j \in s[k], j \in 0..5
            PROVE  j \in Right(cnum, n - k) \ UTF8_XMASK
        <4>1. j + 6 * (n - k) \in cnum
          BY <1>2, <2>1, <3>2
        <4>2. (j + 6 * (n - k)) - 6 * (n - k) = j /\ j \in 0..7
          BY <2>1, <3>2
        <4>3. j \notin UTF8_XMASK
          BY <3>2, LeadIs
        <4> QED BY <4>1, <4>2, <4>3 DEF Right
      <3> QED BY <3>1, <3>2
    <2>3. s[k] \intersect {6, 7} = {7}
      BY LeadIs DEF is_xbyte
    <2>4. {j \in s[k] : j \in 0..5} \union {7} = s[k]
      BY <2>1, <2>3
    <2> QED BY <2>2, <2>4, LeadIs DEF xbyte
  <1> QED BY <1>4, <1>5, <1>6 DEF cnum

(* What is written for a character, by the width it is given.              *)
WidthOf(cnum) ==
  CASE Above(cnum, 16) -> 4
    [] ~Above(cnum, 16) /\ Above(cnum, 11) -> 3
    [] ~Above(cnum, 11) /\ Above(cnum, 7) -> 2
    [] OTHER -> 1

LEMMA WriteOf ==
  ASSUME NEW cnum, NEW n \in 1..4, n = WidthOf(cnum)
  PROVE  char_write(cnum) = <<Right(cnum, n - 1) \union Lead[n]>> \o
                              [i \in 1..n - 1 |-> xbyte(cnum, n - 1 - i)]
  BY DEF char_write, WidthOf, UTF8_1MAX, UTF8_2MAX, UTF8_3MAX

(* A character of several bytes that is no longer than it needs to be is   *)
(* written as it was read.                                                 *)
LEMMA WriteRead ==
  ASSUME NEW n \in 2..4, NEW s, \A k \in 1..n : s[k] \subseteq 0..7,
         s[1] \intersect Mask[n] = Lead[n],
         \A k \in 2..n : is_xbyte(s[k]),
         n = 2 => 1 \in s[1],
         n = 3 => 3 \in s[1] \/ 5 \in s[2],
         n = 4 => 2 \in s[1] \/ 4 \in s[2] \/ 5 \in s[2]
  PROVE  char_write(char_read_n(s, n)) = [k \in 1..n |-> s[k]]
  <1> DEFINE cnum == char_read_n(s, n)
  <1>1. \A e \in cnum : e \in 0..5 * n
    <2> SUFFICES ASSUME NEW e \in cnum
                 PROVE  e \in 0..5 * n
      OBVIOUS
    <2>0. PICK m \in 1..n :
            \E l \in s[m] : e = l + 6 * (n - m) /\ l \in 0..5 /\ (m = 1 => l <= 6 - n)
      BY ReadBits
    <2>1. PICK j \in s[m] : e = j + 6 * (n - m) /\ j \in 0..5 /\ (m = 1 => j <= 6 - n)
      BY <2>0
    <2> HIDE DEF cnum
    <2>2. (m = 1 \/ m = 2 \/ m = 3 \/ m = 4) /\ (n = 2 \/ n = 3 \/ n = 4)
      OBVIOUS
    <2> QED BY <2>1, <2>2
  <1>2. ASSUME NEW k \in 1..n, NEW j \in s[k], j \in 0..5, k = 1 => j <= 6 - n
        PROVE  j + 6 * (n - k) \in cnum
    BY <1>2, ReadBits
  <1> HIDE DEF cnum
  <1>3. /\ n = 2 => Above(cnum, 7) /\ ~Above(cnum, 11) /\ ~Above(cnum, 16)
        /\ n = 3 => Above(cnum, 11) /\ ~Above(cnum, 16)
        /\ n = 4 => Above(cnum, 16)
    <2>1. /\ n = 2 => ~Above(cnum, 11) /\ ~Above(cnum, 16)
          /\ n = 3 => ~Above(cnum, 16)
      BY <1>1 DEF Above
    <2>2. ASSUME n = 2
          PROVE  Above(cnum, 7)
      <3>1. 1 + 6 * (n - 1) \in cnum
        BY <1>2, <2>2
      <3> QED BY <2>2, <3>1 DEF Above
    <2>3. ASSUME n = 3
          PROVE  Above(cnum, 11)
      <3>1. CASE 3 \in s[1]
        <4>1. 3 + 6 * (n - 1) \in cnum
          BY <1>2, <2>3, <3>1
        <4> QED BY <2>3, <4>1 DEF Above
      <3>2. CASE 5 \in s[2]
        <4>1. 5 + 6 * (n - 2) \in cnum
          BY <1>2, <2>3, <3>2
        <4> QED BY <2>3, <4>1 DEF Above
      <3> QED BY <2>3, <3>1, <3>2
    <2>4. ASSUME n = 4
          PROVE  Above(cnum, 16)
      <3>1. CASE 2 \in s[1]
        <4>1. 2 + 6 * (n - 1) \in cnum
          BY <1>2, <2>4, <3>1
        <4> QED BY <2>4, <4>1 DEF Above
      <3>2. CASE 4 \in s[2]
        <4>1. 4 + 6 * (n - 2) \in cnum
          BY <1>2, <2>4, <3>2
        <4> QED BY <2>4, <4>1 DEF Above
      <3>3. CASE 5 \in s[2]
        <4>1. 5 + 6 * (n - 2) \in cnum
          BY <1>2, <2>4, <3>3
        <4> QED BY <2>4, <4>1 DEF Above
      <3> QED BY <2>4, <3>1, <3>2, <3>3
    <2> QED BY <2>1, <2>2, <2>3, <2>4
  <1>4. char_write(cnum) = <<Right(cnum, n - 1) \union Lead[n]>> \o
                             [i \in 1..n - 1 |-> xbyte(cnum, n - 1 - i)]
    <2>1. n = 4 => Above(cnum, 11)
      <3>1. \A e \in cnum : e >= 16 => e >= 11
        BY <1>1
      <3> QED BY <1>3, <3>1 DEF Above
    <2>2. n = WidthOf(cnum)
      <3>1. n = 2 \/ n = 3 \/ n = 4
        OBVIOUS
      <3> QED BY <1>3, <2>1, <3>1 DEF WidthOf
    <2>3. n \in 1..4
      OBVIOUS
    <2> QED BY <2>2, <2>3, WriteOf
  <1>5. /\ Right(cnum, n - 1) \union Lead[n] = s[1]
        /\ \A k \in 2..n : xbyte(cnum, n - k) = s[k]
    BY WrittenBits DEF cnum
  <1>6. [i \in 1..n - 1 |-> xbyte(cnum, n - 1 - i)] = [i \in 1..n - 1 |-> s[i + 1]]
    <2>1. ASSUME NEW i \in 1..n - 1
          PROVE  xbyte(cnum, n - 1 - i) = s[i + 1]
      <3>1. i + 1 \in 2..n /\ n - (i + 1) = n - 1 - i
        OBVIOUS
      <3> QED BY <1>5, <3>1
    <2> QED BY <2>1
  <1>7. <<s[1]>> \o [i \in 1..n - 1 |-> s[i + 1]] = [k \in 1..n |-> s[k]]
    OBVIOUS
  <1> QED BY <1>4, <1>5, <1>6, <1>7 DEF cnum

(* The texts for which reading and writing are inverse.                    *)
Readable == ~signed /\ ~Overlong /\ "\\" \notin ToSet(text)

(* The byte at a place, as it is written.                                  *)
byte(i) == Bits(Byte[text[i]])

LEMMA ReadableWords ==
  ASSUME text \in Texts, signed \in BOOLEAN, Readable, NEW i \in Nat \ {0}
  PROVE  /\ word(i) \subseteq 0..7
         /\ at(i) = NUL => word(i) = {}
         /\ at(i) # NUL => /\ i \in 1..Len(text) /\ word(i) = byte(i) /\ word(i) # {}
                           /\ 7 \in word(i) <=> at(i) \in DOMAIN High
  <1>1. CASE at(i) = NUL
    BY <1>1 DEF word
  <1>2. CASE at(i) # NUL
    <2>1. /\ i \in 1..Len(text) /\ at(i) = text[i] /\ at(i) \in DOMAIN Byte
      BY <1>2, TextFacts
    <2>2. word(i) = Word32[at(i)][FALSE]
      <3>1. signed = FALSE
        BY DEF Readable
      <3> QED BY <1>2, <3>1 DEF word
    <2>3. Word32[at(i)][FALSE] = Bits(Byte[at(i)])
      BY <2>1 DEF Word32
    <2>4. word(i) = byte(i)
      BY <2>1, <2>2, <2>3 DEF byte
    <2>5. word(i) \subseteq 0..7
      BY <2>2, <2>3 DEF Bits
    <2>6. at(i) \in DOMAIN High => 7 \in word(i)
      BY <2>2, <2>3, HighBytes
    <2>7. at(i) \notin DOMAIN High => 7 \notin word(i) /\ word(i) # {}
      BY <2>1, <2>2, <2>3, LowBytes
    <2> QED BY <1>2, <2>1, <2>4, <2>5, <2>6, <2>7
  <1> QED BY <1>1, <1>2

(* What the text is not: a character longer than it needs to be.           *)
LEMMA NotOverlong ==
  ASSUME text \in Texts, signed \in BOOLEAN, Readable, NEW i \in 1..Len(text), i + 1 \in 1..Len(text),
         at(i) \in DOMAIN High, at(i + 1) \in DOMAIN High,
         is_xbyte(word(i + 1))
  PROVE  /\ word(i) \intersect Mask[2] = Lead[2] => 1 \in word(i)
         /\ word(i) \intersect Mask[3] = Lead[3] => 3 \in word(i) \/ 5 \in word(i + 1)
         /\ word(i) \intersect Mask[4] = Lead[4] =>
              2 \in word(i) \/ 4 \in word(i + 1) \/ 5 \in word(i + 1)
  <1>1. /\ at(i) = text[i] /\ at(i + 1) = text[i + 1] /\ i \in 1..Len(text) - 1
        /\ at(i) # NUL /\ at(i + 1) # NUL
    BY TextFacts
  <1>2. /\ word(i) = Bits(Byte[at(i)])
        /\ word(i + 1) = Bits(Byte[at(i + 1)])
    BY <1>1, ReadableWords DEF byte
  <1>3. /\ at(i) # "c0"
        /\ at(i) = "e0" => at(i + 1) \notin {"80", "90"}
        /\ at(i) = "f0" => at(i + 1) # "80"
    <2>1. /\ text[i] \notin {"c0", "c1"}
          /\ text[i] = "e0" => text[i + 1] \notin {"80", "90"}
          /\ text[i] = "f0" => text[i + 1] # "80"
      BY <1>1 DEF Readable, Overlong
    <2> QED BY <1>1, <2>1
  <1>4. LET b == word(i) IN
        /\ b \intersect {5, 6, 7} = {6, 7} => at(i) = "c0" \/ 1 \in b
        /\ b \intersect {4, 5, 6, 7} = {5, 6, 7} => at(i) = "e0" \/ 3 \in b
        /\ b \intersect {3, 4, 5, 6, 7} = {4, 5, 6, 7} => at(i) = "f0" \/ 2 \in b
    BY <1>2, HighBytes
  <1>5. word(i + 1) \intersect {6, 7} = {7}
    BY LeadIs DEF is_xbyte
  <1>6. LET b == word(i + 1) IN
        /\ at(i + 1) \in {"80", "90"} \/ 5 \in b
        /\ at(i + 1) = "80" \/ 4 \in b \/ 5 \in b
    BY <1>2, <1>5, HighBytes
  <1> QED BY <1>3, <1>4, <1>6, LeadIs

(* The width of a character that is not malformed.                         *)
LEMMA WidthOfChar ==
  ASSUME NEW s, ~(char_get_utf8_width(s) < 0)
  PROVE  \/ char_get_utf8_width(s) = 1 /\ 7 \notin s[1]
         \/ \E n \in 2..4 : /\ char_get_utf8_width(s) = n
                            /\ s[1] \intersect Mask[n] = Lead[n]
                            /\ \A k \in 2..n : is_xbyte(s[k])
                            /\ \A k \in 2..n : s[k] # {}
  <1> DEFINE wide == {width \in 2..4 : s[1] \intersect Mask[width] = Lead[width]}
             width == Max(wide)
             M == Malformed(s, width)
             w == char_get_utf8_width(s)
  <1>1. w = CASE wide = {} -> IF 7 \in s[1] THEN -1 ELSE 1
              [] wide # {} /\ M # {} -> -Min(M)
              [] OTHER -> IF width = 4 /\ Above(char_read_n(s, 4), WEFT_CHAR_MAX)
                          THEN -4 ELSE width
    BY DEF char_get_utf8_width
  <1>2. wide # {} => width \in wide /\ width \in 2..4
    <2>1. wide \subseteq 2..4
      OBVIOUS
    <2> HIDE DEF wide
    <2> QED BY <2>1, Widest
  <1>3. /\ M \subseteq 1..width
        /\ \A k \in 1..width : k \notin M /\ k < width => s[k + 1] # {}
        /\ \A k \in 1..width : k \notin M /\ k > 1 => is_xbyte(s[k])
    BY DEF Malformed
  <1>4. wide # {} => s[1] \intersect Mask[width] = Lead[width]
    BY <1>2
  <1> HIDE DEF wide, width, M, w
  <1>5. CASE wide = {}
    BY <1>1, <1>5 DEF w
  <1>6. CASE wide # {} /\ M # {}
    <2>1. M \in SUBSET Nat
      BY <1>2, <1>3, <1>6
    <2>2. Min(M) \in M
      BY <1>6, <2>1, MinIs
    <2>3. w < 0
      BY <1>1, <1>2, <1>3, <1>6, <2>2
    <2> QED BY <2>3 DEF w
  <1>7. CASE wide # {} /\ M = {}
    <2>1. width \in 2..4 /\ w = width
      BY <1>1, <1>2, <1>7 DEF w
    <2>2. \A k \in 2..width : is_xbyte(s[k])
      <3>1. \A k \in 2..width : k \in 1..width /\ k > 1
        BY <2>1
      <3> QED BY <1>3, <1>7, <3>1
    <2>3. \A k \in 2..width : s[k] # {}
      <3> SUFFICES ASSUME NEW k \in 2..width PROVE s[k] # {}
        OBVIOUS
      <3>1. k - 1 \in 1..width /\ k - 1 < width /\ (k - 1) + 1 = k
        BY <2>1
      <3>2. s[(k - 1) + 1] # {}
        BY <1>3, <1>7, <3>1
      <3> QED BY <3>1, <3>2
    <2> QED BY <1>4, <1>7, <2>1, <2>2, <2>3 DEF w
  <1> QED BY <1>5, <1>6, <1>7

(* A word of one byte is written as it is.                                 *)
LEMMA WriteOne ==
  ASSUME NEW b, b \subseteq 0..7, 7 \notin b
  PROVE  char_write(b) = [k \in 1..1 |-> b]
  <1>1. \A e \in b : e \in 0..6
    BY SMT
  <1>2. ~Above(b, 7) /\ ~Above(b, 11) /\ ~Above(b, 16)
    BY <1>1 DEF Above
  <1>3. char_write(b) = <<Right(b, 1 - 1) \union Lead[1]>> \o
                          [i \in 1..1 - 1 |-> xbyte(b, 1 - 1 - i)]
    <2>1. 1 = WidthOf(b)
      BY <1>2 DEF WidthOf
    <2>2. 1 \in 1..4
      OBVIOUS
    <2> QED BY <2>1, <2>2, WriteOf
  <1>4. Right(b, 1 - 1) \union Lead[1] = b
    <2>1. \A i \in b : i - 6 * (1 - 1) = i /\ i \in 0..7
      OBVIOUS
    <2>2. Right(b, 1 - 1) = {i - 6 * (1 - 1) : i \in b} \intersect 0..7
      BY DEF Right
    <2>3. Right(b, 1 - 1) = b
      BY <2>1, <2>2
    <2> QED BY <2>3, LeadIs
  <1>5. <<b>> \o [i \in 1..1 - 1 |-> xbyte(b, 1 - 1 - i)] = <<b>>
    OBVIOUS
  <1>6. <<b>> = [k \in 1..1 |-> b]
    OBVIOUS
  <1> QED BY <1>3, <1>4, <1>5, <1>6

(* The bytes from one place up to another.                                 *)
BytesOf(i, end) == [k \in 1..end - i |-> byte(i + k - 1)]

(* A character that is read is written as the bytes it was read from.      *)
LEMMA Utf8Written ==
  ASSUME text \in Texts, signed \in BOOLEAN, Readable, NEW i \in 1..Nul, at(i) # NUL,
         parse_utf8(i).type = "char"
  PROVE  LET token == parse_utf8(i) IN
         /\ token = tag_char(i, token.end, token.cnum) /\ token.end \in i + 1..Nul
         /\ char_write(token.cnum) = BytesOf(i, token.end)
         /\ \A k \in 1..token.end - i : byte(i + k - 1) # {}
  <1> DEFINE s == <<word(i), word(i + 1), word(i + 2), word(i + 3)>>
             width == char_get_utf8_width(s)
             token == parse_utf8(i)
  <1>1. token = IF width < 0 THEN tag_token("error", i, i - width)
                ELSE tag_char(i, i + width, char_read_n(s, width))
    BY DEF parse_utf8
  <1>2. /\ i \in Nat \ {0} /\ i + 1 \in Nat \ {0} /\ i + 2 \in Nat \ {0} /\ i + 3 \in Nat \ {0}
        /\ i \in 1..Len(text) /\ Len(text) \in Nat
        /\ token.src = i /\ token.end \in i + 1..Nul
    BY TextFacts, Utf8 DEF IsToken
  <1>3. /\ s[1] = word(i) /\ s[2] = word(i + 1) /\ s[3] = word(i + 2) /\ s[4] = word(i + 3)
        /\ \A k \in 1..4 : s[k] = word(i + k - 1)
    <2>1. s[1] = word(i) /\ s[2] = word(i + 1) /\ s[3] = word(i + 2) /\ s[4] = word(i + 3)
      OBVIOUS
    <2>2. \A k \in 1..4 : k = 1 \/ k = 2 \/ k = 3 \/ k = 4
      OBVIOUS
    <2>3. i + 1 - 1 = i /\ i + 2 - 1 = i + 1 /\ i + 3 - 1 = i + 2 /\ i + 4 - 1 = i + 3
      BY <1>2
    <2> HIDE DEF s
    <2> QED BY <2>1, <2>2, <2>3
  <1>4. ~(width < 0)
    <2>1. tag_token("error", i, i - width).type = "error"
      BY DEF tag_token
    <2> HIDE DEF width
    <2> QED BY <1>1, <2>1 DEF token
  <1>5. token = tag_char(i, i + width, char_read_n(s, width))
    BY <1>1, <1>4
  <1> HIDE DEF s
  <1>6. \/ width = 1 /\ 7 \notin s[1]
        \/ \E n \in 2..4 : /\ width = n
                           /\ s[1] \intersect Mask[n] = Lead[n]
                           /\ \A k \in 2..n : is_xbyte(s[k])
                           /\ \A k \in 2..n : s[k] # {}
    BY <1>4, WidthOfChar
  <1> HIDE DEF width, token
  <1>7. token.end = i + width /\ token.cnum = char_read_n(s, width)
    BY <1>5 DEF tag_char
  <1>8. token = tag_char(i, token.end, token.cnum)
    BY <1>5, <1>7
  <1>9. word(i) = byte(i) /\ word(i) # {} /\ word(i) \subseteq 0..7
        /\ (7 \in word(i) <=> at(i) \in DOMAIN High)
    BY <1>2, ReadableWords
  <1>10. ASSUME width = 1, 7 \notin s[1]
        PROVE  /\ char_write(token.cnum) = BytesOf(i, token.end)
               /\ \A k \in 1..token.end - i : byte(i + k - 1) # {}
    <2>1. token.cnum = word(i) /\ token.end - i = 1
      BY <1>2, <1>3, <1>7, <1>10 DEF char_read_n
    <2>2. char_write(word(i)) = [k \in 1..1 |-> word(i)]
      BY <1>3, <1>9, <1>10, WriteOne
    <2>3. \A k \in 1..1 : byte(i + k - 1) = word(i)
      BY <1>2, <1>9
    <2>4. BytesOf(i, token.end) = [k \in 1..1 |-> word(i)]
      BY <2>1, <2>3 DEF BytesOf
    <2> QED BY <1>9, <2>1, <2>2, <2>3, <2>4
  <1>11. ASSUME NEW n \in 2..4, width = n, s[1] \intersect Mask[n] = Lead[n],
                \A k \in 2..n : is_xbyte(s[k]),
                \A k \in 2..n : s[k] # {}
         PROVE  /\ char_write(token.cnum) = BytesOf(i, token.end)
                /\ \A k \in 1..token.end - i : byte(i + k - 1) # {}
    <2>1. token.end - i = n /\ token.cnum = char_read_n(s, n)
      BY <1>2, <1>7, <1>11
    <2>2. ASSUME NEW k \in 1..n
          PROVE  s[k] = byte(i + k - 1) /\ s[k] # {} /\ s[k] \subseteq 0..7
      <3>1. k \in 1..4 /\ i + k - 1 \in Nat \ {0}
        BY <1>2
      <3>2. s[k] = word(i + k - 1)
        BY <1>3, <3>1
      <3>3. s[k] # {}
        <4>1. k = 1 \/ k \in 2..n
          OBVIOUS
        <4> QED BY <1>3, <1>9, <1>11, <4>1
      <3>4. at(i + k - 1) # NUL
        BY <3>1, <3>2, <3>3, ReadableWords
      <3> QED BY <3>1, <3>2, <3>3, <3>4, ReadableWords
    <2>3. /\ n = 2 => 1 \in s[1]
          /\ n = 3 => 3 \in s[1] \/ 5 \in s[2]
          /\ n = 4 => 2 \in s[1] \/ 4 \in s[2] \/ 5 \in s[2]
      <3>1. is_xbyte(word(i + 1)) /\ word(i + 1) # {}
        <4>1. 2 \in 2..n
          OBVIOUS
        <4> QED BY <1>3, <1>11, <4>1
      <3>2. 7 \in word(i) /\ 7 \in word(i + 1)
        <4>1. 7 \in Lead[n]
          <5>1. n = 2 \/ n = 3 \/ n = 4
            OBVIOUS
          <5> QED BY <5>1, LeadIs
        <4>2. 7 \in word(i)
          BY <1>3, <1>11, <4>1
        <4>3. 7 \in word(i + 1)
          <5>1. word(i + 1) \intersect {6, 7} = {7}
            BY <3>1, LeadIs DEF is_xbyte
          <5> QED BY <5>1
        <4> QED BY <4>2, <4>3
      <3>3. /\ i + 1 \in 1..Len(text) /\ at(i) \in DOMAIN High /\ at(i + 1) \in DOMAIN High
        BY <1>2, <1>9, <3>1, <3>2, ReadableWords
      <3>4. /\ word(i) \intersect Mask[2] = Lead[2] => 1 \in word(i)
            /\ word(i) \intersect Mask[3] = Lead[3] => 3 \in word(i) \/ 5 \in word(i + 1)
            /\ word(i) \intersect Mask[4] = Lead[4] =>
                 2 \in word(i) \/ 4 \in word(i + 1) \/ 5 \in word(i + 1)
        BY <1>2, <3>1, <3>3, NotOverlong
      <3> QED BY <1>3, <1>11, <3>4
    <2>4. char_write(char_read_n(s, n)) = [k \in 1..n |-> s[k]]
      BY <1>11, <2>2, <2>3, WriteRead
    <2>5. [k \in 1..n |-> s[k]] = BytesOf(i, token.end)
      BY <2>1, <2>2 DEF BytesOf
    <2> QED BY <2>1, <2>2, <2>4, <2>5
  <1> QED BY <1>2, <1>6, <1>10, <1>11, <1>8 DEF token

(* There is no backslash, so every character is one.                       *)
LEMMA BareWritten ==
  ASSUME text \in Texts, signed \in BOOLEAN, Readable, NEW i \in 1..Nul, at(i) # NUL
  PROVE  parse_char_bare(i) = parse_utf8(i)
  <1>1. i \in 1..Len(text) /\ at(i) = text[i] /\ DOMAIN text = 1..Len(text)
    BY TextFacts
  <1>2. at(i) # "\\"
    BY <1>1 DEF Readable, ToSet
  <1> QED BY <1>2 DEF parse_char_bare

(* A string gets all the bytes of a character, as none of them is a NUL.   *)
LEMMA PushWritten ==
  ASSUME NEW n \in Nat, NEW bytes, bytes = [k \in 1..n |-> bytes[k]],
         \A k \in 1..n : bytes[k] # {},
         NEW buf, NEW cnum, char_write(cnum) = bytes
  PROVE  push_char(buf, cnum) = buf \o bytes
  <1>1. DOMAIN bytes = 1..n /\ Len(bytes) = n
    OBVIOUS
  <1>2. {i \in DOMAIN bytes : bytes[i] = {}} \union {Len(bytes) + 1} = {n + 1}
    BY <1>1
  <1>3. Min({n + 1}) = n + 1
    <2>1. {n + 1} \in SUBSET Nat /\ {n + 1} # {}
      OBVIOUS
    <2>2. Min({n + 1}) \in {n + 1}
      BY <2>1, MinIs
    <2> QED BY <2>2
  <1>4. strlen(bytes) = n
    <2>1. strlen(bytes) = Min({n + 1}) - 1
      BY <1>2, Zenon DEF strlen
    <2> QED BY <1>3, <2>1
  <1>5. SubSeq(bytes, 1, n) = bytes
    BY <1>1
  <1> QED BY <1>4, <1>5 DEF push_char

(* A token that is a character has the bytes between its quotes.           *)
WrittenToken(token) ==
  token.type = "char" =>
    char_write(token.cnum) =
      [i \in 1..token.end - token.src - 2 |-> byte(token.src + i)]

LEMMA ScanWritten ==
  ASSUME text \in Texts, signed \in BOOLEAN, Readable, NEW i \in 1..Nul, at(i) # NUL,
         kind(i) \notin {"indent", "str", "shuffle"}
  PROVE  WrittenToken(scan(i))
  <1> SUFFICES ASSUME scan(i).type = "char"
               PROVE  char_write(scan(i).cnum) =
                        [k \in 1..scan(i).end - scan(i).src - 2 |-> byte(scan(i).src + k)]
    BY DEF WrittenToken
  <1> DEFINE bare == parse_char_bare(i + 1)
             token == scan(i)
  <1>1. kind(i) = "char"
    BY Scans
  <1>2. token = parse_char(i) /\ token.type = "char"
    BY <1>1 DEF scan
  <1>3. /\ i \in Nat /\ Nul \in Nat
        /\ \A j \in Nat \ {0} : at(j) # NUL => j \in 1..Nul
    BY TextFacts
  <1>4. at(i + 1) # NUL /\ token = [bare EXCEPT !.src = i, !.end = @ + 1]
    <2>1. /\ tag_token("error", i, i + 1).type = "error"
          /\ tag_token("error", i, bare.end).type = "error"
          /\ tag_token("error", i, char_end(bare.end)).type = "error"
      BY DEF tag_token
    <2>2. token = CASE at(i + 1) = NUL -> tag_token("error", i, i + 1)
                    [] at(i + 1) # NUL /\ at(bare.end) = NUL -> tag_token("error", i, bare.end)
                    [] at(i + 1) # NUL /\ at(bare.end) \notin {NUL, "'"} ->
                         tag_token("error", i, char_end(bare.end))
                    [] OTHER -> [bare EXCEPT !.src = i, !.end = @ + 1]
      BY <1>2 DEF parse_char
    <2> HIDE DEF bare, token
    <2>3. "error" # "char"
      OBVIOUS
    <2> QED BY <1>2, <2>1, <2>2, <2>3
  <1>5. i + 1 \in 1..Nul /\ bare = parse_utf8(i + 1)
    BY <1>3, <1>4, BareWritten
  <1>6. bare.type \in {"char", "error"} /\ {"src", "end"} \subseteq DOMAIN bare
    BY <1>4, <1>5, Utf8
  <1>7. bare.type = "char"
    <2> HIDE DEF bare, token
    <2>1. bare.type = "error" => token.type = "error"
      BY <1>4, <1>6
    <2> QED BY <1>2, <1>6, <2>1
  <1>8. /\ bare = tag_char(i + 1, bare.end, bare.cnum) /\ bare.end \in i + 2..Nul
        /\ char_write(bare.cnum) = BytesOf(i + 1, bare.end)
    <2>1. (i + 1) + 1 = i + 2
      BY <1>3
    <2> QED BY <1>4, <1>5, <1>7, <2>1, Utf8Written
  <1> HIDE DEF bare, token
  <1>9. token.src = i /\ token.end = bare.end + 1 /\ token.cnum = bare.cnum
    BY <1>4, <1>8 DEF tag_char
  <1>10. BytesOf(i + 1, bare.end) = [k \in 1..token.end - token.src - 2 |-> byte(token.src + k)]
    <2>1. token.end - token.src - 2 = bare.end - (i + 1)
      BY <1>3, <1>8, <1>9
    <2>2. \A k \in 1..bare.end - (i + 1) : (i + 1) + k - 1 = token.src + k
      BY <1>3, <1>9
    <2> QED BY <2>1, <2>2 DEF BytesOf
  <1> QED BY <1>8, <1>9, <1>10 DEF token

(* The bytes of a string are those at the places that were kept.           *)
BytesAt(kept) == [i \in DOMAIN kept |-> byte(kept[i])]

StringIs(s) ==
  /\ {"end", "buf", "kept"} \subseteq DOMAIN s
  /\ s.kept \in Seq(Nat)
  /\ s.buf = BytesAt(s.kept)

PlacesOf(i, end) == [k \in 1..end - i |-> i + k - 1]

LEMMA KeptJoins ==
  ASSUME NEW kept \in Seq(Nat), NEW p \in Nat \ {0}, NEW end \in Nat, p <= end
  PROVE  /\ kept \o PlacesOf(p, end) \in Seq(Nat)
         /\ BytesAt(kept) \o BytesOf(p, end) = BytesAt(kept \o PlacesOf(p, end))
  <1> DEFINE n == end - p
             d == [k \in 1..n |-> p + k - 1]
             left == [i \in DOMAIN kept |-> byte(kept[i])]
             right == BytesOf(p, end)
             all == [i \in DOMAIN (kept \o d) |-> byte((kept \o d)[i])]
  <1>1. n \in Nat /\ d \in Seq(Nat) /\ Len(d) = n
    <2>1. n \in Nat
      OBVIOUS
    <2>2. \A k \in 1..n : p + k - 1 \in Nat
      OBVIOUS
    <2> HIDE DEF n
    <2> QED BY <2>1, <2>2
  <1>2. /\ right = [k \in 1..n |-> byte(d[k])]
    BY DEF BytesOf
  <1>3. \A k \in 1..n : d[k] \in Nat
    BY <1>1
  <1>4. Len(kept) \in Nat /\ DOMAIN kept = 1..Len(kept)
    BY LenProperties
  <1> DEFINE B == {byte(k) : k \in Nat}
  <1>5. left \in Seq(B) /\ Len(left) = Len(kept) /\ \A i \in 1..Len(kept) : left[i] = byte(kept[i])
    <2>1. \A i \in 1..Len(kept) : kept[i] \in Nat
      BY ElementOfSeq
    <2>2. left \in [1..Len(kept) -> B]
      BY <1>4, <2>1
    <2> HIDE DEF B
    <2> QED BY <1>4, <2>2
  <1>6. right \in Seq(B) /\ Len(right) = n /\ \A k \in 1..n : right[k] = byte(d[k])
    <2>1. right \in [1..n -> B]
      BY <1>2, <1>3
    <2> HIDE DEF B, right, d, n
    <2> QED BY <1>1, <1>2, <2>1
  <1> HIDE DEF d, left, right, n, B
  <1>7. /\ kept \o d \in Seq(Nat) /\ Len(kept \o d) = Len(kept) + n
        /\ \A i \in 1..Len(kept) + n :
             (kept \o d)[i] = IF i <= Len(kept) THEN kept[i] ELSE d[i - Len(kept)]
    BY <1>1, ConcatProperties
  <1>8. /\ left \o right \in Seq(B) /\ Len(left \o right) = Len(kept) + n
        /\ \A i \in 1..Len(kept) + n :
             (left \o right)[i] = IF i <= Len(kept) THEN left[i] ELSE right[i - Len(kept)]
    <2>1. left \in Seq(B) /\ right \in Seq(B)
      BY <1>5, <1>6
    <2>2. /\ left \o right \in Seq(B) /\ Len(left \o right) = Len(left) + Len(right)
          /\ \A i \in 1..Len(left) + Len(right) :
               (left \o right)[i] = IF i <= Len(left) THEN left[i] ELSE right[i - Len(left)]
      BY <2>1, ConcatProperties, Zenon
    <2>3. Len(left) = Len(kept) /\ Len(right) = n
      BY <1>5, <1>6
    <2> QED BY <2>2, <2>3
  <1>9. ASSUME NEW i \in 1..Len(kept) + n
        PROVE  (left \o right)[i] = byte((kept \o d)[i])
    <2>1. CASE i <= Len(kept)
      <3>1. i \in 1..Len(kept)
        BY <1>4, <2>1
      <3> QED BY <1>5, <1>7, <1>8, <2>1, <3>1
    <2>2. CASE ~(i <= Len(kept))
      <3>1. i - Len(kept) \in 1..n
        BY <1>1, <1>4, <2>2
      <3> QED BY <1>6, <1>7, <1>8, <2>2, <3>1
    <2> QED BY <2>1, <2>2
  <1>10. DOMAIN (kept \o d) = 1..Len(kept) + n
    BY <1>1, <1>4, <1>7, LenProperties
  <1>11. left \o right = [i \in 1..Len(kept) + n |-> (left \o right)[i]]
    BY <1>8, LenProperties
  <1>12. left \o right = all
    BY <1>9, <1>10, <1>11
  <1> QED BY <1>7, <1>12 DEF d, left, right, n, BytesAt, PlacesOf

(* The tokens, and the string that is read.                                *)
WrittenAre(toks, s) ==
  Readable => StringIs(s) /\ \A k \in DOMAIN toks : WrittenToken(toks[k])

WrittenInv == WrittenAre(tokens, str)

LEMMA WrittenStays ==
  ASSUME text' = text, signed' = signed
  PROVE  WrittenInv' <=> WrittenAre(tokens', str')
  <1>1. Readable' <=> Readable
    BY DEF Readable, Overlong
  <1>2. \A i : byte(i)' = byte(i)
    BY DEF byte
  <1>3. \A token : WrittenToken(token)' <=> WrittenToken(token)
    BY <1>2 DEF WrittenToken
  <1>4. \A s : StringIs(s)' <=> StringIs(s)
    BY <1>2 DEF StringIs, BytesAt
  <1> QED BY <1>1, <1>3, <1>4 DEF WrittenInv, WrittenAre

LEMMA TakeWritten ==
  ASSUME TextInv, WrittenInv, NEW token, Take(token),
         text' = text, signed' = signed, str' = str,
         Readable => WrittenToken(token)
  PROVE  WrittenInv'
  <1>1. /\ Len(tokens) \in Nat /\ DOMAIN tokens = 1..Len(tokens)
        /\ DOMAIN tokens' = 1..Len(tokens) + 1
        /\ tokens'[Len(tokens) + 1] = token
        /\ \A k \in 1..Len(tokens) : tokens'[k] = tokens[k]
    BY Appended DEF TextInv, TypeOK, Take
  <1>2. ASSUME Readable, NEW k \in DOMAIN tokens' PROVE WrittenToken(tokens'[k])
    <2>1. CASE k = Len(tokens) + 1
      BY <1>1, <1>2, <2>1
    <2>2. CASE k # Len(tokens) + 1
      <3>1. k \in DOMAIN tokens /\ tokens'[k] = tokens[k]
        BY <1>1, <2>2
      <3> QED BY <1>2, <3>1 DEF WrittenInv, WrittenAre
    <2> QED BY <2>1, <2>2
  <1>3. WrittenAre(tokens', str')
    BY <1>2 DEF WrittenInv, WrittenAre
  <1> QED BY <1>3, WrittenStays

(* One more character of a string.                                         *)
LEMMA CharWritten ==
  ASSUME text \in Texts, signed \in BOOLEAN, Readable,
         NEW p \in 1..Nul, at(p) # NUL, NEW kept \in Seq(Nat),
         NEW bare, bare = parse_char_bare(p), bare.type = "char"
  PROVE  /\ kept \o PlacesOf(bare.src, bare.end) \in Seq(Nat)
         /\ push_char(BytesAt(kept), bare.cnum) =
              BytesAt(kept \o PlacesOf(bare.src, bare.end))
  <1> DEFINE n == bare.end - p
             bytes == BytesOf(p, bare.end)
  <1>1. /\ bare = tag_char(p, bare.end, bare.cnum) /\ bare.end \in p + 1..Nul
        /\ char_write(bare.cnum) = bytes
        /\ \A k \in 1..n : byte(p + k - 1) # {}
    BY BareWritten, Utf8Written
  <1>2. bare.src = p
    BY <1>1 DEF tag_char
  <1>3. Nul \in Nat /\ p \in Nat \ {0} /\ bare.end \in Nat /\ p <= bare.end /\ n \in Nat
    BY <1>1, TextFacts
  <1>4. bytes = [k \in 1..n |-> bytes[k]] /\ \A k \in 1..n : bytes[k] # {}
    BY <1>1 DEF BytesOf
  <1> HIDE DEF bytes, n
  <1>5. push_char(BytesAt(kept), bare.cnum) = BytesAt(kept) \o bytes
    BY <1>1, <1>3, <1>4, PushWritten
  <1>6. /\ kept \o PlacesOf(p, bare.end) \in Seq(Nat)
        /\ BytesAt(kept) \o bytes = BytesAt(kept \o PlacesOf(p, bare.end))
    BY <1>3, KeptJoins DEF bytes
  <1> QED BY <1>2, <1>5, <1>6

LEMMA WrittenStep ==
  ASSUME TextInv, WrittenInv, [Next]_vars
  PROVE  WrittenInv'
  <1>1. /\ text \in Texts /\ signed \in BOOLEAN /\ src \in 1..Nul /\ src \in Nat
        /\ Nul \in Nat /\ text' = text
    BY TextFacts, OneText DEF TextInv, TypeOK
  <1>2. signed' = signed
    BY DEF Next, Start, Indent, Scan, ReadBehind, Eof, Stopped, vars, TakeIndent, Overrun,
           OpenStr, InStr, CloseStr, EofInStr, OpenShuffle, In, Pivot, Out, CloseShuffle,
           EofInShuffle
  <1>3. ASSUME tokens' = tokens, str' = str
        PROVE  WrittenInv'
    BY <1>1, <1>2, <1>3, WrittenStays DEF WrittenInv
  <1>4. CASE \/ Overrun \/ ReadBehind \/ Eof \/ Stopped \/ UNCHANGED vars
             \/ OpenShuffle \/ In \/ Pivot \/ Out
    <2>1. tokens' = tokens /\ str' = str
      BY <1>4, Zenon DEF Overrun, ReadBehind, Eof, Stopped, vars, OpenShuffle, In, Pivot, Out
    <2> QED BY <1>3, <2>1
  <1>5. ASSUME NEW token, Take(token), str' = str, token.type # "char"
        PROVE  WrittenInv'
    BY <1>1, <1>2, <1>5, TakeWritten DEF WrittenToken
  <1>6. CASE Start \/ Indent
    <2>1. PICK i : TakeIndent(i)
      BY <1>6 DEF Start, Indent
    <2>2. CASE Overrun
      BY <1>4, <2>2
    <2>3. CASE Take(tag_indent(i, Min(IndentEnds(i)))) /\ str' = str
      <3>1. tag_indent(i, Min(IndentEnds(i))).type # "char"
        BY DEF tag_indent
      <3> QED BY <1>5, <2>3, <3>1
    <2> QED BY <2>1, <2>2, <2>3, Zenon DEF TakeIndent
  <1>7. CASE Scan
    <2> DEFINE token == scan(src)
    <2>1. at(src) # NUL /\ kind(src) \notin {"indent", "str", "shuffle"}
      BY <1>7 DEF Scan
    <2>2. Readable => WrittenToken(token)
      BY <1>1, <2>1, ScanWritten
    <2> HIDE DEF token
    <2>3. (Take(token) /\ str' = str) \/ Overrun
      BY <1>7 DEF Scan, token
    <2>4. CASE Take(token) /\ str' = str
      BY <1>1, <1>2, <2>2, <2>4, TakeWritten
    <2> QED BY <1>4, <2>3, <2>4
  <1>8. CASE OpenStr
    <2>1. tokens' = tokens /\ str' = [end |-> src + 1, buf |-> <<>>, kept |-> <<>>]
      BY <1>8 DEF OpenStr
    <2>2. StringIs(str')
      BY <2>1 DEF StringIs, BytesAt
    <2>3. WrittenAre(tokens', str')
      BY <2>1, <2>2 DEF WrittenInv, WrittenAre
    <2> QED BY <1>1, <1>2, <2>3, WrittenStays
  <1>9. CASE InStr
    <2> DEFINE bare == parse_char_bare(str.end)
               buf == push_char(str.buf, bare.cnum)
               kept == str.kept \o PlacesOf(bare.src, bare.end)
    <2>1. /\ pc = "str" /\ at(str.end) # NUL
          /\ \/ /\ tokens' = tokens
                /\ \/ bare.type # "char" /\ str' = [str EXCEPT !.end = bare.end]
                   \/ bare.type = "char" /\ str' = [end |-> bare.end, buf |-> buf, kept |-> kept]
             \/ Overrun
      BY <1>9, Zenon DEF InStr, PlacesOf
    <2>2. str.end \in 1..Nul
      <3>1. str.end \in src + 1..Nul
        BY <2>1 DEF TextInv, TypeOK
      <3> QED BY <1>1, <3>1
    <2>3. ASSUME Readable, bare.type # "char", str' = [str EXCEPT !.end = bare.end]
          PROVE  StringIs(str')
      <3>1. StringIs(str)
        BY <2>3 DEF WrittenInv, WrittenAre
      <3> HIDE DEF bare
      <3>2. DOMAIN str' = DOMAIN str /\ str'.buf = str.buf /\ str'.kept = str.kept
        BY <2>3, <3>1 DEF StringIs
      <3> QED BY <3>1, <3>2, Zenon DEF StringIs
    <2>4. ASSUME Readable, bare.type = "char",
                 str' = [end |-> bare.end, buf |-> buf, kept |-> kept]
          PROVE  StringIs(str')
      <3>1. str.kept \in Seq(Nat) /\ str.buf = BytesAt(str.kept)
        BY <2>4 DEF WrittenInv, WrittenAre, StringIs
      <3>2. kept \in Seq(Nat) /\ push_char(BytesAt(str.kept), bare.cnum) = BytesAt(kept)
        BY <1>1, <2>1, <2>2, <2>4, <3>1, CharWritten
      <3>3. buf = BytesAt(kept)
        BY <3>1, <3>2
      <3> HIDE DEF bare, buf, kept
      <3>4. {"end", "buf", "kept"} \subseteq DOMAIN str' /\ str'.buf = buf /\ str'.kept = kept
        BY <2>4
      <3> QED BY <3>2, <3>3, <3>4, Zenon DEF StringIs
    <2> HIDE DEF bare, buf, kept
    <2>5. CASE Overrun
      BY <1>4, <2>5
    <2>6. CASE ~Overrun
      <3>1. tokens' = tokens /\ (Readable => StringIs(str'))
        BY <2>1, <2>3, <2>4, <2>6, Zenon
      <3>2. WrittenAre(tokens', str')
        BY <3>1 DEF WrittenInv, WrittenAre
      <3> QED BY <1>1, <1>2, <3>2, WrittenStays
    <2> QED BY <2>5, <2>6
  <1>10. CASE CloseStr
    <2>1. Take(tag_str(src, str.end + 1, str.buf)) /\ str' = str
      BY <1>10, Zenon DEF CloseStr
    <2>2. tag_str(src, str.end + 1, str.buf).type # "char"
      BY DEF tag_str
    <2> QED BY <1>5, <2>1, <2>2
  <1>11. CASE EofInStr \/ CloseShuffle \/ EofInShuffle
    <2>1. PICK type \in {"error", "shuffle"} :
            \E end : Take(tag_token(type, src, end)) /\ str' = str
      BY <1>11, Zenon DEF EofInStr, CloseShuffle, EofInShuffle
    <2>2. \A end : tag_token(type, src, end).type # "char"
      BY DEF tag_token
    <2> QED BY <1>5, <2>1, <2>2
  <1> QED BY <1>4, <1>6, <1>7, <1>8, <1>9, <1>10, <1>11, Zenon DEF Next

(* A string or a character has the bytes of the characters that were read  *)
(* for it: char_write gives back what char_read_n has taken apart, at all  *)
(* widths, and strlen finds no NUL in it.                                  *)
THEOREM ReadAndWritten == Spec => []Faithful
  <1>1. Init => WrittenInv
    <2> SUFFICES ASSUME Init PROVE WrittenInv
      OBVIOUS
    <2>1. tokens = <<>> /\ str = [end |-> 0, buf |-> <<>>, kept |-> <<>>]
      BY DEF Init
    <2>2. DOMAIN tokens = {} /\ StringIs(str)
      BY <2>1 DEF StringIs, BytesAt
    <2> QED BY <2>2 DEF WrittenInv, WrittenAre
  <1>2. TextInv /\ WrittenInv /\ [Next]_vars => WrittenInv'
    BY WrittenStep
  <1>3. WrittenInv => Faithful
    BY DEF WrittenInv, WrittenAre, StringIs, BytesAt, WrittenToken, byte, Readable, Faithful
  <1> QED BY <1>1, <1>2, <1>3, TextInvariant, PTL DEF Spec

-----------------------------------------------------------------------------
(* Sums and powers.                                                        *)

(* What is made of v by n steps.                                           *)
IsRec(f, n, v, step) ==
  f = [k \in 0..n |-> IF k = 0 THEN v ELSE step[<<k, f[k - 1]>>]]

LEMMA RecExists ==
  ASSUME NEW S, NEW v \in S, NEW step \in [Nat \X S -> S], NEW n \in Nat
  PROVE  \E f \in [0..n -> S] : IsRec(f, n, v, step)
  <1> DEFINE T == {m \in Nat : \E f \in [0..m -> S] : IsRec(f, m, v, step)}
  <1>1. 0 \in T
    <2> DEFINE f == [k \in 0..0 |-> v]
    <2>1. f \in [0..0 -> S] /\ IsRec(f, 0, v, step)
      BY DEF IsRec
    <2> QED BY <2>1
  <1>2. ASSUME NEW m \in Nat, m \in T PROVE m + 1 \in T
    <2>1. PICK f \in [0..m -> S] : IsRec(f, m, v, step)
      BY <1>2
    <2> DEFINE last == step[<<m + 1, f[m]>>]
               g == [k \in 0..m + 1 |-> IF k = m + 1 THEN last ELSE f[k]]
    <2>2. last \in S
      BY <2>1
    <2> HIDE DEF last
    <2>3. g \in [0..m + 1 -> S]
      BY <2>1, <2>2
    <2>4. g[m + 1] = last /\ \A k \in 0..m : g[k] = f[k]
      OBVIOUS
    <2> HIDE DEF g
    <2>5. ASSUME NEW k \in 0..m + 1
          PROVE  g[k] = IF k = 0 THEN v ELSE step[<<k, g[k - 1]>>]
      <3>1. CASE k = m + 1
        BY <2>4, <3>1 DEF last
      <3>2. CASE k # m + 1
        <4>1. k \in 0..m /\ (k # 0 => k - 1 \in 0..m)
          BY <3>2
        <4>2. f[k] = IF k = 0 THEN v ELSE step[<<k, f[k - 1]>>]
          BY <2>1, <4>1, Zenon DEF IsRec
        <4> QED BY <2>4, <4>1, <4>2
      <3> QED BY <3>1, <3>2
    <2>6. g = [k \in 0..m + 1 |-> IF k = 0 THEN v ELSE step[<<k, g[k - 1]>>]]
      BY <2>3, <2>5
    <2>7. IsRec(g, m + 1, v, step)
      BY <2>6 DEF IsRec
    <2> QED BY <2>3, <2>7
  <1>3. n \in T
    BY <1>1, <1>2, Counting
  <1> QED BY <1>3

(* The steps are the same however many more there are.                     *)
LEMMA RecSame ==
  ASSUME NEW v, NEW step, NEW n \in Nat, NEW m \in 0..n, NEW f, NEW g,
         IsRec(f, n, v, step), IsRec(g, m, v, step)
  PROVE  \A k \in 0..m : f[k] = g[k]
  <1> DEFINE T == {k \in Nat : k <= m => f[k] = g[k]}
  <1>1. 0 \in T
    BY DEF IsRec
  <1>2. ASSUME NEW k \in Nat, k \in T PROVE k + 1 \in T
    BY <1>2 DEF IsRec
  <1>3. \A k \in Nat : k \in T
    BY <1>1, <1>2, Counting
  <1> QED BY <1>3

(* So many factors.                                                        *)
PowersOf(p, base, n) == p = [m \in 0..n |-> IF m = 0 THEN 1 ELSE base * p[m - 1]]

PowerSteps(base) == [x \in Nat \X Nat |-> base * x[2]]

LEMMA PowerRec ==
  ASSUME NEW base \in Nat, NEW n \in Nat
  PROVE  \E p \in [0..n -> Nat] :
           IsRec(p, n, 1, PowerSteps(base)) /\ power(base, n) = p[n]
  <1> DEFINE P == CHOOSE p : PowersOf(p, base, n)
  <1>1. \A p \in [0..n -> Nat] : IsRec(p, n, 1, PowerSteps(base)) => PowersOf(p, base, n)
    <2> SUFFICES ASSUME NEW p \in [0..n -> Nat], IsRec(p, n, 1, PowerSteps(base))
                 PROVE  PowersOf(p, base, n)
      OBVIOUS
    <2>1. \A k \in 0..n : k # 0 => PowerSteps(base)[<<k, p[k - 1]>>] = base * p[k - 1]
      BY DEF PowerSteps
    <2> QED BY <2>1 DEF IsRec, PowersOf
  <1>2. PowerSteps(base) \in [Nat \X Nat -> Nat]
    BY DEF PowerSteps
  <1>3. \E p \in [0..n -> Nat] : IsRec(p, n, 1, PowerSteps(base))
    BY <1>2, RecExists
  <1>4. PowersOf(P, base, n)
    BY <1>1, <1>3
  <1>5. power(base, n) = P[n]
    BY DEF power, PowersOf
  <1> HIDE DEF P
  <1>6. \A k \in 0..n : P[k] \in Nat
    <2> DEFINE T == {k \in Nat : k <= n => P[k] \in Nat}
    <2>1. 0 \in T
      BY <1>4 DEF PowersOf
    <2>2. ASSUME NEW k \in Nat, k \in T PROVE k + 1 \in T
      BY <1>4, <2>2 DEF PowersOf
    <2>3. \A k \in Nat : k \in T
      BY <2>1, <2>2, Counting
    <2> QED BY <2>3
  <1>7. P \in [0..n -> Nat]
    BY <1>4, <1>6 DEF PowersOf
  <1>8. IsRec(P, n, 1, PowerSteps(base))
    <2>1. \A k \in 0..n : k # 0 => PowerSteps(base)[<<k, P[k - 1]>>] = base * P[k - 1]
      BY <1>6 DEF PowerSteps
    <2> QED BY <1>4, <2>1 DEF IsRec, PowersOf
  <1> QED BY <1>5, <1>7, <1>8

LEMMA Powers ==
  ASSUME NEW base \in Nat \ {0}, NEW n \in Nat
  PROVE  /\ power(base, n) \in Nat \ {0}
         /\ power(base, 0) = 1
         /\ power(base, n + 1) = base * power(base, n)
  <1>1. power(base, 0) = 1
    <2>1. PICK p \in [0..0 -> Nat] : IsRec(p, 0, 1, PowerSteps(base)) /\ power(base, 0) = p[0]
      BY PowerRec
    <2> QED BY <2>1 DEF IsRec
  <1>2. ASSUME NEW m \in Nat
        PROVE  power(base, m) \in Nat /\ power(base, m + 1) = base * power(base, m)
    <2>1. PICK p \in [0..m -> Nat] : IsRec(p, m, 1, PowerSteps(base)) /\ power(base, m) = p[m]
      BY PowerRec
    <2> m + 1 \in Nat /\ m \in 0..m + 1 /\ m \in 0..m
      OBVIOUS
    <2>2. PICK q \in [0..m + 1 -> Nat] :
             IsRec(q, m + 1, 1, PowerSteps(base)) /\ power(base, m + 1) = q[m + 1]
      BY PowerRec
    <2>3. q[m] = p[m]
      BY <2>1, <2>2, RecSame
    <2>4. q[m + 1] = PowerSteps(base)[<<m + 1, q[m]>>]
      BY <2>2 DEF IsRec
    <2>5. q[m + 1] = base * q[m]
      BY <2>2, <2>4 DEF PowerSteps
    <2> QED BY <2>1, <2>2, <2>3, <2>5
  <1>3. power(base, n) \in Nat \ {0}
    <2> DEFINE T == {m \in Nat : power(base, m) # 0}
    <2>1. 0 \in T
      BY <1>1
    <2>2. ASSUME NEW m \in Nat, m \in T PROVE m + 1 \in T
      <3>1. \A x, y \in Nat : x # 0 /\ y # 0 => x * y # 0
        OBVIOUS
      <3> QED BY <1>2, <2>2, <3>1
    <2>3. n \in T
      BY <2>1, <2>2, Counting
    <2> QED BY <1>2, <2>3
  <1> QED BY <1>1, <1>2, <1>3

(* Digits of a base.                                                       *)
Digital(s, base) ==
  base \in Nat \ {0} /\ Len(s) \in Nat /\ \A k \in 1..Len(s) : Digit[s[k]] \in 0..base - 1

Worth(s, k) == IF k \in 1..Len(s) THEN Digit[s[k]] ELSE 0

(* The values of the first digits, without an overflow.                    *)
ExactSteps(s, base) == [x \in Nat \X Nat |-> base * x[2] + Worth(s, x[1])]

Exact(s, base) ==
  CHOOSE e : e \in [0..Len(s) -> Nat] /\ IsRec(e, Len(s), 0, ExactSteps(s, base))

LEMMA Exacts ==
  ASSUME NEW s, NEW base, Digital(s, base)
  PROVE  /\ Exact(s, base) \in [0..Len(s) -> Nat]
         /\ Exact(s, base)[0] = 0
         /\ \A k \in 1..Len(s) :
              /\ k - 1 \in 0..Len(s)
              /\ Exact(s, base)[k] = base * Exact(s, base)[k - 1] + Digit[s[k]]
  <1>1. base \in Nat /\ Len(s) \in Nat /\ \A k \in Nat : Worth(s, k) \in Nat
    BY DEF Digital, Worth
  <1>2. ASSUME NEW x \in Nat \X Nat
        PROVE  base * x[2] \in Nat /\ Worth(s, x[1]) \in Nat
    <2>1. x[1] \in Nat /\ x[2] \in Nat
      OBVIOUS
    <2>2. \A n \in Nat : base * n \in Nat
      BY <1>1
    <2> QED BY <1>1, <2>1, <2>2
  <1>3. ExactSteps(s, base) \in [Nat \X Nat -> Nat]
    BY <1>2 DEF ExactSteps
  <1> DEFINE e == Exact(s, base)
  <1>4. \E f \in [0..Len(s) -> Nat] : IsRec(f, Len(s), 0, ExactSteps(s, base))
    BY <1>1, <1>3, RecExists
  <1>5. e \in [0..Len(s) -> Nat] /\ IsRec(e, Len(s), 0, ExactSteps(s, base))
    BY <1>4 DEF Exact
  <1> HIDE DEF e
  <1>6. e[0] = 0
    BY <1>1, <1>5 DEF IsRec
  <1>7. ASSUME NEW k \in 1..Len(s)
        PROVE  k - 1 \in 0..Len(s) /\ e[k] = base * e[k - 1] + Digit[s[k]]
    <2>1. k \in Nat /\ k \in 0..Len(s) /\ k - 1 \in 0..Len(s) /\ k # 0
      BY <1>1
    <2>2. e[k] = ExactSteps(s, base)[<<k, e[k - 1]>>]
      BY <1>5, <2>1, Zenon DEF IsRec
    <2>3. e[k - 1] \in Nat
      BY <1>5, <2>1
    <2> QED BY <2>1, <2>2, <2>3 DEF ExactSteps, Worth
  <1> QED BY <1>5, <1>6, <1>7 DEF e

LEMMA TimesGrows ==
  ASSUME NEW n \in Nat \ {0}, NEW x \in Nat
  PROVE  n * x \in Nat /\ x <= n * x
  <1> DEFINE m == n - 1
  <1>1. m \in Nat /\ n = m + 1
    OBVIOUS
  <1> HIDE DEF m
  <1>2. n * x = m * x + x
    BY <1>1
  <1>3. m * x \in Nat
    BY <1>1
  <1> QED BY <1>2, <1>3

(* What more digits make of it is not less.                                *)
LEMMA ExactGrows ==
  ASSUME NEW s, NEW base, Digital(s, base), NEW k \in 0..Len(s)
  PROVE  Exact(s, base)[k] <= Exact(s, base)[Len(s)]
  <1> DEFINE e == Exact(s, base)
             T == {j \in Nat : k + j <= Len(s) => e[k] <= e[k + j]}
  <1>1. base \in Nat \ {0} /\ Len(s) \in Nat /\ \A j \in 1..Len(s) : Digit[s[j]] \in Nat
    BY DEF Digital
  <1>2. /\ e \in [0..Len(s) -> Nat]
        /\ \A j \in 1..Len(s) : e[j] = base * e[j - 1] + Digit[s[j]]
    BY Exacts
  <1> HIDE DEF e
  <1>3. 0 \in T
    BY <1>1, <1>2
  <1>4. ASSUME NEW j \in Nat, j \in T PROVE j + 1 \in T
    <2> SUFFICES ASSUME k + (j + 1) <= Len(s) PROVE e[k] <= e[k + (j + 1)]
      OBVIOUS
    <2> DEFINE m == k + j
    <2>1. m \in 0..Len(s) /\ m + 1 \in 1..Len(s) /\ (m + 1) - 1 = m /\ k + (j + 1) = m + 1
      BY <1>1
    <2>2. e[k] <= e[m]
      BY <1>4, <2>1
    <2> HIDE DEF m
    <2>3. e[m + 1] = base * e[m] + Digit[s[m + 1]] /\ Digit[s[m + 1]] \in Nat
      BY <1>1, <1>2, <2>1
    <2>4. e[m] \in Nat /\ e[k] \in Nat
      BY <1>2, <2>1
    <2>5. e[m] <= base * e[m] /\ base * e[m] \in Nat
      BY <1>1, <2>4, TimesGrows
    <2> QED BY <2>1, <2>2, <2>3, <2>4, <2>5
  <1>5. Len(s) - k \in Nat /\ k + (Len(s) - k) = Len(s)
    BY <1>1
  <1>6. Len(s) - k \in T
    BY <1>3, <1>4, <1>5, Counting
  <1> QED BY <1>1, <1>5, <1>6 DEF e

(* The sum of what each digit is worth.                                    *)
SumsOf(f, digits, base) ==
  f = [k \in 0..Len(digits) |->
         IF k = 0 THEN 0
         ELSE f[k - 1] + Digit[digits[k]] * power(base, Len(digits) - k)]

Share(s, base, k) ==
  IF k \in 1..Len(s) THEN Digit[s[k]] * power(base, Len(s) - k) ELSE 0

SumSteps(s, base) == [x \in Nat \X Nat |-> x[2] + Share(s, base, x[1])]

LEMMA SumIsExact ==
  ASSUME NEW s, NEW base, Digital(s, base)
  PROVE  Sum(s, base) = Exact(s, base)[Len(s)]
  <1> DEFINE n == Len(s)
             e == Exact(s, base)
             f == CHOOSE f : SumsOf(f, s, base)
  <1>1. n \in Nat /\ base \in Nat \ {0} /\ \A k \in 1..n : Digit[s[k]] \in Nat
    BY DEF Digital
  <1>2. /\ e \in [0..n -> Nat] /\ e[0] = 0
        /\ \A k \in 1..n : e[k] = base * e[k - 1] + Digit[s[k]]
    BY Exacts
  <1>3. ASSUME NEW k \in Nat PROVE Share(s, base, k) \in Nat
    <2>1. CASE k \in 1..n
      <3>1. n - k \in Nat /\ Digit[s[k]] \in Nat
        BY <1>1, <2>1
      <3>2. power(base, n - k) \in Nat
        BY <1>1, <3>1, Powers
      <3> QED BY <2>1, <3>1, <3>2 DEF Share
    <2> QED BY <2>1 DEF Share
  <1>4. SumSteps(s, base) \in [Nat \X Nat -> Nat]
    <2>1. ASSUME NEW x \in Nat \X Nat PROVE x[2] + Share(s, base, x[1]) \in Nat
      <3>1. x[1] \in Nat /\ x[2] \in Nat
        OBVIOUS
      <3> QED BY <1>3, <3>1
    <2> QED BY <2>1 DEF SumSteps
  <1>5. PICK g \in [0..n -> Nat] : IsRec(g, n, 0, SumSteps(s, base))
    BY <1>1, <1>4, RecExists
  <1>6. SumsOf(g, s, base)
    <2>1. ASSUME NEW k \in 0..n, k # 0
          PROVE  SumSteps(s, base)[<<k, g[k - 1]>>] =
                   g[k - 1] + Digit[s[k]] * power(base, n - k)
      <3>1. k \in Nat /\ k \in 1..n /\ g[k - 1] \in Nat
        BY <1>1, <2>1
      <3> QED BY <3>1 DEF SumSteps, Share
    <2> QED BY <1>5, <2>1 DEF IsRec, SumsOf
  <1>7. SumsOf(f, s, base) /\ Sum(s, base) = f[n]
    BY <1>6 DEF Sum, SumsOf
  <1> HIDE DEF e, f
  <1> DEFINE T == {k \in Nat : k <= n => f[k] = e[k] * power(base, n - k)}
  <1>8. 0 \in T
    <2>1. f[0] = 0
      BY <1>1, <1>7 DEF SumsOf
    <2>2. power(base, n - 0) \in Nat
      BY <1>1, Powers
    <2> QED BY <1>1, <1>2, <2>1, <2>2
  <1>9. ASSUME NEW k \in Nat, k \in T PROVE k + 1 \in T
    <2> SUFFICES ASSUME k + 1 <= n PROVE f[k + 1] = e[k + 1] * power(base, n - (k + 1))
      OBVIOUS
    <2> DEFINE j == n - (k + 1)
               p == power(base, j)
               d == Digit[s[k + 1]]
    <2>1. j \in Nat /\ n - k = j + 1 /\ k + 1 \in 0..n /\ k + 1 \in 1..n /\ k \in 0..n
          /\ (k + 1) - 1 = k /\ k + 1 # 0
      BY <1>1
    <2> HIDE DEF j
    <2>2. p \in Nat /\ power(base, n - k) = base * p
      BY <1>1, <2>1, Powers
    <2>3. d \in Nat /\ e[k] \in Nat /\ base \in Nat
      BY <1>1, <1>2, <2>1
    <2>4. f[k + 1] = f[k] + d * p
      BY <1>7, <2>1, Zenon DEF SumsOf, j
    <2>5. f[k] = e[k] * (base * p)
      BY <1>9, <2>1, <2>2
    <2>6. e[k + 1] = base * e[k] + d
      BY <1>2, <2>1
    <2> HIDE DEF p, d
    <2>7. e[k] * (base * p) + d * p = (base * e[k] + d) * p
      BY <2>2, <2>3
    <2> QED BY <2>4, <2>5, <2>6, <2>7 DEF p, j
  <1>10. n \in T
    BY <1>1, <1>8, <1>9, Counting
  <1>11. n - n = 0 /\ e[n] \in Nat
    BY <1>1, <1>2
  <1>12. power(base, 0) = 1
    BY <1>1, Powers
  <1> QED BY <1>7, <1>10, <1>11, <1>12 DEF e

(* Digits after others.                                                    *)
JoinOf(s, a, b) ==
  /\ Len(s) = Len(a) + Len(b)
  /\ \A k \in 1..Len(a) : s[k] = a[k]
  /\ \A k \in 1..Len(b) : s[Len(a) + k] = b[k]

LEMMA ExactJoin ==
  ASSUME NEW a, NEW b, NEW s, NEW base, Digital(a, base), Digital(b, base),
         JoinOf(s, a, b)
  PROVE  /\ Digital(s, base)
         /\ Exact(s, base)[Len(s)] =
              Exact(a, base)[Len(a)] * power(base, Len(b)) + Exact(b, base)[Len(b)]
  <1> USE DEF JoinOf
  <1> DEFINE m == Len(a)
             n == Len(b)
             ea == Exact(a, base)
             eb == Exact(b, base)
             es == Exact(s, base)
  <1>1. /\ m \in Nat /\ n \in Nat /\ base \in Nat \ {0} /\ Len(s) = m + n
        /\ \A k \in 1..m : Digit[a[k]] \in 0..base - 1
        /\ \A k \in 1..n : Digit[b[k]] \in 0..base - 1
    BY DEF Digital
  <1>2. Digital(s, base)
    <2>1. ASSUME NEW k \in 1..Len(s) PROVE Digit[s[k]] \in 0..base - 1
      <3>1. CASE k <= m
        BY <1>1, <3>1
      <3>2. CASE k > m
        <4>1. k - m \in 1..n /\ k = m + (k - m)
          BY <1>1, <3>2
        <4>2. s[k] = b[k - m]
          BY <4>1
        <4> QED BY <1>1, <4>1, <4>2
      <3> QED BY <1>1, <3>1, <3>2
    <2> QED BY <1>1, <2>1 DEF Digital
  <1>3. /\ ea \in [0..m -> Nat] /\ ea[0] = 0
        /\ \A k \in 1..m : ea[k] = base * ea[k - 1] + Digit[a[k]]
    BY Exacts
  <1>4. /\ eb \in [0..n -> Nat] /\ eb[0] = 0
        /\ \A k \in 1..n : eb[k] = base * eb[k - 1] + Digit[b[k]]
    BY Exacts
  <1>5. /\ es[0] = 0
        /\ \A k \in 1..m + n : es[k] = base * es[k - 1] + Digit[s[k]]
    BY <1>1, <1>2, Exacts
  <1> HIDE DEF ea, eb, es
  <1>6. es[m] = ea[m]
    <2> DEFINE T == {k \in Nat : k <= m => es[k] = ea[k]}
    <2>1. 0 \in T
      BY <1>3, <1>5
    <2>2. ASSUME NEW k \in Nat, k \in T PROVE k + 1 \in T
      <3> SUFFICES ASSUME k + 1 <= m PROVE es[k + 1] = ea[k + 1]
        OBVIOUS
      <3>1. k + 1 \in 1..m /\ k + 1 \in 1..m + n /\ (k + 1) - 1 = k /\ k <= m
        BY <1>1
      <3>2. s[k + 1] = a[k + 1]
        BY <3>1
      <3>3. es[k] = ea[k]
        BY <2>2, <3>1
      <3> QED BY <1>3, <1>5, <3>1, <3>2, <3>3
    <2>3. m \in T
      BY <1>1, <2>1, <2>2, Counting
    <2> QED BY <2>3
  <1> DEFINE T == {k \in Nat : k <= n => es[m + k] = ea[m] * power(base, k) + eb[k]}
  <1>7. ea[m] \in Nat
    BY <1>1, <1>3
  <1>8. 0 \in T
    <2>1. power(base, 0) = 1
      BY <1>1, Powers
    <2> QED BY <1>1, <1>4, <1>6, <1>7, <2>1
  <1>9. ASSUME NEW k \in Nat, k \in T PROVE k + 1 \in T
    <2> SUFFICES ASSUME k + 1 <= n
                 PROVE  es[m + (k + 1)] = ea[m] * power(base, k + 1) + eb[k + 1]
      OBVIOUS
    <2> DEFINE p == power(base, k)
               d == Digit[b[k + 1]]
               x == ea[m]
               y == eb[k]
    <2>1. /\ k + 1 \in 1..n /\ (k + 1) - 1 = k /\ k \in 0..n /\ m + (k + 1) \in 1..m + n
          /\ (m + (k + 1)) - 1 = m + k
      BY <1>1
    <2>2. p \in Nat /\ power(base, k + 1) = base * p
      BY <1>1, Powers
    <2>3. d \in Nat /\ x \in Nat /\ y \in Nat
      <3>1. d \in 0..base - 1
        BY <1>1, <2>1
      <3>2. y \in Nat
        BY <1>4, <2>1
      <3> HIDE DEF d, x, y
      <3> QED BY <1>1, <1>7, <3>1, <3>2 DEF x
    <2>4. es[m + k] = x * p + y
      BY <1>9, <2>1
    <2>5. s[m + (k + 1)] = b[k + 1]
      BY <2>1
    <2>6. es[m + (k + 1)] = base * es[m + k] + d
      BY <1>5, <2>1, <2>5
    <2>7. eb[k + 1] = base * y + d
      BY <1>4, <2>1
    <2> HIDE DEF p, d, x, y
    <2>8. base * (x * p + y) + d = x * (base * p) + (base * y + d)
      BY <1>1, <2>2, <2>3
    <2> QED BY <2>2, <2>4, <2>6, <2>7, <2>8 DEF x
  <1>10. n \in T
    BY <1>1, <1>8, <1>9, Counting
  <1> QED BY <1>1, <1>2, <1>10 DEF ea, eb, es

(* A long holds what fits in it.                                           *)
LEMMA Longs ==
  /\ Limit \in Nat \ {0}
  /\ \A n \in Int : Long(n) \in Int
  /\ \A n \in Int : -Limit <= n /\ n < Limit => Long(n) = n
  <1>1. Limit \in Nat \ {0}
    <2>1. 2 \in Nat \ {0} /\ LongBits - 1 \in Nat
      BY LongBitsAssumption
    <2> QED BY <2>1, Powers DEF Limit
  <1>2. ASSUME NEW n \in Int
        PROVE  Long(n) \in Int /\ (-Limit <= n /\ n < Limit => Long(n) = n)
    <2> DEFINE m == 2 * Limit
    <2>1. m \in Nat /\ m > 0
      BY <1>1
    <2>2. (n + Limit) % m \in 0..m - 1
      BY <1>1, <2>1
    <2>3. ASSUME -Limit <= n, n < Limit PROVE (n + Limit) % m = n + Limit
      <3>1. n + Limit \in Int /\ 0 <= n + Limit /\ n + Limit < m
        BY <1>1, <2>3
      <3> HIDE DEF m
      <3> QED BY <2>1, <3>1
    <2>4. Long(n) = ((n + Limit) % m) - Limit
      BY DEF Long
    <2> HIDE DEF m
    <2> QED BY <1>1, <2>1, <2>2, <2>3, <2>4
  <1> QED BY <1>1, <1>2

NumbersOf(f, i, n, base) ==
  f = [k \in 0..n |-> IF k = 0 THEN 0 ELSE Long(base * f[k - 1] + Digit[at(i + k - 1)])]

Worths(i, n, k) == IF k \in 1..n THEN Digit[at(i + k - 1)] ELSE 0

NumberSteps(i, n, base) == [x \in Nat \X Int |-> Long(base * x[2] + Worths(i, n, x[1]))]

(* The scanners count as the sum does, as long as it fits.                 *)
LEMMA NumberIsExact ==
  ASSUME NEW i \in Int, NEW end \in Int, i <= end, NEW s, NEW base, Digital(s, base),
         Len(s) = end - i, \A k \in 1..Len(s) : s[k] = at(i + k - 1),
         Exact(s, base)[Len(s)] < Limit
  PROVE  number(i, end, base) = Exact(s, base)[Len(s)]
  <1> DEFINE n == end - i
             e == Exact(s, base)
             f == CHOOSE h : NumbersOf(h, i, n, base)
  <1>1. /\ n \in Nat /\ base \in Nat \ {0} /\ Len(s) = n
        /\ \A k \in 1..n : Digit[at(i + k - 1)] \in 0..base - 1 /\ s[k] = at(i + k - 1)
    BY DEF Digital
  <1>2. number(i, end, base) = (CHOOSE h : NumbersOf(h, i, n, base))[n]
    BY DEF number, NumbersOf
  <1> HIDE DEF n
  <1>3. /\ e \in [0..n -> Nat] /\ e[0] = 0
        /\ \A k \in 1..n : e[k] = base * e[k - 1] + Digit[s[k]]
    BY <1>1, Exacts
  <1> HIDE DEF e
  <1>4. \A k \in 0..n : e[k] < Limit
    <2> SUFFICES ASSUME NEW k \in 0..n PROVE e[k] < Limit
      OBVIOUS
    <2>1. e[k] <= e[n] /\ e[n] < Limit
      BY <1>1, ExactGrows DEF e
    <2>2. e[k] \in Nat /\ e[n] \in Nat /\ Limit \in Nat
      <3>1. n \in 0..n
        BY <1>1
      <3> QED BY <1>3, <3>1, Longs
    <2> QED BY <2>1, <2>2
  <1>5. NumberSteps(i, n, base) \in [Nat \X Int -> Int]
    <2>1. ASSUME NEW x \in Nat \X Int
          PROVE  Long(base * x[2] + Worths(i, n, x[1])) \in Int
      <3>1. x[1] \in Nat /\ x[2] \in Int
        OBVIOUS
      <3>2. Worths(i, n, x[1]) \in Int
        <4>1. CASE x[1] \in 1..n
          <5>1. Digit[at(i + x[1] - 1)] \in 0..base - 1
            BY <1>1, <4>1
          <5> QED BY <1>1, <4>1, <5>1 DEF Worths
        <4> QED BY <4>1 DEF Worths
      <3>3. base * x[2] \in Int
        BY <1>1, <3>1
      <3> QED BY <3>2, <3>3, Longs
    <2> QED BY <2>1 DEF NumberSteps
  <1>6. PICK g \in [0..n -> Int] : IsRec(g, n, 0, NumberSteps(i, n, base))
    <2>1. 0 \in Int
      OBVIOUS
    <2> QED BY <1>1, <1>5, <2>1, RecExists
  <1>7. NumbersOf(g, i, n, base)
    <2>1. ASSUME NEW k \in 0..n, k # 0
          PROVE  NumberSteps(i, n, base)[<<k, g[k - 1]>>] =
                   Long(base * g[k - 1] + Digit[at(i + k - 1)])
      <3>1. k \in Nat /\ k \in 1..n /\ g[k - 1] \in Int
        BY <1>1, <1>6, <2>1
      <3> QED BY <3>1 DEF NumberSteps, Worths
    <2> QED BY <1>6, <2>1 DEF IsRec, NumbersOf
  <1>8. NumbersOf(f, i, n, base)
    BY <1>7
  <1> HIDE DEF f
  <1> DEFINE T == {k \in Nat : k <= n => f[k] = e[k]}
  <1>9. 0 \in T
    BY <1>1, <1>3, <1>8 DEF NumbersOf
  <1>10. ASSUME NEW k \in Nat, k \in T PROVE k + 1 \in T
    <2> SUFFICES ASSUME k + 1 <= n PROVE f[k + 1] = e[k + 1]
      OBVIOUS
    <2>1. /\ k + 1 \in 0..n /\ k + 1 \in 1..n /\ (k + 1) - 1 = k /\ k + 1 # 0 /\ k <= n
      BY <1>1
    <2>2. f[k + 1] = Long(base * f[k] + Digit[at(i + (k + 1) - 1)])
      BY <1>8, <2>1, Zenon DEF NumbersOf
    <2>3. s[k + 1] = at(i + (k + 1) - 1)
      BY <1>1, <2>1
    <2>4. f[k + 1] = Long(e[k + 1])
      BY <1>3, <1>10, <2>1, <2>2, <2>3
    <2>5. e[k + 1] \in Nat /\ e[k + 1] < Limit
      BY <1>3, <1>4, <2>1
    <2>6. \A x \in Nat : x < Limit => Long(x) = x
      <3>1. \A x \in Nat : x \in Int /\ -Limit <= x
        BY Longs
      <3> QED BY <3>1, Longs
    <2> QED BY <2>4, <2>5, <2>6
  <1>11. n \in T
    BY <1>1, <1>9, <1>10, Counting
  <1> QED BY <1>1, <1>2, <1>11 DEF e, f

(* The delimiters are not among the digits, in the table of characters.    *)
LEMMA TableOrder ==
  /\ NotBefore("0", 17) /\ NotBefore("A", 29) /\ NotBefore("a", 63)
  /\ NotBefore(":", 27) /\ NotBefore(";", 27)
  /\ NotBefore("[", 40) /\ NotBefore("]", 40)
  /\ NotBefore("{", 72) /\ NotBefore("}", 72)
  <1> DEFINE L1 == {"0", ":", ";", "A", "[", "]", "a", "{", "}"}
             L2 == {":", ";", "A", "[", "]", "a", "{", "}"}
             L3 == {"A", "[", "]", "a", "{", "}"}
             L4 == {"[", "]", "a", "{", "}"}
             L5 == {"a", "{", "}"}
             L6 == {"{", "}"}
  <1>1. /\ Ascii[1] \notin L1 /\ Ascii[2] \notin L1 /\ Ascii[3] \notin L1
        /\ Ascii[4] \notin L1 /\ Ascii[5] \notin L1 /\ Ascii[6] \notin L1
        /\ Ascii[7] \notin L1 /\ Ascii[8] \notin L1 /\ Ascii[9] \notin L1
        /\ Ascii[10] \notin L1 /\ Ascii[11] \notin L1 /\ Ascii[12] \notin L1
        /\ Ascii[13] \notin L1 /\ Ascii[14] \notin L1 /\ Ascii[15] \notin L1
        /\ Ascii[16] \notin L1
    BY Zenon DEF Ascii
  <1>2. /\ Ascii[17] \notin L2 /\ Ascii[18] \notin L2 /\ Ascii[19] \notin L2
        /\ Ascii[20] \notin L2 /\ Ascii[21] \notin L2 /\ Ascii[22] \notin L2
        /\ Ascii[23] \notin L2 /\ Ascii[24] \notin L2 /\ Ascii[25] \notin L2
        /\ Ascii[26] \notin L2
    BY Zenon DEF Ascii
  <1>3. /\ Ascii[27] \notin L3 /\ Ascii[28] \notin L3
    BY Zenon DEF Ascii
  <1>4. /\ Ascii[29] \notin L4 /\ Ascii[30] \notin L4 /\ Ascii[31] \notin L4
        /\ Ascii[32] \notin L4 /\ Ascii[33] \notin L4 /\ Ascii[34] \notin L4
        /\ Ascii[35] \notin L4 /\ Ascii[36] \notin L4 /\ Ascii[37] \notin L4
        /\ Ascii[38] \notin L4 /\ Ascii[39] \notin L4
    BY Zenon DEF Ascii
  <1>5. /\ Ascii[40] \notin L5 /\ Ascii[41] \notin L5 /\ Ascii[42] \notin L5
        /\ Ascii[43] \notin L5 /\ Ascii[44] \notin L5 /\ Ascii[45] \notin L5
        /\ Ascii[46] \notin L5 /\ Ascii[47] \notin L5 /\ Ascii[48] \notin L5
        /\ Ascii[49] \notin L5 /\ Ascii[50] \notin L5 /\ Ascii[51] \notin L5
        /\ Ascii[52] \notin L5 /\ Ascii[53] \notin L5 /\ Ascii[54] \notin L5
        /\ Ascii[55] \notin L5 /\ Ascii[56] \notin L5 /\ Ascii[57] \notin L5
        /\ Ascii[58] \notin L5 /\ Ascii[59] \notin L5 /\ Ascii[60] \notin L5
        /\ Ascii[61] \notin L5 /\ Ascii[62] \notin L5
    BY Zenon DEF Ascii
  <1>6. /\ Ascii[63] \notin L6 /\ Ascii[64] \notin L6 /\ Ascii[65] \notin L6
        /\ Ascii[66] \notin L6 /\ Ascii[67] \notin L6 /\ Ascii[68] \notin L6
        /\ Ascii[69] \notin L6 /\ Ascii[70] \notin L6 /\ Ascii[71] \notin L6
    BY Zenon DEF Ascii
  <1>7. \A m \in 1..16 : Ascii[m] \notin L1
    <2>1. \A m \in 1..16 :
           \/ m = 1 \/ m = 2 \/ m = 3 \/ m = 4 \/ m = 5 \/ m = 6 \/ m = 7
           \/ m = 8 \/ m = 9 \/ m = 10 \/ m = 11 \/ m = 12 \/ m = 13
           \/ m = 14 \/ m = 15 \/ m = 16
      OBVIOUS
    <2> HIDE DEF L1
    <2> QED BY <1>1, <2>1, Zenon
  <1>8. \A m \in 17..26 : Ascii[m] \notin L2
    <2>1. \A m \in 17..26 :
           \/ m = 17 \/ m = 18 \/ m = 19 \/ m = 20 \/ m = 21 \/ m = 22
           \/ m = 23 \/ m = 24 \/ m = 25 \/ m = 26
      OBVIOUS
    <2> HIDE DEF L2
    <2> QED BY <1>2, <2>1, Zenon
  <1>9. \A m \in 27..28 : Ascii[m] \notin L3
    <2>1. \A m \in 27..28 :
           \/ m = 27 \/ m = 28
      OBVIOUS
    <2> HIDE DEF L3
    <2> QED BY <1>3, <2>1, Zenon
  <1>10. \A m \in 29..39 : Ascii[m] \notin L4
    <2>1. \A m \in 29..39 :
           \/ m = 29 \/ m = 30 \/ m = 31 \/ m = 32 \/ m = 33 \/ m = 34
           \/ m = 35 \/ m = 36 \/ m = 37 \/ m = 38 \/ m = 39
      OBVIOUS
    <2> HIDE DEF L4
    <2> QED BY <1>4, <2>1, Zenon
  <1>11. \A m \in 40..62 : Ascii[m] \notin L5
    <2>1. \A m \in 40..62 :
           \/ m = 40 \/ m = 41 \/ m = 42 \/ m = 43 \/ m = 44 \/ m = 45
           \/ m = 46 \/ m = 47 \/ m = 48 \/ m = 49 \/ m = 50 \/ m = 51
           \/ m = 52 \/ m = 53 \/ m = 54 \/ m = 55 \/ m = 56 \/ m = 57
           \/ m = 58 \/ m = 59 \/ m = 60 \/ m = 61 \/ m = 62
      OBVIOUS
    <2> HIDE DEF L5
    <2> QED BY <1>5, <2>1, Zenon
  <1>12. \A m \in 63..71 : Ascii[m] \notin L6
    <2>1. \A m \in 63..71 :
           \/ m = 63 \/ m = 64 \/ m = 65 \/ m = 66 \/ m = 67 \/ m = 68
           \/ m = 69 \/ m = 70 \/ m = 71
      OBVIOUS
    <2> HIDE DEF L6
    <2> QED BY <1>6, <2>1, Zenon
  <1>13. /\ \A m \in 1..17 - 1 : m \in 1..16
         /\ \A m \in 1..27 - 1 : m \in 1..16 \/ m \in 17..26
         /\ \A m \in 1..29 - 1 : m \in 1..16 \/ m \in 17..26 \/ m \in 27..28
         /\ \A m \in 1..40 - 1 :
              m \in 1..16 \/ m \in 17..26 \/ m \in 27..28 \/ m \in 29..39
         /\ \A m \in 1..63 - 1 :
              m \in 1..16 \/ m \in 17..26 \/ m \in 27..28 \/ m \in 29..39 \/ m \in 40..62
         /\ \A m \in 1..72 - 1 :
              \/ m \in 1..16 \/ m \in 17..26 \/ m \in 27..28 \/ m \in 29..39 \/ m \in 40..62
              \/ m \in 63..71
    OBVIOUS
  <1>14. L2 \subseteq L1 /\ L3 \subseteq L2 /\ L4 \subseteq L3 /\ L5 \subseteq L4 /\ L6 \subseteq L5
         /\ "0" \in L1 /\ {":", ";"} \subseteq L2 /\ "A" \in L3 /\ {"[", "]"} \subseteq L4
         /\ "a" \in L5 /\ {"{", "}"} \subseteq L6
    BY Zenon
  <1> HIDE DEF L1, L2, L3, L4, L5, L6
  <1>15. NotBefore("0", 17)
    BY <1>7, <1>13, <1>14, Zenon DEF NotBefore
  <1>16. \A c \in L2 : NotBefore(c, 27)
    BY <1>7, <1>8, <1>13, <1>14, Zenon DEF NotBefore
  <1>17. \A c \in L3 : NotBefore(c, 29)
    BY <1>7, <1>8, <1>9, <1>13, <1>14, Zenon DEF NotBefore
  <1>18. \A c \in L4 : NotBefore(c, 40)
    BY <1>7, <1>8, <1>9, <1>10, <1>13, <1>14, Zenon DEF NotBefore
  <1>19. \A c \in L5 : NotBefore(c, 63)
    BY <1>7, <1>8, <1>9, <1>10, <1>11, <1>13, <1>14, Zenon DEF NotBefore
  <1>20. \A c \in L6 : NotBefore(c, 72)
    BY <1>7, <1>8, <1>9, <1>10, <1>11, <1>12, <1>13, <1>14, Zenon DEF NotBefore
  <1> QED BY <1>14, <1>15, <1>16, <1>17, <1>18, <1>19, <1>20, Zenon

(* Where a character stands in the table, at the earliest.                 *)
InTable(c, low, n) == low \in 1..n /\ n \in 1..95 /\ c = Ascii[n] /\ NotBefore(c, low)

LEMMA TableByte ==
  ASSUME NEW c, NEW low, NEW n, InTable(c, low, n), Printed(c)
  PROVE  ByteIn(c, low, n)
  <1>1. low \in Nat \ {0} /\ n \in Nat /\ low <= n /\ n <= 95
    BY DEF InTable
  <1>2. c = Ascii[n] /\ NotBefore(c, low)
    BY DEF InTable
  <1> QED BY <1>1, <1>2, AsciiByte

(* What ends a word, and the dot.                                          *)
NoDigits == delim_list \union {" ", "\t", "\n", "\r", "."}

OtherCodes == (0..46) \union (58..59) \union (71..93) \union (103..125)

LEMMA Codes ==
  /\ Byte["0"] = 48 /\ Byte["9"] \in 0..57
  /\ Byte["A"] \in 60..65 /\ Byte["F"] \in 0..70
  /\ Byte["a"] \in 94..97 /\ Byte["f"] \in 0..102
  <1>1. /\ Ascii[17] = "0" /\ Ascii[26] = "9" /\ Ascii[34] = "A"
        /\ Ascii[39] = "F" /\ Ascii[66] = "a" /\ Ascii[71] = "f"
    BY Zenon DEF Ascii
  <1>2. /\ 17 \in 1..17 /\ 1 \in 1..26 /\ 29 \in 1..34 /\ 1 \in 1..39
        /\ 63 \in 1..66 /\ 1 \in 1..71 /\ 17 \in 1..95 /\ 26 \in 1..95
        /\ 34 \in 1..95 /\ 39 \in 1..95 /\ 66 \in 1..95 /\ 71 \in 1..95
    OBVIOUS
  <1>3. /\ Printed("0") /\ Printed("9") /\ Printed("A") /\ Printed("F")
        /\ Printed("a") /\ Printed("f")
    BY Zenon DEF High, Printed
  <1>4. \A d : NotBefore(d, 1)
    BY DEF NotBefore
  <1>5. InTable("0", 17, 17)
    BY <1>1, <1>2, <1>4, TableOrder, Zenon DEF InTable
  <1>6. InTable("9", 1, 26)
    BY <1>1, <1>2, <1>4, TableOrder, Zenon DEF InTable
  <1>7. InTable("A", 29, 34)
    BY <1>1, <1>2, <1>4, TableOrder, Zenon DEF InTable
  <1>8. InTable("F", 1, 39)
    BY <1>1, <1>2, <1>4, TableOrder, Zenon DEF InTable
  <1>9. InTable("a", 63, 66)
    BY <1>1, <1>2, <1>4, TableOrder, Zenon DEF InTable
  <1>10. InTable("f", 1, 71)
    BY <1>1, <1>2, <1>4, TableOrder, Zenon DEF InTable
  <1>11. /\ ByteIn("0", 17, 17) /\ ByteIn("9", 1, 26) /\ ByteIn("A", 29, 34)
        /\ ByteIn("F", 1, 39) /\ ByteIn("a", 63, 66) /\ ByteIn("f", 1, 71)
    BY <1>3, <1>5, <1>6, <1>7, <1>8, <1>9, <1>10, TableByte, Zenon
  <1> QED BY <1>11 DEF ByteIn

LEMMA NoDigitCodes ==
  ASSUME NEW c \in NoDigits
  PROVE  c \in DOMAIN Byte /\ Byte[c] \in OtherCodes
  <1>1. /\ Ascii[1] = " " /\ Ascii[4] = "#" /\ Ascii[9] = "(" /\ Ascii[10] = ")"
        /\ Ascii[15] = "." /\ Ascii[27] = ":" /\ Ascii[28] = ";"
        /\ Ascii[60] = "[" /\ Ascii[62] = "]" /\ Ascii[92] = "{"
        /\ Ascii[94] = "}"
    BY Zenon DEF Ascii
  <1>2. /\ 1 \in 1..1 /\ 1 \in 1..4 /\ 1 \in 1..9 /\ 1 \in 1..10 /\ 1 \in 1..15
        /\ 27 \in 1..27 /\ 27 \in 1..28 /\ 40 \in 1..60 /\ 40 \in 1..62
        /\ 72 \in 1..92 /\ 72 \in 1..94 /\ 1 \in 1..95 /\ 4 \in 1..95
        /\ 9 \in 1..95 /\ 10 \in 1..95 /\ 15 \in 1..95 /\ 27 \in 1..95
        /\ 28 \in 1..95 /\ 60 \in 1..95 /\ 62 \in 1..95 /\ 92 \in 1..95
        /\ 94 \in 1..95
    OBVIOUS
  <1>3. /\ Printed(" ") /\ Printed("#") /\ Printed("(") /\ Printed(")")
        /\ Printed(".") /\ Printed(":") /\ Printed(";") /\ Printed("[")
        /\ Printed("]") /\ Printed("{") /\ Printed("}")
    BY Zenon DEF High, Printed
  <1>4. \A d : NotBefore(d, 1)
    BY DEF NotBefore
  <1>5. InTable(" ", 1, 1)
    BY <1>1, <1>2, <1>4, TableOrder, Zenon DEF InTable
  <1>6. InTable("#", 1, 4)
    BY <1>1, <1>2, <1>4, TableOrder, Zenon DEF InTable
  <1>7. InTable("(", 1, 9)
    BY <1>1, <1>2, <1>4, TableOrder, Zenon DEF InTable
  <1>8. InTable(")", 1, 10)
    BY <1>1, <1>2, <1>4, Zenon DEF InTable
  <1>9. InTable(".", 1, 15)
    BY <1>1, <1>2, <1>4, TableOrder, Zenon DEF InTable
  <1>10. InTable(":", 27, 27)
    BY <1>1, <1>2, <1>4, TableOrder, Zenon DEF InTable
  <1>11. InTable(";", 27, 28)
    BY <1>1, <1>2, <1>4, TableOrder, Zenon DEF InTable
  <1>12. InTable("[", 40, 60)
    BY <1>1, <1>2, <1>4, TableOrder, Zenon DEF InTable
  <1>13. InTable("]", 40, 62)
    BY <1>1, <1>2, <1>4, TableOrder, Zenon DEF InTable
  <1>14. InTable("{", 72, 92)
    BY <1>1, <1>2, <1>4, TableOrder, Zenon DEF InTable
  <1>15. InTable("}", 72, 94)
    BY <1>1, <1>2, <1>4, TableOrder, Zenon DEF InTable
  <1>16. /\ ByteIn(" ", 1, 1) /\ ByteIn("#", 1, 4) /\ ByteIn("(", 1, 9)
        /\ ByteIn(")", 1, 10) /\ ByteIn(".", 1, 15) /\ ByteIn(":", 27, 27)
        /\ ByteIn(";", 27, 28) /\ ByteIn("[", 40, 60) /\ ByteIn("]", 40, 62)
        /\ ByteIn("{", 72, 92) /\ ByteIn("}", 72, 94)
    BY <1>3, <1>5, <1>6, <1>7, <1>8, <1>9, <1>10, <1>11, <1>12, <1>13, <1>14, <1>15, TableByte, Zenon
  <1> DEFINE Other(d) == d \in DOMAIN Byte /\ Byte[d] \in OtherCodes
  <1>17. \A d, low, n : ByteIn(d, low, n) /\ 31 + low..31 + n \subseteq OtherCodes => Other(d)
    BY Zenon DEF ByteIn
  <1>18. /\ 31 + 1..31 + 1 \subseteq OtherCodes /\ 31 + 1..31 + 4 \subseteq OtherCodes
         /\ 31 + 1..31 + 9 \subseteq OtherCodes /\ 31 + 1..31 + 10 \subseteq OtherCodes
         /\ 31 + 1..31 + 15 \subseteq OtherCodes /\ 31 + 27..31 + 27 \subseteq OtherCodes
         /\ 31 + 27..31 + 28 \subseteq OtherCodes /\ 31 + 40..31 + 60 \subseteq OtherCodes
         /\ 31 + 40..31 + 62 \subseteq OtherCodes /\ 31 + 72..31 + 92 \subseteq OtherCodes
         /\ 31 + 72..31 + 94 \subseteq OtherCodes
    BY DEF OtherCodes
  <1> HIDE DEF Other
  <1>19. /\ Other(" ") /\ Other("#") /\ Other("(") /\ Other(")") /\ Other(".") /\ Other(":")
         /\ Other(";") /\ Other("[") /\ Other("]") /\ Other("{") /\ Other("}")
    <2>1. Other(" ")
      BY <1>16, <1>17, <1>18, Zenon
    <2>2. Other("#")
      BY <1>16, <1>17, <1>18, Zenon
    <2>3. Other("(")
      BY <1>16, <1>17, <1>18, Zenon
    <2>4. Other(")")
      BY <1>16, <1>17, <1>18, Zenon
    <2>5. Other(".")
      BY <1>16, <1>17, <1>18, Zenon
    <2>6. Other(":")
      BY <1>16, <1>17, <1>18, Zenon
    <2>7. Other(";")
      BY <1>16, <1>17, <1>18, Zenon
    <2>8. Other("[")
      BY <1>16, <1>17, <1>18, Zenon
    <2>9. Other("]")
      BY <1>16, <1>17, <1>18, Zenon
    <2>10. Other("{")
      BY <1>16, <1>17, <1>18, Zenon
    <2>11. Other("}")
      BY <1>16, <1>17, <1>18, Zenon
    <2> QED BY <2>1, <2>2, <2>3, <2>4, <2>5, <2>6, <2>7, <2>8, <2>9, <2>10, <2>11
  <1>20. Other("\t") /\ Other("\n") /\ Other("\r")
    <2>1. /\ Byte["\t"] = 9 /\ Byte["\n"] = 10 /\ Byte["\r"] = 13
          /\ {"\t", "\n", "\r"} \subseteq DOMAIN Byte
      BY DEF Byte, High
    <2> QED BY <2>1 DEF Other, OtherCodes
  <1>21. Other(c)
    BY <1>19, <1>20, Zenon DEF NoDigits, delim_list
  <1> QED BY <1>21 DEF Other

(* A digit of any base is worth less than the base and ends no word.       *)
DigitOf(b) ==
  CASE b \in Byte["0"]..Byte["9"] -> b - Byte["0"]
    [] b \in Byte["a"]..Byte["f"] -> b - Byte["a"] + 10
    [] b \in Byte["A"]..Byte["F"] -> b - Byte["A"] + 10
    [] OTHER -> 16

LEMMA DigitFacts ==
  /\ \A c \in DOMAIN Byte : Digit[c] \in Nat
  /\ \A c \in NoDigits : Digit[c] = 16
  <1>1. \A c \in DOMAIN Byte : Digit[c] = DigitOf(Byte[c])
    BY Zenon DEF Digit, DigitOf
  <1>2. /\ Byte["0"] = 48 /\ Byte["9"] \in 0..57
        /\ Byte["A"] \in 60..65 /\ Byte["F"] \in 0..70
        /\ Byte["a"] \in 94..97 /\ Byte["f"] \in 0..102
    BY Codes, Zenon
  <1>3. ASSUME NEW b \in Int PROVE DigitOf(b) \in Nat
    <2>1. CASE b \in Byte["0"]..Byte["9"]
      <3>1. b \notin Byte["a"]..Byte["f"] /\ b \notin Byte["A"]..Byte["F"]
        BY <1>2, <2>1
      <3> QED BY <1>2, <2>1, <3>1 DEF DigitOf
    <2>2. CASE b \in Byte["a"]..Byte["f"]
      <3>1. b \notin Byte["0"]..Byte["9"] /\ b \notin Byte["A"]..Byte["F"]
        BY <1>2, <2>2
      <3> QED BY <1>2, <2>2, <3>1 DEF DigitOf
    <2>3. CASE b \in Byte["A"]..Byte["F"]
      <3>1. b \notin Byte["0"]..Byte["9"] /\ b \notin Byte["a"]..Byte["f"]
        BY <1>2, <2>3
      <3> QED BY <1>2, <2>3, <3>1 DEF DigitOf
    <2> QED BY <2>1, <2>2, <2>3 DEF DigitOf
  <1>4. \A b \in OtherCodes : DigitOf(b) = 16
    <2> SUFFICES ASSUME NEW b \in OtherCodes PROVE DigitOf(b) = 16
      OBVIOUS
    <2>1. /\ b \notin Byte["0"]..Byte["9"] /\ b \notin Byte["a"]..Byte["f"]
          /\ b \notin Byte["A"]..Byte["F"]
      BY <1>2 DEF OtherCodes
    <2> QED BY <2>1 DEF DigitOf
  <1>5. \A c \in DOMAIN Byte : Byte[c] \in Int
    <2> SUFFICES ASSUME NEW c \in DOMAIN Byte PROVE Byte[c] \in Int
      OBVIOUS
    <2>1. CASE c \in DOMAIN High
      <3>1. Byte[c] = High[c]
        BY <2>1 DEF Byte, High
      <3>2. High[c] \in Int
        BY <2>1 DEF High
      <3> QED BY <3>1, <3>2
    <2>2. CASE c \notin DOMAIN High
      BY <2>2, LowBytes
    <2> QED BY <2>1, <2>2
  <1> QED BY <1>1, <1>3, <1>4, <1>5, NoDigitCodes

LEMMA WordDigits ==
  ASSUME NEW c \in DOMAIN Byte, NEW base \in 1..16, is_digit(c, base)
  PROVE  ~is_delim(c) /\ c # "." /\ Digit[c] \in 0..base - 1
  <1>1. c # NUL /\ Digit[c] < base
    BY DEF is_digit
  <1>2. Digit[c] \in Nat
    BY DigitFacts
  <1>3. c \notin NoDigits
    <2>1. c \in NoDigits => Digit[c] = 16
      BY DigitFacts
    <2> QED BY <1>1, <1>2, <2>1
  <1>4. ~is_delim(c) /\ c # "."
    BY <1>1, <1>3, Zenon DEF NoDigits, is_delim, isspace
  <1> QED BY <1>1, <1>2, <1>4

-----------------------------------------------------------------------------
(* Words.                                                                  *)

(* The word from one place up to another.                                  *)
IsWord(w, i, e) ==
  /\ i \in Nat \ {0} /\ e \in Nat /\ i <= e /\ e <= Nul
  /\ w \in Seq(DOMAIN Byte) /\ Len(w) = e - i
  /\ \A k \in 1..e - i : w[k] = at(i + k - 1)
  /\ is_delim(at(e))
  /\ \A k \in i..e - 1 : ~is_delim(at(k))

LEMMA WordEnds ==
  ASSUME text \in Texts, NEW i \in 1..Nul
  PROVE  /\ WordEnd(i) \in i..Nul
         /\ is_delim(at(WordEnd(i)))
         /\ \A k \in i..WordEnd(i) - 1 : ~is_delim(at(k))
  <1> DEFINE T == {j \in i..Nul : is_delim(at(j))}
  <1>1. WordEnd(i) = Min(T)
    BY DEF WordEnd, First
  <1>2. Nul \in Nat /\ Nul \in T
    BY TextFacts, CharFacts
  <1>3. T \in SUBSET (i..Nul) /\ \A k \in i..Nul : k \in T <=> is_delim(at(k))
    OBVIOUS
  <1> HIDE DEF T
  <1>4. Min(T) \in T /\ Min(T) \in i..Nul /\ \A k \in i..Min(T) - 1 : k \notin T
    BY <1>2, <1>3, FirstPlace
  <1>5. \A k \in i..Min(T) - 1 : k \in i..Nul
    BY <1>2, <1>4
  <1> QED BY <1>1, <1>3, <1>4, <1>5

LEMMA WordIs ==
  ASSUME text \in Texts, NEW i \in 1..Nul
  PROVE  /\ IsWord(Unsigned(i), skip(i, "-"), WordEnd(i))
         /\ skip(i, "-") \in i..WordEnd(i)
         /\ i <= WordEnd(i)
         /\ at(i) = "-" => skip(i, "-") = i + 1
         /\ at(i) # "-" => skip(i, "-") = i
  <1> DEFINE j == skip(i, "-")
             e == WordEnd(i)
             w == Unsigned(i)
  <1>1. /\ e \in i..Nul /\ is_delim(at(e)) /\ \A k \in i..e - 1 : ~is_delim(at(k))
    BY WordEnds
  <1>2. Nul = Len(text) + 1 /\ Len(text) \in Nat
        /\ \A k \in 1..Len(text) : at(k) \in DOMAIN Byte /\ at(k) = text[k]
    BY TextFacts
  <1>3. at(i) = "-" => j = i + 1
    BY DEF skip
  <1>4. at(i) # "-" => j = i
    BY DEF skip
  <1>5. at(i) = "-" => e # i
    <2>1. ~is_delim("-")
      BY Zenon DEF is_delim, isspace, delim_list, NUL
    <2> QED BY <1>1, <2>1
  <1>6. w = SubSeq(text, j, e - 1)
    BY DEF Unsigned
  <1> HIDE DEF j, e, w
  <1>7. j \in i..e /\ i \in Nat \ {0} /\ j \in Nat \ {0} /\ e \in Nat /\ j <= e /\ e <= Nul
    BY <1>1, <1>2, <1>3, <1>4, <1>5
  <1>8. \A k \in j..e - 1 : k \in 1..Len(text) /\ k \in i..e - 1
    BY <1>2, <1>7
  <1>9. \A k \in j..e - 1 : text[k] \in DOMAIN Byte
    BY <1>2, <1>8
  <1>10. /\ w \in Seq(DOMAIN Byte)
         /\ Len(w) = IF j <= e - 1 THEN (e - 1) - j + 1 ELSE 0
         /\ \A k \in 1..(e - 1) - j + 1 : w[k] = text[j + k - 1]
    <2>1. j \in Int /\ e - 1 \in Int
      BY <1>7
    <2> QED BY <1>6, <1>9, <2>1, SubSeqProperties
  <1>11. Len(w) = e - j
    BY <1>7, <1>10
  <1>12. ASSUME NEW k \in 1..e - j PROVE w[k] = at(j + k - 1)
    <2>1. k \in 1..(e - 1) - j + 1 /\ j + k - 1 \in j..e - 1
      BY <1>7
    <2> QED BY <1>2, <1>8, <1>10, <2>1
  <1>13. IsWord(w, j, e)
    BY <1>1, <1>7, <1>8, <1>10, <1>11, <1>12 DEF IsWord
  <1> QED BY <1>3, <1>4, <1>7, <1>13 DEF j, e, w

(* A character of the word, by its place.                                  *)
LEMMA WordAt ==
  ASSUME NEW w, NEW i, NEW e, IsWord(w, i, e), NEW k \in i..e - 1
  PROVE  /\ k - i + 1 \in 1..Len(w) /\ at(k) = w[k - i + 1] /\ at(k) \in DOMAIN Byte
         /\ w # <<>> /\ DOMAIN w = 1..Len(w)
  <1>1. /\ i \in Nat /\ e \in Nat /\ k \in Nat /\ Len(w) = e - i
        /\ \A m \in 1..e - i : w[m] = at(i + m - 1)
    BY DEF IsWord
  <1>2. k - i + 1 \in 1..e - i /\ i + (k - i + 1) - 1 = k
    BY <1>1
  <1>3. /\ w \in Seq(DOMAIN Byte)
    BY DEF IsWord
  <1>4. w[k - i + 1] \in DOMAIN Byte
    BY <1>1, <1>2, <1>3, ElementOfSeq
  <1>5. w # <<>> /\ DOMAIN w = 1..Len(w)
    BY <1>1, <1>2, <1>3, LenProperties
  <1> QED BY <1>1, <1>2, <1>4, <1>5

(* Where a word ends, seen from a place in it.                             *)
LEMMA NextDelim ==
  ASSUME text \in Texts, NEW k \in 1..Nul, NEW e \in k + 1..Nul, is_delim(at(e)),
         \A m \in k + 1..e - 1 : ~is_delim(at(m))
  PROVE  k + get_word_len(k) = e
  <1> DEFINE T == {j \in k + 1..Nul : is_delim(at(j))}
  <1>1. get_word_len(k) = Min(T) - k
    BY DEF get_word_len, First
  <1>2. T \in SUBSET (k + 1..Nul) /\ e \in T /\ \A m \in T : is_delim(at(m))
    OBVIOUS
  <1>3. Nul \in Nat
    BY TextFacts
  <1> HIDE DEF T
  <1>4. Min(T) \in T /\ Min(T) \in k + 1..Nul /\ \A j \in k + 1..Min(T) - 1 : j \notin T
    <2>1. k + 1 \in 1..Nul
      BY <1>3
    <2> QED BY <1>2, <2>1, FirstPlace
  <1>5. Min(T) = e
    <2>1. ~(e < Min(T))
      BY <1>2, <1>3, <1>4
    <2>2. ~(Min(T) < e)
      BY <1>2, <1>3, <1>4
    <2> QED BY <1>3, <1>4, <2>1, <2>2
  <1> QED BY <1>1, <1>3, <1>5

LEMMA WordRestEnd ==
  ASSUME text \in Texts, NEW w, NEW i, NEW e, IsWord(w, i, e), NEW k \in i..e - 1
  PROVE  k + get_word_len(k) = e
  <1>1. /\ k \in 1..Nul /\ e \in k + 1..Nul /\ is_delim(at(e))
        /\ \A m \in k + 1..e - 1 : m \in i..e - 1
        /\ \A m \in i..e - 1 : ~is_delim(at(m))
    BY TextFacts DEF IsWord
  <1> QED BY <1>1, NextDelim

(* The dot, and the digits before and behind it.                           *)
LEMMA DotIs ==
  ASSUME NEW w \in Seq(DOMAIN Byte)
  PROVE  \/ Dot(w) = 0 /\ \A k \in 1..Len(w) : w[k] # "."
         \/ /\ Dot(w) \in 1..Len(w) /\ w[Dot(w)] = "."
            /\ \A k \in 1..Dot(w) - 1 : w[k] # "."
  <1> DEFINE I == {k \in 1..Len(w) : w[k] = "."}
  <1>1. Dot(w) = IF I # {} THEN Min(I) ELSE 0
    BY DEF Dot, SelectInSeq
  <1>2. Len(w) \in Nat
    BY LenProperties
  <1>3. I \in SUBSET Nat /\ \A k \in 1..Len(w) : k \in I <=> w[k] = "."
    OBVIOUS
  <1>4. \A k \in I : k \in 1..Len(w)
    OBVIOUS
  <1> HIDE DEF I
  <1>5. CASE I = {}
    BY <1>1, <1>3, <1>5
  <1>6. CASE I # {}
    <2>1. Min(I) \in I /\ \A m \in I : Min(I) <= m
      BY <1>3, <1>6, MinIs
    <2>2. Min(I) \in 1..Len(w)
      BY <1>4, <2>1
    <2>3. \A k \in 1..Min(I) - 1 : k \in 1..Len(w) /\ ~(Min(I) <= k)
      BY <1>2, <2>2
    <2> QED BY <1>1, <1>3, <1>6, <2>1, <2>2, <2>3
  <1> QED BY <1>5, <1>6

(* A decimal word is what is before the dot and what is behind it.         *)
Whole(w) == SubSeq(w, 1, Dot(w) - 1)

Fraction(w) == SubSeq(w, Dot(w) + 1, Len(w))

LEMMA DecimalParts ==
  ASSUME NEW w \in Seq(DOMAIN Byte), Dot(w) \in 1..Len(w)
  PROVE  /\ Whole(w) \in Seq(DOMAIN Byte) /\ Len(Whole(w)) = Dot(w) - 1
         /\ \A k \in 1..Dot(w) - 1 : Whole(w)[k] = w[k]
         /\ Fraction(w) \in Seq(DOMAIN Byte) /\ Len(Fraction(w)) = Len(w) - Dot(w)
         /\ \A k \in 1..Len(w) - Dot(w) : Fraction(w)[k] = w[Dot(w) + k]
         /\ Whole(w) \o Fraction(w) \in Seq(DOMAIN Byte)
         /\ Len(Whole(w) \o Fraction(w)) = Len(w) - 1
         /\ \A k \in 1..Len(w) - 1 :
              (Whole(w) \o Fraction(w))[k] = IF k < Dot(w) THEN w[k] ELSE w[k + 1]
  <1> DEFINE d == Dot(w)
             n == Len(w)
             a == Whole(w)
             b == Fraction(w)
  <1>1. n \in Nat /\ d \in 1..n /\ \A k \in 1..n : w[k] \in DOMAIN Byte
    BY LenProperties, ElementOfSeq
  <1>2. a = SubSeq(w, 1, d - 1) /\ b = SubSeq(w, d + 1, n)
    BY DEF Whole, Fraction
  <1> HIDE DEF d, n, a, b
  <1>3. /\ a \in Seq(DOMAIN Byte) /\ Len(a) = d - 1
        /\ \A k \in 1..d - 1 : a[k] = w[k]
    <2>1. 1 \in Int /\ d - 1 \in Int /\ \A k \in 1..d - 1 : w[k] \in DOMAIN Byte
      BY <1>1
    <2>2. /\ a \in Seq(DOMAIN Byte)
          /\ Len(a) = IF 1 <= d - 1 THEN (d - 1) - 1 + 1 ELSE 0
          /\ \A k \in 1..(d - 1) - 1 + 1 : a[k] = w[1 + k - 1]
      BY <1>2, <2>1, SubSeqProperties
    <2>3. \A k \in 1..d - 1 : k \in 1..(d - 1) - 1 + 1 /\ 1 + k - 1 = k
      BY <1>1
    <2> QED BY <1>1, <2>2, <2>3
  <1>4. /\ b \in Seq(DOMAIN Byte) /\ Len(b) = n - d
        /\ \A k \in 1..n - d : b[k] = w[d + k]
    <2>1. d + 1 \in Int /\ n \in Int /\ \A k \in d + 1..n : w[k] \in DOMAIN Byte
      BY <1>1
    <2>2. /\ b \in Seq(DOMAIN Byte)
          /\ Len(b) = IF d + 1 <= n THEN n - (d + 1) + 1 ELSE 0
          /\ \A k \in 1..n - (d + 1) + 1 : b[k] = w[(d + 1) + k - 1]
      BY <1>2, <2>1, SubSeqProperties
    <2>3. \A k \in 1..n - d : k \in 1..n - (d + 1) + 1 /\ (d + 1) + k - 1 = d + k
      BY <1>1
    <2> QED BY <1>1, <2>2, <2>3
  <1>5. /\ a \o b \in Seq(DOMAIN Byte)
        /\ Len(a \o b) = (d - 1) + (n - d)
        /\ \A k \in 1..(d - 1) + (n - d) :
             (a \o b)[k] = IF k <= d - 1 THEN a[k] ELSE b[k - (d - 1)]
    BY <1>3, <1>4, ConcatProperties
  <1>6. ASSUME NEW k \in 1..n - 1
        PROVE  (a \o b)[k] = IF k < d THEN w[k] ELSE w[k + 1]
    <2>1. k \in 1..(d - 1) + (n - d)
      BY <1>1
    <2>2. CASE k < d
      <3>1. k \in 1..d - 1 /\ k <= d - 1
        BY <1>1, <2>2
      <3> QED BY <1>3, <1>5, <2>1, <2>2, <3>1
    <2>3. CASE ~(k < d)
      <3>1. k - (d - 1) \in 1..n - d /\ d + (k - (d - 1)) = k + 1 /\ ~(k <= d - 1)
        BY <1>1, <2>3
      <3> QED BY <1>4, <1>5, <2>1, <2>3, <3>1
    <2> QED BY <2>2, <2>3
  <1>7. (d - 1) + (n - d) = n - 1
    BY <1>1
  <1> QED BY <1>3, <1>4, <1>5, <1>6, <1>7 DEF a, b, d, n

(* A decimal word is a numeral if it has a digit at each place but that of *)
(* its first dot.                                                          *)
LEMMA DecimalNumeral ==
  ASSUME NEW w \in Seq(DOMAIN Byte), Base(w) = 10
  PROVE  /\ Digits(w) \in Seq(DOMAIN Byte)
         /\ Len(Digits(w)) = IF Dot(w) = 0 THEN Len(w) ELSE Len(w) - 1
         /\ Digits(w) = IF Dot(w) = 0 THEN w ELSE Whole(w) \o Fraction(w)
         /\ Digits(w) # <<>> <=> Len(Digits(w)) # 0
         /\ IsNumeral(w) <=>
              /\ Digits(w) # <<>>
              /\ \A k \in 1..Len(w) : k # Dot(w) => is_digit(w[k], 10)
  <1> DEFINE d == Dot(w)
             n == Len(w)
             s == Digits(w)
  <1>1. n \in Nat /\ (d = 0 \/ d \in 1..n)
    BY DotIs, LenProperties
  <1>2. s = IF d = 0 THEN w ELSE Whole(w) \o Fraction(w)
    BY DEF Digits, Whole, Fraction
  <1>3. /\ s \in Seq(DOMAIN Byte) /\ Len(s) = IF d = 0 THEN n ELSE n - 1
        /\ d # 0 => \A k \in 1..n - 1 : s[k] = IF k < d THEN w[k] ELSE w[k + 1]
    <2>1. CASE d = 0
      BY <1>2, <2>1
    <2>2. CASE d # 0
      <3>1. d \in 1..n /\ s = Whole(w) \o Fraction(w)
        BY <1>1, <1>2, <2>2
      <3> QED BY <2>2, <3>1, DecimalParts
    <2> QED BY <2>1, <2>2
  <1>4. DOMAIN s = 1..Len(s) /\ (s # <<>> <=> Len(s) # 0)
    <2> HIDE DEF s
    <2> QED BY <1>3, LenProperties, EmptySeq
  <1>5. IsNumeral(w) <=> s # <<>> /\ \A k \in 1..Len(s) : is_digit(s[k], 10)
    BY <1>4 DEF IsNumeral
  <1>6. (\A k \in 1..Len(s) : is_digit(s[k], 10)) <=>
          \A k \in 1..n : k # d => is_digit(w[k], 10)
    <2> HIDE DEF s, d, n
    <2>1. CASE d = 0
      BY <1>1, <1>2, <1>3, <2>1
    <2>2. CASE d # 0
      <3>1. ASSUME \A k \in 1..n - 1 : is_digit(s[k], 10), NEW k \in 1..n, k # d
            PROVE  is_digit(w[k], 10)
        <4>1. CASE k < d
          <5>1. k \in 1..n - 1
            BY <1>1, <2>2, <4>1
          <5> QED BY <1>3, <2>2, <3>1, <4>1, <5>1
        <4>2. CASE ~(k < d)
          <5>1. k - 1 \in 1..n - 1 /\ ~(k - 1 < d) /\ (k - 1) + 1 = k
            BY <1>1, <2>2, <3>1, <4>2
          <5> QED BY <1>3, <2>2, <3>1, <5>1
        <4> QED BY <4>1, <4>2
      <3>2. ASSUME \A k \in 1..n : k # d => is_digit(w[k], 10), NEW k \in 1..n - 1
            PROVE  is_digit(s[k], 10)
        <4>1. CASE k < d
          <5>1. k \in 1..n /\ k # d
            BY <1>1, <2>2, <4>1
          <5> QED BY <1>3, <2>2, <3>2, <4>1, <5>1
        <4>2. CASE ~(k < d)
          <5>1. k + 1 \in 1..n /\ k + 1 # d
            BY <1>1, <2>2, <4>2
          <5> QED BY <1>3, <2>2, <3>2, <4>2, <5>1
        <4> QED BY <4>1, <4>2
      <3> QED BY <1>3, <2>2, <3>1, <3>2
    <2> QED BY <2>1, <2>2
  <1> QED BY <1>2, <1>3, <1>4, <1>5, <1>6

(* Digits that are read are worth their sum.                               *)
LEMMA DigitsSum ==
  ASSUME NEW s \in Seq(DOMAIN Byte), NEW base \in 1..16,
         \A k \in 1..Len(s) : is_digit(s[k], base)
  PROVE  /\ Digital(s, base)
         /\ Sum(s, base) = Exact(s, base)[Len(s)]
         /\ Sum(s, base) \in Nat
  <1>1. Len(s) \in Nat /\ \A k \in 1..Len(s) : s[k] \in DOMAIN Byte
    BY LenProperties, ElementOfSeq
  <1>2. Digital(s, base)
    <2>1. \A k \in 1..Len(s) : Digit[s[k]] \in 0..base - 1
      BY <1>1, WordDigits
    <2>2. base \in Nat \ {0}
      OBVIOUS
    <2> QED BY <1>1, <2>1, <2>2 DEF Digital
  <1>3. Sum(s, base) = Exact(s, base)[Len(s)]
    BY <1>2, SumIsExact
  <1>4. Exact(s, base)[Len(s)] \in Nat
    <2>1. Len(s) \in 0..Len(s)
      BY <1>1
    <2> QED BY <1>2, <2>1, Exacts
  <1> QED BY <1>2, <1>3, <1>4

LEMMA NumberIsSum ==
  ASSUME NEW s \in Seq(DOMAIN Byte), NEW base \in 1..16,
         \A k \in 1..Len(s) : is_digit(s[k], base),
         NEW i \in Int, NEW end \in Int, i <= end, Len(s) = end - i,
         \A k \in 1..Len(s) : s[k] = at(i + k - 1),
         Sum(s, base) < Limit
  PROVE  number(i, end, base) = Sum(s, base)
  <1>1. Digital(s, base) /\ Sum(s, base) = Exact(s, base)[Len(s)]
    BY DigitsSum
  <1>2. Exact(s, base)[Len(s)] < Limit
    BY <1>1
  <1> QED BY <1>1, <1>2, NumberIsExact

LEMMA Signed ==
  ASSUME NEW n \in Nat, n < Limit
  PROVE  Long(n) = n /\ Long(-n) = -n
  BY Longs

(* What begins a word of a base but ten.                                   *)
LEMMA BaseIs ==
  ASSUME text \in Texts, NEW w, NEW i, NEW e, IsWord(w, i, e), w # <<>>
  PROVE  /\ Base(w) \in {2, 10, 16} /\ i < e /\ w[1] = at(i)
         /\ Base(w) = 2 <=> at(i) = "0" /\ at(i + 1) \in {"b", "B"}
         /\ Base(w) = 16 <=> at(i) = "0" /\ at(i + 1) = "x"
         /\ Base(w) # 10 => i + 1 < e /\ w[2] = at(i + 1)
  <1>1. /\ i \in Nat \ {0} /\ e \in Nat /\ i <= e /\ w \in Seq(DOMAIN Byte) /\ Len(w) = e - i
        /\ \A k \in 1..e - i : w[k] = at(i + k - 1)
        /\ is_delim(at(e))
    BY DEF IsWord
  <1>2. i < e
    <2>1. Len(w) \in Nat \ {0}
      BY <1>1, EmptySeq
    <2> QED BY <1>1, <2>1
  <1>3. w[1] = at(i)
    <2>1. 1 \in 1..e - i /\ i + 1 - 1 = i
      BY <1>1, <1>2
    <2> QED BY <1>1, <2>1
  <1>4. \A c \in {"b", "B", "x"} : ~is_delim(c)
    BY Zenon DEF is_delim, isspace, delim_list, NUL
  <1>5. Len(w) > 1 => w[2] = at(i + 1) /\ i + 1 < e
    <2> SUFFICES ASSUME Len(w) > 1 PROVE w[2] = at(i + 1) /\ i + 1 < e
      OBVIOUS
    <2>1. 2 \in 1..e - i /\ i + 2 - 1 = i + 1 /\ i + 1 < e
      BY <1>1
    <2> QED BY <1>1, <2>1
  <1>6. at(i + 1) \in {"b", "B", "x"} => Len(w) > 1
    <2> SUFFICES ASSUME at(i + 1) \in {"b", "B", "x"} PROVE Len(w) > 1
      OBVIOUS
    <2>1. i + 1 # e
      BY <1>1, <1>4
    <2> QED BY <1>1, <1>2, <2>1
  <1> QED BY <1>2, <1>3, <1>5, <1>6 DEF Base

(* What is said of a token that begins at a place.                         *)
ReadsNumber(token, i) ==
  LET w == Unsigned(i)
  IN  /\ token.type \in {"int", "float"} /\ Digits(w) # <<>> => IsNumeral(w)
      /\ is_digit(w[1], 10) => token.end = WordEnd(i)
      /\ IsNumeral(w) /\ "." \notin ToSet(w) =>
           /\ token.type = "int"
           /\ Fits(w) => token.inum = Value(i)
      /\ IsNumeral(w) /\ "." \in ToSet(w) =>
           /\ token.type = "float"
           /\ Fits(w) => token.fnum = [num |-> Value(i), place |-> Places(w)]

LEMMA NoNumeral ==
  ASSUME NEW token, NEW i, token.type \notin {"int", "float"}, ~IsNumeral(Unsigned(i)),
         is_digit(Unsigned(i)[1], 10) => token.end = WordEnd(i)
  PROVE  ReadsNumber(token, i)
  BY DEF ReadsNumber

(* Where the digits of a word end, and what stands there.                  *)
LEMMA DigitsEndIn ==
  ASSUME text \in Texts, NEW start \in 1..Nul, NEW base \in 1..16
  PROVE  /\ DigitsEnd(start, base) \in start..Nul
         /\ ~is_digit(at(DigitsEnd(start, base)), base)
         /\ \A k \in start..DigitsEnd(start, base) - 1 : is_digit(at(k), base)
  <1> DEFINE T == {j \in start..Nul : ~is_digit(at(j), base)}
  <1>1. Nul \in Nat /\ at(Nul) = NUL
    BY TextFacts
  <1>2. DigitsEnd(start, base) = Min(T)
    BY DEF First, DigitsEnd
  <1>3. Nul \in T
    BY <1>1 DEF is_digit
  <1>4. T \in SUBSET (start..Nul) /\ \A k \in start..Nul : k \in T <=> ~is_digit(at(k), base)
    OBVIOUS
  <1> HIDE DEF T
  <1>5. Min(T) \in start..Nul /\ Min(T) \in T /\ \A j \in start..Min(T) - 1 : j \notin T
    BY <1>1, <1>3, <1>4, FirstPlace
  <1>6. \A j \in start..Min(T) - 1 : j \in start..Nul
    BY <1>1, <1>5
  <1> QED BY <1>2, <1>4, <1>5, <1>6

(* Digits end no word.                                                     *)
LEMMA DigitAt ==
  ASSUME text \in Texts, NEW k \in Nat, NEW base \in 1..16, is_digit(at(k), base)
  PROVE  ~is_delim(at(k)) /\ at(k) # "." /\ at(k) \in DOMAIN Byte
  <1>1. at(k) \in DOMAIN Byte
    BY TextFacts DEF is_digit
  <1> QED BY <1>1, WordDigits

LEMMA RadixWritten ==
  ASSUME text \in Texts, NEW i \in 1..Nul, NEW base \in {2, 16},
         Unsigned(i) # <<>>, Base(Unsigned(i)) = base
  PROVE  ReadsNumber(parse_radix(i, base), i)
  <1> DEFINE w == Unsigned(i)
             j == skip(i, "-")
             e == WordEnd(i)
             start == j + 2
             end == DigitsEnd(start, base)
             inum == number(start, end, base)
             value == IF at(i) = "-" THEN Long(-inum) ELSE inum
             token == parse_radix(i, base)
             s == Digits(w)
  <1>1. token = CASE at(start) = NUL -> tag_token("error", i, start)
                  [] at(start) # NUL /\ ~is_delim(at(end)) ->
                       tag_token("error", i, end + get_word_len(end))
                  [] OTHER -> tag_int(i, end, value)
    BY DEF parse_radix, DigitsEnd
  <1>2. IsWord(w, j, e)
    BY WordIs
  <1>3. /\ j \in Nat \ {0} /\ e \in Nat /\ j <= e /\ e <= Nul
        /\ w \in Seq(DOMAIN Byte) /\ Len(w) = e - j
        /\ \A k \in 1..e - j : w[k] = at(j + k - 1)
        /\ is_delim(at(e))
        /\ \A k \in j..e - 1 : ~is_delim(at(k))
    BY <1>2 DEF IsWord
  <1>4. j + 1 < e /\ w[1] = at(j) /\ w[2] = at(j + 1)
        /\ at(j) = "0" /\ at(j + 1) \in {"b", "B", "x"}
    BY <1>2, BaseIs
  <1>5. Nul \in Nat /\ at(Nul) = NUL /\ \A k \in 1..Nul : at(k) = NUL => k = Nul
    BY TextFacts
  <1>6. s = SubSeq(w, 3, Len(w))
    BY DEF Digits
  <1>7. Value(i) = (IF at(i) = "-" THEN -1 ELSE 1) * Sum(s, base)
    BY DEF Value
  <1>8. IsNumeral(w) <=> s # <<>> /\ \A k \in DOMAIN s : is_digit(s[k], base)
    BY DEF IsNumeral
  <1> HIDE DEF w, j, e, start, end, value, token, s
  <1>9. start = j + 2 /\ start \in 1..Nul /\ start <= e
    BY <1>3, <1>4, <1>5 DEF start
  <1>10. /\ end \in start..Nul /\ ~is_digit(at(end), base)
         /\ \A k \in start..end - 1 : is_digit(at(k), base)
    <2>1. base \in 1..16 /\ start \in 1..Nul
      BY <1>9
    <2>2. /\ DigitsEnd(start, base) \in start..Nul
          /\ ~is_digit(at(DigitsEnd(start, base)), base)
          /\ \A k \in start..DigitsEnd(start, base) - 1 : is_digit(at(k), base)
      BY <2>1, DigitsEndIn
    <2> QED BY <2>2 DEF end
  <1>11. end <= e
    <2> SUFFICES ASSUME end > e PROVE FALSE
      BY <1>3, <1>9, <1>10
    <2>1. is_digit(at(e), base) /\ base \in 1..16
      BY <1>3, <1>9, <1>10
    <2> QED BY <1>3, <2>1, DigitAt
  <1>12. /\ s \in Seq(DOMAIN Byte) /\ Len(s) = e - start /\ DOMAIN s = 1..Len(s)
         /\ \A k \in 1..e - start : s[k] = at(start + k - 1)
         /\ s # <<>> <=> Len(s) # 0
    <2>1. \A k \in 3..Len(w) : w[k] \in DOMAIN Byte
      <3>1. \A k \in 1..Len(w) : w[k] \in DOMAIN Byte
        BY <1>3, ElementOfSeq
      <3>2. \A k \in 3..Len(w) : k \in 1..Len(w)
        BY <1>3
      <3> QED BY <3>1, <3>2
    <2>2. /\ s \in Seq(DOMAIN Byte)
          /\ Len(s) = IF 3 <= Len(w) THEN Len(w) - 3 + 1 ELSE 0
          /\ \A k \in 1..Len(w) - 3 + 1 : s[k] = w[3 + k - 1]
      <3>1. 3 \in Int /\ Len(w) \in Int
        BY <1>3
      <3> QED BY <1>6, <2>1, <3>1, SubSeqProperties
    <2>3. Len(s) = e - start
      BY <1>3, <1>4, <1>9, <2>2
    <2>4. ASSUME NEW k \in 1..e - start PROVE s[k] = at(start + k - 1)
      <3>1. /\ k \in 1..Len(w) - 3 + 1 /\ 3 + k - 1 \in 1..e - j
            /\ j + (3 + k - 1) - 1 = start + k - 1
        BY <1>3, <1>4, <1>9
      <3> QED BY <1>3, <2>2, <3>1
    <2> QED BY <2>2, <2>3, <2>4, LenProperties, EmptySeq
  <1>13. w # <<>> /\ Base(w) = base
    BY DEF w
  <1>14. CASE at(start) = NUL
    <2>1. token.type = "error" /\ token.end = start
      BY <1>1, <1>14 DEF tag_token
    <2>2. start = e
      BY <1>3, <1>5, <1>9, <1>14
    <2>3. s = <<>>
      BY <1>3, <1>12, <2>2
    <2> QED BY <1>8, <2>1, <2>2, <2>3, NoNumeral DEF w, e, token
  <1>15. CASE at(start) # NUL /\ ~is_delim(at(end))
    <2>1. token.type = "error" /\ token.end = end + get_word_len(end)
      BY <1>1, <1>15 DEF tag_token
    <2>2. end # e
      BY <1>3, <1>15
    <2>3. end \in j..e - 1
      BY <1>3, <1>9, <1>10, <1>11, <2>2
    <2>4. token.end = e
      BY <1>2, <2>1, <2>3, WordRestEnd
    <2>5. ~IsNumeral(w)
      <3>1. end - start + 1 \in 1..e - start /\ start + (end - start + 1) - 1 = end
        BY <1>3, <1>9, <1>10, <1>11, <2>2
      <3>2. s[end - start + 1] = at(end) /\ end - start + 1 \in DOMAIN s
        BY <1>12, <3>1
      <3> QED BY <1>8, <1>10, <3>2
    <2> QED BY <2>1, <2>4, <2>5, NoNumeral DEF w, e, token
  <1>16. CASE at(start) # NUL /\ is_delim(at(end))
    <2>1. token.type = "int" /\ token.end = end /\ token.inum = value
      BY <1>1, <1>16 DEF tag_int
    <2>2. end = e
      <3>1. ~(end \in j..e - 1)
        BY <1>3, <1>16
      <3> QED BY <1>3, <1>9, <1>10, <1>11, <3>1
    <2>3. \A k \in 1..Len(s) : is_digit(s[k], base)
      <3>1. \A k \in 1..e - start : start + k - 1 \in start..end - 1
        BY <1>3, <1>9, <2>2
      <3> QED BY <1>10, <1>12, <3>1
    <2>4. \A k \in 1..Len(w) : w[k] # "."
      <3> SUFFICES ASSUME NEW k \in 1..Len(w) PROVE w[k] # "."
        OBVIOUS
      <3>1. CASE k \in {1, 2}
        BY <1>4, <3>1
      <3>2. CASE k \notin {1, 2}
        <4>1. j + k - 1 \in start..end - 1 /\ j + k - 1 \in Nat /\ base \in 1..16
          BY <1>3, <1>9, <2>2, <3>2
        <4>2. at(j + k - 1) # "."
          BY <1>10, <4>1, DigitAt
        <4> QED BY <1>3, <4>2
      <3> QED BY <3>1, <3>2
    <2>5. "." \notin ToSet(w) /\ Dot(w) = 0
      <3>1. DOMAIN w = 1..Len(w)
        BY <1>3, LenProperties
      <3>2. "." \notin ToSet(w)
        BY <2>4, <3>1 DEF ToSet
      <3> QED BY <1>3, <2>4, <3>2, DotIs
    <2>6. ASSUME Fits(w) PROVE value = Value(i)
      <3>1. Sum(s, base) < Limit
        BY <1>13, <2>5, <2>6 DEF Fits, s
      <3>2. inum = Sum(s, base) /\ Sum(s, base) \in Nat
        <4>1. start \in Int /\ end \in Int /\ base \in 1..16 /\ Len(s) = end - start
          BY <1>9, <1>10, <1>12, <2>2
        <4>2. \A k \in 1..Len(s) : s[k] = at(start + k - 1)
          BY <1>12
        <4>3. start <= end
          BY <1>9, <1>10
        <4> HIDE DEF inum
        <4>4. number(start, end, base) = Sum(s, base)
          BY <1>12, <2>3, <3>1, <4>1, <4>2, <4>3, NumberIsSum
        <4> QED BY <1>12, <2>3, <4>1, <4>4, DigitsSum DEF inum
      <3>3. Long(-inum) = -inum
        BY <3>1, <3>2, Signed
      <3> QED BY <1>7, <3>2, <3>3 DEF value
    <2>7. s # <<>> => IsNumeral(w)
      BY <1>8, <1>12, <2>3
    <2> QED BY <2>1, <2>2, <2>5, <2>6, <2>7 DEF ReadsNumber, w, e, s, token
  <1> QED BY <1>14, <1>15, <1>16 DEF token

LEMMA DecimalEndIn ==
  ASSUME text \in Texts, NEW start \in 1..Nul
  PROVE  /\ DecimalEnd(start) \in start..Nul
         /\ at(DecimalEnd(start)) # "." /\ ~is_digit(at(DecimalEnd(start)), 10)
         /\ \A k \in start..DecimalEnd(start) - 1 : at(k) = "." \/ is_digit(at(k), 10)
  <1> DEFINE T == {j \in start..Nul : at(j) # "." /\ ~is_digit(at(j), 10)}
  <1>1. Nul \in Nat /\ at(Nul) = NUL
    BY TextFacts
  <1>2. DecimalEnd(start) = Min(T)
    BY DEF First, DecimalEnd
  <1>3. Nul \in T
    <2>1. NUL # "."
      BY DEF NUL
    <2> QED BY <1>1, <2>1 DEF is_digit
  <1>4. /\ T \in SUBSET (start..Nul)
        /\ \A k \in start..Nul : k \in T <=> at(k) # "." /\ ~is_digit(at(k), 10)
    OBVIOUS
  <1> HIDE DEF T
  <1>5. Min(T) \in start..Nul /\ Min(T) \in T /\ \A j \in start..Min(T) - 1 : j \notin T
    BY <1>1, <1>3, <1>4, FirstPlace
  <1>6. \A j \in start..Min(T) - 1 : j \in start..Nul
    BY <1>1, <1>5
  <1> QED BY <1>2, <1>4, <1>5, <1>6

LEMMA FirstDot ==
  ASSUME NEW w \in Seq(DOMAIN Byte), NEW p \in 1..Len(w), w[p] = ".",
         \A k \in 1..p - 1 : w[k] # "."
  PROVE  Dot(w) = p
  <1>1. Len(w) \in Nat
    BY LenProperties
  <1>2. \/ Dot(w) = 0 /\ \A k \in 1..Len(w) : w[k] # "."
        \/ /\ Dot(w) \in 1..Len(w) /\ w[Dot(w)] = "."
           /\ \A k \in 1..Dot(w) - 1 : w[k] # "."
    BY DotIs
  <1>3. Dot(w) \in 1..Len(w) /\ w[Dot(w)] = "." /\ \A k \in 1..Dot(w) - 1 : w[k] # "."
    BY <1>2
  <1>4. ~(Dot(w) < p)
    BY <1>1, <1>3
  <1>5. ~(p < Dot(w))
    BY <1>1, <1>3
  <1> QED BY <1>1, <1>3, <1>4, <1>5

(* Two dots at most are told apart.                                        *)
LEMMA DotsAre ==
  ASSUME NEW n \in Nat, NEW dots \in SUBSET (1..n), dots # {}
  PROVE  /\ Min(dots) \in dots /\ \A m \in dots : Min(dots) <= m
         /\ Cardinality(dots) > 1 => Min(dots \ {Min(dots)}) \in dots \ {Min(dots)}
         /\ ~(Cardinality(dots) > 1) => dots = {Min(dots)}
  <1> DEFINE dot == Min(dots)
  <1>1. dot \in dots /\ \A m \in dots : dot <= m
    BY MinIs
  <1>2. IsFiniteSet(dots)
    <2>1. IsFiniteSet(1..n)
      BY FS_Interval
    <2> QED BY <2>1, FS_Subset
  <1>3. /\ IsFiniteSet(dots \ {dot})
        /\ Cardinality(dots \ {dot}) = Cardinality(dots) - 1
    BY <1>1, <1>2, FS_RemoveElement
  <1>4. Cardinality(dots) \in Nat /\ Cardinality(dots \ {dot}) \in Nat
    BY <1>2, <1>3, FS_CardinalityType
  <1>5. dots \ {dot} = {} <=> Cardinality(dots \ {dot}) = 0
    BY <1>3, FS_EmptySet
  <1>6. dots \ {dot} # {} => Min(dots \ {dot}) \in dots \ {dot}
    <2> HIDE DEF dot
    <2>1. \A m \in dots \ {dot} : m \in Nat
      OBVIOUS
    <2>2. dots \ {dot} \in SUBSET Nat
      BY <2>1
    <2> QED BY <2>2, MinIs
  <1> HIDE DEF dot
  <1>7. Cardinality(dots) > 1 => Min(dots \ {dot}) \in dots \ {dot}
    BY <1>3, <1>4, <1>5, <1>6
  <1>8. ~(Cardinality(dots) > 1) => dots = {dot}
    <2>1. ~(Cardinality(dots) > 1) => dots \ {dot} = {}
      BY <1>3, <1>4, <1>5
    <2>2. dots \ {dot} = {} => \A m : m \in dots <=> m = dot
      BY <1>1
    <2> QED BY <2>1, <2>2
  <1> QED BY <1>1, <1>7, <1>8 DEF dot

(* The value of a decimal word with a dot.                                 *)
LEMMA JoinedSum ==
  ASSUME NEW w \in Seq(DOMAIN Byte), Dot(w) \in 1..Len(w),
         \A k \in 1..Len(w) : k # Dot(w) => is_digit(w[k], 10)
  PROVE  /\ \A k \in 1..Len(Whole(w)) : is_digit(Whole(w)[k], 10)
         /\ \A k \in 1..Len(Fraction(w)) : is_digit(Fraction(w)[k], 10)
         /\ Sum(Whole(w) \o Fraction(w), 10) =
              Sum(Whole(w), 10) * power(10, Len(Fraction(w))) + Sum(Fraction(w), 10)
         /\ Sum(Whole(w) \o Fraction(w), 10) \in Int
  <1> DEFINE d == Dot(w)
             n == Len(w)
             a == Whole(w)
             b == Fraction(w)
             s == a \o b
  <1>1. /\ a \in Seq(DOMAIN Byte) /\ Len(a) = d - 1
        /\ \A k \in 1..d - 1 : a[k] = w[k]
        /\ b \in Seq(DOMAIN Byte) /\ Len(b) = n - d
        /\ \A k \in 1..n - d : b[k] = w[d + k]
        /\ s \in Seq(DOMAIN Byte)
        /\ Len(s) = n - 1
        /\ \A k \in 1..n - 1 : s[k] = IF k < d THEN w[k] ELSE w[k + 1]
    BY DecimalParts
  <1>2. n \in Nat /\ d \in 1..n /\ \A k \in 1..n : k # d => is_digit(w[k], 10)
    BY LenProperties
  <1> HIDE DEF d, n, a, b, s
  <1>3. \A k \in 1..Len(a) : is_digit(a[k], 10)
    <2>1. \A k \in 1..d - 1 : k \in 1..n /\ k # d
      BY <1>2
    <2> QED BY <1>1, <1>2, <2>1
  <1>4. \A k \in 1..Len(b) : is_digit(b[k], 10)
    <2>1. \A k \in 1..n - d : d + k \in 1..n /\ d + k # d
      BY <1>2
    <2> QED BY <1>1, <1>2, <2>1
  <1>5. 10 \in 1..16
    OBVIOUS
  <1>6. Digital(a, 10) /\ Sum(a, 10) = Exact(a, 10)[Len(a)]
    BY <1>1, <1>3, <1>5, DigitsSum
  <1>7. Digital(b, 10) /\ Sum(b, 10) = Exact(b, 10)[Len(b)]
    BY <1>1, <1>4, <1>5, DigitsSum
  <1>8. Len(s) = Len(a) + Len(b)
    BY <1>1, <1>2
  <1>9. \A k \in 1..Len(a) : s[k] = a[k]
    <2> SUFFICES ASSUME NEW k \in 1..Len(a) PROVE s[k] = a[k]
      OBVIOUS
    <2>1. k \in 1..d - 1 /\ k \in 1..n - 1 /\ k < d
      BY <1>1, <1>2
    <2> QED BY <1>1, <2>1
  <1>10. \A k \in 1..Len(b) : s[Len(a) + k] = b[k]
    <2> SUFFICES ASSUME NEW k \in 1..Len(b) PROVE s[Len(a) + k] = b[k]
      OBVIOUS
    <2>1. /\ k \in 1..n - d /\ Len(a) + k \in 1..n - 1 /\ ~(Len(a) + k < d)
          /\ (Len(a) + k) + 1 = d + k
      BY <1>1, <1>2
    <2> QED BY <1>1, <2>1
  <1>11. /\ Digital(s, 10)
         /\ Exact(s, 10)[Len(s)] = Exact(a, 10)[Len(a)] * power(10, Len(b)) + Exact(b, 10)[Len(b)]
    <2>1. JoinOf(s, a, b)
      BY <1>8, <1>9, <1>10 DEF JoinOf
    <2> QED BY <1>6, <1>7, <2>1, ExactJoin
  <1>12. Sum(s, 10) = Exact(s, 10)[Len(s)]
    BY <1>11, SumIsExact
  <1>13. Sum(s, 10) \in Int
    <2>1. Len(s) \in 0..Len(s)
      BY <1>1, <1>2
    <2>2. Exact(s, 10)[Len(s)] \in Nat
      BY <1>11, <2>1, Exacts
    <2> QED BY <1>12, <2>2
  <1> QED BY <1>3, <1>4, <1>6, <1>7, <1>11, <1>12, <1>13 DEF a, b, s

(* A word that is not a number at some place is none.                      *)
LEMMA BadPlace ==
  ASSUME NEW w \in Seq(DOMAIN Byte), Base(w) = 10, NEW p \in 1..Len(w), p # Dot(w),
         ~is_digit(w[p], 10)
  PROVE  ~IsNumeral(w)
  BY DecimalNumeral

LEMMA DecimalWritten ==
  ASSUME text \in Texts, NEW i \in 1..Nul, is_decimal(i),
         Unsigned(i) # <<>>, Base(Unsigned(i)) = 10
  PROVE  ReadsNumber(parse_decimal(i), i)
  <1> DEFINE w == Unsigned(i)
             j == skip(i, "-")
             e == WordEnd(i)
             end == DecimalEnd(j)
             dots == {k \in j..end - 1 : at(k) = "."}
             dot == IF dots = {} THEN end ELSE Min(dots)
             bad == IF Cardinality(dots) > 1 THEN Min(dots \ {dot}) ELSE end
             inum == number(j, dot, 10)
             place == end - dot - 1
             fnum == inum * power(10, place) + number(dot + 1, end, 10)
             sign == IF at(i) = "-" THEN -1 ELSE 1
             token == parse_decimal(i)
  <1>1. token = CASE bad # end \/ ~is_delim(at(end)) ->
                       tag_token("error", i, bad + get_word_len(bad))
                  [] bad = end /\ is_delim(at(end)) /\ dots = {} ->
                       tag_int(i, end, Long(sign * inum))
                  [] OTHER -> tag_float(i, end, sign * fnum, place)
    BY DEF parse_decimal, DecimalEnd
  <1>2. IsWord(w, j, e)
    BY WordIs
  <1>3. /\ j \in Nat \ {0} /\ e \in Nat /\ j <= e /\ e <= Nul
        /\ w \in Seq(DOMAIN Byte) /\ Len(w) = e - j
        /\ \A k \in 1..e - j : w[k] = at(j + k - 1)
        /\ is_delim(at(e))
        /\ \A k \in j..e - 1 : ~is_delim(at(k))
    BY <1>2 DEF IsWord
  <1>4. is_digit(at(skip(j, ".")), 10)
    BY DEF is_decimal
  <1>5. Nul \in Nat /\ w # <<>> /\ Base(w) = 10
    BY TextFacts
  <1>6. Value(i) = sign * Sum(Digits(w), 10)
    BY <1>5 DEF Value
  <1> HIDE DEF w, j, e, end, sign, token
  <1>7. /\ end \in j..Nul /\ at(end) # "." /\ ~is_digit(at(end), 10)
        /\ \A k \in j..end - 1 : at(k) = "." \/ is_digit(at(k), 10)
    <2>1. j \in 1..Nul
      BY <1>3, <1>5
    <2>2. /\ DecimalEnd(j) \in j..Nul
          /\ at(DecimalEnd(j)) # "." /\ ~is_digit(at(DecimalEnd(j)), 10)
          /\ \A k \in j..DecimalEnd(j) - 1 : at(k) = "." \/ is_digit(at(k), 10)
      BY <2>1, DecimalEndIn
    <2> QED BY <2>2 DEF end
  <1>8. end <= e
    <2> SUFFICES ASSUME end > e PROVE FALSE
      BY <1>3, <1>7
    <2>1. e \in j..end - 1 /\ 10 \in 1..16
      BY <1>3, <1>7
    <2>2. at(e) = "." \/ is_digit(at(e), 10)
      BY <1>7, <2>1
    <2>3. ~is_delim(".")
      BY Zenon DEF is_delim, isspace, delim_list, NUL
    <2> QED BY <1>3, <2>1, <2>2, <2>3, DigitAt
  (* The dots, in the text and in the word.                                *)
  <1>9. /\ \A k \in dots : k \in j..end - 1 /\ at(k) = "."
        /\ \A k \in j..end - 1 : k \notin dots => is_digit(at(k), 10)
        /\ dots \in SUBSET (1..end) /\ end \in Nat
    BY <1>3, <1>7
  <1> HIDE DEF dots
  <1>10. dots # {} =>
           /\ dot \in dots /\ \A m \in dots : dot <= m
           /\ Cardinality(dots) > 1 => bad \in dots \ {dot}
           /\ ~(Cardinality(dots) > 1) => dots = {dot} /\ bad = end
    <2>1. dots # {} =>
            /\ Min(dots) \in dots /\ \A m \in dots : Min(dots) <= m
            /\ Cardinality(dots) > 1 => Min(dots \ {Min(dots)}) \in dots \ {Min(dots)}
            /\ ~(Cardinality(dots) > 1) => dots = {Min(dots)}
      BY <1>9, DotsAre
    <2> QED BY <2>1
  <1>11. dots = {} => dot = end /\ bad = end
    <2>1. Cardinality({}) = 0
      BY FS_EmptySet
    <2> QED BY <2>1
  <1> HIDE DEF dot, bad
  <1>12. dots # {} => Dot(w) = dot - j + 1
    <2> SUFFICES ASSUME dots # {} PROVE Dot(w) = dot - j + 1
      OBVIOUS
    <2>1. dot \in j..end - 1 /\ at(dot) = "." /\ \A m \in dots : dot <= m
      BY <1>9, <1>10
    <2> DEFINE p == dot - j + 1
    <2>2. p \in 1..Len(w) /\ p \in 1..e - j /\ j + p - 1 = dot
      BY <1>3, <1>7, <1>8, <2>1
    <2>3. w[p] = "."
      BY <1>3, <2>1, <2>2
    <2>4. ASSUME NEW k \in 1..p - 1 PROVE w[k] # "."
      <3>1. k \in 1..e - j /\ j + k - 1 \in j..end - 1 /\ j + k - 1 < dot /\ j + k - 1 \in Nat
        BY <1>3, <1>7, <2>1, <2>2
      <3>2. j + k - 1 \notin dots
        BY <2>1, <3>1
      <3>3. at(j + k - 1) # "."
        <4>1. is_digit(at(j + k - 1), 10) /\ 10 \in 1..16
          BY <1>9, <3>1, <3>2
        <4> QED BY <3>1, <4>1, DigitAt
      <3> QED BY <1>3, <3>1, <3>3
    <2> HIDE DEF p
    <2>5. Dot(w) = p
      BY <1>3, <2>2, <2>3, <2>4, FirstDot
    <2> QED BY <2>5 DEF p
  <1>13. CASE bad # end \/ ~is_delim(at(end))
    <2>1. token.type = "error" /\ token.end = bad + get_word_len(bad)
      BY <1>1, <1>13 DEF tag_token
    <2>2. /\ bad \in j..e - 1 /\ ~is_digit(at(bad), 10)
          /\ bad - j + 1 # Dot(w)
      <3>1. CASE bad = end
        <4>1. end # e
          BY <1>3, <1>13, <3>1
        <4>2. bad \in j..e - 1 /\ at(bad) # "."
          BY <1>3, <1>7, <1>8, <3>1, <4>1
        <4>3. bad - j + 1 \in 1..e - j /\ j + (bad - j + 1) - 1 = bad
          BY <1>3, <4>2
        <4>4. w[bad - j + 1] # "."
          BY <1>3, <4>2, <4>3
        <4>5. Dot(w) # 0 => w[Dot(w)] = "."
          BY <1>3, DotIs
        <4>6. bad - j + 1 # 0
          BY <4>3
        <4> QED BY <1>7, <3>1, <4>2, <4>4, <4>5, <4>6
      <3>2. CASE bad # end
        <4>1. bad \in dots \ {dot} /\ dots # {}
          BY <1>10, <1>11, <3>2
        <4>2. bad \in j..end - 1 /\ at(bad) = "." /\ dot \in j..end - 1 /\ bad # dot
          BY <1>9, <1>10, <4>1
        <4>3. ~is_digit(".", 10)
          <5>1. bad \in Nat /\ 10 \in 1..16
            BY <1>3, <1>7, <4>2
          <5> QED BY <4>2, <5>1, DigitAt
        <4>4. bad - j + 1 # Dot(w) /\ bad \in j..e - 1
          BY <1>3, <1>7, <1>8, <1>12, <4>1, <4>2
        <4> QED BY <4>2, <4>3, <4>4
      <3> QED BY <3>1, <3>2
    <2>3. token.end = e
      BY <1>2, <2>1, <2>2, WordRestEnd
    <2>4. ~IsNumeral(w)
      <3>1. bad - j + 1 \in 1..Len(w) /\ w[bad - j + 1] = at(bad)
        BY <1>2, <2>2, WordAt
      <3> QED BY <1>3, <1>5, <2>2, <3>1, BadPlace
    <2> QED BY <2>1, <2>3, <2>4, NoNumeral DEF w, e, token
  <1>14. CASE bad = end /\ is_delim(at(end))
    <2>1. end = e
      <3>1. ~(end \in j..e - 1)
        BY <1>3, <1>14
      <3> QED BY <1>3, <1>7, <1>8, <3>1
    <2>2. dots # {} => dots = {dot} /\ dot \in j..e - 1
      <3>1. dots # {} => ~(Cardinality(dots) > 1)
        BY <1>9, <1>10, <1>14
      <3> QED BY <1>9, <1>10, <2>1, <3>1
    <2>3. Dot(w) = 0 <=> dots = {}
      <3>1. CASE dots = {}
        <4>1. ASSUME NEW k \in 1..Len(w) PROVE w[k] # "."
          <5>1. j + k - 1 \in j..end - 1 /\ j + k - 1 \in Nat /\ 10 \in 1..16
            BY <1>3, <2>1
          <5>2. at(j + k - 1) # "."
            BY <1>9, <3>1, <5>1, DigitAt
          <5> QED BY <1>3, <5>2
        <4>2. 1 \in 1..Len(w) => w[1] # "."
          BY <4>1
        <4> QED BY <1>3, <3>1, <4>1, DotIs
      <3>2. CASE dots # {}
        <4>1. dot - j + 1 # 0
          BY <1>3, <2>2, <3>2
        <4> QED BY <1>12, <3>2, <4>1
      <3> QED BY <3>1, <3>2
    <2>4. ASSUME NEW k \in 1..Len(w), k # Dot(w) PROVE is_digit(w[k], 10)
      <3>1. j + k - 1 \in j..end - 1 /\ w[k] = at(j + k - 1)
        BY <1>3, <2>1
      <3>2. j + k - 1 \notin dots
        <4>1. CASE dots = {}
          BY <4>1
        <4>2. CASE dots # {}
          <5>1. Dot(w) = dot - j + 1 /\ dots = {dot} /\ dot \in j..e - 1
            BY <1>12, <2>2, <4>2
          <5> QED BY <1>3, <2>4, <5>1
        <4> QED BY <4>1, <4>2
      <3> QED BY <1>9, <3>1, <3>2
    <2>5. Digits(w) # <<>>
      <3> DEFINE m == skip(j, ".")
                 p == m - j + 1
      <3>1. m \in {j, j + 1} /\ (m = j + 1 => at(j) = ".")
        BY <1>3 DEF skip
      <3>2. is_digit(at(m), 10)
        BY <1>4
      <3> HIDE DEF m
      <3>3. m \in Nat /\ 10 \in 1..16
        BY <1>3, <3>1
      <3>4. ~is_delim(at(m)) /\ at(m) # "."
        BY <3>2, <3>3, DigitAt
      <3>5. m \in j..e - 1
        <4>1. ~is_delim(".")
          BY Zenon DEF is_delim, isspace, delim_list, NUL
        <4>2. m # e
          BY <1>3, <3>4
        <4>3. m = j + 1 => j # e
          BY <1>3, <3>1, <4>1
        <4> QED BY <1>3, <3>1, <4>2, <4>3
      <3>6. p \in 1..Len(w) /\ w[p] = at(m)
        BY <1>2, <3>5, WordAt
      <3>7. p # Dot(w)
        <4>1. CASE Dot(w) = 0
          BY <3>6, <4>1
        <4>2. CASE Dot(w) # 0
          BY <1>3, <3>4, <3>6, <4>2, DotIs
        <4> QED BY <4>1, <4>2
      <3>8. Len(Digits(w)) # 0
        <4>1. Len(Digits(w)) = IF Dot(w) = 0 THEN Len(w) ELSE Len(w) - 1
          BY <1>3, <1>5, DecimalNumeral
        <4>2. Dot(w) # 0 => Dot(w) \in 1..Len(w)
          BY <1>3, DotIs
        <4> HIDE DEF p
        <4> QED BY <1>3, <3>6, <3>7, <4>1, <4>2
      <3> QED BY <1>3, <1>5, <3>8, DecimalNumeral
    <2>6. IsNumeral(w)
      BY <1>3, <1>5, <2>4, <2>5, DecimalNumeral
    <2>7. "." \in ToSet(w) <=> dots # {}
      <3>1. DOMAIN w = 1..Len(w)
        BY <1>3, LenProperties
      <3>2. "." \in ToSet(w) <=> \E k \in 1..Len(w) : w[k] = "."
        BY <3>1 DEF ToSet
      <3> QED BY <1>3, <2>3, <3>2, DotIs
    <2>8. CASE dots = {}
      <3>1. token.type = "int" /\ token.end = end /\ token.inum = Long(sign * inum)
        BY <1>1, <1>14, <2>8 DEF tag_int
      <3>2. Digits(w) = w /\ Dot(w) = 0 /\ dot = end
        BY <1>3, <1>5, <1>11, <2>3, <2>8, DecimalNumeral
      <3>3. \A k \in 1..Len(w) : is_digit(w[k], 10)
        BY <2>4, <3>2
      <3>4. ASSUME Fits(w) PROVE token.inum = Value(i)
        <4>1. Sum(w, 10) < Limit
          BY <1>5, <3>2, <3>4 DEF Fits
        <4>2. inum = Sum(w, 10)
          <5>1. j \in Int /\ end \in Int /\ 10 \in 1..16 /\ Len(w) = end - j /\ j <= end
                /\ \A k \in 1..Len(w) : w[k] = at(j + k - 1)
            BY <1>3, <1>7, <2>1
          <5>2. number(j, end, 10) = Sum(w, 10)
            BY <1>3, <3>3, <4>1, <5>1, NumberIsSum
          <5> QED BY <3>2, <5>2
        <4>3. Sum(w, 10) \in Nat /\ 10 \in 1..16
          BY <1>3, <3>3, DigitsSum
        <4>4. Long(Sum(w, 10)) = Sum(w, 10) /\ Long(-Sum(w, 10)) = -Sum(w, 10)
          BY <4>1, <4>3, Signed
        <4> HIDE DEF inum
        <4>5. sign \in {1, -1}
          BY DEF sign
        <4> QED BY <1>6, <3>1, <3>2, <4>2, <4>3, <4>4, <4>5
      <3> QED BY <2>1, <2>6, <2>7, <2>8, <3>1, <3>4 DEF ReadsNumber, w, e, token
    <2>9. CASE dots # {}
      <3>1. token.type = "float" /\ token.end = end
            /\ token.fnum = [num |-> sign * fnum, place |-> place]
        BY <1>1, <1>14, <2>9 DEF tag_float
      <3>2. /\ Dot(w) = dot - j + 1 /\ Dot(w) \in 1..Len(w) /\ dot \in j..e - 1
            /\ Digits(w) = Whole(w) \o Fraction(w)
        BY <1>3, <1>5, <1>12, <2>2, <2>3, <2>9, DotIs, DecimalNumeral
      <3>3. place = Places(w) /\ place = Len(w) - Dot(w)
        BY <1>3, <2>1, <3>2 DEF Places
      <3>4. ASSUME Fits(w) PROVE sign * fnum = Value(i)
        <4> DEFINE a == Whole(w)
                   b == Fraction(w)
        <4>1. Sum(a, 10) < Limit /\ Sum(b, 10) < Limit
          <5>1. Dot(w) # 0
            BY <2>3, <2>9
          <5> QED BY <1>5, <3>4, <5>1 DEF Fits, Whole, Fraction
        <4>2. /\ \A k \in 1..Len(a) : is_digit(a[k], 10)
              /\ \A k \in 1..Len(b) : is_digit(b[k], 10)
              /\ Sum(Digits(w), 10) = Sum(a, 10) * power(10, Len(b)) + Sum(b, 10)
          BY <1>3, <2>4, <3>2, JoinedSum
        <4>3. /\ a \in Seq(DOMAIN Byte) /\ Len(a) = Dot(w) - 1
              /\ \A k \in 1..Dot(w) - 1 : a[k] = w[k]
              /\ b \in Seq(DOMAIN Byte) /\ Len(b) = Len(w) - Dot(w)
              /\ \A k \in 1..Len(w) - Dot(w) : b[k] = w[Dot(w) + k]
          BY <1>3, <3>2, DecimalParts
        <4> HIDE DEF a, b, inum
        <4>4. number(j, dot, 10) = Sum(a, 10)
          <5>1. j \in Int /\ dot \in Int /\ 10 \in 1..16 /\ Len(a) = dot - j /\ j <= dot
            BY <1>3, <3>2, <4>3
          <5>2. \A k \in 1..Len(a) : a[k] = at(j + k - 1)
            <6>1. \A k \in 1..Len(a) : k \in 1..Dot(w) - 1 /\ k \in 1..e - j
              BY <1>3, <3>2, <4>3
            <6> QED BY <1>3, <4>3, <6>1
          <5> QED BY <4>1, <4>2, <4>3, <5>1, <5>2, NumberIsSum
        <4>5. number(dot + 1, end, 10) = Sum(b, 10)
          <5>1. /\ dot + 1 \in Int /\ end \in Int /\ 10 \in 1..16
                /\ Len(b) = end - (dot + 1) /\ dot + 1 <= end
            BY <1>3, <2>1, <3>2, <4>3
          <5>2. \A k \in 1..Len(b) : b[k] = at((dot + 1) + k - 1)
            <6>1. \A k \in 1..Len(b) :
                    /\ k \in 1..Len(w) - Dot(w) /\ Dot(w) + k \in 1..e - j
                    /\ j + (Dot(w) + k) - 1 = (dot + 1) + k - 1
              BY <1>3, <3>2, <4>3
            <6> QED BY <1>3, <4>3, <6>1
          <5> QED BY <4>1, <4>2, <4>3, <5>1, <5>2, NumberIsSum
        <4>6. Len(b) = place
          BY <3>3, <4>3
        <4>7. fnum = Sum(Digits(w), 10)
          BY <4>2, <4>4, <4>5, <4>6 DEF inum
        <4> QED BY <1>6, <4>7
      <3> HIDE DEF fnum, place
      <3>5. Fits(w) => token.fnum = [num |-> Value(i), place |-> Places(w)]
        BY <3>1, <3>3, <3>4
      <3> QED BY <2>1, <2>6, <2>7, <2>9, <3>1, <3>5 DEF ReadsNumber, w, e, token
    <2> QED BY <2>8, <2>9
  <1> QED BY <1>13, <1>14

-----------------------------------------------------------------------------
(* The tokens.                                                             *)

(* A word that is a numeral is read as one.                                *)
LEMMA NumeralKinds ==
  ASSUME text \in Texts, NEW i \in 1..Nul, Unsigned(i) # <<>>, IsNumeral(Unsigned(i))
  PROVE  is_binary(i) \/ is_hex(i) \/ is_decimal(i)
  <1> DEFINE w == Unsigned(i)
             j == skip(i, "-")
             e == WordEnd(i)
  <1>1. IsWord(w, j, e)
    BY WordIs
  <1>2. /\ Base(w) \in {2, 10, 16} /\ j < e /\ w[1] = at(j)
        /\ Base(w) = 2 <=> at(j) = "0" /\ at(j + 1) \in {"b", "B"}
        /\ Base(w) = 16 <=> at(j) = "0" /\ at(j + 1) = "x"
    BY <1>1, BaseIs
  <1>3. /\ j \in Nat \ {0} /\ e \in Nat /\ w \in Seq(DOMAIN Byte) /\ Len(w) = e - j
        /\ \A k \in 1..e - j : w[k] = at(j + k - 1)
    BY <1>1 DEF IsWord
  <1>4. (is_binary(i) <=> at(j) = "0" /\ at(j + 1) \in {"b", "B"})
        /\ (at(j) = "0" /\ at(j + 1) = "x" => is_hex(i))
    BY DEF is_binary, is_hex
  <1>5. is_decimal(i) <=> is_digit(at(skip(j, ".")), 10)
    BY DEF is_decimal
  <1>6. IsNumeral(w)
    OBVIOUS
  <1> HIDE DEF w, j, e
  <1>7. CASE Base(w) = 10
    <2>1. Digits(w) # <<>> /\ \A k \in 1..Len(w) : k # Dot(w) => is_digit(w[k], 10)
      BY <1>3, <1>6, <1>7, DecimalNumeral
    <2>2. CASE at(j) # "."
      <3>1. skip(j, ".") = j
        BY <2>2 DEF skip
      <3>2. 1 \in 1..Len(w) /\ Dot(w) # 1
        BY <1>2, <1>3, <2>2, DotIs
      <3> QED BY <1>2, <1>5, <2>1, <3>1, <3>2
    <2>3. CASE at(j) = "."
      <3>1. skip(j, ".") = j + 1
        BY <2>3 DEF skip
      <3>2. 1 \in 1..Len(w) /\ \A k \in 1..1 - 1 : w[k] # "."
        BY <1>2, <1>3
      <3>3. Dot(w) = 1
        BY <1>2, <1>3, <2>3, <3>2, FirstDot
      <3>4. Len(w) - 1 # 0
        <4>1. Len(Digits(w)) = Len(w) - 1 /\ Len(Digits(w)) # 0
          BY <1>3, <1>7, <2>1, <3>3, DecimalNumeral
        <4> QED BY <4>1
      <3>5. 2 \in 1..Len(w) /\ 2 \in 1..e - j /\ j + 2 - 1 = j + 1
        BY <1>2, <1>3, <3>4
      <3>6. is_digit(w[2], 10) /\ w[2] = at(j + 1)
        BY <1>3, <2>1, <3>3, <3>5
      <3> QED BY <1>5, <3>1, <3>6
    <2> QED BY <2>2, <2>3
  <1> QED BY <1>2, <1>4, <1>7

(* What begins with a delimiter is no word.                                *)
LEMMA DelimNoWord ==
  ASSUME text \in Texts, NEW i \in 1..Nul, is_delim(at(i))
  PROVE  Unsigned(i) = <<>>
  <1>1. IsWord(Unsigned(i), skip(i, "-"), WordEnd(i))
    BY WordIs
  <1>2. WordEnd(i) = i
    <2>1. /\ WordEnd(i) \in i..Nul /\ \A k \in i..WordEnd(i) - 1 : ~is_delim(at(k))
      BY WordEnds
    <2>2. ~(i \in i..WordEnd(i) - 1)
      BY <2>1
    <2> QED BY <2>1, <2>2
  <1>3. skip(i, "-") = i
    <2>1. ~is_delim("-")
      BY Zenon DEF is_delim, isspace, delim_list, NUL
    <2> QED BY <2>1, WordIs
  <1>4. Len(Unsigned(i)) = 0 /\ Unsigned(i) \in Seq(DOMAIN Byte)
    BY <1>1, <1>2, <1>3 DEF IsWord
  <1> QED BY <1>4, EmptySeq

LEMMA OpDelims ==
  /\ \A c \in op_list : is_delim(c)
  /\ is_delim("{")
  BY Zenon DEF op_list, is_delim, delim_list

(* A quote begins no numeral.                                              *)
LEMMA QuoteNoNumeral ==
  ASSUME text \in Texts, NEW i \in 1..Nul, at(i) \in Quote, Unsigned(i) # <<>>
  PROVE  ~IsNumeral(Unsigned(i)) /\ ~is_digit(Unsigned(i)[1], 10)
  <1>1. skip(i, "-") = i
    BY QuoteFacts, WordIs
  <1>2. /\ IsWord(Unsigned(i), i, WordEnd(i))
    BY <1>1, WordIs
  <1>3. /\ Unsigned(i)[1] = at(i)
    BY <1>2, BaseIs
  <1>4. ~is_digit(at(i), 10)
    BY QuoteFacts, MarksNoDigits
  <1>5. ~is_binary(i) /\ ~is_hex(i) /\ ~is_decimal(i)
    <2>1. skip(i, ".") = i /\ at(i) # "0"
      BY QuoteFacts DEF skip
    <2> QED BY <1>1, <1>4, <2>1 DEF is_binary, is_hex, is_decimal
  <1>6. ~IsNumeral(Unsigned(i))
    BY <1>5, NumeralKinds
  <1> QED BY <1>3, <1>4, <1>6

LEMMA NoNumberKinds ==
  ASSUME NEW i
  PROVE  /\ kind(i) = "decimal" => ~is_binary(i) /\ ~is_hex(i)
         /\ kind(i) = "word" => ~is_binary(i) /\ ~is_hex(i) /\ ~is_decimal(i)
  BY Zenon DEF kind

LEMMA ScanNumbers ==
  ASSUME text \in Texts, NEW i \in 1..Nul, at(i) # NUL,
         kind(i) \notin {"indent", "str", "shuffle"}
  PROVE  NumberAsWritten(scan(i))
  <1> DEFINE w == Unsigned(i)
             j == skip(i, "-")
             e == WordEnd(i)
             token == scan(i)
  <1>1. token.src = i
    BY Scans
  <1> SUFFICES ASSUME w # <<>>, at(j + 2) # "X"
               PROVE  ReadsNumber(token, i)
    BY <1>1 DEF NumberAsWritten, ReadsNumber
  <1>2. ~is_delim(at(i))
    BY DelimNoWord
  <1>3. IsWord(w, j, e) /\ j \in i..e /\ i <= e
    BY WordIs
  <1>4. /\ Base(w) \in {2, 10, 16} /\ j < e /\ w[1] = at(j)
        /\ Base(w) = 2 <=> at(j) = "0" /\ at(j + 1) \in {"b", "B"}
        /\ Base(w) = 16 <=> at(j) = "0" /\ at(j + 1) = "x"
    BY <1>3, BaseIs
  <1>5. (is_binary(i) <=> at(j) = "0" /\ at(j + 1) \in {"b", "B"})
        /\ (is_hex(i) <=> at(j) = "0" /\ at(j + 1) = "x")
    BY DEF is_binary, is_hex
  <1>6. CASE kind(i) = "op"
    BY <1>2, <1>6, Kinds, OpDelims
  <1>7. CASE kind(i) = "binary"
    <2>1. token = parse_radix(i, 2)
      BY <1>7 DEF scan
    <2>2. Base(w) = 2
      BY <1>4, <1>5, <1>7, Kinds
    <2> QED BY <2>1, <2>2, RadixWritten
  <1>8. CASE kind(i) = "hex"
    <2>1. token = parse_radix(i, 16)
      BY <1>8 DEF scan
    <2>2. Base(w) = 16
      BY <1>4, <1>5, <1>8, Kinds
    <2> QED BY <2>1, <2>2, RadixWritten
  <1>9. CASE kind(i) = "decimal"
    <2>1. token = parse_decimal(i)
      BY <1>9 DEF scan
    <2>2. Base(w) = 10 /\ is_decimal(i)
      BY <1>4, <1>5, <1>9, Kinds, NoNumberKinds
    <2> QED BY <2>1, <2>2, DecimalWritten
  <1>10. CASE kind(i) = "char"
    <2>1. token = parse_char(i)
      BY <1>10 DEF scan
    <2>2. at(i) = "'" /\ at(i) \in Quote
      BY <1>10, Kinds, Zenon DEF Quote
    <2>3. token.type \in {"char", "error"}
      BY <2>1, <2>2, Char
    <2> QED BY <2>2, <2>3, QuoteNoNumeral, NoNumeral
  <1>11. CASE kind(i) = "word"
    <2>1. token.type = "word" /\ token.end = i + get_word_len(i)
      BY <1>11 DEF scan, tag_token
    <2>2. token.end = e
      <3>1. /\ e \in i..Nul /\ is_delim(at(e)) /\ \A k \in i..e - 1 : ~is_delim(at(k))
        BY WordEnds
      <3>2. e \in i + 1..Nul /\ \A k \in i + 1..e - 1 : k \in i..e - 1
        <4>1. e # i /\ Nul \in Nat
          BY <1>2, <3>1, TextFacts
        <4> HIDE DEF e
        <4> QED BY <3>1, <4>1
      <3> QED BY <2>1, <3>1, <3>2, NextDelim
    <2>3. ~IsNumeral(w)
      BY <1>11, NoNumberKinds, NumeralKinds
    <2> QED BY <2>1, <2>2, <2>3, NoNumeral
  <1> QED BY <1>6, <1>7, <1>8, <1>9, <1>10, <1>11, Kinds

LEMMA QuoteNumbers ==
  ASSUME text \in Texts, NEW token, token.src \in 1..Nul, at(token.src) \in Quote,
         token.type \notin {"int", "float"}
  PROVE  NumberAsWritten(token)
  <1> DEFINE i == token.src
  <1> SUFFICES ASSUME Unsigned(i) # <<>> PROVE ReadsNumber(token, i)
    BY DEF NumberAsWritten, ReadsNumber
  <1>1. ~IsNumeral(Unsigned(i)) /\ ~is_digit(Unsigned(i)[1], 10)
    BY QuoteNoNumeral
  <1> QED BY <1>1, NoNumeral

LEMMA DelimNumbers ==
  ASSUME text \in Texts, NEW token, token.src \in 1..Nul, is_delim(at(token.src))
  PROVE  NumberAsWritten(token)
  <1>1. Unsigned(token.src) = <<>>
    BY DelimNoWord
  <1> QED BY <1>1 DEF NumberAsWritten

(* The tokens, and what the string or diagram that is read begins with.    *)
NumbersAre(state, toks, i) ==
  /\ \A k \in DOMAIN toks : NumberAsWritten(toks[k])
  /\ state = "str" => at(i) \in Quote
  /\ state \in {"in", "out"} => is_delim(at(i))

NumberInv == NumbersAre(pc, tokens, src)

LEMMA NumberStays ==
  ASSUME text' = text
  PROVE  NumberInv' <=> NumbersAre(pc', tokens', src')
  <1>1. Nul' = Nul /\ \A i : at(i)' = at(i)
    BY DEF Nul, at
  <1>2. \A i, c : skip(i, c)' = skip(i, c)
    BY <1>1 DEF skip
  <1>3. \A i : WordEnd(i)' = WordEnd(i)
    BY <1>1 DEF WordEnd, First
  <1>4. \A i : Unsigned(i)' = Unsigned(i)
    BY <1>2, <1>3 DEF Unsigned
  <1>5. \A i : Value(i)' = Value(i)
    BY <1>1, <1>4 DEF Value
  <1>6. \A token : NumberAsWritten(token)' <=> NumberAsWritten(token)
    BY <1>1, <1>2, <1>3, <1>4, <1>5 DEF NumberAsWritten
  <1> QED BY <1>1, <1>6 DEF NumberInv, NumbersAre

LEMMA TakeNumbers ==
  ASSUME TextInv, NumberInv, NEW token, Take(token), text' = text, NumberAsWritten(token)
  PROVE  NumberInv'
  <1>1. /\ Len(tokens) \in Nat /\ DOMAIN tokens = 1..Len(tokens)
        /\ DOMAIN tokens' = 1..Len(tokens) + 1
        /\ tokens'[Len(tokens) + 1] = token
        /\ \A k \in 1..Len(tokens) : tokens'[k] = tokens[k]
    BY Appended DEF TextInv, TypeOK, Take
  <1>2. ASSUME NEW k \in DOMAIN tokens' PROVE NumberAsWritten(tokens'[k])
    <2>1. CASE k = Len(tokens) + 1
      BY <1>1, <2>1
    <2>2. CASE k # Len(tokens) + 1
      <3>1. k \in DOMAIN tokens /\ tokens'[k] = tokens[k]
        BY <1>1, <2>2
      <3> QED BY <3>1 DEF NumberInv, NumbersAre
    <2> QED BY <2>1, <2>2
  <1>3. pc' = "token"
    BY DEF Take
  <1>4. NumbersAre(pc', tokens', src')
    BY <1>2, <1>3 DEF NumbersAre
  <1> QED BY <1>4, NumberStays

LEMMA NumberStep ==
  ASSUME TextInv, NumberInv, [Next]_vars
  PROVE  NumberInv'
  <1>1. text \in Texts /\ src \in 1..Nul /\ text' = text
    BY OneText DEF TextInv, TypeOK
  <1>2. CASE Overrun \/ ReadBehind \/ Eof \/ Stopped \/ UNCHANGED vars
    <2>1. tokens' = tokens /\ (pc' \in {"overrun", "done"} \/ (pc' = pc /\ src' = src))
      BY <1>2, Zenon DEF Overrun, ReadBehind, Eof, Stopped, vars
    <2> QED BY <1>1, <2>1, NumberStays DEF NumberInv, NumbersAre
  <1>3. CASE Start \/ Indent
    <2>1. PICK i : TakeIndent(i)
      BY <1>3 DEF Start, Indent
    <2> DEFINE token == tag_indent(i, Min(IndentEnds(i)))
    <2>2. NumberAsWritten(token)
      <3>1. token.type = "indent"
        BY DEF tag_indent
      <3> QED BY <3>1 DEF NumberAsWritten
    <2> HIDE DEF token
    <2>3. Take(token) \/ Overrun
      BY <2>1 DEF TakeIndent, token
    <2> QED BY <1>1, <1>2, <2>2, <2>3, TakeNumbers
  <1>4. CASE Scan
    <2> DEFINE token == scan(src)
    <2>1. at(src) # NUL /\ kind(src) \notin {"indent", "str", "shuffle"}
      BY <1>4 DEF Scan
    <2>2. NumberAsWritten(token)
      BY <1>1, <2>1, ScanNumbers
    <2> HIDE DEF token
    <2>3. Take(token) \/ Overrun
      BY <1>4 DEF Scan, token
    <2> QED BY <1>1, <1>2, <2>2, <2>3, TakeNumbers
  <1>5. CASE OpenStr
    <2>1. pc' = "str" /\ src' = src /\ tokens' = tokens /\ kind(src) = "str"
      BY <1>5 DEF OpenStr
    <2>2. at(src) \in Quote
      BY <2>1, KindsOpen, Zenon DEF Quote
    <2> QED BY <1>1, <2>1, <2>2, NumberStays DEF NumberInv, NumbersAre
  <1>6. CASE OpenShuffle
    <2>1. pc' = "in" /\ src' = src /\ tokens' = tokens /\ kind(src) = "shuffle"
      BY <1>6 DEF OpenShuffle
    <2>2. is_delim(at(src))
      BY <2>1, KindsOpen, OpDelims, Zenon
    <2> QED BY <1>1, <2>1, <2>2, NumberStays DEF NumberInv, NumbersAre
  <1>7. CASE InStr
    <2>1. pc = "str" /\ (Overrun \/ (pc' = pc /\ src' = src /\ tokens' = tokens))
      BY <1>7, Zenon DEF InStr
    <2> QED BY <1>1, <1>2, <2>1, NumberStays DEF NumberInv, NumbersAre
  <1>8. CASE In \/ Pivot \/ Out
    <2>1. pc \in {"in", "out"} /\ pc' \in {"in", "out"} /\ src' = src /\ tokens' = tokens
      BY <1>8, Zenon DEF In, Pivot, Out
    <2> QED BY <1>1, <2>1, NumberStays DEF NumberInv, NumbersAre
  <1>9. CASE CloseStr \/ EofInStr
    <2>1. PICK token \in {tag_str(src, str.end + 1, str.buf), tag_token("error", src, str.end)} :
            pc = "str" /\ Take(token)
      BY <1>9, Zenon DEF CloseStr, EofInStr
    <2>2. token.src = src /\ token.type \notin {"int", "float"}
      BY DEF tag_str, tag_token
    <2>3. NumberAsWritten(token)
      BY <1>1, <2>1, <2>2, QuoteNumbers DEF NumberInv, NumbersAre
    <2> QED BY <1>1, <2>1, <2>3, TakeNumbers
  <1>10. CASE CloseShuffle \/ EofInShuffle
    <2>1. PICK token \in {tag_token("shuffle", src, shuffle.end + 1),
                          tag_token("error", src, shuffle.end)} :
            pc \in {"in", "out"} /\ Take(token)
      BY <1>10, Zenon DEF CloseShuffle, EofInShuffle
    <2>2. token.src = src
      BY DEF tag_token
    <2>3. NumberAsWritten(token)
      BY <1>1, <2>1, <2>2, DelimNumbers DEF NumberInv, NumbersAre
    <2> QED BY <1>1, <2>1, <2>3, TakeNumbers
  <1> QED BY <1>2, <1>3, <1>4, <1>5, <1>6, <1>7, <1>8, <1>9, <1>10, Zenon DEF Next

(* Every word that is a number is one token with its value, and none that  *)
(* begins with a digit is taken apart: what the scanners of parse_binary,  *)
(* parse_hex and parse_decimal count, digit after digit and part after     *)
(* part, in a long that wraps, is the sum of what each digit is worth.     *)
THEOREM NumbersWritten == Spec => []NumbersAsWritten
  <1>1. Init => NumberInv
    <2> SUFFICES ASSUME Init PROVE NumberInv
      OBVIOUS
    <2>1. tokens = <<>> /\ pc = "start"
      BY DEF Init
    <2>2. DOMAIN tokens = {}
      BY <2>1
    <2> QED BY <2>1, <2>2 DEF NumberInv, NumbersAre
  <1>2. TextInv /\ NumberInv /\ [Next]_vars => NumberInv'
    BY NumberStep
  <1>3. NumberInv => NumbersAsWritten
    BY DEF NumberInv, NumbersAre, NumbersAsWritten
  <1> QED BY <1>1, <1>2, <1>3, TextInvariant, PTL DEF Spec

=============================================================================
