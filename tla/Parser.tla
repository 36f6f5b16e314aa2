------------------------------- MODULE Parser -------------------------------
(***************************************************************************)
(* The parser of src/src/parse.c (parse_init ... parse): a single loop     *)
(* that takes one token at a time and keeps the nesting of definitions     *)
(* ("name :") and list literals ("[ ... ]") on five parallel stacks.       *)
(*                                                                         *)
(* Weft_ParseState is the record P, with the field names of parse.h.       *)
(* Buffers are sequences, and the byte offset "base" is an element index.  *)
(* The cells allocated by new_parse_list_node are P.lists: P.lists[l] is   *)
(* the chain of cells that starts in list l, and a list that is still NULL *)
(* in the code is an empty sequence.  P.list is the list being built and   *)
(* P.node the list whose last cell the pointer P->node is at (0 for NULL), *)
(* so that a list and its node can come apart as they can in the code.     *)
(*                                                                         *)
(* The source text is chosen one token at a time, by kind:                 *)
(*   indent  a new line that carries code       open, close   "[" and "]"  *)
(*   word    an identifier                      def, end      ":" and ";"  *)
(*   lit     a number, character, string or shuffle diagram                *)
(*   error   a malformed token                                             *)
(* A token is known by its position in the text.                           *)
(***************************************************************************)
EXTENDS Integers, Sequences, SequencesExt, FiniteSets

CONSTANTS
  Kinds,      \* the kinds of token the source text may contain
  Indents,    \* the indentations a line may have
  MaxTokens   \* the length of the longest source text

AllKinds == {"indent", "word", "lit", "error", "open", "close", "def", "end"}

ASSUME KindsAssumption == Kinds \subseteq AllKinds
ASSUME IndentsAssumption == Indents \subseteq Nat
ASSUME MaxTokensAssumption == MaxTokens \in Nat

VARIABLES
  P,        \* the parse state
  pc,       \* which loop of parse() and its handlers is running
  arg,      \* the indentation that loop closes blocks for
  input,    \* the kinds of the tokens read so far
  unclosed  \* history: how many more "[" than "]" were read

vars == <<P, pc, arg, input, unclosed>>

-----------------------------------------------------------------------------
(* Tokens.                                                                 *)

Types == {"word", "op", "lit", "list", "block"}

Token == [type : Types, src : Nat, end : Nat, ptr : Nat]

(* A token covers the text from src to end; ptr is the list it owns.       *)
tag_token(type, src, end, ptr) ==
  [type |-> type, src |-> src, end |-> end, ptr |-> ptr]

(* A list literal runs from its "[" to its "]".                            *)
tag_list(open, close, list) == tag_token("list", open.src, close, list)

(* A definition ends where the last token of its body does.                *)
tag_block(S, head, body) ==
  LET end == IF S.lists[body] = <<>> THEN head.end ELSE Last(S.lists[body]).end
  IN  tag_token("block", head.src, end, body)

-----------------------------------------------------------------------------
(* The stacks of Weft_ParseState.                                          *)

push_indent(S) == [S EXCEPT !.indent_stack = Append(@, S.indent)]

pop_indent(S) == [S EXCEPT !.indent_stack = Front(@)]

push_token(S, token) == [S EXCEPT !.token_stack = Append(@, token)]

pop_token(S) == [S EXCEPT !.token_stack = Front(@)]

push_base(S) == [S EXCEPT !.base_stack = Append(@, S.base),
                          !.base = Len(S.token_stack)]

(* Slip: the restored base is one token low.                               *)
pop_base_low(S) ==
  [S EXCEPT !.base = Last(S.base_stack) - 1, !.base_stack = Front(@)]

pop_base(S) == [S EXCEPT !.base = Last(S.base_stack), !.base_stack = Front(@)]

push_list(S) == [S EXCEPT !.list_stack = Append(@, S.list),
                          !.lists = Append(@, <<>>),
                          !.list = Len(S.lists) + 1,
                          !.node_stack = Append(@, S.node),
                          !.node = 0]

(* Slip: the node of the outer list is not restored.                       *)
pop_list_stale_node(S) ==
  [S EXCEPT !.list = Last(S.list_stack), !.list_stack = Front(@),
            !.node_stack = Front(@)]

pop_list(S) == [S EXCEPT !.list = Last(S.list_stack),
                         !.list_stack = Front(@),
                         !.node = Last(S.node_stack),
                         !.node_stack = Front(@)]

output_token(S, token) ==
  IF S.lists[S.list] = <<>>
  THEN [S EXCEPT !.lists[S.list] = <<token>>, !.node = S.list]
  ELSE [S EXCEPT !.lists[S.node] = Append(@, token)]

is_token_stack_empty(S) == Len(S.token_stack) = S.base

(* Slip: the pending token is peeked at and stays on the stack.            *)
flush_token_stack_peek(S) ==
  IF is_token_stack_empty(S) THEN S ELSE output_token(S, Last(S.token_stack))

flush_token_stack(S) ==
  IF is_token_stack_empty(S) THEN S
  ELSE output_token(pop_token(S), Last(S.token_stack))

-----------------------------------------------------------------------------
(* Opening and closing a frame.                                            *)

(* Slip: a line at the same indentation continues the definition.          *)
is_dedent_strict(S, indent) ==
  /\ S.indent_stack # <<>>
  /\ S.token_stack # <<>>
  /\ Last(S.token_stack).type # "op"
  /\ indent < Last(S.indent_stack)

is_dedent(S, indent) ==
  /\ S.indent_stack # <<>>
  /\ S.token_stack # <<>>
  /\ Last(S.token_stack).type # "op"
  /\ indent <= Last(S.indent_stack)

(* Slip: the closed definition is put in its own body.                     *)
handle_dedent_inside(S) ==
  LET F == pop_base(pop_indent(flush_token_stack(S)))
      head == Last(F.token_stack)
  IN  output_token(pop_token(F), tag_block(F, head, F.list))

handle_dedent(S) ==
  LET F == pop_base(pop_indent(flush_token_stack(S)))
      head == Last(F.token_stack)
  IN  output_token(pop_list(pop_token(F)), tag_block(F, head, F.list))

(* Slip: the identifier before the "[" is not flushed.                     *)
handle_list_open_unflushed(S, token) ==
  push_list(push_base(push_token(S, token)))

handle_list_open(S, token) ==
  push_list(push_base(push_token(flush_token_stack(S), token)))

(* What handle_list_close does once its loop has closed the definitions    *)
(* inside the brackets; close is the position of the "]".                  *)
close_list(S, close) ==
  LET F == pop_base(S)
      open == Last(F.token_stack)
  IN  output_token(pop_list(pop_token(F)), tag_list(open, close, F.list))

(* Slip: no base is pushed for the body.                                   *)
handle_def_no_base(S) ==
  IF is_token_stack_empty(S) THEN S ELSE push_list(push_indent(S))

handle_def(S) ==
  IF is_token_stack_empty(S) THEN S ELSE push_list(push_base(push_indent(S)))

(* Slip: identifiers pile up above the base.                               *)
handle_word_unflushed(S, token) == push_token(S, token)

handle_word(S, token) == push_token(flush_token_stack(S), token)

(* Closing a frame pops the base, token and list stacks, and no pop checks *)
(* that its buffer holds anything.  A pop of an empty buffer reads memory  *)
(* in front of it and wraps its length: nothing is promised from there on. *)
Underflows(S) ==
  \/ S.base_stack = <<>>
  \/ S.token_stack = <<>>
  \/ S.list_stack = <<>>

(* Slip: the handlers work on a copy of the parse state.                   *)
CloseFrame_copy(before, after, next) == P' = P /\ pc' = next

CloseFrame(before, after, next) ==
  IF Underflows(before)
  THEN P' = P /\ pc' = "undefined"
  ELSE P' = after /\ pc' = next

-----------------------------------------------------------------------------
(* parse_init and the first lines of parse().                              *)

parse_init ==
  [indent |-> 0, indent_stack |-> <<>>,
   token_stack |-> <<>>, base |-> 0, base_stack |-> <<>>,
   list |-> 1, list_stack |-> <<>>, node |-> 0, node_stack |-> <<>>,
   lists |-> << <<>> >>]

Init ==
  /\ P = parse_init
  /\ pc = "read"
  /\ arg = 0
  /\ input = <<>>
  /\ unclosed = 0

(* The next token of the text.  The first one is the indentation of the    *)
(* first line, and an indentation is always followed by code on its line.  *)
Take(kind) ==
  /\ pc = "read"
  /\ Len(input) < MaxTokens
  /\ input = <<>> => kind = "indent"
  /\ input # <<>> => kind \in Kinds
  /\ input # <<>> /\ kind = "indent" =>
       Last(input) # "indent" /\ Len(input) + 1 < MaxTokens
  /\ input' = Append(input, kind)
  /\ unclosed' = CASE kind = "open"  -> unclosed + 1
                   [] kind = "close" -> unclosed - 1
                   [] OTHER          -> unclosed

here == Len(input) + 1

TakeIndent(indent) ==
  /\ Take("indent")
  /\ pc' = "indent"
  /\ arg' = indent
  /\ UNCHANGED P

TakeWord ==
  /\ Take("word")
  /\ P' = handle_word(P, tag_token("word", here, here, 0))
  /\ UNCHANGED <<pc, arg>>

(* Literals go straight to the output, whatever is pending.                *)
TakeLiteral ==
  /\ Take("lit")
  /\ P' = output_token(P, tag_token("lit", here, here, 0))
  /\ UNCHANGED <<pc, arg>>

TakeError ==
  /\ Take("error")
  /\ UNCHANGED <<P, pc, arg>>

TakeOpen ==
  /\ Take("open")
  /\ P' = handle_list_open(P, tag_token("op", here, here, 0))
  /\ UNCHANGED <<pc, arg>>

TakeClose ==
  /\ Take("close")
  /\ P' = flush_token_stack(P)
  /\ pc' = "close"
  /\ arg' = 0

TakeDef ==
  /\ Take("def")
  /\ P' = handle_def(P)
  /\ UNCHANGED <<pc, arg>>

TakeEnd ==
  /\ Take("end")
  /\ IF is_dedent(P, 0)
     THEN CloseFrame(flush_token_stack(P), handle_dedent(P), "read")
     ELSE UNCHANGED <<P, pc>>
  /\ UNCHANGED arg

(* The end of the text: never directly after the indentation of a line,    *)
(* unless the whole text is empty.                                         *)
TakeNothing ==
  /\ pc = "read"
  /\ input # <<>>
  /\ Last(input) = "indent" => Len(input) = 1
  /\ P' = flush_token_stack(P)
  /\ pc' = "end"
  /\ arg' = 0
  /\ UNCHANGED <<input, unclosed>>

-----------------------------------------------------------------------------
(* The loops of handle_indent, handle_list_close and parse: one action for *)
(* an iteration, one for each exit.                                        *)

Dedent ==
  /\ pc \in {"indent", "close", "end"}
  /\ is_dedent(P, arg)
  /\ CloseFrame(flush_token_stack(P), handle_dedent(P), pc)
  /\ UNCHANGED <<arg, input, unclosed>>

IndentDone ==
  /\ pc = "indent"
  /\ ~is_dedent(P, arg)
  /\ P' = [P EXCEPT !.indent = arg]
  /\ pc' = "read"
  /\ UNCHANGED <<arg, input, unclosed>>

(* Slip: "]" closes the innermost frame, whatever opened it.               *)
CloseDone_any_frame ==
  /\ pc = "close"
  /\ CloseFrame(P, close_list(P, Len(input)), "read")
  /\ UNCHANGED <<arg, input, unclosed>>

CloseDone ==
  /\ pc = "close"
  /\ ~is_dedent(P, arg)
  /\ CloseFrame(P, close_list(P, Len(input)), "read")
  /\ UNCHANGED <<arg, input, unclosed>>

EndDone ==
  /\ pc = "end"
  /\ ~is_dedent(P, arg)
  /\ pc' = "done"
  /\ UNCHANGED <<P, arg, input, unclosed>>

Stopped ==
  /\ pc \in {"done", "undefined"}
  /\ UNCHANGED vars

Next ==
  \/ \E indent \in Indents : TakeIndent(indent)
  \/ TakeWord
  \/ TakeLiteral
  \/ TakeError
  \/ TakeOpen
  \/ TakeClose
  \/ TakeDef
  \/ TakeEnd
  \/ TakeNothing
  \/ Dedent
  \/ IndentDone
  \/ CloseDone
  \/ EndDone
  \/ Stopped

(* The parser is one thread that keeps running until it returns.           *)
Spec == Init /\ [][Next]_vars /\ WF_vars(Next)

-----------------------------------------------------------------------------
(* Properties.                                                             *)

ParseState ==
  [indent : Nat, indent_stack : Seq(Nat),
   token_stack : Seq(Token), base : Nat, base_stack : Seq(Nat),
   list : Nat, list_stack : Seq(Nat), node : Nat, node_stack : Seq(Nat),
   lists : Seq(Seq(Token))]

(* Every field of the parse state holds a value of its type, and the pc    *)
(* names one of the loops of parse.c.                                      *)
TypeOK ==
  /\ P \in ParseState
  /\ pc \in {"read", "indent", "close", "end", "done", "undefined"}
  /\ arg \in Nat
  /\ input \in Seq(AllKinds)
  /\ unclosed \in Int

Aligned(S) ==
  /\ S.base = Len(S.base_stack)
  /\ \A i \in 1..Len(S.base_stack) : S.base_stack[i] = i - 1
  /\ Len(S.list_stack) = S.base
  /\ Len(S.node_stack) = S.base
  /\ Len(S.token_stack) \in {S.base, S.base + 1}

(* The stacks stay aligned: frame i keeps its head at index i of the token *)
(* stack, the base is the number of open frames, and at most one token is  *)
(* pending above it (push_base, pop_base, flush_token_stack).              *)
FramesAligned == pc # "undefined" => Aligned(P)

(* No pop reads below a stack unless the text has a "]" with no "[" before *)
(* it: handle_dedent, whichever handler calls it, always has a frame.      *)
NoUnderflow == pc = "undefined" => unclosed < 0

(* parse() returns the whole program exactly when the brackets match: an   *)
(* open "[" makes it return an inner list and drop what is around it, and  *)
(* after balanced text every stack is empty again.                         *)
WholeProgramReturned ==
  pc = "done" =>
    /\ unclosed >= 0
    /\ (P.list = 1) <=> (unclosed = 0)
    /\ unclosed = 0 => /\ P.indent_stack = <<>>
                       /\ P.token_stack = <<>>
                       /\ P.base_stack = <<>>

(* Every identifier, literal and "[" of the text is in exactly one place:  *)
(* pending or heading a frame on the token stack, or in one list (as       *)
(* itself or as the head of a definition or list literal).                 *)
EveryTokenOnce ==
  LET kept == {i \in 1..Len(input) : input[i] \in {"word", "lit", "open"}}
      stacked == {<<0, k>> : k \in 1..Len(P.token_stack)}
      listed == UNION {{<<l, k>> : k \in 1..Len(P.lists[l])} :
                         l \in 1..Len(P.lists)}
      src(p) == IF p[1] = 0 THEN P.token_stack[p[2]].src
                            ELSE P.lists[p[1]][p[2]].src
  IN  pc # "undefined" =>
        /\ {src(p) : p \in stacked \union listed} = kept
        /\ Cardinality(stacked \union listed) = Cardinality(kept)

(* A list that is no longer being built never changes again: output_token  *)
(* only writes to the list the parser is in, never through a stale node.   *)
ClosedListsFrozen ==
  [][\A l \in 1..Len(P.lists) :
       P'.lists[l] # P.lists[l] => l = P.list \/ l \in ToSet(P.list_stack)]_vars

Inverted(l, j, k) == j < k /\ P.lists[l][j].src > P.lists[l][k].src

(* Order is lost only between a pending identifier and the literals right  *)
(* after it (TakeLiteral does not flush): whatever else is in a list is in *)
(* the order of the text.                                                  *)
OnlyLiteralsOvertake ==
  \A l \in 1..Len(P.lists) : \A j, k \in 1..Len(P.lists[l]) :
    Inverted(l, j, k) =>
      \A i \in P.lists[l][k].src + 1 .. P.lists[l][j].src :
        input[i] \in {"lit", "error", "indent", "end"}

(* The tokens of every list are in the order of the text.                  *)
SourceOrder ==
  \A l \in 1..Len(P.lists) : \A j, k \in 1..Len(P.lists[l]) :
    ~Inverted(l, j, k)

(* What tag_block and tag_list close is what was opened, in a text of one  *)
(* line: a definition is headed by an identifier and a list literal by a   *)
(* "[".  Indentation and ";" cannot see a "[" behind a pending identifier  *)
(* (is_dedent), and may close it as a definition.                          *)
HeadsMatch ==
  (\A i \in DOMAIN input : i > 1 => input[i] \notin {"indent", "end"}) =>
    \A l \in 1..Len(P.lists) : \A k \in 1..Len(P.lists[l]) :
      LET token == P.lists[l][k]
      IN  /\ token.type = "block" => input[token.src] = "word"
          /\ token.type = "list" => input[token.src] = "open"

(* The off-side rule, in a text without brackets: once the indentation of  *)
(* a line has been handled, every definition still open began on a line    *)
(* indented less than it.                                                  *)
OffSide ==
  /\ pc = "read" /\ input # <<>> /\ Last(input) = "indent"
  /\ \A i \in DOMAIN input : input[i] \notin {"open", "close"}
  => \A i \in 1..Len(P.indent_stack) : P.indent_stack[i] < P.indent

(* Every loop of the parser ends: a text of any shape is parsed to its     *)
(* end, or to the unmatched "]" that ruins the stacks.                     *)
Terminates == <>(pc \in {"done", "undefined"})

=============================================================================
