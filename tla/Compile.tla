------------------------------ MODULE Compile -------------------------------
(***************************************************************************)
(* The compiler of src/src/compile.c: it turns the lists of tokens that    *)
(* the parser returns into lists of data, and replaces every word by the   *)
(* function its name means at that point.                                  *)
(*                                                                         *)
(* compile() calls itself through handle_block, once for each definition,  *)
(* with a Weft_CompileState of its own: frames is the stack of those       *)
(* calls.  In a state, list is the list being built (node is always at its *)
(* end) and map the dictionary that the tree C->map stands for; that the   *)
(* trees of map.c are such dictionaries is the subject of WordMap.         *)
(*                                                                         *)
(* A token or datum is known by its place in the text, src.  Functions and *)
(* lists of data are numbered in the order in which they are made.         *)
(***************************************************************************)
EXTENDS Naturals, Sequences, SequencesExt

CONSTANTS
  Names  \* what may be written at a place of the text

Undefined == 0

VARIABLES
  source,  \* the lists of tokens, by the number that a token's ptr gives
  names,   \* what is written at each place of the text
  frames,  \* the calls of compile() that have not returned
  made,    \* the functions and lists of data that have been made
  pc       \* "idle", "run", or "done" when the outermost call has returned

vars == <<source, names, frames, made, pc>>

Token == [type : {"word", "op", "lit", "list", "block"},
          src : Nat, end : Nat, ptr : Nat]

(* What the compiler is given: tokens are in the text, and those that have *)
(* a list of their own say which.                                          *)
Known(token) ==
  /\ token.src \in DOMAIN names
  /\ token.type \in {"list", "block"} => token.ptr \in DOMAIN source

Parsed ==
  /\ names \in Seq(Names)
  /\ source \in Seq(Seq(Token))
  /\ \A l \in DOMAIN source : \A k \in DOMAIN source[l] : Known(source[l][k])

-----------------------------------------------------------------------------
(* Weft_CompileState, with the definition that it compiles the body of and *)
(* the tokens that are left of its list.                                   *)

Datum == [type : {"lit", "fn", "list"}, ptr : Nat, src : Nat]

data(type, ptr, src) == [type |-> type, ptr |-> ptr, src |-> src]

compile_init(map, src, tokens) ==
  [map |-> map, list |-> <<>>, list_stack |-> <<>>, src |-> src, rest |-> tokens]

C == Last(frames)

(* Slip: data is put in front of the list.                                 *)
output_data_front(state, datum) == [state EXCEPT !.list = <<datum>> \o @]

output_data(state, datum) == [state EXCEPT !.list = Append(@, datum)]

push_list(state, src) ==
  [state EXCEPT !.list_stack = Append(@, [list |-> state.list, src |-> src]),
                !.list = <<>>]

pop_list(state, ptr) ==
  output_data([state EXCEPT !.list = Last(state.list_stack).list,
                            !.list_stack = Front(@)],
              data("list", ptr, Last(state.list_stack).src))

-----------------------------------------------------------------------------

Init ==
  /\ Parsed
  /\ frames = <<>>
  /\ made = <<>>
  /\ pc = "idle"

(* main calls compile() with the list that the parser returned.            *)
Start(list) ==
  /\ pc = "idle"
  /\ pc' = "run"
  /\ frames' = << compile_init([name \in Names |-> Undefined], 0, source[list]) >>
  /\ UNCHANGED <<source, names, made>>

(* The first loop of compile(): one action for each case of its switch,    *)
(* which goes on in the state Popped (parse_list_pop).                     *)
Take(types) ==
  /\ pc = "run"
  /\ C.rest # <<>>
  /\ Head(C.rest).type \in types
  /\ UNCHANGED <<source, names, made, pc>>

Popped == [C EXCEPT !.rest = Tail(@)]

(* handle_lookup: an undefined word is reported and left out.              *)
Word ==
  /\ Take({"word"})
  /\ LET fn == C.map[names[Head(C.rest).src]]
     IN  frames' = Append(Front(frames),
           IF fn = Undefined THEN Popped
           ELSE output_data(Popped, data("fn", fn, Head(C.rest).src)))

Literal ==
  /\ Take({"lit", "op"})
  /\ frames' = Append(Front(frames),
                      output_data(Popped, data("lit", 0, Head(C.rest).src)))

(* The list that the token has is not looked at.                           *)
ListLiteral ==
  /\ Take({"list"})
  /\ frames' = Append(Front(frames), push_list(Popped, Head(C.rest).src))

(* Slip: the word is defined before its body is compiled.                  *)
Block_early ==
  /\ Take({"block"})
  /\ frames' = Append(Append(Front(frames), Popped),
       compile_init([C.map EXCEPT ![names[Head(C.rest).src]] = Len(made) + 1],
                    Head(C.rest).src, source[Head(C.rest).ptr]))

(* handle_block, up to its call of compile() for the body.                 *)
Block ==
  /\ Take({"block"})
  /\ frames' = Append(Append(Front(frames), Popped),
       compile_init(C.map, Head(C.rest).src, source[Head(C.rest).ptr]))

-----------------------------------------------------------------------------
(* The end of the token list: the second loop of compile(), and its return *)
(* to handle_block or to main.                                             *)

CloseList ==
  /\ pc = "run"
  /\ C.rest = <<>>
  /\ C.list_stack # <<>>
  /\ made' = Append(made, [src |-> Last(C.list_stack).src, list |-> C.list])
  /\ frames' = Append(Front(frames), pop_list(C, Len(made) + 1))
  /\ UNCHANGED <<source, names, pc>>

(* Slip: the words of the body stay defined behind it.                     *)
map_insert_inner(frame, around, fn) ==
  [around EXCEPT !.map = [frame.map EXCEPT ![names[frame.src]] = fn]]

map_insert(frame, around, fn) ==
  [around EXCEPT !.map = [@ EXCEPT ![names[frame.src]] = fn]]

ReturnBlock ==
  /\ pc = "run"
  /\ C.rest = <<>>
  /\ C.list_stack = <<>>
  /\ Len(frames) > 1
  /\ made' = Append(made, [src |-> C.src, list |-> C.list])
  /\ frames' = Append(Front(Front(frames)),
                      map_insert(C, Last(Front(frames)), Len(made) + 1))
  /\ UNCHANGED <<source, names, pc>>

Return ==
  /\ pc = "run"
  /\ C.rest = <<>>
  /\ C.list_stack = <<>>
  /\ Len(frames) = 1
  /\ pc' = "done"
  /\ UNCHANGED <<source, names, frames, made>>

Next ==
  \/ \E list \in DOMAIN source : Start(list)
  \/ Word
  \/ Literal
  \/ ListLiteral
  \/ Block
  \/ CloseList
  \/ ReturnBlock
  \/ Return

Spec == Init /\ [][Next]_vars

-----------------------------------------------------------------------------
(* Properties.                                                             *)

Frame ==
  [map : [Names -> Nat], list : Seq(Datum),
   list_stack : Seq([list : Seq(Datum), src : Nat]),
   src : Nat, rest : Seq(Token)]

(* The compiler's state holds values of its types.                         *)
TypeOK ==
  /\ Parsed
  /\ frames \in Seq(Frame)
  /\ made \in Seq([src : Nat, list : Seq(Datum)])
  /\ pc \in {"idle", "run", "done"}
  /\ pc # "idle" => frames # <<>>

(* Every list of data there is, finished or being built.                   *)
AllLists ==
  {made[m].list : m \in DOMAIN made} \union
  UNION {{frames[i].list} \union
         {frames[i].list_stack[j].list : j \in DOMAIN frames[i].list_stack} :
           i \in DOMAIN frames}

(* A function or list only refers to what was made before it: no word can  *)
(* reach itself, through any lists and calls, or be called before its body *)
(* is complete, so every program ends.                                     *)
NoRecursion ==
  \A m \in DOMAIN made : \A i \in DOMAIN made[m].list :
    made[m].list[i].ptr < m

(* The places of the literals in a list of data or tokens.                 *)
Literals(list) == {list[i].src : i \in {i \in DOMAIN list : list[i].type = "lit"}}

(* A finished list literal holds what is between its brackets in the text: *)
(* the literals in it are those of the token's own list.                   *)
LiteralContents ==
  \A list \in AllLists : \A i \in DOMAIN list :
    list[i].type = "list" =>
      \E l \in DOMAIN source : \E k \in DOMAIN source[l] :
        /\ source[l][k].src = list[i].src
        /\ Literals(made[list[i].ptr].list) = Literals(source[source[l][k].ptr])

=============================================================================
