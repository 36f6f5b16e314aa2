---------------------------- MODULE ProgramProofs ---------------------------
(***************************************************************************)
(* What is proved of Program: what CompileProofs shows of the compiler for *)
(* any input of the right form holds of the interpreter, because what      *)
(* ParserProofs shows of the parser is that form.                          *)
(***************************************************************************)
EXTENDS Program, SequenceTheorems, TLAPS

Parsed == INSTANCE ParserProofs WITH pc <- ppc

Compiled ==
  INSTANCE CompileProofs WITH
    source <- P.lists,
    names <- [i \in DOMAIN text |-> text[i].name],
    pc <- cpc

-----------------------------------------------------------------------------
(* The components are the same in Program and in the modules of proofs.    *)

LEMMA SameHelpers ==
  /\ \A S : Parsing!flush_token_stack(S) = Parsed!flush_token_stack(S)
  /\ \A S, token : Parsing!push_token(S, token) = Parsed!push_token(S, token)
  /\ \A S, token : Parsing!output_token(S, token) = Parsed!output_token(S, token)
  /\ \A S : Parsing!push_list(Parsing!push_base(S)) = Parsed!push_list(Parsed!push_base(S))
  /\ \A S : Parsing!pop_token(S) = Parsed!pop_token(S)
  /\ \A S : Parsing!pop_base(S) = Parsed!pop_base(S)
  /\ \A S : Parsing!pop_indent(S) = Parsed!pop_indent(S)
  /\ \A S : Parsing!pop_list(S) = Parsed!pop_list(S)
  /\ \A S : Parsing!is_token_stack_empty(S) = Parsed!is_token_stack_empty(S)
  <1>1. \A S : Parsing!is_token_stack_empty(S) = Parsed!is_token_stack_empty(S)
    BY DEF Parsing!is_token_stack_empty, Parsed!is_token_stack_empty
  <1>2. \A S, token : Parsing!output_token(S, token) = Parsed!output_token(S, token)
    BY DEF Parsing!output_token, Parsed!output_token
  <1>3. \A S : Parsing!pop_token(S) = Parsed!pop_token(S)
    BY DEF Parsing!pop_token, Parsed!pop_token, Parsing!Front, Parsed!Front
  <1>4. \A S : Parsing!flush_token_stack(S) = Parsed!flush_token_stack(S)
    BY <1>1, <1>2, <1>3
    DEF Parsing!flush_token_stack, Parsed!flush_token_stack, Parsing!Last, Parsed!Last
  <1>5. \A S, token : Parsing!push_token(S, token) = Parsed!push_token(S, token)
    BY DEF Parsing!push_token, Parsed!push_token
  <1>6. \A S : Parsing!push_list(Parsing!push_base(S)) = Parsed!push_list(Parsed!push_base(S))
    BY DEF Parsing!push_list, Parsed!push_list, Parsing!push_base, Parsed!push_base
  <1>7. \A S : Parsing!pop_base(S) = Parsed!pop_base(S)
    BY DEF Parsing!pop_base, Parsed!pop_base, Parsing!Front, Parsed!Front,
           Parsing!Last, Parsed!Last
  <1>8. \A S : Parsing!pop_indent(S) = Parsed!pop_indent(S)
    BY DEF Parsing!pop_indent, Parsed!pop_indent, Parsing!Front, Parsed!Front
  <1>9. \A S : Parsing!pop_list(S) = Parsed!pop_list(S)
    BY DEF Parsing!pop_list, Parsed!pop_list, Parsing!Front, Parsed!Front,
           Parsing!Last, Parsed!Last
  <1> QED BY <1>1, <1>2, <1>3, <1>4, <1>5, <1>6, <1>7, <1>8, <1>9

LEMMA SameHandlers ==
  /\ \A S, indent : Parsing!is_dedent(S, indent) = Parsed!is_dedent(S, indent)
  /\ \A S : Parsing!handle_dedent(S) = Parsed!handle_dedent(S)
  /\ \A S, close : Parsing!close_list(S, close) = Parsed!close_list(S, close)
  /\ \A S : Parsing!handle_def(S) = Parsed!handle_def(S)
  /\ \A S, token : Parsing!handle_word(S, token) = Parsed!handle_word(S, token)
  /\ \A S, token : Parsing!handle_list_open(S, token) = Parsed!handle_list_open(S, token)
  /\ \A b, a, n : Parsing!CloseFrame(b, a, n) = Parsed!CloseFrame(b, a, n)
  /\ \A kind : Parsing!Take(kind) = Parsed!Take(kind)
  /\ \A type, src, end, ptr :
       Parsing!tag_token(type, src, end, ptr) = Parsed!tag_token(type, src, end, ptr)
  /\ Parsing!here = Parsed!here
  <1>1. \A S, indent : Parsing!is_dedent(S, indent) = Parsed!is_dedent(S, indent)
    BY DEF Parsing!is_dedent, Parsed!is_dedent, Parsing!Last, Parsed!Last
  <1>2. \A S : Parsing!handle_dedent(S) = Parsed!handle_dedent(S)
    BY SameHelpers
    DEF Parsing!handle_dedent, Parsed!handle_dedent, Parsing!tag_block, Parsed!tag_block,
        Parsing!tag_token, Parsed!tag_token, Parsing!Last, Parsed!Last
  <1>3. \A S, close : Parsing!close_list(S, close) = Parsed!close_list(S, close)
    BY SameHelpers
    DEF Parsing!close_list, Parsed!close_list, Parsing!tag_list, Parsed!tag_list,
        Parsing!tag_token, Parsed!tag_token, Parsing!Last, Parsed!Last
  <1>4. \A S : Parsing!push_indent(S) = Parsed!push_indent(S)
    BY DEF Parsing!push_indent, Parsed!push_indent
  <1>5. \A S : Parsing!handle_def(S) = Parsed!handle_def(S)
    BY <1>4, SameHelpers DEF Parsing!handle_def, Parsed!handle_def
  <1>6. /\ \A S, token : Parsing!handle_word(S, token) = Parsed!handle_word(S, token)
        /\ \A S, token : Parsing!handle_list_open(S, token) = Parsed!handle_list_open(S, token)
    BY SameHelpers
    DEF Parsing!handle_word, Parsed!handle_word, Parsing!handle_list_open,
        Parsed!handle_list_open
  <1>7. \A b, a, n : Parsing!CloseFrame(b, a, n) = Parsed!CloseFrame(b, a, n)
    BY DEF Parsing!CloseFrame, Parsed!CloseFrame, Parsing!Underflows, Parsed!Underflows
  <1>8. \A kind : Parsing!Take(kind) = Parsed!Take(kind)
    BY DEF Parsing!Take, Parsed!Take, Parsing!Last, Parsed!Last
  <1>9. /\ \A type, src, end, ptr :
             Parsing!tag_token(type, src, end, ptr) = Parsed!tag_token(type, src, end, ptr)
        /\ Parsing!here = Parsed!here
    BY DEF Parsing!tag_token, Parsed!tag_token, Parsing!here, Parsed!here
  <1> QED BY <1>1, <1>2, <1>3, <1>5, <1>6, <1>7, <1>8, <1>9

LEMMA SameParser == Parsing!Next => Parsed!Next
  <1> SUFFICES ASSUME Parsing!Next PROVE Parsed!Next
    OBVIOUS
  <1>1. ASSUME NEW indent \in Indents, Parsing!TakeIndent(indent)
        PROVE  Parsed!TakeIndent(indent)
    BY <1>1, SameHandlers DEF Parsing!TakeIndent, Parsed!TakeIndent
  <1>2. Parsing!TakeWord => Parsed!TakeWord
    BY SameHandlers DEF Parsing!TakeWord, Parsed!TakeWord
  <1>3. Parsing!TakeLiteral => Parsed!TakeLiteral
    BY SameHelpers, SameHandlers DEF Parsing!TakeLiteral, Parsed!TakeLiteral
  <1>4. Parsing!TakeError => Parsed!TakeError
    BY SameHandlers DEF Parsing!TakeError, Parsed!TakeError
  <1>5. Parsing!TakeOpen => Parsed!TakeOpen
    BY SameHandlers DEF Parsing!TakeOpen, Parsed!TakeOpen
  <1>6. Parsing!TakeClose => Parsed!TakeClose
    BY SameHelpers, SameHandlers DEF Parsing!TakeClose, Parsed!TakeClose
  <1>7. Parsing!TakeDef => Parsed!TakeDef
    BY SameHandlers DEF Parsing!TakeDef, Parsed!TakeDef
  <1>8. Parsing!TakeEnd => Parsed!TakeEnd
    BY SameHelpers, SameHandlers DEF Parsing!TakeEnd, Parsed!TakeEnd
  <1>9. Parsing!TakeNothing => Parsed!TakeNothing
    BY SameHelpers
    DEF Parsing!TakeNothing, Parsed!TakeNothing, Parsing!Last, Parsed!Last
  <1>10. Parsing!Dedent => Parsed!Dedent
    BY SameHelpers, SameHandlers DEF Parsing!Dedent, Parsed!Dedent
  <1>11. Parsing!IndentDone => Parsed!IndentDone
    BY SameHandlers DEF Parsing!IndentDone, Parsed!IndentDone
  <1>12. Parsing!CloseDone => Parsed!CloseDone
    BY SameHandlers DEF Parsing!CloseDone, Parsed!CloseDone
  <1>13. Parsing!EndDone => Parsed!EndDone
    BY SameHandlers DEF Parsing!EndDone, Parsed!EndDone
  <1>14. Parsing!Stopped => Parsed!Stopped
    BY DEF Parsing!Stopped, Parsed!Stopped, Parsing!vars, Parsed!vars
  <1> QED BY <1>1, <1>2, <1>3, <1>4, <1>5, <1>6, <1>7, <1>8, <1>9, <1>10,
             <1>11, <1>12, <1>13, <1>14 DEF Parsing!Next, Parsed!Next

(* Starting the compiler and its steps.                                    *)
LEMMA SameCompiler ==
  /\ \A list : Compiling!Start(list) => Compiled!Start(list)
  /\ CompileStep => Compiled!Next
  <1> DEFINE same ==
        /\ \A C, datum : Compiling!output_data(C, datum) = Compiled!output_data(C, datum)
        /\ \A C, src : Compiling!push_list(C, src) = Compiled!push_list(C, src)
        /\ \A C, ptr : Compiling!pop_list(C, ptr) = Compiled!pop_list(C, ptr)
        /\ \A type, ptr, src : Compiling!data(type, ptr, src) = Compiled!data(type, ptr, src)
        /\ \A map, src, tokens :
             Compiling!compile_init(map, src, tokens) = Compiled!compile_init(map, src, tokens)
        /\ \A F, around, fn :
             Compiling!map_insert(F, around, fn) = Compiled!map_insert(F, around, fn)
        /\ Compiling!C = Compiled!C
        /\ Compiling!Popped = Compiled!Popped
        /\ \A types : Compiling!Take(types) = Compiled!Take(types)
        /\ \A X : Compiling!Front(X) = Compiled!Front(X)
        /\ \A X : Compiling!Last(X) = Compiled!Last(X)
  <1>1. same
    BY DEF Compiling!output_data, Compiled!output_data, Compiling!push_list,
           Compiled!push_list, Compiling!pop_list, Compiled!pop_list, Compiling!data,
           Compiled!data, Compiling!compile_init, Compiled!compile_init,
           Compiling!map_insert, Compiled!map_insert, Compiling!C, Compiled!C,
           Compiling!Popped, Compiled!Popped, Compiling!Take, Compiled!Take,
           Compiling!Front, Compiled!Front, Compiling!Last, Compiled!Last
  <1>2. \A list : Compiling!Start(list) => Compiled!Start(list)
    BY <1>1 DEF Compiling!Start, Compiled!Start, Compiling!Undefined, Compiled!Undefined
  <1>3. Compiling!Word => Compiled!Word
    BY <1>1 DEF Compiling!Word, Compiled!Word, Compiling!Undefined, Compiled!Undefined
  <1>4. Compiling!Literal => Compiled!Literal
    BY <1>1 DEF Compiling!Literal, Compiled!Literal
  <1>5. Compiling!ListLiteral => Compiled!ListLiteral
    BY <1>1 DEF Compiling!ListLiteral, Compiled!ListLiteral
  <1>6. Compiling!Block => Compiled!Block
    BY <1>1 DEF Compiling!Block, Compiled!Block
  <1>7. Compiling!CloseList => Compiled!CloseList
    BY <1>1 DEF Compiling!CloseList, Compiled!CloseList
  <1>8. Compiling!ReturnBlock => Compiled!ReturnBlock
    BY <1>1 DEF Compiling!ReturnBlock, Compiled!ReturnBlock
  <1>9. Compiling!Return => Compiled!Return
    BY <1>1 DEF Compiling!Return, Compiled!Return
  <1> QED BY <1>2, <1>3, <1>4, <1>5, <1>6, <1>7, <1>8, <1>9
          DEF CompileStep, Compiled!Next

-----------------------------------------------------------------------------
(* The inductive invariant.                                                *)

(* Each component keeps its own, the parser has read a part of the text,   *)
(* and the compiler has done nothing before the parser is done.            *)
IInv ==
  /\ text \in Texts
  /\ Len(input) <= Len(text)
  /\ Parsed!IInv
  /\ Parsed!Holds(P, Len(input))
  /\ Compiled!IInv
  /\ cpc = "idle" => frames = <<>> /\ made = <<>>
  /\ cpc # "idle" => ppc = "done"

LEMMA ParserAssumptions ==
  /\ Kinds \subseteq Parsed!AllKinds
  /\ Indents \subseteq Nat
  /\ MaxTokens \in Nat
  BY KindsAssumption, IndentsAssumption, MaxTokensAssumption
  DEF Parsing!AllKinds, Parsed!AllKinds

(* What the parser holds is what the compiler may be given.                *)
LEMMA Handed ==
  /\ text \in Texts /\ Len(input) <= Len(text)
  /\ Parsed!IInv /\ Parsed!Holds(P, Len(input))
  => Compiled!Parsed
  <1> SUFFICES ASSUME text \in Texts, Len(input) <= Len(text),
                      Parsed!IInv, Parsed!Holds(P, Len(input))
               PROVE  Compiled!Parsed
    OBVIOUS
  <1> DEFINE names == [i \in DOMAIN text |-> text[i].name]
  <1>1. text \in Seq([kind : Kinds, name : Names, column : Nat])
    BY TextsAssumption
  <1>2. /\ DOMAIN text = 1..Len(text) /\ Len(text) \in Nat
        /\ \A i \in 1..Len(text) : text[i].name \in Names
    <2>1. DOMAIN text = 1..Len(text) /\ Len(text) \in Nat
      BY <1>1, LenProperties
    <2>2. \A i \in 1..Len(text) :
            text[i] \in [kind : Kinds, name : Names, column : Nat]
      BY <1>1, ElementOfSeq
    <2> QED BY <2>1, <2>2
  <1>3. names \in Seq(Names) /\ DOMAIN names = 1..Len(text)
    BY <1>2, IsASeq
  <1>4. P \in Parsed!ParseState /\ input \in Seq(Parsed!AllKinds)
    BY DEF Parsed!IInv, Parsed!TypeOK
  <1>5. P.lists \in Seq(Seq(Parsed!Token))
    BY <1>4 DEF Parsed!ParseState
  <1>6. Parsed!Token = Compiled!Token
    BY DEF Parsed!Token, Compiled!Token, Parsed!Types
  <1>7. P.lists \in Seq(Seq(Compiled!Token))
    BY <1>5, <1>6
  <1>8. /\ DOMAIN P.lists = 1..Len(P.lists)
        /\ \A l \in 1..Len(P.lists) : DOMAIN P.lists[l] = 1..Len(P.lists[l])
    BY <1>7, LenProperties, ElementOfSeq
  <1>9. Len(input) \in Nat
    BY <1>4, LenProperties
  <1>10. ASSUME NEW l \in DOMAIN P.lists, NEW k \in DOMAIN P.lists[l]
         PROVE  Compiled!Known(P.lists[l][k])
    <2>1. Parsed!Fits(P.lists[l][k], Len(input), Len(P.lists))
      BY <1>8 DEF Parsed!Holds
    <2>2. P.lists[l][k].src \in 1..Len(text)
      BY <1>2, <1>9, <2>1 DEF Parsed!Fits
    <2> QED BY <1>3, <1>8, <2>1, <2>2 DEF Parsed!Fits, Compiled!Known
  <1> QED BY <1>3, <1>7, <1>10 DEF Compiled!Parsed

LEMMA HandedNext ==
  /\ text' \in Texts /\ Len(input') <= Len(text')
  /\ Parsed!IInv' /\ Parsed!Holds(P', Len(input'))
  => Compiled!Parsed'
  <1>1. (/\ text \in Texts /\ Len(input) <= Len(text)
         /\ Parsed!IInv /\ Parsed!Holds(P, Len(input)))'
        => Compiled!Parsed'
    BY Handed, PTL
  <1> QED BY <1>1

LEMMA InitIInv == Init => IInv
  <1> SUFFICES ASSUME Init PROVE IInv
    OBVIOUS
  <1>1. /\ text \in Texts /\ Parsing!Init
        /\ frames = <<>> /\ made = <<>> /\ cpc = "idle"
        /\ input = <<>>
    BY DEF Init, Parsing!Init, Compiling!Init
  <1>2. Parsed!Init
    BY <1>1 DEF Parsing!Init, Parsed!Init, Parsing!parse_init, Parsed!parse_init
  <1>3. Parsed!IInv /\ Parsed!Holds(P, Len(input))
    BY <1>2, ParserAssumptions, Parsed!InitIInv, Parsed!InitHolds
    DEF Parsed!InitIInv, Parsed!InitHolds
  <1>4. Len(input) <= Len(text)
    <2>1. text \in Seq([kind : Kinds, name : Names, column : Nat])
      BY <1>1, TextsAssumption
    <2> QED BY <1>1, <2>1, LenProperties
  <1>5. Compiled!Init
    BY <1>1, <1>3, <1>4, Handed DEF Compiled!Init
  <1>6. Compiled!IInv
    BY <1>5, Compiled!InitIInv DEF Compiled!InitIInv
  <1> QED BY <1>1, <1>3, <1>4, <1>6 DEF IInv

LEMMA NextIInv == IInv /\ [Next]_vars => IInv'
  <1> SUFFICES ASSUME IInv, [Next]_vars PROVE IInv'
    OBVIOUS
  <1>1. /\ text \in Texts /\ Len(input) <= Len(text)
        /\ Parsed!IInv /\ Parsed!Holds(P, Len(input)) /\ Compiled!IInv
        /\ cpc = "idle" => frames = <<>> /\ made = <<>>
        /\ cpc # "idle" => ppc = "done"
    BY DEF IInv
  <1>2. [Parsed!Next]_(Parsed!vars) =>
          Parsed!IInv' /\ Parsed!Holds(P', Len(input'))
    BY <1>1, ParserAssumptions, Parsed!NextIInv, Parsed!NextHolds
    DEF Parsed!NextIInv, Parsed!NextHolds
  <1>3. [Compiled!Next]_(Compiled!vars) => Compiled!IInv'
    BY <1>1, Compiled!NextIInv DEF Compiled!NextIInv
  (* When the parser stands still, so does what it has handed on. *)
  <1>4. ASSUME UNCHANGED <<text, parser>>
        PROVE  /\ text' \in Texts /\ Len(input') <= Len(text')
               /\ Parsed!IInv' /\ Parsed!Holds(P', Len(input'))
    BY <1>1, <1>2, <1>4 DEF parser, Parsed!vars
  <1>5. CASE Parse
    <2>1. /\ text' = text /\ UNCHANGED <<frames, made, cpc>>
          /\ cpc = "idle" /\ Parsing!Next /\ Len(input') <= Len(text)
      BY <1>1, <1>5 DEF Parse, compiler, IsPrefix, kinds
    <2>2. Parsed!IInv' /\ Parsed!Holds(P', Len(input'))
      BY <1>2, <2>1, SameParser
    <2>3. Compiled!Parsed'
      BY <1>1, <2>1, <2>2, HandedNext
    <2>4. frames' = <<>> /\ made' = <<>> /\ cpc' = "idle"
      BY <1>1, <2>1
    <2>5. Compiled!IInv'
      BY <2>3, <2>4
      DEF Compiled!IInv, Compiled!TypeOK, Compiled!FramesOK, Compiled!MadeOK
    <2> QED BY <1>1, <2>1, <2>2, <2>4, <2>5 DEF IInv
  <1>6. CASE StartCompile
    <2>1. Compiling!Start(P.list) /\ UNCHANGED <<text, parser>> /\ ppc = "done"
      BY <1>6 DEF StartCompile
    <2>2. P.list \in 1..Len(P.lists) /\ P.lists \in Seq(Seq(Parsed!Token))
      BY <1>1, <2>1
      DEF Parsed!IInv, Parsed!ListsOK, Parsed!TypeOK, Parsed!ParseState
    <2>3. P.list \in DOMAIN P.lists
      BY <2>2, LenProperties
    <2>4. Compiled!Next
      BY <2>1, <2>3, SameCompiler DEF Compiled!Next
    <2>5. cpc' = "run" /\ ppc' = "done"
      BY <2>1 DEF Compiling!Start, parser
    <2> QED BY <1>3, <1>4, <2>1, <2>4, <2>5 DEF IInv
  <1>7. CASE CompileStep
    <2>1. UNCHANGED <<text, parser>> /\ Compiled!Next
      BY <1>7, SameCompiler DEF CompileStep
    <2>2. cpc = "run" /\ cpc' # "idle"
      BY <1>7
      DEF CompileStep, Compiling!Take, Compiling!Word, Compiling!Literal,
          Compiling!ListLiteral, Compiling!Block, Compiling!CloseList,
          Compiling!ReturnBlock, Compiling!Return
    <2>3. ppc' = "done"
      BY <1>1, <2>1, <2>2 DEF parser
    <2> QED BY <1>3, <1>4, <2>1, <2>2, <2>3 DEF IInv
  <1>8. CASE StartEval \/ EvalStep \/ Stopped \/ UNCHANGED vars
    <2>1. UNCHANGED <<text, parser, compiler>>
      BY <1>8 DEF StartEval, EvalStep, Stopped, vars
    <2>2. Compiled!IInv'
      BY <1>3, <2>1 DEF parser, compiler, Compiled!vars
    <2> QED BY <1>1, <1>4, <2>1, <2>2 DEF IInv, parser, compiler
  <1> QED BY <1>5, <1>6, <1>7, <1>8 DEF Next

-----------------------------------------------------------------------------

(* In a program of any length no function or list reaches itself: what the *)
(* parser returns for a text is such that what the compiler makes of it    *)
(* only refers to what was made before.                                    *)
THEOREM ProgramCallsGoBack == Spec => []NoRecursion
  <1>1. Compiled!NoRecursion => NoRecursion
    BY DEF NoRecursion, Compiling!NoRecursion, Compiled!NoRecursion
  <1>2. IInv => NoRecursion
    BY <1>1, Compiled!InvNoRecursion DEF IInv, Compiled!InvNoRecursion
  <1> QED BY <1>2, InitIInv, NextIInv, PTL DEF Spec

(* For every text, what the parser returns is what the compiler expects:   *)
(* tokens that are in the text, each definition and list literal with a    *)
(* list that there is, however it was nested and closed.                   *)
THEOREM ParserHandsOn == Spec => []Compiling!Parsed
  <1>1. Compiled!Parsed => Compiling!Parsed
    BY DEF Compiled!Parsed, Compiling!Parsed, Compiled!Token, Compiling!Token,
           Compiled!Known, Compiling!Known
  <1>2. IInv => Compiling!Parsed
    BY <1>1 DEF IInv, Compiled!IInv, Compiled!TypeOK
  <1> QED BY <1>2, InitIInv, NextIInv, PTL DEF Spec

=============================================================================
