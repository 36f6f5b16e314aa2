------------------------------ MODULE Program -------------------------------
(***************************************************************************)
(* The interpreter, as src/src/main.c composes it: the parser reads the    *)
(* text of a program, the compiler takes the list that the parser returns, *)
(* and the evaluator the list that the compiler returns, each to its end   *)
(* before the next begins.                                                 *)
(*                                                                         *)
(* A text is a sequence of tokens with their spelling: what Lexer makes of *)
(* the characters.  It is chosen at the start and does not change.         *)
(***************************************************************************)
EXTENDS Integers, Sequences, SequencesExt, FiniteSets

CONSTANTS
  Texts,     \* texts: sequences of records [kind, name, column]
  Names,     \* the spellings of their tokens
  Kinds,     \* the kinds, indentations and length that they may have:
  Indents,   \* see Parser
  MaxTokens

VARIABLES
  text,                         \* the text of the program
  P, ppc, arg, input, unclosed, \* the parser
  frames, made, cpc,            \* the compiler
  ctrl, nest, stack, epc        \* the evaluator

parser == <<P, ppc, arg, input, unclosed>>
compiler == <<frames, made, cpc>>
evaluator == <<ctrl, nest, stack, epc>>
vars == <<text, parser, compiler, evaluator>>

Parsing == INSTANCE Parser WITH pc <- ppc

ASSUME KindsAssumption == Kinds \subseteq Parsing!AllKinds
ASSUME IndentsAssumption == Indents \subseteq Nat
ASSUME MaxTokensAssumption == MaxTokens \in Nat
ASSUME TextsAssumption ==
  Texts \subseteq Seq([kind : Kinds, name : Names, column : Nat])

Compiling ==
  INSTANCE Compile WITH
    source <- P.lists,
    names <- [i \in DOMAIN text |-> text[i].name],
    pc <- cpc

Evaluating ==
  INSTANCE Eval WITH
    MaxFns <- MaxTokens,
    MaxBody <- MaxTokens,
    fns <- [m \in DOMAIN made |-> made[m].list],
    pc <- epc

-----------------------------------------------------------------------------

Init ==
  /\ text \in Texts
  /\ Parsing!Init
  /\ Compiling!Init
  /\ ctrl = <<>> /\ nest = <<>> /\ stack = <<>>
  /\ epc = "idle"

kinds == [i \in DOMAIN text |-> text[i].kind]

(* A step of parse(), whose next token is the next one of the text.        *)
Parse ==
  /\ ppc \notin {"done", "undefined"}
  /\ Parsing!Next
  /\ IsPrefix(input', kinds)
  /\ ppc' = "indent" => arg' = text[Len(input')].column
  /\ ppc' = "end" => input' = kinds
  /\ UNCHANGED <<text, compiler, evaluator>>

StartCompile ==
  /\ ppc = "done"
  /\ UNCHANGED <<text, parser, evaluator>>
  /\ Compiling!Start(P.list)

CompileStep ==
  /\ UNCHANGED <<text, parser, evaluator>>
  /\ \/ Compiling!Word
     \/ Compiling!Literal
     \/ Compiling!ListLiteral
     \/ Compiling!Block
     \/ Compiling!CloseList
     \/ Compiling!ReturnBlock
     \/ Compiling!Return

StartEval ==
  /\ cpc = "done" /\ epc = "idle"
  /\ epc' = "run"
  /\ ctrl' = Last(frames).list
  /\ UNCHANGED <<text, parser, compiler, nest, stack>>

(* No function is a builtin: nothing in the source makes one.              *)
EvalStep ==
  /\ UNCHANGED <<text, parser, compiler>>
  /\ \/ Evaluating!PushData
     \/ Evaluating!CallFn
     \/ Evaluating!PopNest
     \/ Evaluating!Return

(* main() has returned, or the parser has read below a stack.              *)
Stopped ==
  /\ ppc = "undefined" \/ epc = "true"
  /\ UNCHANGED vars

Next ==
  \/ Parse
  \/ StartCompile
  \/ CompileStep
  \/ StartEval
  \/ EvalStep
  \/ Stopped

(* One thread, which goes on until main() returns.                         *)
Spec == Init /\ [][Next]_vars /\ WF_vars(Next)

-----------------------------------------------------------------------------
(* What a text means, from the text alone.                                 *)

Places == DOMAIN text

Earliest(places) == CHOOSE i \in places : \A j \in places : i <= j
Latest(places) == CHOOSE i \in places : \A j \in places : j <= i

(* The indentation of the line of place i.                                 *)
Column(i) == text[Latest({j \in 1..i : kinds[j] = "indent"})].column

(* Definitions by the place of their name, which ":" follows.              *)
Heads == {i \in Places : i + 1 \in Places /\ kinds[i + 1] = "def"}

(* Where the definition at i ends: at the next line that is not indented   *)
(* more than its own, at a ";" that no definition in it takes, or with the *)
(* text.                                                                   *)
End[i \in Nat] ==
  LET ends(j) ==
        \/ kinds[j] = "indent" /\ text[j].column <= Column(i)
        \/ kinds[j] = "end" /\ \A k \in Heads : i < k /\ k < j => End[k] < j
      after == {j \in Places : j > i /\ ends(j)}
  IN  IF after = {} THEN Len(text) + 1 ELSE Earliest(after)

(* Whether place i is between brackets, in a text where they match.        *)
Bracketed(i) ==
  LET count(kind) == Cardinality({j \in 1..i : kinds[j] = kind})
  IN  count("open") > count("close")

(* The definitions that a word at i may mean: those of its name that ended *)
(* before it, in bodies that it is in as well, and outside of brackets.    *)
Visible(i) ==
  {h \in Heads : /\ text[h].name = text[i].name
                 /\ ~Bracketed(h)
                 /\ End[h] < i
                 /\ \A e \in Heads : e < h /\ h < End[e] => i < End[e]}

(* The words that are looked up.                                           *)
Uses == {i \in Places \ Heads : kinds[i] = "word" /\ ~Bracketed(i)}

(* The literals that evaluating the text from i to before end leaves on    *)
(* the stack: a word stands for the body of the definition it means.       *)
Result[i \in Nat, end \in Nat] ==
  CASE i >= end -> <<>>
    [] i < end /\ kinds[i] = "lit" -> <<i>> \o Result[i + 1, end]
    [] i < end /\ i \in Heads -> Result[End[i], end]
    [] i < end /\ i \in Uses /\ Visible(i) # {} ->
         LET h == Latest(Visible(i))
         IN  Result[h + 2, End[h]] \o Result[i + 1, end]
    [] OTHER -> Result[i + 1, end]

-----------------------------------------------------------------------------
(* Properties.                                                             *)

(* Words are lexically scoped, from the text to the compiled functions:    *)
(* when the compiler returns, it has made a call for each word that the    *)
(* layout of the text makes a definition of its name visible to, and that  *)
(* calls the last such definition.  List literals are on one line here.    *)
LexicalScope ==
  LET calls == UNION {{list[k] : k \in {k \in DOMAIN list : list[k].type = "fn"}} :
                        list \in Compiling!AllLists}
  IN  cpc = "done" =>
        /\ {call.src : call \in calls} = {i \in Uses : Visible(i) # {}}
        /\ \A call \in calls : made[call.ptr].src = Latest(Visible(call.src))

(* A function or list only refers to what was made before it.              *)
NoRecursion == Compiling!NoRecursion

(* A text in which no literal comes after an identifier that is still      *)
(* pending in the parser (Parser's SourceOrder says why): between the two  *)
(* there is a ":" or the end of a definition.                              *)
Ordered ==
  \A i \in Places : kinds[i] = "lit" =>
    LET before == {j \in 1..i - 1 : \/ kinds[j] \in {"word", "def"}
                                   \/ \E h \in Heads : End[h] = j}
    IN  before # {} => kinds[Latest(before)] # "word"

(* The program does what its text says: when main() returns, the stack     *)
(* holds the literals of the text with every word replaced by what it      *)
(* means, in their order; list literals and literals that overtake apart.  *)
MeansWhatItSays ==
  epc = "true" /\ Ordered /\ ToSet(kinds) \cap {"open", "close"} = {} =>
    [k \in DOMAIN stack |-> stack[k].src] = Result[1, Len(text) + 1]

(* A text with matching brackets is parsed, compiled and evaluated, and    *)
(* main() returns.                                                         *)
Terminates == <>(epc = "true")

(* A finished list literal holds what is between its brackets in the text. *)
LiteralContents == Compiling!LiteralContents

=============================================================================
