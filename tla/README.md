# weft: a verification project

TLA+ modules for weft, a small concatenative language in C: what its lexer,
parser, compiler, evaluator and their data structures do (translated from
`src/src/*.c`, function by function and with the source's names), TLC
configurations that check them on small instances, and theorems that TLAPS
proves for every instance. `PROJECT.json` says, for each definition, which lines
of the source it stands for, and lists runs, mutants, hazards, findings and
theorems.

## 1. The system

weft is one thread. `main` reads a file, and then runs `parse`, `compile` and
`eval` once, one after the other; there are no callbacks, no signals and no
persistence. What is hard is elsewhere: parallel stacks that are saved and
restored separately, loops over structures that change under them, trees that
share nodes, pointers with a bit of data in them, unsigned counters that wrap,
lookahead that decides by what it cannot see, and a scope that is decided in
three places.

| component | state | operations | what makes it correct | modules |
|---|---|---|---|---|
| parser, `parse.c` 1216-1532 | `Weft_ParseState`: indentation, token, base, list and node stacks | one handler per kind of token, the dedent loops | stacks stay aligned, no underflow, every token in one place and in order, off-side rule, the whole program is returned | `Parser`, `MCParser`, `ParserProofs` |
| lexer, `parse.c` 318-1214 | place in the text, the buffers of the string or diagram being read | empty space and comments, indentation, operators, words, numbers, characters and escapes, strings, shuffle diagrams | never behind the NUL, all code in tokens, indentation where a line starts, numbers and diagrams mean what is written, quotes close | `Literals`, `Lexer`, `MCLexer`, `LexerProofs` |
| characters, `char.c` | none | width, read and write of UTF-8, errors | in range, reading and writing inverse, never behind the NUL | `Chars` (with `Literals`, `Lexer`) |
| strings, shuffles, `str.c` `shuffle.c` | heap cells | constructors | hold what was read | inside `Lexer` |
| buffers, `buf.c` | `Weft_Buf`: block, capacity, fill | push, peek, drop, pop, growth, shrinking | a stack; amortised cost; no thrashing | `Stack`, `Buf`, `MCBuf`, `BufProofs` |
| word maps, `map.c` | trees of nodes that share nodes | insert, lookup | found by name, persistent, lexical scopes | `Scopes`, `WordMap`, `MCWordMap`, `WordMapProofs` |
| compiler, `compile.c` | one `Weft_CompileState` per nested definition | one case per token type, returns | lexical scope, no recursion, list literals hold their contents | `Compile`, `CompileProofs`, `Program` |
| functions, lists, data, `fn.c` `list.c` `data.c` | heap cells | constructors, `list_pop` | only what others make of them | inside `Compile`, `Eval` |
| evaluator, `eval.c` | `ctrl`, `nest`, `stack` | data, builtins, calls, returns | evaluates the expanded program, bounded nest, returns | `Reduce`, `Eval`, `EvalProofs` |
| main, `main.c` | the parse state, the list, the evaluator | the three phases in a row | the program does what its text says, and ends | `Program`, `MCProgram`, `ProgramProofs` |
| collector, `gc.c` | list of tagged blocks through the heap | alloc, mark, collect | list intact at every step, frees exactly the unmarked | `Collector`, `Gc`, `GcProofs` |
| builtins, `builtin.c` | none | a constructor that nothing calls | | not modelled |
| error reports, printers, `file.c` | none | output, file reading | | not modelled |

They interact by calls and by what these return: the lexer gives the parser
tokens, and the parser drives it (`handle_token` skips what is empty); the parser
gives the compiler lists of tokens; the compiler asks the map what a word means
and gives the evaluator a list of data. Every stack is a `Weft_Buf`. Every cell
comes from `gc_alloc`, but nothing in the source calls `gc_mark` or `gc_collect`
yet, so nothing is ever freed by them.

The hazards this code has, each at its line with the properties against it, are
in `PROJECT.json` under `hazards`.

## 2. The modules

**Parser.** `P` is `Weft_ParseState` with its field names; a byte offset is an
element index, a list is the index of a sequence of tokens. `P.list` and `P.node`
are kept apart, as in the code, because `output_token` writes through `node`. The
text is chosen one token at a time, by kind. One action per case of
`handle_token`; the loops `handle_indent`, `handle_list_close` and the end of
`parse` are the states `indent`, `close` and `end` of `pc`, one action for an
iteration (`Dedent`) and one for each exit. A pop of an empty buffer is undefined
behaviour: it ends in `pc = "undefined"`, from where nothing is claimed. Texts
have the shape the lexer gives them (an indentation first, and none without code
after it), which is what `IndentBeforeCode` in `Lexer` checks.

**Chars, Literals, Lexer.** A place in the text is an index; the NUL is behind
its last character, and a byte above 127 is written as two digits. `Chars` has
`char.c`: chars and `uint32_t` are sets of bit positions, so shifts, masks and the
sign extension of a `char` are set operations. `Literals` has the scanners of
`parse_token` that are pure: numbers of each base, character literals, escapes,
as operators from a place to a token; integers wrap at `LongBits`. `signed` says
whether `char` is signed where the program was built. `Lexer` has the rest and the
state: comments, `parse_empty`, `is_line_empty` and so on are operators from places
to places, recursive functions where the code loops with more than one state; a
string is read one character at a time and a diagram one member at a time.
`parse_indent` has no test for the NUL, and `is_hex` and `parse_char_esc` look
behind it: where they would not stop in the text the state becomes `overrun`.
`push_char` appends what `strlen` finds of a character, so a NUL is lost.
The properties compare with other readings of the same text, which go over it
once from left to right and know nothing of the scanners: `Nest` and `InLine` for
comments, `Unsigned`, `Base` and `Value` for numbers, `Quotes` for what is quoted.

**Buf** implements **Stack**. The buffer is the C structure; new bytes are
unset. Callers take items back in the sizes they put them in, as all of them do.
`moved` counts what `realloc` copies.

**WordMap** implements **Scopes**. Nodes and keys are heaps; an insertion is one
action per node. The maps in use are those of the nested calls of `compile`, and
the maps that finished definitions were compiled in are kept, to show that they
never change. `Scopes` says what it is for: dictionaries that are pushed and
popped.

**Compile.** A stack of calls of `compile`, each with its own state and what is
left of its token list; the lists come from the parser (`source`) and are never
changed. `C.map` is a dictionary, which `WordMap` justifies. Functions and lists
of data are numbered in the order they are made in (`made`). The case of a list
literal is modelled as it is: it pushes a list and never looks at the literal's
contents.

**Eval** implements **Reduce**. `ctrl`, `nest`, `stack`, one action for each item
and each return. `Reduce` does one item of the fully expanded program at a
time. No builtin is registered in the source: they are external, and return true
or false. Programs have functions that call those before them only, which
`ProgramProofs` shows (`ProgramCallsGoBack`).

**Program** is `main`: it INSTANCEs `Parser`, `Compile` and `Eval` on one text, a
sequence of tokens with their spelling and, for indentations, the column. Each
component's variables are its own; what goes between them is `P.lists` and `P.list`,
`Last(frames).list` and `made`. What a text means is said beside it from the text
alone: `End` is where a definition ends by layout and `;`, `Visible` are the
definitions a word may mean, `Result` the literals that are left on the stack. None
of these mentions a stack, a map or a list.

**Gc** implements **Collector**. One action is one iteration of a loop of
`gc_collect`. An address that was freed may be allocated again.

Definitions that begin with "Slip" in their comment are what a plausible mistake
would make of the definition next to them; no specification uses them. Each
property is known to fail with one of them in place.

## 3. Runs

All runs that pass are exhaustive within their bounds.

| run | question | bound, and why it is enough |
|---|---|---|
| `parser` | alignment, underflow, completeness, order, heads, off-side rule, frozen lists, end | 7 tokens of all 8 kinds, 2 indentations: nested frames of both kinds, opened and closed in every order with something pending, two definitions closed by one line |
| `lexer` | comments, indentation, diagrams, numbers, quotes, UTF-8, end | see below |
| `buf` | stack, cost, hysteresis | 11 bytes pushed and dropped in ones and threes, capacities from 0: several growths and shrinkings. It stops at the bound, so deadlock is not checked |
| `map` | found by name, persistence, scopes | 4 words of 4 names (smaller, larger, prefix, UTF-8), 3 scopes: insertions on both sides under nodes that are shared. It stops at the bound, so deadlock is not checked |
| `program` | scope, meaning, recursion, end | 12,620 texts. Three lines with up to two openings of definitions and one more token each, three columns, a `;` in the second, and a fourth line `f g`: redefinition inside and outside, two definitions closed by one line, a `;` that closes the inner of two, words used before, in and after what they name. And lines with list literals before, in and around definitions |
| `eval` | meaning, nest, return | every program of three functions of up to two items: calls in the middle, at the end, of empty functions; a builtin that fails at any point |
| `gc` | list, collection, marks | 4 addresses and any number of collections: runs of dead blocks at the head, in the middle and at the end, reused addresses |

`lexer` reads the union of these texts. Layout: all of up to five of letter,
space, new line, `#`, `(`, `)`, and those of six that have a new line (a comment
over two lines with code on both sides takes five). Operators next to words and
comments. Diagrams: all of up to four characters after `{`, and all pairs of up to
three before and after a pivot: names that are prefixes of others, unknown ones,
duplicates. Numbers: all of up to four of sign, digits, dot, prefixes and blank,
and longer ones up to and over the limit of a long; `LongBits = 8`, so that the
limit is reached with three digits. Escapes: every string and character of up to
four of quotes, backslash and letters of escapes, which cuts them off everywhere.
UTF-8: pairs of the first and last characters of each width and of every way to
break one, each cut off by each other, by the quote and by the NUL; `char` signed
and unsigned.

Five runs end in a violation; each is a finding in `PROJECT.json`, and each was
seen in the built program:

- `parser_order`: literals overtake the identifier before them (`foo 1` is parsed
  as `1 foo`), so `src/combinators.weft:5-6` is not what it says.
  `OnlyLiteralsOvertake` (in `parser`) says that nothing else is reordered, and
  `MeansWhatItSays` is for texts where it does not happen (`Ordered`).
- `map_prefix`: a name that extends another by a byte above 127 is inserted on one
  side and looked up on the other. It ends at its bound: deadlock is not checked.
- `compile_lists`: the contents of list literals are lost and what follows is put
  in them. `MeansWhatItSays` is for texts without list literals.
- `utf8_signed`: with a signed `char`, as in the build, every character above 127
  is read as a number beyond `WEFT_CHAR_MAX`; `Faithful` is therefore only claimed
  where `char` is unsigned.
- `escapes`: a hexadecimal character escape is tested from its `x` on, which is no
  digit, so each of them is an error.

Behaviour that the models have and that nothing in the source calls wrong:

- lexer: a new line that ends a line comment starts no line
  (`LayoutFollowsLines`), so `a: 1 # c` makes the next definition a part of `a`; a
  text whose code begins with a `)` is read beyond its end, and so is, by one
  character, one that ends in a `0` or in a backslash in quotes (`NeverPastEnd`
  excludes them); two characters behind a `0` an `X` makes a hexadecimal number of
  it, and what is between them is skipped, be it a space or a bracket
  (`NumbersAsWritten` and `Layout` exclude it); a decimal escape takes its first digit
  twice; a new line inside a diagram is read as part of a member
  (`DiagramAsWritten` is for one line, and as `Layout` says without quotes).
- parser: a less indented line closes a `[` as a definition if an identifier is
  pending in it (`HeadsMatch` is for one line, `OffSide` for texts without
  brackets); an unmatched `]` underflows the stacks (`NoUnderflow` says it is the
  only way) and an open `[` makes `parse` return an inner list
  (`WholeProgramReturned`).
- collector: marks survive a collection (`MarksLeft` says which).

**Comparison with the program.** Beside the mutants, the models were compared
with the C code, built with gcc: the final states of the lexer for 72,594 texts
of layout, operators and diagrams and for 16,646 of numbers, characters, escapes
and strings (tokens, ends, indentations, values; floats but for the sign of
zero), of UTF-8 for 4,237, with `char` signed and unsigned; and `Result` with what
is on the stack for all 11,868 texts of `program` that are `Ordered`. They agree.

**Fairness.** `Parser`, `Lexer`, `Eval` and `Program` have `WF_vars(Next)`: one
thread that does not stop by itself; what ends is one call of `parse`, of `eval`,
or `main`, with the text or program chosen at the beginning or bounded. (In `Parser`
a text is chosen token by token: that it ends at all is `MaxTokens`, as a
file does; in `Program` the text is there from the start.) In `Gc` only the steps
of `gc_collect` are fair: nobody is obliged to allocate, mark or collect. `Buf` and
`WordMap` promise nothing about time, and that `Compile` ends is a part of
`Terminates` in `Program`. Builtins are assumed to return.

## 4. Proofs

For every value of the constants, by TLAPS. Where a theorem has a premise it is
said here; otherwise it rests on the named assumptions of its component only.

`ParserProofs`: `StateTyped`, `StacksAligned`, `StacksNeverUnderflow`,
`ListsFrozen`. From the assumptions on `Kinds`, `Indents` and `MaxTokens` of
`Parser`. The inductive invariant `IInv` is the types and alignment, with two
more parts. `FramesCounted` relates the stacks to the brackets: the frames
that are open are the definitions (as many as indentations) plus the `[` that are
not closed; without it an empty stack at a `]` cannot be blamed on the text.
`ListsOK` says that the lists on the list stack are in the order they were made
in, all before the current one, and that each that has cells has its own node
beside it; without it a write through `node` may hit a finished list. Alignment and underflow need each other: only aligned stacks are
safe to pop, and only safe pops keep them aligned. There is a lemma for each
helper (`OutputToken`, `FlushTokenStack`, `PopFrameState`, `NewFrame` ...), one
for the handlers, and `NextIInv` has a case for each action.

Its second half is about where the tokens go, on top of that `IInv`. Every step is a
few moves of tokens (one is read; the pending one is flushed to its list; a frame
is opened or closed), and each invariant has a lemma for each kind of move.

- `Holds`: whatever a state holds, pending or in a list, is a token of the text
  read so far and has a list that there is if it is a definition or a list literal.
- `OvertakenByLiterals`: `InOrder` says of two tokens in one list, or of a list and
  the slot of the token stack that will go to it (`Target`), that between two which
  are the wrong way round there are only literals (`Quiet`). `PendingLast` says that
  what has been read behind a pending token is `Quiet`, so the order can be wrong
  only by what was flushed past it.
- `HeadsFit` and `WholeReturned`: `Counted` compares the frames that are headed by
  an identifier with the indentations on the stack. There are never fewer, and as
  many in a text of one line, where a `]` must therefore have closed exactly the
  definitions inside its brackets. When the loop at the end stops, a frame that is
  left is a `[` that nothing closed.
- `OffSideRule`: `Nested` says that the indentations on the stack do not decrease
  and that the last one is at most the current one, so the loop of `handle_indent`,
  which only looks at the last, has closed all that are no further to the left.
- `EachTokenOnce`: `Placed` says that the places of a state (slots of the token
  stack, cells of lists) hold the tokens read that are kept, each in one place only:
  a bijection that each move either extends or rearranges.

`BufProofs`: `WithinCapacity`, `CostIsAmortised`, `NoThrashing`, `BufferIsStack`.
From the assumptions on `Bytes`, `Sizes`, `Caps` and `MaxChurn`. `AmortisedCost` is its own
potential function: `moved` plus twice the distance of the buffer from being half
full is at most four for each byte pushed or dropped (and the first capacity
twice). A growth or shrinking leads to about half full, so it spends what it
copies (`GrowCost`, `ShrinkCost`: the only arithmetic, stated for numbers).
Together with `TypeOK` it is inductive. `NoThrashing` follows from what one step
does. `BufferIsStack` is the refinement of `Stack`: what `realloc_buf` keeps
(`ReallocKeeps`) is enough for what a push (`PushKeeps`) and a drop (`DropKeeps`)
leave in use, and as the items lie one behind the other (`Sorted`) each of them
is in that part.

`CompileProofs`: `StateTyped`, `CallsGoBack`, from no assumption: `Init` takes any
lists of tokens that refer to places of the text and to lists (`Parsed`), whether
a parser would return them or not. `NoRecursion` alone is not inductive: a step
could put anything into a list. `IInv` adds that whatever a call of `compile` has
in hand (each entry of its map, its list, the lists on its list stack) refers to
what has been made already, and that the tokens it has left are of the input
(`FrameOK`). So what is made next, and gets the next number, can only refer to
smaller ones. A number once given stays below what is made later
(`StillBelow`), so frames that are not on top keep the invariant.

`ProgramProofs`: `ParserHandsOn`, `ProgramCallsGoBack`, from the assumptions on
`Texts` (tokens with a name and a column) and those of `Parser`. They put the proofs of
the components together: `CompileProofs` takes an input of the right form
(`Parsed`) and `ParserHandsOn` says that this is what the parser returns, by `Holds`
of `ParserProofs`. `IInv` of `ProgramProofs` is `IInv` of the parser, `Holds`, and `IInv` of the
compiler, with two lines on whose turn it is: the compiler has done nothing before the
parser is done. Program's instances of `Parser` and `Compile` and those of the proof
modules are different operators to the prover; `SameParser` and `SameCompiler` say
that they are the same.

`EvalProofs`: `NestIsBounded` and `EvaluatesExpanded`, for any number of functions of
any length. `IInv` says that list `i` of the nest only calls functions below
`MaxFns - i + 1`, and `ctrl` those below `MaxFns` less the length of the nest, because
each list was left for a call of a smaller function, whose body calls smaller ones
still. `PopNest` only makes this weaker. With `ProgramCallsGoBack`, which gives the
programs that this is about, evaluation needs no limit on the depth of calls.
`EvaluatesExpanded` is the refinement of `Reduce`. That `Expand` means anything needs
the calls to go back (`BodyExists`: the bodies are built one after the other); it
distributes over concatenation (`ExpandedConcat`), so a call or a return moves a part
of what is left from one list to another and leaves the expansion as it is
(`PendingAppend`), and data and builtins are at its head (`TodoAtom`).

`GcProofs`: `CursorsLive`, `HeapIsLinked`, `CollectorImplemented`, `MarksAreLeft`, for
any set of addresses. `ListOK` says that the links of the blocks spell `chain`, which
has no block twice and all of them, so that freeing the block behind a cursor takes
one element out of a sequence (`UnlinkedList`). `CollectOK` relates the list to the
one the collection began with: in front of the cursor only blocks that were marked,
and behind it everything as it was, as far along as blocks have been freed
(`SweptTo`, `Untouched`). When the cursor is at the end that is the abstract
`Collect`, and every step before it stutters.

`WordMapProofs`: `TreesStay`, `PointersHold`, `MapsPersist`, and, under `LongerBehind`,
`WordsFound` and `ScopesImplemented`. From the assumptions on `Names` and `Signed` of
`WordMap`. `Inv` says that the heap has an order in which children come before
parents (`Acyclic`), that every name in the left or right part of a node sorts there
for `strcmp` (`Ordered`), and, while `map_insert` runs, that its copies are the end of
the heap, a path that `strcmp` takes with the new name (`Chain`), and that the new root
answers every lookup as the old one (`Copied`). Scopes and the maps of words have
nodes in front of the copies only, so nobody sees a node that is written to: that is
`MapsPersist`. `Alike` and `SameLookups` carry lookups over from one heap to the next,
`ReachWithin` says that a map only reaches a set that is closed under left and right.
`LongerBehind` says that a name sorts behind the names that begin it: it holds for all
names where `char` is unsigned, and where it is signed for those that do not extend
one another by a byte above 127. The run `map` has names for which it holds, `map_prefix`
some for which it does not, and there `FoundByName` fails, so the premise is what the
code needs. With it `strncmp` of lookup and `strcmp` of insertion agree
(`Comparisons` and the lemmas after it).

`LexerProofs`: `LexerTypeOK`, `LexerNeverPastEnd`, `CodeInOneToken`,
`LayoutOfLines`, `IndentOnlyBeforeCode`, `OutputsOfDiagrams`, `QuotesAreClosed`,
`ReadAndWritten`, `NumbersWritten`, for texts of any length. From the assumptions
on `Texts`, `Signs` and `LongBits`: a text is a sequence of the bytes of
`Literals`, without a NUL, and a `long` has at least one bit. The
loops of the scanners are recursive functions; `LoopExists` says that such a
function exists and unfolds (`CommentUnfolds`, `EmptyUnfolds`, `CharEndUnfolds`),
and an induction over places what it returns. Each scanner has a lemma that says
where its token ends and what it passed over (`Radix`, `Decimal`, `Utf8`, `Bare`,
`Char`, `Words`, `Members`).

- `TextInv` is `TypeOK` (the tokens follow one another and none ends behind the
  NUL), the shape of the records (`Records`: the outputs of a diagram are indexes
  of its inputs), and `AtCode`: between two tokens the lexer stands on something
  that `parse_empty` does not skip. `LexerTypeOK` and `OutputsOfDiagrams` follow.
- `LexerNeverPastEnd`: `parse_indent` has no test for the NUL. It is called at the
  beginning and where `is_indent` holds, which means that `is_line_empty` has found
  code at depth 0 before the line ended. The two count brackets in the same way
  (`Depths`), so `parse_indent` stops there at the latest (`LineIndents`,
  `NewLineIndents`). `StartIndents` is for the first line, where the lexer has
  skipped what is empty instead and it is `Balanced` that keeps the depth at 0.
  Everything else that reads ahead stops at a NUL, but for the `0` and the
  backslash that `NeverPastEnd` names.
- `CodeInOneToken`, `IndentOnlyBeforeCode`, `LayoutOfLines`: `LayoutInv` says what
  lies between two tokens. `Nest` and `InLine` count from the left over the whole
  text; a scanner starts counting where it stands. They agree because every place
  where the lexer stands between tokens is `Plain` (`ReadFrom`), which comments and
  blanks preserve (`Comments`, `EmptyPlain`, `IndentLayout`) and tokens too, as none
  of their characters opens a comment (`Clear`, `RunPlain`). So what is skipped is
  no code (`Covered`), and what `parse_empty` leaves of a line is the new line that
  starts the next (`LinesFacts`, `SameLine`, `NextLine`, `FirstLine`).
- `QuotesAreClosed`: `QuotesClose` counts the backslashes before a quote, while the
  readers take them in pairs. `Free` says that a reader stands where the number of
  backslashes right before it is even; a character, escaped or not, goes from one
  such place to another and passes over no quote that ends the literal
  (`BareStep`), and so does `get_char_len` (`CharCloses`).
- `ReadAndWritten`: a character is a set of bits. `ReadBits` says which byte each
  bit is from: bytes go to groups of six that do not overlap, so writing finds each
  group again (`WrittenBits`). That it also finds the width (`WriteRead`) needs a
  bit in the upper part, which is what it means not to be overlong (`NotOverlong`).
  No byte of a character that was read is a NUL (`Utf8Written`), so `strlen` in
  `push_char` loses nothing (`PushWritten`).
- `NumbersWritten`: the property reads a word as a sum of digits, each with its
  worth, while the scanners multiply from the left and wrap. `Exact` is what they
  would have without wrapping. The values of the beginnings of a number only grow
  (`ExactGrows`), so if the whole fits none has wrapped (`NumberIsExact`), and it is
  the sum (`SumIsExact`). The digits on both sides of the dot, joined, are those of
  the fraction (`ExactJoin`). The provers know nothing of `^` with a variable
  exponent, so the models have `power`, a recursive function. That a number ends
  where its word does is read off the table of bytes: no delimiter and no dot is a
  digit (`DigitFacts`, `WordDigits`). `RadixWritten` and `DecimalWritten` are the
  scanners, and `NumeralKinds` says that one of them takes every numeral.

**Induction.** The library's induction theorems take operators, which the provers here
cannot instantiate. What these proofs need of it is done with sets of numbers:
`LeastNumber` is a well-founded order, and `Counting` and `FromTheLeaves` follow. That
is enough for recursive functions (`map_lookup_n`, `Reach`, `FlattenSeq`, `Expand`,
the loops of the scanners): that they exist, unfold (`LoopExists`, `RecExists`), and what they return.

**Only model-checked**: everything under fairness (`Terminates`, `Returns`,
`CollectReturns`) is out of the prover's reach. `LiteralContents` and the other
properties of the runs that end in a violation are false. `DiagramAsWritten`: its
other reading sorts and filters with `SetToSortSeq` and `SelectSeq`, of which the
prover has no definition it can use. `LexicalScope` and `MeansWhatItSays` of
`Program`: `End`, `Visible` and `Result` are read off the whole text, and a proof
needs a simulation of parser and compiler, both in the middle of it, by them.

## 5. What is left out

`malloc` never fails (the program does not check it either, or ends). Output:
error messages with their lines and columns, the printers, `parse_debug`. Who
frees a buffer: `parse_str` and `create_shuffle` leak, with no effect on anything
else. A float is the fraction of integers that is written; how `double` rounds it,
and the sign of zero, are not modelled. `file.c` is I/O: the text is assumed to be
what the file holds, with a NUL behind it (`parse_file_load` does not add one).
`builtin.c` has a constructor that nothing calls. `Program` starts from tokens:
that these are the text's is checked in `Lexer` on characters, which would
multiply the texts beyond what can be enumerated.

## 6. Plan

Done: `Parser`, `Buf`, `Stack`, `Gc`, `Collector`, `WordMap`, `Scopes`, `Compile`,
`Eval`, `Reduce`, `Program`, `Chars`, `Literals` and `Lexer`, all with proofs.

To do, in this order:

1. Proofs: for `Program`, `LexicalScope`, with what `OffSide` says of one text as
   its lemma.
2. `Compile` over `WordMap` instead of a dictionary, as a refinement.
3. Garbage collection with the evaluator's roots, once the source calls it.
