----------------------------- MODULE MCProgram ------------------------------
(***************************************************************************)
(* Instances of Program for TLC: the texts that each run reads.            *)
(***************************************************************************)
EXTENDS Program

newline(column) == [kind |-> "indent", name |-> "newline", column |-> column]
token(kind, name) == [kind |-> kind, name |-> name, column |-> 0]

F == token("word", "f")
G == token("word", "g")
Lit == token("lit", "1")
Def == token("def", ":")
Semi == token("end", ";")
Open == token("open", "[")
Close == token("close", "]")

MCNames == {"newline", "f", "g", "1", ":", ";", "[", "]"}

(* Lines that open definitions and have up to one more token; a ";" that   *)
(* closes one is in the second line only.                                  *)
Lines(columns, openings, contents) ==
  {<<newline(column)>> \o opening \o content :
     column \in columns, opening \in openings, content \in contents}
  \ {<<newline(column)>> : column \in columns}

One == {<<>>, <<F, Def>>, <<G, Def>>}
Two == One \union {<<F, Def, G, Def>>}
Rest == {<<>>, <<Lit>>, <<F>>, <<G>>}

(* Three such lines, and one that calls both words.                        *)
MCScopes ==
  {first \o second \o third \o <<newline(0), F, G>> :
     first \in {line \in Lines({0}, Two, Rest) : line[2] # G},
     second \in Lines({0, 1}, Two, Rest \union {<<Semi, F>>}),
     third \in Lines({0, 1, 2}, One, Rest)}

(* A line with a list literal, before, in and around definitions.          *)
MCLists ==
  {<<newline(0)>> \o before \o <<Open>> \o items \o <<Close>> \o after :
     before \in {<<>>, <<Lit>>, <<F, Def>>, <<F, Def, Lit, Semi, F>>},
     items \in {<<>>, <<F>>, <<G, Def, Lit>>, <<Open, F, Close>>},
     after \in {<<>>, <<F>>, <<G>>, <<Lit>>, <<Open, Close>>}}

MCTexts == MCScopes \union MCLists

MCKinds == {"indent", "word", "lit", "open", "close", "def", "end"}

=============================================================================
