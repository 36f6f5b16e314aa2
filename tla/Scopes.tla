------------------------------- MODULE Scopes -------------------------------
(***************************************************************************)
(* What the maps of map.c are for: the words that can be used at a point   *)
(* of the source.  Opening a definition starts a scope with everything     *)
(* that is visible around it; closing it forgets what was defined inside   *)
(* and adds the new word to the scope around, over any word of that name.  *)
(***************************************************************************)
EXTENDS Naturals, Sequences, SequencesExt

CONSTANTS
  Names,      \* the names of words
  Undefined   \* the meaning of a name that has none

VARIABLES
  scopes,  \* the dictionaries of the open scopes, the innermost last
  words    \* for each word defined so far, the dictionary of its body

Init ==
  /\ scopes = << [name \in Names |-> Undefined] >>
  /\ words = <<>>

Open ==
  /\ scopes' = Append(scopes, Last(scopes))
  /\ UNCHANGED words

Close(name) ==
  LET around == scopes[Len(scopes) - 1]
  IN  /\ Len(scopes) > 1
      /\ words' = Append(words, Last(scopes))
      /\ scopes' = Append(SubSeq(scopes, 1, Len(scopes) - 2),
                          [around EXCEPT ![name] = Len(words) + 1])

Next == Open \/ \E name \in Names : Close(name)

Spec == Init /\ [][Next]_<<scopes, words>>

=============================================================================
