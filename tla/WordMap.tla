------------------------------ MODULE WordMap -------------------------------
(***************************************************************************)
(* The word maps of src/src/map.c: binary search trees that are never      *)
(* changed, because an insertion copies the nodes on its path.  The maps   *)
(* in use are those of the nested calls of compile(): handle_block starts  *)
(* a scope with the map of the scope around it, and when the body has been *)
(* compiled inserts the new word into that map.                            *)
(*                                                                         *)
(* Pointers are indices: nodes[n] is a Weft_Map and keys[k] a Weft_MapKey, *)
(* with the name of the function or builtin its value points to.  A name   *)
(* is a sequence of the bytes 1..255, and whether the compiler's char is   *)
(* signed, which decides their order, is a parameter.                      *)
(***************************************************************************)
EXTENDS Integers, Sequences, SequencesExt

CONSTANTS
  Names,      \* the names of words
  Signed,     \* whether char is a signed type
  MaxKeys,    \* bound: how many words are defined
  MaxScopes   \* bound: how deep definitions nest

NULL == 0

ASSUME NamesAssumption == Names \subseteq Seq(1..255)
ASSUME SignedAssumption == Signed \in BOOLEAN
ASSUME BoundsAssumption == MaxKeys \in Nat /\ MaxScopes \in Nat \ {0}

VARIABLES
  nodes,   \* the heap of nodes
  keys,    \* the heap of keys
  scopes,  \* C->map of each call of compile(), the innermost last
  pc,      \* "insert" in the loop of map_insert, else "run"
  root,    \* what map_insert returns: its copy of the root
  node     \* the last node that map_insert copied

vars == <<nodes, keys, scopes, pc, root, node>>

-----------------------------------------------------------------------------
(* The order of names.                                                     *)

(* The value of the i-th char of a name; the last one is followed by NUL.  *)
char(name, i) ==
  IF i > Len(name) THEN 0
  ELSE IF Signed /\ name[i] > 127 THEN name[i] - 256 ELSE name[i]

Sign(left, right) ==
  IF left > right THEN -1 ELSE IF left < right THEN 1 ELSE 0

(* The first of the first len chars in which two names differ.             *)
Differ(left, right, len) ==
  {i \in 1..len : /\ char(left, i) # char(right, i)
                  /\ \A j \in 1..i - 1 : char(left, j) = char(right, j)}

(* Slip: the end of the key's name is not looked at.                       *)
compare_key_n_prefix(name, src) ==
  LET first == Differ(name, src, Len(src))
  IN  IF first # {}
      THEN LET i == CHOOSE i \in first : TRUE
           IN  Sign(char(name, i), char(src, i))
      ELSE 0

(* A lookup compares as many chars as the identifier in the source has.    *)
compare_key_n(name, src) ==
  LET first == Differ(name, src, Len(src))
  IN  IF first # {}
      THEN LET i == CHOOSE i \in first : TRUE
           IN  Sign(char(name, i), char(src, i))
      ELSE IF Len(name) > Len(src) THEN -1 ELSE 0

(* An insertion compares as many as the name in the tree has.              *)
compare_key(left, right) ==
  LET first == Differ(left, right, Len(left))
  IN  IF first # {}
      THEN LET i == CHOOSE i \in first : TRUE
           IN  Sign(char(left, i), char(right, i))
      ELSE IF Len(right) > Len(left) THEN 1 ELSE 0

-----------------------------------------------------------------------------

map_lookup_n(map, src) ==
  LET find[m \in 0..Len(nodes)] ==
        IF m = NULL THEN NULL
        ELSE LET order == compare_key_n(keys[nodes[m].key].name, src)
             IN  CASE order < 0 -> find[nodes[m].left]
                   [] order > 0 -> find[nodes[m].right]
                   [] OTHER     -> nodes[m].key
  IN  find[map]

leaf_node(key) == [key |-> key, left |-> NULL, right |-> NULL]

Init ==
  /\ nodes = <<>>
  /\ keys = <<>>
  /\ scopes = <<NULL>>
  /\ pc = "run"
  /\ root = NULL
  /\ node = NULL

(* handle_block calls compile() for the body.                              *)
OpenScope ==
  /\ pc = "run"
  /\ Len(scopes) < MaxScopes
  /\ scopes' = Append(scopes, Last(scopes))
  /\ UNCHANGED <<nodes, keys, pc, root, node>>

(* Slip: the word of a body is inserted into the map of the body.          *)
Outer_inner == Last(scopes)

(* The map that the body's word is inserted into.                          *)
Outer == scopes[Len(scopes) - 1]

(* Slip: the node is made before the key it is for.                        *)
CloseScope_late_key(name) ==
  /\ pc = "run"
  /\ Len(scopes) > 1
  /\ Len(keys) < MaxKeys
  /\ Outer = NULL
  /\ nodes' = Append(nodes, leaf_node(Len(keys) + 1))
  /\ scopes' = Append(Front(Front(scopes)), Len(nodes'))
  /\ UNCHANGED <<keys, pc, root, node>>

(* The call has returned: the new word's key and the start of map_insert.  *)
CloseScope(name) ==
  /\ pc = "run"
  /\ Len(scopes) > 1
  /\ Len(keys) < MaxKeys
  /\ keys' = Append(keys, [name |-> name, map |-> Last(scopes)])
  /\ IF Outer = NULL
     THEN /\ nodes' = Append(nodes, leaf_node(Len(keys')))
          /\ scopes' = Append(Front(Front(scopes)), Len(nodes'))
          /\ UNCHANGED <<pc, root, node>>
     ELSE /\ nodes' = Append(nodes, nodes[Outer])
          /\ pc' = "insert"
          /\ root' = Len(nodes')
          /\ node' = Len(nodes')
          /\ UNCHANGED scopes

-----------------------------------------------------------------------------
(* The loop of map_insert.                                                 *)

cmp == compare_key(keys[nodes[node].key].name, keys[Len(keys)].name)

Return ==
  /\ pc' = "run"
  /\ scopes' = Append(Front(Front(scopes)), root)
  /\ root' = NULL
  /\ node' = NULL

(* Slip: the walk goes on in the shared child instead of a copy of it.     *)
Descend_shared(side) ==
  /\ nodes[node][side] # NULL
  /\ node' = nodes[node][side]
  /\ UNCHANGED <<nodes, keys, scopes, pc, root>>

Descend(side) ==
  /\ nodes[node][side] # NULL
  /\ nodes' = Append([nodes EXCEPT ![node][side] = Len(nodes) + 1],
                     nodes[nodes[node][side]])
  /\ node' = Len(nodes')
  /\ UNCHANGED <<keys, scopes, pc, root>>

Attach(side) ==
  /\ nodes[node][side] = NULL
  /\ nodes' = Append([nodes EXCEPT ![node][side] = Len(nodes) + 1],
                     leaf_node(Len(keys)))
  /\ Return
  /\ UNCHANGED keys

InsertLeft ==
  /\ pc = "insert"
  /\ cmp < 0
  /\ Descend("left") \/ Attach("left")

InsertRight ==
  /\ pc = "insert"
  /\ cmp > 0
  /\ Descend("right") \/ Attach("right")

InsertHere ==
  /\ pc = "insert"
  /\ cmp = 0
  /\ nodes' = [nodes EXCEPT ![node].key = Len(keys)]
  /\ Return
  /\ UNCHANGED keys

Next ==
  \/ OpenScope
  \/ \E name \in Names : CloseScope(name)
  \/ InsertLeft
  \/ InsertRight
  \/ InsertHere

Spec == Init /\ [][Next]_vars

-----------------------------------------------------------------------------
(* Properties.                                                             *)

(* Every pointer is NULL or points into its heap.                          *)
TypeOK ==
  LET Pointer == 0..Len(nodes)
  IN  /\ nodes \in Seq([key : 1..Len(keys), left : Pointer, right : Pointer])
      /\ keys \in Seq([name : Names, map : Pointer])
      /\ scopes \in Seq(Pointer)
      /\ pc \in {"run", "insert"}
      /\ root \in Pointer
      /\ node \in Pointer
      /\ pc = "insert" => root # NULL /\ node # NULL /\ Len(scopes) > 1

Children(m) == {nodes[m].left, nodes[m].right} \ {NULL}

(* The nodes of a map.                                                     *)
Reach(map) ==
  LET within[depth \in 0..Len(nodes)] ==
        IF depth = 0 THEN {map} \ {NULL}
        ELSE LET above == within[depth - 1]
             IN  above \union UNION {Children(m) : m \in above}
  IN  within[Len(nodes)]

(* Every word of a map is what a lookup of its name in that map finds, for *)
(* the maps in use and for those that words were compiled in: insertion    *)
(* and lookup agree on the order of names.                                 *)
FoundByName ==
  \A map \in ToSet(scopes) \union {keys[k].map : k \in DOMAIN keys} :
    \A m \in Reach(map) :
      map_lookup_n(map, keys[nodes[m].key].name) = nodes[m].key

(* Maps are persistent: an insertion never writes to a node of a map that  *)
(* a scope or a word has, only to its own copies.                          *)
Persistent ==
  [][\A map \in ToSet(scopes) \union {keys[k].map : k \in DOMAIN keys} :
       \A m \in Reach(map) : nodes'[m] = nodes[m]]_vars

(* Definitions are lexically scoped, and stay as they were compiled: maps  *)
(* answer every lookup as the dictionaries of Scopes do, in the open       *)
(* scopes and in the bodies of the words defined before.                   *)
Dictionary(map) == [name \in Names |-> map_lookup_n(map, name)]

defined == IF pc = "insert" THEN Front(keys) ELSE keys

AsScopes ==
  INSTANCE Scopes WITH
    Undefined <- NULL,
    scopes <- [i \in DOMAIN scopes |-> Dictionary(scopes[i])],
    words <- [k \in DOMAIN defined |-> Dictionary(defined[k].map)]

ImplementsScopes == AsScopes!Spec

=============================================================================
