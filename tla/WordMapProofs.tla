--------------------------- MODULE WordMapProofs ---------------------------
(***************************************************************************)
(* Proofs about the word maps: they stay search trees, nobody writes to a  *)
(* map that is in use, and when the two comparisons of names agree a       *)
(* lookup finds what the scopes of Scopes say.                             *)
(***************************************************************************)
EXTENDS WordMap, SequenceTheorems, WellFoundedInduction, TLAPS

-----------------------------------------------------------------------------
(* Numbers and sequences.                                                  *)

(* A set of natural numbers has a least element.                           *)
LEMMA LeastNumber ==
  ASSUME NEW T \in SUBSET Nat, NEW n \in T
  PROVE  \E least \in T : \A m \in T : least <= m
  <1>1. T # {} /\ T \subseteq Nat
    OBVIOUS
  <1>2. PICK least \in T : \A m \in T : ~(<<m, least>> \in OpToRel(<, Nat))
    BY <1>1, WFMin, NatLessThanWellFounded, Zenon
  <1>3. ASSUME NEW m \in T PROVE least <= m
    <2>1. m \in Nat /\ least \in Nat
      OBVIOUS
    <2>2. ~(m < least)
      BY <1>2, <2>1 DEF OpToRel
    <2> QED BY <2>1, <2>2
  <1> QED BY <1>3

(* Counting up to a number; T is the set of those for which it holds.      *)
LEMMA Counting ==
  ASSUME NEW T, 0 \in T, \A n \in Nat : n \in T => n + 1 \in T
  PROVE  \A n \in Nat : n \in T
  <1> DEFINE Bad == {n \in Nat : n \notin T}
  <1> SUFFICES ASSUME NEW n \in Bad PROVE FALSE
    OBVIOUS
  <1>1. Bad \in SUBSET Nat
    OBVIOUS
  <1>2. PICK least \in Bad : \A x \in Bad : least <= x
    BY <1>1, LeastNumber
  <1>3. least - 1 \in Nat /\ least - 1 \notin Bad
    BY <1>1, <1>2
  <1>4. (least - 1) + 1 \in T
    BY <1>3
  <1> QED BY <1>1, <1>2, <1>4

LEMMA FrontLast ==
  ASSUME NEW X, NEW s \in Seq(X), s # <<>>
  PROVE  /\ Front(s) \in Seq(X)
         /\ Len(s) \in Nat \ {0}
         /\ Len(Front(s)) = Len(s) - 1
         /\ \A i \in 1..Len(s) - 1 : Front(s)[i] = s[i]
         /\ Last(s) = s[Len(s)]
         /\ Last(s) \in X
  <1>1. Len(s) \in Nat /\ Len(s) # 0
    BY EmptySeq, LenProperties
  <1>2. Front(s) = SubSeq(s, 1, Len(s) - 1)
    BY DEF Front
  <1>3. /\ Front(s) \in Seq(X)
        /\ Len(Front(s)) = Len(s) - 1
        /\ \A i \in 1..Len(s) - 1 : Front(s)[i] = s[i]
    <2>1. 1 \in 1..Len(s) + 1 /\ Len(s) - 1 \in 0..Len(s)
      BY <1>1
    <2>2. Len(s) - 1 >= 1 - 1 /\ Len(s) - 1 - 1 + 1 = Len(s) - 1
      BY <1>1
    <2>3. \A i \in 1..Len(s) - 1 : 1 + i - 1 = i
      OBVIOUS
    <2> QED BY <1>1, <1>2, <2>1, <2>2, <2>3, SubSeqProperties, SMTT(30)
  <1>4. Last(s) = s[Len(s)] /\ Last(s) \in X
    BY <1>1, ElementOfSeq DEF Last
  <1> QED BY <1>1, <1>3, <1>4

LEMMA Appended ==
  ASSUME NEW X, NEW s \in Seq(X), NEW x \in X
  PROVE  /\ Append(s, x) \in Seq(X)
         /\ Len(s) \in Nat
         /\ Len(Append(s, x)) = Len(s) + 1
         /\ \A i \in 1..Len(s) : Append(s, x)[i] = s[i]
         /\ Append(s, x)[Len(s) + 1] = x
         /\ Append(s, x) # <<>>
  BY AppendProperties, LenProperties

-----------------------------------------------------------------------------
(* The order of names.                                                     *)

(* The two comparisons stop at the end of different names, so they agree   *)
(* when a name sorts behind the names that begin it: always where char is  *)
(* unsigned, and where it is signed as long as what follows is ASCII.      *)
Prefix(a, b) == Len(a) < Len(b) /\ \A i \in 1..Len(a) : a[i] = b[i]

LongerBehind ==
  \A a, b \in Names : Prefix(a, b) => ~(Signed /\ b[Len(a) + 1] > 127)

LEMMA Byte ==
  ASSUME NEW byte \in 1..255
  PROVE  byte \in Int /\ 0 < byte /\ byte < 256
  OBVIOUS

LEMMA Bytes ==
  ASSUME NEW x \in 1..255, NEW y \in 1..255
  PROVE  x - 256 # y /\ x # y - 256 /\ (x - 256 = y - 256 => x = y)
  OBVIOUS

LEMMA Chars ==
  ASSUME NEW name \in Names
  PROVE  /\ Len(name) \in Nat
         /\ \A i \in Nat \ {0} : char(name, i) \in Int
         /\ \A i \in 1..Len(name) : char(name, i) # 0
         /\ \A i \in 1..Len(name) : ~(Signed /\ name[i] > 127) => char(name, i) > 0
         /\ char(name, Len(name) + 1) = 0
  <1>1. name \in Seq(1..255) /\ Len(name) \in Nat
    BY NamesAssumption, LenProperties
  <1>2. \A i \in 1..Len(name) : name[i] \in 1..255
    BY <1>1, ElementOfSeq
  <1>3. Signed \in BOOLEAN
    BY SignedAssumption
  <1>4. ASSUME NEW i \in 1..Len(name)
        PROVE  /\ char(name, i) \in Int /\ char(name, i) # 0
               /\ ~(Signed /\ name[i] > 127) => char(name, i) > 0
    <2>1. char(name, i) = IF Signed /\ name[i] > 127 THEN name[i] - 256 ELSE name[i]
      BY <1>1, <1>4 DEF char
    <2>5. name[i] \in 1..255
      BY <1>2
    <2>2. name[i] \in Int /\ 0 < name[i] /\ name[i] < 256
      BY <2>5, Byte
    <2>3. CASE Signed /\ name[i] > 127
      <3>1. char(name, i) = name[i] - 256
        BY <2>1, <2>3
      <3> QED BY <2>2, <2>3, <3>1
    <2>4. CASE ~(Signed /\ name[i] > 127)
      <3>1. char(name, i) = name[i]
        BY <2>1, <2>4
      <3> QED BY <2>2, <3>1
    <2> QED BY <2>3, <2>4
  <1>5. ASSUME NEW i \in Nat, i > Len(name) PROVE char(name, i) = 0
    BY <1>5 DEF char
  <1>6. \A i \in Nat \ {0} : i \in 1..Len(name) \/ i > Len(name)
    BY <1>1
  <1> QED BY <1>1, <1>4, <1>5, <1>6

LEMMA SameChars ==
  ASSUME NEW a \in Names, NEW b \in Names, NEW i, i \in 1..Len(a), i \in 1..Len(b),
         char(a, i) = char(b, i)
  PROVE  a[i] = b[i]
  <1>1. /\ a \in Seq(1..255) /\ b \in Seq(1..255) /\ Len(a) \in Nat /\ Len(b) \in Nat
        /\ Signed \in BOOLEAN
    BY NamesAssumption, SignedAssumption, LenProperties
  <1>2. a[i] \in 1..255 /\ b[i] \in 1..255
    BY <1>1, ElementOfSeq
  <1>3. /\ char(a, i) = IF Signed /\ a[i] > 127 THEN a[i] - 256 ELSE a[i]
        /\ char(b, i) = IF Signed /\ b[i] > 127 THEN b[i] - 256 ELSE b[i]
    BY <1>1 DEF char
  <1>4. a[i] \in Int /\ 0 < a[i] /\ a[i] < 256 /\ b[i] \in Int /\ 0 < b[i] /\ b[i] < 256
    BY <1>2, Byte
  <1>5. CASE Signed
    <2>1. CASE a[i] > 127 /\ b[i] > 127
      <3>1. char(a, i) = a[i] - 256 /\ char(b, i) = b[i] - 256
        BY <1>3, <1>5, <2>1, Zenon
      <3>2. a[i] - 256 = b[i] - 256 => a[i] = b[i]
        BY <1>2, Bytes, ZenonT(30)
      <3> QED BY <3>1, <3>2
    <2>2. CASE a[i] > 127 /\ ~(b[i] > 127)
      <3>1. char(a, i) = a[i] - 256 /\ char(b, i) = b[i]
        BY <1>3, <1>5, <2>2, Zenon
      <3>2. a[i] - 256 # b[i]
        BY <1>2, Bytes, ZenonT(30)
      <3> QED BY <3>1, <3>2
    <2>3. CASE ~(a[i] > 127) /\ b[i] > 127
      <3>1. char(a, i) = a[i] /\ char(b, i) = b[i] - 256
        BY <1>3, <1>5, <2>3, Zenon
      <3>2. a[i] # b[i] - 256
        BY <1>2, Bytes, ZenonT(30)
      <3> QED BY <3>1, <3>2
    <2>4. CASE ~(a[i] > 127) /\ ~(b[i] > 127)
      BY <1>3, <1>4, <1>5, <2>4
    <2> QED BY <2>1, <2>2, <2>3, <2>4
  <1>6. CASE ~Signed
    BY <1>3, <1>4, <1>6
  <1> QED BY <1>5, <1>6

(* Where two names differ first.                                           *)
LEMMA Differs ==
  ASSUME NEW a \in Names, NEW b \in Names, NEW len \in Nat
  PROVE  /\ \A i, j \in Differ(a, b, len) : i = j
         /\ Differ(a, b, len) = {} => \A i \in 1..len : char(a, i) = char(b, i)
         /\ \A i \in Differ(a, b, len) : i \in 1..len /\ char(a, i) # char(b, i)
         /\ \A more \in Nat : more >= len => Differ(a, b, len) \subseteq Differ(a, b, more)
  <1>1. ASSUME NEW i \in Differ(a, b, len), NEW j \in Differ(a, b, len), i < j
        PROVE  FALSE
    <2>1. i \in 1..j - 1 /\ char(a, i) # char(b, i)
      BY <1>1 DEF Differ
    <2> QED BY <2>1 DEF Differ
  <1>2. \A i, j \in Differ(a, b, len) : i = j
    <2>1. Differ(a, b, len) \subseteq Nat
      BY DEF Differ
    <2> QED BY <1>1, <2>1
  <1>3. ASSUME NEW i \in 1..len, char(a, i) # char(b, i) PROVE Differ(a, b, len) # {}
    <2> DEFINE T == {k \in 1..len : char(a, k) # char(b, k)}
    <2>1. T \in SUBSET Nat /\ i \in T
      BY <1>3
    <2> HIDE DEF T
    <2>2. PICK least \in T : \A m \in T : least <= m
      BY <2>1, LeastNumber
    <2>3. least \in 1..len /\ char(a, least) # char(b, least)
      BY <2>2 DEF T
    <2>4. ASSUME NEW k \in 1..least - 1 PROVE char(a, k) = char(b, k)
      <3>1. k \in 1..len /\ ~(least <= k)
        BY <2>3
      <3> QED BY <2>2, <3>1 DEF T
    <2>5. least \in Differ(a, b, len)
      BY <2>3, <2>4 DEF Differ
    <2> QED BY <2>5
  <1>4. \A more \in Nat : more >= len => Differ(a, b, len) \subseteq Differ(a, b, more)
    BY DEF Differ
  <1>5. \A i \in Differ(a, b, len) : i \in 1..len /\ char(a, i) # char(b, i)
    BY DEF Differ
  <1> QED BY <1>2, <1>3, <1>4, <1>5

(* What the comparisons return.                                            *)
LEMMA Compared ==
  ASSUME NEW a \in Names, NEW b \in Names
  PROVE  /\ \A i \in Differ(a, b, Len(a)) : compare_key(a, b) = Sign(char(a, i), char(b, i))
         /\ Differ(a, b, Len(a)) = {} =>
              compare_key(a, b) = IF Len(b) > Len(a) THEN 1 ELSE 0
         /\ \A i \in Differ(a, b, Len(b)) : compare_key_n(a, b) = Sign(char(a, i), char(b, i))
         /\ Differ(a, b, Len(b)) = {} =>
              compare_key_n(a, b) = IF Len(a) > Len(b) THEN -1 ELSE 0
  <1>1. Len(a) \in Nat /\ Len(b) \in Nat
    BY Chars
  <1>2. ASSUME NEW i \in Differ(a, b, Len(a))
        PROVE  compare_key(a, b) = Sign(char(a, i), char(b, i))
    <2>1. (CHOOSE k \in Differ(a, b, Len(a)) : TRUE) = i
      BY <1>1, Differs
    <2> QED BY <1>2, <2>1 DEF compare_key
  <1>3. ASSUME NEW i \in Differ(a, b, Len(b))
        PROVE  compare_key_n(a, b) = Sign(char(a, i), char(b, i))
    <2>1. (CHOOSE k \in Differ(a, b, Len(b)) : TRUE) = i
      BY <1>1, Differs
    <2> QED BY <1>3, <2>1 DEF compare_key_n
  <1>4. Differ(a, b, Len(a)) = {} => compare_key(a, b) = IF Len(b) > Len(a) THEN 1 ELSE 0
    BY DEF compare_key
  <1>5. Differ(a, b, Len(b)) = {} => compare_key_n(a, b) = IF Len(a) > Len(b) THEN -1 ELSE 0
    BY DEF compare_key_n
  <1> QED BY <1>2, <1>3, <1>4, <1>5

LEMMA Signs ==
  ASSUME NEW x \in Int, NEW y \in Int
  PROVE  /\ Sign(x, y) \in {-1, 0, 1}
         /\ Sign(x, y) = 0 => x = y
         /\ x > y => Sign(x, y) = -1
         /\ x < y => Sign(x, y) = 1
  BY DEF Sign

(* Where one name begins the other, they differ at its end.                *)
LEMMA DifferAtEnd ==
  ASSUME NEW a \in Names, NEW b \in Names,
         Len(a) < Len(b), Differ(a, b, Len(a)) = {}
  PROVE  /\ Len(a) + 1 \in Differ(a, b, Len(b)) /\ Len(a) + 1 \in Differ(b, a, Len(b))
         /\ char(a, Len(a) + 1) = 0
         /\ LongerBehind => char(b, Len(a) + 1) > 0
  <1> DEFINE n == Len(a)
  <1>1. n \in Nat /\ Len(b) \in Nat /\ n + 1 \in 1..Len(b) /\ n \in 0..Len(b)
    BY Chars
  <1>2. char(a, n + 1) = 0 /\ char(b, n + 1) # 0
    BY <1>1, Chars
  <1>3. \A i \in 1..n : char(a, i) = char(b, i)
    BY <1>1, Differs
  <1>4. n + 1 \in Differ(a, b, Len(b)) /\ n + 1 \in Differ(b, a, Len(b))
    <2>1. \A j \in 1..(n + 1) - 1 : j \in 1..n
      BY <1>1
    <2> QED BY <1>1, <1>2, <1>3, <2>1 DEF Differ
  <1>5. ASSUME LongerBehind PROVE char(b, n + 1) > 0
    <2>1. \A i \in 1..n : a[i] = b[i]
      <3> SUFFICES ASSUME NEW i \in 1..n PROVE a[i] = b[i]
        OBVIOUS
      <3>1. i \in 1..Len(b) /\ char(a, i) = char(b, i)
        BY <1>1, <1>3
      <3> QED BY <3>1, SameChars
    <2>2. ~(Signed /\ b[n + 1] > 127)
      BY <1>5, <2>1 DEF LongerBehind, Prefix
    <2> QED BY <1>1, <2>2, Chars
  <1> QED BY <1>2, <1>4, <1>5

LEMMA Comparisons ==
  ASSUME NEW a \in Names, NEW b \in Names
  PROVE  /\ compare_key(a, b) \in {-1, 0, 1}
         /\ compare_key(a, b) = 0 => a = b
         /\ compare_key_n(a, b) \in {-1, 0, 1}
         /\ compare_key_n(a, a) = 0
         /\ compare_key(a, a) = 0
         /\ LongerBehind => compare_key_n(a, b) = compare_key(a, b)
  <1>1. Len(a) \in Nat /\ Len(b) \in Nat
    BY Chars
  <1>2. ASSUME NEW n \in Nat, NEW i \in Differ(a, b, n)
        PROVE  /\ Sign(char(a, i), char(b, i)) \in {-1, 1}
               /\ \A m \in Nat : i <= m => i \in Differ(a, b, m)
    <2>1. i \in 1..n /\ char(a, i) # char(b, i)
      BY <1>2, Differs
    <2>2. char(a, i) \in Int /\ char(b, i) \in Int
      BY <2>1, Chars
    <2>3. \A m \in Nat : i <= m => i \in Differ(a, b, m)
      BY <2>1 DEF Differ
    <2> QED BY <2>1, <2>2, <2>3, Signs
  <1>3. compare_key(a, b) \in {-1, 0, 1}
    <2>1. CASE Differ(a, b, Len(a)) = {}
      BY <2>1, Compared
    <2>2. ASSUME NEW i \in Differ(a, b, Len(a)) PROVE compare_key(a, b) \in {-1, 0, 1}
      BY <1>1, <1>2, Compared
    <2> QED BY <2>1, <2>2
  <1>4. compare_key_n(a, a) = 0 /\ compare_key(a, a) = 0
    <2>1. Differ(a, a, Len(a)) = {}
      BY DEF Differ
    <2>2. ~(Len(a) > Len(a))
      BY <1>1
    <2> QED BY <2>1, <2>2, Compared
  <1>5. ASSUME compare_key(a, b) = 0 PROVE a = b
    <2>1. Differ(a, b, Len(a)) = {}
      <3> SUFFICES ASSUME NEW i \in Differ(a, b, Len(a)) PROVE FALSE
        OBVIOUS
      <3>1. compare_key(a, b) = Sign(char(a, i), char(b, i))
        BY Compared
      <3>2. Sign(char(a, i), char(b, i)) \in {-1, 1}
        BY <1>1, <1>2
      <3> QED BY <1>5, <3>1, <3>2
    <2>2. ~(Len(b) > Len(a))
      BY <1>5, <2>1, Compared
    <2>3. \A i \in 1..Len(a) : char(a, i) = char(b, i)
      BY <1>1, <2>1, Differs
    <2>4. Len(a) = Len(b)
      <3> SUFFICES ASSUME Len(b) < Len(a) PROVE FALSE
        BY <1>1, <2>2
      <3>1. Len(b) + 1 \in 1..Len(a)
        BY <1>1
      <3>2. char(b, Len(b) + 1) = 0 /\ char(a, Len(b) + 1) # 0
        BY <3>1, Chars
      <3> QED BY <2>3, <3>1, <3>2
    <2>5. \A i \in 1..Len(a) : a[i] = b[i]
      BY <2>3, <2>4, SameChars
    <2>6. a \in Seq(1..255) /\ b \in Seq(1..255)
      BY NamesAssumption
    <2> QED BY <2>4, <2>5, <2>6, SeqEqual
  <1>6. ASSUME LongerBehind PROVE compare_key_n(a, b) = compare_key(a, b)
    <2>1. ASSUME NEW i \in Differ(a, b, Len(a)), i <= Len(b)
          PROVE  compare_key_n(a, b) = compare_key(a, b)
      <3>1. i \in Differ(a, b, Len(b))
        BY <1>1, <1>2, <2>1
      <3> QED BY <2>1, <3>1, Compared
    <2>2. ASSUME NEW i \in Differ(a, b, Len(b)), i <= Len(a)
          PROVE  compare_key_n(a, b) = compare_key(a, b)
      <3>1. i \in Differ(a, b, Len(a))
        BY <1>1, <1>2, <2>2
      <3> QED BY <2>2, <3>1, Compared
    <2>3. CASE Differ(a, b, Len(a)) = {} /\ Differ(a, b, Len(b)) = {}
      <3>1. ASSUME Len(a) < Len(b) PROVE FALSE
        BY <2>3, <3>1, DifferAtEnd
      <3>2. ASSUME Len(b) < Len(a) PROVE FALSE
        <4>1. Differ(b, a, Len(b)) = {}
          BY <2>3 DEF Differ
        <4> QED BY <2>3, <3>2, <4>1, DifferAtEnd
      <3>3. ~(Len(b) > Len(a)) /\ ~(Len(a) > Len(b))
        BY <1>1, <3>1, <3>2
      <3> QED BY <2>3, <3>3, Compared
    <2>4. CASE Differ(a, b, Len(a)) = {} /\ Len(b) > Len(a)
      <3>1. /\ Len(a) + 1 \in Differ(a, b, Len(b))
            /\ char(a, Len(a) + 1) = 0 /\ char(b, Len(a) + 1) > 0
        BY <1>1, <1>6, <2>4, DifferAtEnd
      <3>2. Len(a) + 1 \in Nat \ {0}
        BY <1>1
      <3>3. char(b, Len(a) + 1) \in Int
        BY <3>2, Chars
      <3>4. Sign(char(a, Len(a) + 1), char(b, Len(a) + 1)) = 1
        BY <3>1, <3>3 DEF Sign
      <3>5. compare_key(a, b) = 1
        BY <2>4, Compared
      <3> QED BY <3>1, <3>4, <3>5, Compared
    <2>5. CASE Differ(a, b, Len(b)) = {} /\ Len(a) > Len(b)
      <3>1. Differ(b, a, Len(b)) = {}
        BY <2>5 DEF Differ
      <3>2. /\ Len(b) + 1 \in Differ(a, b, Len(a))
            /\ char(b, Len(b) + 1) = 0 /\ char(a, Len(b) + 1) > 0
        BY <1>1, <1>6, <2>5, <3>1, DifferAtEnd
      <3>3. Len(b) + 1 \in Nat \ {0}
        BY <1>1
      <3>4. char(a, Len(b) + 1) \in Int
        BY <3>3, Chars
      <3>5. Sign(char(a, Len(b) + 1), char(b, Len(b) + 1)) = -1
        BY <3>2, <3>4 DEF Sign
      <3>6. compare_key_n(a, b) = -1
        BY <2>5, Compared
      <3> QED BY <3>2, <3>5, <3>6, Compared
    <2>6. \A i \in Differ(a, b, Len(a)) : i \in 1..Len(a)
      BY <1>1, Differs
    <2>7. \A i \in Differ(a, b, Len(b)) : i \in 1..Len(b)
      BY <1>1, Differs
    <2>8. CASE Len(a) <= Len(b)
      <3>1. CASE Differ(a, b, Len(a)) # {}
        BY <1>1, <2>1, <2>6, <2>8, <3>1
      <3>2. CASE Differ(a, b, Len(a)) = {} /\ Len(a) = Len(b)
        BY <2>3, <3>2
      <3> QED BY <1>1, <2>4, <2>8, <3>1, <3>2
    <2>9. CASE Len(b) < Len(a)
      <3>1. CASE Differ(a, b, Len(b)) # {}
        BY <1>1, <2>2, <2>7, <2>9, <3>1
      <3> QED BY <1>1, <2>5, <2>9, <3>1
    <2> QED BY <1>1, <2>8, <2>9
  <1>7. compare_key_n(a, b) \in {-1, 0, 1}
    <2>1. CASE Differ(a, b, Len(b)) = {}
      BY <2>1, Compared
    <2>2. ASSUME NEW i \in Differ(a, b, Len(b)) PROVE compare_key_n(a, b) \in {-1, 0, 1}
      BY <1>1, <1>2, Compared
    <2> QED BY <2>1, <2>2
  <1> QED BY <1>3, <1>4, <1>5, <1>6, <1>7

LEMMA SameName ==
  ASSUME NEW a \in Names, NEW b \in Names, compare_key_n(a, b) = 0
  PROVE  a = b
  <1>1. Len(a) \in Nat /\ Len(b) \in Nat
    BY Chars
  <1>2. Differ(a, b, Len(b)) = {}
    <2> SUFFICES ASSUME NEW i \in Differ(a, b, Len(b)) PROVE FALSE
      OBVIOUS
    <2>1. compare_key_n(a, b) = Sign(char(a, i), char(b, i))
      BY Compared
    <2>2. i \in 1..Len(b) /\ char(a, i) # char(b, i)
      BY <1>1, Differs
    <2>3. char(a, i) \in Int /\ char(b, i) \in Int
      BY <1>1, <2>2, Chars
    <2> QED BY <2>1, <2>2, <2>3, Signs
  <1>3. ~(Len(a) > Len(b))
    BY <1>2, Compared
  <1>4. \A i \in 1..Len(b) : char(a, i) = char(b, i)
    BY <1>1, <1>2, Differs
  <1>5. Len(a) = Len(b)
    <2> SUFFICES ASSUME Len(a) < Len(b) PROVE FALSE
      BY <1>1, <1>3
    <2>1. Len(a) + 1 \in 1..Len(b)
      BY <1>1
    <2>2. char(a, Len(a) + 1) = 0 /\ char(b, Len(a) + 1) # 0
      BY <2>1, Chars
    <2> QED BY <1>4, <2>1, <2>2
  <1>6. \A i \in 1..Len(a) : a[i] = b[i]
    BY <1>4, <1>5, SameChars
  <1>7. a \in Seq(1..255) /\ b \in Seq(1..255)
    BY NamesAssumption
  <1> QED BY <1>5, <1>6, <1>7, SeqEqual

-----------------------------------------------------------------------------
(* Heaps of nodes, and lookups in them.                                    *)

Sides == {"left", "right"}

(* The side of a name on which another is.                                 *)
Turn(order) == IF order < 0 THEN "left" ELSE "right"

Heap(N, K) ==
  /\ N \in Seq([key : 1..Len(K), left : 0..Len(N), right : 0..Len(N)])
  /\ K \in Seq([name : Names, map : 0..Len(N)])

NameAt(N, K, m) == K[N[m].key].name

LEMMA HeapTypes ==
  ASSUME NEW N, NEW K, Heap(N, K)
  PROVE  /\ Len(N) \in Nat /\ Len(K) \in Nat
         /\ \A m \in 1..Len(N) :
              /\ N[m] \in [key : 1..Len(K), left : 0..Len(N), right : 0..Len(N)]
              /\ N[m].key \in 1..Len(K)
              /\ \A side \in Sides : N[m][side] \in 0..Len(N)
              /\ NameAt(N, K, m) \in Names
         /\ \A k \in 1..Len(K) : K[k].name \in Names /\ K[k].map \in 0..Len(N)
  <1>1. Len(N) \in Nat /\ Len(K) \in Nat
    BY LenProperties DEF Heap
  <1>2. \A m \in 1..Len(N) : N[m] \in [key : 1..Len(K), left : 0..Len(N), right : 0..Len(N)]
    BY ElementOfSeq DEF Heap
  <1>3. \A k \in 1..Len(K) : K[k] \in [name : Names, map : 0..Len(N)]
    BY ElementOfSeq DEF Heap
  <1> QED BY <1>1, <1>2, <1>3 DEF Sides, NameAt

(* No node is below itself: there is a number for each node, larger than   *)
(* those of its children.                                                  *)
Numbered(N, rank, bound) ==
  /\ bound \in Nat
  /\ rank \in [1..Len(N) -> 0..bound]
  /\ \A m \in 1..Len(N) : \A side \in Sides :
       N[m][side] # NULL => rank[N[m][side]] < rank[m]

(* What holds of a node when it holds of its children, holds of all.       *)
LEMMA FromTheLeaves ==
  ASSUME NEW N, NEW K, Heap(N, K), NEW rank, NEW bound, Numbered(N, rank, bound),
         NEW T,
         \A m \in 1..Len(N) :
           (\A side \in Sides : N[m][side] # NULL => N[m][side] \in T) => m \in T
  PROVE  \A m \in 1..Len(N) : m \in T
  <1> SUFFICES ASSUME NEW m \in 1..Len(N), m \notin T PROVE FALSE
    OBVIOUS
  <1> DEFINE R == {r \in Nat : \E x \in 1..Len(N) : x \notin T /\ rank[x] = r}
  <1>1. \A x \in 1..Len(N) : rank[x] \in Nat
    <2>1. bound \in Nat /\ rank \in [1..Len(N) -> 0..bound]
      BY DEF Numbered
    <2> QED BY <2>1
  <1>2. R \in SUBSET Nat /\ rank[m] \in R
    BY <1>1
  <1> HIDE DEF R
  <1>3. PICK least \in R : \A r \in R : least <= r
    BY <1>2, LeastNumber
  <1>4. PICK x \in 1..Len(N) : x \notin T /\ rank[x] = least
    BY <1>3 DEF R
  <1>5. ASSUME NEW side \in Sides, N[x][side] # NULL PROVE N[x][side] \in T
    <2> DEFINE c == N[x][side]
    <2>1. c \in 1..Len(N)
      BY <1>5, HeapTypes DEF NULL
    <2>2. rank[c] < least
      BY <1>4, <1>5 DEF Numbered
    <2> HIDE DEF c
    <2>3. rank[c] \notin R
      BY <1>1, <1>2, <1>3, <2>1, <2>2
    <2>4. c \in T
      BY <1>1, <2>1, <2>3 DEF R
    <2> QED BY <2>4 DEF c
  <1> QED BY <1>4, <1>5

(* The function that map_lookup_n defines, in a heap.                      *)
Body(f, N, K, src, m) ==
  IF m = NULL THEN NULL
  ELSE LET order == compare_key_n(K[N[m].key].name, src)
       IN  CASE order < 0 -> f[N[m].left]
             [] order > 0 -> f[N[m].right]
             [] OTHER     -> N[m].key

IsFind(f, N, K, src) == f = [m \in 0..Len(N) |-> Body(f, N, K, src, m)]

Lookup(N, K, map, src) == (CHOOSE f : IsFind(f, N, K, src))[map]

LEMMA BodyTurns ==
  ASSUME NEW N, NEW K, Heap(N, K), NEW src \in Names, NEW m \in 1..Len(N), NEW f
  PROVE  LET order == compare_key_n(NameAt(N, K, m), src) IN
         /\ Turn(order) \in Sides
         /\ Body(f, N, K, src, m) =
              IF order = 0 THEN N[m].key ELSE f[N[m][Turn(order)]]
  <1> DEFINE order == compare_key_n(NameAt(N, K, m), src)
  <1>1. order \in {-1, 0, 1}
    BY HeapTypes, Comparisons
  <1>2. Body(f, N, K, src, m) =
          CASE order < 0 -> f[N[m].left] [] order > 0 -> f[N[m].right] [] OTHER -> N[m].key
    BY HeapTypes DEF Body, NameAt, NULL
  <1> HIDE DEF order
  <1>3. Turn(order) \in Sides
    BY DEF Turn, Sides
  <1>4. Body(f, N, K, src, m) = IF order = 0 THEN N[m].key ELSE f[N[m][Turn(order)]]
    <2>1. CASE order = -1
      <3>1. Body(f, N, K, src, m) = f[N[m].left] /\ Turn(order) = "left"
        BY <1>2, <2>1 DEF Turn
      <3> QED BY <2>1, <3>1
    <2>2. CASE order = 0
      BY <1>2, <2>2
    <2>3. CASE order = 1
      <3>1. Body(f, N, K, src, m) = f[N[m].right] /\ Turn(order) = "right"
        BY <1>2, <2>3 DEF Turn
      <3> QED BY <2>3, <3>1
    <2> QED BY <1>1, <2>1, <2>2, <2>3
  <1> QED BY <1>3, <1>4 DEF order

(* A lookup ends, as no node is below itself.                              *)
LEMMA FindExists ==
  ASSUME NEW N, NEW K, Heap(N, K), NEW rank, NEW bound, Numbered(N, rank, bound),
         NEW src \in Names
  PROVE  IsFind(CHOOSE f : IsFind(f, N, K, src), N, K, src)
  <1> DEFINE F == [0..Len(N) -> 0..Len(K)]
             Partly(f, r) == /\ f \in F
                             /\ f[NULL] = NULL
                             /\ \A m \in 1..Len(N) : rank[m] < r => f[m] = Body(f, N, K, src, m)
  <1>1. /\ bound \in Nat /\ Len(N) \in Nat /\ Len(K) \in Nat
        /\ \A m \in 1..Len(N) : rank[m] \in 0..bound
        /\ \A m \in 1..Len(N) : \A side \in Sides :
             /\ N[m][side] \in 0..Len(N)
             /\ N[m][side] # NULL => rank[N[m][side]] < rank[m]
    BY HeapTypes DEF Numbered
  <1>2. ASSUME NEW f \in F, NEW m \in 1..Len(N) PROVE Body(f, N, K, src, m) \in 0..Len(K)
    <2>1. N[m].key \in 0..Len(K)
      BY <1>1, HeapTypes
    <2> QED BY <1>1, <2>1, BodyTurns
  <1>3. ASSUME NEW f \in F, NEW g \in F, NEW m \in 1..Len(N), f[NULL] = g[NULL],
               \A x \in 1..Len(N) : rank[x] < rank[m] => f[x] = g[x]
        PROVE  Body(f, N, K, src, m) = Body(g, N, K, src, m)
    <2>1. ASSUME NEW side \in Sides PROVE f[N[m][side]] = g[N[m][side]]
      <3>1. CASE N[m][side] = NULL
        BY <1>3, <3>1
      <3>2. CASE N[m][side] # NULL
        <4>1. N[m][side] \in 1..Len(N) /\ rank[N[m][side]] < rank[m]
          BY <1>1, <3>2 DEF NULL
        <4> QED BY <1>3, <4>1
      <3> QED BY <3>1, <3>2
    <2> QED BY <2>1, BodyTurns
  <1>4. ASSUME NEW r \in Nat, NEW f, Partly(f, r) PROVE \E g : Partly(g, r + 1)
    <2> DEFINE g == [m \in 0..Len(N) |-> IF m # NULL /\ rank[m] = r THEN Body(f, N, K, src, m)
                                         ELSE f[m]]
    <2>1. f \in F /\ f[NULL] = NULL
      BY <1>4
    <2>2. \A m \in 0..Len(N) : m # NULL => m \in 1..Len(N)
      BY <1>1 DEF NULL
    <2>3. g \in F
      BY <1>2, <2>1, <2>2
    <2>4. g[NULL] = NULL
      BY <1>1, <2>1 DEF NULL
    <2>5. ASSUME NEW m \in 1..Len(N), rank[m] < r + 1 PROVE g[m] = Body(g, N, K, src, m)
      <3>1. rank[m] \in Nat /\ m \in 0..Len(N) /\ m # NULL
        BY <1>1 DEF NULL
      <3>2. \A x \in 1..Len(N) : rank[x] < rank[m] => f[x] = g[x]
        <4> SUFFICES ASSUME NEW x \in 1..Len(N), rank[x] < rank[m] PROVE f[x] = g[x]
          OBVIOUS
        <4>1. rank[x] \in Nat /\ x \in 0..Len(N)
          BY <1>1
        <4>2. rank[x] # r
          BY <2>5, <3>1, <4>1
        <4> QED BY <4>1, <4>2
      <3> HIDE DEF g
      <3>3. Body(f, N, K, src, m) = Body(g, N, K, src, m)
        BY <1>3, <2>1, <2>3, <2>4, <3>2
      <3>4. CASE rank[m] = r
        BY <3>1, <3>3, <3>4 DEF g
      <3>5. CASE rank[m] # r
        <4>1. rank[m] < r
          BY <2>5, <3>1, <3>5
        <4>2. f[m] = Body(f, N, K, src, m)
          BY <1>4, <4>1
        <4> QED BY <3>1, <3>3, <3>5, <4>2 DEF g
      <3> QED BY <3>4, <3>5
    <2> HIDE DEF g
    <2> QED BY <2>3, <2>4, <2>5
  <1>5. \E f : Partly(f, 0)
    <2> DEFINE f == [m \in 0..Len(N) |-> 0]
    <2>1. f \in F /\ f[NULL] = NULL
      BY <1>1 DEF NULL
    <2>2. \A m \in 1..Len(N) : ~(rank[m] < 0)
      BY <1>1
    <2> HIDE DEF f
    <2> QED BY <2>1, <2>2
  <1> HIDE DEF Partly
  <1>6. \A r \in Nat : \E f : Partly(f, r)
    <2> DEFINE T == {r \in Nat : \E f : Partly(f, r)}
    <2>1. 0 \in T /\ \A r \in Nat : r \in T => r + 1 \in T
      BY <1>4, <1>5
    <2> HIDE DEF T
    <2>2. \A r \in Nat : r \in T
      BY <2>1, Counting
    <2> QED BY <2>2 DEF T
  <1>7. PICK f : Partly(f, bound + 1)
    BY <1>1, <1>6
  <1>8. f \in F /\ f[NULL] = NULL
    BY <1>7 DEF Partly
  <1>9. \A m \in 0..Len(N) : f[m] = Body(f, N, K, src, m)
    <2>1. \A m \in 1..Len(N) : rank[m] < bound + 1
      BY <1>1
    <2>2. \A m \in 1..Len(N) : f[m] = Body(f, N, K, src, m)
      BY <1>7, <2>1 DEF Partly
    <2>3. \A m \in 0..Len(N) : m \in 1..Len(N) \/ m = NULL
      BY <1>1 DEF NULL
    <2>4. Body(f, N, K, src, NULL) = NULL
      BY DEF Body
    <2> QED BY <1>8, <2>2, <2>3, <2>4
  <1>10. IsFind(f, N, K, src)
    BY <1>8, <1>9 DEF IsFind
  <1> QED BY <1>10

(* What a lookup returns.                                                  *)
LEMMA Lookups ==
  ASSUME NEW N, NEW K, Heap(N, K), NEW rank, NEW bound, Numbered(N, rank, bound),
         NEW src \in Names
  PROVE  /\ Lookup(N, K, NULL, src) = NULL
         /\ \A m \in 1..Len(N) :
              LET order == compare_key_n(NameAt(N, K, m), src) IN
              /\ Turn(order) \in Sides
              /\ order = 0 => Lookup(N, K, m, src) = N[m].key
              /\ order # 0 => Lookup(N, K, m, src) = Lookup(N, K, N[m][Turn(order)], src)
  <1> DEFINE f == CHOOSE f : IsFind(f, N, K, src)
  <1>1. IsFind(f, N, K, src)
    BY FindExists
  <1>2. \A map : Lookup(N, K, map, src) = f[map]
    BY DEF Lookup
  <1> HIDE DEF f
  <1>3. \A m \in 0..Len(N) : f[m] = Body(f, N, K, src, m)
    BY <1>1 DEF IsFind
  <1>4. Lookup(N, K, NULL, src) = NULL
    <2>1. NULL \in 0..Len(N)
      BY HeapTypes DEF NULL
    <2> QED BY <1>2, <1>3, <2>1 DEF Body
  <1>5. ASSUME NEW m \in 1..Len(N)
        PROVE  LET order == compare_key_n(NameAt(N, K, m), src) IN
               /\ Turn(order) \in Sides
               /\ order = 0 => Lookup(N, K, m, src) = N[m].key
               /\ order # 0 => Lookup(N, K, m, src) = Lookup(N, K, N[m][Turn(order)], src)
    <2>1. m \in 0..Len(N)
      BY HeapTypes
    <2>2. f[m] = Body(f, N, K, src, m)
      BY <1>3, <2>1
    <2> QED BY <1>2, <2>2, BodyTurns
  <1> QED BY <1>4, <1>5

LEMMA LookupIs ==
  /\ \A map, src : map_lookup_n(map, src) = Lookup(nodes, keys, map, src)
  /\ \A map, src : map_lookup_n(map, src)' = Lookup(nodes', keys', map, src)
  <1>1. ASSUME NEW map, NEW src
        PROVE  map_lookup_n(map, src) = Lookup(nodes, keys, map, src)
    BY DEF map_lookup_n, Lookup, IsFind, Body
  <1>2. ASSUME NEW map, NEW src
        PROVE  map_lookup_n(map, src)' = Lookup(nodes', keys', map, src)
    BY DEF map_lookup_n, Lookup, IsFind, Body
  <1> QED BY <1>1, <1>2

-----------------------------------------------------------------------------
(* The nodes of a map are in every set that has its root and, with a node, *)
(* the node's children.                                                    *)

IsWithin(f, map) ==
  f = [depth \in 0..Len(nodes) |->
         IF depth = 0 THEN {map} \ {NULL}
         ELSE LET above == f[depth - 1]
              IN  above \union UNION {Children(m) : m \in above}]

LEMMA WithinExists ==
  ASSUME Heap(nodes, keys), NEW map \in 0..Len(nodes)
  PROVE  IsWithin(CHOOSE f : IsWithin(f, map), map)
  <1> DEFINE n == Len(nodes)
             More(above) == above \union UNION {Children(m) : m \in above}
             F == [0..n -> SUBSET (1..n)]
             Partly(f, r) == /\ f \in F
                             /\ f[0] = {map} \ {NULL}
                             /\ \A d \in 1..n : d <= r => f[d] = More(f[d - 1])
  <1>1. n \in Nat
    BY HeapTypes
  <1>2. ASSUME NEW above \in SUBSET (1..n) PROVE More(above) \in SUBSET (1..n)
    <2>1. ASSUME NEW m \in above PROVE Children(m) \subseteq 1..n
      <3>1. nodes[m] \in [key : 1..Len(keys), left : 0..n, right : 0..n]
        BY HeapTypes
      <3>2. nodes[m].left \in 0..n /\ nodes[m].right \in 0..n
        BY <3>1
      <3> QED BY <1>1, <3>2 DEF Children, NULL
    <2> QED BY <2>1
  <1> HIDE DEF More, n
  <1>3. ASSUME NEW r \in Nat, NEW f, Partly(f, r) PROVE \E g : Partly(g, r + 1)
    <2> DEFINE g == [d \in 0..n |-> IF d = r + 1 THEN More(f[d - 1]) ELSE f[d]]
    <2>1. f \in F /\ f[0] = {map} \ {NULL}
      BY <1>3
    <2>2. ASSUME NEW d \in 0..n PROVE g[d] \in SUBSET (1..n)
      <3>1. CASE d = r + 1
        <4>1. d - 1 \in 0..n
          BY <1>1, <3>1
        <4> QED BY <1>2, <2>1, <3>1, <4>1
      <3>2. CASE d # r + 1
        BY <2>1, <3>2
      <3> QED BY <3>1, <3>2
    <2>3. g \in F
      BY <2>2
    <2>4. g[0] = {map} \ {NULL}
      <3>1. 0 \in 0..n /\ 0 # r + 1
        BY <1>1
      <3> QED BY <2>1, <3>1
    <2>5. ASSUME NEW d \in 1..n, d <= r + 1 PROVE g[d] = More(g[d - 1])
      <3>1. d \in 0..n /\ d - 1 \in 0..n /\ d - 1 # r + 1
        BY <1>1, <2>5
      <3>2. g[d - 1] = f[d - 1]
        BY <3>1
      <3>3. CASE d = r + 1
        <4>1. g[d] = More(f[d - 1])
          BY <3>1, <3>3
        <4> QED BY <3>2, <4>1
      <3>4. CASE d # r + 1
        <4>1. d <= r
          BY <2>5, <3>4
        <4>2. g[d] = f[d] /\ f[d] = More(f[d - 1])
          BY <1>3, <3>1, <3>4, <4>1
        <4> QED BY <3>2, <4>2
      <3> QED BY <3>3, <3>4
    <2> HIDE DEF g
    <2> QED BY <2>3, <2>4, <2>5
  <1>4. \E f : Partly(f, 0)
    <2> DEFINE f == [d \in 0..n |-> {map} \ {NULL}]
    <2>1. f \in F
      BY <1>1 DEF NULL, n
    <2>2. f[0] = {map} \ {NULL}
      BY <1>1
    <2>3. \A d \in 1..n : ~(d <= 0)
      BY <1>1
    <2> HIDE DEF f
    <2> QED BY <2>1, <2>2, <2>3
  <1> HIDE DEF Partly
  <1>5. \A r \in Nat : \E f : Partly(f, r)
    <2> DEFINE T == {r \in Nat : \E f : Partly(f, r)}
    <2>1. 0 \in T /\ \A r \in Nat : r \in T => r + 1 \in T
      BY <1>3, <1>4
    <2> HIDE DEF T
    <2>2. \A r \in Nat : r \in T
      BY <2>1, Counting
    <2> QED BY <2>2 DEF T
  <1>6. PICK f : Partly(f, n)
    BY <1>1, <1>5
  <1>7. f \in F /\ f[0] = {map} \ {NULL} /\ \A d \in 1..n : f[d] = More(f[d - 1])
    BY <1>1, <1>6 DEF Partly
  <1>8. \A d \in 0..n : f[d] = IF d = 0 THEN {map} \ {NULL} ELSE More(f[d - 1])
    <2>1. \A d \in 0..n : d = 0 \/ (d # 0 /\ d \in 1..n)
      BY <1>1
    <2> QED BY <1>7, <2>1
  <1>9. IsWithin(f, map)
    BY <1>7, <1>8 DEF IsWithin, More, n
  <1> QED BY <1>9

LEMMA ReachWithin ==
  ASSUME Heap(nodes, keys), NEW map \in 0..Len(nodes), NEW T,
         map # NULL => map \in T,
         \A m \in T : m \in 1..Len(nodes) /\
           \A side \in Sides : nodes[m][side] # NULL => nodes[m][side] \in T
  PROVE  Reach(map) \subseteq T
  <1> DEFINE n == Len(nodes)
             f == CHOOSE f : IsWithin(f, map)
  <1>1. n \in Nat
    BY HeapTypes
  <1>2. IsWithin(f, map)
    BY WithinExists
  <1>3. Reach(map) = f[n]
    BY DEF Reach, IsWithin
  <1> HIDE DEF f
  <1>4. ASSUME NEW m \in T PROVE Children(m) \subseteq T
    <2>1. /\ nodes[m]["left"] # NULL => nodes[m]["left"] \in T
          /\ nodes[m]["right"] # NULL => nodes[m]["right"] \in T
      BY DEF Sides
    <2> QED BY <2>1 DEF Children
  <1>5. \A d \in Nat : d <= n => f[d] \subseteq T
    <2> DEFINE Inside == {d \in Nat : d <= n => f[d] \subseteq T}
    <2>1. 0 \in Inside
      <3>1. f[0] = {map} \ {NULL}
        BY <1>1, <1>2 DEF IsWithin
      <3> QED BY <3>1
    <2>2. ASSUME NEW d \in Nat, d \in Inside PROVE d + 1 \in Inside
      <3> SUFFICES ASSUME d + 1 <= n PROVE f[d + 1] \subseteq T
        OBVIOUS
      <3>1. d + 1 \in 0..n /\ d <= n /\ d + 1 # 0 /\ (d + 1) - 1 = d
        BY <1>1
      <3>2. f[d + 1] = f[d] \union UNION {Children(m) : m \in f[d]}
        BY <1>2, <3>1 DEF IsWithin
      <3>3. f[d] \subseteq T
        BY <2>2, <3>1
      <3> QED BY <1>4, <3>2, <3>3
    <2> HIDE DEF Inside
    <2>3. \A d \in Nat : d \in Inside
      BY <2>1, <2>2, Counting
    <2> QED BY <2>3 DEF Inside
  <1> QED BY <1>1, <1>3, <1>5

-----------------------------------------------------------------------------
(* What the steps do to the heap.                                          *)

NodeIn(K, n) == [key : 1..Len(K), left : 0..n, right : 0..n]

Grows(s, before, x) == s = Append(before, x)

LEMMA SidesOf ==
  /\ \A side \in Sides : side = "left" \/ side = "right"
  /\ "left" \in Sides /\ "right" \in Sides
  BY DEF Sides

(* A node more.                                                            *)
LEMMA HeapAppend ==
  ASSUME NEW N, NEW K, Heap(N, K), NEW x \in NodeIn(K, Len(N))
  PROVE  /\ Heap(Append(N, x), K)
         /\ Len(Append(N, x)) = Len(N) + 1
         /\ \A m \in 1..Len(N) : Append(N, x)[m] = N[m]
         /\ Append(N, x)[Len(N) + 1] = x
  <1> DEFINE n == Len(N)
             N2 == Append(N, x)
  <1>1. n \in Nat /\ N \in Seq(NodeIn(K, n)) /\ K \in Seq([name : Names, map : 0..n])
    BY HeapTypes DEF Heap, NodeIn
  <1>2. /\ Len(N2) = n + 1 /\ N2[n + 1] = x /\ \A m \in 1..n : N2[m] = N[m]
        /\ N2 \in Seq(NodeIn(K, n))
    BY <1>1, Appended
  <1> HIDE DEF n, N2
  <1>3. 0..n \subseteq 0..n + 1
    BY <1>1
  <1>4. NodeIn(K, n) \subseteq NodeIn(K, n + 1)
    BY <1>3 DEF NodeIn
  <1>5. [name : Names, map : 0..n] \subseteq [name : Names, map : 0..n + 1]
    BY <1>3
  <1>6. N2 \in Seq(NodeIn(K, n + 1)) /\ K \in Seq([name : Names, map : 0..n + 1])
    BY <1>1, <1>2, <1>4, <1>5, SeqMonotonic
  <1>7. Heap(N2, K)
    BY <1>2, <1>6 DEF Heap, NodeIn
  <1> QED BY <1>2, <1>7 DEF n, N2

(* A key more.                                                             *)
LEMMA KeyAppend ==
  ASSUME NEW N, NEW K, Heap(N, K), NEW k \in [name : Names, map : 0..Len(N)]
  PROVE  /\ Heap(N, Append(K, k))
         /\ Len(Append(K, k)) = Len(K) + 1
         /\ Append(K, k) # <<>>
         /\ Last(Append(K, k)) = k
         /\ Front(Append(K, k)) = K
         /\ \A m \in 1..Len(N) : NameAt(N, Append(K, k), m) = NameAt(N, K, m)
         /\ \A i \in 1..Len(K) : Append(K, k)[i] = K[i]
  <1> DEFINE R == [name : Names, map : 0..Len(N)]
             K2 == Append(K, k)
  <1>1. Len(N) \in Nat /\ Len(K) \in Nat /\ K \in Seq(R) /\ N \in Seq(NodeIn(K, Len(N)))
    BY HeapTypes DEF Heap, NodeIn
  <1> HIDE DEF R
  <1>2. k \in R
    BY DEF R
  <1>3. /\ K2 \in Seq(R) /\ Len(K2) = Len(K) + 1 /\ K2 # <<>>
        /\ K2[Len(K) + 1] = k /\ \A i \in 1..Len(K) : K2[i] = K[i]
    BY <1>1, <1>2, Appended
  <1>4. 1..Len(K) \subseteq 1..Len(K2)
    BY <1>1, <1>3
  <1>5. NodeIn(K, Len(N)) \subseteq NodeIn(K2, Len(N))
    BY <1>4 DEF NodeIn
  <1>6. N \in Seq(NodeIn(K2, Len(N)))
    BY <1>1, <1>5, SeqMonotonic
  <1>7. Heap(N, K2)
    BY <1>3, <1>6 DEF Heap, NodeIn, R
  <1>8. Last(K2) = k
    BY <1>3 DEF Last
  <1>9. Front(K2) = K
    <2>1. /\ Front(K2) \in Seq(R) /\ Len(Front(K2)) = Len(K2) - 1
          /\ \A i \in 1..Len(K2) - 1 : Front(K2)[i] = K2[i]
      BY <1>3, FrontLast
    <2>2. Len(K2) - 1 = Len(K)
      BY <1>1, <1>3
    <2>3. Len(Front(K2)) = Len(K) /\ \A i \in 1..Len(K) : Front(K2)[i] = K[i]
      BY <1>3, <2>1, <2>2
    <2> QED BY <1>1, <2>1, <2>3, SeqEqual
  <1>10. \A m \in 1..Len(N) : NameAt(N, K2, m) = NameAt(N, K, m)
    BY <1>3, HeapTypes DEF NameAt
  <1> QED BY <1>3, <1>7, <1>8, <1>9, <1>10

WithChild(N, at, side, x) == Append([N EXCEPT ![at][side] = Len(N) + 1], x)

Gets(N2, N, at, side, x) == N2 = WithChild(N, at, side, x)

(* All that is left of the old heap, with a new child x of its last node.  *)
Extended(N2, N, side, x) ==
  /\ Len(N2) = Len(N) + 1
  /\ N2[Len(N) + 1] = x
  /\ \A m \in 1..Len(N) - 1 : N2[m] = N[m]
  /\ N2[Len(N)].key = N[Len(N)].key
  /\ N2[Len(N)][side] = Len(N) + 1
  /\ \A other \in Sides : other # side => N2[Len(N)][other] = N[Len(N)][other]

(* A node gets a new child.                                                *)
LEMMA HeapChild ==
  ASSUME NEW N, NEW K, Heap(N, K), NEW at \in 1..Len(N), NEW side \in Sides,
         NEW x \in NodeIn(K, Len(N))
  PROVE  LET N2 == WithChild(N, at, side, x) IN
         /\ Heap(N2, K)
         /\ Len(N2) = Len(N) + 1
         /\ N2[Len(N) + 1] = x
         /\ \A m \in 1..Len(N) : m # at => N2[m] = N[m]
         /\ N2[at].key = N[at].key
         /\ N2[at][side] = Len(N) + 1
         /\ \A other \in Sides : other # side => N2[at][other] = N[at][other]
  <1> DEFINE n == Len(N)
             y == [N[at] EXCEPT ![side] = n + 1]
             M == [N EXCEPT ![at] = y]
             N2 == Append(M, x)
  <1>1. n \in Nat /\ N \in Seq(NodeIn(K, n)) /\ K \in Seq([name : Names, map : 0..n])
    BY HeapTypes DEF Heap, NodeIn
  <1>2. 0..n \subseteq 0..n + 1 /\ n + 1 \in 0..n + 1
    BY <1>1
  <1>3. NodeIn(K, n) \subseteq NodeIn(K, n + 1)
    BY <1>2 DEF NodeIn
  <1>4. N \in Seq(NodeIn(K, n + 1)) /\ N[at] \in NodeIn(K, n)
    BY <1>1, <1>3, SeqMonotonic, ElementOfSeq
  <1>5. /\ y \in NodeIn(K, n + 1) /\ y.key = N[at].key /\ y[side] = n + 1
        /\ \A other \in Sides : other # side => y[other] = N[at][other]
    BY <1>2, <1>4, SidesOf DEF NodeIn
  <1>6. M = [N EXCEPT ![at][side] = n + 1]
    OBVIOUS
  <1> HIDE DEF n, y
  <1>7. /\ M \in Seq(NodeIn(K, n + 1)) /\ Len(M) = n
        /\ M[at] = y /\ \A m \in 1..n : m # at => M[m] = N[m]
    BY <1>1, <1>4, <1>5, ExceptSeq DEF n
  <1>8. x \in NodeIn(K, n + 1)
    BY <1>3 DEF n
  <1> HIDE DEF M
  <1>9. /\ N2 \in Seq(NodeIn(K, n + 1)) /\ Len(N2) = n + 1 /\ N2[n + 1] = x
        /\ \A m \in 1..n : N2[m] = M[m]
    BY <1>7, <1>8, Appended
  <1> HIDE DEF N2
  <1>10. [name : Names, map : 0..n] \subseteq [name : Names, map : 0..n + 1]
    BY <1>2
  <1>11. K \in Seq([name : Names, map : 0..n + 1])
    BY <1>1, <1>10, SeqMonotonic
  <1>12. Heap(N2, K)
    BY <1>9, <1>11 DEF Heap, NodeIn
  <1>13. N2[at] = y /\ \A m \in 1..n : m # at => N2[m] = N[m]
    BY <1>7, <1>9 DEF n
  <1>14. N2 = WithChild(N, at, side, x)
    BY <1>6 DEF N2, M, n, WithChild
  <1> QED BY <1>5, <1>9, <1>12, <1>13, <1>14 DEF n

-----------------------------------------------------------------------------
(* The heap holds search trees.                                            *)

Acyclic(N) == \E rank, bound : Numbered(N, rank, bound)

(* W has the names that are at a node and below it, and maybe more: those  *)
(* on one side of a node are on that side of its name.                     *)
Named(N, K, W) ==
  /\ W \in [0..Len(N) -> SUBSET Names]
  /\ W[NULL] = {}
  /\ \A m \in 1..Len(N) :
       /\ NameAt(N, K, m) \in W[m]
       /\ \A side \in Sides :
            /\ W[N[m][side]] \subseteq W[m]
            /\ \A name \in W[N[m][side]] :
                 /\ compare_key(NameAt(N, K, m), name) # 0
                 /\ Turn(compare_key(NameAt(N, K, m), name)) = side

Ordered(N, K) == \E W : Named(N, K, W)

(* The copies that an insertion has made so far: the nodes from first on   *)
(* are the path from the new root to where the name belongs, each one the  *)
(* child of the one before it; everything else was there before.           *)
Chain(N, K, first, name) ==
  /\ first \in 1..Len(N)
  /\ \A m \in 1..first - 1 : \A side \in Sides : N[m][side] < first
  /\ \A m \in first..Len(N) - 1 :
       LET order == compare_key(NameAt(N, K, m), name) IN
       /\ order # 0
       /\ N[m][Turn(order)] = m + 1
       /\ \A side \in Sides : side # Turn(order) => N[m][side] < first
  /\ \A side \in Sides : N[Len(N)][side] < first

(* The side of the last node on which a name belongs.                      *)
Goes(N, K, name, side) ==
  LET order == compare_key(NameAt(N, K, Len(N)), name)
  IN  order # 0 /\ side = Turn(order)

LEMMA TurnSide ==
  ASSUME NEW order PROVE Turn(order) \in Sides
  BY DEF Turn, Sides

(* A node is copied.                                                       *)
LEMMA Cloned ==
  ASSUME NEW N, NEW K, Heap(N, K), NEW o \in 1..Len(N), Acyclic(N), Ordered(N, K)
  PROVE  Acyclic(Append(N, N[o])) /\ Ordered(Append(N, N[o]), K)
  <1> DEFINE n == Len(N)
             N2 == Append(N, N[o])
  <1>1. /\ n \in Nat /\ N[o] \in NodeIn(K, n)
        /\ \A m \in 1..n : \A side \in Sides : N[m][side] \in 0..n
    BY HeapTypes DEF NodeIn
  <1>2. Len(N2) = n + 1 /\ N2[n + 1] = N[o] /\ \A m \in 1..n : N2[m] = N[m]
    BY <1>1, HeapAppend
  <1> HIDE DEF n, N2
  <1>3. \A m \in 1..n + 1 : m = n + 1 \/ (m \in 1..n /\ m # n + 1)
    BY <1>1
  <1>4. o \in 1..n /\ \A m \in 0..n : m # n + 1
    BY <1>1 DEF n
  <1>5. Acyclic(N2)
    <2>1. PICK rank, bound : Numbered(N, rank, bound)
      BY DEF Acyclic
    <2>2. /\ bound \in Nat /\ rank \in [1..n -> 0..bound]
          /\ \A m \in 1..n : \A side \in Sides : N[m][side] # NULL => rank[N[m][side]] < rank[m]
      BY <2>1 DEF Numbered, n
    <2> DEFINE rank2 == [m \in 1..n + 1 |-> IF m = n + 1 THEN rank[o] ELSE rank[m]]
    <2>3. rank2 \in [1..n + 1 -> 0..bound]
      BY <1>3, <1>4, <2>2
    <2>4. ASSUME NEW m \in 1..n + 1, NEW side \in Sides, N2[m][side] # NULL
          PROVE  rank2[N2[m][side]] < rank2[m]
      <3>1. PICK p \in 1..n : N2[m] = N[p] /\ rank2[m] = rank[p]
        BY <1>2, <1>3, <1>4
      <3>2. N[p][side] \in 0..n /\ N[p][side] # NULL
        BY <1>1, <2>4, <3>1
      <3>3. N[p][side] \in 1..n + 1 /\ N[p][side] # n + 1
        BY <1>1, <3>2 DEF NULL
      <3>4. rank2[N[p][side]] = rank[N[p][side]]
        BY <3>3
      <3> QED BY <2>2, <3>1, <3>2, <3>4
    <2> HIDE DEF rank2
    <2> QED BY <1>2, <2>2, <2>3, <2>4 DEF Acyclic, Numbered
  <1>6. Ordered(N2, K)
    <2>1. PICK W : Named(N, K, W)
      BY DEF Ordered
    <2>2. /\ W \in [0..n -> SUBSET Names] /\ W[NULL] = {}
          /\ \A m \in 1..n :
               /\ NameAt(N, K, m) \in W[m]
               /\ \A side \in Sides :
                    /\ W[N[m][side]] \subseteq W[m]
                    /\ \A name \in W[N[m][side]] :
                         /\ compare_key(NameAt(N, K, m), name) # 0
                         /\ Turn(compare_key(NameAt(N, K, m), name)) = side
      BY <2>1 DEF Named, n
    <2> DEFINE W2 == [m \in 0..n + 1 |-> IF m = n + 1 THEN W[o] ELSE W[m]]
    <2>3. \A m \in 0..n + 1 : m = n + 1 \/ m \in 0..n
      BY <1>1
    <2>4. o \in 0..n
      BY <1>1, <1>4
    <2>5. W2 \in [0..n + 1 -> SUBSET Names]
      BY <2>2, <2>3, <2>4
    <2>6. W2[NULL] = {}
      BY <1>1, <2>2 DEF NULL
    <2>7. ASSUME NEW m \in 1..n + 1
          PROVE  /\ NameAt(N2, K, m) \in W2[m]
                 /\ \A side \in Sides :
                      /\ W2[N2[m][side]] \subseteq W2[m]
                      /\ \A name \in W2[N2[m][side]] :
                           /\ compare_key(NameAt(N2, K, m), name) # 0
                           /\ Turn(compare_key(NameAt(N2, K, m), name)) = side
      <3>1. m \in 0..n + 1
        BY <1>1
      <3>2. PICK p \in 1..n : N2[m] = N[p] /\ W2[m] = W[p]
        BY <1>2, <1>3, <1>4, <3>1
      <3>3. NameAt(N2, K, m) = NameAt(N, K, p)
        BY <3>2 DEF NameAt
      <3>4. \A side \in Sides : W2[N2[m][side]] = W[N[p][side]]
        <4> SUFFICES ASSUME NEW side \in Sides PROVE W2[N[p][side]] = W[N[p][side]]
          BY <3>2
        <4>1. N[p][side] \in 0..n
          BY <1>1
        <4>2. N[p][side] \in 0..n + 1 /\ N[p][side] # n + 1
          BY <1>1, <4>1
        <4> QED BY <4>2
      <3> HIDE DEF W2
      <3> QED BY <2>2, <3>2, <3>3, <3>4
    <2> HIDE DEF W2
    <2> QED BY <1>2, <2>5, <2>6, <2>7 DEF Ordered, Named
  <1> QED BY <1>5, <1>6 DEF N2

(* A leaf is made.                                                         *)
LEMMA Leafed ==
  ASSUME NEW N, NEW K, Heap(N, K), NEW k \in 1..Len(K), Acyclic(N), Ordered(N, K)
  PROVE  /\ leaf_node(k) \in NodeIn(K, Len(N))
         /\ Acyclic(Append(N, leaf_node(k))) /\ Ordered(Append(N, leaf_node(k)), K)
  <1> DEFINE n == Len(N)
             N2 == Append(N, leaf_node(k))
  <1>1. /\ n \in Nat /\ leaf_node(k) \in NodeIn(K, n)
        /\ \A m \in 1..n : \A side \in Sides : N[m][side] \in 0..n
        /\ K[k].name \in Names
    BY HeapTypes DEF NodeIn, leaf_node, NULL
  <1>2. Len(N2) = n + 1 /\ N2[n + 1] = leaf_node(k) /\ \A m \in 1..n : N2[m] = N[m]
    BY <1>1, HeapAppend
  <1> HIDE DEF n, N2
  <1>3. \A m \in 1..n + 1 : m = n + 1 \/ (m \in 1..n /\ m # n + 1)
    BY <1>1
  <1>4. \A side \in Sides : N2[n + 1][side] = NULL
    BY <1>2, SidesOf DEF leaf_node
  <1>5. NameAt(N2, K, n + 1) = K[k].name
    BY <1>2 DEF NameAt, leaf_node
  <1>6. Acyclic(N2)
    <2>1. PICK rank, bound : Numbered(N, rank, bound)
      BY DEF Acyclic
    <2>2. /\ bound \in Nat /\ rank \in [1..n -> 0..bound]
          /\ \A m \in 1..n : \A side \in Sides : N[m][side] # NULL => rank[N[m][side]] < rank[m]
      BY <2>1 DEF Numbered, n
    <2> DEFINE rank2 == [m \in 1..n + 1 |-> IF m = n + 1 THEN 0 ELSE rank[m]]
    <2>3. rank2 \in [1..n + 1 -> 0..bound]
      BY <1>3, <2>2
    <2>4. ASSUME NEW m \in 1..n + 1, NEW side \in Sides, N2[m][side] # NULL
          PROVE  rank2[N2[m][side]] < rank2[m]
      <3>1. m \in 1..n /\ m # n + 1
        BY <1>3, <1>4, <2>4
      <3>2. N2[m] = N[m] /\ rank2[m] = rank[m]
        BY <1>2, <3>1
      <3>3. N[m][side] \in 0..n /\ N[m][side] # NULL
        BY <1>1, <2>4, <3>1, <3>2
      <3>4. N[m][side] \in 1..n + 1 /\ N[m][side] # n + 1
        BY <1>1, <3>3 DEF NULL
      <3>5. rank2[N[m][side]] = rank[N[m][side]]
        BY <3>4
      <3> QED BY <2>2, <3>1, <3>2, <3>3, <3>5
    <2> HIDE DEF rank2
    <2> QED BY <1>2, <2>2, <2>3, <2>4 DEF Acyclic, Numbered
  <1>7. Ordered(N2, K)
    <2>1. PICK W : Named(N, K, W)
      BY DEF Ordered
    <2>2. /\ W \in [0..n -> SUBSET Names] /\ W[NULL] = {}
          /\ \A m \in 1..n :
               /\ NameAt(N, K, m) \in W[m]
               /\ \A side \in Sides :
                    /\ W[N[m][side]] \subseteq W[m]
                    /\ \A name \in W[N[m][side]] :
                         /\ compare_key(NameAt(N, K, m), name) # 0
                         /\ Turn(compare_key(NameAt(N, K, m), name)) = side
      BY <2>1 DEF Named, n
    <2> DEFINE W2 == [m \in 0..n + 1 |-> IF m = n + 1 THEN {K[k].name} ELSE W[m]]
    <2>3. \A m \in 0..n + 1 : m = n + 1 \/ m \in 0..n
      BY <1>1
    <2>4. W2 \in [0..n + 1 -> SUBSET Names]
      BY <1>1, <2>2, <2>3
    <2>5. W2[NULL] = {}
      BY <1>1, <2>2 DEF NULL
    <2>6. ASSUME NEW m \in 1..n + 1
          PROVE  /\ NameAt(N2, K, m) \in W2[m]
                 /\ \A side \in Sides :
                      /\ W2[N2[m][side]] \subseteq W2[m]
                      /\ \A name \in W2[N2[m][side]] :
                           /\ compare_key(NameAt(N2, K, m), name) # 0
                           /\ Turn(compare_key(NameAt(N2, K, m), name)) = side
      <3>1. m \in 0..n + 1
        BY <1>1
      <3>2. CASE m = n + 1
        <4>1. W2[m] = {K[k].name} /\ NameAt(N2, K, m) = K[k].name
          BY <1>5, <3>1, <3>2
        <4>2. \A side \in Sides : W2[N2[m][side]] = {}
          BY <1>4, <2>5, <3>2
        <4> HIDE DEF W2
        <4> QED BY <4>1, <4>2
      <3>3. CASE m \in 1..n /\ m # n + 1
        <4>1. N2[m] = N[m] /\ W2[m] = W[m]
          BY <1>2, <3>1, <3>3
        <4>2. NameAt(N2, K, m) = NameAt(N, K, m)
          BY <4>1 DEF NameAt
        <4>3. \A side \in Sides : W2[N2[m][side]] = W[N[m][side]]
          <5> SUFFICES ASSUME NEW side \in Sides PROVE W2[N[m][side]] = W[N[m][side]]
            BY <4>1
          <5>1. N[m][side] \in 0..n
            BY <1>1, <3>3
          <5>2. N[m][side] \in 0..n + 1 /\ N[m][side] # n + 1
            BY <1>1, <5>1
          <5> QED BY <5>2
        <4> HIDE DEF W2
        <4> QED BY <2>2, <3>3, <4>1, <4>2, <4>3
      <3> QED BY <1>3, <3>2, <3>3
    <2> HIDE DEF W2
    <2> QED BY <1>2, <2>4, <2>5, <2>6, SMTT(30) DEF Ordered, Named
  <1> QED BY <1>1, <1>6, <1>7 DEF N2, n

(* The last copy gets a copy of its child, which becomes the last one.     *)
LEMMA Descended ==
  ASSUME NEW N, NEW K, Heap(N, K), Acyclic(N), Ordered(N, K),
         NEW first, NEW word, Chain(N, K, first, word),
         NEW way, Goes(N, K, word, way), N[Len(N)][way] # NULL,
         NEW N2, Gets(N2, N, Len(N), way, N[N[Len(N)][way]])
  PROVE  /\ Heap(N2, K) /\ Acyclic(N2) /\ Ordered(N2, K) /\ Chain(N2, K, first, word)
         /\ way \in Sides /\ N[Len(N)][way] \in 1..first - 1
         /\ Extended(N2, N, way, N[N[Len(N)][way]])
  <1> DEFINE n == Len(N)
             order == compare_key(NameAt(N, K, n), word)
             turn == way
             o == N[n][turn]
  <1>0. order # 0 /\ turn = Turn(order)
    BY DEF Goes
  <1>1. /\ n \in Nat /\ turn \in Sides /\ first \in 1..n /\ n \in 1..n
        /\ \A m \in 1..n : \A side \in Sides : N[m][side] \in 0..n
    BY <1>0, HeapTypes, TurnSide DEF Chain
  <1>2. o < first /\ o \in 1..first - 1 /\ o \in 1..n /\ o # n /\ first <= n /\ first \in Nat
    <2>1. o < first /\ o \in 0..n /\ o # NULL
      BY <1>1 DEF Chain
    <2> HIDE DEF o
    <2> QED BY <1>1, <2>1 DEF NULL
  <1>3. N[o] \in NodeIn(K, n)
    BY <1>2, HeapTypes DEF NodeIn
  <1>4. /\ Heap(N2, K) /\ Len(N2) = n + 1 /\ N2[n + 1] = N[o]
        /\ \A m \in 1..n : m # n => N2[m] = N[m]
        /\ N2[n].key = N[n].key /\ N2[n][turn] = n + 1
        /\ \A side \in Sides : side # turn => N2[n][side] = N[n][side]
    BY <1>1, <1>3, HeapChild DEF Gets
  <1>5. \A m \in 1..n - 1 : N2[m] = N[m] /\ NameAt(N2, K, m) = NameAt(N, K, m)
    <2>1. \A m \in 1..n - 1 : m \in 1..n /\ m # n
      BY <1>1
    <2> QED BY <1>4, <2>1 DEF NameAt
  <1>6. NameAt(N2, K, n) = NameAt(N, K, n) /\ NameAt(N2, K, n + 1) = NameAt(N, K, o)
    BY <1>4 DEF NameAt
  <1> HIDE DEF n, turn, o, order
  <1>7. \A m \in 1..n + 1 : m \in 1..n - 1 \/ m = n \/ m = n + 1
    BY <1>1
  <1>8. \A m \in 1..n - 1 : m \in 1..n /\ m # n /\ m # n + 1
    BY <1>1
  <1>9. Chain(N2, K, first, word)
    <2>1. \A m \in 1..first - 1 : \A side \in Sides : N2[m][side] < first
      <3>1. \A m \in 1..first - 1 : m \in 1..n - 1
        BY <1>1, <1>2
      <3> QED BY <1>5, <3>1 DEF Chain
    <2>2. ASSUME NEW m \in first..n
          PROVE  LET to == compare_key(NameAt(N2, K, m), word) IN
                 /\ to # 0
                 /\ N2[m][Turn(to)] = m + 1
                 /\ \A side \in Sides : side # Turn(to) => N2[m][side] < first
      <3>1. CASE m = n
        <4>1. compare_key(NameAt(N2, K, m), word) = order /\ Turn(order) = turn
          BY <1>0, <1>6, <3>1 DEF n, order
        <4> QED BY <1>0, <1>1, <1>4, <3>1, <4>1 DEF Chain, n
      <3>2. CASE m # n
        <4>1. m \in 1..n - 1 /\ m \in first..n - 1
          BY <1>1, <1>2, <3>2
        <4> QED BY <1>5, <4>1 DEF Chain, n
      <3> QED BY <3>1, <3>2
    <2>3. \A side \in Sides : N2[n + 1][side] < first
      BY <1>2, <1>4 DEF Chain
    <2>4. first \in 1..n + 1 /\ (n + 1) - 1 = n
      BY <1>1
    <2>5. Len(N2) - 1 = n /\ Len(N2) = n + 1
      BY <1>1, <1>4
    <2>6. \A m \in first..Len(N2) - 1 :
            LET to == compare_key(NameAt(N2, K, m), word) IN
            /\ to # 0
            /\ N2[m][Turn(to)] = m + 1
            /\ \A side \in Sides : side # Turn(to) => N2[m][side] < first
      BY <2>2, <2>5
    <2> QED BY <2>1, <2>3, <2>4, <2>5, <2>6 DEF Chain
  <1>10. Acyclic(N2)
    <2>1. PICK rank, bound : Numbered(N, rank, bound)
      BY DEF Acyclic
    <2>2. /\ bound \in Nat /\ rank \in [1..n -> 0..bound]
          /\ \A m \in 1..n : \A side \in Sides : N[m][side] # NULL => rank[N[m][side]] < rank[m]
      BY <2>1 DEF Numbered, n
    <2> DEFINE rank2 == [m \in 1..n + 1 |-> IF m = n + 1 THEN rank[o] ELSE rank[m]]
    <2>3. \A m \in 1..n + 1 : m = n + 1 \/ (m \in 1..n /\ m # n + 1)
      BY <1>1
    <2>4. rank2 \in [1..n + 1 -> 0..bound]
      BY <1>2, <2>2, <2>3
    <2>5. \A m \in 1..n : m \in 1..n + 1 /\ rank2[m] = rank[m]
      BY <1>1
    <2>6. rank2[n + 1] = rank[o]
      BY <1>1
    <2> HIDE DEF rank2
    <2>7. ASSUME NEW m \in 1..n, NEW side \in Sides, N[m][side] # NULL
          PROVE  rank2[N[m][side]] < rank[m]
      <3>1. N[m][side] \in 1..n
        BY <1>1, <2>7 DEF NULL
      <3> QED BY <2>2, <2>5, <2>7, <3>1
    <2>8. ASSUME NEW m \in 1..n + 1, NEW side \in Sides, N2[m][side] # NULL
          PROVE  rank2[N2[m][side]] < rank2[m]
      <3>1. CASE m \in 1..n - 1
        BY <1>5, <1>8, <2>5, <2>7, <2>8, <3>1
      <3>2. CASE m = n /\ side = turn
        <4>1. rank2[N2[m][side]] = rank[o] /\ rank2[m] = rank[n]
          BY <1>1, <1>4, <2>5, <2>6, <3>2 DEF n
        <4>2. rank[o] < rank[n]
          BY <1>1, <1>2, <2>2 DEF o, n, NULL
        <4> QED BY <4>1, <4>2
      <3>3. CASE m = n /\ side # turn
        <4>1. N2[m][side] = N[n][side] /\ rank2[m] = rank[n] /\ n \in 1..n
          BY <1>1, <1>4, <2>5, <3>3 DEF n
        <4> QED BY <2>7, <2>8, <4>1
      <3>4. CASE m = n + 1
        <4>1. N2[m][side] = N[o][side] /\ rank2[m] = rank[o]
          BY <1>4, <2>6, <3>4
        <4> QED BY <1>2, <2>7, <2>8, <4>1
      <3> QED BY <1>7, <3>1, <3>2, <3>3, <3>4
    <2> QED BY <1>4, <2>2, <2>4, <2>8 DEF Acyclic, Numbered
  <1>11. Ordered(N2, K)
    <2>1. PICK W : Named(N, K, W)
      BY DEF Ordered
    <2>2. /\ W \in [0..n -> SUBSET Names] /\ W[NULL] = {}
          /\ \A m \in 1..n :
               /\ NameAt(N, K, m) \in W[m]
               /\ \A side \in Sides :
                    /\ W[N[m][side]] \subseteq W[m]
                    /\ \A s \in W[N[m][side]] :
                         /\ compare_key(NameAt(N, K, m), s) # 0
                         /\ Turn(compare_key(NameAt(N, K, m), s)) = side
      BY <2>1 DEF Named, n
    <2> DEFINE W2 == [m \in 0..n + 1 |-> IF m = n + 1 THEN W[o] ELSE W[m]]
    <2>3. \A m \in 0..n + 1 : m = n + 1 \/ (m \in 0..n /\ m # n + 1)
      BY <1>1
    <2>4. o \in 0..n
      BY <1>1, <1>2
    <2>5. W2 \in [0..n + 1 -> SUBSET Names]
      BY <2>2, <2>3, <2>4
    <2>6. \A m \in 0..n : W2[m] = W[m]
      BY <1>1
    <2>7. W2[n + 1] = W[o]
      BY <1>1
    <2> HIDE DEF W2
    <2>8. W2[NULL] = {}
      BY <1>1, <2>2, <2>6 DEF NULL
    <2>9. ASSUME NEW m \in 1..n + 1
          PROVE  \E p \in 1..n : /\ NameAt(N2, K, m) = NameAt(N, K, p) /\ W2[m] = W[p]
                                 /\ \A side \in Sides : W2[N2[m][side]] = W[N[p][side]]
      <3>1. \A p \in 1..n : \A side \in Sides : W2[N[p][side]] = W[N[p][side]]
        BY <1>1, <2>6
      <3>2. \A p \in 1..n : p \in 0..n
        BY <1>1
      <3>3. CASE m \in 1..n - 1
        BY <1>5, <1>8, <2>6, <3>1, <3>2, <3>3
      <3>4. CASE m = n
        <4>1. n \in 1..n
          BY <1>1 DEF n
        <4>2. ASSUME NEW side \in Sides PROVE W2[N2[n][side]] = W[N[n][side]]
          <5>1. CASE side = turn
            BY <1>4, <2>7, <5>1 DEF o
          <5>2. CASE side # turn
            BY <1>4, <3>1, <4>1, <5>2
          <5> QED BY <5>1, <5>2
        <4> QED BY <1>6, <2>6, <3>2, <3>4, <4>1, <4>2
      <3>5. CASE m = n + 1
        <4>1. NameAt(N2, K, m) = NameAt(N, K, o) /\ W2[m] = W[o]
          BY <1>6, <2>7, <3>5
        <4>2. \A side \in Sides : W2[N2[m][side]] = W[N[o][side]]
          BY <1>2, <1>4, <3>1, <3>5
        <4> QED BY <1>2, <4>1, <4>2
      <3> QED BY <1>7, <3>3, <3>4, <3>5
    <2>10. ASSUME NEW m \in 1..n + 1
           PROVE  /\ NameAt(N2, K, m) \in W2[m]
                  /\ \A side \in Sides :
                       /\ W2[N2[m][side]] \subseteq W2[m]
                       /\ \A s \in W2[N2[m][side]] :
                            /\ compare_key(NameAt(N2, K, m), s) # 0
                            /\ Turn(compare_key(NameAt(N2, K, m), s)) = side
      <3>1. PICK p \in 1..n : /\ NameAt(N2, K, m) = NameAt(N, K, p) /\ W2[m] = W[p]
                              /\ \A side \in Sides : W2[N2[m][side]] = W[N[p][side]]
        BY <2>9
      <3> QED BY <2>2, <3>1
    <2>11. Len(N2) = n + 1
      BY <1>4
    <2>12. W2 \in [0..Len(N2) -> SUBSET Names]
      BY <2>5, <2>11
    <2>13. \A m \in 1..Len(N2) :
             /\ NameAt(N2, K, m) \in W2[m]
             /\ \A side \in Sides :
                  /\ W2[N2[m][side]] \subseteq W2[m]
                  /\ \A s \in W2[N2[m][side]] :
                       /\ compare_key(NameAt(N2, K, m), s) # 0
                       /\ Turn(compare_key(NameAt(N2, K, m), s)) = side
      BY <2>10, <2>11
    <2>14. Named(N2, K, W2)
      BY <2>8, <2>12, <2>13, Zenon DEF Named
    <2> QED BY <2>14 DEF Ordered
  <1>12. Extended(N2, N, way, N[N[Len(N)][way]])
    BY <1>4, <1>5 DEF Extended, n, turn, o
  <1> QED BY <1>1, <1>2, <1>4, <1>9, <1>10, <1>11, <1>12 DEF n, turn, o

(* The last copy gets a leaf.                                              *)
LEMMA Attached ==
  ASSUME NEW N, NEW K, Heap(N, K), Acyclic(N), Ordered(N, K),
         NEW first, NEW k \in 1..Len(K), Chain(N, K, first, K[k].name),
         NEW way, Goes(N, K, K[k].name, way), N[Len(N)][way] = NULL,
         NEW N2, Gets(N2, N, Len(N), way, leaf_node(k))
  PROVE  /\ Heap(N2, K) /\ Acyclic(N2) /\ Ordered(N2, K)
         /\ way \in Sides /\ Extended(N2, N, way, leaf_node(k))
  <1> DEFINE n == Len(N)
             name == K[k].name
             order == compare_key(NameAt(N, K, n), name)
             turn == way
  <1>0. order # 0 /\ turn = Turn(order)
    BY DEF Goes
  <1>1. /\ n \in Nat /\ turn \in Sides /\ first \in 1..n /\ n \in 1..n /\ name \in Names
        /\ \A m \in 1..n : \A side \in Sides : N[m][side] \in 0..n
        /\ leaf_node(k) \in NodeIn(K, n)
    BY <1>0, HeapTypes, TurnSide DEF Chain, leaf_node, NodeIn, NULL
  <1>2. /\ Heap(N2, K) /\ Len(N2) = n + 1 /\ N2[n + 1] = leaf_node(k)
        /\ \A m \in 1..n : m # n => N2[m] = N[m]
        /\ N2[n].key = N[n].key /\ N2[n][turn] = n + 1
        /\ \A side \in Sides : side # turn => N2[n][side] = N[n][side]
    BY <1>1, HeapChild DEF Gets
  <1>3. \A m \in 1..n - 1 : N2[m] = N[m] /\ NameAt(N2, K, m) = NameAt(N, K, m)
    <2>1. \A m \in 1..n - 1 : m \in 1..n /\ m # n
      BY <1>1
    <2> QED BY <1>2, <2>1 DEF NameAt
  <1>4. NameAt(N2, K, n) = NameAt(N, K, n) /\ NameAt(N2, K, n + 1) = name
    <2>1. N2[n + 1].key = k
      BY <1>2 DEF leaf_node
    <2> QED BY <1>2, <2>1 DEF NameAt
  <1>5. \A side \in Sides : N2[n + 1][side] = NULL
    BY <1>2, SidesOf DEF leaf_node
  <1>6. /\ \A m \in 1..first - 1 : \A side \in Sides : N[m][side] < first
        /\ \A m \in first..n - 1 :
             /\ compare_key(NameAt(N, K, m), name) # 0
             /\ N[m][Turn(compare_key(NameAt(N, K, m), name))] = m + 1
             /\ \A side \in Sides : side # Turn(compare_key(NameAt(N, K, m), name)) =>
                  N[m][side] < first
        /\ \A side \in Sides : N[n][side] < first
    BY DEF Chain
  <1>7. /\ order # 0 /\ order = compare_key(NameAt(N, K, n), name)
        /\ turn = Turn(order)
    BY <1>0
  <1> HIDE DEF n, turn, name, order
  <1>8. \A m \in 1..n + 1 : m \in 1..n - 1 \/ m = n \/ m = n + 1
    BY <1>1
  <1>9. \A m \in 1..n - 1 : m \in 1..n /\ m # n /\ m # n + 1
    BY <1>1
  <1>10. Acyclic(N2)
    <2>1. PICK rank, bound : Numbered(N, rank, bound)
      BY DEF Acyclic
    <2>2. /\ bound \in Nat /\ rank \in [1..n -> 0..bound]
          /\ \A m \in 1..n : \A side \in Sides : N[m][side] # NULL => rank[N[m][side]] < rank[m]
      BY <2>1 DEF Numbered, n
    <2> DEFINE rank2 == [m \in 1..n + 1 |-> IF m = n + 1 THEN 0 ELSE rank[m] + 1]
    <2>3. \A m \in 1..n + 1 : m = n + 1 \/ (m \in 1..n /\ m # n + 1)
      BY <1>1
    <2>4. rank2 \in [1..n + 1 -> 0..bound + 1]
      <3>1. \A m \in 1..n : rank[m] + 1 \in 0..bound + 1
        BY <2>2
      <3>2. 0 \in 0..bound + 1
        BY <2>2
      <3> QED BY <2>3, <3>1, <3>2
    <2>5. \A m \in 1..n : m \in 1..n + 1 /\ rank2[m] = rank[m] + 1 /\ rank[m] \in Nat
      <3>1. \A m \in 1..n : m \in 1..n + 1 /\ m # n + 1
        BY <1>1
      <3>2. \A m \in 1..n : rank[m] \in Nat
        BY <2>2
      <3> QED BY <3>1, <3>2
    <2>6. rank2[n + 1] = 0
      BY <1>1
    <2> HIDE DEF rank2
    <2>7. ASSUME NEW m \in 1..n, NEW side \in Sides, N[m][side] # NULL
          PROVE  rank2[N[m][side]] < rank2[m]
      <3>1. N[m][side] \in 1..n
        BY <1>1, <2>7 DEF NULL
      <3>2. rank[N[m][side]] < rank[m]
        BY <2>2, <2>7
      <3> QED BY <2>5, <3>1, <3>2, SMTT(30)
    <2>8. ASSUME NEW m \in 1..n + 1, NEW side \in Sides, N2[m][side] # NULL
          PROVE  rank2[N2[m][side]] < rank2[m]
      <3>1. CASE m \in 1..n - 1
        BY <1>3, <1>9, <2>7, <2>8, <3>1
      <3>2. CASE m = n /\ side = turn
        BY <1>1, <1>2, <2>5, <2>6, <3>2 DEF n
      <3>3. CASE m = n /\ side # turn
        <4>1. N2[m][side] = N[n][side] /\ n \in 1..n
          BY <1>1, <1>2, <3>3 DEF n
        <4> QED BY <2>7, <2>8, <3>3, <4>1
      <3>4. CASE m = n + 1
        BY <1>5, <2>8, <3>4
      <3> QED BY <1>8, <3>1, <3>2, <3>3, <3>4
    <2>9. bound + 1 \in Nat
      BY <2>2
    <2> QED BY <1>2, <2>4, <2>8, <2>9 DEF Acyclic, Numbered
  <1>11. Ordered(N2, K)
    <2>1. PICK W : Named(N, K, W)
      BY DEF Ordered
    <2>2. /\ W \in [0..n -> SUBSET Names] /\ W[NULL] = {}
          /\ \A m \in 1..n :
               /\ NameAt(N, K, m) \in W[m]
               /\ \A side \in Sides :
                    /\ W[N[m][side]] \subseteq W[m]
                    /\ \A s \in W[N[m][side]] :
                         /\ compare_key(NameAt(N, K, m), s) # 0
                         /\ Turn(compare_key(NameAt(N, K, m), s)) = side
      BY <2>1 DEF Named, n
    <2> DEFINE W2 == [m \in 0..n + 1 |->
                        IF m = n + 1 THEN {name}
                        ELSE IF m < first THEN W[m] ELSE W[m] \union {name}]
    <2>3. \A m \in 0..n + 1 : m = n + 1 \/ (m \in 0..n /\ m # n + 1)
      BY <1>1
    <2>4. W2 \in [0..n + 1 -> SUBSET Names]
      BY <1>1, <2>2, <2>3
    <2>5. \A m \in 0..n : m < first => W2[m] = W[m]
      BY <1>1
    <2>6. \A m \in 0..n : ~(m < first) => W2[m] = W[m] \union {name}
      BY <1>1
    <2>7. W2[n + 1] = {name}
      BY <1>1
    <2> HIDE DEF W2
    <2>8. W2[NULL] = {}
      BY <1>1, <2>2, <2>5 DEF NULL
    <2>9. ASSUME NEW m \in 1..n + 1
          PROVE  /\ NameAt(N2, K, m) \in W2[m]
                 /\ \A side \in Sides :
                      /\ W2[N2[m][side]] \subseteq W2[m]
                      /\ \A s \in W2[N2[m][side]] :
                           /\ compare_key(NameAt(N2, K, m), s) # 0
                           /\ Turn(compare_key(NameAt(N2, K, m), s)) = side
      <3>1. CASE m = n + 1
        <4>1. \A side \in Sides : W2[N2[m][side]] = {}
          BY <1>5, <2>8, <3>1
        <4> QED BY <1>4, <2>7, <3>1, <4>1
      <3>2. CASE m < first
        <4>1. m \in 1..first - 1 /\ m \in 1..n - 1 /\ m \in 1..n /\ m \in 0..n
          BY <1>1, <3>2
        <4>2. N2[m] = N[m] /\ NameAt(N2, K, m) = NameAt(N, K, m) /\ W2[m] = W[m]
          BY <1>3, <2>5, <3>2, <4>1
        <4>3. \A side \in Sides : W2[N[m][side]] = W[N[m][side]]
          BY <1>1, <1>6, <2>5, <4>1
        <4> QED BY <2>2, <4>1, <4>2, <4>3
      <3>3. CASE m \in first..n - 1
        <4>1. m \in 1..n - 1 /\ m \in 1..n /\ m \in 0..n /\ ~(m < first)
              /\ m + 1 \in 0..n /\ ~(m + 1 < first)
          BY <1>1, <3>3
        <4>2. N2[m] = N[m] /\ NameAt(N2, K, m) = NameAt(N, K, m)
              /\ W2[m] = W[m] \union {name} /\ W2[m + 1] = W[m + 1] \union {name}
          BY <1>3, <2>6, <4>1
        <4> DEFINE to == compare_key(NameAt(N, K, m), name)
        <4>3. to # 0 /\ Turn(to) \in Sides /\ N[m][Turn(to)] = m + 1
              /\ \A side \in Sides : side # Turn(to) => N[m][side] < first
          BY <1>6, <3>3, TurnSide
        <4> HIDE DEF to
        <4>4. ASSUME NEW side \in Sides, side # Turn(to)
              PROVE  W2[N2[m][side]] = W[N[m][side]]
          BY <1>1, <2>5, <4>1, <4>2, <4>3, <4>4
        <4>5. W2[N2[m][Turn(to)]] = W[N[m][Turn(to)]] \union {name}
          BY <4>2, <4>3
        <4>6. ASSUME NEW side \in Sides
              PROVE  /\ W2[N2[m][side]] \subseteq W2[m]
                     /\ \A s \in W2[N2[m][side]] :
                          /\ compare_key(NameAt(N2, K, m), s) # 0
                          /\ Turn(compare_key(NameAt(N2, K, m), s)) = side
          <5>1. CASE side = Turn(to)
            <6>1. /\ W[N[m][side]] \subseteq W[m]
                  /\ \A s \in W[N[m][side]] :
                       /\ compare_key(NameAt(N, K, m), s) # 0
                       /\ Turn(compare_key(NameAt(N, K, m), s)) = side
              BY <2>2, <4>1
            <6>2. compare_key(NameAt(N, K, m), name) # 0
                  /\ Turn(compare_key(NameAt(N, K, m), name)) = side
              BY <4>3, <5>1 DEF to
            <6> QED BY <4>2, <4>5, <5>1, <6>1, <6>2
          <5>2. CASE side # Turn(to)
            BY <2>2, <4>1, <4>2, <4>4, <5>2
          <5> QED BY <5>1, <5>2
        <4>7. NameAt(N2, K, m) \in W2[m]
          BY <2>2, <4>1, <4>2
        <4> QED BY <4>6, <4>7
      <3>4. CASE m = n
        <4>1. n \in 1..n /\ n \in 0..n /\ ~(n < first)
          BY <1>1 DEF n
        <4>2. NameAt(N2, K, n) = NameAt(N, K, n) /\ W2[n] = W[n] \union {name}
          BY <1>4, <2>6, <4>1
        <4>3. ASSUME NEW side \in Sides
              PROVE  /\ W2[N2[n][side]] \subseteq W2[n]
                     /\ \A s \in W2[N2[n][side]] :
                          /\ compare_key(NameAt(N2, K, n), s) # 0
                          /\ Turn(compare_key(NameAt(N2, K, n), s)) = side
          <5>1. CASE side = turn
            <6>1. W2[N2[n][side]] = {name}
              BY <1>2, <2>7, <5>1
            <6> QED BY <1>7, <4>2, <5>1, <6>1
          <5>2. CASE side # turn
            <6>1. W2[N2[n][side]] = W[N[n][side]]
              BY <1>1, <1>2, <1>6, <2>5, <4>1, <5>2
            <6> QED BY <2>2, <4>1, <4>2, <6>1
          <5> QED BY <5>1, <5>2
        <4>4. NameAt(N2, K, n) \in W2[n]
          BY <2>2, <4>1, <4>2
        <4> QED BY <3>4, <4>3, <4>4
      <3>5. m = n + 1 \/ m < first \/ m \in first..n - 1 \/ m = n
        <4>1. m \in Nat /\ first \in Nat /\ n \in Nat /\ m <= n + 1
          BY <1>1
        <4> QED BY <4>1
      <3> QED BY <3>1, <3>2, <3>3, <3>4, <3>5
    <2>10. Named(N2, K, W2)
      BY <1>2, <2>4, <2>8, <2>9 DEF Named
    <2> QED BY <2>10 DEF Ordered
  <1>12. Extended(N2, N, way, leaf_node(k))
    BY <1>2, <1>3 DEF Extended, n, turn
  <1> QED BY <1>1, <1>2, <1>10, <1>11, <1>12 DEF n, turn

WithKey(N, at, k) == [N EXCEPT ![at].key = k]

(* The last copy gets the new key in place of one of the same name.        *)
LEMMA Replaced ==
  ASSUME NEW N, NEW K, Heap(N, K), Acyclic(N), Ordered(N, K),
         NEW at \in 1..Len(N), NEW k \in 1..Len(K), K[k].name = NameAt(N, K, at),
         NEW N2, N2 = WithKey(N, at, k)
  PROVE  /\ Heap(N2, K) /\ Acyclic(N2) /\ Ordered(N2, K)
         /\ Len(N2) = Len(N)
         /\ \A m \in 1..Len(N) : /\ NameAt(N2, K, m) = NameAt(N, K, m)
                                 /\ \A side \in Sides : N2[m][side] = N[m][side]
                                 /\ m # at => N2[m] = N[m]
         /\ N2[at].key = k
  <1> DEFINE n == Len(N)
             R == NodeIn(K, n)
             y == [N[at] EXCEPT !.key = k]
  <1>1. /\ n \in Nat /\ N \in Seq(R) /\ K \in Seq([name : Names, map : 0..n])
        /\ N[at] \in R
    BY HeapTypes DEF Heap, NodeIn
  <1>2. y \in R /\ y.key = k /\ \A side \in Sides : y[side] = N[at][side]
    BY <1>1 DEF NodeIn, Sides
  <1>3. N2 = [N EXCEPT ![at] = y]
    BY DEF WithKey
  <1> HIDE DEF y, n, R
  <1>4. N2 \in Seq(R) /\ Len(N2) = n /\ N2[at] = y /\ \A m \in 1..n : m # at => N2[m] = N[m]
    BY <1>1, <1>2, <1>3, ExceptSeq DEF n
  <1>5. Heap(N2, K)
    BY <1>1, <1>4 DEF Heap, R, NodeIn
  <1>6. ASSUME NEW m \in 1..n
        PROVE  /\ NameAt(N2, K, m) = NameAt(N, K, m)
               /\ \A side \in Sides : N2[m][side] = N[m][side]
    <2>1. CASE m = at
      BY <1>2, <1>4, <2>1 DEF NameAt
    <2>2. CASE m # at
      BY <1>4, <2>2 DEF NameAt
    <2> QED BY <2>1, <2>2
  <1>7. Acyclic(N2)
    <2>1. PICK rank, bound : Numbered(N, rank, bound)
      BY DEF Acyclic
    <2>2. Numbered(N2, rank, bound)
      BY <1>4, <1>6, <2>1 DEF Numbered, n
    <2> QED BY <2>2 DEF Acyclic
  <1>8. Ordered(N2, K)
    <2>1. PICK W : Named(N, K, W)
      BY DEF Ordered
    <2>2. Named(N2, K, W)
      BY <1>4, <1>6, <2>1 DEF Named, n
    <2> QED BY <2>2 DEF Ordered
  <1> QED BY <1>2, <1>4, <1>5, <1>6, <1>7, <1>8 DEF n

(* A word more does not change what the nodes are called.                  *)
LEMMA OrderedStill ==
  ASSUME NEW N, NEW K, NEW K2, Ordered(N, K),
         \A m \in 1..Len(N) : NameAt(N, K2, m) = NameAt(N, K, m)
  PROVE  Ordered(N, K2)
  <1>1. PICK W : Named(N, K, W)
    BY DEF Ordered
  <1>2. Named(N, K2, W)
    BY <1>1 DEF Named
  <1> QED BY <1>2 DEF Ordered

(* A map with one copy.                                                    *)
LEMMA ChainStarts ==
  ASSUME NEW N, NEW K, Heap(N, K), NEW o \in 1..Len(N),
         NEW N2, N2 = Append(N, N[o]), NEW K2, NEW name
  PROVE  Chain(N2, K2, Len(N2), name)
  <1> DEFINE n == Len(N)
  <1>1. /\ n \in Nat /\ N[o] \in NodeIn(K, n)
        /\ \A m \in 1..n : \A side \in Sides : N[m][side] \in 0..n
    BY HeapTypes DEF NodeIn
  <1>2. Len(N2) = n + 1 /\ N2[n + 1] = N[o] /\ \A m \in 1..n : N2[m] = N[m]
    BY <1>1, HeapAppend
  <1> HIDE DEF n
  <1>3. \A m \in 1..n : \A side \in Sides : N[m][side] < n + 1
    BY <1>1
  <1>4. /\ n + 1 \in 1..n + 1 /\ (n + 1) - 1 = n
        /\ \A m \in (n + 1)..n : FALSE
    BY <1>1
  <1>5. o \in 1..n
    BY DEF n
  <1>6. \A m \in 1..n : \A side \in Sides : N2[m][side] < n + 1
    BY <1>2, <1>3
  <1>7. \A side \in Sides : N2[n + 1][side] < n + 1
    BY <1>2, <1>3, <1>5
  <1> QED BY <1>2, <1>4, <1>6, <1>7 DEF Chain

-----------------------------------------------------------------------------
(* What the steps do to lookups.                                           *)

(* A node and its copy answer alike.                                       *)
LEMMA Twins ==
  ASSUME NEW N, NEW K, Heap(N, K), Acyclic(N), NEW a \in 1..Len(N), NEW b \in 1..Len(N),
         N[a] = N[b], NEW src \in Names
  PROVE  Lookup(N, K, a, src) = Lookup(N, K, b, src)
  <1>1. PICK rank, bound : Numbered(N, rank, bound)
    BY DEF Acyclic
  <1>2. NameAt(N, K, a) = NameAt(N, K, b)
    BY DEF NameAt
  <1> DEFINE order == compare_key_n(NameAt(N, K, a), src)
  <1>3. order = 0 => Lookup(N, K, a, src) = N[a].key /\ Lookup(N, K, b, src) = N[b].key
    BY <1>1, <1>2, Lookups
  <1>4. order # 0 => /\ Lookup(N, K, a, src) = Lookup(N, K, N[a][Turn(order)], src)
                     /\ Lookup(N, K, b, src) = Lookup(N, K, N[b][Turn(order)], src)
    BY <1>1, <1>2, Lookups
  <1> QED BY <1>3, <1>4

(* Nodes that are as before, or differ only where this name does not go,   *)
(* answer as before.                                                       *)
Alike(N, K, N2, K2, src, T) ==
  /\ T \subseteq 1..Len(N) /\ T \subseteq 1..Len(N2)
  /\ \A m \in T :
       /\ NameAt(N2, K2, m) = NameAt(N, K, m)
       /\ N2[m].key = N[m].key \/ compare_key_n(NameAt(N, K, m), src) # 0
       /\ \A side \in Sides :
            /\ N[m][side] # NULL => N[m][side] \in T
            /\ Lookup(N2, K2, N2[m][side], src) = Lookup(N2, K2, N[m][side], src)

LEMMA SameLookups ==
  ASSUME NEW N, NEW K, Heap(N, K), Acyclic(N), NEW N2, NEW K2, Heap(N2, K2), Acyclic(N2),
         NEW src \in Names, NEW T, Alike(N, K, N2, K2, src, T)
  PROVE  /\ \A m \in T : Lookup(N2, K2, m, src) = Lookup(N, K, m, src)
         /\ Lookup(N2, K2, NULL, src) = Lookup(N, K, NULL, src)
  <1>1. PICK rank, bound : Numbered(N, rank, bound)
    BY DEF Acyclic
  <1>2. PICK rank2, bound2 : Numbered(N2, rank2, bound2)
    BY DEF Acyclic
  <1>3. /\ Lookup(N2, K2, NULL, src) = NULL
        /\ Lookup(N, K, NULL, src) = NULL
    BY <1>1, <1>2, Lookups
  <1> DEFINE Same == {m \in 1..Len(N) : m \in T => Lookup(N2, K2, m, src) = Lookup(N, K, m, src)}
  <1>4. ASSUME NEW m \in 1..Len(N),
               \A side \in Sides : N[m][side] # NULL => N[m][side] \in Same
        PROVE  m \in Same
    <2> SUFFICES ASSUME m \in T PROVE Lookup(N2, K2, m, src) = Lookup(N, K, m, src)
      OBVIOUS
    <2> DEFINE order == compare_key_n(NameAt(N, K, m), src)
    <2>1. m \in 1..Len(N2) /\ NameAt(N2, K2, m) = NameAt(N, K, m)
      BY DEF Alike
    <2>2. /\ Turn(order) \in Sides
          /\ order = 0 => Lookup(N, K, m, src) = N[m].key
          /\ order # 0 => Lookup(N, K, m, src) = Lookup(N, K, N[m][Turn(order)], src)
      BY <1>1, Lookups
    <2>3. /\ order = 0 => Lookup(N2, K2, m, src) = N2[m].key
          /\ order # 0 => Lookup(N2, K2, m, src) = Lookup(N2, K2, N2[m][Turn(order)], src)
      BY <1>2, <2>1, Lookups
    <2>4. N2[m].key = N[m].key \/ order # 0
      BY DEF Alike
    <2>5. Lookup(N2, K2, N2[m][Turn(order)], src) = Lookup(N2, K2, N[m][Turn(order)], src)
      BY <2>2 DEF Alike
    <2>6. Lookup(N2, K2, N[m][Turn(order)], src) = Lookup(N, K, N[m][Turn(order)], src)
      <3>1. CASE N[m][Turn(order)] = NULL
        BY <1>3, <3>1
      <3>2. CASE N[m][Turn(order)] # NULL
        BY <1>4, <2>2, <3>2 DEF Alike
      <3> QED BY <3>1, <3>2
    <2> QED BY <2>2, <2>3, <2>4, <2>5, <2>6
  <1> HIDE DEF Same
  <1>5. \A m \in 1..Len(N) : m \in Same
    BY <1>1, <1>4, FromTheLeaves
  <1>6. T \subseteq 1..Len(N)
    BY DEF Alike
  <1> QED BY <1>3, <1>5, <1>6 DEF Same

(* A lookup of the name for which the copies were made goes along them.    *)
LEMMA Along ==
  ASSUME NEW N, NEW K, Heap(N, K), Acyclic(N), NEW first \in 1..Len(N), NEW name \in Names,
         \A m \in first..Len(N) - 1 :
           LET order == compare_key_n(NameAt(N, K, m), name) IN
           order # 0 /\ N[m][Turn(order)] = m + 1,
         NameAt(N, K, Len(N)) = name
  PROVE  Lookup(N, K, first, name) = N[Len(N)].key
  <1> DEFINE n == Len(N)
             T == {m \in 1..n : m \in first..n => Lookup(N, K, m, name) = N[n].key}
  <1>1. n \in Nat /\ first \in 1..n /\ n \in 1..n /\ first \in first..n
    BY HeapTypes
  <1>2. PICK rank, bound : Numbered(N, rank, bound)
    BY DEF Acyclic
  <1>3. ASSUME NEW m \in 1..n,
               \A side \in Sides : N[m][side] # NULL => N[m][side] \in T
        PROVE  m \in T
    <2> SUFFICES ASSUME m \in first..n PROVE Lookup(N, K, m, name) = N[n].key
      OBVIOUS
    <2> DEFINE order == compare_key_n(NameAt(N, K, m), name)
    <2>1. /\ Turn(order) \in Sides
          /\ order = 0 => Lookup(N, K, m, name) = N[m].key
          /\ order # 0 => Lookup(N, K, m, name) = Lookup(N, K, N[m][Turn(order)], name)
      BY <1>2, Lookups
    <2>2. CASE m = n
      <3>1. order = 0
        BY <2>2, Comparisons
      <3> QED BY <2>1, <2>2, <3>1
    <2>3. CASE m # n
      <3>1. m \in first..n - 1
        BY <1>1, <2>3
      <3>2. order # 0 /\ N[m][Turn(order)] = m + 1
        BY <3>1
      <3>3. m + 1 \in first..n /\ m + 1 # NULL
        BY <1>1, <3>1 DEF NULL
      <3>4. m + 1 \in T
        BY <1>3, <2>1, <3>2, <3>3
      <3> QED BY <2>1, <3>2, <3>3, <3>4
    <2> QED BY <2>2, <2>3
  <1> HIDE DEF T
  <1>4. \A m \in 1..n : m \in T
    BY <1>2, <1>3, FromTheLeaves
  <1> QED BY <1>1, <1>4 DEF T

-----------------------------------------------------------------------------
(* The steps of an insertion, with what they do to lookups.                *)

(* The map of a scope without words gets a first one.                      *)
LEMMA FirstWord ==
  ASSUME NEW N, NEW K, Heap(N, K), Acyclic(N), Ordered(N, K),
         NEW k \in [name : Names, map : 0..Len(N)],
         NEW K2, Grows(K2, K, k), NEW N2, Grows(N2, N, leaf_node(Len(K2)))
  PROVE  /\ Heap(N2, K2) /\ Acyclic(N2) /\ Ordered(N2, K2)
         /\ Len(N2) = Len(N) + 1
         /\ \A m \in 1..Len(N) : N2[m] = N[m]
         /\ \A m \in 0..Len(N) : \A s \in Names : Lookup(N2, K2, m, s) = Lookup(N, K, m, s)
         /\ \A s \in Names :
              Lookup(N2, K2, Len(N2), s) = IF s = k.name THEN Len(K2) ELSE NULL
  <1> DEFINE n == Len(N)
  <1>1. /\ Heap(N, K2) /\ Len(K2) = Len(K) + 1 /\ K2 # <<>> /\ Last(K2) = k
        /\ \A m \in 1..n : NameAt(N, K2, m) = NameAt(N, K, m)
    BY KeyAppend DEF Grows
  <1>2. Ordered(N, K2)
    BY <1>1, OrderedStill
  <1>3. n \in Nat /\ Len(K2) \in 1..Len(K2) /\ K2[Len(K2)] = k
        /\ \A m \in 1..n : \A side \in Sides : N[m][side] \in 0..n
    BY <1>1, HeapTypes DEF Last
  <1>4. /\ leaf_node(Len(K2)) \in NodeIn(K2, n) /\ Acyclic(N2) /\ Ordered(N2, K2)
    BY <1>1, <1>2, <1>3, Leafed DEF Grows
  <1>5. /\ Heap(N2, K2) /\ Len(N2) = n + 1 /\ N2[n + 1] = leaf_node(Len(K2))
        /\ \A m \in 1..n : N2[m] = N[m]
    BY <1>1, <1>4, HeapAppend DEF Grows
  <1> HIDE DEF n
  <1>6. \A m \in 1..n : NameAt(N2, K2, m) = NameAt(N, K, m)
    BY <1>1, <1>5 DEF NameAt
  <1>7. 1..n \subseteq 1..n + 1 /\ n + 1 \in 1..n + 1
    BY <1>3
  <1>8. \A m \in 1..n : \A side \in Sides : N[m][side] # NULL => N[m][side] \in 1..n
    BY <1>3 DEF NULL
  <1>9. ASSUME NEW s \in Names
        PROVE  /\ \A m \in 1..n : Lookup(N2, K2, m, s) = Lookup(N, K, m, s)
               /\ Lookup(N2, K2, NULL, s) = Lookup(N, K, NULL, s)
    <2> DEFINE T == 1..n
    <2>1. T \subseteq 1..Len(N) /\ T \subseteq 1..Len(N2)
      BY <1>5, <1>7 DEF n
    <2>2. \A m \in T :
           /\ NameAt(N2, K2, m) = NameAt(N, K, m)
           /\ N2[m].key = N[m].key \/ compare_key_n(NameAt(N, K, m), s) # 0
           /\ \A side \in Sides :
                /\ N[m][side] # NULL => N[m][side] \in T
                /\ Lookup(N2, K2, N2[m][side], s) = Lookup(N2, K2, N[m][side], s)
      BY <1>5, <1>6, <1>8
    <2> HIDE DEF T
    <2>3. Alike(N, K, N2, K2, s, T)
      BY <2>1, <2>2 DEF Alike
    <2>4. /\ \A m \in T : Lookup(N2, K2, m, s) = Lookup(N, K, m, s)
          /\ Lookup(N2, K2, NULL, s) = Lookup(N, K, NULL, s)
      BY <1>4, <1>5, <2>3, SameLookups
    <2> QED BY <2>4 DEF T
  <1>10. ASSUME NEW s \in Names
         PROVE  Lookup(N2, K2, n + 1, s) = IF s = k.name THEN Len(K2) ELSE NULL
    <2> DEFINE order == compare_key_n(k.name, s)
    <2>1. PICK rank, bound : Numbered(N2, rank, bound)
      BY <1>4 DEF Acyclic
    <2>2. /\ NameAt(N2, K2, n + 1) = k.name /\ N2[n + 1].key = Len(K2)
          /\ \A side \in Sides : N2[n + 1][side] = NULL
      BY <1>3, <1>5, SidesOf DEF NameAt, leaf_node
    <2>3. /\ Turn(order) \in Sides
          /\ order = 0 => Lookup(N2, K2, n + 1, s) = Len(K2)
          /\ order # 0 => Lookup(N2, K2, n + 1, s) = NULL
      <3>1. Lookup(N2, K2, NULL, s) = NULL
        BY <1>5, <2>1, Lookups
      <3>2. /\ Turn(order) \in Sides
            /\ order = 0 => Lookup(N2, K2, n + 1, s) = N2[n + 1].key
            /\ order # 0 =>
                 Lookup(N2, K2, n + 1, s) = Lookup(N2, K2, N2[n + 1][Turn(order)], s)
        BY <1>5, <1>7, <2>1, <2>2, Lookups
      <3> QED BY <2>2, <3>1, <3>2
    <2>4. k.name \in Names
      OBVIOUS
    <2>5. order = 0 <=> s = k.name
      BY <2>4, Comparisons, SameName
    <2> QED BY <2>3, <2>5
  <1>11. \A m \in 0..n : m = NULL \/ m \in 1..n
    BY <1>3 DEF NULL
  <1>12. \A m \in 0..n : \A s \in Names : Lookup(N2, K2, m, s) = Lookup(N, K, m, s)
    BY <1>9, <1>11
  <1> QED BY <1>4, <1>5, <1>10, <1>12 DEF n

(* The root of a map is copied, to start an insertion.                     *)
LEMMA RootCopied ==
  ASSUME NEW N, NEW K, Heap(N, K), Acyclic(N), Ordered(N, K), NEW o \in 1..Len(N),
         NEW N2, Grows(N2, N, N[o]),
         NEW k \in [name : Names, map : 0..Len(N)], NEW K2, Grows(K2, K, k)
  PROVE  /\ Heap(N2, K2) /\ Acyclic(N2) /\ Ordered(N2, K2)
         /\ Len(N2) = Len(N) + 1
         /\ Chain(N2, K2, Len(N2), k.name)
         /\ \A m \in 1..Len(N) : N2[m] = N[m]
         /\ \A m \in 0..Len(N) : \A s \in Names : Lookup(N2, K2, m, s) = Lookup(N, K, m, s)
         /\ \A s \in Names : Lookup(N2, K2, Len(N2), s) = Lookup(N, K, o, s)
  <1> DEFINE n == Len(N)
  <1>1. /\ n \in Nat /\ N[o] \in NodeIn(K, n)
        /\ \A m \in 1..n : \A side \in Sides : N[m][side] \in 0..n
    BY HeapTypes DEF NodeIn
  <1>2. /\ Heap(N2, K) /\ Len(N2) = n + 1 /\ N2[n + 1] = N[o]
        /\ \A m \in 1..n : N2[m] = N[m]
    BY <1>1, HeapAppend DEF Grows
  <1>3. Acyclic(N2) /\ Ordered(N2, K)
    BY Cloned DEF Grows
  <1>4. Chain(N2, K2, Len(N2), k.name)
    BY ChainStarts DEF Grows
  <1> HIDE DEF n
  <1>5. 0..n \subseteq 0..n + 1 /\ 1..n \subseteq 1..n + 1 /\ n + 1 \in 1..n + 1
    BY <1>1
  <1>6. k \in [name : Names, map : 0..n + 1]
    BY <1>5 DEF n
  <1>7. /\ Heap(N2, K2)
        /\ \A m \in 1..n + 1 : NameAt(N2, K2, m) = NameAt(N2, K, m)
    <2>1. k \in [name : Names, map : 0..Len(N2)]
      BY <1>2, <1>6
    <2> QED BY <1>2, <2>1, KeyAppend DEF Grows
  <1>8. Ordered(N2, K2)
    <2>1. \A m \in 1..Len(N2) : NameAt(N2, K2, m) = NameAt(N2, K, m)
      BY <1>2, <1>7
    <2> QED BY <1>3, <2>1, OrderedStill
  <1>9. \A m \in 1..n : NameAt(N2, K2, m) = NameAt(N, K, m)
    <2>1. \A m \in 1..n : NameAt(N2, K, m) = NameAt(N, K, m)
      BY <1>2 DEF NameAt
    <2> QED BY <1>5, <1>7, <2>1
  <1>10. \A m \in 1..n : \A side \in Sides : N[m][side] # NULL => N[m][side] \in 1..n
    BY <1>1 DEF NULL
  <1>11. ASSUME NEW s \in Names
        PROVE  /\ \A m \in 1..n : Lookup(N2, K2, m, s) = Lookup(N, K, m, s)
               /\ Lookup(N2, K2, NULL, s) = Lookup(N, K, NULL, s)
    <2> DEFINE T == 1..n
    <2>1. T \subseteq 1..Len(N) /\ T \subseteq 1..Len(N2)
      BY <1>2, <1>5 DEF n
    <2>2. \A m \in T :
           /\ NameAt(N2, K2, m) = NameAt(N, K, m)
           /\ N2[m].key = N[m].key \/ compare_key_n(NameAt(N, K, m), s) # 0
           /\ \A side \in Sides :
                /\ N[m][side] # NULL => N[m][side] \in T
                /\ Lookup(N2, K2, N2[m][side], s) = Lookup(N2, K2, N[m][side], s)
      BY <1>2, <1>9, <1>10
    <2> HIDE DEF T
    <2>3. Alike(N, K, N2, K2, s, T)
      BY <2>1, <2>2 DEF Alike
    <2>4. /\ \A m \in T : Lookup(N2, K2, m, s) = Lookup(N, K, m, s)
          /\ Lookup(N2, K2, NULL, s) = Lookup(N, K, NULL, s)
      BY <1>3, <1>7, <2>3, SameLookups
    <2> QED BY <2>4 DEF T
  <1>12. ASSUME NEW s \in Names
         PROVE  Lookup(N2, K2, n + 1, s) = Lookup(N, K, o, s)
    <2>1. o \in 1..n /\ o \in 1..n + 1
      BY <1>5 DEF n
    <2>2. N2[o] = N2[n + 1] /\ n + 1 \in 1..Len(N2) /\ o \in 1..Len(N2)
      BY <1>2, <1>5, <2>1
    <2>3. Lookup(N2, K2, n + 1, s) = Lookup(N2, K2, o, s)
      BY <1>3, <1>7, <2>2, Twins
    <2> QED BY <1>11, <2>1, <2>3
  <1>13. \A m \in 0..n : m = NULL \/ m \in 1..n
    BY <1>1 DEF NULL
  <1>14. \A m \in 0..n : \A s \in Names : Lookup(N2, K2, m, s) = Lookup(N, K, m, s)
    BY <1>11, <1>13
  <1> QED BY <1>2, <1>3, <1>4, <1>7, <1>8, <1>12, <1>14 DEF n

(* Copying the next node of the path changes no lookup.                    *)
LEMMA DescendedLookups ==
  ASSUME NEW N, NEW K, Heap(N, K), NEW side \in Sides, N[Len(N)][side] # NULL,
         Acyclic(N),
         NEW N2, Heap(N2, K), Acyclic(N2),
         N[Len(N)][side] \in 1..Len(N) - 1,
         Extended(N2, N, side, N[N[Len(N)][side]]),
         NEW s \in Names, NEW m \in 0..Len(N)
  PROVE  Lookup(N2, K, m, s) = Lookup(N, K, m, s)
  <1> DEFINE n == Len(N)
             o == N[n][side]
             T == 1..n
  <1>1. /\ n \in Nat /\ o \in 1..n - 1
        /\ \A x \in 1..n : \A way \in Sides : N[x][way] \in 0..n
    BY HeapTypes
  <1>2. 1..n \subseteq 1..n + 1 /\ n + 1 \in 1..n + 1 /\ \A x \in 1..n : x \in 1..n - 1 \/ x = n
    BY <1>1
  <1>3. /\ N2[o] = N[o] /\ N2[n + 1] = N[o] /\ Len(N2) = n + 1
        /\ \A x \in 1..n - 1 : N2[x] = N[x]
        /\ N2[n].key = N[n].key /\ N2[n][side] = n + 1
        /\ \A other \in Sides : other # side => N2[n][other] = N[n][other]
    BY <1>1 DEF Extended
  <1>4. Lookup(N2, K, n + 1, s) = Lookup(N2, K, o, s)
    <2>1. o \in 1..n + 1
      BY <1>1
    <2>2. o \in 1..Len(N2) /\ n + 1 \in 1..Len(N2) /\ N2[o] = N2[n + 1]
      BY <1>2, <1>3, <2>1
    <2> HIDE DEF o, n
    <2> QED BY <2>2, Twins
  <1>5. \A x \in 1..n : NameAt(N2, K, x) = NameAt(N, K, x) /\ N2[x].key = N[x].key
    BY <1>2, <1>3 DEF NameAt
  <1>6. ASSUME NEW x \in 1..n, NEW way \in Sides
        PROVE  /\ N[x][way] # NULL => N[x][way] \in 1..n
               /\ Lookup(N2, K, N2[x][way], s) = Lookup(N2, K, N[x][way], s)
    <2>1. N[x][way] # NULL => N[x][way] \in 1..n
      BY <1>1 DEF NULL
    <2>2. CASE x = n /\ way = side
      BY <1>3, <1>4, <2>1, <2>2
    <2>3. CASE ~(x = n /\ way = side)
      <3>1. N2[x][way] = N[x][way]
        BY <1>2, <1>3, <2>3
      <3> QED BY <2>1, <3>1
    <2> QED BY <2>2, <2>3
  <1> HIDE DEF n, o
  <1>7. Alike(N, K, N2, K, s, T)
    BY <1>2, <1>3, <1>5, <1>6 DEF Alike, n
  <1> HIDE DEF T
  <1>8. /\ \A x \in T : Lookup(N2, K, x, s) = Lookup(N, K, x, s)
        /\ Lookup(N2, K, NULL, s) = Lookup(N, K, NULL, s)
    BY <1>7, SameLookups
  <1>9. m = NULL \/ m \in T
    BY <1>1 DEF T, n, NULL
  <1> QED BY <1>8, <1>9

(* Nodes before the copies answer as before whatever is done to the copies.*)
LEMMA BeforeTheCopies ==
  ASSUME NEW N, NEW K, Heap(N, K), Acyclic(N), NEW N2, Heap(N2, K), Acyclic(N2),
         NEW first, NEW name, Chain(N, K, first, name), Len(N) <= Len(N2),
         \A m \in 1..Len(N) - 1 : N2[m] = N[m],
         NEW s \in Names, NEW m \in 0..first - 1
  PROVE  Lookup(N2, K, m, s) = Lookup(N, K, m, s)
  <1> DEFINE n == Len(N)
             T == 1..first - 1
  <1>1. /\ n \in Nat /\ first \in 1..n /\ Len(N2) \in Nat
        /\ \A x \in 1..n : \A side \in Sides : N[x][side] \in 0..n
        /\ \A x \in 1..first - 1 : \A side \in Sides : N[x][side] < first
    BY HeapTypes DEF Chain
  <1>2. T \subseteq 1..n - 1 /\ T \subseteq 1..Len(N) /\ T \subseteq 1..Len(N2)
    BY <1>1
  <1>3. \A x \in T : \A side \in Sides : N[x][side] # NULL => N[x][side] \in T
    BY <1>1 DEF NULL
  <1>4. \A x \in T : N2[x] = N[x] /\ NameAt(N2, K, x) = NameAt(N, K, x)
    BY <1>2 DEF NameAt
  <1>5. m = NULL \/ m \in T
    BY <1>1 DEF NULL
  <1> HIDE DEF T, n
  <1>6. Alike(N, K, N2, K, s, T)
    BY <1>2, <1>3, <1>4 DEF Alike
  <1>7. /\ \A x \in T : Lookup(N2, K, x, s) = Lookup(N, K, x, s)
        /\ Lookup(N2, K, NULL, s) = Lookup(N, K, NULL, s)
    BY <1>6, SameLookups
  <1> QED BY <1>5, <1>7

(* With a leaf for its name the new root answers with the new word, and    *)
(* otherwise as before.                                                    *)
LEMMA AttachedLookups ==
  ASSUME LongerBehind,
         NEW N, NEW K, Heap(N, K), Acyclic(N), NEW N2, Heap(N2, K), Acyclic(N2),
         NEW first, NEW k \in 1..Len(K), Chain(N, K, first, K[k].name),
         NEW side \in Sides, Goes(N, K, K[k].name, side), N[Len(N)][side] = NULL,
         Extended(N2, N, side, leaf_node(k)),
         NEW s \in Names
  PROVE  Lookup(N2, K, first, s) = IF s = K[k].name THEN k ELSE Lookup(N, K, first, s)
  <1> DEFINE n == Len(N)
             word == K[k].name
             T == 1..n
  <1>1. /\ n \in Nat /\ first \in 1..n /\ word \in Names
        /\ \A x \in 1..n : \A way \in Sides : N[x][way] \in 0..n
        /\ \A x \in 1..n : NameAt(N, K, x) \in Names
        /\ n \in 1..n
    BY HeapTypes DEF Chain
  <1>2. 1..n \subseteq 1..n + 1 /\ n + 1 \in 1..n + 1 /\ \A x \in 1..n : x \in 1..n - 1 \/ x = n
    BY <1>1
  <1>3. /\ N2[n + 1] = leaf_node(k) /\ Len(N2) = n + 1
        /\ \A x \in 1..n - 1 : N2[x] = N[x]
        /\ N2[n].key = N[n].key /\ N2[n][side] = n + 1
        /\ \A other \in Sides : other # side => N2[n][other] = N[n][other]
    BY DEF Extended
  <1>4. \A x \in 1..n : NameAt(N2, K, x) = NameAt(N, K, x) /\ N2[x].key = N[x].key
    BY <1>2, <1>3 DEF NameAt
  <1>5. /\ NameAt(N2, K, n + 1) = word /\ N2[n + 1].key = k
        /\ \A way \in Sides : N2[n + 1][way] = NULL
    BY <1>3, SidesOf DEF NameAt, leaf_node
  <1>6. CASE s = word
    <2>1. first \in 1..Len(N2) /\ NameAt(N2, K, Len(N2)) = word
      BY <1>1, <1>2, <1>3, <1>5
    <2>2. ASSUME NEW m \in first..Len(N2) - 1
          PROVE  LET order == compare_key_n(NameAt(N2, K, m), word) IN
                 order # 0 /\ N2[m][Turn(order)] = m + 1
      <3>1. m \in 1..n /\ (m = n \/ (m \in 1..n - 1 /\ m \in first..n - 1))
        BY <1>1, <1>3
      <3>2. compare_key_n(NameAt(N2, K, m), word) = compare_key(NameAt(N, K, m), word)
        BY <1>1, <1>4, <3>1, Comparisons
      <3>3. CASE m = n
        BY <1>3, <3>2, <3>3 DEF Goes
      <3>4. CASE m \in 1..n - 1 /\ m \in first..n - 1
        <4>1. LET to == compare_key(NameAt(N, K, m), word) IN
              to # 0 /\ N[m][Turn(to)] = m + 1
          BY <3>4 DEF Chain
        <4> QED BY <1>3, <3>2, <3>4, <4>1
      <3> QED BY <3>1, <3>3, <3>4
    <2> HIDE DEF word
    <2>3. Lookup(N2, K, first, word) = N2[Len(N2)].key
      BY <1>1, <2>1, <2>2, Along
    <2> QED BY <1>3, <1>5, <1>6, <2>3 DEF word
  <1>7. CASE s # word
    <2>1. PICK rank, bound : Numbered(N2, rank, bound)
      BY DEF Acyclic
    <2>2. Lookup(N2, K, NULL, s) = NULL
      BY <2>1, Lookups
    <2>3. Lookup(N2, K, n + 1, s) = NULL
      <3> DEFINE order == compare_key_n(NameAt(N2, K, n + 1), s)
      <3>1. order # 0
        BY <1>1, <1>5, <1>7, SameName
      <3>2. /\ Turn(order) \in Sides
            /\ order # 0 =>
                 Lookup(N2, K, n + 1, s) = Lookup(N2, K, N2[n + 1][Turn(order)], s)
        BY <1>2, <1>3, <2>1, Lookups
      <3> QED BY <1>5, <2>2, <3>1, <3>2
    <2>4. ASSUME NEW x \in 1..n, NEW way \in Sides
          PROVE  /\ N[x][way] # NULL => N[x][way] \in 1..n
                 /\ Lookup(N2, K, N2[x][way], s) = Lookup(N2, K, N[x][way], s)
      <3>1. N[x][way] # NULL => N[x][way] \in 1..n
        BY <1>1 DEF NULL
      <3>2. CASE x = n /\ way = side
        BY <1>3, <2>2, <2>3, <3>2
      <3>3. CASE ~(x = n /\ way = side)
        <4>1. N2[x][way] = N[x][way]
          BY <1>2, <1>3, <3>3
        <4> QED BY <3>1, <4>1
      <3> QED BY <3>1, <3>2, <3>3
    <2> HIDE DEF n, word
    <2>5. Alike(N, K, N2, K, s, T)
      BY <1>2, <1>3, <1>4, <2>4 DEF Alike, n
    <2> HIDE DEF T
    <2>6. \A x \in T : Lookup(N2, K, x, s) = Lookup(N, K, x, s)
      BY <2>5, SameLookups
    <2>7. first \in T
      BY <1>1 DEF T
    <2> QED BY <1>7, <2>6, <2>7 DEF word
  <1> QED BY <1>6, <1>7

(* And with the new key in the place of one of that name.                  *)
LEMMA ReplacedLookups ==
  ASSUME LongerBehind,
         NEW N, NEW K, Heap(N, K), Acyclic(N), NEW N2, Heap(N2, K), Acyclic(N2),
         NEW first, NEW k \in 1..Len(K), Chain(N, K, first, K[k].name),
         K[k].name = NameAt(N, K, Len(N)),
         Len(N2) = Len(N),
         \A m \in 1..Len(N) : /\ NameAt(N2, K, m) = NameAt(N, K, m)
                              /\ \A side \in Sides : N2[m][side] = N[m][side]
                              /\ m # Len(N) => N2[m] = N[m],
         N2[Len(N)].key = k,
         NEW s \in Names
  PROVE  Lookup(N2, K, first, s) = IF s = K[k].name THEN k ELSE Lookup(N, K, first, s)
  <1> DEFINE n == Len(N)
             word == K[k].name
             T == 1..n
  <1>1. /\ n \in Nat /\ first \in 1..n /\ word \in Names
        /\ \A x \in 1..n : \A way \in Sides : N[x][way] \in 0..n
        /\ \A x \in 1..n : NameAt(N, K, x) \in Names
        /\ n \in 1..n
    BY HeapTypes DEF Chain
  <1>2. \A x \in 1..n : /\ NameAt(N2, K, x) = NameAt(N, K, x)
                        /\ \A way \in Sides : N2[x][way] = N[x][way]
                        /\ x # n => N2[x] = N[x]
    OBVIOUS
  <1>3. Len(N2) = n /\ N2[n].key = k /\ NameAt(N2, K, n) = word
    BY <1>1
  <1>4. CASE s = word
    <2>1. first \in 1..Len(N2) /\ NameAt(N2, K, Len(N2)) = word
      BY <1>1, <1>3
    <2>2. ASSUME NEW m \in first..Len(N2) - 1
          PROVE  LET order == compare_key_n(NameAt(N2, K, m), word) IN
                 order # 0 /\ N2[m][Turn(order)] = m + 1
      <3>1. m \in 1..n /\ m # n /\ m \in first..n - 1
        BY <1>1, <1>3
      <3>2. compare_key_n(NameAt(N2, K, m), word) = compare_key(NameAt(N, K, m), word)
        BY <1>1, <1>2, <3>1, Comparisons
      <3>3. LET to == compare_key(NameAt(N, K, m), word) IN
            to # 0 /\ N[m][Turn(to)] = m + 1
        BY <3>1 DEF Chain
      <3> QED BY <1>2, <3>1, <3>2, <3>3
    <2> HIDE DEF word
    <2>3. Lookup(N2, K, first, word) = N2[Len(N2)].key
      BY <1>1, <2>1, <2>2, Along
    <2> QED BY <1>3, <1>4, <2>3 DEF word
  <1>5. CASE s # word
    <2>1. ASSUME NEW x \in 1..n
          PROVE  N2[x].key = N[x].key \/ compare_key_n(NameAt(N, K, x), s) # 0
      <3>1. CASE x # n
        BY <1>2, <3>1
      <3>2. CASE x = n
        BY <1>1, <1>5, <3>2, SameName
      <3> QED BY <3>1, <3>2
    <2>2. \A x \in 1..n : \A way \in Sides : N[x][way] # NULL => N[x][way] \in 1..n
      BY <1>1 DEF NULL
    <2> HIDE DEF n, word
    <2>3. Alike(N, K, N2, K, s, T)
      BY <1>2, <1>3, <2>1, <2>2 DEF Alike, n
    <2> HIDE DEF T
    <2>4. \A x \in T : Lookup(N2, K, x, s) = Lookup(N, K, x, s)
      BY <2>3, SameLookups
    <2>5. first \in T
      BY <1>1 DEF T
    <2> QED BY <1>5, <2>4, <2>5 DEF word
  <1> QED BY <1>4, <1>5

-----------------------------------------------------------------------------
(* The invariant: the heap holds search trees, and while map_insert runs   *)
(* its copies are the end of the heap.  The scopes and the bodies of words *)
(* have the nodes before them, and the new root still answers as the map   *)
(* it is a copy of.                                                        *)

Copied ==
  pc = "insert" =>
    /\ keys # <<>>
    /\ Chain(nodes, keys, root, keys[Len(keys)].name)
    /\ node = Len(nodes)
    /\ \A i \in 1..Len(scopes) : scopes[i] < root
    /\ \A k \in 1..Len(keys) : keys[k].map < root
    /\ keys[Len(keys)].map = Last(scopes)
    /\ \A s \in Names : Lookup(nodes, keys, root, s) = Lookup(nodes, keys, Outer, s)

Inv ==
  /\ TypeOK
  /\ scopes # <<>>
  /\ Acyclic(nodes)
  /\ Ordered(nodes, keys)
  /\ Copied

LEMMA Typed ==
  /\ TypeOK <=>
       /\ Heap(nodes, keys)
       /\ scopes \in Seq(0..Len(nodes))
       /\ pc \in {"run", "insert"}
       /\ root \in 0..Len(nodes)
       /\ node \in 0..Len(nodes)
       /\ pc = "insert" => root # NULL /\ node # NULL /\ Len(scopes) > 1
  /\ TypeOK' <=>
       /\ Heap(nodes', keys')
       /\ scopes' \in Seq(0..Len(nodes'))
       /\ pc' \in {"run", "insert"}
       /\ root' \in 0..Len(nodes')
       /\ node' \in 0..Len(nodes')
       /\ pc' = "insert" => root' # NULL /\ node' # NULL /\ Len(scopes') > 1
  BY DEF TypeOK, Heap

(* The last two scopes become one.                                         *)
LEMMA Joined ==
  ASSUME NEW X, NEW s \in Seq(X), Len(s) > 1, NEW x \in X
  PROVE  /\ Append(Front(Front(s)), x) \in Seq(X)
         /\ Len(Append(Front(Front(s)), x)) = Len(s) - 1
         /\ Append(Front(Front(s)), x) # <<>>
         /\ \A i \in 1..Len(s) - 2 : Append(Front(Front(s)), x)[i] = s[i]
         /\ Append(Front(Front(s)), x)[Len(s) - 1] = x
         /\ Front(Front(s)) \in Seq(X)
         /\ Len(Front(Front(s))) = Len(s) - 2
         /\ \A i \in 1..Len(s) - 2 : Front(Front(s))[i] = s[i]
  <1> DEFINE f == Front(s)
             g == Front(f)
  <1>1. Len(s) \in Nat /\ s # <<>>
    BY LenProperties, EmptySeq
  <1>2. /\ f \in Seq(X) /\ Len(f) = Len(s) - 1
        /\ \A i \in 1..Len(s) - 1 : f[i] = s[i]
    BY <1>1, FrontLast
  <1> HIDE DEF f
  <1>3. f # <<>>
    BY <1>1, <1>2, EmptySeq
  <1>4. /\ g \in Seq(X) /\ Len(g) = Len(f) - 1
        /\ \A i \in 1..Len(f) - 1 : g[i] = f[i]
    BY <1>2, <1>3, FrontLast
  <1> HIDE DEF g
  <1>5. Len(g) = Len(s) - 2 /\ \A i \in 1..Len(s) - 2 : g[i] = s[i]
    <2>1. Len(f) - 1 = Len(s) - 2
      BY <1>1, <1>2
    <2>2. \A i \in 1..Len(s) - 2 : i \in 1..Len(s) - 1
      BY <1>1
    <2> QED BY <1>2, <1>4, <2>1, <2>2
  <1>6. /\ Append(g, x) \in Seq(X) /\ Len(Append(g, x)) = Len(g) + 1 /\ Append(g, x) # <<>>
        /\ \A i \in 1..Len(g) : Append(g, x)[i] = g[i]
        /\ Append(g, x)[Len(g) + 1] = x
    BY <1>4, Appended
  <1>7. Len(g) + 1 = Len(s) - 1
    BY <1>1, <1>5
  <1> HIDE DEF f, g
  <1>8. Append(g, x)[Len(s) - 1] = x /\ \A i \in 1..Len(s) - 2 : Append(g, x)[i] = s[i]
    BY <1>5, <1>6, <1>7
  <1>9. Append(g, x) \in Seq(X) /\ Len(Append(g, x)) = Len(s) - 1 /\ Append(g, x) # <<>>
    BY <1>6, <1>7
  <1> QED BY <1>4, <1>5, <1>8, <1>9 DEF f, g

(* The maps in use are nodes of the heap, and the outer scope is one.      *)
LEMMA Pointers ==
  ASSUME Inv
  PROVE  /\ Heap(nodes, keys) /\ Len(nodes) \in Nat /\ Len(keys) \in Nat
         /\ scopes \in Seq(0..Len(nodes)) /\ Len(scopes) \in Nat \ {0}
         /\ \A i \in 1..Len(scopes) : scopes[i] \in 0..Len(nodes)
         /\ Last(scopes) = scopes[Len(scopes)] /\ Last(scopes) \in 0..Len(nodes)
         /\ Len(scopes) > 1 => Outer \in 0..Len(nodes)
         /\ \A k \in 1..Len(keys) : keys[k].name \in Names /\ keys[k].map \in 0..Len(nodes)
  <1>1. Heap(nodes, keys) /\ scopes \in Seq(0..Len(nodes)) /\ scopes # <<>>
    BY Typed DEF Inv
  <1>2. Len(nodes) \in Nat /\ Len(keys) \in Nat
        /\ \A k \in 1..Len(keys) : keys[k].name \in Names /\ keys[k].map \in 0..Len(nodes)
    BY <1>1, HeapTypes
  <1>3. Len(scopes) \in Nat /\ Len(scopes) # 0
    BY <1>1, LenProperties, EmptySeq
  <1>4. \A i \in 1..Len(scopes) : scopes[i] \in 0..Len(nodes)
    BY <1>1, ElementOfSeq
  <1>5. Last(scopes) = scopes[Len(scopes)] /\ Len(scopes) \in 1..Len(scopes)
    BY <1>3 DEF Last
  <1>6. Len(scopes) > 1 => Outer \in 0..Len(nodes)
    BY <1>3, <1>4 DEF Outer
  <1> QED BY <1>1, <1>2, <1>3, <1>4, <1>5, <1>6

LEMMA InvInit == Init => Inv
  <1> SUFFICES ASSUME Init PROVE Inv
    OBVIOUS
  <1>1. /\ nodes = <<>> /\ keys = <<>> /\ scopes = <<NULL>> /\ pc = "run"
        /\ root = NULL /\ node = NULL
    BY DEF Init
  <1>2. /\ Len(nodes) = 0 /\ Len(keys) = 0 /\ 1..Len(nodes) = {}
        /\ 0 \in 0..Len(nodes)
    BY <1>1
  <1>3. TypeOK
    BY <1>1, <1>2, EmptySeq DEF TypeOK, NULL
  <1>4. Acyclic(nodes)
    <2> DEFINE rank == [m \in 1..Len(nodes) |-> 0]
    <2>1. rank \in [1..Len(nodes) -> 0..0] /\ 0 \in Nat
      OBVIOUS
    <2>2. Numbered(nodes, rank, 0)
      BY <1>2, <2>1 DEF Numbered
    <2> QED BY <2>2 DEF Acyclic
  <1>5. Ordered(nodes, keys)
    <2> DEFINE W == [m \in 0..Len(nodes) |-> {}]
    <2>1. W \in [0..Len(nodes) -> SUBSET Names] /\ W[NULL] = {}
      BY <1>2 DEF NULL
    <2>2. Named(nodes, keys, W)
      BY <1>2, <2>1 DEF Named
    <2> QED BY <2>2 DEF Ordered
  <1>6. scopes # <<>> /\ Copied
    BY <1>1 DEF Copied
  <1> QED BY <1>3, <1>4, <1>5, <1>6 DEF Inv

LEMMA Opens ==
  ASSUME Inv, OpenScope
  PROVE  /\ Inv' /\ nodes' = nodes /\ keys' = keys /\ pc = "run" /\ pc' = "run"
         /\ scopes' = Append(scopes, Last(scopes))
  <1>1. /\ pc = "run" /\ nodes' = nodes /\ keys' = keys /\ pc' = pc /\ root' = root
        /\ node' = node /\ scopes' = Append(scopes, Last(scopes))
    BY DEF OpenScope
  <1>2. scopes' \in Seq(0..Len(nodes)) /\ scopes' # <<>>
    BY <1>1, Pointers, Appended
  <1>3. TypeOK'
    BY <1>1, <1>2, Typed DEF Inv
  <1>4. Acyclic(nodes') /\ Ordered(nodes', keys')
    BY <1>1 DEF Inv
  <1>5. Copied'
    BY <1>1 DEF Copied
  <1> QED BY <1>1, <1>2, <1>3, <1>4, <1>5 DEF Inv

(* The first word of a scope.                                              *)
LEMMA ClosesFirst ==
  ASSUME Inv, NEW name \in Names, CloseScope(name), Outer = NULL
  PROVE  /\ Inv' /\ pc = "run" /\ pc' = "run" /\ Len(scopes) > 1
         /\ Grows(keys', keys, [name |-> name, map |-> Last(scopes)])
         /\ Len(keys') = Len(keys) + 1
         /\ Len(nodes') = Len(nodes) + 1
         /\ scopes' = Append(Front(Front(scopes)), Len(nodes'))
         /\ \A m \in 1..Len(nodes) : nodes'[m] = nodes[m]
         /\ \A m \in 0..Len(nodes) : \A s \in Names :
              Lookup(nodes', keys', m, s) = Lookup(nodes, keys, m, s)
         /\ \A s \in Names : Lookup(nodes', keys', Len(nodes'), s) =
              IF s = name THEN Len(keys') ELSE Lookup(nodes, keys, NULL, s)
  <1> DEFINE n == Len(nodes)
             k == [name |-> name, map |-> Last(scopes)]
  <1>1. /\ pc = "run" /\ Len(scopes) > 1 /\ keys' = Append(keys, k)
        /\ nodes' = Append(nodes, leaf_node(Len(keys')))
        /\ scopes' = Append(Front(Front(scopes)), Len(nodes'))
        /\ pc' = pc /\ root' = root /\ node' = node
    BY DEF CloseScope
  <1>2. /\ Heap(nodes, keys) /\ Acyclic(nodes) /\ Ordered(nodes, keys) /\ n \in Nat
        /\ scopes \in Seq(0..n) /\ Last(scopes) \in 0..n
        /\ root \in 0..n /\ node \in 0..n
    BY Pointers, Typed DEF Inv
  <1>3. k \in [name : Names, map : 0..n] /\ k.name = name
    BY <1>2
  <1>4. Grows(keys', keys, k) /\ Grows(nodes', nodes, leaf_node(Len(keys')))
    BY <1>1 DEF Grows
  <1> HIDE DEF k
  <1>5. Len(keys') = Len(keys) + 1
    BY <1>2, <1>3, <1>4, KeyAppend DEF Grows
  <1>6. /\ Heap(nodes', keys') /\ Acyclic(nodes') /\ Ordered(nodes', keys')
        /\ Len(nodes') = n + 1
        /\ \A m \in 1..n : nodes'[m] = nodes[m]
        /\ \A m \in 0..n : \A s \in Names :
             Lookup(nodes', keys', m, s) = Lookup(nodes, keys, m, s)
        /\ \A s \in Names : Lookup(nodes', keys', Len(nodes'), s) =
             IF s = k.name THEN Len(keys') ELSE NULL
    BY <1>2, <1>3, <1>4, FirstWord
  <1>7. \A s \in Names : Lookup(nodes, keys, NULL, s) = NULL
    <2>1. PICK rank, bound : Numbered(nodes, rank, bound)
      BY <1>2 DEF Acyclic
    <2> QED BY <1>2, <2>1, Lookups
  <1>8. \A s \in Names : Lookup(nodes', keys', Len(nodes'), s) =
          IF s = name THEN Len(keys') ELSE Lookup(nodes, keys, NULL, s)
    BY <1>3, <1>6, <1>7
  <1>9. 0..n \subseteq 0..Len(nodes') /\ Len(nodes') \in 0..Len(nodes')
    BY <1>2, <1>6
  <1>10. scopes' \in Seq(0..Len(nodes')) /\ scopes' # <<>>
    <2>1. scopes \in Seq(0..Len(nodes'))
      BY <1>2, <1>9, SeqMonotonic
    <2> QED BY <1>1, <1>9, <2>1, Joined
  <1>11. TypeOK'
    BY <1>1, <1>2, <1>6, <1>9, <1>10, Typed
  <1>12. Copied'
    BY <1>1 DEF Copied
  <1>13. Inv'
    BY <1>6, <1>10, <1>11, <1>12 DEF Inv
  <1> QED BY <1>1, <1>4, <1>5, <1>6, <1>8, <1>13 DEF k

(* A word for a scope that has some.                                       *)
LEMMA ClosesMore ==
  ASSUME Inv, NEW name \in Names, CloseScope(name), Outer # NULL
  PROVE  /\ Inv' /\ pc = "run" /\ pc' = "insert"
         /\ Grows(keys', keys, [name |-> name, map |-> Last(scopes)])
         /\ Len(nodes') = Len(nodes) + 1
         /\ scopes' = scopes
         /\ \A m \in 1..Len(nodes) : nodes'[m] = nodes[m]
         /\ \A m \in 0..Len(nodes) : \A s \in Names :
              Lookup(nodes', keys', m, s) = Lookup(nodes, keys, m, s)
  <1> DEFINE n == Len(nodes)
             k == [name |-> name, map |-> Last(scopes)]
  <1>1. /\ pc = "run" /\ Len(scopes) > 1 /\ keys' = Append(keys, k)
        /\ nodes' = Append(nodes, nodes[Outer])
        /\ pc' = "insert" /\ root' = Len(nodes') /\ node' = Len(nodes')
        /\ scopes' = scopes
    BY DEF CloseScope
  <1>2. /\ Heap(nodes, keys) /\ Acyclic(nodes) /\ Ordered(nodes, keys) /\ n \in Nat
        /\ scopes \in Seq(0..n) /\ Last(scopes) \in 0..n /\ scopes # <<>>
        /\ \A i \in 1..Len(scopes) : scopes[i] \in 0..n
        /\ Outer \in 0..n
    BY <1>1, Pointers, Typed DEF Inv
  <1>3. Outer \in 1..n
    BY <1>2 DEF NULL
  <1>4. k \in [name : Names, map : 0..n] /\ k.name = name /\ k.map = Last(scopes)
    BY <1>2
  <1>5. Grows(keys', keys, k) /\ Grows(nodes', nodes, nodes[Outer])
    BY <1>1 DEF Grows
  <1> HIDE DEF k
  <1>6. /\ Len(keys') = Len(keys) + 1 /\ keys' # <<>> /\ Last(keys') = k
    BY <1>2, <1>4, <1>5, KeyAppend DEF Grows
  <1>7. keys'[Len(keys')] = k
    BY <1>6 DEF Last
  <1>8. /\ Heap(nodes', keys') /\ Acyclic(nodes') /\ Ordered(nodes', keys')
        /\ Len(nodes') = n + 1
        /\ Chain(nodes', keys', Len(nodes'), k.name)
        /\ \A m \in 1..n : nodes'[m] = nodes[m]
        /\ \A m \in 0..n : \A s \in Names :
             Lookup(nodes', keys', m, s) = Lookup(nodes, keys, m, s)
        /\ \A s \in Names :
             Lookup(nodes', keys', Len(nodes'), s) = Lookup(nodes, keys, Outer, s)
    BY <1>2, <1>3, <1>4, <1>5, RootCopied
  <1>9. 0..n \subseteq 0..Len(nodes') /\ Len(nodes') \in 0..Len(nodes')
        /\ \A m \in 0..n : m < Len(nodes')
    BY <1>2, <1>8
  <1>10. scopes' \in Seq(0..Len(nodes'))
    BY <1>1, <1>2, <1>9, SeqMonotonic
  <1>11. TypeOK'
    <2>1. Len(nodes') # NULL
      BY <1>2, <1>8 DEF NULL
    <2> QED BY <1>1, <1>8, <1>9, <1>10, <2>1, Typed
  <1>12. Copied'
    <2>1. Outer' = Outer
      BY <1>1 DEF Outer
    <2>2. \A s \in Names :
            Lookup(nodes', keys', root', s) = Lookup(nodes', keys', Outer', s)
      BY <1>1, <1>2, <1>8, <2>1
    <2>3. \A i \in 1..Len(scopes') : scopes'[i] < root'
      BY <1>1, <1>2, <1>9
    <2>4. \A i \in 1..Len(keys') : keys'[i].map < root'
      <3> SUFFICES ASSUME NEW i \in 1..Len(keys') PROVE keys'[i].map \in 0..n
        BY <1>1, <1>9
      <3>1. i \in 1..Len(keys) \/ i = Len(keys')
        BY <1>2, <1>6, HeapTypes
      <3>2. \A j \in 1..Len(keys) : keys'[j] = keys[j] /\ keys[j].map \in 0..n
        BY <1>2, <1>4, <1>5, KeyAppend, Pointers DEF Grows
      <3> QED BY <1>2, <1>4, <1>7, <3>1, <3>2
    <2>5. keys'[Len(keys')].map = Last(scopes')
      BY <1>1, <1>4, <1>7
    <2> QED BY <1>1, <1>6, <1>7, <1>8, <2>2, <2>3, <2>4, <2>5 DEF Copied
  <1>13. Inv'
    BY <1>1, <1>2, <1>8, <1>11, <1>12 DEF Inv
  <1> QED BY <1>1, <1>5, <1>8, <1>13 DEF k

(* Inside the loop the last node is compared with the new word.            *)
LEMMA InLoop ==
  ASSUME Inv, pc = "insert"
  PROVE  LET n == Len(nodes) k == Len(keys) IN
         /\ Heap(nodes, keys) /\ Acyclic(nodes) /\ Ordered(nodes, keys)
         /\ node = n /\ n \in 1..n /\ k \in 1..k /\ n \in Nat /\ k \in Nat
         /\ Chain(nodes, keys, root, keys[k].name) /\ root \in 1..n
         /\ Len(scopes) > 1 /\ Outer \in 0..n /\ Outer < root
         /\ cmp = compare_key(NameAt(nodes, keys, n), keys[k].name)
         /\ NameAt(nodes, keys, n) \in Names /\ keys[k].name \in Names
         /\ \A i \in 1..Len(scopes) : scopes[i] < root
         /\ \A i \in 1..k : keys[i].map < root
         /\ keys # <<>> /\ keys[k].map = Last(scopes)
  <1> DEFINE n == Len(nodes)
             k == Len(keys)
  <1>1. /\ Heap(nodes, keys) /\ Acyclic(nodes) /\ Ordered(nodes, keys)
        /\ n \in Nat /\ k \in Nat /\ Len(scopes) > 1 /\ Len(scopes) \in Nat
        /\ Outer \in 0..n
    BY Pointers, Typed DEF Inv
  <1>2. /\ node = n /\ Chain(nodes, keys, root, keys[k].name) /\ keys # <<>>
        /\ \A i \in 1..Len(scopes) : scopes[i] < root
        /\ \A i \in 1..k : keys[i].map < root
        /\ keys[k].map = Last(scopes)
    BY DEF Inv, Copied
  <1>3. root \in 1..n /\ n \in 1..n
    BY <1>1, <1>2 DEF Chain
  <1>4. nodes[n].key \in 1..k /\ NameAt(nodes, keys, n) \in Names
    BY <1>1, <1>3, HeapTypes
  <1>5. k \in 1..k /\ keys[k].name \in Names
    <2>1. k \in 1..k
      BY <1>1, <1>4
    <2> QED BY <2>1, Pointers
  <1>6. cmp = compare_key(NameAt(nodes, keys, n), keys[k].name)
    BY <1>2 DEF cmp, NameAt
  <1>7. Outer < root
    BY <1>1, <1>2 DEF Outer
  <1> QED BY <1>1, <1>2, <1>3, <1>4, <1>5, <1>6, <1>7

LEMMA Descends ==
  ASSUME Inv, pc = "insert", NEW side,
         Goes(nodes, keys, keys[Len(keys)].name, side), Descend(side)
  PROVE  /\ Inv' /\ pc' = "insert"
         /\ keys' = keys /\ scopes' = scopes
         /\ Len(nodes') = Len(nodes) + 1
         /\ \A m \in 1..Len(nodes) - 1 : nodes'[m] = nodes[m]
         /\ \A m \in 0..Len(nodes) : \A s \in Names :
              Lookup(nodes', keys', m, s) = Lookup(nodes, keys, m, s)
  <1> DEFINE n == Len(nodes)
             word == keys[Len(keys)].name
             o == nodes[n][side]
  <1>1. /\ Heap(nodes, keys) /\ Acyclic(nodes) /\ Ordered(nodes, keys)
        /\ node = n /\ n \in 1..n /\ n \in Nat /\ Chain(nodes, keys, root, word)
        /\ root \in 1..n /\ Outer \in 0..n /\ Outer < root
        /\ \A i \in 1..Len(scopes) : scopes[i] < root
        /\ \A i \in 1..Len(keys) : keys[i].map < root
        /\ keys # <<>> /\ keys[Len(keys)].map = Last(scopes)
        /\ scopes \in Seq(0..n) /\ Len(scopes) > 1 /\ scopes # <<>>
    BY InLoop, Pointers DEF Inv
  <1>2. /\ o # NULL /\ Goes(nodes, keys, word, side)
        /\ Gets(nodes', nodes, n, side, nodes[o])
        /\ node' = Len(nodes') /\ keys' = keys /\ scopes' = scopes /\ pc' = pc /\ root' = root
    BY <1>1 DEF Descend, WithChild, Gets
  <1> HIDE DEF word
  <1>3. /\ Heap(nodes', keys) /\ Acyclic(nodes') /\ Ordered(nodes', keys)
        /\ Chain(nodes', keys, root, word)
        /\ side \in Sides /\ o \in 1..root - 1
        /\ Extended(nodes', nodes, side, nodes[o])
    BY <1>1, <1>2, Descended
  <1>4. /\ Len(nodes') = n + 1 /\ \A m \in 1..n - 1 : nodes'[m] = nodes[m]
    BY <1>3 DEF Extended
  <1>5. \A m \in 0..n : \A s \in Names :
          Lookup(nodes', keys, m, s) = Lookup(nodes, keys, m, s)
    <2>1. o \in 1..n - 1
      BY <1>1, <1>3
    <2> QED BY <1>1, <1>2, <1>3, <2>1, DescendedLookups, SMTT(30)
  <1>6. 0..n \subseteq 0..Len(nodes') /\ Len(nodes') \in 0..Len(nodes') /\ Len(nodes') # NULL
    BY <1>1, <1>4 DEF NULL
  <1>7. TypeOK'
    <2>1. scopes' \in Seq(0..Len(nodes'))
      BY <1>1, <1>2, <1>6, SeqMonotonic
    <2>2. root' \in 0..Len(nodes') /\ root' # NULL
      BY <1>1, <1>2, <1>6 DEF NULL
    <2> QED BY <1>1, <1>2, <1>3, <1>6, <2>1, <2>2, Typed
  <1>8. Copied'
    <2>1. Outer' = Outer
      BY <1>2 DEF Outer
    <2>2. \A s \in Names : Lookup(nodes, keys, root, s) = Lookup(nodes, keys, Outer, s)
      BY DEF Inv, Copied
    <2>3. \A s \in Names :
            Lookup(nodes', keys', root', s) = Lookup(nodes', keys', Outer', s)
      BY <1>1, <1>2, <1>5, <2>1, <2>2
    <2>4. Chain(nodes', keys', root', keys'[Len(keys')].name)
      BY <1>2, <1>3 DEF word
    <2> QED BY <1>1, <1>2, <2>3, <2>4 DEF Copied
  <1>9. Inv'
    BY <1>1, <1>2, <1>3, <1>7, <1>8 DEF Inv
  <1> QED BY <1>1, <1>2, <1>4, <1>5, <1>9

(* What the end of an insertion does to the scopes.                        *)
LEMMA Returns ==
  ASSUME Inv, pc = "insert", Return, keys' = keys,
         Heap(nodes', keys), Acyclic(nodes'), Ordered(nodes', keys),
         Len(nodes) <= Len(nodes')
  PROVE  /\ Inv' /\ pc' = "run" /\ scopes' = Append(Front(Front(scopes)), root)
  <1>1. /\ pc' = "run" /\ root' = NULL /\ node' = NULL
        /\ scopes' = Append(Front(Front(scopes)), root)
    BY DEF Return
  <1>2. /\ scopes \in Seq(0..Len(nodes)) /\ Len(scopes) > 1 /\ root \in 1..Len(nodes)
        /\ Len(nodes) \in Nat /\ Len(nodes') \in Nat
    BY InLoop, Pointers, HeapTypes
  <1>3. 0..Len(nodes) \subseteq 0..Len(nodes') /\ 0 \in 0..Len(nodes')
        /\ root \in 0..Len(nodes')
    BY <1>2
  <1>4. scopes \in Seq(0..Len(nodes'))
    BY <1>2, <1>3, SeqMonotonic
  <1>5. scopes' \in Seq(0..Len(nodes')) /\ scopes' # <<>>
    BY <1>1, <1>2, <1>3, <1>4, Joined
  <1>6. TypeOK'
    BY <1>1, <1>3, <1>5, Typed DEF NULL
  <1>7. Copied'
    BY <1>1 DEF Copied
  <1> QED BY <1>1, <1>5, <1>6, <1>7 DEF Inv

LEMMA Attaches ==
  ASSUME Inv, pc = "insert", NEW side,
         Goes(nodes, keys, keys[Len(keys)].name, side), Attach(side)
  PROVE  /\ Inv' /\ pc' = "run" /\ keys' = keys
         /\ scopes' = Append(Front(Front(scopes)), root)
         /\ Len(nodes') = Len(nodes) + 1
         /\ \A m \in 1..Len(nodes) - 1 : nodes'[m] = nodes[m]
         /\ \A m \in 0..root - 1 : \A s \in Names :
              Lookup(nodes', keys', m, s) = Lookup(nodes, keys, m, s)
         /\ LongerBehind => \A s \in Names : Lookup(nodes', keys', root, s) =
              IF s = keys[Len(keys)].name THEN Len(keys)
              ELSE Lookup(nodes, keys, root, s)
  <1> DEFINE n == Len(nodes)
             k == Len(keys)
  <1>1. /\ Heap(nodes, keys) /\ Acyclic(nodes) /\ Ordered(nodes, keys)
        /\ node = n /\ n \in 1..n /\ n \in Nat /\ Chain(nodes, keys, root, keys[k].name)
        /\ k \in 1..k
    BY InLoop DEF Inv
  <1>2. /\ nodes[n][side] = NULL
        /\ Gets(nodes', nodes, n, side, leaf_node(k))
        /\ keys' = keys /\ Return
    BY <1>1 DEF Attach, WithChild, Gets
  <1>3. /\ Heap(nodes', keys) /\ Acyclic(nodes') /\ Ordered(nodes', keys)
        /\ side \in Sides /\ Extended(nodes', nodes, side, leaf_node(k))
    BY <1>1, <1>2, Attached
  <1>4. /\ Len(nodes) <= Len(nodes') /\ Len(nodes') = n + 1
        /\ \A m \in 1..n - 1 : nodes'[m] = nodes[m]
    BY <1>1, <1>3 DEF Extended
  <1>5. Inv' /\ pc' = "run" /\ scopes' = Append(Front(Front(scopes)), root)
    BY <1>2, <1>3, <1>4, Returns
  <1>6. \A m \in 0..root - 1 : \A s \in Names :
          Lookup(nodes', keys, m, s) = Lookup(nodes, keys, m, s)
    BY <1>1, <1>3, <1>4, BeforeTheCopies
  <1>7. ASSUME LongerBehind, NEW s \in Names
        PROVE  Lookup(nodes', keys, root, s) =
                 IF s = keys[k].name THEN k ELSE Lookup(nodes, keys, root, s)
    BY <1>1, <1>2, <1>3, <1>7, AttachedLookups
  <1> QED BY <1>2, <1>4, <1>5, <1>6, <1>7

LEMMA Replaces ==
  ASSUME Inv, InsertHere
  PROVE  /\ Inv' /\ pc = "insert" /\ pc' = "run" /\ keys' = keys
         /\ scopes' = Append(Front(Front(scopes)), root)
         /\ Len(nodes') = Len(nodes)
         /\ \A m \in 1..Len(nodes) - 1 : nodes'[m] = nodes[m]
         /\ \A m \in 0..root - 1 : \A s \in Names :
              Lookup(nodes', keys', m, s) = Lookup(nodes, keys, m, s)
         /\ LongerBehind => \A s \in Names : Lookup(nodes', keys', root, s) =
              IF s = keys[Len(keys)].name THEN Len(keys)
              ELSE Lookup(nodes, keys, root, s)
  <1> DEFINE n == Len(nodes)
             k == Len(keys)
  <1>1. pc = "insert" /\ cmp = 0 /\ keys' = keys /\ Return
        /\ nodes' = [nodes EXCEPT ![node].key = k]
    BY DEF InsertHere
  <1>2. /\ Heap(nodes, keys) /\ Acyclic(nodes) /\ Ordered(nodes, keys)
        /\ node = n /\ n \in 1..n /\ n \in Nat /\ Chain(nodes, keys, root, keys[k].name)
        /\ k \in 1..k /\ cmp = compare_key(NameAt(nodes, keys, n), keys[k].name)
        /\ NameAt(nodes, keys, n) \in Names /\ keys[k].name \in Names
    BY <1>1, InLoop DEF Inv
  <1>3. keys[k].name = NameAt(nodes, keys, n)
    BY <1>1, <1>2, Comparisons
  <1>4. nodes' = WithKey(nodes, n, k)
    BY <1>1, <1>2 DEF WithKey
  <1>5. /\ Heap(nodes', keys) /\ Acyclic(nodes') /\ Ordered(nodes', keys)
        /\ Len(nodes') = n
        /\ \A m \in 1..n : /\ NameAt(nodes', keys, m) = NameAt(nodes, keys, m)
                           /\ \A side \in Sides : nodes'[m][side] = nodes[m][side]
                           /\ m # n => nodes'[m] = nodes[m]
        /\ nodes'[n].key = k
    BY <1>2, <1>3, <1>4, Replaced
  <1>6. Len(nodes) <= Len(nodes')
    BY <1>2, <1>5
  <1>7. Inv' /\ pc' = "run" /\ scopes' = Append(Front(Front(scopes)), root)
    BY <1>1, <1>5, <1>6, Returns
  <1>8. \A m \in 1..n - 1 : nodes'[m] = nodes[m]
    <2>1. \A m \in 1..n - 1 : m \in 1..n /\ m # n
      BY <1>2
    <2> QED BY <1>5, <2>1
  <1>9. \A m \in 0..root - 1 : \A s \in Names :
          Lookup(nodes', keys, m, s) = Lookup(nodes, keys, m, s)
    BY <1>2, <1>5, <1>6, <1>8, BeforeTheCopies
  <1>10. ASSUME LongerBehind, NEW s \in Names
         PROVE  Lookup(nodes', keys, root, s) =
                  IF s = keys[k].name THEN k ELSE Lookup(nodes, keys, root, s)
    BY <1>2, <1>3, <1>5, <1>10, ReplacedLookups
  <1> QED BY <1>1, <1>5, <1>7, <1>8, <1>9, <1>10

-----------------------------------------------------------------------------
(* The invariant is inductive.                                             *)

(* The four ways in which a step goes, by the lemmas above.                *)
LEMMA Ways ==
  ASSUME Inv, Next
  PROVE  \/ OpenScope
         \/ \E name \in Names : CloseScope(name) /\ Outer = NULL
         \/ \E name \in Names : CloseScope(name) /\ Outer # NULL
         \/ /\ pc = "insert"
            /\ \E side \in Sides : Goes(nodes, keys, keys[Len(keys)].name, side) /\ Descend(side)
         \/ /\ pc = "insert"
            /\ \E side \in Sides : Goes(nodes, keys, keys[Len(keys)].name, side) /\ Attach(side)
         \/ InsertHere
  <1>1. ASSUME pc = "insert", cmp < 0
        PROVE  Goes(nodes, keys, keys[Len(keys)].name, "left")
    BY <1>1, InLoop, Comparisons DEF Goes, Turn
  <1>2. ASSUME pc = "insert", cmp > 0
        PROVE  Goes(nodes, keys, keys[Len(keys)].name, "right")
    BY <1>2, InLoop, Comparisons DEF Goes, Turn
  <1>3. CASE InsertLeft
    BY <1>1, <1>3, SidesOf DEF InsertLeft
  <1>4. CASE InsertRight
    BY <1>2, <1>4, SidesOf DEF InsertRight
  <1>5. CASE \E name \in Names : CloseScope(name)
    BY <1>5
  <1> QED BY <1>3, <1>4, <1>5 DEF Next

LEMMA InvStep == Inv /\ [Next]_vars => Inv'
  <1> SUFFICES ASSUME Inv, [Next]_vars PROVE Inv'
    OBVIOUS
  <1>1. CASE Next
    BY <1>1, Ways, Opens, ClosesFirst, ClosesMore, Descends, Attaches, Replaces
  <1>2. CASE UNCHANGED vars
    <2>1. TypeOK'
      BY <1>2, Typed DEF vars, Inv
    <2>2. Copied'
      BY <1>2 DEF Inv, Copied, vars, Outer
    <2>3. scopes' # <<>> /\ Acyclic(nodes') /\ Ordered(nodes', keys')
      BY <1>2 DEF Inv, vars
    <2> QED BY <2>1, <2>2, <2>3 DEF Inv
  <1> QED BY <1>1, <1>2

(* However names are inserted and definitions nest and finish, the maps     *)
(* are search trees that share nodes: no path through left and right comes *)
(* back, every name is on the side strcmp puts it, and no name twice.      *)
THEOREM TreesStay == Spec => []Inv
  <1>1. Init => Inv
    BY InvInit
  <1>2. Inv /\ [Next]_vars => Inv'
    BY InvStep
  <1> QED BY <1>1, <1>2, PTL DEF Spec

(* No pointer of a node, a scope, a word or the loop of map_insert ever    *)
(* leaves the heap: the type invariant of map.c's structures.              *)
THEOREM PointersHold == Spec => []TypeOK
  <1>1. Inv => TypeOK
    BY DEF Inv
  <1> QED BY <1>1, TreesStay, PTL

-----------------------------------------------------------------------------
(* Maps are persistent.                                                    *)

(* The nodes that belong to the maps in use.                               *)
Shared == IF pc = "insert" THEN 1..root - 1 ELSE 1..Len(nodes)

Maps == ToSet(scopes) \union {keys[k].map : k \in DOMAIN keys}

LEMMA MapsInHeap ==
  ASSUME Inv, NEW map \in Maps
  PROVE  map \in 0..Len(nodes) /\ (map # NULL => map \in Shared)
  <1> DEFINE n == Len(nodes)
  <1>1. /\ scopes \in Seq(0..n) /\ \A i \in 1..Len(scopes) : scopes[i] \in 0..n
        /\ \A k \in 1..Len(keys) : keys[k].map \in 0..n
        /\ n \in Nat
        /\ Heap(nodes, keys)
    BY Pointers
  <1>2. DOMAIN scopes = 1..Len(scopes) /\ DOMAIN keys = 1..Len(keys)
    BY <1>1, LenProperties DEF Heap
  <1>3. \/ \E i \in 1..Len(scopes) : map = scopes[i]
        \/ \E k \in 1..Len(keys) : map = keys[k].map
    BY <1>2 DEF Maps, ToSet
  <1>4. map \in 0..n
    BY <1>1, <1>3
  <1>5. ASSUME pc = "insert" PROVE map < root /\ root \in 1..n
    BY <1>3, <1>5, InLoop
  <1>6. map # NULL => map \in Shared
    <2>1. CASE pc = "insert"
      BY <1>1, <1>4, <1>5, <2>1 DEF Shared, NULL
    <2>2. CASE pc # "insert"
      BY <1>1, <1>4, <2>2 DEF Shared, NULL
    <2> QED BY <2>1, <2>2
  <1> QED BY <1>4, <1>6

(* They are closed under children, so a map in use has no other nodes.     *)
LEMMA ReachShared ==
  ASSUME Inv, NEW map \in Maps
  PROVE  Reach(map) \subseteq Shared
  <1> DEFINE n == Len(nodes)
  <1>1. /\ Heap(nodes, keys) /\ n \in Nat
        /\ \A m \in 1..n : \A side \in Sides : nodes[m][side] \in 0..n
    BY Pointers, HeapTypes
  <1>2. ASSUME NEW m \in Shared
        PROVE  m \in 1..n /\
               \A side \in Sides : nodes[m][side] # NULL => nodes[m][side] \in Shared
    <2>1. CASE pc = "insert"
      <3>1. root \in 1..n /\ \A x \in 1..root - 1 : \A side \in Sides : nodes[x][side] < root
        BY <2>1, InLoop DEF Chain
      <3>2. m \in 1..root - 1 /\ m \in 1..n
        BY <1>1, <2>1, <3>1 DEF Shared
      <3>3. \A side \in Sides : nodes[m][side] \in 0..n /\ nodes[m][side] < root
        BY <1>1, <3>1, <3>2
      <3> HIDE DEF n
      <3>4. \A side \in Sides : nodes[m][side] # NULL => nodes[m][side] \in 1..root - 1
        BY <1>1, <3>1, <3>3 DEF NULL
      <3> QED BY <2>1, <3>2, <3>4 DEF Shared
    <2>2. CASE pc # "insert"
      BY <1>1, <2>2 DEF Shared, NULL
    <2> QED BY <2>1, <2>2
  <1>3. map \in 0..n /\ (map # NULL => map \in Shared)
    BY MapsInHeap
  <1> QED BY <1>1, <1>2, <1>3, ReachWithin

LEMMA SharedKept ==
  ASSUME Inv, [Next]_vars, NEW m \in Shared
  PROVE  nodes'[m] = nodes[m]
  <1> DEFINE n == Len(nodes)
  <1>1. n \in Nat
    BY Pointers
  <1>2. pc = "run" => m \in 1..n
    BY DEF Shared
  <1>3. pc = "insert" => m \in 1..n - 1
    BY <1>1, InLoop DEF Shared
  <1>4. CASE Next
    <2>1. CASE OpenScope
      BY <2>1, Opens
    <2>2. ASSUME NEW name \in Names, CloseScope(name) PROVE nodes'[m] = nodes[m]
      BY <1>2, <2>2, ClosesFirst, ClosesMore
    <2>3. ASSUME pc = "insert", NEW side \in Sides,
                 Goes(nodes, keys, keys[Len(keys)].name, side),
                 Descend(side) \/ Attach(side)
          PROVE  nodes'[m] = nodes[m]
      BY <1>3, <2>3, Descends, Attaches
    <2>4. CASE InsertHere
      BY <1>3, <2>4, Replaces
    <2> QED BY <1>4, <2>1, <2>2, <2>3, <2>4, Ways
  <1>5. CASE UNCHANGED vars
    BY <1>5 DEF vars
  <1> QED BY <1>4, <1>5

(* An insertion never writes to a node of a map that a scope or a word     *)
(* has: persistence of map.c's trees, over any sequence of definitions.    *)
THEOREM MapsPersist == Spec => Persistent
  <1>1. ASSUME Inv, [Next]_vars
        PROVE  [\A map \in ToSet(scopes) \union {keys[k].map : k \in DOMAIN keys} :
                  \A m \in Reach(map) : nodes'[m] = nodes[m]]_vars
    <2>1. \A map \in Maps : \A m \in Reach(map) : nodes'[m] = nodes[m]
      BY <1>1, ReachShared, SharedKept
    <2> QED BY <2>1 DEF Maps
  <1> QED BY <1>1, TreesStay, PTL DEF Spec, Persistent

-----------------------------------------------------------------------------
(* Words are found by their names.                                         *)

LEMMA EveryMapFinds ==
  ASSUME LongerBehind, Inv, NEW map \in 0..Len(nodes), NEW m \in Reach(map)
  PROVE  map_lookup_n(map, NameAt(nodes, keys, m)) = nodes[m].key
  <1> DEFINE n == Len(nodes)
             name(x) == NameAt(nodes, keys, x)
             At(x, s) == Lookup(nodes, keys, x, s)
  <1>1. /\ Heap(nodes, keys) /\ n \in Nat
        /\ \A x \in 1..n : name(x) \in Names /\ \A side \in Sides : nodes[x][side] \in 0..n
    BY Pointers, HeapTypes
  <1>2. PICK rank, bound : Numbered(nodes, rank, bound)
    BY DEF Inv, Acyclic
  <1>3. PICK W : Named(nodes, keys, W)
    BY DEF Inv, Ordered
  <1>4. /\ W \in [0..n -> SUBSET Names]
        /\ \A x \in 1..n :
             /\ name(x) \in W[x]
             /\ \A side \in Sides :
                  /\ W[nodes[x][side]] \subseteq W[x]
                  /\ \A s \in W[nodes[x][side]] :
                       /\ compare_key(name(x), s) # 0
                       /\ Turn(compare_key(name(x), s)) = side
    BY <1>3 DEF Named
  <1>5. ASSUME NEW x \in 1..n, NEW s \in Names
        PROVE  LET order == compare_key(name(x), s) IN
               /\ order = 0 => At(x, s) = nodes[x].key
               /\ order # 0 => At(x, s) = At(nodes[x][Turn(order)], s)
    <2>1. compare_key_n(name(x), s) = compare_key(name(x), s)
      BY <1>1, Comparisons
    <2> QED BY <1>1, <1>2, <2>1, Lookups
  <1> HIDE DEF At
  <1> DEFINE T == {x \in 1..n : W[x] \subseteq W[map] /\ \A s \in W[x] : At(map, s) = At(x, s)}
  <1>6. ASSUME NEW x \in T, NEW side \in Sides, nodes[x][side] # NULL
        PROVE  nodes[x][side] \in T
    <2> DEFINE c == nodes[x][side]
    <2>1. x \in 1..n /\ W[x] \subseteq W[map] /\ \A s \in W[x] : At(map, s) = At(x, s)
      BY <1>6
    <2>2. c \in 1..n
      BY <1>1, <1>6, <2>1 DEF NULL
    <2>3. W[c] \subseteq W[x] /\ W[x] \subseteq Names
      BY <1>1, <1>4, <2>1
    <2>4. ASSUME NEW s \in W[c] PROVE At(x, s) = At(c, s)
      <3>1. compare_key(name(x), s) # 0 /\ Turn(compare_key(name(x), s)) = side
        BY <1>4, <2>1, <2>4
      <3>2. s \in Names
        BY <2>3, <2>4
      <3> QED BY <1>5, <2>1, <3>1, <3>2
    <2> HIDE DEF c
    <2>5. W[c] \subseteq W[map] /\ \A s \in W[c] : At(map, s) = At(c, s)
      BY <2>1, <2>3, <2>4
    <2>6. c \in T
      BY <2>2, <2>5
    <2> QED BY <2>6 DEF c
  <1>7. map # NULL => map \in T
    BY <1>1 DEF NULL
  <1>8. T \subseteq 1..n
    OBVIOUS
  <1> HIDE DEF T
  <1>9. Reach(map) \subseteq T
    <2>1. \A x \in T : x \in 1..Len(nodes) /\
            \A side \in Sides : nodes[x][side] # NULL => nodes[x][side] \in T
      BY <1>6, <1>8
    <2> QED BY <1>1, <1>7, <2>1, ReachWithin
  <1>10. m \in 1..n /\ \A s \in W[m] : At(map, s) = At(m, s)
    BY <1>9 DEF T
  <1>11. name(m) \in Names /\ name(m) \in W[m]
    BY <1>1, <1>4, <1>10
  <1>12. compare_key(name(m), name(m)) = 0
    BY <1>11, Comparisons
  <1>13. At(map, name(m)) = nodes[m].key
    BY <1>5, <1>10, <1>11, <1>12
  <1> QED BY <1>13, LookupIs DEF At

(* Every word of a map in use is found by its name, when the comparisons   *)
(* of map_insert and map_lookup_n agree on the names of the program.       *)
THEOREM WordsFound == LongerBehind => (Spec => []FoundByName)
  <1>1. ASSUME LongerBehind, Inv PROVE FoundByName
    <2>1. \A map \in Maps : map \in 0..Len(nodes)
      BY <1>1, MapsInHeap
    <2>2. \A map \in Maps : \A m \in Reach(map) :
            map_lookup_n(map, keys[nodes[m].key].name) = nodes[m].key
      BY <1>1, <2>1, EveryMapFinds DEF NameAt
    <2> QED BY <2>2 DEF FoundByName, Maps
  <1> SUFFICES ASSUME LongerBehind PROVE Spec => []FoundByName
    OBVIOUS
  <1>2. Inv => FoundByName
    BY <1>1
  <1> QED BY <1>2, TreesStay, PTL

-----------------------------------------------------------------------------
(* The maps implement the dictionaries of Scopes.                          *)

Dict(N, K, map) == [name \in Names |-> Lookup(N, K, map, name)]

(* What the scopes and the words of the abstract specification are.        *)
Meanings(N, K, maps) == [i \in DOMAIN maps |-> Dict(N, K, maps[i])]

Bodies(N, K, done) == [k \in DOMAIN done |-> Dict(N, K, done[k].map)]

defined2 == IF pc' = "insert" THEN Front(keys') ELSE keys'

LEMMA Abstracted ==
  /\ [i \in DOMAIN scopes |-> Dictionary(scopes[i])] = Meanings(nodes, keys, scopes)
  /\ [k \in DOMAIN defined |-> Dictionary(defined[k].map)] = Bodies(nodes, keys, defined)
  /\ [i \in DOMAIN scopes |-> Dictionary(scopes[i])]' = Meanings(nodes', keys', scopes')
  /\ [k \in DOMAIN defined |-> Dictionary(defined[k].map)]' =
       Bodies(nodes', keys', defined2)
  <1>1. [i \in DOMAIN scopes |-> Dictionary(scopes[i])] = Meanings(nodes, keys, scopes)
    BY DEF Dictionary, Meanings, Dict, map_lookup_n, Lookup, IsFind, Body
  <1>2. [k \in DOMAIN defined |-> Dictionary(defined[k].map)] = Bodies(nodes, keys, defined)
    BY DEF Dictionary, Bodies, Dict, map_lookup_n, Lookup, IsFind, Body
  <1>3. [i \in DOMAIN scopes |-> Dictionary(scopes[i])]' = Meanings(nodes', keys', scopes')
    BY DEF Dictionary, Meanings, Dict, map_lookup_n, Lookup, IsFind, Body
  <1>4. [k \in DOMAIN defined |-> Dictionary(defined[k].map)]' =
          Bodies(nodes', keys', defined2)
    BY DEF Dictionary, Bodies, Dict, map_lookup_n, Lookup, IsFind, Body, defined, defined2
  <1> QED BY <1>1, <1>2, <1>3, <1>4

LEMMA AsSequence ==
  ASSUME NEW X, NEW n \in Nat, NEW f, f \in [1..n -> X]
  PROVE  f \in Seq(X) /\ Len(f) = n
  <1>1. f \in Seq(X)
    BY SMT
  <1>2. DOMAIN f = 1..n /\ DOMAIN f = 1..Len(f) /\ Len(f) \in Nat
    BY <1>1, LenProperties
  <1> QED BY <1>2

MeaningsIn(N, K, maps, X) == \A i \in 1..Len(maps) : Dict(N, K, maps[i]) \in X

BodiesIn(N, K, done, X) == \A k \in 1..Len(done) : Dict(N, K, done[k].map) \in X

LEMMA MeaningsSeq ==
  ASSUME NEW N, NEW K, NEW P, NEW maps \in Seq(P), NEW X, MeaningsIn(N, K, maps, X)
  PROVE  /\ Meanings(N, K, maps) \in Seq(X)
         /\ Len(Meanings(N, K, maps)) = Len(maps)
         /\ \A i \in 1..Len(maps) : Meanings(N, K, maps)[i] = Dict(N, K, maps[i])
  <1> DEFINE f == Meanings(N, K, maps)
  <1>1. DOMAIN maps = 1..Len(maps) /\ Len(maps) \in Nat
    BY LenProperties
  <1>2. f \in [1..Len(maps) -> X] /\ \A i \in 1..Len(maps) : f[i] = Dict(N, K, maps[i])
    BY <1>1 DEF Meanings, MeaningsIn
  <1> HIDE DEF f
  <1>3. f \in Seq(X) /\ Len(f) = Len(maps)
    BY <1>1, <1>2, AsSequence
  <1> QED BY <1>2, <1>3 DEF f

LEMMA BodiesSeq ==
  ASSUME NEW N, NEW K, NEW P, NEW done \in Seq(P), NEW X, BodiesIn(N, K, done, X)
  PROVE  /\ Bodies(N, K, done) \in Seq(X)
         /\ Len(Bodies(N, K, done)) = Len(done)
         /\ \A k \in 1..Len(done) : Bodies(N, K, done)[k] = Dict(N, K, done[k].map)
  <1> DEFINE f == Bodies(N, K, done)
  <1>1. DOMAIN done = 1..Len(done) /\ Len(done) \in Nat
    BY LenProperties
  <1>2. f \in [1..Len(done) -> X] /\ \A k \in 1..Len(done) : f[k] = Dict(N, K, done[k].map)
    BY <1>1 DEF Bodies, BodiesIn
  <1> HIDE DEF f
  <1>3. f \in Seq(X) /\ Len(f) = Len(done)
    BY <1>1, <1>2, AsSequence
  <1> QED BY <1>2, <1>3 DEF f

(* One element more, or two made one, element by element.                  *)
LEMMA OneMore ==
  ASSUME NEW X, NEW s \in Seq(X), NEW x \in X, NEW s2 \in Seq(X),
         Len(s2) = Len(s) + 1,
         \A i \in 1..Len(s) : s2[i] = s[i],
         s2[Len(s) + 1] = x
  PROVE  s2 = Append(s, x)
  <1> DEFINE a == Append(s, x)
  <1>1. /\ a \in Seq(X) /\ Len(s) \in Nat /\ Len(a) = Len(s) + 1
        /\ \A i \in 1..Len(s) : a[i] = s[i]
        /\ a[Len(s) + 1] = x
    BY Appended
  <1> HIDE DEF a
  <1>2. \A i \in 1..Len(s2) : i \in 1..Len(s) \/ i = Len(s) + 1
    BY <1>1
  <1>3. \A i \in 1..Len(s2) : s2[i] = a[i]
    BY <1>1, <1>2
  <1>4. s2 = a
    BY <1>1, <1>3, SeqEqual
  <1> QED BY <1>4 DEF a

LEMMA TwoToOne ==
  ASSUME NEW X, NEW s \in Seq(X), Len(s) > 1, NEW x \in X, NEW s2 \in Seq(X),
         Len(s2) = Len(s) - 1,
         \A i \in 1..Len(s) - 2 : s2[i] = s[i],
         s2[Len(s) - 1] = x
  PROVE  s2 = Append(SubSeq(s, 1, Len(s) - 2), x)
  <1> DEFINE b == SubSeq(s, 1, Len(s) - 2)
             n == Len(s)
  <1>1. n \in Nat /\ n > 1
    BY LenProperties
  <1>2. b \in Seq(X) /\ Len(b) = n - 2 /\ \A i \in 1..n - 2 : b[i] = s[i]
    <2>1. CASE n = 2
      <3>1. b = <<>>
        BY <1>1, <2>1, SubSeqProperties
      <3>2. 1..n - 2 = {} /\ n - 2 = 0
        BY <2>1
      <3> QED BY <3>1, <3>2, EmptySeq
    <2>2. CASE n # 2
      <3>1. 1 \in 1..n + 1 /\ n - 2 \in 0..n /\ n - 2 >= 1 - 1 /\ n - 2 - 1 + 1 = n - 2
        BY <1>1, <2>2
      <3>2. \A i \in 1..n - 2 : 1 + i - 1 = i
        BY <1>1
      <3> QED BY <1>1, <3>1, <3>2, SubSeqProperties
    <2> QED BY <2>1, <2>2
  <1> HIDE DEF b
  <1>3. Len(b) + 1 = n - 1
    BY <1>1, <1>2
  <1>4. s2 = Append(b, x)
    <2>1. Len(s2) = Len(b) + 1 /\ s2[Len(b) + 1] = x /\ \A i \in 1..Len(b) : s2[i] = b[i]
      BY <1>2, <1>3 DEF n
    <2> QED BY <1>2, <2>1, OneMore
  <1> QED BY <1>4 DEF b, n

(* A word counts as defined once map_insert has returned.                  *)
LEMMA DefinedSoFar ==
  ASSUME Inv
  PROVE  /\ defined \in Seq([name : Names, map : 0..Len(nodes)])
         /\ Len(defined) \in Nat
         /\ pc # "insert" => defined = keys
         /\ pc = "insert" => /\ Len(keys) = Len(defined) + 1
                             /\ \A k \in 1..Len(defined) : keys[k] = defined[k]
         /\ \A k \in 1..Len(defined) : defined[k].map \in 0..Len(nodes)
         /\ pc = "insert" => \A k \in 1..Len(defined) : defined[k].map < root
  <1> DEFINE R == [name : Names, map : 0..Len(nodes)]
  <1>1. keys \in Seq(R) /\ Len(keys) \in Nat
    BY Pointers DEF Heap
  <1>2. CASE pc = "insert"
    <2>1. keys # <<>> /\ \A k \in 1..Len(keys) : keys[k].map < root
      BY <1>2, InLoop
    <2>2. /\ Front(keys) \in Seq(R) /\ Len(Front(keys)) = Len(keys) - 1
          /\ \A k \in 1..Len(keys) - 1 : Front(keys)[k] = keys[k]
      BY <1>1, <2>1, FrontLast
    <2>3. defined = Front(keys)
      BY <1>2 DEF defined
    <2> HIDE DEF R
    <2>4. /\ defined \in Seq(R) /\ Len(defined) \in Nat /\ Len(keys) = Len(defined) + 1
          /\ \A k \in 1..Len(defined) : keys[k] = defined[k]
      BY <1>1, <2>2, <2>3, LenProperties
    <2>5. \A k \in 1..Len(defined) : defined[k] \in R
      BY <2>4, ElementOfSeq
    <2>6. \A k \in 1..Len(defined) : defined[k].map < root
      BY <2>1, <2>4
    <2> QED BY <1>2, <2>4, <2>5, <2>6 DEF R
  <1>3. CASE pc # "insert"
    <2>1. defined = keys
      BY <1>3 DEF defined
    <2> QED BY <1>1, <1>3, <2>1, Pointers
  <1> QED BY <1>2, <1>3

(* A step inside an insertion is none of the abstract specification.       *)
LEMMA Unseen ==
  ASSUME Inv, scopes' = scopes, defined2 = defined,
         \A m \in 0..Len(nodes) : \A s \in Names :
           Lookup(nodes', keys', m, s) = Lookup(nodes, keys, m, s)
  PROVE  /\ Meanings(nodes', keys', scopes') = Meanings(nodes, keys, scopes)
         /\ Bodies(nodes', keys', defined2) = Bodies(nodes, keys, defined)
  <1>1. \A m \in 0..Len(nodes) : Dict(nodes', keys', m) = Dict(nodes, keys, m)
    BY DEF Dict
  <1>2. \A i \in DOMAIN scopes : scopes[i] \in 0..Len(nodes)
    BY Pointers, LenProperties
  <1>3. \A k \in DOMAIN defined : defined[k].map \in 0..Len(nodes)
    BY DefinedSoFar, LenProperties
  <1>4. Meanings(nodes', keys', scopes) = Meanings(nodes, keys, scopes)
    BY <1>1, <1>2 DEF Meanings
  <1>5. Bodies(nodes', keys', defined) = Bodies(nodes, keys, defined)
    BY <1>1, <1>3 DEF Bodies
  <1> QED BY <1>4, <1>5

LEMMA SeenOpen ==
  ASSUME Inv, OpenScope
  PROVE  LET S == Meanings(nodes, keys, scopes)
             S2 == Meanings(nodes', keys', scopes') IN
         /\ S2 = Append(S, Last(S))
         /\ Bodies(nodes', keys', defined2) = Bodies(nodes, keys, defined)
  <1> DEFINE S == Meanings(nodes, keys, scopes)
             S2 == Meanings(nodes, keys, scopes')
             n == Len(scopes)
             P == 0..Len(nodes)
             X == {Dict(nodes, keys, m) : m \in P}
  <1>1. /\ nodes' = nodes /\ keys' = keys /\ pc = "run" /\ pc' = "run"
        /\ scopes' = Append(scopes, Last(scopes))
    BY Opens
  <1>2. /\ scopes \in Seq(P) /\ n \in Nat \ {0} /\ Last(scopes) = scopes[n]
        /\ Last(scopes) \in P /\ \A i \in 1..n : scopes[i] \in P
    BY Pointers
  <1>3. /\ scopes' \in Seq(P) /\ Len(scopes') = n + 1
        /\ \A i \in 1..n : scopes'[i] = scopes[i]
        /\ scopes'[n + 1] = scopes[n]
    BY <1>1, <1>2, Appended
  <1>4. MeaningsIn(nodes, keys, scopes, X) /\ MeaningsIn(nodes, keys, scopes', X)
    <2>1. \A i \in 1..Len(scopes') : scopes'[i] \in P
      BY <1>3, ElementOfSeq
    <2> QED BY <1>2, <2>1 DEF MeaningsIn
  <1> HIDE DEF P, X
  <1>5. /\ S \in Seq(X) /\ Len(S) = n /\ \A i \in 1..n : S[i] = Dict(nodes, keys, scopes[i])
    BY <1>2, <1>4, MeaningsSeq
  <1>6. /\ S2 \in Seq(X) /\ Len(S2) = n + 1
        /\ \A i \in 1..n + 1 : S2[i] = Dict(nodes, keys, scopes'[i])
    BY <1>3, <1>4, MeaningsSeq
  <1> HIDE DEF S, S2
  <1>7. n \in 1..n /\ n + 1 \in 1..n + 1 /\ \A i \in 1..n : i \in 1..n + 1
    BY <1>2
  <1>8. Last(S) = S[n] /\ S[n] \in X
    BY <1>5, <1>7, ElementOfSeq DEF Last
  <1>9. S2 = Append(S, Last(S))
    <2>1. \A i \in 1..Len(S) : S2[i] = S[i]
      BY <1>3, <1>5, <1>6, <1>7
    <2>2. S2[Len(S) + 1] = S[n]
      BY <1>3, <1>5, <1>6, <1>7
    <2> QED BY <1>5, <1>6, <1>8, <2>1, <2>2, OneMore
  <1>10. defined2 = defined
    BY <1>1 DEF defined, defined2
  <1> QED BY <1>1, <1>9, <1>10 DEF S, S2

(* The end of an insertion is the definition of the word.                  *)
ScopesJoin(new) == Len(scopes) > 1 /\ scopes' = Append(Front(Front(scopes)), new)

OneWordMore ==
  /\ defined2 \in Seq([name : Names, map : 0..Len(nodes')])
  /\ Len(defined2) = Len(defined) + 1
  /\ \A k \in 1..Len(defined) : defined2[k] = defined[k]
  /\ defined2[Len(defined) + 1].map = Last(scopes)

SameMeanings ==
  /\ \A i \in 1..Len(scopes) : \A s \in Names :
       Lookup(nodes', keys', scopes[i], s) = Lookup(nodes, keys, scopes[i], s)
  /\ \A k \in 1..Len(defined) : \A s \in Names :
       Lookup(nodes', keys', defined[k].map, s) = Lookup(nodes, keys, defined[k].map, s)

NewMeaning(new, name) ==
  \A s \in Names : Lookup(nodes', keys', new, s) =
    IF s = name THEN Len(defined) + 1 ELSE Lookup(nodes, keys, Outer, s)

LEMMA SeenClose ==
  ASSUME Inv, Inv', NEW new \in 0..Len(nodes'), NEW name \in Names,
         ScopesJoin(new), OneWordMore, SameMeanings, NewMeaning(new, name)
  PROVE  LET S == Meanings(nodes, keys, scopes)
             S2 == Meanings(nodes', keys', scopes')
             V == Bodies(nodes, keys, defined)
             V2 == Bodies(nodes', keys', defined2) IN
         /\ Len(S) > 1
         /\ V2 = Append(V, Last(S))
         /\ S2 = Append(SubSeq(S, 1, Len(S) - 2), [S[Len(S) - 1] EXCEPT ![name] = Len(V) + 1])
  <1> DEFINE S == Meanings(nodes, keys, scopes)
             S2 == Meanings(nodes', keys', scopes')
             V == Bodies(nodes, keys, defined)
             V2 == Bodies(nodes', keys', defined2)
             n == Len(scopes)
             c == Len(defined)
             P == 0..Len(nodes)
             P2 == 0..Len(nodes')
             X == {Dict(nodes, keys, m) : m \in P} \union {Dict(nodes', keys', m) : m \in P2}
             R == [name : Names, map : P]
             R2 == [name : Names, map : P2]
  <1>1. /\ scopes \in Seq(P) /\ n \in Nat /\ n > 1 /\ Last(scopes) = scopes[n]
        /\ \A i \in 1..n : scopes[i] \in P
        /\ defined \in Seq(R) /\ c \in Nat /\ \A k \in 1..c : defined[k].map \in P
    BY Pointers, DefinedSoFar DEF ScopesJoin
  <1>2. scopes' \in Seq(P2)
    BY Typed DEF Inv
  <1>3. /\ Len(scopes') = n - 1 /\ \A i \in 1..n - 2 : scopes'[i] = scopes[i]
        /\ scopes'[n - 1] = new
    <2>1. /\ Len(Append(Front(Front(scopes)), new)) = Len(scopes) - 1
          /\ \A i \in 1..Len(scopes) - 2 : Append(Front(Front(scopes)), new)[i] = scopes[i]
          /\ Append(Front(Front(scopes)), new)[Len(scopes) - 1] = new
      <3> DEFINE Y == P \union {new}
      <3>1. scopes \in Seq(Y) /\ new \in Y
        BY <1>1, SeqMonotonic
      <3> HIDE DEF Y
      <3> QED BY <1>1, <3>1, Joined
    <2> QED BY <2>1 DEF ScopesJoin
  <1>4. /\ defined2 \in Seq(R2) /\ Len(defined2) = c + 1
        /\ \A k \in 1..c : defined2[k] = defined[k]
        /\ defined2[c + 1].map = Last(scopes)
    BY DEF OneWordMore
  <1>5. MeaningsIn(nodes, keys, scopes, X) /\ BodiesIn(nodes, keys, defined, X)
    BY <1>1 DEF MeaningsIn, BodiesIn
  <1>6. MeaningsIn(nodes', keys', scopes', X)
    <2>1. \A i \in 1..Len(scopes') : scopes'[i] \in P2
      BY <1>2, ElementOfSeq
    <2> QED BY <2>1 DEF MeaningsIn
  <1>7. BodiesIn(nodes', keys', defined2, X)
    <2>1. \A k \in 1..Len(defined2) : defined2[k] \in R2
      BY <1>4, ElementOfSeq
    <2> QED BY <2>1 DEF BodiesIn
  <1>8. /\ \A i \in 1..n : Dict(nodes', keys', scopes[i]) = Dict(nodes, keys, scopes[i])
        /\ \A k \in 1..c : Dict(nodes', keys', defined[k].map) = Dict(nodes, keys, defined[k].map)
    BY DEF Dict, SameMeanings
  <1>9. Dict(nodes', keys', new) = [Dict(nodes, keys, Outer) EXCEPT ![name] = c + 1]
    BY DEF Dict, NewMeaning
  <1>10. Outer = scopes[n - 1]
    BY DEF Outer
  <1> HIDE DEF P, P2, X, R, R2
  <1>11. /\ S \in Seq(X) /\ Len(S) = n /\ \A i \in 1..n : S[i] = Dict(nodes, keys, scopes[i])
    BY <1>1, <1>5, MeaningsSeq
  <1>12. /\ S2 \in Seq(X) /\ Len(S2) = n - 1
         /\ \A i \in 1..n - 1 : S2[i] = Dict(nodes', keys', scopes'[i])
    <2>1. /\ S2 \in Seq(X) /\ Len(S2) = Len(scopes')
          /\ \A i \in 1..Len(scopes') : S2[i] = Dict(nodes', keys', scopes'[i])
      BY <1>2, <1>6, MeaningsSeq
    <2> HIDE DEF S2
    <2> QED BY <1>3, <2>1
  <1>13. /\ V \in Seq(X) /\ Len(V) = c
         /\ \A k \in 1..c : V[k] = Dict(nodes, keys, defined[k].map)
    BY <1>1, <1>5, BodiesSeq
  <1>14. /\ V2 \in Seq(X) /\ Len(V2) = c + 1
         /\ \A k \in 1..c + 1 : V2[k] = Dict(nodes', keys', defined2[k].map)
    BY <1>4, <1>7, BodiesSeq
  <1> HIDE DEF S, S2, V, V2, n, c
  <1>15. /\ n \in 1..n /\ n - 1 \in 1..n /\ n - 1 \in 1..n - 1 /\ c + 1 \in 1..c + 1
         /\ \A i \in 1..n - 2 : i \in 1..n /\ i \in 1..n - 1
         /\ \A k \in 1..c : k \in 1..c + 1
    BY <1>1
  <1>16. V2 = Append(V, Last(S))
    <2>1. Last(S) = S[n] /\ S[n] \in X
      BY <1>11, <1>15, ElementOfSeq DEF Last
    <2>2. \A k \in 1..Len(V) : V2[k] = V[k]
      <3> SUFFICES ASSUME NEW k \in 1..c PROVE V2[k] = V[k]
        BY <1>13, Zenon
      <3>1. V2[k] = Dict(nodes', keys', defined2[k].map)
        BY <1>14, <1>15
      <3>2. defined2[k] = defined[k]
        BY <1>4
      <3>3. V[k] = Dict(nodes, keys, defined[k].map)
        BY <1>13
      <3>4. Dict(nodes', keys', defined[k].map) = Dict(nodes, keys, defined[k].map)
        BY <1>8
      <3> QED BY <3>1, <3>2, <3>3, <3>4, Zenon
    <2>3. V2[Len(V) + 1] = S[n]
      <3>1. V2[Len(V) + 1] = Dict(nodes', keys', defined2[c + 1].map)
        BY <1>13, <1>14, <1>15
      <3>2. defined2[c + 1].map = scopes[n]
        BY <1>1, <1>4
      <3>3. S[n] = Dict(nodes, keys, scopes[n])
        BY <1>11, <1>15
      <3> QED BY <1>8, <1>15, <3>1, <3>2, <3>3
    <2> QED BY <1>13, <1>14, <2>1, <2>2, <2>3, OneMore
  <1>17. S2 = Append(SubSeq(S, 1, Len(S) - 2), [S[Len(S) - 1] EXCEPT ![name] = Len(V) + 1])
    <2> DEFINE d == [S[n - 1] EXCEPT ![name] = c + 1]
    <2>1. S2[n - 1] = d
      BY <1>3, <1>9, <1>10, <1>11, <1>12, <1>15
    <2>2. d \in X
      BY <1>12, <1>15, <2>1, ElementOfSeq
    <2> HIDE DEF d
    <2>3. \A i \in 1..n - 2 : S2[i] = S[i]
      BY <1>3, <1>8, <1>11, <1>12, <1>15
    <2>4. S2 = Append(SubSeq(S, 1, Len(S) - 2), d)
      BY <1>1, <1>11, <1>12, <2>1, <2>2, <2>3, TwoToOne
    <2> QED BY <1>11, <1>13, <2>4 DEF d
  <1>18. Len(S) > 1
    BY <1>1, <1>11
  <1> QED BY <1>16, <1>17, <1>18 DEF S, S2, V, V2

(* Definitions are lexically scoped and stay as they were compiled: the    *)
(* trees of map.c answer every lookup as the dictionaries of Scopes do,    *)
(* when the comparisons agree on the names of the program.                 *)
THEOREM ScopesImplemented == LongerBehind => (Spec => ImplementsScopes)
  <1>1. Init => AsScopes!Init
    <2> SUFFICES ASSUME Init PROVE AsScopes!Init
      OBVIOUS
    <2>1. Inv /\ nodes = <<>> /\ keys = <<>> /\ scopes = <<NULL>> /\ pc = "run"
      BY InvInit DEF Init
    <2>2. /\ [i \in DOMAIN scopes |-> Dictionary(scopes[i])] = Meanings(nodes, keys, scopes)
          /\ [k \in DOMAIN defined |-> Dictionary(defined[k].map)] =
               Bodies(nodes, keys, defined)
      BY Abstracted
    <2>3. Bodies(nodes, keys, defined) = <<>>
      <3>1. defined = <<>>
        BY <2>1 DEF defined
      <3> QED BY <3>1 DEF Bodies
    <2>4. Meanings(nodes, keys, scopes) = << [name \in Names |-> NULL] >>
      <3>1. PICK rank, bound : Numbered(nodes, rank, bound)
        BY <2>1 DEF Inv, Acyclic
      <3>2. \A s \in Names : Lookup(nodes, keys, NULL, s) = NULL
        BY <2>1, <3>1, Lookups, Pointers
      <3>3. Dict(nodes, keys, NULL) = [name \in Names |-> NULL]
        BY <3>2 DEF Dict
      <3>4. DOMAIN scopes = {1} /\ scopes[1] = NULL
        BY <2>1
      <3>5. Meanings(nodes, keys, scopes) = [i \in {1} |-> [name \in Names |-> NULL]]
        BY <3>3, <3>4 DEF Meanings
      <3>6. \A x : <<x>> = [i \in {1} |-> x]
        OBVIOUS
      <3> QED BY <3>5, <3>6
    <2> QED BY <2>2, <2>3, <2>4 DEF AsScopes!Init
  <1>2. ASSUME LongerBehind, Inv, [Next]_vars
        PROVE  [AsScopes!Next]_<<[i \in DOMAIN scopes |-> Dictionary(scopes[i])],
                                 [k \in DOMAIN defined |-> Dictionary(defined[k].map)]>>
    <2> DEFINE S == Meanings(nodes, keys, scopes)
               S2 == Meanings(nodes', keys', scopes')
               V == Bodies(nodes, keys, defined)
               V2 == Bodies(nodes', keys', defined2)
    <2>1. Inv'
      BY <1>2, InvStep
    <2> DEFINE A == [i \in DOMAIN scopes |-> Dictionary(scopes[i])]
               B == [k \in DOMAIN defined |-> Dictionary(defined[k].map)]
    <2>0. A = S /\ A' = S2 /\ B = V /\ B' = V2
      BY Abstracted
    <2> HIDE DEF S, S2, V, V2
    <2>2. ASSUME OpenScope PROVE AsScopes!Next
      <3>1. S2 = Append(S, Last(S)) /\ V2 = V
        BY <1>2, <2>2, SeenOpen DEF S, S2, V, V2
      <3>2. A' = Append(A, Last(A)) /\ B' = B
        <4> HIDE DEF A, B
        <4> QED BY <2>0, <3>1
      <3>3. AsScopes!Open
        BY <3>2, Zenon DEF AsScopes!Open, AsScopes!Last, Last
      <3> QED BY <3>3 DEF AsScopes!Next
    <2>3. ASSUME S2 = S, V2 = V PROVE UNCHANGED <<A, B>>
      BY <2>0, <2>3
    <2>4. ASSUME NEW name \in Names, Len(S) > 1, V2 = Append(V, Last(S)),
                 S2 = Append(SubSeq(S, 1, Len(S) - 2),
                             [S[Len(S) - 1] EXCEPT ![name] = Len(V) + 1])
          PROVE  AsScopes!Next
      <3>1. /\ Len(A) > 1
            /\ B' = Append(B, Last(A))
            /\ A' = Append(SubSeq(A, 1, Len(A) - 2),
                           [A[Len(A) - 1] EXCEPT ![name] = Len(B) + 1])
        <4> HIDE DEF A, B
        <4> QED BY <2>0, <2>4
      <3>2. AsScopes!Close(name)
        BY <3>1, Zenon DEF AsScopes!Close, AsScopes!Last, Last
      <3> QED BY <3>2 DEF AsScopes!Next
    <2>5. ASSUME NEW name \in Names, CloseScope(name), Outer # NULL
          PROVE  S2 = S /\ V2 = V
      <3>1. /\ pc = "run" /\ pc' = "insert" /\ scopes' = scopes
            /\ Grows(keys', keys, [name |-> name, map |-> Last(scopes)])
            /\ \A m \in 0..Len(nodes) : \A s \in Names :
                 Lookup(nodes', keys', m, s) = Lookup(nodes, keys, m, s)
        BY <1>2, <2>5, ClosesMore
      <3>2. Front(keys') = keys
        <4>1. Heap(nodes, keys) /\ Last(scopes) \in 0..Len(nodes)
          BY <1>2, Pointers
        <4>2. [name |-> name, map |-> Last(scopes)] \in [name : Names, map : 0..Len(nodes)]
          BY <4>1
        <4> QED BY <3>1, <4>1, <4>2, KeyAppend DEF Grows
      <3>3. defined2 = defined
        BY <3>1, <3>2 DEF defined, defined2
      <3> QED BY <1>2, <3>1, <3>3, Unseen DEF S, S2, V, V2
    <2>6. ASSUME pc = "insert", NEW side \in Sides,
                 Goes(nodes, keys, keys[Len(keys)].name, side), Descend(side)
          PROVE  S2 = S /\ V2 = V
      <3>1. /\ pc' = "insert" /\ keys' = keys /\ scopes' = scopes
            /\ \A m \in 0..Len(nodes) : \A s \in Names :
                 Lookup(nodes', keys', m, s) = Lookup(nodes, keys, m, s)
        BY <1>2, <2>6, Descends
      <3>2. defined2 = defined
        BY <2>6, <3>1 DEF defined, defined2
      <3> QED BY <1>2, <3>1, <3>2, Unseen DEF S, S2, V, V2
    <2>7. ASSUME NEW name \in Names, CloseScope(name), Outer = NULL
          PROVE  AsScopes!Next
      <3> DEFINE k == [name |-> name, map |-> Last(scopes)]
      <3>1. /\ pc = "run" /\ pc' = "run" /\ Len(scopes) > 1
            /\ Grows(keys', keys, k)
            /\ Len(keys') = Len(keys) + 1
            /\ Len(nodes') = Len(nodes) + 1
            /\ scopes' = Append(Front(Front(scopes)), Len(nodes'))
            /\ \A m \in 0..Len(nodes) : \A s \in Names :
                 Lookup(nodes', keys', m, s) = Lookup(nodes, keys, m, s)
            /\ \A s \in Names : Lookup(nodes', keys', Len(nodes'), s) =
                 IF s = name THEN Len(keys') ELSE Lookup(nodes, keys, NULL, s)
        BY <1>2, <2>7, ClosesFirst
      <3>2. defined = keys /\ defined2 = keys'
        BY <3>1 DEF defined, defined2
      <3>3. /\ Heap(nodes, keys) /\ Len(nodes) \in Nat /\ Len(keys) \in Nat
            /\ \A i \in 1..Len(scopes) : scopes[i] \in 0..Len(nodes)
            /\ \A i \in 1..Len(keys) : keys[i].map \in 0..Len(nodes)
            /\ Last(scopes) \in 0..Len(nodes)
        BY <1>2, Pointers
      <3>4. k \in [name : Names, map : 0..Len(nodes)] /\ k.map = Last(scopes)
        BY <3>3
      <3> HIDE DEF k
      <3>5. /\ \A i \in 1..Len(keys) : keys'[i] = keys[i]
            /\ Last(keys') = k
        BY <3>1, <3>3, <3>4, KeyAppend DEF Grows
      <3>6. keys'[Len(keys) + 1].map = Last(scopes)
        BY <3>1, <3>4, <3>5 DEF Last
      <3>7. defined2 \in Seq([name : Names, map : 0..Len(nodes')]) /\ Len(nodes') \in 0..Len(nodes')
        BY <2>1, <3>1, <3>2, <3>3, Typed DEF Inv, Heap
      <3>8. /\ Len(S) > 1
            /\ V2 = Append(V, Last(S))
            /\ S2 = Append(SubSeq(S, 1, Len(S) - 2),
                           [S[Len(S) - 1] EXCEPT ![name] = Len(V) + 1])
        <4>1. OneWordMore
          BY <3>1, <3>2, <3>5, <3>6, <3>7 DEF OneWordMore
        <4>2. SameMeanings
          BY <3>1, <3>2, <3>3 DEF SameMeanings
        <4>3. NewMeaning(Len(nodes'), name)
          BY <2>7, <3>1, <3>2 DEF NewMeaning
        <4>4. ScopesJoin(Len(nodes'))
          BY <3>1 DEF ScopesJoin
        <4> QED BY <1>2, <2>1, <3>7, <4>1, <4>2, <4>3, <4>4, SeenClose DEF S, S2, V, V2
      <3> QED BY <2>4, <3>8
    <2>8. ASSUME pc = "insert", pc' = "run", keys' = keys,
                 scopes' = Append(Front(Front(scopes)), root),
                 Len(nodes) <= Len(nodes'),
                 \A m \in 0..root - 1 : \A s \in Names :
                   Lookup(nodes', keys', m, s) = Lookup(nodes, keys, m, s),
                 \A s \in Names : Lookup(nodes', keys', root, s) =
                   IF s = keys[Len(keys)].name THEN Len(keys)
                   ELSE Lookup(nodes, keys, root, s)
          PROVE  AsScopes!Next
      <3> DEFINE name == keys[Len(keys)].name
      <3>1. /\ root \in 1..Len(nodes) /\ Len(nodes) \in Nat /\ Len(nodes') \in Nat
            /\ Len(scopes) > 1 /\ name \in Names
            /\ \A i \in 1..Len(scopes) : scopes[i] < root /\ scopes[i] \in 0..Len(nodes)
            /\ keys[Len(keys)].map = Last(scopes)
            /\ \A s \in Names : Lookup(nodes, keys, root, s) = Lookup(nodes, keys, Outer, s)
        BY <1>2, <2>1, <2>8, InLoop, Pointers, HeapTypes, Typed DEF Inv, Copied
      <3>2. /\ Len(keys) = Len(defined) + 1 /\ Len(defined) \in Nat
            /\ \A i \in 1..Len(defined) :
                 keys[i] = defined[i] /\ defined[i].map < root /\ defined[i].map \in 0..Len(nodes)
        BY <1>2, <2>8, DefinedSoFar
      <3>3. defined2 = keys
        BY <2>8 DEF defined2
      <3>4. root \in 0..Len(nodes') /\ \A m \in 0..Len(nodes) : m < root => m \in 0..root - 1
        BY <2>8, <3>1
      <3> HIDE DEF name
      <3>5. /\ Len(S) > 1
            /\ V2 = Append(V, Last(S))
            /\ S2 = Append(SubSeq(S, 1, Len(S) - 2),
                           [S[Len(S) - 1] EXCEPT ![name] = Len(V) + 1])
        <4>1. defined2 \in Seq([name : Names, map : 0..Len(nodes')])
          BY <2>1, <2>8, <3>3, Typed DEF Inv, Heap
        <4>2. OneWordMore
          BY <3>1, <3>2, <3>3, <4>1 DEF OneWordMore
        <4>3. SameMeanings
          BY <2>8, <3>1, <3>2, <3>4 DEF SameMeanings
        <4>4. NewMeaning(root, name)
          BY <2>8, <3>1, <3>2 DEF NewMeaning, name
        <4>5. ScopesJoin(root)
          BY <2>8, <3>1 DEF ScopesJoin
        <4> QED BY <1>2, <2>1, <3>1, <3>4, <4>2, <4>3, <4>4, <4>5, SeenClose DEF S, S2, V, V2
      <3> QED BY <2>4, <3>1, <3>5
    <2>9. ASSUME pc = "insert", NEW side \in Sides,
                 Goes(nodes, keys, keys[Len(keys)].name, side), Attach(side)
          PROVE  AsScopes!Next
      <3>1. Len(nodes) <= Len(nodes')
        BY <1>2, <2>9, Attaches, Pointers
      <3> QED BY <1>2, <2>8, <2>9, <3>1, Attaches
    <2>10. CASE InsertHere
      <3>1. Len(nodes) <= Len(nodes')
        BY <1>2, <2>10, Replaces, Pointers
      <3> QED BY <1>2, <2>8, <2>10, <3>1, Replaces
    <2>11. CASE UNCHANGED vars
      <3>1. S2 = S /\ V2 = V
        BY <2>11 DEF vars, defined, defined2, S, S2, V, V2
      <3> QED BY <2>3, <3>1
    <2>12. CASE Next
      BY <1>2, <2>2, <2>3, <2>5, <2>6, <2>7, <2>9, <2>10, <2>12, Ways
    <2> QED BY <1>2, <2>11, <2>12
  <1> SUFFICES ASSUME LongerBehind PROVE Spec => ImplementsScopes
    OBVIOUS
  <1>3. Inv /\ [Next]_vars =>
          [AsScopes!Next]_<<[i \in DOMAIN scopes |-> Dictionary(scopes[i])],
                            [k \in DOMAIN defined |-> Dictionary(defined[k].map)]>>
    BY <1>2
  <1> QED BY <1>1, <1>3, TreesStay, PTL DEF Spec, ImplementsScopes, AsScopes!Spec

=============================================================================
