---------------------------- MODULE LeaguesProofs ----------------------------
(***************************************************************************)
(* Leagues for any number of devices, requests, codes and attempts and for  *)
(* any names: types, that an answer 200 stays true, that a board has one    *)
(* line for each member, that the names stored are moderated, and when the  *)
(* owner of a league is one of its members.                                 *)
(***************************************************************************)
EXTENDS Leagues, FiniteSetTheorems, SequenceTheorems, WellFoundedInduction, TLAPS

-----------------------------------------------------------------------------
(* Positions.  What holds at every position of a name is proved by its      *)
(* least exception.                                                         *)

LEMMA Least ==
  ASSUME NEW S \in SUBSET Nat, S # {}
  PROVE  \E x \in S : \A y \in S : x <= y
<1>1. IsWellFoundedOn(OpToRel(<, Nat), Nat)
  BY NatLessThanWellFounded
<1>2. PICK x \in S : \A y \in S : ~(<<y, x>> \in OpToRel(<, Nat))
  BY <1>1, WFMin
<1>3. \A y \in S : ~(y < x)
  BY <1>2 DEF OpToRel
<1> QED BY <1>3

\* A set of positions that has the first and, with each, the next has them all.
LEMMA Reaches ==
  ASSUME NEW n \in Nat, NEW S, 0 \in S,
         \A i \in 1 .. n : i - 1 \in S => i \in S
  PROVE  0 .. n \subseteq S
<1> SUFFICES ASSUME (0 .. n) \ S # {} PROVE FALSE
  OBVIOUS
<1>1. PICK x \in (0 .. n) \ S : \A y \in (0 .. n) \ S : x <= y
  <2>1. (0 .. n) \ S \in SUBSET Nat
    OBVIOUS
  <2> QED BY <2>1, Least
<1>2. x # 0 /\ x - 1 \in 0 .. n /\ ~(x <= x - 1)
  BY <1>1
<1> QED BY <1>1, <1>2

LEMMA MinIsLeast ==
  ASSUME NEW S \in SUBSET Nat, S # {}
  PROVE  Min(S) \in S /\ \A y \in S : Min(S) <= y
<1>1. \E x \in S : \A y \in S : x =< y
  BY Least
<1> QED BY <1>1 DEF Min

LEMMA MaxIsGreatest ==
  ASSUME NEW n \in Nat, NEW S \in SUBSET (0 .. n), S # {}
  PROVE  Max(S) \in S /\ \A y \in S : Max(S) >= y
<1> DEFINE T == {n - x : x \in S}
<1>1. T \in SUBSET Nat /\ T # {}
  OBVIOUS
<1>2. PICK t \in T : \A y \in T : t <= y
  BY <1>1, Least
<1>3. PICK x \in S : t = n - x
  BY <1>2
<1>4. \A y \in S : x >= y
  <2> SUFFICES ASSUME NEW y \in S PROVE x >= y
    OBVIOUS
  <2>1. t <= n - y
    BY <1>2
  <2> QED BY <1>3, <2>1
<1> QED BY <1>4 DEF Max

-----------------------------------------------------------------------------
(* Places: how many of the letters kept come up to a position. *)

LEMMA Places ==
  ASSUME NEW n \in Nat, NEW S, \A k \in S : k \in 1 .. n
  PROVE  /\ IsFiniteSet(S) /\ Cardinality(S) \in Nat
         /\ Place(S, 0) = 0
         /\ \A i \in 0 .. n : Place(S, i) \in 0 .. Cardinality(S)
         /\ \A i \in 1 .. n :
              Place(S, i) = IF i \in S THEN Place(S, i - 1) + 1 ELSE Place(S, i - 1)
         /\ \A i, j \in 0 .. n : i <= j => Place(S, i) <= Place(S, j)
<1>0. \A k \in S : k \in Nat /\ k >= 1 /\ k <= n
  OBVIOUS
<1>1. IsFiniteSet(S)
  <2>1. IsFiniteSet(1 .. n)
    BY FS_Interval
  <2>2. S \in SUBSET (1 .. n)
    BY Zenon
  <2> QED BY <2>1, <2>2, FS_Subset
<1>2. \A i : IsFiniteSet({k \in S : k <= i}) /\ Place(S, i) \in Nat
               /\ Place(S, i) <= Cardinality(S)
  BY <1>1, FS_Subset, FS_CardinalityType DEF Place
<1>3. Cardinality(S) \in Nat
  BY <1>1, FS_CardinalityType
<1>4. Place(S, 0) = 0
  <2>1. {k \in S : k <= 0} = {}
    BY <1>0
  <2> QED BY <2>1, FS_EmptySet DEF Place
<1>5. ASSUME NEW i \in 1 .. n
      PROVE  Place(S, i) = IF i \in S THEN Place(S, i - 1) + 1 ELSE Place(S, i - 1)
  <2>1. CASE i \in S
    <3>1. {k \in S : k <= i} = {k \in S : k <= i - 1} \cup {i}
      <4>1. \A k \in S : k <= i <=> k <= i - 1 \/ k = i
        BY <1>0
      <4> QED BY <2>1, <4>1
    <3>2. i \notin {k \in S : k <= i - 1}
      OBVIOUS
    <3>3. IsFiniteSet({k \in S : k <= i - 1})
      BY <1>2
    <3>4. Cardinality({k \in S : k <= i - 1} \cup {i}) = Cardinality({k \in S : k <= i - 1}) + 1
      BY <3>2, <3>3, FS_AddElement
    <3> QED BY <2>1, <3>1, <3>4 DEF Place
  <2>2. CASE i \notin S
    <3>1. {k \in S : k <= i} = {k \in S : k <= i - 1}
      BY <1>0, <2>2
    <3> QED BY <2>2, <3>1 DEF Place
  <2> QED BY <2>1, <2>2
<1>6. ASSUME NEW i \in 0 .. n, NEW j \in 0 .. n, i <= j
      PROVE  Place(S, i) <= Place(S, j)
  <2>1. {k \in S : k <= i} \subseteq {k \in S : k <= j}
    BY <1>0, <1>6
  <2> QED BY <1>2, <2>1, FS_Subset DEF Place
<1>7. \A i \in 0 .. n : Place(S, i) \in 0 .. Cardinality(S)
  <2> SUFFICES ASSUME NEW i \in 0 .. n PROVE Place(S, i) \in 0 .. Cardinality(S)
    OBVIOUS
  <2>1. Place(S, i) \in Nat /\ Place(S, i) <= Cardinality(S)
    BY <1>2
  <2> QED BY <1>3, <2>1
<1> QED BY <1>1, <1>3, <1>4, <1>5, <1>6, <1>7

LEMMA PlacesDiffer ==
  ASSUME NEW n \in Nat, NEW S, \A k \in S : k \in 1 .. n, NEW i \in S, NEW j \in S,
         Place(S, i) = Place(S, j)
  PROVE  i = j
<1>1. ASSUME NEW x \in S, NEW y \in S, x < y
      PROVE  Place(S, x) < Place(S, y)
  <2>1. x \in 0 .. n /\ y \in 1 .. n /\ y - 1 \in 0 .. n /\ x <= y - 1
    BY <1>1
  <2>4. Place(S, y) = Place(S, y - 1) + 1
    BY <2>1, Places
  <2>2. Place(S, x) <= Place(S, y - 1)
    BY <2>1, Places
  <2>3. Place(S, x) \in Nat /\ Place(S, y - 1) \in Nat
    <3>1. Cardinality(S) \in Nat /\ \A p \in 0 .. n : Place(S, p) \in 0 .. Cardinality(S)
      BY Places
    <3> QED BY <2>1, <3>1
  <2> QED BY <2>2, <2>3, <2>4
<1>2. Place(S, i) \in Nat /\ i \in Nat /\ j \in Nat
  <2>1. i \in 0 .. n /\ j \in 0 .. n
    OBVIOUS
  <2>2. Cardinality(S) \in Nat /\ \A p \in 0 .. n : Place(S, p) \in 0 .. Cardinality(S)
    BY Places
  <2> QED BY <2>1, <2>2
<1> QED BY <1>1, <1>2

Text == Seq(DOMAIN LetterOf)

LEMMA KeptPositions ==
  ASSUME NEW chars \in Text
  PROVE  /\ Len(chars) \in Nat /\ DOMAIN chars = 1 .. Len(chars)
         /\ LettersIn(chars) \in SUBSET (1 .. Len(chars))
         /\ Kept(chars) \in SUBSET (1 .. Len(chars))
         /\ Kept(chars) \subseteq LettersIn(chars)
BY DEF Text, LettersIn, Kept

\* normalize has the letters kept at their places.
LEMMA Normalized ==
  ASSUME NEW chars \in Text
  PROVE  /\ Len(normalize(chars)) = Cardinality(Kept(chars))
         /\ DOMAIN normalize(chars) = 1 .. Cardinality(Kept(chars))
         /\ Cardinality(Kept(chars)) \in Nat
         /\ \A k \in Kept(chars) :
              /\ Place(Kept(chars), k) \in 1 .. Cardinality(Kept(chars))
              /\ normalize(chars)[Place(Kept(chars), k)] = LetterOf[chars[k]]
<1> DEFINE kept == Kept(chars)
           n == Len(chars)
           The(j) == CHOOSE i \in kept : Place(kept, i) = j
<1>1. kept \in SUBSET (1 .. n) /\ n \in Nat
  BY KeptPositions
<1>2. Cardinality(kept) \in Nat
  BY <1>1, Places
<1>3. normalize(chars) = [j \in 1 .. Cardinality(kept) |-> LetterOf[chars[The(j)]]]
  BY DEF normalize
<1>4. ASSUME NEW k \in kept
      PROVE  Place(kept, k) \in 1 .. Cardinality(kept) /\ The(Place(kept, k)) = k
  <2>0. k \in 1 .. n /\ k \in 0 .. n /\ k - 1 \in 0 .. n
    BY <1>1
  <2>1. Place(kept, k) = Place(kept, k - 1) + 1
    BY <1>1, <2>0, Places
  <2>2. Place(kept, k) \in 0 .. Cardinality(kept) /\ Place(kept, k - 1) \in Nat
    <3>1. \A p \in 0 .. n : Place(kept, p) \in 0 .. Cardinality(kept)
      BY <1>1, Places
    <3> QED BY <1>2, <2>0, <3>1
  <2>3. Place(kept, k) \in 1 .. Cardinality(kept)
    BY <1>2, <2>1, <2>2
  <2>4. \A i \in kept : Place(kept, i) = Place(kept, k) => i = k
    BY <1>1, PlacesDiffer
  <2> QED BY <2>3, <2>4
<1> HIDE DEF The
<1>5. Len(normalize(chars)) = Cardinality(kept)
  BY <1>2, <1>3
<1> QED BY <1>2, <1>3, <1>4, <1>5

-----------------------------------------------------------------------------
(* The letter kept last is the last letter. *)

\* Position h has the last letter up to position i.
IsLast(chars, h, i) ==
  h \in LettersIn(chars) /\ h <= i /\ \A g \in LettersIn(chars) : g <= h \/ g > i

LEMMA LastOnes ==
  ASSUME NEW chars \in Text, NEW i \in 1 .. Len(chars)
  PROVE  /\ i \in LettersIn(chars) => IsLast(chars, i, i)
         /\ i \in LettersIn(chars) => \A h : IsLast(chars, h, i) => h = i
         /\ i \notin LettersIn(chars) =>
              \A h : IsLast(chars, h, i) <=> IsLast(chars, h, i - 1)
         /\ i \in Kept(chars) <=>
              /\ i \in LettersIn(chars)
              /\ \A h \in LettersIn(chars) :
                   IsLast(chars, h, i - 1) => LetterOf[chars[h]] # LetterOf[chars[i]]
<1>1. LettersIn(chars) \in SUBSET (1 .. Len(chars)) /\ Len(chars) \in Nat
  BY KeptPositions
<1>2. \A h \in LettersIn(chars) :
        IsLast(chars, h, i - 1) <=> h < i /\ \A g \in LettersIn(chars) : g <= h \/ g >= i
  BY <1>1 DEF IsLast
<1>3. i \in Kept(chars) <=>
              /\ i \in LettersIn(chars)
              /\ \A h \in LettersIn(chars) :
                   IsLast(chars, h, i - 1) => LetterOf[chars[h]] # LetterOf[chars[i]]
  BY <1>2 DEF Kept
<1>4. /\ i \in LettersIn(chars) => IsLast(chars, i, i)
      /\ i \in LettersIn(chars) => \A h : IsLast(chars, h, i) => h = i
  BY <1>1 DEF IsLast
<1>5. i \notin LettersIn(chars) =>
              \A h : IsLast(chars, h, i) <=> IsLast(chars, h, i - 1)
  BY <1>1 DEF IsLast
<1> QED BY <1>3, <1>4, <1>5

LEMMA LastIsKept ==
  ASSUME NEW chars \in Text
  PROVE  \A i \in 0 .. Len(chars) : \A h \in LettersIn(chars) : IsLast(chars, h, i) =>
           \E k \in Kept(chars) : /\ Place(Kept(chars), k) = Place(Kept(chars), i)
                                  /\ LetterOf[chars[k]] = LetterOf[chars[h]]
<1> DEFINE kept == Kept(chars)
           n == Len(chars)
           Good(i) == \A h \in LettersIn(chars) : IsLast(chars, h, i) =>
                        \E k \in kept : /\ Place(kept, k) = Place(kept, i)
                                        /\ LetterOf[chars[k]] = LetterOf[chars[h]]
           S == {i \in 0 .. n : Good(i)}
<1>1. /\ kept \in SUBSET (1 .. n) /\ n \in Nat
      /\ LettersIn(chars) \in SUBSET (1 .. n) /\ kept \subseteq LettersIn(chars)
  BY KeptPositions
<1>2. 0 \in S
  BY <1>1 DEF IsLast
<1>3. ASSUME NEW i \in 1 .. n, i - 1 \in S PROVE i \in S
  <2>1. Good(i - 1)
    BY <1>3
  <2>2. Place(kept, i) = IF i \in kept THEN Place(kept, i - 1) + 1 ELSE Place(kept, i - 1)
    BY <1>1, Places
  <2>3. CASE i \notin LettersIn(chars)
    <3>1. i \notin kept
      BY <1>1, <2>3
    <3> QED BY <2>1, <2>2, <2>3, <3>1, LastOnes
  <2>4. CASE i \in kept
    BY <1>1, <2>4, LastOnes
  <2>5. CASE i \in LettersIn(chars) /\ i \notin kept
    <3>1. PICK h \in LettersIn(chars) : IsLast(chars, h, i - 1)
                                          /\ LetterOf[chars[h]] = LetterOf[chars[i]]
      BY <2>5, LastOnes
    <3>2. PICK k \in kept : /\ Place(kept, k) = Place(kept, i - 1)
                            /\ LetterOf[chars[k]] = LetterOf[chars[h]]
      BY <2>1, <3>1
    <3> QED BY <2>2, <2>5, <3>1, <3>2, LastOnes
  <2> QED BY <2>3, <2>4, <2>5
<1> HIDE DEF S
<1>4. 0 .. n \subseteq S
  BY <1>1, <1>2, <1>3, Reaches
<1> QED BY <1>4 DEF S

-----------------------------------------------------------------------------
(* A name that hides a word: while the word is spelled out, the letters     *)
(* kept last are those of the word so far.                                  *)

Reached(at, i) == IF i = 0 THEN 0 ELSE at[i]

\* Up to position i the last letter is the word's, and so are those kept.
Spelled(chars, word, at, i) ==
  LET m == Reached(at, i)
      kept == Kept(chars)
  IN m \in 1 .. Len(word) =>
       /\ \E h \in LettersIn(chars) : IsLast(chars, h, i) /\ LetterOf[chars[h]] = word[m]
       /\ \A j \in 1 .. m : \E k \in kept : /\ Place(kept, k) = Place(kept, i) - m + j
                                            /\ LetterOf[chars[k]] = word[j]

LEMMA SpelledOut ==
  ASSUME NEW chars \in Text, NEW word, Len(word) \in Nat, DOMAIN word = 1 .. Len(word),
         Tekrarsiz(word),
         NEW at \in [DOMAIN chars -> 0 .. Len(word) + 1], Spells(chars, word, at)
  PROVE  \A i \in 0 .. Len(chars) : Spelled(chars, word, at, i)
<1> DEFINE kept == Kept(chars)
           n == Len(chars)
           len == Len(word)
           S == {i \in 0 .. n : Spelled(chars, word, at, i)}
<1>1. /\ n \in Nat /\ DOMAIN chars = 1 .. n
      /\ LettersIn(chars) \in SUBSET (1 .. n) /\ kept \subseteq LettersIn(chars)
      /\ \A k \in kept : k \in 1 .. n
  BY KeptPositions
<1>2. 0 \in S
  BY <1>1 DEF Spelled, Reached
<1>3. /\ Cardinality(kept) \in Nat
      /\ \A p \in 0 .. n : Place(kept, p) \in 0 .. Cardinality(kept)
      /\ \A p \in 1 .. n :
           Place(kept, p) = IF p \in kept THEN Place(kept, p - 1) + 1 ELSE Place(kept, p - 1)
  BY <1>1, Places
<1>4. ASSUME NEW i \in 1 .. n, i - 1 \in S PROVE i \in S
  <2> DEFINE m == Reached(at, i)
             before == Reached(at, i - 1)
             letter == LetterOf[chars[i]]
  <2>1. Spelled(chars, word, at, i - 1)
    BY <1>4
  <2>2. m = at[i] /\ m \in 0 .. len + 1 /\ before \in 0 .. len + 1 /\ i - 1 \in 0 .. n
          /\ before = IF i = 1 THEN 0 ELSE at[i - 1]
    BY <1>1 DEF Reached
  <2>3. IF letter = NoLetter THEN m = before
        ELSE m \in {before, before + 1} /\ (m \in 1 .. len => letter = word[m])
    BY <1>1, <2>2 DEF Spells
  <2>4. i \in LettersIn(chars) <=> letter # NoLetter
    BY <1>1 DEF LettersIn
  <2>5. Place(kept, i) = IF i \in kept THEN Place(kept, i - 1) + 1 ELSE Place(kept, i - 1)
    BY <1>3
  <2>6. Place(kept, i) \in Nat /\ Place(kept, i - 1) \in Nat
    <3>1. i \in 0 .. n
      BY <1>1
    <3> QED BY <1>3, <2>2, <3>1
  <2> SUFFICES ASSUME m \in 1 .. len
               PROVE  /\ \E h \in LettersIn(chars) :
                           IsLast(chars, h, i) /\ LetterOf[chars[h]] = word[m]
                      /\ \A j \in 1 .. m : \E k \in kept :
                           /\ Place(kept, k) = Place(kept, i) - m + j
                           /\ LetterOf[chars[k]] = word[j]
    BY DEF Spelled
  <2> HIDE DEF m, before, letter
  <2>7. before \in 1 .. len =>
          /\ \E h \in LettersIn(chars) :
               IsLast(chars, h, i - 1) /\ LetterOf[chars[h]] = word[before]
          /\ \A j \in 1 .. before : \E k \in kept :
               /\ Place(kept, k) = Place(kept, i - 1) - before + j
               /\ LetterOf[chars[k]] = word[j]
    BY <2>1 DEF Spelled, before
  <2>8. CASE letter = NoLetter
    <3>1. i \notin LettersIn(chars) /\ i \notin kept /\ m = before
      BY <1>1, <2>3, <2>4, <2>8
    <3>2. \A h : IsLast(chars, h, i) <=> IsLast(chars, h, i - 1)
      BY <3>1, LastOnes
    <3> QED BY <2>5, <2>7, <3>1, <3>2
  <2>9. CASE letter # NoLetter
    <3>1. i \in LettersIn(chars) /\ IsLast(chars, i, i) /\ letter = word[m]
      BY <2>3, <2>4, <2>9, LastOnes
    <3>2. \E h \in LettersIn(chars) : IsLast(chars, h, i) /\ LetterOf[chars[h]] = word[m]
      BY <3>1 DEF letter
    <3>3. CASE m = before
      <4>1. PICK h \in LettersIn(chars) :
              IsLast(chars, h, i - 1) /\ LetterOf[chars[h]] = word[m]
        BY <2>7, <3>3
      <4>2. i \notin kept
        BY <3>1, <4>1, LastOnes DEF letter
      <4> QED BY <2>5, <2>7, <3>2, <3>3, <4>2
    <3>4. CASE m = before + 1 /\ before = 0
      <4>1. PICK k \in kept : Place(kept, k) = Place(kept, i) /\ LetterOf[chars[k]] = letter
        <5>1. i \in 0 .. n
          BY <1>1
        <5> QED BY <3>1, <5>1, LastIsKept DEF letter
      <4>2. m = 1 /\ \A j \in 1 .. m : j = 1
        BY <3>4
      <4>3. Place(kept, i) - m + 1 = Place(kept, i)
        BY <2>6, <4>2
      <4> QED BY <3>1, <3>2, <4>1, <4>2, <4>3
    <3>5. CASE m = before + 1 /\ before # 0
      <4>1. before \in 1 .. len - 1
        BY <2>2, <3>5
      <4>2. word[before] # word[m]
        BY <3>5, <4>1 DEF Tekrarsiz
      <4>3. PICK h \in LettersIn(chars) :
              IsLast(chars, h, i - 1) /\ LetterOf[chars[h]] = word[before]
        BY <2>7, <4>1
      <4>4. \A g : IsLast(chars, g, i - 1) => g = h
        <5> SUFFICES ASSUME NEW g, IsLast(chars, g, i - 1) PROVE g = h
          OBVIOUS
        <5>1. g \in 1 .. n /\ h \in 1 .. n /\ g <= i - 1 /\ h <= i - 1
                /\ g \in LettersIn(chars) /\ h \in LettersIn(chars)
          BY <1>1, <4>3 DEF IsLast
        <5>2. (g <= h \/ g > i - 1) /\ (h <= g \/ h > i - 1)
          BY <4>3, <5>1 DEF IsLast
        <5> QED BY <5>1, <5>2
      <4>5. i \in kept
        BY <3>1, <4>2, <4>3, <4>4, LastOnes DEF letter
      <4>6. Place(kept, i) = Place(kept, i - 1) + 1
        BY <2>5, <4>5
      <4>7. ASSUME NEW j \in 1 .. m
            PROVE  \E k \in kept : /\ Place(kept, k) = Place(kept, i) - m + j
                                   /\ LetterOf[chars[k]] = word[j]
        <5>1. CASE j = m
          <6>1. Place(kept, i) - m + j = Place(kept, i)
            BY <2>6, <5>1
          <6> QED BY <3>1, <4>5, <5>1, <6>1 DEF letter
        <5>2. CASE j # m
          <6>1. j \in 1 .. before
            BY <3>5, <4>1, <5>2
          <6>2. PICK k \in kept : /\ Place(kept, k) = Place(kept, i - 1) - before + j
                                  /\ LetterOf[chars[k]] = word[j]
            BY <2>7, <4>1, <6>1
          <6>3. Place(kept, i - 1) - before + j = Place(kept, i) - m + j
            BY <2>6, <3>5, <4>1, <4>6
          <6> QED BY <6>2, <6>3
        <5> QED BY <5>1, <5>2
      <4> QED BY <3>2, <4>7
    <3> QED BY <2>3, <2>9, <3>3, <3>4, <3>5
  <2> QED BY <2>8, <2>9
<1> HIDE DEF S
<1>5. 0 .. n \subseteq S
  BY <1>1, <1>2, <1>4, Reaches
<1> QED BY <1>5 DEF S

\* What the comment of moderation.go promises: normalize finds every spelling
\* of a word without double letters.
LEMMA HiddenIsFound ==
  ASSUME NEW chars \in Text, NEW word \in Blocklist, Tekrarsiz(word), Hides(chars, word)
  PROVE  IsProfane(chars)
<1> DEFINE kept == Kept(chars)
           n == Len(chars)
           len == Len(word)
           clean == normalize(chars)
<1>1. word \in Seq({LetterOf[c] : c \in DOMAIN LetterOf})
  BY NamesAssumption
<1>2. len \in Nat /\ DOMAIN word = 1 .. len
  BY <1>1
<1>3. PICK at \in [DOMAIN chars -> 0 .. len + 1] : Spells(chars, word, at)
  BY DEF Hides
<1>4. PICK i \in DOMAIN chars : at[i] = len
  BY <1>3 DEF Spells
<1>5. /\ n \in Nat /\ i \in 1 .. n /\ i \in 0 .. n
      /\ \A k \in kept : k \in 1 .. n
  BY <1>4, KeptPositions
<1>6. Reached(at, i) = len
  BY <1>4, <1>5 DEF Reached
<1>7. Spelled(chars, word, at, i)
  BY <1>2, <1>3, <1>5, SpelledOut
<1>8. /\ Len(clean) = Cardinality(kept) /\ Cardinality(kept) \in Nat
      /\ \A k \in kept : /\ Place(kept, k) \in 1 .. Cardinality(kept)
                         /\ clean[Place(kept, k)] = LetterOf[chars[k]]
  BY Normalized
<1>9. Place(kept, i) \in 0 .. Cardinality(kept)
  BY <1>5, Places
<1> DEFINE o == Place(kept, i) - len
<1>10. CASE len = 0
  <2>1. 0 \in 0 .. Len(clean) - Len(word) /\ SubSeq(clean, 0 + 1, 0 + Len(word)) = word
    BY <1>1, <1>8, <1>10
  <2> QED BY <2>1 DEF IsProfane, HasSubstring
<1>11. CASE len # 0
  <2>1. \A j \in 1 .. len : \E k \in kept : Place(kept, k) = o + j /\ LetterOf[chars[k]] = word[j]
    BY <1>2, <1>6, <1>7, <1>11 DEF Spelled
  <2>2. o \in Int /\ Place(kept, i) = o + len
    BY <1>2, <1>9
  <2> HIDE DEF o
  <2>3. \A j \in 1 .. len : o + j \in 1 .. Cardinality(kept) /\ clean[o + j] = word[j]
    BY <1>8, <2>1
  <2>4. o \in 0 .. Len(clean) - Len(word)
    BY <1>2, <1>8, <1>9, <1>11, <2>2, <2>3
  <2>5. SubSeq(clean, o + 1, o + Len(word)) = word
    <3> DEFINE part == SubSeq(clean, o + 1, o + len)
               Letters == {LetterOf[c] : c \in DOMAIN LetterOf}
    <3>1. o + 1 \in Int /\ o + len \in Int /\ o + 1 <= o + len /\ (o + len) - (o + 1) + 1 = len
      BY <1>2, <1>11, <2>2
    <3>2. \A q \in o + 1 .. o + len : clean[q] \in Letters
      <4> SUFFICES ASSUME NEW q \in o + 1 .. o + len PROVE clean[q] \in Letters
        OBVIOUS
      <4>1. q - o \in 1 .. len /\ o + (q - o) = q
        BY <1>2, <2>2
      <4>2. clean[q] = word[q - o]
        BY <2>3, <4>1
      <4> QED BY <1>1, <4>1, <4>2
    <3>3. /\ part \in Seq(Letters) /\ Len(part) = len
          /\ \A j \in 1 .. len : part[j] = clean[(o + 1) + j - 1]
      BY <3>1, <3>2, SubSeqProperties
    <3>4. \A j \in 1 .. len : part[j] = word[j]
      <4> SUFFICES ASSUME NEW j \in 1 .. len PROVE part[j] = word[j]
        OBVIOUS
      <4>1. (o + 1) + j - 1 = o + j
        BY <1>2, <2>2
      <4> QED BY <2>3, <3>3, <4>1
    <3> HIDE DEF part, Letters
    <3>5. part = word
      BY <1>1, <3>3, <3>4, SeqEqual DEF Letters
    <3> QED BY <3>5 DEF part
  <2> QED BY <2>4, <2>5 DEF IsProfane, HasSubstring
<1> QED BY <1>10, <1>11

-----------------------------------------------------------------------------
(* What clampName and leagueName make of a name. *)

LEMMA Sizes ==
  ASSUME NEW chars \in Text
  PROVE  /\ Size(chars) \in Nat /\ Size(<<>>) = 0
         /\ \A k \in 0 .. Len(chars) :
              SubSeq(chars, 1, k) \in Text /\ Size(SubSeq(chars, 1, k)) <= Size(chars)
<1> DEFINE WideIn(s) == {i \in DOMAIN s : s[i] \in Wide}
<1>1. ASSUME NEW s \in Text
      PROVE  /\ IsFiniteSet(WideIn(s)) /\ Cardinality(WideIn(s)) \in Nat /\ Len(s) \in Nat
             /\ Size(s) = Len(s) + Cardinality(WideIn(s))
  <2>1. DOMAIN s = 1 .. Len(s) /\ Len(s) \in Nat
    BY DEF Text
  <2>2. IsFiniteSet(DOMAIN s)
    BY <2>1, FS_Interval
  <2>3. WideIn(s) \in SUBSET DOMAIN s
    OBVIOUS
  <2>4. IsFiniteSet(WideIn(s))
    BY <2>2, <2>3, FS_Subset
  <2> QED BY <2>1, <2>4, FS_CardinalityType DEF Size
<1>2. Size(<<>>) = 0
  <2>1. WideIn(<<>>) = {} /\ Len(<<>>) = 0
    OBVIOUS
  <2> QED BY <2>1, FS_EmptySet DEF Size
<1>3. Size(chars) \in Nat
  <2>1. /\ Cardinality(WideIn(chars)) \in Nat /\ Len(chars) \in Nat
        /\ Size(chars) = Len(chars) + Cardinality(WideIn(chars))
    BY <1>1
  <2> HIDE DEF WideIn
  <2> QED BY <2>1
<1>4. ASSUME NEW k \in 0 .. Len(chars)
      PROVE  SubSeq(chars, 1, k) \in Text /\ Size(SubSeq(chars, 1, k)) <= Size(chars)
  <2> DEFINE s == SubSeq(chars, 1, k)
  <2>1. Len(chars) \in Nat /\ DOMAIN chars = 1 .. Len(chars)
    BY DEF Text
  <2>2. s \in Text /\ Len(s) = k /\ DOMAIN s = 1 .. k /\ \A i \in 1 .. k : s[i] = chars[i]
    BY <2>1 DEF Text
  <2> HIDE DEF s
  <2>3. WideIn(s) \subseteq WideIn(chars)
    BY <2>1, <2>2
  <2>4. Cardinality(WideIn(s)) <= Cardinality(WideIn(chars))
    BY <1>1, <2>3, FS_Subset
  <2> HIDE DEF WideIn
  <2>5. Size(s) <= Size(chars)
    BY <1>1, <2>1, <2>2, <2>4
  <2> QED BY <2>2, <2>5 DEF s
<1> QED BY <1>2, <1>3, <1>4

LEMMA Trimmed ==
  ASSUME NEW raw \in Text
  PROVE  TrimSpace(raw) \in Text
<1> DEFINE solid == {i \in DOMAIN raw : raw[i] \notin Blank}
<1>1. Len(raw) \in Nat /\ DOMAIN raw = 1 .. Len(raw)
  BY DEF Text
<1>2. CASE solid = {}
  BY <1>2 DEF TrimSpace, Text
<1>3. CASE solid # {}
  <2>1. solid \in SUBSET Nat /\ solid \in SUBSET (0 .. Len(raw))
    BY <1>1
  <2>2. Min(solid) \in solid /\ Max(solid) \in solid
    BY <1>1, <1>3, <2>1, MinIsLeast, MaxIsGreatest
  <2>3. Min(solid) \in 1 .. Len(raw) /\ Max(solid) \in 1 .. Len(raw)
    BY <1>1, <2>2
  <2>4. SubSeq(raw, Min(solid), Max(solid)) \in Text
    <3>1. \A i \in Min(solid) .. Max(solid) : i \in 1 .. Len(raw)
      BY <1>1, <2>3
    <3>2. \A i \in Min(solid) .. Max(solid) : raw[i] \in DOMAIN LetterOf
      BY <3>1 DEF Text
    <3>3. Min(solid) \in Int /\ Max(solid) \in Int
      BY <2>3
    <3> QED BY <3>2, <3>3, SubSeqProperties DEF Text
  <2> QED BY <1>3, <2>4 DEF TrimSpace
<1> QED BY <1>2, <1>3

\* A name is cut to its limit, and loses all its characters only with half of one.
LEMMA CutFits ==
  ASSUME NEW chars \in Text, NEW limit \in Nat \ {0}
  PROVE  /\ Cut(chars, limit).chars \in Text
         /\ Size(Cut(chars, limit).chars) <= limit
         /\ chars # <<>> /\ ~Cut(chars, limit).broken => Cut(chars, limit).chars # <<>>
<1> DEFINE fits == {k \in 0 .. Len(chars) : Size(SubSeq(chars, 1, k)) <= limit}
           whole == Max(fits)
           part == SubSeq(chars, 1, whole)
<1>1. Len(chars) \in Nat
  BY DEF Text
<1>2. /\ Size(chars) \in Nat /\ Size(<<>>) = 0
      /\ \A k \in 0 .. Len(chars) :
           SubSeq(chars, 1, k) \in Text /\ Size(SubSeq(chars, 1, k)) <= Size(chars)
  BY Sizes
<1>3. SubSeq(chars, 1, 0) = <<>>
  BY DEF Text
<1>4. 0 \in fits /\ fits \in SUBSET (0 .. Len(chars))
  <2>1. 0 \in 0 .. Len(chars) /\ Size(SubSeq(chars, 1, 0)) <= limit
    <3>1. Size(SubSeq(chars, 1, 0)) = 0
      BY <1>2, <1>3, Zenon
    <3> QED BY <1>1, <3>1
  <2> QED BY <2>1
<1>5. whole \in fits /\ \A k \in fits : whole >= k
  BY <1>1, <1>4, MaxIsGreatest
<1>6. Cut(chars, limit).chars = part
        /\ Cut(chars, limit).broken = (Size(chars) > limit /\ Size(part) < limit)
  BY DEF Cut
<1> HIDE DEF whole
<1>7. part \in Text /\ Size(part) <= limit /\ whole \in 0 .. Len(chars)
  BY <1>2, <1>5
<1>8. ASSUME chars # <<>>, part = <<>> PROVE Size(chars) > limit /\ Size(part) < limit
  <2>1. Len(chars) >= 1 /\ 1 \in 0 .. Len(chars)
    BY <1>1, <1>8 DEF Text
  <2>2. whole = 0
    <3>1. Len(part) = whole
      BY <1>1, <1>7 DEF Text
    <3> QED BY <1>8, <3>1
  <2>3. 1 \notin fits
    BY <1>5, <2>2
  <2>4. ~(Size(SubSeq(chars, 1, 1)) <= limit) /\ Size(SubSeq(chars, 1, 1)) <= Size(chars)
    BY <1>2, <2>1, <2>3
  <2>5. SubSeq(chars, 1, 1) \in Text /\ Size(SubSeq(chars, 1, 1)) \in Nat
    BY <1>2, <2>1, Sizes
  <2>6. Size(chars) > limit
    BY <1>2, <2>4, <2>5
  <2>7. Size(part) < limit
    <3>1. Size(part) = 0
      BY <1>2, <1>8, Zenon
    <3> QED BY <3>1
  <2> QED BY <2>6, <2>7
<1> QED BY <1>6, <1>7, <1>8

LEMMA NotProfane ==
  ASSUME NEW name, name.chars \in Text, name.chars # <<>>, ~name.broken,
         NEW limit \in Nat, Size(name.chars) <= limit, ~IsProfane(name.chars)
  PROVE  Proper(name, limit)
BY HiddenIsFound DEF Proper

LEMMA PlayersAreProper ==
  ASSUME NEW name \in Name, ~name.broken
  PROVE  name \in {Anonim, Oyuncu} \/ Proper(name, NameLimit)
<1>1. PICK raw \in RawName : name = clampName(raw)
  BY DEF Name
<1> DEFINE trimmed == TrimSpace(raw)
           cut == Cut(trimmed, NameLimit)
<1>2. trimmed \in Text
  BY RawNamesAssumption, Trimmed DEF Text
<1>3. NameLimit \in Nat \ {0}
  BY NamesAssumption
<1>4. /\ cut.chars \in Text /\ Size(cut.chars) <= NameLimit
      /\ trimmed # <<>> /\ ~cut.broken => cut.chars # <<>>
  BY <1>2, <1>3, CutFits
<1>5. name = IF trimmed = <<>> THEN Anonim ELSE IF IsProfane(cut.chars) THEN Oyuncu ELSE cut
  BY <1>1 DEF clampName
<1> HIDE DEF trimmed, cut
<1>6. CASE trimmed # <<>> /\ ~IsProfane(cut.chars)
  BY <1>3, <1>4, <1>5, <1>6, NotProfane
<1> QED BY <1>5, <1>6

LEMMA GroupsAreProper ==
  ASSUME NEW name \in LeagueName, ~name.broken
  PROVE  name = ArkadasLigi \/ Proper(name, LeagueNameLimit)
<1>1. PICK raw \in RawLeagueName : name = leagueName(raw)
  BY DEF LeagueName
<1> DEFINE trimmed == TrimSpace(raw)
           cut == Cut(trimmed, LeagueNameLimit)
           none == Cut(<<>>, LeagueNameLimit)
<1>2. trimmed \in Text
  BY RawNamesAssumption, Trimmed DEF Text
<1>3. LeagueNameLimit \in Nat \ {0}
  BY NamesAssumption
<1>4. /\ cut.chars \in Text /\ Size(cut.chars) <= LeagueNameLimit
      /\ trimmed # <<>> /\ ~cut.broken => cut.chars # <<>>
  BY <1>2, <1>3, CutFits
<1>5. name = IF cut = none \/ IsProfane(cut.chars) THEN ArkadasLigi ELSE cut
  BY <1>1 DEF leagueName
<1>6. trimmed = <<>> => cut = none
  OBVIOUS
<1> HIDE DEF trimmed, cut, none
<1>7. CASE cut # none /\ ~IsProfane(cut.chars)
  BY <1>3, <1>4, <1>5, <1>6, <1>7, NotProfane
<1> QED BY <1>5, <1>7

-----------------------------------------------------------------------------
(* The leagues. *)

\* What a request has to insert next.
ReqTyped ==
  \A r \in Request :
    /\ pc[r] = "create" => /\ req[r].device \in Device
                           /\ req[r].name \in Name
                           /\ req[r].league \in LeagueName
    /\ pc[r] \in {"own", "join"} => /\ req[r].device \in Device
                                    /\ req[r].name \in Name
                                    /\ req[r].code \in Code

Request0 == [device : Device \cup {Nobody}, name : Name \cup {Anonim},
             league : LeagueName \cup {ArkadasLigi}, code : Code \cup {Nobody},
             tries : 0 .. Attempts - 1]

Typed == TypeOK /\ req \in [Request -> Request0] /\ ReqTyped

\* Who is to be told that he owns a league owns it, before his row is inserted.
OwnersOwn ==
  \A r \in Request : pc[r] = "own" => leagues[req[r].code].owner = req[r].device

Inv == Typed /\ OwnersOwn /\ AnswersAreTrue

USE LeaguesAssumption

-----------------------------------------------------------------------------
(* Requests and answers. *)

LEMMA NoRequestType == NoRequest \in Request0
BY DEF NoRequest, Asks, Request0

LEMMA AnswerType ==
  ASSUME Typed, NEW r \in Request, Answer(r)
  PROVE  /\ pc' \in [Request -> {"idle", "create", "own", "join"}]
         /\ req' \in [Request -> Request0]
         /\ ReqTyped'
<1>1. pc' = [pc EXCEPT ![r] = "idle"] /\ req' = [req EXCEPT ![r] = NoRequest]
  BY DEF Answer, Go
<1>2. pc \in [Request -> {"idle", "create", "own", "join"}] /\ req \in [Request -> Request0]
  BY DEF Typed, TypeOK
<1>3. pc'[r] = "idle" /\ \A s \in Request : s # r => pc'[s] = pc[s] /\ req'[s] = req[s]
  BY <1>1, <1>2
<1>4. ReqTyped'
  BY <1>3 DEF Typed, ReqTyped
<1> QED BY <1>1, <1>2, <1>4, NoRequestType

LEMMA OwningType ==
  ASSUME NEW request \in Request0, NEW c \in Code
  PROVE  /\ Owning(request, c) \in Request0
         /\ Owning(request, c).device = request.device
         /\ Owning(request, c).name = request.name
         /\ Owning(request, c).code = c
<1> DEFINE o == Owning(request, c)
<1>1. o = [device |-> request.device, name |-> request.name, league |-> ArkadasLigi,
           code |-> c, tries |-> 0]
  BY DEF Owning, Asks
<1>2. request.device \in Device \cup {Nobody} /\ request.name \in Name \cup {Anonim}
  BY DEF Request0
<1> HIDE DEF o
<1> QED BY <1>1, <1>2 DEF Request0, o

LEMMA InitInv == Init => Inv
<1> SUFFICES ASSUME Init PROVE Inv
  OBVIOUS
<1>1. TypeOK
  BY NoRequestType DEF Init, TypeOK, Request0
<1>2. req \in [Request -> Request0] /\ ReqTyped
  BY NoRequestType DEF Init, ReqTyped
<1>3. OwnersOwn /\ AnswersAreTrue
  BY DEF Init, OwnersOwn, AnswersAreTrue
<1> QED BY <1>1, <1>2, <1>3 DEF Inv, Typed

-----------------------------------------------------------------------------
(* A league, once inserted, keeps its row; a member stays one. *)

\* What AnswersAreTrue and OwnersOwn rest on.
Grows ==
  /\ \A c \in Code : Exists(c) => leagues'[c] = leagues[c]
  /\ \A c \in Code : MemberOf(c) \subseteq MemberOf(c)'

LEMMA AnswersStayTrue ==
  ASSUME Typed, AnswersAreTrue, Grows, NEW d \in Device, told'[d] = told[d], told[d] # NoAnswer
  PROVE  /\ told[d].code \in MyLeagues(d)'
         /\ told[d].did = "own" => leagues'[told[d].code].owner = d
<1>1. told[d].code \in MyLeagues(d) /\ told[d].code \in Code
  BY DEF AnswersAreTrue, MyLeagues
<1>2. told[d].code \in MyLeagues(d)'
  BY <1>1 DEF MyLeagues, Grows
<1>3. ASSUME told[d].did = "own"
      PROVE  leagues'[told[d].code].owner = d
  <2>1. leagues[told[d].code].owner = d
    BY <1>3 DEF AnswersAreTrue
  <2>2. Exists(told[d].code)
    BY <2>1 DEF Exists, NoLeague
  <2> QED BY <2>1, <2>2, <1>1 DEF Grows
<1> QED BY <1>2, <1>3

LEMMA OwnersStay ==
  ASSUME Inv, Grows, NEW r \in Request, pc[r] = "own"
  PROVE  leagues'[req[r].code].owner = req[r].device
<1>1. req[r].code \in Code /\ req[r].device \in Device
  BY DEF Inv, Typed, ReqTyped
<1>2. leagues[req[r].code].owner = req[r].device
  BY DEF Inv, OwnersOwn
<1>3. Exists(req[r].code)
  BY <1>1, <1>2 DEF Exists, NoLeague
<1> QED BY <1>1, <1>2, <1>3 DEF Grows

\* An INSERT under a free code, by CreateLeague.
LEMMA InsertGrows ==
  ASSUME Typed, NEW r \in Request, pc[r] = "create", NEW c \in Code, ~Exists(c),
         leagues' = [leagues EXCEPT ![c] = [owner |-> req[r].device, name |-> req[r].league]],
         UNCHANGED members
  PROVE  /\ Grows
         /\ leagues' \in [Code -> [owner : Device, name : LeagueName] \cup {NoLeague}]
         /\ leagues'[c].owner = req[r].device
<1>1. req[r].device \in Device /\ req[r].league \in LeagueName
  BY DEF Typed, ReqTyped
<1>2. Grows
  BY DEF Typed, TypeOK, Grows, MemberOf
<1> QED BY <1>1, <1>2 DEF Typed, TypeOK

LEMMA UpsertGrows ==
  ASSUME Typed, NEW r \in Request, pc[r] \in {"own", "join"},
         Upsert(req[r].device, req[r].name, req[r].code), UNCHANGED leagues
  PROVE  /\ Grows
         /\ members' \in [Code -> SUBSET [device : Device, name : Name]]
         /\ req[r].device \in {m.device : m \in members'[req[r].code]}
<1> DEFINE d == req[r].device
           n == req[r].name
           k == req[r].code
           row == [device |-> d, name |-> n]
<1>1. d \in Device /\ n \in Name /\ k \in Code
  BY DEF Typed, ReqTyped
<1>2. members' = [members EXCEPT ![k] = {m \in members[k] : m.device # d} \cup {row}]
  BY DEF Upsert
<1>3. members \in [Code -> SUBSET [device : Device, name : Name]]
  BY DEF Typed, TypeOK
<1>4. row \in [device : Device, name : Name] /\ row.device = d
  BY <1>1
<1>5. members' \in [Code -> SUBSET [device : Device, name : Name]]
  BY <1>1, <1>2, <1>3, <1>4
<1>6. \A c \in Code : c # k => members'[c] = members[c]
  BY <1>2, <1>3
<1>7. members'[k] = {m \in members[k] : m.device # d} \cup {row}
  BY <1>1, <1>2, <1>3
<1>8. d \in {m.device : m \in members'[k]}
  BY <1>4, <1>7
<1>9. ASSUME NEW c \in Code
      PROVE  MemberOf(c) \subseteq MemberOf(c)'
  <2>1. CASE c = k
    <3>1. ASSUME NEW m \in members[c]
          PROVE  m.device \in {o.device : o \in members'[c]}
      BY <1>7, <1>8, <2>1
    <3> QED BY <3>1 DEF MemberOf
  <2>2. CASE c # k
    BY <1>6, <2>2 DEF MemberOf
  <2> QED BY <2>1, <2>2
<1>10. Grows
  BY <1>9 DEF Grows
<1> QED BY <1>5, <1>8, <1>10

-----------------------------------------------------------------------------

\* A step that tells nobody anything keeps the invariant if the tables grow and
\* whoever is to own a league owned it before or owns it now.
LEMMA SilentInv ==
  ASSUME Inv, Grows, Typed', UNCHANGED told,
         \A r \in Request : pc'[r] = "own" =>
           \/ pc[r] = "own" /\ req'[r] = req[r]
           \/ leagues'[req'[r].code].owner = req'[r].device
  PROVE  Inv'
<1>1. ASSUME NEW r \in Request, pc'[r] = "own"
      PROVE  leagues'[req'[r].code].owner = req'[r].device
  <2>1. CASE pc[r] = "own" /\ req'[r] = req[r]
    BY <2>1, OwnersStay
  <2> QED BY <1>1, <2>1
<1>2. ASSUME NEW d \in Device, told'[d] # NoAnswer
      PROVE  /\ told'[d].code \in MyLeagues(d)'
             /\ told'[d].did = "own" => leagues'[told'[d].code].owner = d
  <2>1. told'[d] = told[d] /\ Typed /\ AnswersAreTrue
    BY DEF Inv
  <2> QED BY <1>2, <2>1, AnswersStayTrue
<1>3. OwnersOwn'
  BY <1>1 DEF OwnersOwn
<1>4. AnswersAreTrue'
  BY <1>2 DEF AnswersAreTrue
<1> QED BY <1>3, <1>4 DEF Inv

LEMMA NothingGrows ==
  ASSUME UNCHANGED tables
  PROVE  Grows
BY DEF Grows, tables, MemberOf

LEMMA ArrivalInv ==
  ASSUME Inv, NEW r \in Request, PostLeague(r) \/ PostLeagueJoin(r)
  PROVE  Inv'
<1>1. Grows /\ UNCHANGED told
  BY NothingGrows DEF PostLeague, PostLeagueJoin
<1>2. CASE PostLeague(r)
  <2>1. PICK d \in Device : \E name \in Name, league \in LeagueName :
          req' = [req EXCEPT ![r] = Asks(d, name, league, Nobody)]
    BY <1>2 DEF PostLeague
  <2>2. PICK name \in Name : \E league \in LeagueName :
          req' = [req EXCEPT ![r] = Asks(d, name, league, Nobody)]
    BY <2>1
  <2>3. PICK league \in LeagueName :
          req' = [req EXCEPT ![r] = Asks(d, name, league, Nobody)]
    BY <2>2
  <2> DEFINE new == Asks(d, name, league, Nobody)
  <2>0. new = [device |-> d, name |-> name, league |-> league, code |-> Nobody, tries |-> 0]
    BY DEF Asks
  <2> HIDE DEF new
  <2>4. new \in Request0 /\ new.device = d /\ new.name = name /\ new.league = league
    BY <2>0 DEF Request0
  <2>5. req' = [req EXCEPT ![r] = new] /\ pc' = [pc EXCEPT ![r] = "create"]
    BY <1>2, <2>3 DEF PostLeague, Go, new
  <2>6. /\ pc \in [Request -> {"idle", "create", "own", "join"}]
        /\ req \in [Request -> Request0]
    BY DEF Inv, Typed, TypeOK
  <2>7. /\ pc'[r] = "create" /\ req'[r] = new
        /\ \A s \in Request : s # r => pc'[s] = pc[s] /\ req'[s] = req[s]
        /\ pc' \in [Request -> {"idle", "create", "own", "join"}]
        /\ req' \in [Request -> Request0]
    BY <2>4, <2>5, <2>6
  <2>8. ReqTyped'
    BY <2>4, <2>7 DEF Inv, Typed, ReqTyped
  <2>9. \A s \in Request : req'[s].tries \in 0 .. Attempts - 1
    BY <2>7 DEF Request0
  <2>10. Typed'
    BY <1>2, <2>7, <2>8, <2>9 DEF Inv, Typed, TypeOK, PostLeague, tables
  <2> QED BY <1>1, <2>7, <2>10, SilentInv
<1>3. CASE PostLeagueJoin(r)
  <2>1. PICK d \in Device : \E name \in Name, c \in Code :
          req' = [req EXCEPT ![r] = Asks(d, name, ArkadasLigi, c)]
    BY <1>3 DEF PostLeagueJoin
  <2>2. PICK name \in Name : \E c \in Code :
          req' = [req EXCEPT ![r] = Asks(d, name, ArkadasLigi, c)]
    BY <2>1
  <2>3. PICK c \in Code :
          req' = [req EXCEPT ![r] = Asks(d, name, ArkadasLigi, c)]
    BY <2>2
  <2> DEFINE new == Asks(d, name, ArkadasLigi, c)
  <2>0. new = [device |-> d, name |-> name, league |-> ArkadasLigi, code |-> c, tries |-> 0]
    BY DEF Asks
  <2> HIDE DEF new
  <2>4. new \in Request0 /\ new.device = d /\ new.name = name /\ new.code = c
    BY <2>0 DEF Request0
  <2>5. req' = [req EXCEPT ![r] = new] /\ pc' = [pc EXCEPT ![r] = "join"]
    BY <1>3, <2>3 DEF PostLeagueJoin, Go, new
  <2>6. /\ pc \in [Request -> {"idle", "create", "own", "join"}]
        /\ req \in [Request -> Request0]
    BY DEF Inv, Typed, TypeOK
  <2>7. /\ pc'[r] = "join" /\ req'[r] = new
        /\ \A s \in Request : s # r => pc'[s] = pc[s] /\ req'[s] = req[s]
        /\ pc' \in [Request -> {"idle", "create", "own", "join"}]
        /\ req' \in [Request -> Request0]
    BY <2>4, <2>5, <2>6
  <2>8. ReqTyped'
    BY <2>4, <2>7 DEF Inv, Typed, ReqTyped
  <2>9. \A s \in Request : req'[s].tries \in 0 .. Attempts - 1
    BY <2>7 DEF Request0
  <2>10. Typed'
    BY <1>3, <2>7, <2>8, <2>9 DEF Inv, Typed, TypeOK, PostLeagueJoin, tables
  <2> QED BY <1>1, <2>7, <2>10, SilentInv
<1> QED BY <1>2, <1>3

LEMMA InsertLeagueInv ==
  ASSUME Inv, NEW r \in Request, InsertLeague(r)
  PROVE  Inv'
<1>1. pc[r] = "create" /\ UNCHANGED <<members, told>>
  BY DEF InsertLeague
<1>2. PICK c \in Code :
        \/ /\ ~Exists(c)
           /\ leagues' = [leagues EXCEPT ![c] = [owner |-> req[r].device, name |-> req[r].league]]
           /\ req' = [req EXCEPT ![r] = Owning(req[r], c)]
           /\ Go(r, "own")
        \/ /\ Exists(c)
           /\ IF req[r].tries + 1 < Attempts
                THEN req' = [req EXCEPT ![r].tries = @ + 1] /\ UNCHANGED pc
                ELSE Answer(r)
           /\ UNCHANGED leagues
  BY DEF InsertLeague
<1>3. req[r] \in Request0 /\ req[r].device \in Device /\ req[r].name \in Name
        /\ req[r].league \in LeagueName
  BY <1>1 DEF Inv, Typed, ReqTyped
<1>4. CASE /\ ~Exists(c)
           /\ leagues' = [leagues EXCEPT ![c] = [owner |-> req[r].device, name |-> req[r].league]]
           /\ req' = [req EXCEPT ![r] = Owning(req[r], c)]
           /\ Go(r, "own")
  <2> DEFINE new == Owning(req[r], c)
  <2>1. /\ Grows
        /\ leagues' \in [Code -> [owner : Device, name : LeagueName] \cup {NoLeague}]
        /\ leagues'[c].owner = req[r].device
    BY <1>1, <1>4, InsertGrows DEF Inv
  <2>2. new \in Request0 /\ new.device = req[r].device /\ new.name = req[r].name /\ new.code = c
    BY <1>3, OwningType
  <2> HIDE DEF new
  <2>3. req' = [req EXCEPT ![r] = new] /\ pc' = [pc EXCEPT ![r] = "own"]
    BY <1>4 DEF Go, new
  <2>4. Typed'
    BY <1>1, <1>3, <2>1, <2>2, <2>3 DEF Inv, Typed, TypeOK, ReqTyped, Request0
  <2> QED BY <1>1, <2>1, <2>2, <2>3, <2>4, SilentInv DEF Inv, Typed, TypeOK
<1>5. CASE /\ req[r].tries + 1 < Attempts
           /\ req' = [req EXCEPT ![r].tries = @ + 1]
           /\ UNCHANGED <<pc, leagues>>
  <2> DEFINE new == [req[r] EXCEPT !.tries = @ + 1]
  <2>1. new \in Request0 /\ new.device = req[r].device /\ new.name = req[r].name
          /\ new.league = req[r].league
    BY <1>3, <1>5 DEF Request0
  <2> HIDE DEF new
  <2>2. req' = [req EXCEPT ![r] = new]
    BY <1>5 DEF new
  <2>3. Typed'
    BY <1>1, <1>3, <1>5, <2>1, <2>2 DEF Inv, Typed, TypeOK, ReqTyped, Request0
  <2> QED BY <1>1, <1>5, <2>2, <2>3, NothingGrows, SilentInv DEF Inv, Typed, TypeOK, tables
<1>6. CASE Answer(r) /\ UNCHANGED leagues
  <2>1. Typed'
    BY <1>1, <1>6, AnswerType DEF Inv, Typed, TypeOK, Request0
  <2> QED BY <1>1, <1>6, <2>1, NothingGrows, SilentInv DEF Inv, Typed, TypeOK, tables, Answer, Go
<1> QED BY <1>2, <1>4, <1>5, <1>6

\* A step that ends a request without an answer 200.
LEMMA FailureInv ==
  ASSUME Inv, NEW r \in Request, Answer(r), UNCHANGED told, Grows,
         leagues' \in [Code -> [owner : Device, name : LeagueName] \cup {NoLeague}],
         members' \in [Code -> SUBSET [device : Device, name : Name]]
  PROVE  Inv'
<1>1. Typed'
  BY AnswerType DEF Inv, Typed, TypeOK, Request0
<1> QED BY <1>1, SilentInv DEF Inv, Typed, TypeOK, Answer, Go

LEMMA FailsInv ==
  ASSUME Inv, NEW r \in Request, InsertLeagueFails(r) \/ InsertMemberFails(r)
  PROVE  Inv'
<1>1. Answer(r) /\ UNCHANGED told
  BY DEF InsertLeagueFails, InsertMemberFails
<1>2. CASE UNCHANGED tables
  BY <1>1, <1>2, NothingGrows, FailureInv DEF Inv, Typed, TypeOK, tables
<1>3. CASE InsertLeagueFails(r) /\ ~UNCHANGED tables
  <2>1. pc[r] = "create" /\ UNCHANGED members
    BY <1>3 DEF InsertLeagueFails
  <2>2. PICK c \in Code :
          /\ ~Exists(c)
          /\ leagues' = [leagues EXCEPT ![c] = [owner |-> req[r].device, name |-> req[r].league]]
    BY <1>3 DEF InsertLeagueFails, tables
  <2>3. Grows /\ leagues' \in [Code -> [owner : Device, name : LeagueName] \cup {NoLeague}]
    BY <2>1, <2>2, InsertGrows DEF Inv
  <2> QED BY <1>1, <2>1, <2>3, FailureInv DEF Inv, Typed, TypeOK
<1>4. CASE InsertMemberFails(r) /\ ~UNCHANGED tables
  <2>1. pc[r] \in {"own", "join"} /\ UNCHANGED leagues
    BY <1>4 DEF InsertMemberFails
  <2>2. Upsert(req[r].device, req[r].name, req[r].code)
    BY <1>4 DEF InsertMemberFails, tables
  <2>3. Grows /\ members' \in [Code -> SUBSET [device : Device, name : Name]]
    BY <2>1, <2>2, UpsertGrows DEF Inv
  <2> QED BY <1>1, <2>1, <2>3, FailureInv DEF Inv, Typed, TypeOK
<1> QED BY <1>2, <1>3, <1>4

\* The answer 200: the row is there and, after CreateLeague, the league is his.
LEMMA InsertMemberInv ==
  ASSUME Inv, NEW r \in Request, InsertMember(r)
  PROVE  Inv'
<1> DEFINE d == req[r].device
           k == req[r].code
           answer == [code |-> k, did |-> pc[r]]
<1>1. pc[r] \in {"own", "join"} /\ UNCHANGED leagues /\ Answer(r)
        /\ told' = [told EXCEPT ![d] = answer]
  BY DEF InsertMember
<1>2. d \in Device /\ k \in Code
  BY <1>1 DEF Inv, Typed, ReqTyped
<1>3. /\ Grows
      /\ members' \in [Code -> SUBSET [device : Device, name : Name]]
      /\ d \in {m.device : m \in members'[k]}
  BY <1>1, UpsertGrows DEF Inv, InsertMember
<1>4. told' \in [Device -> [code : Code, did : {"own", "join"}] \cup {NoAnswer}]
  BY <1>1, <1>2 DEF Inv, Typed, TypeOK
<1>5. Typed'
  BY <1>1, <1>3, <1>4, AnswerType DEF Inv, Typed, TypeOK, Request0
<1>6. OwnersOwn'
  BY <1>1, <1>3, OwnersStay DEF Inv, Typed, TypeOK, OwnersOwn, Answer, Go
<1>7. AnswersAreTrue'
  <2> SUFFICES ASSUME NEW e \in Device, told'[e] # NoAnswer
               PROVE  /\ told'[e].code \in MyLeagues(e)'
                      /\ told'[e].did = "own" => leagues'[told'[e].code].owner = e
    BY DEF AnswersAreTrue
  <2>1. CASE e = d
    <3>1. told'[e] = answer
      BY <1>1, <1>2, <2>1 DEF Inv, Typed, TypeOK
    <3>2. pc[r] = "own" => leagues'[k].owner = d
      BY <1>1 DEF Inv, OwnersOwn
    <3>3. told'[e].code = k /\ told'[e].did = pc[r]
      BY <3>1
    <3>4. \A c \in Code : c = k => e \in MemberOf(c)'
      BY <1>3, <2>1 DEF MemberOf
    <3> QED BY <1>1, <1>2, <2>1, <3>2, <3>3, <3>4 DEF MyLeagues
  <2>2. CASE e # d
    <3>1. told'[e] = told[e]
      BY <1>1, <2>2 DEF Inv, Typed, TypeOK
    <3> QED BY <1>3, <3>1, AnswersStayTrue DEF Inv
  <2> QED BY <2>1, <2>2
<1> QED BY <1>5, <1>6, <1>7 DEF Inv

LEMMA StepInv ==
  ASSUME Inv, [Next]_vars
  PROVE  Inv'
<1>1. CASE Next
  BY <1>1, ArrivalInv, InsertLeagueInv, FailsInv, InsertMemberInv DEF Next
<1>2. CASE UNCHANGED vars
  <2>1. UNCHANGED <<leagues, members, pc, req, told>>
    BY <1>2 DEF vars, tables
  <2>2. Typed'
    BY <2>1 DEF Inv, Typed, TypeOK, ReqTyped
  <2> QED BY <2>1, <2>2, NothingGrows, SilentInv DEF tables
<1> QED BY <1>1, <1>2

LEMMA InvCorrect == Spec => []Inv
BY InitInv, StepInv, PTL DEF Spec

-----------------------------------------------------------------------------

(* Every variable of Leagues keeps its type: what is stored has gone        *)
(* through clampName or leagueName, and no more codes are drawn than        *)
(* CreateLeague allows.                                                     *)
THEOREM TypeCorrect == Spec => []TypeOK
BY InvCorrect, PTL DEF Inv, Typed

(* Who was told that he has created or joined a league finds it among his   *)
(* leagues for ever, and it is his own if he has created it.                *)
THEOREM AnswersCorrect == Spec => []AnswersAreTrue
BY InvCorrect, PTL DEF Inv

-----------------------------------------------------------------------------
(* The board.  Who joins again replaces his row: a league has no two rows   *)
(* of one device.                                                           *)

OneRow ==
  \A c \in Code : \A one, other \in members[c] : one.device = other.device => one = other

LEMMA UpsertReplaces ==
  ASSUME TypeOK, OneRow, NEW d, NEW name, NEW k \in Code, Upsert(d, name, k)
  PROVE  OneRow'
<1> DEFINE row == [device |-> d, name |-> name]
           others == {m \in members[k] : m.device # d}
<1>1. members' = [members EXCEPT ![k] = others \cup {row}]
  BY DEF Upsert
<1>2. /\ members'[k] = others \cup {row}
      /\ \A c \in Code : c # k => members'[c] = members[c]
  BY <1>1 DEF TypeOK
<1>3. row.device = d
  OBVIOUS
<1> HIDE DEF row
<1>4. ASSUME NEW c \in Code, NEW one \in members'[c], NEW other \in members'[c],
             one.device = other.device
      PROVE  one = other
  <2>1. CASE c # k
    BY <1>2, <1>4, <2>1 DEF OneRow
  <2>2. CASE c = k
    <3>1. CASE one.device = d
      BY <1>2, <1>4, <2>2, <3>1
    <3>2. CASE one.device # d
      <4>1. one \in members[k] /\ other \in members[k]
        BY <1>2, <1>3, <1>4, <2>2, <3>2
      <4> QED BY <1>4, <4>1 DEF OneRow
    <3> QED BY <3>1, <3>2
  <2> QED BY <2>1, <2>2
<1> QED BY <1>4 DEF OneRow

LEMMA OneRowKept ==
  ASSUME Typed, OneRow, [Next]_vars
  PROVE  OneRow'
<1>1. CASE UNCHANGED members
  BY <1>1 DEF OneRow
<1>2. ASSUME NEW r \in Request, InsertMember(r) \/ InsertMemberFails(r)
      PROVE  OneRow'
  <2>1. req[r].code \in Code
    BY <1>2 DEF Typed, ReqTyped, InsertMember, InsertMemberFails
  <2>2. UNCHANGED members \/ Upsert(req[r].device, req[r].name, req[r].code)
    BY <1>2 DEF InsertMember, InsertMemberFails
  <2> QED BY <1>1, <2>1, <2>2, UpsertReplaces DEF Typed
<1>3. ASSUME NEW r \in Request,
             PostLeague(r) \/ InsertLeague(r) \/ InsertLeagueFails(r) \/ PostLeagueJoin(r)
      PROVE  OneRow'
  BY <1>1, <1>3 DEF PostLeague, InsertLeague, InsertLeagueFails, PostLeagueJoin, tables
<1>4. CASE UNCHANGED vars
  BY <1>1, <1>4 DEF vars, tables
<1> QED BY <1>2, <1>3, <1>4 DEF Next

(* On every day and for any scores the board of a league has one line for   *)
(* each device that joined it.                                              *)
THEOREM BoardCorrect == Spec => []BoardIsComplete
<1>1. OneRow => BoardIsComplete
  <2> SUFFICES ASSUME OneRow, NEW c \in Code, NEW day \in Day, NEW scores \in ScoresTable
               PROVE  LET board == LeagueBoard(c, day, scores)
                      IN /\ {line.row.device : line \in board} = MemberOf(c)
                         /\ \A one, other \in board :
                              one.row.device = other.row.device => one = other
    BY DEF BoardIsComplete
  <2> DEFINE board == LeagueBoard(c, day, scores)
             Line(row) == [row |-> row, total |-> Total(scores, row.device, day)]
  <2>1. board = {Line(row) : row \in members[c]}
    BY DEF LeagueBoard
  <2>2. \A row : Line(row).row = row
    OBVIOUS
  <2> HIDE DEF Line, board
  <2>3. {line.row.device : line \in board} = MemberOf(c)
    BY <2>1, <2>2 DEF MemberOf
  <2>4. ASSUME NEW one \in board, NEW other \in board, one.row.device = other.row.device
        PROVE  one = other
    BY <2>1, <2>2, <2>4 DEF OneRow
  <2> QED BY <2>3, <2>4 DEF board
<1>2. Init => OneRow
  BY DEF Init, OneRow
<1> QED BY <1>1, <1>2, InvCorrect, OneRowKept, PTL DEF Spec, Inv

-----------------------------------------------------------------------------
(* The names stored.  PostgreSQL takes no half character, so that the names *)
(* in the tables are the ones clampName and leagueName made without one.    *)

Unbroken ==
  /\ \A c \in Code : ~leagues[c].name.broken
  /\ \A c \in Code : \A row \in members[c] : ~row.name.broken

LEMMA UpsertUnbroken ==
  ASSUME TypeOK, Unbroken, NEW d, NEW name, ~name.broken, NEW k \in Code, Upsert(d, name, k)
  PROVE  \A c \in Code : \A row \in members'[c] : ~row.name.broken
<1> DEFINE new == [device |-> d, name |-> name]
<1>1. members' = [members EXCEPT ![k] = {row \in members[k] : row.device # d} \cup {new}]
  BY DEF Upsert
<1>2. ~new.name.broken
  OBVIOUS
<1> HIDE DEF new
<1>3. \A c \in Code : \A row \in members'[c] : row \in members[c] \/ row = new
  BY <1>1 DEF TypeOK
<1> QED BY <1>2, <1>3 DEF Unbroken

LEMMA InsertUnbroken ==
  ASSUME TypeOK, Unbroken, NEW d, NEW name, ~name.broken, NEW k \in Code,
         leagues' = [leagues EXCEPT ![k] = [owner |-> d, name |-> name]]
  PROVE  \A c \in Code : ~leagues'[c].name.broken
<1>1. \A c \in Code : c # k => leagues'[c] = leagues[c]
  BY DEF TypeOK
<1>2. leagues'[k].name = name
  BY DEF TypeOK
<1> QED BY <1>1, <1>2 DEF Unbroken

LEMMA UnbrokenKept ==
  ASSUME Typed, Unbroken, [Next]_vars
  PROVE  Unbroken'
<1>1. CASE UNCHANGED tables
  BY <1>1 DEF Unbroken, tables
<1>2. ASSUME NEW r \in Request, InsertMember(r) \/ InsertMemberFails(r)
      PROVE  Unbroken'
  <2>1. req[r].code \in Code /\ UNCHANGED leagues
    BY <1>2 DEF Typed, ReqTyped, InsertMember, InsertMemberFails
  <2>2. \/ UNCHANGED members
        \/ ~req[r].name.broken /\ Upsert(req[r].device, req[r].name, req[r].code)
    BY <1>2 DEF InsertMember, InsertMemberFails
  <2> QED BY <2>1, <2>2, UpsertUnbroken DEF Typed, Unbroken
<1>3. ASSUME NEW r \in Request, InsertLeague(r) \/ InsertLeagueFails(r)
      PROVE  Unbroken'
  <2>1. UNCHANGED members
    BY <1>3 DEF InsertLeague, InsertLeagueFails
  <2>2. \/ UNCHANGED leagues
        \/ /\ ~req[r].league.broken
           /\ \E c \in Code :
                leagues' = [leagues EXCEPT ![c] = [owner |-> req[r].device, name |-> req[r].league]]
    BY <1>3 DEF InsertLeague, InsertLeagueFails
  <2> QED BY <2>1, <2>2, InsertUnbroken DEF Typed, Unbroken
<1>4. ASSUME NEW r \in Request, PostLeague(r) \/ PostLeagueJoin(r)
      PROVE  Unbroken'
  BY <1>1, <1>4 DEF PostLeague, PostLeagueJoin
<1>5. CASE UNCHANGED vars
  BY <1>1, <1>5 DEF vars
<1> QED BY <1>2, <1>3, <1>4, <1>5 DEF Next

(* No name in the tables of the leagues hides a blocked word without double *)
(* letters, however it is spelled, none is empty, longer than its limit or  *)
(* cut inside a character: for every list of words, every folding of        *)
(* letters, every limit and names of any length.                            *)
THEOREM NamesCorrect == Spec => []NamesAreModerated
<1>1. ASSUME TypeOK, Unbroken
      PROVE  NamesAreModerated
  <2>1. ASSUME NEW c \in Code
        PROVE  leagues[c].name \in ProperNames
    <3>1. leagues[c].name \in LeagueName \/ leagues[c].name = ArkadasLigi
      BY <1>1 DEF TypeOK, NoLeague
    <3>2. ~leagues[c].name.broken
      BY <1>1 DEF Unbroken
    <3>3. leagues[c].name = ArkadasLigi \/ Proper(leagues[c].name, LeagueNameLimit)
      BY <3>1, <3>2, GroupsAreProper
    <3> QED BY <3>1, <3>3 DEF ProperNames
  <2>2. ASSUME NEW c \in Code, NEW row \in members[c]
        PROVE  row.name \in ProperNames
    <3>1. row.name \in Name /\ ~row.name.broken
      BY <1>1 DEF TypeOK, Unbroken
    <3>2. row.name \in {Anonim, Oyuncu} \/ Proper(row.name, NameLimit)
      BY <3>1, PlayersAreProper
    <3> QED BY <3>1, <3>2 DEF ProperNames
  <2> QED BY <2>1, <2>2 DEF NamesAreModerated, Stored
<1>2. Init => Unbroken
  <2>1. ArkadasLigi.broken = FALSE
    BY DEF ArkadasLigi, ServerName
  <2>2. NoLeague.name = ArkadasLigi
    BY DEF NoLeague
  <2> QED BY <2>1, <2>2 DEF Init, Unbroken
<1> QED BY <1>1, <1>2, InvCorrect, UnbrokenKept, PTL DEF Spec, Inv, Typed

-----------------------------------------------------------------------------
(* The owner of a league.  CreateLeague stores the league first and the row *)
(* of its owner then: in between he is a member only to be.                 *)

Founding(c) ==
  \E r \in Request : /\ pc[r] = "own" /\ req[r].code = c
                     /\ req[r].device = leagues[c].owner

Founded == \A c \in Code : Exists(c) => leagues[c].owner \in MemberOf(c) \/ Founding(c)

LEMMA InitFounded == Init => Founded
BY DEF Init, Founded, Exists

\* Whoever is a member stays one; whoever is to become one does, or is still to.
LEMMA FoundedStays ==
  ASSUME Inv, Founded, Grows, NEW c \in Code, leagues'[c] = leagues[c], Exists(c),
         \A r \in Request : pc[r] = "own" =>
           \/ pc'[r] = "own" /\ req'[r] = req[r]
           \/ req[r].device \in {m.device : m \in members'[req[r].code]}
  PROVE  leagues'[c].owner \in MemberOf(c)' \/ Founding(c)'
<1>1. CASE leagues[c].owner \in MemberOf(c)
  BY <1>1 DEF Grows
<1>2. CASE Founding(c)
  <2>1. PICK r \in Request : /\ pc[r] = "own" /\ req[r].code = c
                             /\ req[r].device = leagues[c].owner
    BY <1>2 DEF Founding
  <2>2. CASE pc'[r] = "own" /\ req'[r] = req[r]
    BY <2>1, <2>2 DEF Founding
  <2>3. CASE req[r].device \in {m.device : m \in members'[req[r].code]}
    BY <2>1, <2>3 DEF MemberOf
  <2> QED BY <2>1, <2>2, <2>3
<1> QED BY <1>1, <1>2 DEF Founded

LEMMA FoundedKept ==
  ASSUME MayFail = FALSE, \A name \in Name : ~name.broken,
         Inv, Founded, [Next]_vars
  PROVE  Founded'
<1> SUFFICES ASSUME NEW c \in Code, Exists(c)'
             PROVE  leagues'[c].owner \in MemberOf(c)' \/ Founding(c)'
  BY DEF Founded
<1>0. /\ leagues \in [Code -> [owner : Device, name : LeagueName] \cup {NoLeague}]
      /\ pc \in [Request -> {"idle", "create", "own", "join"}]
      /\ req \in [Request -> Request0]
  BY DEF Inv, Typed, TypeOK
<1>1. ASSUME NEW r \in Request, PostLeague(r) \/ PostLeagueJoin(r)
      PROVE  leagues'[c].owner \in MemberOf(c)' \/ Founding(c)'
  <2>1. pc[r] = "idle" /\ UNCHANGED tables
    BY <1>1 DEF PostLeague, PostLeagueJoin
  <2>2. \A s \in Request : pc[s] = "own" => pc'[s] = "own" /\ req'[s] = req[s]
    BY <1>0, <1>1, <2>1 DEF PostLeague, PostLeagueJoin, Go
  <2> QED BY <2>1, <2>2, FoundedStays, NothingGrows DEF tables, Exists
<1>2. ASSUME NEW r \in Request, InsertLeague(r)
      PROVE  leagues'[c].owner \in MemberOf(c)' \/ Founding(c)'
  <2>1. pc[r] = "create" /\ UNCHANGED members
    BY <1>2 DEF InsertLeague
  <2>2. \A s \in Request : pc[s] = "own" => pc'[s] = "own" /\ req'[s] = req[s]
    BY <1>0, <1>2, <2>1 DEF InsertLeague, Answer, Go
  <2>3. CASE UNCHANGED leagues
    BY <2>1, <2>2, <2>3, FoundedStays, NothingGrows DEF tables, Exists
  <2>4. CASE ~UNCHANGED leagues
    <3>1. PICK k \in Code :
            /\ ~Exists(k)
            /\ leagues' = [leagues EXCEPT ![k] = [owner |-> req[r].device, name |-> req[r].league]]
            /\ req' = [req EXCEPT ![r] = Owning(req[r], k)]
            /\ Go(r, "own")
      BY <1>2, <2>4 DEF InsertLeague
    <3>2. Grows /\ leagues'[k].owner = req[r].device
      BY <2>1, <3>1, InsertGrows DEF Inv
    <3>3. CASE c = k
      <4>1. pc'[r] = "own" /\ req'[r] = Owning(req[r], k)
        BY <1>0, <3>1 DEF Go
      <4>2. req'[r].code = k /\ req'[r].device = req[r].device
        BY <1>0, <4>1, OwningType
      <4> QED BY <3>2, <3>3, <4>1, <4>2 DEF Founding
    <3>4. CASE c # k
      <4>1. leagues'[c] = leagues[c]
        BY <1>0, <3>1, <3>4
      <4> QED BY <2>2, <3>2, <4>1, FoundedStays DEF Exists
    <3> QED BY <3>3, <3>4
  <2> QED BY <2>3, <2>4
<1>3. ASSUME NEW r \in Request, InsertLeagueFails(r)
      PROVE  leagues'[c].owner \in MemberOf(c)' \/ Founding(c)'
  <2>1. pc[r] = "create" /\ UNCHANGED tables /\ Answer(r)
    BY <1>3 DEF InsertLeagueFails, tables
  <2>2. \A s \in Request : pc[s] = "own" => pc'[s] = "own" /\ req'[s] = req[s]
    BY <1>0, <2>1 DEF Answer, Go
  <2> QED BY <2>1, <2>2, FoundedStays, NothingGrows DEF tables, Exists
<1>4. ASSUME NEW r \in Request, InsertMember(r)
      PROVE  leagues'[c].owner \in MemberOf(c)' \/ Founding(c)'
  <2>1. /\ pc[r] \in {"own", "join"} /\ UNCHANGED leagues /\ Answer(r)
        /\ Upsert(req[r].device, req[r].name, req[r].code)
    BY <1>4 DEF InsertMember
  <2>2. Grows /\ req[r].device \in {m.device : m \in members'[req[r].code]}
    BY <2>1, UpsertGrows DEF Inv
  <2>3. \A s \in Request \ {r} : pc'[s] = pc[s] /\ req'[s] = req[s]
    BY <1>0, <2>1 DEF Answer, Go
  <2> QED BY <2>1, <2>2, <2>3, FoundedStays DEF Exists
<1>5. ASSUME NEW r \in Request PROVE ~InsertMemberFails(r)
  BY DEF InsertMemberFails, Inv, Typed, ReqTyped
<1>6. CASE UNCHANGED vars
  BY <1>6, FoundedStays, NothingGrows DEF vars, tables, Exists
<1> QED BY <1>1, <1>2, <1>3, <1>4, <1>5, <1>6 DEF Next

(* When no call fails and no player's name is cut inside a character, the   *)
(* two statements of CreateLeague do what its comment says: the league's    *)
(* owner is a member, however codes collide.  So a failed call and a name   *)
(* cut in two are the only ways to a league without its owner.              *)
THEOREM OwnerCorrect ==
  ASSUME MayFail = FALSE, \A name \in Name : ~name.broken
  PROVE  Spec => []OwnerIsMember
<1>1. Founded => OwnerIsMember
  BY DEF Founded, Founding, OwnerIsMember
<1>2. Inv /\ Founded /\ [Next]_vars => Founded'
  BY FoundedKept
<1> QED BY <1>1, <1>2, InitFounded, InvCorrect, PTL DEF Spec

=============================================================================
