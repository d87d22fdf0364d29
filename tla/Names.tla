------------------------------- MODULE Names -------------------------------
(***************************************************************************)
(* The names players and leagues get: trimmed, cut to a number of bytes    *)
(* and compared with a list of words nobody may be called.  A name is a    *)
(* sequence of characters; of a character only its size and the letter it  *)
(* stands for matter.                                                      *)
(***************************************************************************)
EXTENDS Integers, FiniteSets, Sequences, FiniteSetsExt

CONSTANTS
  Blank,       \* the characters TrimSpace removes
  LetterOf,    \* what normalize makes of a character: a letter, or NoLetter
  NoLetter,    \* a character that is skipped
  Wide,        \* the characters of two bytes
  Blocklist,   \* the blocked words, sequences of letters
  NameLimit, LeagueNameLimit   \* in bytes: 24 and 30

ASSUME NamesAssumption ==
  /\ NameLimit \in Nat \ {0} /\ LeagueNameLimit \in Nat \ {0}
  /\ Blank \subseteq DOMAIN LetterOf /\ Wide \subseteq DOMAIN LetterOf
  /\ Blocklist \subseteq Seq({LetterOf[c] : c \in DOMAIN LetterOf})

Size(chars) == Len(chars) + Cardinality({i \in DOMAIN chars : chars[i] \in Wide})

TrimSpace(chars) ==
  LET solid == {i \in DOMAIN chars : chars[i] \notin Blank}
  IN IF solid = {} THEN <<>> ELSE SubSeq(chars, Min(solid), Max(solid))

\* The bytes up to the limit: whole characters, and half a character behind
\* them if the limit falls into one.
Cut(chars, limit) ==
  LET whole == Max({k \in 0 .. Len(chars) : Size(SubSeq(chars, 1, k)) <= limit})
  IN [chars |-> SubSeq(chars, 1, whole),
      broken |-> Size(chars) > limit /\ Size(SubSeq(chars, 1, whole)) < limit]

LettersIn(chars) == {i \in DOMAIN chars : LetterOf[chars[i]] # NoLetter}

\* Mutant: a skipped character ends a repetition.
KeptIfBroken(chars) ==
  {i \in LettersIn(chars) : i = 1 \/ LetterOf[chars[i - 1]] # LetterOf[chars[i]]}

\* What is no letter is skipped, and so is a letter that repeats the last one.
Kept(chars) ==
  {i \in LettersIn(chars) :
     \A h \in LettersIn(chars) :
       h < i /\ (\A g \in LettersIn(chars) : g <= h \/ g >= i)
         => LetterOf[chars[h]] # LetterOf[chars[i]]}

\* How many of the positions in S come no later than i.
Place(S, i) == Cardinality({k \in S : k <= i})

\* The letters kept, folded, in their order.
normalize(chars) ==
  LET kept == Kept(chars)
  IN [j \in 1 .. Cardinality(kept) |-> LetterOf[chars[CHOOSE i \in kept : Place(kept, i) = j]]]

HasSubstring(letters, word) ==
  \E i \in 0 .. Len(letters) - Len(word) : SubSeq(letters, i + 1, i + Len(word)) = word

IsProfane(chars) == \E word \in Blocklist : HasSubstring(normalize(chars), word)

\* The names the server gives itself.
ServerName(name) == [chars |-> <<name>>, broken |-> FALSE]
Anonim == ServerName("Anonim")
Oyuncu == ServerName("Oyuncu")
ArkadasLigi == ServerName("Arkadas Ligi")

clampName(raw) ==
  LET trimmed == TrimSpace(raw)
      name == Cut(trimmed, NameLimit)
  IN IF trimmed = <<>> THEN Anonim
     ELSE IF IsProfane(name.chars) THEN Oyuncu
     ELSE name

leagueName(raw) ==
  LET name == Cut(TrimSpace(raw), LeagueNameLimit)
  IN IF name = Cut(<<>>, LeagueNameLimit) \/ IsProfane(name.chars) THEN ArkadasLigi
     ELSE name

-----------------------------------------------------------------------------
(* What the comment of moderation.go promises, without normalize: a word is *)
(* found although its letters are repeated, replaced by look-alikes or set  *)
(* apart by other characters.                                               *)

\* at[i] is the letter of the word that character i of the name stands for, 0
\* before the word and one more than its length after it.
Spells(chars, word, at) ==
  /\ \A i \in DOMAIN chars :
       LET before == IF i = 1 THEN 0 ELSE at[i - 1]
       IN IF LetterOf[chars[i]] = NoLetter THEN at[i] = before
          ELSE /\ at[i] \in {before, before + 1}
               /\ at[i] \in DOMAIN word => LetterOf[chars[i]] = word[at[i]]
  /\ Len(word) \in {at[i] : i \in DOMAIN chars}

Hides(chars, word) ==
  \E at \in [DOMAIN chars -> 0 .. Len(word) + 1] : Spells(chars, word, at)

=============================================================================
