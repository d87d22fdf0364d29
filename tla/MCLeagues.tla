----------------------------- MODULE MCLeagues -----------------------------
(***************************************************************************)
(* Leagues on a small instance.  "bas" is blocked and so is "abb", which no *)
(* normalized name contains: the name "abb" is kept.  A name may be cut     *)
(* after 6 bytes and a league's name after 7, and each limit falls into the *)
(* last character of one of the names.                                      *)
(***************************************************************************)
EXTENDS Leagues, TLC

Spaces == {" "}
WideCharacters == {"s,"}
Letters == [c \in {" ", ".", "a", "4", "b", "s", "s,"} |->
  CASE c \in {"a", "4"} -> "a" [] c = "b" -> "b" [] c \in {"s", "s,"} -> "s" [] OTHER -> "-"]
Blocked == {<<"b", "a", "s">>, <<"a", "b", "b">>}

Doubled == <<"a", "b", "b">>
Hidden == <<" ", "b", "4", ".", "a", "s,">>
CutInName == <<"s", "a", "s", "a", "s", "s,">>
CutInLeagueName == <<"a", "b", "s", "a", "b", "s", "s,">>
Players == {Doubled, Hidden, CutInName}
Groups == {Hidden, CutInLeagueName}

Symmetry == Permutations(Device) \cup Permutations(Request) \cup Permutations(Code)

=============================================================================
