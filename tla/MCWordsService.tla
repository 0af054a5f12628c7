--------------------------- MODULE MCWordsService ---------------------------
(* "a", "b": ASCII letters; "h": a letter of another alphabet; "+": none.  *)
EXTENDS WordsService
Ascii == {"a", "b"}
CONSTANTS h1, h2
AllLetters == {"a", "b", "h"}
AllCharacters == AllLetters \cup {"+"}
ThreeEntries == {<<"a">>, <<"a", "b">>, <<"b", "+">>}
OneSeed == {<<"a">>}
ShortTexts == UNION {[1..n -> AllCharacters] : n \in 0..3}
=============================================================================
