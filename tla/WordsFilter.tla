---------------------------- MODULE WordsFilter ----------------------------
(***************************************************************************)
(* WordsFilter.find: the blocked entry that a text is reported for.        *)
(* Entries and texts are sequences of characters, lower-cased by both      *)
(* sides; the Aho-Corasick automaton is what it yields: every occurrence   *)
(* of an entry, by its end, the longest first where several end together.  *)
(***************************************************************************)
EXTENDS Integers, Sequences

CONSTANTS
  Characters,
  AsciiWord, \* the characters [a-zA-Z0-9_]
  Letters    \* the characters that are isalnum() or "_", of any alphabet

ASSUME WordsFilterAssumption ==
  AsciiWord \subseteq Letters /\ Letters \subseteq Characters

NeedsBoundaryCheck(e) == \A i \in DOMAIN e : e[i] \in AsciiWord

IsWordBoundary(text, m) ==
  /\ m.start = 1 \/ text[m.start - 1] \notin Letters
  /\ m.end = Len(text) \/ text[m.end + 1] \notin Letters

Occurrences(entries, text) ==
  {m \in [start : 1..Len(text), end : 1..Len(text)] :
     m.start <= m.end /\ SubSeq(text, m.start, m.end) \in entries}

Length(m) == m.end - m.start + 1

Span(s, e) == [start |-> s, end |-> e]
NoMatch == Span(1, 0)

Counts(text, m) ==
  NeedsBoundaryCheck(SubSeq(text, m.start, m.end)) => IsWordBoundary(text, m)

(* Among equal lengths an occurrence has to start before the best one      *)
(* would if it ended here too.                                             *)
Better_Latest(m, best) == Length(m) >= Length(best) \* faulty: the last wins
Better(m, best) ==
  \/ Length(m) > Length(best)
  \/ Length(m) = Length(best) /\ m.start < m.end - Length(best) + 1

Choice(entries, text, best, m) ==
  IF m \in Occurrences(entries, text) /\ Counts(text, m) /\ Better(m, best)
  THEN m ELSE best

(* The loop over the automaton's matches: those that end at e, and all.    *)
BestEndingAt(entries, text, e, before) ==
  LET best[s \in 0..e] ==
        IF s = 0 THEN before
        ELSE Choice(entries, text, best[s - 1], Span(s, e))
  IN best[e]

Best(entries, text) ==
  LET best[e \in 0..Len(text)] ==
        IF e = 0 THEN NoMatch ELSE BestEndingAt(entries, text, e, best[e - 1])
  IN best[Len(text)]

Find(entries, text) ==
  LET best == Best(entries, text) IN SubSeq(text, best.start, best.end)

-----------------------------------------------------------------------------
(* What find promises: the longest entry that occurs, as a word of its own *)
(* if it is a word, and of several the one that starts first.              *)
Admissible(entries, text) ==
  {m \in Occurrences(entries, text) : Counts(text, m)}

IsLongestMatch(entries, text, found) ==
  LET all == Admissible(entries, text) IN
  IF all = {} THEN found = <<>>
  ELSE \E m \in all :
         /\ found = SubSeq(text, m.start, m.end)
         /\ \A n \in all : \/ Length(n) < Length(m)
                           \/ Length(n) = Length(m) /\ m.start <= n.start
=============================================================================
