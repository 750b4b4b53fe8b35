--------------------------- MODULE FullTextMatches ---------------------------
(***************************************************************************)
(* The iterators of src/fulltext: what each AllMatches class delivers, in  *)
(* order, when it is pulled until next() returns false, given what the     *)
(* iterators below it deliver.  A match has the tokens the text must hold  *)
(* (string includes) and those it must not hold (string excludes); an      *)
(* iterator is its matches, and whether it ends by raising an error.       *)
(***************************************************************************)
EXTENDS Integers, FiniteSets, Sequences, SequencesExt, FiniteSetsExt

CONSTANT UINT_MAX   \* the largest unsigned int; larger than any token position

ASSUME UnsignedAssumption == UINT_MAX \in Nat

Unsigned(n) == n % (UINT_MAX + 1)

\* Units of distance (FTOption::FTUnit); a text has one paragraph, for
\* DefaultTokenStream never counts one.
Units == {"words", "sentences", "paragraphs"}

\* A StringMatch: the number of the query's word, the token and the marks
\* of "at start" and "at end".
StringMatch_OneSentence(q, token) ==
  [queryPos |-> q, position |-> token.position, sentence |-> 0, startToken |-> FALSE, endToken |-> FALSE]

StringMatch(q, token) ==
  [queryPos |-> q, position |-> token.position, sentence |-> token.sentence,
   startToken |-> FALSE, endToken |-> FALSE]

TokenUnit(m, unit) ==
  CASE unit = "words" -> m.position [] unit = "sentences" -> m.sentence [] unit = "paragraphs" -> 0

\* Tokens between two words, sentences between two sentences; a difference
\* of unsigned integers, so a token is as far as can be from itself.
Apart(a, b, unit) ==
  LET d == TokenUnit(a, unit) - TokenUnit(b, unit) IN IF d < 0 THEN -d ELSE d

TokenDistance(a, b, unit) ==
  IF unit = "words" THEN Unsigned(Apart(a, b, unit) - 1) ELSE Apart(a, b, unit)

NoMatch == [matches |-> <<>>, raises |-> FALSE]
Delivers(ms) == [matches |-> ms, raises |-> FALSE]
NothingAsked == [includes |-> <<>>, excludes |-> <<>>]

\* An iterator that passes on those matches of another that keep a condition.
Those(arg, Keep(_)) == [arg EXCEPT !.matches = SelectSeq(@, Keep)]

\* An iterator that changes each match of another.
Each(arg, Change(_)) == [arg EXCEPT !.matches = [i \in DOMAIN @ |-> Change(@[i])]]

\* One match for every token of the document that is the word.
FTStringSearchMatches(doc, word, q) ==
  LET tokens == SelectSeq(doc, LAMBDA t : t.word = word)
  IN  Delivers([i \in DOMAIN tokens |->
        [includes |-> <<StringMatch(q, tokens[i])>>, excludes |-> <<>>]])

\* The matches of the arguments one after the other.
FTDisjunctionMatches(l, r) ==
  IF l.raises THEN l ELSE [r EXCEPT !.matches = l.matches \o @]

\* Every match of the left one with every match of the right one, which is
\* pulled for the first match of the left one and replayed after that (the
\* iteration is modelled in FTConjunction, which also says that matches may
\* be delivered twice).
Both(m, n) == [includes |-> m.includes \o n.includes, excludes |-> m.excludes \o n.excludes]

FTConjunctionMatches(l, r) ==
  LET Pairs(n) == FlattenSeq([i \in 1..n |-> [j \in DOMAIN r.matches |-> Both(l.matches[i], r.matches[j])]])
  IN  IF l.matches # <<>> /\ r.raises
        THEN [matches |-> Pairs(1), raises |-> TRUE]
        ELSE [matches |-> Pairs(Len(l.matches)), raises |-> l.raises]

\* A single match that excludes whatever the argument's matches include.
FTUnaryNotMatches(arg) ==
  IF arg.raises THEN [NoMatch EXCEPT !.raises = TRUE]
  ELSE Delivers(<<[includes |-> FlattenSeq([i \in DOMAIN arg.matches |-> arg.matches[i].excludes]),
                   excludes |-> FlattenSeq([i \in DOMAIN arg.matches |-> arg.matches[i].includes])]>>)

\* The matches of the left one that share no token with a match of the
\* right one.  The right one is pulled first, to its end; a match that
\* excludes anything raises FTDY0017 on either side.
Excluding(m) == m.excludes # <<>>
Positions(m) == {m.includes[i].position : i \in DOMAIN m.includes}

FTMildnotMatches_FirstOfRight(l, r) ==
  LET badTokens == IF r.matches = <<>> THEN {} ELSE Positions(r.matches[1])
  IN  Those(l, LAMBDA m : Positions(m) \cap badTokens = {})

FTMildnotMatches(l, r) ==
  LET badTokens == UNION {Positions(r.matches[j]) : j \in DOMAIN r.matches}
      bad       == {i \in DOMAIN l.matches : Excluding(l.matches[i])}
      pulled    == IF bad = {} THEN l.matches ELSE SubSeq(l.matches, 1, Min(bad) - 1)
  IN  IF r.raises \/ \E j \in DOMAIN r.matches : Excluding(r.matches[j])
        THEN [NoMatch EXCEPT !.raises = TRUE]
        ELSE [matches |-> SelectSeq(pulled, LAMBDA m : Positions(m) \cap badTokens = {}),
              raises  |-> bad # {} \/ l.raises]

\* FTOrder, FTDistance and FTScope hand on their argument's includes.  Each
\* has a buffer for the excludes it keeps, which next() empties and
\* getStringExcludes() fills only when it is not empty: none are handed on.
ExcludesLost(m) == [m EXCEPT !.excludes = <<>>]

InOrder(m) ==
  \A i, j \in DOMAIN m.includes : i < j =>
    LET a == m.includes[i]  b == m.includes[j]
    IN  /\ ~(a.queryPos > b.queryPos /\ a.position < b.position)
        /\ ~(a.queryPos < b.queryPos /\ a.position > b.position)

FTOrderMatches(arg) == Each(Those(arg, InOrder), ExcludesLost)

\* The four ranges of FTDistance, their bounds converted to unsigned int.
DistanceMatches(range, actual) ==
  CASE range.type = "exactly"  -> actual = range.from
    [] range.type = "at least" -> actual >= range.from
    [] range.type = "at most"  -> actual <= range.from
    [] range.type = "from to"  -> range.from <= actual /\ actual <= range.to

\* Neighbours in the order of the text are the right distance apart.
Spaced(m, range, unit) ==
  LET s == SortSeq(m.includes, LAMBDA a, b : a.position < b.position)
  IN  \A i \in 1..Len(s) - 1 : DistanceMatches(range, TokenDistance(s[i], s[i + 1], unit))

FTDistanceMatches(arg, range, unit) == Each(Those(arg, LAMBDA m : Spaced(m, range, unit)), ExcludesLost)

\* Matches whose tokens fit into a window; those without a token are passed
\* over.  What lies before the first token or beyond the window that begins
\* with it need not be excluded.  When all tokens of a match have the same
\* unit, the set of values to exclude from has one element, and the iterator
\* takes its end for the end of its argument's matches.
UnitsOf(m, unit) == {TokenUnit(m.includes[i], unit) : i \in DOMAIN m.includes}

InWindow(m, n, unit) == m.includes # <<>> /\ Max(UnitsOf(m, unit)) - Min(UnitsOf(m, unit)) + 1 <= n

WithinWindow(m, n, unit) ==
  LET first == Min(UnitsOf(m, unit))
  IN  [m EXCEPT !.excludes = SelectSeq(@, LAMBDA e : TokenUnit(e, unit) \in first..first + n - 1)]

LastWindow(ms, unit) ==
  LET single == {i \in DOMAIN ms : Cardinality(UnitsOf(ms[i], unit)) = 1}
  IN  IF single = {} THEN Len(ms) ELSE Min(single)

FTWindowMatches(arg, n, unit) ==
  LET fit  == SelectSeq(arg.matches, LAMBDA m : InWindow(m, n, unit))
      last == LastWindow(fit, unit)
      kept == SubSeq(fit, 1, last)
  IN  [matches |-> [i \in DOMAIN kept |-> WithinWindow(kept[i], n, unit)],
       raises  |-> arg.raises /\ \A i \in DOMAIN fit : Cardinality(UnitsOf(fit[i], unit)) # 1]

\* "same sentence" passes over matches of fewer than two tokens.
AllTheSame(m, unit) == Len(m.includes) >= 2 /\ Cardinality(UnitsOf(m, unit)) = 1
AllDifferent(m, unit) == Cardinality(UnitsOf(m, unit)) = Len(m.includes)

FTScopeSameMatches(arg, unit) == Each(Those(arg, LAMBDA m : AllTheSame(m, unit)), ExcludesLost)
FTScopeDifferentMatches(arg, unit) == Each(Those(arg, LAMBDA m : AllDifferent(m, unit)), ExcludesLost)

\* "at start" and "at end" mark the first and the last token of a match;
\* FTContains looks at the marks.  Matches without a token are passed over.
Extreme_First(m, sign) == 1

\* The first of the includes with the least position, or, with the sign -1, the
\* greatest.
Extreme(m, sign) ==
  CHOOSE i \in DOMAIN m.includes :
    \A j \in DOMAIN m.includes :
      /\ sign * m.includes[i].position <= sign * m.includes[j].position
      /\ (j < i => m.includes[j].position # m.includes[i].position)

HasToken(m) == m.includes # <<>>

FTContentAtStartMatches(arg) ==
  Each(Those(arg, HasToken), LAMBDA m : [m EXCEPT !.includes[Extreme(m, 1)].startToken = TRUE])

FTContentAtEndMatches(arg) ==
  Each(Those(arg, HasToken), LAMBDA m : [m EXCEPT !.includes[Extreme(m, -1)].endToken = TRUE])

\* Whether the marks of a token agree with where it is, and FTContains's
\* test of a match.
Placed(s, doc) == (s.startToken => s.position = 0) /\ (s.endToken => s.position = Len(doc) - 1)

Succeeds(m, doc) ==
  /\ \A i \in DOMAIN m.includes : Placed(m.includes[i], doc)
  /\ \A i \in DOMAIN m.excludes : ~Placed(m.excludes[i], doc)

\* boolResult() for one node: matches are pulled until one succeeds.
BoolResult(arg, doc) ==
  IF \E i \in DOMAIN arg.matches : Succeeds(arg.matches[i], doc) THEN "true"
  ELSE IF arg.raises THEN "FTDY0017" ELSE "false"
==============================================================================
